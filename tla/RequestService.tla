--------------------------- MODULE RequestService ---------------------------
(***************************************************************************)
(* What the firmware promises to a controller that publishes commands to   *)
(* cmd/hsfib-tib/req/#, without saying how: commands that are taken wait   *)
(* to be executed, one at a time and in the order of their arrival; every  *)
(* executed command gets one response, again in that order; and a busy     *)
(* NACK is only ever sent while MAX_PENDING_COMMANDS commands are waiting. *)
(* A restart may forget what is not answered, and never anything else.     *)
(* Commands are numbered in the order of their arrival.                    *)
(***************************************************************************)
EXTENDS Integers, FiniteSets

CONSTANTS
    MAX_PENDING_COMMANDS,  \* commands that may wait before one is turned away
    MaxRequests            \* bound: commands received in a behaviour

VARIABLES
    received,  \* how many commands have arrived
    waiting,   \* commands taken and not yet executed
    answers,   \* commands executed whose response is still to be sent
    nacks,     \* commands turned away whose busy NACK is still to be sent
    answered   \* commands whose response has been handed to the network

vars == <<received, waiting, answers, nacks, answered>>

IsOldest(r, S) == r \in S /\ \A q \in S : r <= q

Init ==
    /\ received = 0
    /\ waiting = {} /\ answers = {} /\ nacks = {} /\ answered = {}

Arrive ==
    /\ received < MaxRequests
    /\ received' = received + 1

\* Not a command, or not a well-formed one.
Ignore ==
    /\ Arrive
    /\ UNCHANGED <<waiting, answers, nacks, answered>>

\* One more than MAX_PENDING_COMMANDS: a command being executed waits as well.
Take ==
    /\ Arrive
    /\ Cardinality(waiting) <= MAX_PENDING_COMMANDS
    /\ waiting' = waiting \cup {received'}
    /\ UNCHANGED <<answers, nacks, answered>>

\* The NACK itself may be dropped, which looks like Ignore.
Refuse ==
    /\ Arrive
    /\ Cardinality(waiting) >= MAX_PENDING_COMMANDS
    /\ nacks' = nacks \cup {received'}
    /\ UNCHANGED <<waiting, answers, answered>>

Execute ==
    \E r \in waiting :
        /\ IsOldest(r, waiting)
        /\ waiting' = waiting \ {r}
        /\ answers' = answers \cup {r}
        /\ UNCHANGED <<received, nacks, answered>>

Answer ==
    \E r \in answers :
        /\ IsOldest(r, answers)
        /\ answers' = answers \ {r}
        /\ answered' = answered \cup {r}
        /\ UNCHANGED <<received, waiting, nacks>>

SendNack ==
    \E r \in nacks :
        /\ nacks' = nacks \ {r}
        /\ UNCHANGED <<received, waiting, answers, answered>>

\* The controller starts again and forgets what it had not answered.
Restart ==
    /\ waiting' = {} /\ answers' = {} /\ nacks' = {}
    /\ UNCHANGED <<received, answered>>

Next == Ignore \/ Take \/ Refuse \/ Execute \/ Answer \/ SendNack \/ Restart

Spec == Init /\ [][Next]_vars

\* What is taken is executed and what is executed is answered, whatever else
\* arrives, unless a restart comes first.
FairSpec == Spec /\ WF_vars(Execute) /\ WF_vars(Answer) /\ WF_vars(SendNack)

=============================================================================
