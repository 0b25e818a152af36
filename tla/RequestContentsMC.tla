--------------------------- MODULE RequestContentsMC ---------------------------
(***************************************************************************)
(* Lengths next to the sizes of the code's arrays, for TLC.                *)
(***************************************************************************)
EXTENDS RequestContents

BoundaryKeys   == {Absent, 0, 47, 48}
BoundaryTopics == {Absent, 0, 63, 64}

=============================================================================
