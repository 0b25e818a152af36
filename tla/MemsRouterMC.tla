---------------------------- MODULE MemsRouterMC ----------------------------
(***************************************************************************)
(* The router with one side of the table of devices.c, for TLC.            *)
(***************************************************************************)
EXTENDS MemsRouter, MemsDevices

=============================================================================
