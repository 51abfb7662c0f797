----------------------------- MODULE MCIpcServer -----------------------------
(* Model-checking instances of the IPC server: one client sends requests,  *)
(* the other only receives.                                                *)
EXTENDS IpcServer

CONSTANTS c1, c2

OneSends == [c \in Conns |-> IF c = c1 THEN 1 ELSE 0]
=============================================================================
