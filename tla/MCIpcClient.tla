---------------------------- MODULE MCIpcClient ----------------------------
(* Model-checking instances of the IPC client.                             *)
EXTENDS IpcClient, TLC
=============================================================================
