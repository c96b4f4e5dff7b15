---------------------------- MODULE MCRemoteCall ----------------------------
(* Instances of RemoteCall for TLC.                                        *)
EXTENDS RemoteCall

CONSTANTS g1, g2, g3, g4

(* SIGSEGV, SIGSTOP from somebody else, and signals the application        *)
(* handles.                                                                *)
MCKind ==
    [s \in Sig |-> CASE s = g1 -> "SEGV" [] s = g2 -> "STOP" [] OTHER -> "other"]

=============================================================================
