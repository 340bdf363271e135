----------------------------- MODULE MCSession -----------------------------
(* Session for TLC.                                                        *)
EXTENDS Session

KillAndReinstall == {"kill", "reinstall"}
=============================================================================
