------------------------ MODULE MCLifecycleRetries ------------------------
(* Instances of LifecycleRetries for TLC.                                  *)
EXTENDS LifecycleRetries

\* The states a caller asks for: every one a legal edge leads to.
AllTargets == Status \ {"draft"}
=============================================================================
