---------------------------- MODULE MCLifecycle ----------------------------
(* Instances of Lifecycle for TLC.                                         *)
EXTENDS LifecycleRefinement

\* The states a caller asks for: every one a legal edge leads to.
AllTargets == Status \ {"draft"}
=============================================================================
