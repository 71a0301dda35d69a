---------------------------- MODULE ClientMatrix ----------------------------
(***************************************************************************)
(* The client lifecycle state machine: the seven states of a client row    *)
(* and the eight legal edges between them.  registry.transition_client is  *)
(* the only authority on an edge; internal/registrydb/fake.go states the   *)
(* same list in Go.                                                        *)
(***************************************************************************)

Status == {"draft", "evidence_submitted", "filed_with_registrar",
           "registered", "active", "suspended", "offboarded"}

LegalTransitions ==
    {<<"draft", "evidence_submitted">>,
     <<"evidence_submitted", "filed_with_registrar">>,
     <<"filed_with_registrar", "registered">>,
     <<"registered", "active">>,
     <<"active", "suspended">>,
     <<"suspended", "active">>,
     <<"suspended", "offboarded">>,
     <<"active", "offboarded">>}

\* The two states lifecycle.Service knows to be legal predecessors of "active".
ActivePredecessors == {"registered", "suspended"}

\* The states a client can only be in after it has been activated once.
Activated == {"active", "suspended", "offboarded"}
=============================================================================
