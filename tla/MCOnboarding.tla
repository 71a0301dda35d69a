---------------------------- MODULE MCOnboarding ----------------------------
(* Instances of Onboarding for TLC.                                        *)
EXTENDS Onboarding, TLC

\* Two letters, the capital of one, and what is no letter.
Small   == {"a", "b"}
ToLower == [ch \in Small \cup {"A", "-"} |-> IF ch = "A" THEN "a" ELSE ch]
Client  == <<"b">>

\* A name to trim in front, and to cut within a run of other characters.
AName == <<"-", "a", "-", "-", "A">>

\* None, one with no letter in it, and the one above.
Names == {<<>>, <<"-">>, AName}

\* Whatever the first request gives, the others give the name above, or none.
FewFollow ==
    arrived > 0 =>
        \A r \in Request : job'[r] = job[r] \/ job'[r].name \in {<<>>, AName}

RequestSymmetry == Permutations(Request)
=============================================================================
