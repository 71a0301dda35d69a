--------------------------- MODULE MCRegistration ---------------------------
(* Instances of Registration for TLC: registration requests by the dozen.  *)
EXTENDS Registration, TLC

ASupervisory == [country |-> "LV", email |-> <<"m">>, phone |-> <<>>, formUri |-> <<>>]

Credential(format, types, all, claims) ==
    [format |-> format, types |-> types, allClaims |-> all, claims |-> claims]

ACredential == Credential("mso_mdoc", <<"t">>, FALSE, <<<<"p">>>>)

Use(credentials) ==
    [purpose     |-> <<[lang |-> "l", content |-> "x"]>>,
     policies    |-> <<"https">>,
     credentials |-> credentials]

ABody ==
    [legalKind |-> "legalPerson", legalName |-> <<"n">>,
     givenName |-> "", familyName |-> "", euid |-> "e", otherIds |-> <<>>,
     country |-> "LV", email |-> <<"">>, supervisory |-> ASupervisory,
     uses |-> <<Use(<<ACredential>>)>>]

-----------------------------------------------------------------------------
\* One credential: every format with every kind of types and claims lists.
Credentials ==
    {Credential(format, types, all, claims) :
        format \in Formats \cup {"jwt_vc"},
        types  \in {<<>>, <<"">>, <<"t">>, <<"", "t">>, <<"t", "u">>},
        all    \in BOOLEAN,
        claims \in {<<>>, <<<<>>>>, <<<<"p">>>>, <<<<"p", "">>>>,
                    <<<<"p">>, <<"p", "q">>>>}}

Purposes == {<<>>} \cup {<<[lang |-> a, content |-> b]>> : a, b \in {"", "l"}}

Policies == {<<>>, <<"https">>, <<"http">>, <<"https", "no_host">>}

\* Good and bad credentials behind one another, in one use and in two.
UseLists ==
    {<<>>, <<Use(<<>>)>>}
    \cup {<<Use(<<cf>>)>> : cf \in Credentials}
    \cup {<<Use(<<ACredential, cf>>)>> : cf \in Credentials}
    \cup {<<Use(<<cf>>), Use(<<ACredential>>)>> : cf \in Credentials}
    \cup {<<[purpose |-> p, policies |-> q, credentials |-> <<ACredential>>]>> :
              p \in Purposes, q \in Policies}

Supervisories ==
    [country : {"LV", "lv"}, email : {<<>>, <<"">>, <<"m">>},
     phone : {<<>>, <<"m">>}, formUri : {<<>>, <<"https">>}]

OtherIds ==
    {<<>>, <<[type |-> "EUID", id |-> "e"]>>, <<[type |-> "v", id |-> ""]>>,
     <<[type |-> "v", id |-> "i"], [type |-> "EUID", id |-> "e"]>>}

Heads ==
    [legalKind : {"legalPerson", "naturalPerson", ""},
     legalName : {<<>>, <<"", "n">>}, givenName : {"", "g"}, familyName : {"", "f"},
     euid : {"", "e"}, otherIds : OtherIds]

WideBodies ==
    {[ABody EXCEPT !.uses = uses] : uses \in UseLists}
    \cup {[ABody EXCEPT !.supervisory = sa, !.country = country] :
              sa \in Supervisories, country \in {"LV", ""}}
    \cup {[ABody EXCEPT !.legalKind = h.legalKind, !.legalName = h.legalName,
                        !.givenName = h.givenName, !.familyName = h.familyName,
                        !.euid = h.euid, !.otherIds = h.otherIds] : h \in Heads}

\* One use, two uses, none.
FewBodies ==
    {ABody,
     [ABody EXCEPT !.uses =
        <<Use(<<Credential("dc+sd-jwt", <<"", "t", "u">>, TRUE, <<>>)>>),
          Use(<<ACredential>>)>>],
     [ABody EXCEPT !.uses = <<>>]}

\* After a submission of any kind only those few interleave with it.
FewFollow ==
    arrived > 0 =>
        \A r \in Request : job'[r] \in {job[r], NoJob} \/ job'[r].body \in FewBodies

RequestSymmetry == Permutations(Request)

Symmetry == RequestSymmetry \cup Permutations(RegistrarId \ {Blank})
=============================================================================
