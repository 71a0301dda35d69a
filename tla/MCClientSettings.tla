-------------------------- MODULE MCClientSettings --------------------------
(* Instances of ClientSettings for TLC.                                    *)
EXTENDS ClientSettings

AnOrigin == [NoAddress EXCEPT !.scheme = "https", !.host = "h"]
WithPath == [AnOrigin EXCEPT !.path = "/p"]
WithPort == [AnOrigin EXCEPT !.port = "8443"]
AnIdentity == [uri |-> WithPath, id |-> "i"]


\* Refused by the handler alone, by the store alone, and by neither.
BadPort  == [AnOrigin EXCEPT !.port = "x"]
BareMark == [AnOrigin EXCEPT !.query = ""]
Plain    == [AnOrigin EXCEPT !.scheme = "http"]
Shouted  == [AnOrigin EXCEPT !.scheme = "HTTPS"]

Webhooks == {NoAddress, AnOrigin, WithPath, Plain, Shouted}

\* As many origins as the store takes, and one more.
OriginLists ==
    {Absent, <<>>, <<AnOrigin, WithPort>>, <<AnOrigin, BadPort>>, <<AnOrigin, WithPath>>,
     <<BareMark>>, <<Shouted>>}
    \cup {[i \in 1..n |-> WithPort] : n \in {MaxOrigins, MaxOrigins + 1}}

Identities ==
    {AnIdentity, [AnIdentity EXCEPT !.uri = AnOrigin]}
    \cup {[AnIdentity EXCEPT !.uri = a] : a \in {NoAddress, BadPort, Plain}}
    \cup {[AnIdentity EXCEPT !.id = ""]}

\* Another program's choice, taken, changed and withdrawn.
Choices == {NoChoices} \cup [{"trust_anchors"} -> {"some", "all"}]
=============================================================================
