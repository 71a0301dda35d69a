----------------------------- MODULE WebAddress -----------------------------
(***************************************************************************)
(* The checks the handlers and the store make on the addresses of a        *)
(* client: Go's url.Parse followed by a look at its parts, and regular     *)
(* expressions.  An address is the record of its parts.  "no" is a part    *)
(* that is absent, "" one that is present and empty, so that the string    *)
(* of "https", "no", "", "8443", "", "", "no" is "https://:8443?".         *)
(***************************************************************************)
EXTENDS Naturals, Sequences

Address ==
    [scheme   : {"no", "https", "HTTPS", "http"},
     user     : {"no", "u"},
     host     : {"", "h", "h h"},           \* "h h": white space in it
     port     : {"no", "", "8443", "x"},    \* "x": not a number
     path     : {"", "/p", "/ p"},          \* "/ p": white space in it
     query    : {"no", "", "q"},
     fragment : {"no", "", "f"}]

\* The empty string.
NoAddress ==
    [scheme |-> "no", user |-> "no", host |-> "", port |-> "no",
     path |-> "", query |-> "no", fragment |-> "no"]

WhiteSpace(a) == a.host = "h h" \/ a.path = "/ p"

\* url.Parse finds no fault: no white space in the host, a port of digits.
Parses(a) == a.host # "h h" /\ a.port # "x"

\* u.Scheme is lower-cased; u.Host is host and port as written.
IsHTTPS(a) == a.scheme \in {"https", "HTTPS"}
HasHost(a) == a.host # "" \/ a.port # "no"

IsAbsoluteHTTPSURL(a) == Parses(a) /\ IsHTTPS(a) /\ HasHost(a)

\* RawQuery and Fragment are empty for a bare "?" and a bare "#", too.
IsWebOrigin(a) ==
    /\ Parses(a) /\ IsHTTPS(a) /\ HasHost(a)
    /\ a.path = "" /\ a.user = "no"
    /\ a.query \in {"no", ""} /\ a.fragment \in {"no", ""}

\* ^https://\S+$
WebhookPattern(a) ==
    /\ a.scheme = "https"
    /\ a # [NoAddress EXCEPT !.scheme = "https"]
    /\ ~WhiteSpace(a)

\* ^https://[^\s/?#@]+$
WebOriginPattern(a) ==
    /\ a.scheme = "https" /\ HasHost(a)
    /\ a.user = "no" /\ a.path = "" /\ a.query = "no" /\ a.fragment = "no"
    /\ ~WhiteSpace(a)
=============================================================================
