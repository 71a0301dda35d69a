------------------------------- MODULE Wizard -------------------------------
(***************************************************************************)
(* internal/wizard: a registration request is reshaped into a FormState,   *)
(* validated, and turned into the ts5.WalletRelyingParty document and the  *)
(* intended-use projection of it that the session service reads.           *)
(*                                                                         *)
(* A string is "" or a sample value; "LV" stands for the well-formed       *)
(* country codes, "https" for the absolute https URLs and "EUID" for the   *)
(* EUID type URI.  A list that is nil is the empty sequence.               *)
(***************************************************************************)
EXTENDS Selection

Formats == {"mso_mdoc", "dc+sd-jwt"}

DefaultPolicyType == "privacy-policy"

NonEmpty(ss) == Picked(ss, {i \in DOMAIN ss : ss[i] # ""})

-----------------------------------------------------------------------------
\* The body of PUT registration, as it is decoded: nothing but its shape.
RequestCredential ==
    [format : STRING, types : Seq(STRING), allClaims : BOOLEAN, claims : Seq(Seq(STRING))]

RequestUse ==
    [purpose     : Seq([lang : STRING, content : STRING]),
     policies    : Seq(STRING),
     credentials : Seq(RequestCredential)]

Contacts == [country : STRING, email : Seq(STRING), phone : Seq(STRING), formUri : Seq(STRING)]

RegistrationRequest ==
    [legalKind : STRING, legalName : Seq(STRING), givenName : STRING, familyName : STRING,
     euid : STRING, otherIds : Seq([type : STRING, id : STRING]), country : STRING,
     email : Seq(STRING), supervisory : Contacts, uses : Seq(RequestUse)]

(***************************************************************************)
(* routes/api_registration.go: the request has no phone and no policy      *)
(* type of its own; every policy gets the default type.  Nothing is        *)
(* trimmed, upper-cased or checked here.                                   *)
(***************************************************************************)
ToPolicies(uris) ==
    [i \in DOMAIN uris |-> [type |-> DefaultPolicyType, uri |-> uris[i]]]

ToFormState(req) ==
    [legalKind   |-> req.legalKind,
     legalName   |-> req.legalName,
     givenName   |-> req.givenName,
     familyName  |-> req.familyName,
     euid        |-> req.euid,
     otherIds    |-> req.otherIds,
     country     |-> req.country,
     email       |-> req.email,
     phone       |-> <<>>,
     supervisory |-> req.supervisory,
     uses        |-> [i \in DOMAIN req.uses |->
                        [purpose     |-> req.uses[i].purpose,
                         policies    |-> ToPolicies(req.uses[i].policies),
                         credentials |-> req.uses[i].credentials]]]

-----------------------------------------------------------------------------
(***************************************************************************)
(* Validation.  Build refuses a form at the first rule it breaks, with an  *)
(* error that names the rule; every one of them is answered with the same  *)
(* 422, so what is kept is whether a form is accepted.                     *)
(***************************************************************************)
HasLegalIdentity(f) ==
    \/ f.legalKind = "legalPerson" /\ NonEmpty(f.legalName) # <<>>
    \/ f.legalKind = "naturalPerson" /\ f.givenName # "" /\ f.familyName # ""

ValidCountry(c) == c = "LV"

\* The EUID comes first, then the other identifiers in the order given.
Identifiers(f) ==
    (IF f.euid = "" THEN <<>> ELSE <<[type |-> "EUID", id |-> f.euid]>>)
        \o f.otherIds

ValidIdentifiers_EUIDSuffices(f) ==
    \/ f.euid # ""
    \/ /\ \A i \in DOMAIN f.otherIds :
             f.otherIds[i].type # "" /\ f.otherIds[i].id # ""
       /\ Identifiers(f) # <<>>

ValidIdentifiers(f) ==
    /\ \A i \in DOMAIN f.otherIds :
          f.otherIds[i].type # "" /\ f.otherIds[i].id # ""
    /\ Identifiers(f) # <<>>

ValidSupervisory_CountryOnly(sa) == ValidCountry(sa.country)

ValidSupervisory(sa) ==
    /\ ValidCountry(sa.country)
    /\ sa.email # <<>> \/ sa.phone # <<>> \/ sa.formUri # <<>>

ValidPurpose(purpose) ==
    /\ purpose # <<>>
    /\ \A i \in DOMAIN purpose :
          purpose[i].lang # "" /\ purpose[i].content # ""

ValidPolicies(policies) ==
    policies # <<>> /\ \A i \in DOMAIN policies : policies[i].uri = "https"

ValidPath(path) == path # <<>> /\ \A i \in DOMAIN path : path[i] # ""

ValidClaims(cf) ==
    \/ cf.allClaims
    \/ cf.claims # <<>> /\ \A k \in DOMAIN cf.claims : ValidPath(cf.claims[k])

ValidCredentialForm(cf) ==
    /\ cf.format \in Formats
    /\ NonEmpty(cf.types) # <<>>
    /\ cf.format = "mso_mdoc" => Len(NonEmpty(cf.types)) = 1
    /\ ValidClaims(cf)

ValidUseForm(u) ==
    /\ ValidPurpose(u.purpose)
    /\ ValidPolicies(u.policies)
    /\ u.credentials # <<>>
    /\ \A j \in DOMAIN u.credentials : ValidCredentialForm(u.credentials[j])

\* FormState.Build returns a document rather than an error.
Accepted(f) ==
    /\ HasLegalIdentity(f)
    /\ ValidCountry(f.country)
    /\ ValidIdentifiers(f)
    /\ ValidSupervisory(f.supervisory)
    /\ f.uses # <<>> /\ \A i \in DOMAIN f.uses : ValidUseForm(f.uses[i])

-----------------------------------------------------------------------------
\* Assembly.  ids are the intended-use identifiers minted for this document.

\* The claims list of the document and of the projection alike: none at all
\* for all-claims, whatever the form says.
BuiltClaims(cf) == IF cf.allClaims THEN <<>> ELSE cf.claims

\* mso_mdoc has one doctype_value, dc+sd-jwt a list of vct_values.
BuildMeta(cf) ==
    [kind   |-> IF cf.format = "mso_mdoc" THEN "doctype_value" ELSE "vct_values",
     values |-> NonEmpty(cf.types)]

DocCredential(cf) ==
    [format |-> cf.format, meta |-> BuildMeta(cf), claims |-> BuiltClaims(cf)]

ScopeCredential_RawTypes(cf) ==
    [format |-> cf.format, types |-> cf.types,
     allClaims |-> cf.allClaims, claims |-> BuiltClaims(cf)]

ScopeCredential(cf) ==
    [format |-> cf.format, types |-> NonEmpty(cf.types),
     allClaims |-> cf.allClaims, claims |-> BuiltClaims(cf)]

LegalPerson(f)   == IF f.legalKind = "legalPerson" THEN NonEmpty(f.legalName) ELSE <<>>
NaturalPerson(f) == IF f.legalKind = "naturalPerson"
                    THEN <<f.givenName, f.familyName>> ELSE <<>>

Document(f, ids) ==
    [legalPerson   |-> LegalPerson(f),
     naturalPerson |-> NaturalPerson(f),
     identifiers   |-> Identifiers(f),
     country       |-> f.country,
     email         |-> NonEmpty(f.email),
     phone         |-> NonEmpty(f.phone),
     supervisory   |-> f.supervisory,
     uses          |-> [i \in DOMAIN f.uses |->
                          [id          |-> ids[i],
                           purpose     |-> f.uses[i].purpose,
                           policies    |-> f.uses[i].policies,
                           credentials |-> [j \in DOMAIN f.uses[i].credentials |->
                              DocCredential(f.uses[i].credentials[j])]]]]

Projection(f, ids) ==
    [i \in DOMAIN f.uses |->
       [id          |-> ids[i],
        credentials |-> [j \in DOMAIN f.uses[i].credentials |->
                           ScopeCredential(f.uses[i].credentials[j])]]]
=============================================================================
