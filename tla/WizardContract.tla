--------------------------- MODULE WizardContract ---------------------------
(***************************************************************************)
(* What the comments of internal/wizard promise of a document it builds,   *)
(* said of the document and its projection, with no word about forms.      *)
(***************************************************************************)
EXTENDS Wizard

AllFilled(ss) == \A i \in DOMAIN ss : ss[i] # ""

\* mso_mdoc has one doctype, dc+sd-jwt any number of vcts; claims are absent
\* or a list of proper paths.
ValidCredential(cred) ==
    /\ cred.format \in Formats
    /\ cred.meta.values # <<>> /\ AllFilled(cred.meta.values)
    /\ cred.meta.kind = "doctype_value" <=> cred.format = "mso_mdoc"
    /\ cred.meta.kind = "doctype_value" => Len(cred.meta.values) = 1
    /\ \A k \in DOMAIN cred.claims :
          cred.claims[k] # <<>> /\ AllFilled(cred.claims[k])

ValidUse(use) ==
    /\ use.purpose # <<>> /\ use.policies # <<>> /\ use.credentials # <<>>
    /\ \A i \in DOMAIN use.purpose :
          AllFilled(<<use.purpose[i].lang, use.purpose[i].content>>)
    /\ \A i \in DOMAIN use.policies :
          use.policies[i] = [type |-> DefaultPolicyType, uri |-> "https"]
    /\ \A j \in DOMAIN use.credentials : ValidCredential(use.credentials[j])

ValidDocument(d) ==
    /\ (d.legalPerson # <<>>) # (d.naturalPerson # <<>>)
    /\ AllFilled(d.legalPerson) /\ AllFilled(d.naturalPerson)
    /\ d.identifiers # <<>>
    /\ \A i \in DOMAIN d.identifiers :
          AllFilled(<<d.identifiers[i].type, d.identifiers[i].id>>)
    /\ ValidCountry(d.country) /\ ValidCountry(d.supervisory.country)
    /\ d.supervisory.email \o d.supervisory.phone \o d.supervisory.formUri # <<>>
    /\ d.uses # <<>>
    /\ \A i \in DOMAIN d.uses : ValidUse(d.uses[i])
    /\ \A i, j \in DOMAIN d.uses : i # j => d.uses[i].id # d.uses[j].id

\* A projected credential describes the registered one, no more and no less:
\* all claims are in scope exactly when the document enumerates none.
ScopeMatches(scope, cred) ==
    /\ scope.format = cred.format
    /\ scope.types = cred.meta.values
    /\ scope.claims = cred.claims
    /\ scope.allClaims <=> cred.claims = <<>>

\* The form that asks for what a credential, and the whole document, says.
CredentialFormOf(cred) ==
    [format    |-> cred.format,
     types     |-> cred.meta.values,
     allClaims |-> cred.claims = <<>>,
     claims    |-> cred.claims]

FormOf(d) ==
    [legalKind   |-> IF d.legalPerson # <<>> THEN "legalPerson" ELSE "naturalPerson",
     legalName   |-> d.legalPerson,
     givenName   |-> IF d.naturalPerson = <<>> THEN "" ELSE d.naturalPerson[1],
     familyName  |-> IF d.naturalPerson = <<>> THEN "" ELSE d.naturalPerson[2],
     euid        |-> "",
     otherIds    |-> d.identifiers,
     country     |-> d.country,
     email       |-> d.email,
     phone       |-> d.phone,
     supervisory |-> d.supervisory,
     uses        |-> [i \in DOMAIN d.uses |->
        [purpose     |-> d.uses[i].purpose,
         policies    |-> d.uses[i].policies,
         credentials |-> [j \in DOMAIN d.uses[i].credentials |->
                            CredentialFormOf(d.uses[i].credentials[j])]]]]

UseIdsOf(d) == [i \in DOMAIN d.uses |-> d.uses[i].id]
=============================================================================
