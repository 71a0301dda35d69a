--------------------------- MODULE DatabaseBridge ---------------------------
(***************************************************************************)
(* One method of PG from its arguments to its result: the arguments are    *)
(* put into the JSON the procedure gets, the reply is taken for a result   *)
(* envelope, and the data of the envelope is decoded.  The procedure may   *)
(* answer with an envelope, raise one as an exception, fail otherwise, or  *)
(* not be heard of again.  SetIntendedUses runs two procedures.            *)
(***************************************************************************)
EXTENDS Naturals

CONSTANTS
    Code,       \* the codes an error envelope may carry, "" is none
    Nil         \* a nil slice or nil JSON

\* "none" stands for no error.
ASSUME CodeAssumption == Nil \notin Code /\ "none" \notin Code

(***************************************************************************)
(* The methods, by what they read of the data of the reply.                *)
(***************************************************************************)
Writers  == {"TransitionClient", "SetClientRegistrarIdentity", "SetClientWebhook",
             "SetClientAllowedOrigins", "SetClientDCAPIMode", "CreateAPIKey",
             "SaveWRPDocument", "SetIntendedUses", "AppendAudit", "PurgeOffboarded"}
Creators == {"CreateDraftClient", "AddEvidence", "LogDeletionRequest"}
Lists    == {"ListClientsByState", "ListIntendedUses", "ListEvidence",
             "ListAuditEntries", "ListDeletionRequests"}
Readers  == Creators \cup Lists \cup {"GetClientFull", "GetEvidenceContent"}
Method   == Writers \cup Readers

\* The methods that pass a list or JSON of their caller on.
Passing == {"SetClientAllowedOrigins", "SaveWRPDocument", "SetIntendedUses",
            "LogDeletionRequest", "AppendAudit"}

\* The data of an envelope: not there, null, an object without the fields that
\* are read, with them, with fields of other types or no base64.
Data == {"absent", "null", "bare", "full", "wrong"}

Garbage  == [result |-> "garbage", code |-> "", data |-> "absent"]
Envelope == {Garbage} \cup [result : {"success", "error", "other"}, code : Code, data : Data]

Reply == [kind : {"row", "raised"}, envelope : Envelope]
         \cup [kind : {"failed"}, envelope : {Garbage}]

VARIABLES
    method, arg,    \* what is called, and the list it passes on
    stage,          \* "call", "wait", "replied", "returned"
    sent,           \* the list the procedure gets
    reply,
    result,         \* what the caller gets: an error or none, and a value
    done,           \* history: whether every procedure called did its work
    tame            \* history: whether every reply kept the house style

vars == <<method, arg, stage, sent, reply, result, done, tame>>

NoReply == [kind |-> "none", envelope |-> Garbage]

Ok(value)  == [err |-> "none", value |-> value]
Err(what)  == [err |-> what, value |-> "none"]

Init ==
    /\ method \in Method
    /\ arg \in IF method \in Passing THEN {Nil, "empty", "some"} ELSE {"empty"}
    /\ stage  = "call"
    /\ sent   = "none"
    /\ reply  = NoReply
    /\ result = Err("pending")
    /\ done   = TRUE
    /\ tame   = TRUE

-----------------------------------------------------------------------------
\* call

\* nil becomes an empty array or object before it is marshalled.
Sent(a) == IF a = Nil THEN "empty" ELSE a

Call ==
    /\ stage = "call"
    /\ sent'  = Sent(arg)
    /\ stage' = "wait"
    /\ UNCHANGED <<method, arg, reply, result, done, tame>>

ParseEnvelope_LaxResult(e) ==
    CASE e.result = "error"   -> [fault |-> FALSE, code |-> e.code, data |-> "absent"]
      [] e.result = "garbage" -> [fault |-> TRUE, code |-> "", data |-> "absent"]
      [] OTHER                -> [fault |-> FALSE, code |-> "", data |-> e.data]

ParseEnvelope(e) ==
    CASE e.result = "success" -> [fault |-> FALSE, code |-> "", data |-> e.data]
      [] e.result = "error"   -> [fault |-> FALSE, code |-> e.code, data |-> "absent"]
      [] OTHER                -> [fault |-> TRUE, code |-> "", data |-> "absent"]

\* An exception with code P0001 carries an envelope; its data is not looked at.
Received_RaisedIsFailure(rep) ==
    LET p == ParseEnvelope(rep.envelope)
    IN  IF rep.kind # "row" THEN Err("failed")
        ELSE IF p.fault     THEN Err("malformed")
        ELSE IF p.code # "" THEN Err(p.code)
        ELSE Ok(p.data)

Received(rep) ==
    LET p == ParseEnvelope(rep.envelope)
    IN  IF rep.kind = "failed" THEN Err("failed")
        ELSE IF p.fault        THEN Err("malformed")
        ELSE IF p.code # ""    THEN Err(p.code)
        ELSE Ok(IF rep.kind = "raised" THEN "absent" ELSE p.data)

-----------------------------------------------------------------------------
\* The methods

Decoded_AbsentIsEmpty(m, data) ==
    IF m \in Writers THEN Ok("none")
    ELSE IF data = "wrong" THEN Err("decode")
    ELSE Ok(IF data = "full" THEN "full" ELSE "zero")

\* json.Unmarshal refuses no input at all and takes null for "leave it".
Decoded(m, data) ==
    IF m \in Writers THEN Ok("none")
    ELSE IF data \in {"absent", "wrong"} THEN Err("decode")
    ELSE Ok(IF data = "full" THEN "full" ELSE "zero")

Result(m, rep) ==
    LET got == Received(rep)
    IN  IF got.err # "none" THEN got ELSE Decoded(m, got.value)

\* The replacement succeeded: append the audit entry, and return what that does.
AuditNext ==
    /\ method = "SetIntendedUses"
    /\ Result(method, reply).err = "none"
    /\ method' = "AppendAudit"
    /\ arg'    = "some"
    /\ stage'  = "call"
    /\ UNCHANGED <<sent, reply, result, done, tame>>

Return ==
    /\ stage = "replied"
    /\ \/ AuditNext
       \/ /\ ~(method = "SetIntendedUses" /\ Result(method, reply).err = "none")
          /\ result' = Result(method, reply)
          /\ stage'  = "returned"
          /\ UNCHANGED <<method, arg, sent, reply, done, tame>>

-----------------------------------------------------------------------------
(***************************************************************************)
(* The database.  What is raised is rolled back, an error envelope means   *)
(* that nothing was done, and one that says success that it was.  Nothing  *)
(* is known otherwise.                                                     *)
(***************************************************************************)
HouseStyle(rep) ==
    CASE rep.kind = "failed" -> TRUE
      [] rep.kind = "raised" -> rep.envelope.result = "error" /\ rep.envelope.code # ""
      [] rep.kind = "row"    -> rep.envelope.result = "error" => rep.envelope.code # ""

Possible(rep) ==
    CASE rep.kind = "raised"                                   -> {FALSE}
      [] rep.kind = "row" /\ rep.envelope.result = "success" -> {TRUE}
      [] rep.kind = "row" /\ rep.envelope.result = "error"   -> {FALSE}
      [] OTHER                                                 -> BOOLEAN

Replies ==
    /\ stage = "wait"
    /\ \E rep \in Reply : \E did \in Possible(rep) :
          /\ reply' = rep
          /\ done'  = (done /\ did)
          /\ tame'  = (tame /\ HouseStyle(rep))
    /\ stage' = "replied"
    /\ UNCHANGED <<method, arg, sent, result>>

Next == Call \/ Replies \/ Return

Spec == Init /\ [][Next]_vars

-----------------------------------------------------------------------------
Returned == stage = "returned"

(***************************************************************************)
(* db.go:32-38: a method reports success only if its procedures did their  *)
(* work, the audit entry of SetIntendedUses included, for every reply in   *)
(* the house style.  (An error without a code "is not an error".)          *)
(***************************************************************************)
SuccessIsVouched == Returned /\ result.err = "none" /\ tame => done

(***************************************************************************)
(* db.go:36: the code of the database reaches the caller, returned or      *)
(* raised, and never with a value.                                         *)
(***************************************************************************)
CodesSurface ==
    Returned /\ reply.kind # "failed" /\ reply.envelope.result = "error"
        /\ reply.envelope.code # ""
    => result = Err(reply.envelope.code)

(***************************************************************************)
(* repo.go:323, 341, 365, 455 and the like: a reading method never makes   *)
(* up its answer, not even out of an exception that says success: an empty *)
(* one comes from data that has nothing in it.                             *)
(***************************************************************************)
AnswersComeFromData ==
    Returned /\ result.value # "none" =>
        /\ reply.kind = "row" /\ reply.envelope.result = "success"
        /\ result.value = "zero" <=> reply.envelope.data \in {"null", "bare"}
=============================================================================
