------------------------ MODULE DatabaseBridge_proofs ------------------------
(***************************************************************************)
(* What the bridge makes of a reply, for any codes.                        *)
(***************************************************************************)
EXTENDS DatabaseBridge, TLAPS

TypeInv ==
    /\ method \in Method
    /\ stage \in {"call", "wait", "replied", "returned"}
    /\ stage \in {"replied", "returned"} => reply \in Reply
    /\ done \in BOOLEAN /\ tame \in BOOLEAN

\* As long as the replies keep the house style, the procedures heard of did
\* their work, except the last when its reply is no success.
VouchInv ==
    /\ stage \in {"call", "wait"} /\ tame => done
    /\ stage = "replied" /\ tame /\ Result(method, reply).err = "none" => done

ReturnInv == stage = "returned" =>
    /\ result = Result(method, reply)
    /\ result.err = "none" /\ tame => done

IInv == TypeInv /\ VouchInv /\ ReturnInv

-----------------------------------------------------------------------------
\* What a reply is made of.
LEMMA ReplyShape ==
    ASSUME NEW rep \in Reply
    PROVE  /\ rep.kind \in {"row", "raised", "failed"}
           /\ rep.envelope.result \in {"garbage", "success", "error", "other"}
           /\ rep.envelope.code \in Code \cup {""}
           /\ rep.envelope.data \in Data
<1>1. rep.kind \in {"row", "raised", "failed"} /\ rep.envelope \in Envelope
  BY DEF Reply, Envelope
<1>2. ASSUME NEW e \in Envelope
      PROVE  /\ e.result \in {"garbage", "success", "error", "other"}
             /\ e.code \in Code \cup {""} /\ e.data \in Data
  <2>1. CASE e = Garbage
    BY <2>1 DEF Garbage, Data
  <2>2. CASE e \in [result : {"success", "error", "other"}, code : Code, data : Data]
    BY <2>2
  <2> QED
    BY <1>2, <2>1, <2>2 DEF Envelope
<1> QED
  BY <1>1, <1>2

\* An envelope is a success, an error, or malformed.
LEMMA Parsed ==
    ASSUME NEW e
    PROVE  LET p == ParseEnvelope(e)
           IN  /\ e.result = "success" => ~p.fault /\ p.code = "" /\ p.data = e.data
               /\ e.result = "error" => ~p.fault /\ p.code = e.code /\ p.data = "absent"
               /\ e.result \notin {"success", "error"} => p.fault
<1>1. CASE e.result = "success"
  BY <1>1 DEF ParseEnvelope
<1>2. CASE e.result = "error"
  BY <1>2 DEF ParseEnvelope
<1>3. CASE e.result \notin {"success", "error"}
  BY <1>3 DEF ParseEnvelope
<1> QED
  BY <1>1, <1>2, <1>3

\* Errors and values are told apart.
LEMMA Outcomes ==
    ASSUME NEW x
    PROVE  /\ Err(x).err = x /\ Err(x).value = "none"
           /\ Ok(x).err = "none" /\ Ok(x).value = x
  BY DEF Err, Ok

Fails(rep) == Received(rep).err # "none" /\ Received(rep).value = "none"

\* An error code makes a failure of the reply, a value does not.
LEMMA ErrFails ==
    ASSUME NEW rep, NEW x, x # "none", Received(rep) = Err(x)
    PROVE  Fails(rep)
  BY Outcomes DEF Fails

LEMMA OkReceived ==
    ASSUME NEW rep, NEW x, Received(rep) = Ok(x)
    PROVE  Received(rep).err = "none" /\ Received(rep).value = x
  BY Outcomes

\* The six things that can be made of a reply.
LEMMA ReceivedCases ==
    ASSUME NEW rep \in Reply
    PROVE  \/ /\ rep.kind = "failed" \/ rep.envelope.result \notin {"success", "error"}
              /\ Fails(rep)
           \/ /\ rep.kind # "failed" /\ rep.envelope.result = "error" /\ rep.envelope.code # ""
              /\ Fails(rep) /\ Received(rep) = Err(rep.envelope.code)
           \/ /\ rep.kind # "failed" /\ rep.envelope.result \in {"success", "error"}
              /\ rep.envelope.result = "error" => rep.envelope.code = ""
              /\ rep.envelope.result = "error" \/ rep.kind = "raised"
              /\ Received(rep).err = "none" /\ Received(rep).value = "absent"
           \/ /\ rep.kind = "row" /\ rep.envelope.result = "success"
              /\ Received(rep).err = "none" /\ Received(rep).value = rep.envelope.data
<1>0. /\ rep.kind \in {"row", "raised", "failed"}
      /\ rep.envelope.code # "none"
  BY ReplyShape, CodeAssumption
<1>1. CASE rep.kind = "failed"
  <2>1. Received(rep) = Err("failed")
    BY <1>1 DEF Received
  <2> QED
    BY <1>1, <2>1, ErrFails
<1>2. CASE rep.kind # "failed" /\ rep.envelope.result \notin {"success", "error"}
  <2>1. Received(rep) = Err("malformed")
    BY <1>2, Parsed DEF Received
  <2> QED
    BY <1>2, <2>1, ErrFails
<1>3. CASE rep.kind # "failed" /\ rep.envelope.result = "error" /\ rep.envelope.code # ""
  <2>1. Received(rep) = Err(rep.envelope.code)
    BY <1>3, Parsed DEF Received
  <2>2. Fails(rep)
    BY <1>0, <2>1, ErrFails
  <2> QED
    BY <1>3, <2>1, <2>2
<1>4. CASE rep.kind # "failed" /\ rep.envelope.result = "error" /\ rep.envelope.code = ""
  <2>1. Received(rep) = Ok("absent")
    BY <1>4, Parsed DEF Received
  <2>2. Received(rep).err = "none" /\ Received(rep).value = "absent"
    BY <2>1, OkReceived
  <2> QED
    BY <1>4, <2>2
<1>5. CASE rep.kind = "raised" /\ rep.envelope.result = "success"
  <2>1. Received(rep) = Ok("absent")
    BY <1>5, Parsed DEF Received
  <2>2. Received(rep).err = "none" /\ Received(rep).value = "absent"
    BY <2>1, OkReceived
  <2> QED
    BY <1>5, <2>2
<1>6. CASE rep.kind = "row" /\ rep.envelope.result = "success"
  <2>1. Received(rep) = Ok(rep.envelope.data)
    BY <1>6, Parsed DEF Received
  <2>2. Received(rep).err = "none" /\ Received(rep).value = rep.envelope.data
    BY <2>1, OkReceived
  <2> QED
    BY <1>6, <2>2
<1> QED
  BY <1>0, <1>1, <1>2, <1>3, <1>4, <1>5, <1>6

\* A failure is passed on as it is.
LEMMA FailurePasses ==
    ASSUME NEW m \in Method, NEW rep \in Reply, Received(rep).err # "none"
    PROVE  Result(m, rep) = Received(rep)
  BY DEF Result

\* An answer that is no error comes from a reply that is none; in the house
\* style, that is a success.
LEMMA TameSuccess ==
    ASSUME NEW m \in Method, NEW rep \in Reply, HouseStyle(rep),
           Result(m, rep).err = "none"
    PROVE  rep.kind = "row" /\ rep.envelope.result = "success"
<1>1. Received(rep).err = "none"
  BY FailurePasses
<1> QED
  BY <1>1, ReceivedCases, ReplyShape DEF Fails, HouseStyle

\* The code of a reply is the error of the caller.
LEMMA CodeReceived ==
    ASSUME NEW m \in Method, NEW rep \in Reply, rep.kind # "failed",
           rep.envelope.result = "error", rep.envelope.code # ""
    PROVE  Result(m, rep) = Err(rep.envelope.code)
  BY ReceivedCases, FailurePasses DEF Fails

\* An answer is made from data that came with a success.
LEMMA AnswerDecoded ==
    ASSUME NEW m \in Method, NEW rep \in Reply, Result(m, rep).value # "none"
    PROVE  /\ rep.kind = "row" /\ rep.envelope.result = "success"
           /\ Result(m, rep).value = "zero" <=> rep.envelope.data \in {"null", "bare"}
<1>1. Received(rep).err = "none"
  BY ReceivedCases, FailurePasses DEF Fails
<1>2. Result(m, rep) = Decoded(m, Received(rep).value)
  BY <1>1 DEF Result
<1>3. m \notin Writers
  BY <1>2 DEF Decoded, Ok
<1>4. Received(rep).value \notin {"absent", "wrong"}
  BY <1>2, <1>3 DEF Decoded, Err
<1>5. /\ rep.kind = "row" /\ rep.envelope.result = "success"
      /\ Received(rep).value = rep.envelope.data
  BY <1>1, <1>4, ReceivedCases DEF Fails
<1>6. rep.envelope.data \in {"null", "bare", "full"}
  BY <1>4, <1>5, ReplyShape DEF Data
<1>7. CASE rep.envelope.data = "full"
  <2>1. Result(m, rep) = Ok("full")
    BY <1>2, <1>3, <1>5, <1>7 DEF Decoded
  <2> QED
    BY <1>5, <1>7, <2>1 DEF Ok
<1>8. CASE rep.envelope.data \in {"null", "bare"}
  <2>1. Result(m, rep) = Ok("zero")
    BY <1>2, <1>3, <1>5, <1>8 DEF Decoded
  <2> QED
    BY <1>5, <1>8, <2>1 DEF Ok
<1> QED
  BY <1>6, <1>7, <1>8

-----------------------------------------------------------------------------
LEMMA InitIInv == Init => IInv
  BY DEF Init, IInv, TypeInv, VouchInv, ReturnInv

\* Every step of a method and of the database keeps the invariant.
LEMMA StepIInv == IInv /\ [Next]_vars => IInv'
<1> SUFFICES ASSUME IInv, [Next]_vars PROVE IInv'
  OBVIOUS
<1>1. CASE Call
  <2>1. /\ stage = "call" /\ stage' = "wait"
        /\ method' = method /\ done' = done /\ tame' = tame
    BY <1>1 DEF Call
  <2>2. TypeInv'
    BY <2>1 DEF IInv, TypeInv
  <2>3. tame' => done'
    BY <2>1 DEF IInv, VouchInv
  <2>4. stage' # "replied" /\ stage' # "returned"
    BY <2>1
  <2>5. VouchInv' /\ ReturnInv'
    BY <2>3, <2>4, Zenon DEF VouchInv, ReturnInv
  <2> QED
    BY <2>2, <2>5 DEF IInv
<1>2. CASE Replies
  <2>0. PICK rep \in Reply : \E did \in Possible(rep) :
          /\ reply' = rep /\ done' = (done /\ did) /\ tame' = (tame /\ HouseStyle(rep))
    BY <1>2, Zenon DEF Replies
  <2>1. PICK did \in Possible(rep) :
          /\ reply' = rep /\ done' = (done /\ did) /\ tame' = (tame /\ HouseStyle(rep))
    BY <2>0
  <2>2. stage = "wait" /\ stage' = "replied" /\ method' = method
    BY <1>2 DEF Replies
  <2>3. did \in BOOLEAN
    BY <2>1 DEF Possible
  <2>4. HouseStyle(rep) \in BOOLEAN
    BY DEF HouseStyle, Reply
  <2>5. TypeInv'
    BY <2>1, <2>2, <2>3, <2>4 DEF IInv, TypeInv
  <2>6. ASSUME tame', Result(method, rep).err = "none" PROVE done'
    <3>1. rep.kind = "row" /\ rep.envelope.result = "success"
      BY <2>1, <2>2, <2>6, TameSuccess DEF IInv, TypeInv
    <3>2. did = TRUE
      BY <2>1, <3>1 DEF Possible
    <3> QED
      BY <2>1, <2>2, <2>6, <3>2 DEF IInv, VouchInv
  <2>7. VouchInv' /\ ReturnInv'
    BY <2>1, <2>2, <2>6 DEF VouchInv, ReturnInv
  <2> QED
    BY <2>5, <2>7 DEF IInv
<1>3. CASE Return
  <2>1. CASE AuditNext
    <3>1. "AppendAudit" \in Method
      BY DEF Method, Writers
    <3> QED
      BY <1>3, <2>1, <3>1 DEF Return, AuditNext, IInv, TypeInv, VouchInv, ReturnInv
  <2>2. CASE ~AuditNext
    BY <1>3, <2>2 DEF Return, IInv, TypeInv, VouchInv, ReturnInv
  <2> QED
    BY <2>1, <2>2
<1>4. CASE UNCHANGED vars
  BY <1>4 DEF vars, IInv, TypeInv, VouchInv, ReturnInv
<1> QED
  BY <1>1, <1>2, <1>3, <1>4 DEF Next

LEMMA Inductive == Spec => []IInv
  BY InitIInv, StepIInv, PTL DEF Spec

\* A method without an error means that its procedures did their work, the
\* second procedure of SetIntendedUses included, as long as every reply keeps
\* the house style.
THEOREM NoErrorIsDone == Spec => []SuccessIsVouched
<1>1. IInv => SuccessIsVouched
  BY DEF IInv, ReturnInv, SuccessIsVouched, Returned
<1> QED
  BY <1>1, Inductive, PTL

\* A code the database returns or raises is the error the caller gets.
THEOREM CodesReachTheCaller == Spec => []CodesSurface
<1>1. IInv => CodesSurface
  BY CodeReceived DEF IInv, TypeInv, ReturnInv, CodesSurface, Returned
<1> QED
  BY <1>1, Inductive, PTL

\* No method makes up an answer out of an error, an exception or missing data.
THEOREM AnswersAreRead == Spec => []AnswersComeFromData
<1>1. IInv => AnswersComeFromData
  BY AnswerDecoded DEF IInv, TypeInv, ReturnInv, AnswersComeFromData, Returned
<1> QED
  BY <1>1, Inductive, PTL
=============================================================================
