------------------------- MODULE LifecycleRetries -------------------------
(***************************************************************************)
(* Lifecycle with its callers: whoever asked for an offboarding and was    *)
(* told of a failure, or was told nothing, asks again.  The doc comment of *)
(* lifecycle.Service.Transition makes this the only way in which an        *)
(* offboarding that was flipped and not purged is finished: the service    *)
(* itself remembers nothing.                                               *)
(***************************************************************************)
EXTENDS LifecycleRefinement

VARIABLES
    unsettled,  \* the clients whose offboarding was asked for and ended in a
                \* failure, with no verdict on it since
    due         \* history: live keys and evidence an offboarding must dispose of

callers == <<vars, unsettled, due>>

\* An offboarding ends in a failure when it is answered "unavailable", or never
\* because the service died.  Success is a verdict, and so is a refusal, unless
\* it only says that somebody else has offboarded the client meanwhile.
Ended(r, c) ==
    /\ pc[r] \in Calls /\ pc'[r] \notin Calls
    /\ job[r].client = c /\ job[r].to = "offboarded"

NoVerdict == {"none", "unavailable"}

Failed(c)  == \E r \in Request : Ended(r, c) /\ resp'[r] \in NoVerdict
Settled(c) == \E r \in Request :
                  /\ Ended(r, c) /\ resp'[r] \notin NoVerdict
                  /\ resp'[r] = "ok" \/ status[c] # "offboarded"

\* What an offboarding owes: what the client held when it was flipped, and
\* what an offboarded client holds when its offboarding is asked for again.
Flipped(c)    == status[c] # "offboarded" /\ status'[c] = "offboarded"
AskedAgain(r) == pc[r] \notin Calls /\ pc'[r] \in Calls /\ job'[r].retry

NowDue == UNION {LiveItems(c) : c \in {d \in Client : Flipped(d)}}
          \cup UNION {job'[r].owed : r \in {q \in Request : AskedAgain(q)}}

CallersInit ==
    /\ Init
    /\ unsettled = {}
    /\ due = {}

CallersNext ==
    /\ Next
    /\ unsettled' = (unsettled \cup {c \in Client : Failed(c)}) \ {c \in Client : Settled(c)}
    /\ due' = (due \cup NowDue) \ purged'

(***************************************************************************)
(* Fairness.  The runtime runs a handler that can go on (WF).  A failed    *)
(* offboarding is asked for again ("an operator retrying offboard after a  *)
(* previous purge failure"), and a store that is asked for the same thing  *)
(* again and again does answer some time (SF).  Nobody repeats an          *)
(* offboarding that succeeded or was refused, nothing is assumed of        *)
(* crashes, lost answers or other requests, and nothing makes an           *)
(* offboarding happen in the first place.                                  *)
(***************************************************************************)
Retry(c) == c \in unsettled /\ \E r \in Request : Begin(r, c, "offboarded")

Offboarding(r, c) == job[r].client = c /\ job[r].to = "offboarded"

Fairness ==
    /\ \A r \in Request : WF_vars(Step(r))
    /\ \A c \in Client :
          /\ SF_vars(Retry(c))
          /\ SF_vars(\E r \in Request : Offboarding(r, c) /\ Read(r))
          /\ SF_vars(\E r \in Request : Offboarding(r, c) /\ Purge(r))

RetriedSpec == CallersInit /\ [][CallersNext]_callers /\ Fairness

(***************************************************************************)
(* An offboarded client does not keep an unpurged tail: whatever it held   *)
(* when it was flipped is revoked or purged in the end, and so is what it  *)
(* holds when its offboarding is asked for again, because the one who      *)
(* asked is told of every failure and asks again.  Of what is minted after *)
(* the last purge nothing is promised.                                     *)
(***************************************************************************)
OffboardingConverges == \A i \in Item : i \in due ~> i \notin due
=============================================================================
