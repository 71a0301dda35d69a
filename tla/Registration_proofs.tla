------------------------ MODULE Registration_proofs ------------------------
(***************************************************************************)
(* The registrations of any clients, by any requests and bodies, with any  *)
(* registrar identifiers: what is stored is valid and builds itself again, *)
(* the rows have unique primary keys, stay the rows they were and are      *)
(* listed once and oldest first, every replacement is audited unless       *)
(* something failed, and without filing confirmations the rows are the     *)
(* projection of the document.  With them, every row has a scope that was  *)
(* asked for, a submission starts over, and the submissions of two clients *)
(* do not mix.                                                             *)
(***************************************************************************)
EXTENDS Registration, Selection_proofs

LOCAL INSTANCE SequencesExt

Labels  == {"idle", "save", "readback", "replace", "audit", "done"}
Reasons == {"none", "ok", "invalid", "not_found", "unavailable"}

\* A list of intended uses as the store methods take it.
UseList(list) ==
    /\ \E n \in Nat : DOMAIN list = 1..n
    /\ \A i \in DOMAIN list : list[i].id \in UseId

\* What the other invariants rest on: the shape of what is stored and waits.
ListsInv ==
    /\ known \subseteq Client
    /\ rows = [c \in Client |-> rows[c]]
    /\ order \in [Client -> Seq(UseId)]
    /\ writes \in Nat /\ arrived \in 0..MaxArrivals
    /\ pc \in [Request -> Labels] /\ resp \in [Request -> Reasons]
    /\ job = [r \in Request |-> job[r]]
    /\ faulted \in BOOLEAN
    /\ \A r \in Request :
          /\ pc[r] \in {"save", "replace", "audit"} => job[r].client \in Client
          /\ pc[r] \in {"save", "replace"} => UseList(job[r].uses)

-----------------------------------------------------------------------------
(***************************************************************************)
(* What is read from a list, and what becomes of it.                       *)
(***************************************************************************)

\* The intended uses of a body are a list, and so is its projection.
LEMMA BodiesAreLists ==
    ASSUME NEW body \in Body
    PROVE  /\ \E n \in Nat : DOMAIN body.uses = 1..n
           /\ DOMAIN ToFormState(body).uses = DOMAIN body.uses
<1>1. body \in RegistrationRequest
  BY BodyAssumption
<1>2. body.uses \in Seq(RequestUse)
  BY <1>1 DEF RegistrationRequest
<1>3. DOMAIN body.uses = 1..Len(body.uses) /\ Len(body.uses) \in Nat
  BY <1>2
<1> QED
  BY <1>3 DEF ToFormState

LEMMA ProjectionIsList ==
    ASSUME NEW f, \E n \in Nat : DOMAIN f.uses = 1..n,
           NEW ids, \A i \in DOMAIN f.uses : ids[i] \in UseId
    PROVE  UseList(Projection(f, ids))
BY DEF UseList, Projection

\* The ids a client has, in order, less those that went, and those that came.
LEMMA KeptIdsAreList ==
    ASSUME NEW c, order[c] \in Seq(UseId), NEW list
    PROVE  KeptIds(c, list) \in Seq(UseId)
BY PickedIsList DEF KeptIds

LEMMA NewIdsAreList ==
    ASSUME NEW kept, NEW list, UseList(list)
    PROVE  NewIds(kept, list) \in Seq(UseId)
<1> DEFINE ids   == [i \in DOMAIN list |-> list[i].id]
           first == {i \in DOMAIN list : /\ list[i].id \notin ToSet(kept)
                                         /\ \A j \in 1..(i-1) : list[j].id # list[i].id}
<1>1. PICK n \in Nat : DOMAIN list = 1..n
  BY DEF UseList
<1>2. ids \in Seq(UseId) /\ DOMAIN ids = 1..n
  BY <1>1 DEF UseList
<1>3. first \in SUBSET DOMAIN ids
  BY <1>2
<1>4. Picked(ids, first) \in Seq(UseId)
  <2> HIDE DEF ids, first
  <2> QED
    BY <1>2, <1>3, PickedIsList
<1> QED
  BY <1>4 DEF NewIds

LEMMA ReplacedOrderIsList ==
    ASSUME NEW c, order[c] \in Seq(UseId), NEW list, UseList(list)
    PROVE  ReplacedOrder(c, list) \in Seq(UseId)
<1>1. KeptIds(c, list) \in Seq(UseId)
  BY KeptIdsAreList
<1>2. NewIds(KeptIds(c, list), list) \in Seq(UseId)
  BY NewIdsAreList
<1> QED
  BY <1>1, <1>2 DEF ReplacedOrder

-----------------------------------------------------------------------------
(***************************************************************************)
(* The shapes, action by action.                                           *)
(***************************************************************************)
LEMMA ListsInit == Init => ListsInv
<1> SUFFICES ASSUME Init PROVE ListsInv
  OBVIOUS
<1>1. order \in [Client -> Seq(UseId)]
  BY DEF Init
<1>2. rows = [c \in Client |-> rows[c]] /\ job = [r \in Request |-> job[r]]
  BY DEF Init
<1>3. pc \in [Request -> Labels] /\ resp \in [Request -> Reasons]
  BY DEF Init, Labels, Reasons
<1>4. \A r \in Request : pc[r] \notin {"save", "replace", "audit"}
  BY DEF Init
<1>5. known \subseteq Client /\ faulted \in BOOLEAN
  BY DEF Init
<1>6. MaxArrivals \in Nat
  BY BoundAssumption
<1>7. writes = 0 /\ arrived = 0
  BY DEF Init
<1>8. writes \in Nat /\ arrived \in 0..MaxArrivals
  BY <1>6, <1>7
<1> QED
  BY <1>1, <1>2, <1>3, <1>4, <1>5, <1>8 DEF ListsInv

LEMMA ReplacingKeepsLists ==
    ASSUME ListsInv, NEW c \in Client, NEW list, UseList(list),
           ReplaceIntendedUses(c, list)
    PROVE  /\ rows' = [d \in Client |-> rows'[d]]
           /\ order' \in [Client -> Seq(UseId)]
           /\ writes' \in Nat
<1>1. ReplacedOrder(c, list) \in Seq(UseId)
  BY ReplacedOrderIsList DEF ListsInv
<1>2. order' \in [Client -> Seq(UseId)]
  BY <1>1 DEF ListsInv, ReplaceIntendedUses
<1>3. rows' = [d \in Client |-> rows'[d]]
  BY DEF ListsInv, ReplaceIntendedUses
<1>4. writes' \in Nat
  BY DEF ListsInv, ReplaceIntendedUses
<1> QED
  BY <1>2, <1>3, <1>4

LEMMA PutKeepsLists ==
    ASSUME ListsInv, NEW r \in Request, NEW c \in Client, NEW body \in Body,
           PutRegistration(r, c, body)
    PROVE  ListsInv'
<1> DEFINE f   == ToFormState(body)
           ids == [i \in DOMAIN f.uses |-> <<arrived + 1, i>>]
           new == [client |-> c, body |-> body,
                   doc |-> Document(f, ids), uses |-> Projection(f, ids)]
<1>1. UseList(Projection(f, ids))
  <2>1. PICK n \in Nat : DOMAIN f.uses = 1..n
    BY BodiesAreLists
  <2>2. arrived + 1 \in Nat
    BY DEF ListsInv
  <2>3. \A i \in DOMAIN f.uses : ids[i] \in UseId
    BY <2>1, <2>2 DEF UseId
  <2> HIDE DEF f, ids
  <2> QED
    BY <2>1, <2>3, ProjectionIsList
<1>2. UNCHANGED <<store, faulted>> /\ arrived' \in 0..MaxArrivals
  BY BoundAssumption DEF PutRegistration, Arrives, ListsInv
<1>3. CASE /\ job' = [job EXCEPT ![r] = new] /\ pc' = [pc EXCEPT ![r] = "save"]
           /\ resp' = [resp EXCEPT ![r] = "none"]
  <2>1. new.client = c /\ new.uses = Projection(f, ids)
    OBVIOUS
  <2> HIDE DEF f, ids, new
  <2>2. job' = [q \in Request |-> job'[q]] /\ job'[r] = new
    BY <1>3 DEF ListsInv
  <2> QED
    BY <1>1, <1>2, <1>3, <2>1, <2>2 DEF ListsInv, Labels, Reasons, store
<1>4. CASE Answers(r, "invalid") /\ job' = [job EXCEPT ![r] = NoJob]
  BY <1>2, <1>4 DEF Answers, ListsInv, Labels, Reasons, store
<1> QED
  <2> HIDE DEF new
  <2> QED
    BY <1>3, <1>4, Zenon DEF PutRegistration, new

LEMMA ConfirmKeepsLists ==
    ASSUME ListsInv, NEW r \in Request, NEW c \in Client, NEW name \in Renamings(c),
           Confirm(r, c, name)
    PROVE  ListsInv'
<1> DEFINE uses == [i \in DOMAIN name |-> [ListIntendedUses(c)[i] EXCEPT !.id = name[i]]]
           new  == [NoJob EXCEPT !.client = c, !.uses = uses]
<1>1. order[c] \in Seq(UseId)
  BY DEF ListsInv
<1>2. PICK n \in Nat : DOMAIN order[c] = 1..n /\ \A i \in 1..n : order[c][i] \in UseId
  BY <1>1
<1>3. DOMAIN name = 1..n /\ \A i \in 1..n : name[i] \in UseId
  BY <1>2 DEF Renamings, UseId
<1>4. \A i \in 1..n : uses[i].id = name[i]
  BY <1>2, <1>3 DEF ListIntendedUses
<1>5. UseList(uses)
  BY <1>3, <1>4 DEF UseList
<1>6. new.client = c /\ new.uses = uses
  BY DEF NoJob
<1>7. job' = [job EXCEPT ![r] = new]
  BY DEF Confirm
<1>8. arrived' \in 0..MaxArrivals /\ UNCHANGED <<store, faulted>>
  BY BoundAssumption DEF Confirm, Arrives, ListsInv
<1> HIDE DEF new, uses
<1>9. job' = [q \in Request |-> job'[q]] /\ job'[r] = new
  BY <1>7 DEF ListsInv
<1> QED
  BY <1>5, <1>6, <1>7, <1>8, <1>9 DEF ListsInv, Confirm, Labels, Reasons, store

LEMMA ListsStep == ListsInv /\ [Next]_vars => ListsInv'
<1> SUFFICES ASSUME ListsInv, [Next]_vars PROVE ListsInv'
  OBVIOUS
<1>1. ASSUME NEW c \in Client, CreateDraftClient(c) PROVE ListsInv'
  BY <1>1 DEF ListsInv, CreateDraftClient, requests
<1>2. ASSUME NEW r \in Request, NEW c \in Client, GetClient(r, c) PROVE ListsInv'
  BY <1>2 DEF ListsInv, GetClient, Answers, Labels, Reasons, store
<1>3. ASSUME NEW r \in Request, NEW c \in Client, NEW list, UseList(list),
             ReplaceIntendedUses(c, list), UNCHANGED <<known, arrived, job>>,
             \E l \in {"readback", "audit", "done"} : pc' = [pc EXCEPT ![r] = l],
             resp' \in [Request -> Reasons], faulted' \in BOOLEAN,
             job[r].client \in Client
      PROVE  ListsInv'
  <2>1. /\ rows' = [d \in Client |-> rows'[d]]
        /\ order' \in [Client -> Seq(UseId)]
        /\ writes' \in Nat
    BY <1>3, ReplacingKeepsLists
  <2> QED
    BY <1>3, <2>1 DEF ListsInv, Labels
<1>4. ASSUME NEW r \in Request, Save(r) PROVE ListsInv'
  <2>1. CASE UNCHANGED store /\ Answers(r, "not_found")
    BY <1>4, <2>1 DEF Save, ListsInv, Answers, Labels, Reasons, store
  <2>2. CASE job[r].client \in known /\ ReplaceIntendedUses(job[r].client, job[r].uses)
             /\ known' = known /\ Goto(r, "readback")
    BY <1>3, <1>4, <2>2 DEF Save, ListsInv, Goto
  <2> QED
    BY <1>4, <2>1, <2>2 DEF Save, SaveWRPDocument
<1>5. ASSUME NEW r \in Request, Replace(r) PROVE ListsInv'
  <2>1. CASE UNCHANGED store /\ \E a \in {"not_found", "invalid"} : Answers(r, a)
    BY <1>5, <2>1 DEF Replace, ListsInv, Answers, Labels, Reasons, store
  <2>2. CASE job[r].client \in known /\ ReplaceIntendedUses(job[r].client, job[r].uses)
             /\ known' = known /\ Goto(r, "audit")
    BY <1>3, <1>5, <2>2 DEF Replace, ListsInv, Goto
  <2> QED
    BY <1>5, <2>1, <2>2 DEF Replace, SetIntendedUses
<1>6. ASSUME NEW r \in Request, ReadBack(r) \/ AuditReplace(r) \/ CallFails(r) PROVE ListsInv'
  BY <1>6 DEF ReadBack, AuditReplace, AppendAudit, CallFails, Fails, ListsInv, Answers, Labels,
              Reasons, store
<1>7. ASSUME NEW r \in Request, AnswerLost(r) PROVE ListsInv'
  <2>1. /\ pc' = [pc EXCEPT ![r] = "done"] /\ resp' \in [Request -> Reasons]
        /\ faulted' \in BOOLEAN /\ UNCHANGED <<arrived, job>>
    BY <1>7 DEF AnswerLost, Fails, Answers, ListsInv, Reasons
  <2>2. CASE UNCHANGED store
    BY <2>1, <2>2 DEF ListsInv, Labels, store
  <2>3. CASE /\ pc[r] \in {"save", "replace"} /\ job[r].client \in known /\ known' = known
             /\ ReplaceIntendedUses(job[r].client, job[r].uses)
    BY <1>3, <2>1, <2>3 DEF ListsInv
  <2> QED
    BY <1>7, <2>2, <2>3 DEF AnswerLost, AppendAudit, SaveWRPDocument, SetIntendedUses
<1>8. CASE Crash
  BY <1>8 DEF Crash, ListsInv, Labels, Reasons, store
<1>9. CASE UNCHANGED vars
  BY <1>9 DEF vars, store, requests, ListsInv
<1> QED
  BY <1>1, <1>2, <1>4, <1>5, <1>6, <1>7, <1>8, <1>9, PutKeepsLists, ConfirmKeepsLists DEF Next

\* Every list a request carries, and every order, is a list of what it holds.
LEMMA ListsHold == Spec => []ListsInv
BY ListsInit, ListsStep, PTL DEF Spec

-----------------------------------------------------------------------------
(***************************************************************************)
(* The rows and their order.                                               *)
(***************************************************************************)

\* Every row was made by a replacement that took place: the first half of a
\* primary key says by which one.
RowsInv ==
    /\ \A c \in Client : \A u \in DOMAIN rows[c] :
          /\ u \in UseId
          /\ rows[c][u].row = <<rows[c][u].row[1], rows[c][u].row[2]>>
          /\ rows[c][u].row[1] \in 1..writes
          /\ rows[c][u].row[2] \in Nat
    /\ RowIdsUnique

\* The order has the rows, each once, in the order they were made.
OrderInv ==
    \A c \in Client :
        /\ \A i \in DOMAIN order[c] : order[c][i] \in DOMAIN rows[c]
        /\ \A u \in DOMAIN rows[c] : \E i \in DOMAIN order[c] : order[c][i] = u
        /\ \A i, j \in DOMAIN order[c] : i < j =>
              /\ order[c][i] # order[c][j]
              /\ rows[c][order[c][i]].row[1] <= rows[c][order[c][j]].row[1]

\* A step replaces the rows of one client by what some request sent, or
\* leaves all rows, their order and the counter alone.
RowsMove ==
    \/ UNCHANGED <<rows, order, writes>>
    \/ \E c \in Client : \E list : UseList(list) /\ ReplaceIntendedUses(c, list)

\* Only three actions touch rows.
LEMMA StepsMoveRows ==
    ASSUME ListsInv, [Next]_vars
    PROVE  RowsMove
<1>1. CASE UNCHANGED vars
  BY <1>1 DEF RowsMove, vars, store
<1>2. ASSUME NEW c \in Client, CreateDraftClient(c)
      PROVE  RowsMove
  BY <1>2 DEF RowsMove, CreateDraftClient
<1>3. ASSUME UNCHANGED store
      PROVE  RowsMove
  BY <1>3 DEF RowsMove, store
<1>4. ASSUME NEW r \in Request, Save(r) \/ Replace(r) \/ AnswerLost(r)
      PROVE  RowsMove
  <2>1. \/ UNCHANGED store
        \/ /\ pc[r] \in {"save", "replace"}
           /\ job[r].client \in known
           /\ ReplaceIntendedUses(job[r].client, job[r].uses)
    BY <1>4 DEF Save, Replace, AnswerLost, SaveWRPDocument, SetIntendedUses,
                AppendAudit, Answers
  <2>2. pc[r] \in {"save", "replace"} => UseList(job[r].uses) /\ job[r].client \in Client
    BY DEF ListsInv
  <2> QED
    BY <1>3, <2>1, <2>2 DEF RowsMove
<1>5. ASSUME NEW r \in Request, ReadBack(r) \/ AuditReplace(r) \/ CallFails(r)
      PROVE  UNCHANGED store
  BY <1>5 DEF ReadBack, AuditReplace, CallFails, AppendAudit
<1>6. ASSUME NEW r \in Request, NEW c \in Client,
             \/ GetClient(r, c)
             \/ \E body \in Body : PutRegistration(r, c, body)
             \/ \E name \in Renamings(c) : Confirm(r, c, name)
      PROVE  UNCHANGED store
  BY <1>6 DEF GetClient, PutRegistration, Confirm
<1>7. CASE Crash
  BY <1>3, <1>7 DEF Crash
<1> QED
  BY <1>1, <1>2, <1>3, <1>4, <1>5, <1>6, <1>7 DEF Next

\* Entries with different ids have different places, and places are numbers.
LEMMA PlacesDiffer ==
    ASSUME NEW list, UseList(list), NEW u \in Ids(list)
    PROVE  /\ Place(list, u) \in Nat
           /\ \A v \in Ids(list) : Place(list, u) = Place(list, v) => u = v
<1>1. \A x \in Ids(list) : Place(list, x) \in DOMAIN list /\ list[Place(list, x)].id = x
  BY DEF Ids, Place
<1>2. PICK n \in Nat : DOMAIN list = 1..n
  BY DEF UseList
<1> QED
  BY <1>1, <1>2

\* What a replacement does, client by client and id by id.
LEMMA ReplacedState ==
    ASSUME ListsInv, NEW c \in Client, NEW list, UseList(list),
           ReplaceIntendedUses(c, list)
    PROVE  /\ rows'[c] = ReplacedRows(c, list) /\ order'[c] = ReplacedOrder(c, list)
           /\ \A d \in Client \ {c} : rows'[d] = rows[d] /\ order'[d] = order[d]
           /\ writes' = writes + 1 /\ writes \in Nat
           /\ DOMAIN rows'[c] = Ids(list) /\ Ids(list) \subseteq UseId
           /\ \A u \in Ids(list) :
                 \/ u \in DOMAIN rows[c] /\ rows'[c][u].row = rows[c][u].row
                 \/ /\ u \notin DOMAIN rows[c]
                    /\ rows'[c][u].row = <<writes + 1, Place(list, u)>>
<1>1. /\ rows' = [rows EXCEPT ![c] = ReplacedRows(c, list)]
      /\ order' = [order EXCEPT ![c] = ReplacedOrder(c, list)]
      /\ writes' = writes + 1
  BY DEF ReplaceIntendedUses
<1>2. rows'[c] = ReplacedRows(c, list) /\ \A d \in Client \ {c} : rows'[d] = rows[d]
  BY <1>1 DEF ListsInv
<1>3. order'[c] = ReplacedOrder(c, list) /\ \A d \in Client \ {c} : order'[d] = order[d]
  BY <1>1 DEF ListsInv
<1>4. DOMAIN ReplacedRows(c, list) = Ids(list)
  BY DEF ReplacedRows
<1>5. Ids(list) \subseteq UseId
  BY DEF Ids, UseList
<1>6. ASSUME NEW u \in Ids(list)
      PROVE  \/ u \in DOMAIN rows[c] /\ ReplacedRows(c, list)[u].row = rows[c][u].row
             \/ /\ u \notin DOMAIN rows[c]
                /\ ReplacedRows(c, list)[u].row = <<writes + 1, Place(list, u)>>
  BY <1>6 DEF ReplacedRows, RowId, FreshRowId
<1>7. writes \in Nat
  BY DEF ListsInv
<1> QED
  BY <1>1, <1>2, <1>3, <1>4, <1>5, <1>6, <1>7

LEMMA ReplacementKeepsRowsInv ==
    ASSUME ListsInv, RowsInv, NEW c \in Client, NEW list, UseList(list),
           ReplaceIntendedUses(c, list)
    PROVE  RowsInv'
<1>1. /\ \A d \in Client \ {c} : rows'[d] = rows[d]
      /\ writes' = writes + 1 /\ writes \in Nat
      /\ DOMAIN rows'[c] = Ids(list) /\ Ids(list) \subseteq UseId
      /\ \A u \in Ids(list) :
            \/ u \in DOMAIN rows[c] /\ rows'[c][u].row = rows[c][u].row
            \/ /\ u \notin DOMAIN rows[c]
               /\ rows'[c][u].row = <<writes + 1, Place(list, u)>>
  BY ReplacedState
<1>2. \A u \in Ids(list) :
         /\ Place(list, u) \in Nat
         /\ \A v \in Ids(list) : Place(list, u) = Place(list, v) => u = v
  BY PlacesDiffer
<1> DEFINE Old(x, w)   == w \in DOMAIN rows[x] /\ rows'[x][w].row = rows[x][w].row
           Fresh(x, w) == /\ x = c /\ w \in Ids(list)
                          /\ rows'[x][w].row = <<writes + 1, Place(list, w)>>
<1>3. \A x \in Client : \A w \in DOMAIN rows'[x] : Old(x, w) \/ Fresh(x, w)
  BY <1>1
<1>4. ASSUME NEW d \in Client, NEW u \in DOMAIN rows'[d]
      PROVE  /\ u \in UseId
             /\ rows'[d][u].row = <<rows'[d][u].row[1], rows'[d][u].row[2]>>
             /\ rows'[d][u].row[1] \in 1..writes'
             /\ rows'[d][u].row[2] \in Nat
  <2>1. CASE Old(d, u)
    <3>1. rows[d][u].row[1] \in 1..writes
      BY <2>1 DEF RowsInv
    <3>2. rows[d][u].row[1] \in 1..writes'
      BY <1>1, <3>1
    <3> QED
      BY <2>1, <3>2 DEF RowsInv
  <2>2. CASE Fresh(d, u)
    BY <1>1, <1>2, <2>2
  <2> QED
    BY <1>3, <2>1, <2>2
<1>5. ASSUME NEW d \in Client, NEW e \in Client,
             NEW u \in DOMAIN rows'[d], NEW v \in DOMAIN rows'[e],
             rows'[d][u].row = rows'[e][v].row
      PROVE  d = e /\ u = v
  <2>1. (Old(d, u) \/ Fresh(d, u)) /\ (Old(e, v) \/ Fresh(e, v))
    BY <1>3
  <2>2. CASE Old(d, u) /\ Old(e, v)
    <3>1. rows[d][u].row = rows[e][v].row
      BY <1>5, <2>2
    <3> QED
      BY <2>2, <3>1 DEF RowsInv, RowIdsUnique
  <2>3. CASE Fresh(d, u) /\ Fresh(e, v)
    <3>1. Place(list, u) = Place(list, v)
      BY <1>5, <2>3
    <3> QED
      BY <1>2, <2>3, <3>1
  <2>4. CASE Old(d, u) /\ Fresh(e, v)
    <3>1. rows[d][u].row = <<writes + 1, Place(list, v)>>
      BY <1>5, <2>4
    <3>2. rows[d][u].row[1] = writes + 1
      BY <3>1
    <3> QED
      BY <1>1, <2>4, <3>2 DEF RowsInv
  <2>5. CASE Fresh(d, u) /\ Old(e, v)
    <3>1. rows[e][v].row = <<writes + 1, Place(list, u)>>
      BY <1>5, <2>5
    <3>2. rows[e][v].row[1] = writes + 1
      BY <3>1
    <3> QED
      BY <1>1, <2>5, <3>2 DEF RowsInv
  <2> QED
    BY <2>1, <2>2, <2>3, <2>4, <2>5
<1> QED
  BY <1>4, <1>5 DEF RowsInv, RowIdsUnique

LEMMA RowsStep == ListsInv /\ RowsInv /\ [Next]_vars => RowsInv'
<1> SUFFICES ASSUME ListsInv, RowsInv, [Next]_vars  PROVE RowsInv'
  OBVIOUS
<1>1. CASE UNCHANGED <<rows, order, writes>>
  BY <1>1 DEF RowsInv, RowIdsUnique
<1>2. ASSUME NEW c \in Client, NEW list, UseList(list), ReplaceIntendedUses(c, list)
      PROVE  RowsInv'
  BY <1>2, ReplacementKeepsRowsInv
<1> QED
  BY <1>1, <1>2, StepsMoveRows DEF RowsMove

LEMMA RowsInvHolds == Spec => []RowsInv
<1>1. Init => RowsInv
  BY DEF Init, RowsInv, RowIdsUnique, NoRow
<1> QED
  BY <1>1, RowsStep, ListsHold, PTL DEF Spec

(***************************************************************************)
(* The primary keys of the rows are unique over all clients, through every *)
(* sequence of submissions, confirmations, failures and restarts           *)
(* (fake.go, SaveWRPDocument and SetIntendedUses).                         *)
(***************************************************************************)
THEOREM PrimaryKeys == Spec => []RowIdsUnique
<1>1. RowsInv => RowIdsUnique
  BY DEF RowsInv
<1> QED
  BY <1>1, RowsInvHolds, PTL

(***************************************************************************)
(* An intended use that is submitted again under its id is the same row    *)
(* (fake.go:511: it "KEEPS its internal ID across the replace").           *)
(***************************************************************************)
THEOREM SurvivorsKeepTheirRow == Spec => SurvivorsStay
<1> DEFINE Stay == \A c \in Client : \A u \in DOMAIN rows[c] \cap DOMAIN rows'[c] :
                      rows'[c][u].row = rows[c][u].row
<1>1. ASSUME ListsInv, [Next]_vars  PROVE Stay
  <2>1. CASE UNCHANGED <<rows, order, writes>>
    BY <2>1
  <2>2. ASSUME NEW c \in Client, NEW list, UseList(list), ReplaceIntendedUses(c, list)
        PROVE  Stay
    <3>1. /\ \A d \in Client \ {c} : rows'[d] = rows[d]
          /\ DOMAIN rows'[c] = Ids(list)
          /\ \A u \in Ids(list) :
                \/ u \in DOMAIN rows[c] /\ rows'[c][u].row = rows[c][u].row
                \/ u \notin DOMAIN rows[c]
      BY <1>1, <2>2, ReplacedState
    <3> QED
      BY <3>1
  <2> QED
    BY <1>1, <2>1, <2>2, StepsMoveRows DEF RowsMove
<1>2. ListsInv /\ [Next]_vars => [Stay]_vars
  BY <1>1
<1> QED
  BY <1>2, ListsHold, PTL DEF Spec, SurvivorsStay

-----------------------------------------------------------------------------
(***************************************************************************)
(* The order lists the rows.                                               *)
(***************************************************************************)

\* What is kept are the ids that have a row and are sent again, in order.
LEMMA KeptEntries ==
    ASSUME NEW c, order[c] \in Seq(UseId), NEW list
    PROVE  LET kept == KeptIds(c, list)
           IN  /\ \A k \in DOMAIN kept : \E i \in DOMAIN order[c] :
                     kept[k] = order[c][i] /\ order[c][i] \in Ids(list)
               /\ \A i \in DOMAIN order[c] : order[c][i] \in Ids(list) =>
                     \E k \in DOMAIN kept : kept[k] = order[c][i]
               /\ \A k, l \in DOMAIN kept : k < l =>
                     \E i, j \in DOMAIN order[c] :
                        i < j /\ kept[k] = order[c][i] /\ kept[l] = order[c][j]
<1> DEFINE stay == {i \in DOMAIN order[c] : order[c][i] \in Ids(list)}
<1>1. PICK n \in Nat : DOMAIN order[c] = 1..n
  OBVIOUS
<1>2. stay \in SUBSET (1..n)
  BY <1>1
<1>3. \A i \in DOMAIN order[c] : i \in stay <=> order[c][i] \in Ids(list)
  OBVIOUS
<1>4. stay \subseteq DOMAIN order[c]
  OBVIOUS
<1>5. KeptIds(c, list) = Picked(order[c], stay)
  BY DEF KeptIds
<1> HIDE DEF stay
<1> DEFINE kept == Picked(order[c], stay)
<1>0. InOrder(order[c], stay, kept)
  BY <1>2, PickedInOrder
<1> HIDE DEF kept
<1>6. /\ \A k \in DOMAIN kept : \E i \in stay : kept[k] = order[c][i]
      /\ \A i \in stay : \E k \in DOMAIN kept : kept[k] = order[c][i]
      /\ \A k, l \in DOMAIN kept : k < l =>
            \E i, j \in stay : i < j /\ kept[k] = order[c][i] /\ kept[l] = order[c][j]
  BY <1>0 DEF InOrder
<1>7. \A k \in DOMAIN kept : \E i \in DOMAIN order[c] :
         kept[k] = order[c][i] /\ order[c][i] \in Ids(list)
  BY <1>3, <1>4, <1>6
<1>8. \A i \in DOMAIN order[c] : order[c][i] \in Ids(list) =>
         \E k \in DOMAIN kept : kept[k] = order[c][i]
  BY <1>3, <1>6
<1>9. \A k, l \in DOMAIN kept : k < l =>
         \E i, j \in DOMAIN order[c] :
            i < j /\ kept[k] = order[c][i] /\ kept[l] = order[c][j]
  BY <1>4, <1>6
<1> QED
  BY <1>5, <1>7, <1>8, <1>9 DEF kept

\* What is appended are the ids sent that are not kept, each once.
LEMMA NewEntries ==
    ASSUME NEW kept, NEW list, UseList(list)
    PROVE  LET new == NewIds(kept, list)
           IN  /\ \A k \in DOMAIN new : new[k] \in Ids(list) /\ new[k] \notin ToSet(kept)
               /\ \A u \in Ids(list) : u \notin ToSet(kept) => \E k \in DOMAIN new : new[k] = u
               /\ \A k, l \in DOMAIN new : k < l => new[k] # new[l]
<1> DEFINE ids   == [i \in DOMAIN list |-> list[i].id]
           first == {i \in DOMAIN list : /\ list[i].id \notin ToSet(kept)
                                         /\ \A j \in 1..(i-1) : list[j].id # list[i].id}
           new   == Picked(ids, first)
<1>1. PICK n \in Nat : DOMAIN list = 1..n
  BY DEF UseList
<1>2. first \in SUBSET (1..n)
  BY <1>1
<1>3. NewIds(kept, list) = new
  BY DEF NewIds
<1>4. \A i \in first : /\ ids[i] \in Ids(list) /\ ids[i] \notin ToSet(kept)
                       /\ \A j \in 1..(i-1) : ids[j] # ids[i]
  BY <1>1 DEF Ids
<1>5. ASSUME NEW u \in Ids(list), u \notin ToSet(kept)
      PROVE  \E i \in first : ids[i] = u
  <2> DEFINE has == {i \in DOMAIN list : list[i].id = u}
  <2>1. has \in SUBSET (1..n) /\ has # {}
    BY <1>1 DEF Ids
  <2>2. PICK i \in has : \A j \in has : i <= j
    <3> HIDE DEF has
    <3> QED
      BY <2>1, FirstPlace
  <2>3. i \in 1..n /\ list[i].id = u
    BY <1>1
  <2>4. \A j \in 1..(i-1) : list[j].id # u
    BY <1>1, <2>2, <2>3
  <2> QED
    BY <1>1, <1>5, <2>3, <2>4
<1> HIDE DEF first, ids
<1>0. InOrder(ids, first, new)
  BY <1>2, PickedInOrder
<1> HIDE DEF new
<1>6. /\ \A k \in DOMAIN new : \E i \in first : new[k] = ids[i]
      /\ \A i \in first : \E k \in DOMAIN new : new[k] = ids[i]
      /\ \A k, l \in DOMAIN new : k < l =>
            \E i, j \in first : i < j /\ new[k] = ids[i] /\ new[l] = ids[j]
  BY <1>0 DEF InOrder
<1>7. \A k \in DOMAIN new : new[k] \in Ids(list) /\ new[k] \notin ToSet(kept)
  BY <1>4, <1>6
<1>8. \A u \in Ids(list) : u \notin ToSet(kept) => \E k \in DOMAIN new : new[k] = u
  BY <1>5, <1>6
<1>9. ASSUME NEW k \in DOMAIN new, NEW l \in DOMAIN new, k < l
      PROVE  new[k] # new[l]
  <2>1. PICK i \in first, j \in first : i < j /\ new[k] = ids[i] /\ new[l] = ids[j]
    BY <1>6, <1>9
  <2>2. i \in 1..(j-1)
    BY <1>2, <2>1
  <2> QED
    BY <1>4, <2>1, <2>2
<1> QED
  BY <1>3, <1>7, <1>8, <1>9

\* The new order of a client lists its new rows.
LEMMA ReplacingKeepsOrder ==
    ASSUME ListsInv, RowsInv, OrderInv, NEW c \in Client, NEW list, UseList(list),
           ReplaceIntendedUses(c, list)
    PROVE  /\ \A i \in DOMAIN order'[c] : order'[c][i] \in DOMAIN rows'[c]
           /\ \A u \in DOMAIN rows'[c] : \E i \in DOMAIN order'[c] : order'[c][i] = u
           /\ \A i, j \in DOMAIN order'[c] : i < j =>
                 /\ order'[c][i] # order'[c][j]
                 /\ rows'[c][order'[c][i]].row[1] <= rows'[c][order'[c][j]].row[1]
<1> DEFINE kept == KeptIds(c, list)
           new  == NewIds(kept, list)
           Made(u) == rows'[c][u].row[1]
<1>1. kept \in Seq(UseId)
  BY KeptIdsAreList DEF ListsInv
<1>2. new \in Seq(UseId)
  BY NewIdsAreList
<1>3. /\ order'[c] = kept \o new
      /\ writes \in Nat
      /\ DOMAIN rows'[c] = Ids(list)
      /\ \A u \in Ids(list) :
            \/ u \in DOMAIN rows[c] /\ rows'[c][u].row = rows[c][u].row
            \/ /\ u \notin DOMAIN rows[c]
               /\ rows'[c][u].row = <<writes + 1, Place(list, u)>>
  BY ReplacedState DEF ReplacedOrder
<1>4. /\ \A k \in DOMAIN kept : \E i \in DOMAIN order[c] :
            kept[k] = order[c][i] /\ order[c][i] \in Ids(list)
      /\ \A i \in DOMAIN order[c] : order[c][i] \in Ids(list) =>
            \E k \in DOMAIN kept : kept[k] = order[c][i]
      /\ \A k, l \in DOMAIN kept : k < l =>
            \E i, j \in DOMAIN order[c] :
               i < j /\ kept[k] = order[c][i] /\ kept[l] = order[c][j]
  BY KeptEntries DEF ListsInv
<1>5. /\ \A k \in DOMAIN new : new[k] \in Ids(list) /\ new[k] \notin ToSet(kept)
      /\ \A u \in Ids(list) : u \notin ToSet(kept) => \E k \in DOMAIN new : new[k] = u
      /\ \A k, l \in DOMAIN new : k < l => new[k] # new[l]
  BY NewEntries
<1> HIDE DEF new
<1> HIDE DEF kept
<1>6. ToSet(kept) = Ids(list) \cap DOMAIN rows[c]
  <2>1. ToSet(kept) = {kept[k] : k \in DOMAIN kept}
    BY DEF ToSet
  <2>2. /\ \A i \in DOMAIN order[c] : order[c][i] \in DOMAIN rows[c]
        /\ \A u \in DOMAIN rows[c] : \E i \in DOMAIN order[c] : order[c][i] = u
    BY DEF OrderInv
  <2> QED
    BY <1>4, <2>1, <2>2
<1>7. \A k \in DOMAIN kept : kept[k] \in ToSet(kept)
  BY DEF ToSet
<1>8. ASSUME NEW k \in DOMAIN kept
      PROVE  /\ kept[k] \in Ids(list) \cap DOMAIN rows[c]
             /\ Made(kept[k]) = rows[c][kept[k]].row[1] /\ Made(kept[k]) \in 1..writes
  <2>1. kept[k] \in Ids(list) \cap DOMAIN rows[c]
    BY <1>6, <1>7
  <2> QED
    BY <1>3, <2>1 DEF RowsInv
<1>9. ASSUME NEW k \in DOMAIN new
      PROVE  new[k] \in Ids(list) /\ new[k] \notin ToSet(kept) /\ Made(new[k]) = writes + 1
  <2>1. new[k] \in Ids(list) /\ new[k] \notin ToSet(kept) /\ new[k] \notin DOMAIN rows[c]
    BY <1>5, <1>6
  <2>2. rows'[c][new[k]].row = <<writes + 1, Place(list, new[k])>>
    BY <1>3, <2>1
  <2> QED
    BY <2>1, <2>2
<1>10. ASSUME NEW k \in DOMAIN kept, NEW l \in DOMAIN kept, k < l
       PROVE  kept[k] # kept[l] /\ Made(kept[k]) <= Made(kept[l])
  <2>1. PICK i \in DOMAIN order[c], j \in DOMAIN order[c] :
           i < j /\ kept[k] = order[c][i] /\ kept[l] = order[c][j]
    BY <1>4, <1>10
  <2>2. kept[k] # kept[l] /\ rows[c][kept[k]].row[1] <= rows[c][kept[l]].row[1]
    BY <2>1 DEF OrderInv
  <2> QED
    BY <1>8, <2>2
<1> DEFINE a == Len(kept)
           b == Len(new)
           o == kept \o new
<1>11. /\ a \in Nat /\ b \in Nat /\ DOMAIN kept = 1..a /\ DOMAIN new = 1..b
       /\ DOMAIN o = 1..(a + b)
       /\ \A i \in 1..a : o[i] = kept[i]
       /\ \A i \in (a+1)..(a+b) : i - a \in 1..b /\ o[i] = new[i - a]
       /\ \A k \in 1..b : a + k \in (a+1)..(a+b) /\ o[a + k] = new[k]
  BY <1>1, <1>2
<1> HIDE DEF a, b, o, Made
<1>12. ASSUME NEW i \in DOMAIN o  PROVE o[i] \in Ids(list)
  <2>1. i \in 1..a \/ i \in (a+1)..(a+b)
    BY <1>11
  <2> QED
    BY <1>8, <1>9, <1>11, <2>1
<1>13. ASSUME NEW u \in Ids(list)  PROVE \E i \in DOMAIN o : o[i] = u
  <2>1. CASE u \in ToSet(kept)
    <3>1. PICK k \in DOMAIN kept : kept[k] = u
      BY <2>1 DEF ToSet
    <3>2. k \in DOMAIN o /\ o[k] = u
      BY <1>11, <3>1
    <3> QED
      BY <3>2
  <2>2. CASE u \notin ToSet(kept)
    <3>1. PICK k \in DOMAIN new : new[k] = u
      BY <1>5, <2>2
    <3>2. a + k \in DOMAIN o /\ o[a + k] = u
      BY <1>11, <3>1
    <3> QED
      BY <3>2
  <2> QED
    BY <2>1, <2>2
<1>14. ASSUME NEW i \in DOMAIN o, NEW j \in DOMAIN o, i < j
       PROVE  o[i] # o[j] /\ Made(o[i]) <= Made(o[j])
  <2>1. \/ i \in 1..a /\ j \in 1..a
        \/ i \in 1..a /\ j \in (a+1)..(a+b)
        \/ i \in (a+1)..(a+b) /\ j \in (a+1)..(a+b)
    BY <1>11, <1>14
  <2>2. CASE i \in 1..a /\ j \in 1..a
    BY <1>10, <1>11, <1>14, <2>2
  <2>3. CASE i \in 1..a /\ j \in (a+1)..(a+b)
    <3>1. o[i] = kept[i] /\ i \in DOMAIN kept /\ o[j] = new[j - a] /\ j - a \in DOMAIN new
      BY <1>11, <2>3
    <3>2. Made(o[i]) \in 1..writes /\ Made(o[j]) = writes + 1
      BY <1>8, <1>9, <3>1
    <3>3. o[i] \in ToSet(kept) /\ o[j] \notin ToSet(kept)
      BY <1>7, <1>9, <3>1
    <3> QED
      BY <1>3, <3>2, <3>3
  <2>4. CASE i \in (a+1)..(a+b) /\ j \in (a+1)..(a+b)
    <3>1. /\ o[i] = new[i - a] /\ i - a \in DOMAIN new
          /\ o[j] = new[j - a] /\ j - a \in DOMAIN new
      BY <1>11, <2>4
    <3>2. i - a < j - a
      BY <1>11, <1>14, <2>4
    <3>3. o[i] # o[j]
      BY <1>5, <3>1, <3>2
    <3>4. Made(o[i]) = writes + 1 /\ Made(o[j]) = writes + 1
      BY <1>9, <3>1
    <3> QED
      BY <1>3, <3>3, <3>4
  <2> QED
    BY <2>1, <2>2, <2>3, <2>4
<1> QED
  BY <1>3, <1>12, <1>13, <1>14 DEF o, Made

LEMMA OrderStep == ListsInv /\ RowsInv /\ OrderInv /\ [Next]_vars => OrderInv'
<1> SUFFICES ASSUME ListsInv, RowsInv, OrderInv, [Next]_vars  PROVE OrderInv'
  OBVIOUS
<1>1. CASE UNCHANGED <<rows, order, writes>>
  BY <1>1 DEF OrderInv
<1>2. ASSUME NEW c \in Client, NEW list, UseList(list), ReplaceIntendedUses(c, list)
      PROVE  OrderInv'
  <2>1. \A d \in Client \ {c} : rows'[d] = rows[d] /\ order'[d] = order[d]
    BY <1>2, ReplacedState
  <2>2. /\ \A i \in DOMAIN order'[c] : order'[c][i] \in DOMAIN rows'[c]
        /\ \A u \in DOMAIN rows'[c] : \E i \in DOMAIN order'[c] : order'[c][i] = u
        /\ \A i, j \in DOMAIN order'[c] : i < j =>
              /\ order'[c][i] # order'[c][j]
              /\ rows'[c][order'[c][i]].row[1] <= rows'[c][order'[c][j]].row[1]
    BY <1>2, ReplacingKeepsOrder
  <2>3. ASSUME NEW d \in Client
        PROVE  /\ \A i \in DOMAIN order'[d] : order'[d][i] \in DOMAIN rows'[d]
               /\ \A u \in DOMAIN rows'[d] : \E i \in DOMAIN order'[d] : order'[d][i] = u
               /\ \A i, j \in DOMAIN order'[d] : i < j =>
                     /\ order'[d][i] # order'[d][j]
                     /\ rows'[d][order'[d][i]].row[1] <= rows'[d][order'[d][j]].row[1]
    <3>1. CASE d = c
      BY <2>2, <3>1
    <3>2. CASE d # c
      BY <2>1, <3>2 DEF OrderInv
    <3> QED
      BY <3>1, <3>2
  <2> QED
    BY <2>3 DEF OrderInv
<1> QED
  BY <1>1, <1>2, StepsMoveRows DEF RowsMove

LEMMA OrderHolds == Spec => []OrderInv
<1>1. Init => OrderInv
  BY DEF Init, OrderInv, NoRow
<1> QED
  BY <1>1, OrderStep, ListsHold, RowsInvHolds, PTL DEF Spec

(***************************************************************************)
(* The order kept beside the rows lists every row exactly once and oldest  *)
(* first, through every sequence of replacements that drop, keep, add and  *)
(* repeat ids (fake.go, intendedUseOrder).                                 *)
(***************************************************************************)
THEOREM OrderIsKept == Spec => []OrderListsRows
<1>1. ListsInv /\ OrderInv => OrderListsRows
  <2> SUFFICES ASSUME ListsInv, OrderInv, NEW c \in Client
               PROVE  /\ ToSet(order[c]) = DOMAIN rows[c]
                      /\ Len(order[c]) = Cardinality(DOMAIN rows[c])
                      /\ \A i, j \in DOMAIN order[c] :
                            i < j => rows[c][order[c][i]].row[1] <= rows[c][order[c][j]].row[1]
    BY DEF OrderListsRows
  <2>1. /\ \A i \in DOMAIN order[c] : order[c][i] \in DOMAIN rows[c]
        /\ \A u \in DOMAIN rows[c] : \E i \in DOMAIN order[c] : order[c][i] = u
        /\ \A i, j \in DOMAIN order[c] : i < j =>
              /\ order[c][i] # order[c][j]
              /\ rows[c][order[c][i]].row[1] <= rows[c][order[c][j]].row[1]
    BY DEF OrderInv
  <2>2. ToSet(order[c]) = {order[c][i] : i \in DOMAIN order[c]}
    BY DEF ToSet
  <2>3. ToSet(order[c]) = DOMAIN rows[c]
    BY <2>1, <2>2
  <2>4. order[c] \in Seq(UseId)
    BY DEF ListsInv
  <2>5. Len(order[c]) = Cardinality(ToSet(order[c]))
    BY <2>1, <2>2, <2>4, DistinctLength
  <2> QED
    BY <2>1, <2>3, <2>5
<1> QED
  BY <1>1, ListsHold, OrderHolds, PTL

-----------------------------------------------------------------------------
(***************************************************************************)
(* Every arrival is one replacement at most, and every replacement is      *)
(* audited once at most.                                                   *)
(***************************************************************************)
Waiting     == {r \in Request : pc[r] \in {"save", "replace"}}
Auditing(c) == {r \in Request : pc[r] = "audit" /\ job[r].client = c}

CountInv ==
    /\ IsFiniteSet(Waiting)
    /\ writes + Cardinality(Waiting) <= arrived
    /\ unaudited = [c \in Client |-> unaudited[c]]
    /\ \A c \in Client :
          /\ IsFiniteSet(Auditing(c))
          /\ unaudited[c] \in 0..writes
          /\ Cardinality(Auditing(c)) <= unaudited[c]
          /\ ~faulted => Cardinality(Auditing(c)) = unaudited[c]

\* What a step does to the requests that will write: it adds one, turns one
\* into a replacement, or gives some up.
WaitingMove ==
    \/ /\ \E r \in Request \ Waiting : Waiting' = Waiting \cup {r}
       /\ arrived' = arrived + 1 /\ writes' = writes
    \/ /\ \E r \in Waiting : Waiting' = Waiting \ {r}
       /\ arrived' = arrived /\ writes' = writes + 1
    \/ /\ Waiting' \subseteq Waiting
       /\ arrived' \in {arrived, arrived + 1} /\ writes' = writes

\* And to the requests that will audit a replacement of client c.
AuditMove(c) ==
    \/ /\ \E r \in Request \ Auditing(c) : Auditing(c)' = Auditing(c) \cup {r}
       /\ unaudited'[c] = unaudited[c] + 1 /\ writes' = writes + 1
    \/ /\ \E r \in Auditing(c) : Auditing(c)' = Auditing(c) \ {r}
       /\ unaudited'[c] = unaudited[c] - 1 /\ writes' = writes
    \/ /\ Auditing(c)' = Auditing(c) /\ unaudited'[c] = unaudited[c]
       /\ writes' \in {writes, writes + 1}
    \/ /\ Auditing(c)' \subseteq Auditing(c) /\ faulted'
       /\ \/ unaudited'[c] = unaudited[c] /\ writes' = writes
          \/ unaudited'[c] = unaudited[c] + 1 /\ writes' = writes + 1

CountMove ==
    /\ WaitingMove
    /\ faulted => faulted'
    /\ unaudited' = [c \in Client |-> unaudited'[c]]
    /\ \A c \in Client : AuditMove(c)

\* A step that moves one request from a label to another.
LEMMA LabelMoves ==
    ASSUME ListsInv, NEW r \in Request, NEW l, pc' = [pc EXCEPT ![r] = l],
           \A q \in Request \ {r} : job'[q] = job[q]
    PROVE  /\ l \in {"save", "replace"} => Waiting' = Waiting \cup {r}
           /\ l \notin {"save", "replace"} => Waiting' = Waiting \ {r}
           /\ \A c : l = "audit" /\ job'[r].client = c => Auditing(c)' = Auditing(c) \cup {r}
           /\ \A c : ~(l = "audit" /\ job'[r].client = c) => Auditing(c)' = Auditing(c) \ {r}
<1>1. pc'[r] = l /\ \A q \in Request \ {r} : pc'[q] = pc[q]
  BY DEF ListsInv
<1>2. Waiting' = {q \in Request : pc'[q] \in {"save", "replace"}}
  BY DEF Waiting
<1>3. \A c : Auditing(c)' = {q \in Request : pc'[q] = "audit" /\ job'[q].client = c}
  BY DEF Auditing
<1> QED
  BY <1>1, <1>2, <1>3 DEF Waiting, Auditing

LEMMA StepsCount ==
    ASSUME ListsInv, CountInv, [Next]_vars
    PROVE  CountMove
<1> USE DEF CountMove, WaitingMove, AuditMove
<1>1. /\ \A q \in Request : q \in Waiting <=> pc[q] \in {"save", "replace"}
      /\ \A q \in Request, c \in Client :
            q \in Auditing(c) <=> pc[q] = "audit" /\ job[q].client = c
      /\ Waiting \subseteq Request /\ \A c \in Client : Auditing(c) \subseteq Request
  BY DEF Waiting, Auditing
<1>2. unaudited = [c \in Client |-> unaudited[c]]
  BY DEF CountInv
<1>3. ASSUME UNCHANGED <<writes, arrived, pc, job, unaudited, faulted>>  PROVE CountMove
  <2>1. Waiting' = Waiting /\ \A c \in Client : Auditing(c)' = Auditing(c)
    BY <1>3 DEF Waiting, Auditing
  <2> QED
    BY <1>2, <1>3, <2>1
<1>4. ASSUME NEW c \in Client, CreateDraftClient(c)  PROVE CountMove
  BY <1>3, <1>4 DEF CreateDraftClient, requests
<1>5. ASSUME NEW r \in Request, pc[r] \in {"idle", "done", "readback"},
             NEW l \in {"save", "replace", "done"}, pc' = [pc EXCEPT ![r] = l],
             \A q \in Request \ {r} : job'[q] = job[q],
             UNCHANGED <<writes, unaudited>>, faulted => faulted',
             arrived' = arrived + 1 \/ (l = "done" /\ arrived' = arrived)
      PROVE  CountMove
  <2>1. /\ l \in {"save", "replace"} => Waiting' = Waiting \cup {r}
        /\ l \notin {"save", "replace"} => Waiting' = Waiting \ {r}
        /\ \A c : l # "audit" => Auditing(c)' = Auditing(c) \ {r}
    BY <1>5, LabelMoves
  <2>2. r \notin Waiting /\ \A c \in Client : r \notin Auditing(c)
    BY <1>1, <1>5
  <2>3. ASSUME NEW c \in Client PROVE Auditing(c)' = Auditing(c)
    <3>1. Auditing(c)' = Auditing(c) \ {r}
      BY <1>5, <2>1
    <3> QED
      BY <2>2, <3>1
  <2>4. WaitingMove
    BY <1>5, <2>1, <2>2
  <2> QED
    BY <1>2, <1>5, <2>3, <2>4
<1>6. ASSUME NEW r \in Request, NEW c \in Client, NEW body \in Body,
             PutRegistration(r, c, body)
      PROVE  CountMove
  <2>1. /\ pc[r] \in {"idle", "done"} /\ arrived' = arrived + 1
        /\ \E l \in {"save", "done"} : pc' = [pc EXCEPT ![r] = l]
        /\ UNCHANGED <<writes, unaudited, faulted>>
    BY <1>6 DEF PutRegistration, Arrives, Free, Answers, store
  <2>2. \E x : job' = [job EXCEPT ![r] = x]
    BY <1>6 DEF PutRegistration
  <2>3. \A q \in Request \ {r} : job'[q] = job[q]
    BY <2>2 DEF ListsInv
  <2> QED
    BY <1>5, <2>1, <2>3
<1>7. ASSUME NEW r \in Request, NEW c \in Client, NEW name, Confirm(r, c, name)
      PROVE  CountMove
  <2>1. /\ pc[r] \in {"idle", "done"} /\ arrived' = arrived + 1
        /\ pc' = [pc EXCEPT ![r] = "replace"]
        /\ UNCHANGED <<writes, unaudited, faulted>>
    BY <1>7 DEF Confirm, Arrives, Free, store
  <2>2. \E x : job' = [job EXCEPT ![r] = x]
    BY <1>7 DEF Confirm
  <2>3. \A q \in Request \ {r} : job'[q] = job[q]
    BY <2>2 DEF ListsInv
  <2> QED
    BY <1>5, <2>1, <2>3
<1>8. ASSUME NEW r \in Request, NEW c \in Client, GetClient(r, c)  PROVE CountMove
  <2>1. \A q \in Request \ {r} : job'[q] = job[q]
    BY <1>8 DEF GetClient, ListsInv
  <2> QED
    BY <1>5, <1>8, <2>1 DEF GetClient, Free, Answers, store
<1>9. ASSUME NEW r \in Request, ReadBack(r) PROVE CountMove
  BY <1>5, <1>9 DEF ReadBack, Answers, store
<1>10. ASSUME NEW r \in Request, pc[r] \in {"save", "replace"},
              NEW l \in {"readback", "audit", "done"}, pc' = [pc EXCEPT ![r] = l],
              UNCHANGED <<job, arrived>>, writes' = writes + 1,
              IF pc[r] = "save"
              THEN l # "audit" /\ unaudited' = unaudited
              ELSE unaudited' = [unaudited EXCEPT ![job[r].client] = @ + 1],
              faulted => faulted', pc[r] = "replace" => l = "audit" \/ faulted'
      PROVE  CountMove
  <2>1. /\ Waiting' = Waiting \ {r}
        /\ \A c : l = "audit" /\ job[r].client = c => Auditing(c)' = Auditing(c) \cup {r}
        /\ \A c : ~(l = "audit" /\ job[r].client = c) => Auditing(c)' = Auditing(c) \ {r}
    BY <1>10, LabelMoves
  <2>2. r \in Waiting /\ \A c \in Client : r \notin Auditing(c)
    BY <1>1, <1>10
  <2>3. WaitingMove
    BY <1>10, <2>1, <2>2
  <2>4. unaudited' = [c \in Client |-> unaudited'[c]]
    BY <1>2, <1>10
  <2>5. ASSUME NEW c \in Client  PROVE AuditMove(c)
    <3>1. CASE pc[r] = "save" \/ job[r].client # c
      <4>1. Auditing(c)' = Auditing(c)
        <5>1. ~(l = "audit" /\ job[r].client = c)
          BY <1>10, <3>1
        <5>2. Auditing(c)' = Auditing(c) \ {r}
          BY <2>1, <5>1
        <5> QED
          BY <2>2, <5>2
      <4>2. unaudited'[c] = unaudited[c]
        BY <1>2, <1>10, <3>1
      <4> QED
        BY <1>10, <4>1, <4>2
    <3>2. CASE pc[r] = "replace" /\ job[r].client = c
      <4>1. unaudited'[c] = unaudited[c] + 1
        BY <1>2, <1>10, <3>2
      <4>2. CASE l = "audit"
        BY <1>10, <2>1, <2>2, <3>2, <4>1, <4>2
      <4>3. CASE l # "audit"
        BY <1>10, <2>1, <2>2, <3>2, <4>1, <4>3
      <4> QED
        BY <4>2, <4>3
    <3> QED
      BY <1>10, <3>1, <3>2
  <2> QED
    BY <1>10, <2>3, <2>4, <2>5
<1>11. ASSUME NEW r \in Request, pc[r] \in {"save", "replace", "readback", "audit"},
              pc' = [pc EXCEPT ![r] = "done"],
              UNCHANGED <<writes, arrived, job, unaudited>>,
              IF pc[r] = "audit" THEN faulted' ELSE faulted => faulted'
       PROVE  CountMove
  <2> DEFINE l == "done"
  <2>0. l \notin {"save", "replace", "audit"}
    OBVIOUS
  <2> HIDE DEF l
  <2>1. Waiting' = Waiting \ {r} /\ \A c : Auditing(c)' = Auditing(c) \ {r}
    <3>1. pc' = [pc EXCEPT ![r] = l] /\ \A q \in Request \ {r} : job'[q] = job[q]
      BY <1>11 DEF l
    <3> QED
      BY <2>0, <3>1, LabelMoves
  <2>2. WaitingMove
    BY <1>11, <2>1
  <2>3. ASSUME NEW c \in Client  PROVE AuditMove(c)
    <3>1. CASE pc[r] = "audit"
      BY <1>11, <2>1, <3>1
    <3>2. CASE pc[r] # "audit"
      <4>1. Auditing(c)' = Auditing(c)
        BY <1>1, <2>1, <3>2
      <4> QED
        BY <1>11, <4>1
    <3> QED
      BY <3>1, <3>2
  <2> QED
    BY <1>2, <1>11, <2>2, <2>3
<1>12. ASSUME NEW r \in Request, pc[r] = "audit", pc' = [pc EXCEPT ![r] = "done"],
              UNCHANGED <<writes, arrived, job>>, faulted => faulted',
              unaudited' = [unaudited EXCEPT ![job[r].client] = @ - 1]
       PROVE  CountMove
  <2> DEFINE l == "done"
  <2>0. l \notin {"save", "replace", "audit"}
    OBVIOUS
  <2> HIDE DEF l
  <2>1. Waiting' = Waiting \ {r} /\ \A c : Auditing(c)' = Auditing(c) \ {r}
    <3>1. pc' = [pc EXCEPT ![r] = l] /\ \A q \in Request \ {r} : job'[q] = job[q]
      BY <1>12 DEF l
    <3> QED
      BY <2>0, <3>1, LabelMoves
  <2>2. WaitingMove
    BY <1>12, <2>1
  <2>3. unaudited' = [c \in Client |-> unaudited'[c]]
    BY <1>2, <1>12
  <2>4. ASSUME NEW c \in Client  PROVE AuditMove(c)
    <3>1. CASE job[r].client = c
      <4>1. unaudited'[c] = unaudited[c] - 1 /\ r \in Auditing(c)
        BY <1>1, <1>2, <1>12, <3>1
      <4> QED
        BY <1>12, <2>1, <4>1
    <3>2. CASE job[r].client # c
      <4>1. unaudited'[c] = unaudited[c] /\ r \notin Auditing(c)
        BY <1>1, <1>2, <1>12, <3>2
      <4>2. Auditing(c)' = Auditing(c)
        BY <2>1, <4>1
      <4> QED
        BY <1>12, <4>1, <4>2
    <3> QED
      BY <3>1, <3>2
  <2> QED
    BY <1>12, <2>2, <2>3, <2>4
<1>13. ASSUME NEW r \in Request, Save(r)  PROVE CountMove
  BY <1>10, <1>11, <1>13 DEF Save, SaveWRPDocument, ReplaceIntendedUses, Goto, Answers, store
<1>14. ASSUME NEW r \in Request, Replace(r)  PROVE CountMove
  BY <1>10, <1>11, <1>14 DEF Replace, SetIntendedUses, ReplaceIntendedUses, Goto, Answers, store
<1>15. ASSUME NEW r \in Request, AuditReplace(r)  PROVE CountMove
  BY <1>12, <1>15 DEF AuditReplace, AppendAudit, Answers, store
<1>16. ASSUME NEW r \in Request, CallFails(r)  PROVE CountMove
  BY <1>11, <1>16 DEF CallFails, Fails, Answers, store
<1>17. ASSUME NEW r \in Request, AnswerLost(r)  PROVE CountMove
  <2>1. pc' = [pc EXCEPT ![r] = "done"] /\ faulted' = TRUE /\ UNCHANGED <<arrived, job>>
    BY <1>17 DEF AnswerLost, Fails, Answers
  <2>2. CASE pc[r] = "save" /\ SaveWRPDocument(job[r].client, job[r].doc, job[r].uses)
    BY <1>10, <2>1, <2>2 DEF SaveWRPDocument, ReplaceIntendedUses
  <2>3. CASE pc[r] = "replace" /\ SetIntendedUses(job[r].client, job[r].uses)
    BY <1>10, <2>1, <2>3 DEF SetIntendedUses, ReplaceIntendedUses
  <2>4. CASE pc[r] = "audit" /\ AppendAudit(job[r].client)
    BY <1>12, <2>1, <2>4 DEF AppendAudit, store
  <2> QED
    BY <1>17, <2>2, <2>3, <2>4 DEF AnswerLost
<1>18. CASE Crash
  <2>1. Waiting' = {} /\ \A c \in Client : Auditing(c)' = {}
    BY <1>18 DEF Crash, Waiting, Auditing
  <2> QED
    BY <1>2, <1>18, <2>1 DEF Crash, store
<1>19. CASE UNCHANGED vars
  BY <1>3, <1>19 DEF vars, store, requests
<1> QED
  BY <1>4, <1>6, <1>7, <1>8, <1>9, <1>13, <1>14, <1>15, <1>16, <1>17, <1>18, <1>19 DEF Next

LEMMA CountStep == ListsInv /\ CountInv /\ [Next]_vars => CountInv'
<1> SUFFICES ASSUME ListsInv, CountInv, [Next]_vars  PROVE CountInv'
  OBVIOUS
<1>1. CountMove
  BY StepsCount
<1>2. writes \in Nat /\ arrived \in Nat /\ faulted \in BOOLEAN
  BY DEF ListsInv
<1>3. faulted' \in BOOLEAN
  BY ListsStep DEF ListsInv
<1>4. IsFiniteSet(Waiting') /\ writes' + Cardinality(Waiting') <= arrived'
  <2>1. IsFiniteSet(Waiting) /\ writes + Cardinality(Waiting) <= arrived
    BY DEF CountInv
  <2>2. Cardinality(Waiting) \in Nat
    BY <2>1, FS_CardinalityType
  <2>3. ASSUME NEW r \in Request \ Waiting, Waiting' = Waiting \cup {r},
               arrived' = arrived + 1, writes' = writes
        PROVE  IsFiniteSet(Waiting') /\ writes' + Cardinality(Waiting') <= arrived'
    <3>1. IsFiniteSet(Waiting \cup {r}) /\ Cardinality(Waiting \cup {r}) = Cardinality(Waiting) + 1
      BY <2>1, FS_AddElement
    <3> QED
      BY <1>2, <2>1, <2>2, <2>3, <3>1
  <2>4. ASSUME NEW r \in Waiting, Waiting' = Waiting \ {r},
               arrived' = arrived, writes' = writes + 1
        PROVE  IsFiniteSet(Waiting') /\ writes' + Cardinality(Waiting') <= arrived'
    <3>1. IsFiniteSet(Waiting \ {r}) /\ Cardinality(Waiting \ {r}) = Cardinality(Waiting) - 1
      BY <2>1, FS_RemoveElement
    <3> QED
      BY <1>2, <2>1, <2>2, <2>4, <3>1
  <2>5. ASSUME Waiting' \subseteq Waiting, arrived' \in {arrived, arrived + 1}, writes' = writes
        PROVE  IsFiniteSet(Waiting') /\ writes' + Cardinality(Waiting') <= arrived'
    <3>1. /\ IsFiniteSet(Waiting') /\ Cardinality(Waiting') <= Cardinality(Waiting)
      BY <2>1, <2>5, FS_Subset
    <3>2. Cardinality(Waiting') \in Nat
      BY <3>1, FS_CardinalityType
    <3> QED
      BY <1>2, <2>1, <2>2, <2>5, <3>1, <3>2
  <2> QED
    BY <1>1, <2>3, <2>4, <2>5 DEF CountMove, WaitingMove
<1>5. ASSUME NEW c \in Client
      PROVE  /\ IsFiniteSet(Auditing(c)')
             /\ unaudited'[c] \in 0..writes'
             /\ Cardinality(Auditing(c)') <= unaudited'[c]
             /\ ~faulted' => Cardinality(Auditing(c)') = unaudited'[c]
  <2> DEFINE A == Auditing(c)
             B == Auditing(c)'
             Kept == /\ IsFiniteSet(B)
                     /\ unaudited'[c] \in 0..writes'
                     /\ Cardinality(B) <= unaudited'[c]
                     /\ ~faulted' => Cardinality(B) = unaudited'[c]
  <2>1. /\ IsFiniteSet(A) /\ unaudited[c] \in 0..writes
        /\ Cardinality(A) <= unaudited[c]
        /\ ~faulted => Cardinality(A) = unaudited[c]
    BY DEF CountInv
  <2>2. Cardinality(A) \in Nat
    BY <2>1, FS_CardinalityType
  <2>3. AuditMove(c) /\ (faulted => faulted')
    BY <1>1 DEF CountMove
  <2>4. \/ \E r \in Request \ A : B = A \cup {r} /\ unaudited'[c] = unaudited[c] + 1
                                   /\ writes' = writes + 1
        \/ \E r \in A : B = A \ {r} /\ unaudited'[c] = unaudited[c] - 1 /\ writes' = writes
        \/ B = A /\ unaudited'[c] = unaudited[c] /\ writes' \in {writes, writes + 1}
        \/ /\ B \subseteq A /\ faulted'
           /\ \/ unaudited'[c] = unaudited[c] /\ writes' = writes
              \/ unaudited'[c] = unaudited[c] + 1 /\ writes' = writes + 1
    BY <2>3 DEF AuditMove
  <2> HIDE DEF A, B
  <2>5. ASSUME NEW r \in Request \ A, B = A \cup {r}, unaudited'[c] = unaudited[c] + 1,
               writes' = writes + 1
        PROVE  Kept
    <3>1. IsFiniteSet(B) /\ Cardinality(B) = Cardinality(A) + 1
      BY <2>1, <2>5, FS_AddElement
    <3> QED
      BY <1>2, <1>3, <2>1, <2>2, <2>3, <2>5, <3>1
  <2>6. ASSUME NEW r \in A, B = A \ {r}, unaudited'[c] = unaudited[c] - 1, writes' = writes
        PROVE  Kept
    <3>1. IsFiniteSet(B) /\ Cardinality(B) = Cardinality(A) - 1
      BY <2>1, <2>6, FS_RemoveElement
    <3>2. Cardinality(B) \in Nat
      BY <3>1, FS_CardinalityType
    <3> QED
      BY <1>2, <1>3, <2>1, <2>2, <2>3, <2>6, <3>1, <3>2
  <2>7. ASSUME B = A, unaudited'[c] = unaudited[c], writes' \in {writes, writes + 1}
        PROVE  Kept
    <3>1. unaudited'[c] \in 0..writes'
      BY <1>2, <2>1, <2>7
    <3> QED
      BY <1>2, <1>3, <2>1, <2>3, <2>7, <3>1
  <2>8. ASSUME B \subseteq A, faulted',
               \/ unaudited'[c] = unaudited[c] /\ writes' = writes
               \/ unaudited'[c] = unaudited[c] + 1 /\ writes' = writes + 1
        PROVE  Kept
    <3>1. IsFiniteSet(B) /\ Cardinality(B) <= Cardinality(A)
      BY <2>1, <2>8, FS_Subset
    <3>2. Cardinality(B) \in Nat
      BY <3>1, FS_CardinalityType
    <3>3. unaudited'[c] \in 0..writes' /\ unaudited[c] <= unaudited'[c]
      BY <1>2, <2>1, <2>8
    <3> QED
      BY <1>2, <2>1, <2>2, <2>8, <3>1, <3>2, <3>3
  <2>9. Kept
    BY <2>4, <2>5, <2>6, <2>7, <2>8
  <2> QED
    BY <2>9 DEF B
<1>6. unaudited' = [c \in Client |-> unaudited'[c]]
  BY <1>1 DEF CountMove
<1> QED
  BY <1>4, <1>5, <1>6 DEF CountInv

LEMMA CountsHold == Spec => []CountInv
<1>1. Init => CountInv
  <2> SUFFICES ASSUME Init  PROVE CountInv
    OBVIOUS
  <2>1. Waiting = {} /\ \A c : Auditing(c) = {}
    BY DEF Init, Waiting, Auditing
  <2>2. IsFiniteSet({}) /\ Cardinality({}) = 0
    BY FS_EmptySet
  <2>3. writes = 0 /\ arrived = 0 /\ unaudited = [c \in Client |-> 0]
    BY DEF Init
  <2> QED
    BY <2>1, <2>2, <2>3 DEF CountInv
<1> QED
  BY <1>1, CountStep, ListsHold, PTL DEF Spec

(***************************************************************************)
(* Every replacement of the rows that has no audit entry yet belongs to a  *)
(* request that is about to append it, unless a call failed or the service *)
(* died (repo.go:275), for any number of requests.                         *)
(***************************************************************************)
THEOREM AuditsAreLostByFaultsOnly == Spec => []OnlyFaultsLoseAudits
<1>1. CountInv => OnlyFaultsLoseAudits
  BY DEF CountInv, OnlyFaultsLoseAudits, Auditing
<1> QED
  BY <1>1, CountsHold, PTL

(***************************************************************************)
(* The registration store and its requests keep their types: no row has a  *)
(* primary key that no replacement gave out, and there is no replacement   *)
(* that no request asked for.                                              *)
(***************************************************************************)
THEOREM TypeCorrect == Spec => []TypeOK
<1>1. ListsInv /\ RowsInv /\ CountInv => TypeOK
  <2> SUFFICES ASSUME ListsInv, RowsInv, CountInv  PROVE TypeOK
    OBVIOUS
  <2>1. writes <= arrived
    <3>1. Cardinality(Waiting) \in Nat
      BY FS_CardinalityType DEF CountInv
    <3> QED
      BY <3>1 DEF CountInv, ListsInv
  <2>2. ASSUME NEW c \in Client
        PROVE  /\ DOMAIN rows[c] \subseteq UseId
               /\ \A u \in DOMAIN rows[c] : rows[c][u].row \in (1..writes) \X Nat
               /\ order[c] \in Seq(UseId)
               /\ unaudited[c] \in 0..writes
    <3>1. DOMAIN rows[c] \subseteq UseId
      BY DEF RowsInv
    <3>2. ASSUME NEW u \in DOMAIN rows[c]
          PROVE  rows[c][u].row \in (1..writes) \X Nat
      <4> DEFINE id == rows[c][u].row
      <4>1. id = <<id[1], id[2]>> /\ id[1] \in 1..writes /\ id[2] \in Nat
        BY DEF RowsInv
      <4> HIDE DEF id
      <4>2. id \in (1..writes) \X Nat
        BY <4>1
      <4> QED
        BY <4>2 DEF id
    <3>3. order[c] \in Seq(UseId) /\ unaudited[c] \in 0..writes
      BY DEF ListsInv, CountInv
    <3> QED
      BY <3>1, <3>2, <3>3
  <2> QED
    BY <2>1, <2>2 DEF TypeOK, ListsInv, Labels, Reasons
<1> QED
  BY <1>1, ListsHold, RowsInvHolds, CountsHold, PTL

-----------------------------------------------------------------------------
(***************************************************************************)
(* What Build makes of a form: a valid document that makes itself again.   *)
(***************************************************************************)
LEMMA NonEmptyIsFilled ==
    ASSUME NEW ss \in Seq(STRING)
    PROVE  NonEmpty(ss) \in Seq(STRING) /\ AllFilled(NonEmpty(ss))
<1> DEFINE filled == {i \in DOMAIN ss : ss[i] # ""}
<1>1. PICK n \in Nat : DOMAIN ss = 1..n
  OBVIOUS
<1>2. filled \in SUBSET DOMAIN ss /\ filled \in SUBSET (1..n)
  BY <1>1
<1>3. \A i \in filled : ss[i] # ""
  OBVIOUS
<1>4. NonEmpty(ss) = Picked(ss, filled)
  BY DEF NonEmpty
<1> HIDE DEF filled
<1>5. Picked(ss, filled) \in Seq(STRING)
  BY <1>2, PickedIsList
<1>6. \A k \in DOMAIN Picked(ss, filled) : \E i \in filled : Picked(ss, filled)[k] = ss[i]
  <2>1. InOrder(ss, filled, Picked(ss, filled))
    BY <1>1, <1>2, PickedInOrder
  <2> QED
    BY <2>1 DEF InOrder
<1> QED
  BY <1>3, <1>4, <1>5, <1>6 DEF AllFilled

LEMMA FilledIsNonEmpty ==
    ASSUME NEW ss \in Seq(STRING), AllFilled(ss)
    PROVE  NonEmpty(ss) = ss
<1>1. {i \in DOMAIN ss : ss[i] # ""} = DOMAIN ss
  BY DEF AllFilled
<1> QED
  BY <1>1, PickedAll DEF NonEmpty

LEMMA NonEmptyIsStable ==
    ASSUME NEW ss \in Seq(STRING)
    PROVE  NonEmpty(NonEmpty(ss)) = NonEmpty(ss)
BY NonEmptyIsFilled, FilledIsNonEmpty

\* A registered credential keeps the rules of its format.
LEMMA BuiltCredentialIsValid ==
    ASSUME NEW cf, cf.types \in Seq(STRING), ValidCredentialForm(cf)
    PROVE  ValidCredential(DocCredential(cf))
<1> DEFINE cred == DocCredential(cf)
<1>1. /\ cred.format = cf.format /\ cred.claims = BuiltClaims(cf)
      /\ cred.meta.values = NonEmpty(cf.types)
      /\ cred.meta.kind = IF cf.format = "mso_mdoc" THEN "doctype_value" ELSE "vct_values"
  BY DEF DocCredential, BuildMeta
<1>2. AllFilled(NonEmpty(cf.types))
  BY NonEmptyIsFilled
<1>3. /\ cf.format \in Formats /\ NonEmpty(cf.types) # <<>>
      /\ cf.format = "mso_mdoc" => Len(NonEmpty(cf.types)) = 1
  BY DEF ValidCredentialForm
<1>4. cred.meta.kind = "doctype_value" <=> cf.format = "mso_mdoc"
  <2> HIDE DEF cred
  <2> QED
    BY <1>1
<1>5. \A k \in DOMAIN BuiltClaims(cf) :
         BuiltClaims(cf)[k] # <<>> /\ AllFilled(BuiltClaims(cf)[k])
  <2>1. CASE cf.allClaims
    <3>1. BuiltClaims(cf) = <<>>
      BY <2>1, Zenon DEF BuiltClaims
    <3> QED
      BY <3>1
  <2>2. CASE ~cf.allClaims
    <3>1. BuiltClaims(cf) = cf.claims
      BY <2>2, Zenon DEF BuiltClaims
    <3>2. \A k \in DOMAIN cf.claims : ValidPath(cf.claims[k])
      BY <2>2, Zenon DEF ValidCredentialForm, ValidClaims
    <3> QED
      BY <3>1, <3>2 DEF ValidPath, AllFilled
  <2> QED
    BY <2>1, <2>2
<1> HIDE DEF cred
<1>6. ValidCredential(cred)
  BY <1>1, <1>2, <1>3, <1>4, <1>5 DEF ValidCredential
<1> QED
  BY <1>6 DEF cred

\* The form that asks for a registered credential registers it.
LEMMA CredentialRoundTrips ==
    ASSUME NEW cf, cf.types \in Seq(STRING), ValidCredentialForm(cf)
    PROVE  /\ ValidCredentialForm(CredentialFormOf(DocCredential(cf)))
           /\ DocCredential(CredentialFormOf(DocCredential(cf))) = DocCredential(cf)
<1> DEFINE cred   == DocCredential(cf)
           again  == CredentialFormOf(cred)
           values == NonEmpty(cf.types)
           claims == BuiltClaims(cf)
<1>1. cred = [format |-> cf.format, claims |-> claims,
              meta |-> [kind |-> IF cf.format = "mso_mdoc" THEN "doctype_value" ELSE "vct_values",
                        values |-> values]]
  BY DEF DocCredential, BuildMeta
<1>2. again.format = cf.format /\ again.types = values /\ again.claims = claims
  BY DEF CredentialFormOf, DocCredential, BuildMeta
<1>3. again.allClaims = (claims = <<>>)
  BY DEF CredentialFormOf, DocCredential
<1>4. values \in Seq(STRING) /\ NonEmpty(values) = values
  BY NonEmptyIsFilled, NonEmptyIsStable
<1>5. claims = <<>> \/ (claims # <<>> /\ \A k \in DOMAIN claims : ValidPath(claims[k]))
  BY Zenon DEF BuiltClaims, ValidCredentialForm, ValidClaims
<1>6. /\ cf.format \in Formats /\ values # <<>>
      /\ cf.format = "mso_mdoc" => Len(values) = 1
  BY DEF ValidCredentialForm
<1> HIDE DEF cred, again, values, claims
<1>7. ValidClaims(again)
  BY <1>2, <1>3, <1>5, Zenon DEF ValidClaims
<1>8. ValidCredentialForm(again)
  BY <1>2, <1>4, <1>6, <1>7, Zenon DEF ValidCredentialForm
<1>9. BuiltClaims(again) = claims
  BY <1>2, <1>3, Zenon DEF BuiltClaims
<1>10. BuildMeta(again) =
         [kind   |-> IF cf.format = "mso_mdoc" THEN "doctype_value" ELSE "vct_values",
          values |-> values]
  BY <1>2, <1>4 DEF BuildMeta
<1>11. DocCredential(again) = cred
  BY <1>1, <1>2, <1>9, <1>10 DEF DocCredential
<1> QED
  BY <1>8, <1>11 DEF cred, again

\* What the rest needs to know of the form a body is reshaped into.
UseShape(u) ==
    /\ u.credentials # <<>> => 1 \in DOMAIN u.credentials
    /\ \A j \in DOMAIN u.credentials : u.credentials[j].types \in Seq(STRING)
    /\ \A k \in DOMAIN u.policies :
          u.policies[k] = [type |-> DefaultPolicyType, uri |-> u.policies[k].uri]

FormShape(f) ==
    /\ f.legalName \in Seq(STRING) /\ f.email \in Seq(STRING) /\ f.phone \in Seq(STRING)
    /\ f.otherIds \in Seq([type : STRING, id : STRING]) /\ f.euid \in STRING
    /\ \A s \in {f.supervisory.email, f.supervisory.phone, f.supervisory.formUri} :
          s \in Seq(STRING)
    /\ \E n \in Nat : DOMAIN f.uses = 1..n
    /\ f.uses # <<>> => 1 \in DOMAIN f.uses
    /\ \A i \in DOMAIN f.uses : UseShape(f.uses[i])

LEMMA NonEmptyList ==
    ASSUME NEW T, NEW list \in Seq(T), list # <<>>
    PROVE  1 \in DOMAIN list
OBVIOUS

LEMMA PairEntries ==
    ASSUME NEW a, NEW b
    PROVE  /\ <<a, b>> # <<>> /\ <<a, b>>[1] = a /\ <<a, b>>[2] = b
           /\ \A i \in DOMAIN <<a, b>> : i = 1 \/ i = 2
OBVIOUS

LEMMA SingleEntry ==
    ASSUME NEW T, NEW a \in T
    PROVE  <<a>> \in Seq(T) /\ Len(<<a>>) = 1 /\ <<a>>[1] = a
OBVIOUS

LEMMA WiderLists ==
    ASSUME NEW S, NEW T, S \subseteq T, NEW list \in Seq(S)
    PROVE  list \in Seq(T)
OBVIOUS

LEMMA BothAreFilled ==
    ASSUME NEW a, NEW b, a # "", b # ""
    PROVE  AllFilled(<<a, b>>) /\ <<a, b>> # <<>>
BY PairEntries, Zenon DEF AllFilled

LEMMA BodyShape ==
    ASSUME NEW body \in Body
    PROVE  FormShape(ToFormState(body))
<1> DEFINE f == ToFormState(body)
<1>1. body \in RegistrationRequest
  BY BodyAssumption
<1>2. /\ body.legalName \in Seq(STRING) /\ body.email \in Seq(STRING)
      /\ body.otherIds \in Seq([type : STRING, id : STRING]) /\ body.euid \in STRING
      /\ body.uses \in Seq(RequestUse) /\ body.supervisory \in Contacts
  BY <1>1 DEF RegistrationRequest
<1>3. /\ f.legalName = body.legalName /\ f.email = body.email /\ f.phone = <<>>
      /\ f.otherIds = body.otherIds /\ f.euid = body.euid /\ f.supervisory = body.supervisory
      /\ f.uses = [i \in DOMAIN body.uses |->
                     [purpose     |-> body.uses[i].purpose,
                      policies    |-> ToPolicies(body.uses[i].policies),
                      credentials |-> body.uses[i].credentials]]
  BY DEF ToFormState
<1>4. /\ DOMAIN f.uses = DOMAIN body.uses
      /\ \A i \in DOMAIN body.uses :
            /\ f.uses[i].policies = ToPolicies(body.uses[i].policies)
            /\ f.uses[i].credentials = body.uses[i].credentials
  BY <1>3
<1>5. \E n \in Nat : DOMAIN f.uses = 1..n
  BY <1>2, <1>4
<1>6. f.uses # <<>> => 1 \in DOMAIN f.uses
  <2>1. CASE body.uses = <<>>
    BY <1>3, <2>1
  <2>2. CASE body.uses # <<>>
    BY <1>2, <1>4, <2>2, NonEmptyList
  <2> QED
    BY <2>1, <2>2
<1>7. ASSUME NEW i \in DOMAIN body.uses
      PROVE  UseShape(f.uses[i])
  <2>1. body.uses[i] \in RequestUse
    BY <1>2
  <2>2. body.uses[i].credentials \in Seq(RequestCredential)
    BY <2>1 DEF RequestUse
  <2>3. \A j \in DOMAIN body.uses[i].credentials :
           body.uses[i].credentials[j].types \in Seq(STRING)
    <3>1. \A cf \in RequestCredential : cf.types \in Seq(STRING)
      BY DEF RequestCredential
    <3> QED
      BY <2>2, <3>1
  <2>4. body.uses[i].credentials # <<>> => 1 \in DOMAIN body.uses[i].credentials
    BY <2>2, NonEmptyList
  <2>5. \A k \in DOMAIN ToPolicies(body.uses[i].policies) :
           ToPolicies(body.uses[i].policies)[k] =
               [type |-> DefaultPolicyType, uri |-> ToPolicies(body.uses[i].policies)[k].uri]
    BY DEF ToPolicies
  <2>6. /\ f.uses[i].policies = ToPolicies(body.uses[i].policies)
        /\ f.uses[i].credentials = body.uses[i].credentials
    BY <1>4
  <2> QED
    BY <2>3, <2>4, <2>5, <2>6 DEF UseShape
<1>8. \A s \in {body.supervisory.email, body.supervisory.phone, body.supervisory.formUri} :
         s \in Seq(STRING)
  BY <1>2 DEF Contacts
<1>9. f.phone \in Seq(STRING)
  BY <1>3
<1> HIDE DEF f
<1>10. FormShape(f)
  <2>1. \A i \in DOMAIN f.uses : UseShape(f.uses[i])
    BY <1>4, <1>7
  <2>2. /\ f.legalName \in Seq(STRING) /\ f.email \in Seq(STRING) /\ f.phone \in Seq(STRING)
        /\ f.otherIds \in Seq([type : STRING, id : STRING]) /\ f.euid \in STRING
    BY <1>2, <1>3, <1>9
  <2>3. \A s \in {f.supervisory.email, f.supervisory.phone, f.supervisory.formUri} :
           s \in Seq(STRING)
    BY <1>3, <1>8
  <2> QED
    BY <1>5, <1>6, <2>1, <2>2, <2>3 DEF FormShape
<1> QED
  BY <1>10 DEF f

\* The identifiers of a form that is accepted are all there.
IdentifierOf == [type : STRING \cup {"EUID"}, id : STRING]

LEMMA IdentifiersAreFilled ==
    ASSUME NEW f, FormShape(f), ValidIdentifiers(f)
    PROVE  /\ Identifiers(f) \in Seq(IdentifierOf) /\ Identifiers(f) # <<>>
           /\ \A i \in DOMAIN Identifiers(f) :
                 Identifiers(f)[i].type # "" /\ Identifiers(f)[i].id # ""
<1>1. f.otherIds \in Seq(IdentifierOf) /\ f.euid \in STRING
  <2>1. f.otherIds \in Seq([type : STRING, id : STRING]) /\ f.euid \in STRING
    BY DEF FormShape
  <2>2. [type : STRING, id : STRING] \subseteq IdentifierOf
    BY DEF IdentifierOf
  <2> QED
    BY <2>1, <2>2, WiderLists
<1>2. /\ Identifiers(f) # <<>>
      /\ \A i \in DOMAIN f.otherIds : f.otherIds[i].type # "" /\ f.otherIds[i].id # ""
  BY DEF ValidIdentifiers
<1>3. CASE f.euid = ""
  <2>1. Identifiers(f) = <<>> \o f.otherIds
    BY <1>3 DEF Identifiers
  <2>2. Identifiers(f) = f.otherIds
    BY <1>1, <2>1
  <2> QED
    BY <1>1, <1>2, <2>2
<1>4. CASE f.euid # ""
  <2> DEFINE euid == [type |-> "EUID", id |-> f.euid]
  <2>1. Identifiers(f) = <<euid>> \o f.otherIds
    BY <1>4 DEF Identifiers
  <2>2. euid \in IdentifierOf /\ euid.type # "" /\ euid.id # ""
    BY <1>1, <1>4 DEF IdentifierOf
  <2> HIDE DEF euid
  <2>3. <<euid>> \in Seq(IdentifierOf) /\ Len(<<euid>>) = 1 /\ <<euid>>[1] = euid
    BY <2>2, SingleEntry
  <2>4. Identifiers(f) \in Seq(IdentifierOf)
    BY <1>1, <2>1, <2>3
  <2>5. /\ Len(Identifiers(f)) = 1 + Len(f.otherIds) /\ Len(f.otherIds) \in Nat
        /\ Identifiers(f)[1] = euid
        /\ \A i \in 2..(1 + Len(f.otherIds)) :
              Identifiers(f)[i] = f.otherIds[i - 1] /\ i - 1 \in DOMAIN f.otherIds
    BY <1>1, <2>1, <2>3
  <2>6. \A i \in DOMAIN Identifiers(f) : i = 1 \/ i \in 2..(1 + Len(f.otherIds))
    BY <2>4, <2>5
  <2>7. \A i \in DOMAIN Identifiers(f) :
           Identifiers(f)[i].type # "" /\ Identifiers(f)[i].id # ""
    BY <1>2, <2>2, <2>5, <2>6
  <2> QED
    BY <1>2, <2>4, <2>7
<1> QED
  BY <1>3, <1>4

\* A form that is accepted names one kind of person.
LEMMA PersonIsFilled ==
    ASSUME NEW f, FormShape(f), HasLegalIdentity(f)
    PROVE  /\ LegalPerson(f) \in Seq(STRING) /\ AllFilled(LegalPerson(f))
           /\ \/ /\ f.legalKind = "legalPerson"
                 /\ LegalPerson(f) = NonEmpty(f.legalName) /\ LegalPerson(f) # <<>>
                 /\ NaturalPerson(f) = <<>>
              \/ /\ f.legalKind = "naturalPerson" /\ LegalPerson(f) = <<>>
                 /\ NaturalPerson(f) = <<f.givenName, f.familyName>>
                 /\ f.givenName # "" /\ f.familyName # ""
           /\ (LegalPerson(f) # <<>>) # (NaturalPerson(f) # <<>>)
           /\ AllFilled(NaturalPerson(f))
<1>1. CASE f.legalKind = "legalPerson"
  <2>1. /\ LegalPerson(f) = NonEmpty(f.legalName) /\ NaturalPerson(f) = <<>>
        /\ NonEmpty(f.legalName) # <<>>
    BY <1>1 DEF LegalPerson, NaturalPerson, HasLegalIdentity
  <2>2. NonEmpty(f.legalName) \in Seq(STRING) /\ AllFilled(NonEmpty(f.legalName))
    BY NonEmptyIsFilled DEF FormShape
  <2>3. AllFilled(<<>>)
    <3>1. DOMAIN <<>> = {}
      OBVIOUS
    <3> QED
      BY <3>1 DEF AllFilled
  <2>4. (LegalPerson(f) # <<>>) # (NaturalPerson(f) # <<>>)
    BY <2>1, Zenon
  <2> QED
    BY <1>1, <2>1, <2>2, <2>3, <2>4
<1>2. CASE f.legalKind # "legalPerson"
  <2>1. /\ f.legalKind = "naturalPerson" /\ LegalPerson(f) = <<>>
        /\ NaturalPerson(f) = <<f.givenName, f.familyName>>
        /\ f.givenName # "" /\ f.familyName # ""
    BY <1>2 DEF LegalPerson, NaturalPerson, HasLegalIdentity
  <2>2. AllFilled(<<>>) /\ <<>> \in Seq(STRING)
    <3>1. DOMAIN <<>> = {} /\ <<>> \in Seq(STRING)
      OBVIOUS
    <3> QED
      BY <3>1 DEF AllFilled
  <2>3. AllFilled(<<f.givenName, f.familyName>>) /\ <<f.givenName, f.familyName>> # <<>>
    BY <2>1, BothAreFilled
  <2>4. (LegalPerson(f) # <<>>) # (NaturalPerson(f) # <<>>)
    BY <2>1, <2>3, Zenon
  <2> QED
    BY <2>1, <2>2, <2>3, <2>4
<1> QED
  BY <1>1, <1>2

\* A document that Build returned for a form it accepted, with identifiers
\* that differ.
BuiltFrom(d, f, ids) ==
    /\ FormShape(f) /\ Accepted(f)
    /\ \A i, j \in DOMAIN f.uses : ids[i] = ids[j] => i = j
    /\ d = Document(f, ids)

\* A use of the form with all it needs, and the use of the document made of it.
ProperUse(u) ==
    /\ ValidPurpose(u.purpose) /\ ValidPolicies(u.policies)
    /\ 1 \in DOMAIN u.credentials
    /\ \A j \in DOMAIN u.credentials :
          u.credentials[j].types \in Seq(STRING) /\ ValidCredentialForm(u.credentials[j])

MadeOf(use, u, id) ==
    /\ use.id = id /\ use.purpose = u.purpose /\ use.policies = u.policies
    /\ DOMAIN use.credentials = DOMAIN u.credentials
    /\ \A j \in DOMAIN u.credentials : use.credentials[j] = DocCredential(u.credentials[j])

\* A use has no other fields, and a list of credentials is nothing but a list.
Whole(use) ==
    /\ use = [id |-> use.id, purpose |-> use.purpose, policies |-> use.policies,
              credentials |-> use.credentials]
    /\ use.credentials = [j \in DOMAIN use.credentials |-> use.credentials[j]]

LEMMA BuiltUse ==
    ASSUME NEW d, NEW f, NEW ids, BuiltFrom(d, f, ids)
    PROVE  /\ DOMAIN d.uses = DOMAIN f.uses /\ 1 \in DOMAIN f.uses
           /\ d.uses = [i \in DOMAIN f.uses |-> d.uses[i]]
           /\ \A i \in DOMAIN f.uses :
                 /\ ProperUse(f.uses[i])
                 /\ MadeOf(d.uses[i], f.uses[i], ids[i])
                 /\ Whole(d.uses[i])
<1> DEFINE creds(i) == [j \in DOMAIN f.uses[i].credentials |->
                          DocCredential(f.uses[i].credentials[j])]
           use(i)   == [id |-> ids[i], purpose |-> f.uses[i].purpose,
                        policies |-> f.uses[i].policies, credentials |-> creds(i)]
<1>1. d.uses = [i \in DOMAIN f.uses |-> use(i)]
  BY DEF BuiltFrom, Document
<1>2. f.uses # <<>> /\ \A i \in DOMAIN f.uses : ValidUseForm(f.uses[i])
  BY DEF BuiltFrom, Accepted
<1>3. 1 \in DOMAIN f.uses
  BY <1>2 DEF BuiltFrom, FormShape
<1>4. ASSUME NEW i \in DOMAIN f.uses  PROVE ProperUse(f.uses[i])
  <2>1. /\ ValidPurpose(f.uses[i].purpose) /\ ValidPolicies(f.uses[i].policies)
        /\ f.uses[i].credentials # <<>>
        /\ \A j \in DOMAIN f.uses[i].credentials :
              ValidCredentialForm(f.uses[i].credentials[j])
    BY <1>2 DEF ValidUseForm
  <2>2. /\ f.uses[i].credentials # <<>> => 1 \in DOMAIN f.uses[i].credentials
        /\ \A j \in DOMAIN f.uses[i].credentials :
              f.uses[i].credentials[j].types \in Seq(STRING)
    BY DEF BuiltFrom, FormShape, UseShape
  <2> QED
    BY <2>1, <2>2 DEF ProperUse
<1>5. ASSUME NEW i \in DOMAIN f.uses
      PROVE  MadeOf(d.uses[i], f.uses[i], ids[i]) /\ Whole(d.uses[i])
  <2>1. d.uses[i] = use(i)
    <3> HIDE DEF use
    <3> QED
      BY <1>1
  <2>2. /\ use(i).id = ids[i] /\ use(i).purpose = f.uses[i].purpose
        /\ use(i).policies = f.uses[i].policies /\ use(i).credentials = creds(i)
    OBVIOUS
  <2>3. /\ DOMAIN creds(i) = DOMAIN f.uses[i].credentials
        /\ \A j \in DOMAIN f.uses[i].credentials :
              creds(i)[j] = DocCredential(f.uses[i].credentials[j])
        /\ creds(i) = [j \in DOMAIN creds(i) |-> creds(i)[j]]
    OBVIOUS
  <2>4. use(i) = [id |-> use(i).id, purpose |-> use(i).purpose,
                  policies |-> use(i).policies, credentials |-> use(i).credentials]
    OBVIOUS
  <2> HIDE DEF use, creds
  <2> QED
    BY <2>1, <2>2, <2>3, <2>4 DEF MadeOf, Whole
<1>6. DOMAIN d.uses = DOMAIN f.uses /\ d.uses = [i \in DOMAIN f.uses |-> d.uses[i]]
  <2> HIDE DEF use
  <2> QED
    BY <1>1
<1> QED
  BY <1>3, <1>4, <1>5, <1>6

\* Every use of it keeps the rules.
LEMMA BuiltUseIsValid ==
    ASSUME NEW d, NEW f, NEW ids, BuiltFrom(d, f, ids), NEW i \in DOMAIN f.uses
    PROVE  ValidUse(d.uses[i])
<1> DEFINE use == d.uses[i]
           u   == f.uses[i]
<1>1. MadeOf(use, u, ids[i]) /\ ProperUse(u)
  BY BuiltUse
<1>2. \A k \in DOMAIN u.policies :
         u.policies[k] = [type |-> DefaultPolicyType, uri |-> u.policies[k].uri]
  BY DEF BuiltFrom, FormShape, UseShape
<1> HIDE DEF use, u
<1> USE DEF MadeOf, ProperUse
<1>3. use.credentials # <<>>
  <2>1. DOMAIN <<>> = {}
    OBVIOUS
  <2> QED
    BY <1>1, <2>1
<1>4. use.purpose # <<>> /\ \A k \in DOMAIN use.purpose :
         AllFilled(<<use.purpose[k].lang, use.purpose[k].content>>)
  BY <1>1, BothAreFilled DEF ValidPurpose
<1>5. use.policies # <<>> /\ \A k \in DOMAIN use.policies :
         use.policies[k] = [type |-> DefaultPolicyType, uri |-> "https"]
  <2>1. u.policies # <<>> /\ \A k \in DOMAIN u.policies : u.policies[k].uri = "https"
    BY <1>1 DEF ValidPolicies
  <2> QED
    BY <1>1, <1>2, <2>1
<1>6. \A j \in DOMAIN use.credentials : ValidCredential(use.credentials[j])
  BY <1>1, BuiltCredentialIsValid
<1>7. ValidUse(use)
  BY <1>3, <1>4, <1>5, <1>6 DEF ValidUse
<1> QED
  BY <1>7 DEF use

LEMMA BuiltFields ==
    ASSUME NEW d, NEW f, NEW ids, BuiltFrom(d, f, ids)
    PROVE  /\ d.legalPerson = LegalPerson(f) /\ d.naturalPerson = NaturalPerson(f)
           /\ d.identifiers = Identifiers(f)
           /\ d.country = f.country /\ d.supervisory = f.supervisory
           /\ d.email = NonEmpty(f.email) /\ d.phone = NonEmpty(f.phone)
           /\ d = [legalPerson |-> d.legalPerson, naturalPerson |-> d.naturalPerson,
                   identifiers |-> d.identifiers, country |-> d.country,
                   email |-> d.email, phone |-> d.phone, supervisory |-> d.supervisory,
                   uses |-> d.uses]
           /\ HasLegalIdentity(f) /\ ValidCountry(f.country) /\ ValidIdentifiers(f)
           /\ ValidSupervisory(f.supervisory)
<1>1. /\ d.legalPerson = LegalPerson(f) /\ d.naturalPerson = NaturalPerson(f)
      /\ d.identifiers = Identifiers(f)
      /\ d.country = f.country /\ d.supervisory = f.supervisory
      /\ d.email = NonEmpty(f.email) /\ d.phone = NonEmpty(f.phone)
  BY DEF BuiltFrom, Document
<1>2. d = [legalPerson |-> d.legalPerson, naturalPerson |-> d.naturalPerson,
           identifiers |-> d.identifiers, country |-> d.country,
           email |-> d.email, phone |-> d.phone, supervisory |-> d.supervisory,
           uses |-> d.uses]
  BY DEF BuiltFrom, Document
<1>3. /\ HasLegalIdentity(f) /\ ValidCountry(f.country) /\ ValidIdentifiers(f)
      /\ ValidSupervisory(f.supervisory)
  BY DEF BuiltFrom, Accepted
<1> QED
  BY <1>1, <1>2, <1>3

\* A list that is not empty makes any list it is part of not empty.
LEMMA JoinedIsNotEmpty ==
    ASSUME NEW T, NEW a \in Seq(T), NEW b \in Seq(T), a # <<>> \/ b # <<>>
    PROVE  a \o b # <<>> /\ a \o b \in Seq(T)
<1>1. Len(a) \in Nat /\ Len(b) \in Nat /\ (Len(a) > 0 \/ Len(b) > 0)
  OBVIOUS
<1>2. Len(a \o b) = Len(a) + Len(b) /\ a \o b \in Seq(T)
  OBVIOUS
<1>3. Len(a \o b) > 0
  BY <1>1, <1>2
<1> QED
  BY <1>2, <1>3

LEMMA BuiltIsValid ==
    ASSUME NEW d, NEW f, NEW ids, BuiltFrom(d, f, ids)
    PROVE  ValidDocument(d)
<1>1. /\ d.legalPerson = LegalPerson(f) /\ d.naturalPerson = NaturalPerson(f)
      /\ d.identifiers = Identifiers(f)
      /\ d.country = f.country /\ d.supervisory = f.supervisory
      /\ HasLegalIdentity(f) /\ ValidCountry(f.country) /\ ValidIdentifiers(f)
      /\ ValidSupervisory(f.supervisory)
  BY BuiltFields
<1>2. FormShape(f)
  BY DEF BuiltFrom
<1>3. /\ (d.legalPerson # <<>>) # (d.naturalPerson # <<>>)
      /\ AllFilled(d.legalPerson) /\ AllFilled(d.naturalPerson)
  BY <1>1, <1>2, PersonIsFilled, Zenon
<1>4. d.identifiers # <<>> /\ \A i \in DOMAIN d.identifiers :
         AllFilled(<<d.identifiers[i].type, d.identifiers[i].id>>)
  <2>1. /\ d.identifiers # <<>>
        /\ \A i \in DOMAIN d.identifiers :
              d.identifiers[i].type # "" /\ d.identifiers[i].id # ""
    BY <1>1, <1>2, IdentifiersAreFilled
  <2> QED
    BY <2>1, BothAreFilled
<1>5. d.supervisory.email \o d.supervisory.phone \o d.supervisory.formUri # <<>>
  <2> DEFINE sa == d.supervisory
  <2>1. sa.email \in Seq(STRING) /\ sa.phone \in Seq(STRING) /\ sa.formUri \in Seq(STRING)
    BY <1>1, <1>2 DEF FormShape
  <2>2. sa.email # <<>> \/ sa.phone # <<>> \/ sa.formUri # <<>>
    BY <1>1 DEF ValidSupervisory
  <2> HIDE DEF sa
  <2>3. sa.email \o sa.phone \in Seq(STRING)
    BY <2>1
  <2>4. sa.email \o sa.phone # <<>> \/ sa.formUri # <<>>
    BY <2>1, <2>2, JoinedIsNotEmpty
  <2>5. sa.email \o sa.phone \o sa.formUri # <<>>
    BY <2>1, <2>3, <2>4, JoinedIsNotEmpty
  <2> QED
    BY <2>5 DEF sa
<1>6. ValidCountry(d.country) /\ ValidCountry(d.supervisory.country)
  BY <1>1 DEF ValidSupervisory
<1>7. DOMAIN d.uses = DOMAIN f.uses /\ 1 \in DOMAIN f.uses
  BY BuiltUse
<1>8. d.uses # <<>>
  <2>1. DOMAIN <<>> = {}
    OBVIOUS
  <2> QED
    BY <1>7, <2>1
<1>9. \A i \in DOMAIN d.uses : ValidUse(d.uses[i])
  BY <1>7, BuiltUseIsValid
<1>10. \A i, j \in DOMAIN d.uses : i # j => d.uses[i].id # d.uses[j].id
  <2>1. \A i \in DOMAIN f.uses : d.uses[i].id = ids[i]
    BY DEF BuiltFrom, Document
  <2> QED
    BY <1>7, <2>1 DEF BuiltFrom
<1> QED
  BY <1>3, <1>4, <1>5, <1>6, <1>8, <1>9, <1>10 DEF ValidDocument


\* The form a document is read back into, field by field.
AskedOf(u, use) ==
    /\ u.purpose = use.purpose /\ u.policies = use.policies
    /\ DOMAIN u.credentials = DOMAIN use.credentials
    /\ \A j \in DOMAIN use.credentials : u.credentials[j] = CredentialFormOf(use.credentials[j])

LEMMA FormUses ==
    ASSUME NEW d
    PROVE  /\ DOMAIN FormOf(d).uses = DOMAIN d.uses
           /\ \A i \in DOMAIN d.uses : AskedOf(FormOf(d).uses[i], d.uses[i])
<1> DEFINE creds(i) == [j \in DOMAIN d.uses[i].credentials |->
                          CredentialFormOf(d.uses[i].credentials[j])]
           u(i)     == [purpose |-> d.uses[i].purpose, policies |-> d.uses[i].policies,
                        credentials |-> creds(i)]
<1>1. FormOf(d).uses = [i \in DOMAIN d.uses |-> u(i)]
  BY DEF FormOf
<1>2. ASSUME NEW i \in DOMAIN d.uses  PROVE AskedOf(u(i), d.uses[i])
  <2>1. u(i).purpose = d.uses[i].purpose /\ u(i).policies = d.uses[i].policies
        /\ u(i).credentials = creds(i)
    OBVIOUS
  <2>2. /\ DOMAIN creds(i) = DOMAIN d.uses[i].credentials
        /\ \A j \in DOMAIN d.uses[i].credentials :
              creds(i)[j] = CredentialFormOf(d.uses[i].credentials[j])
    OBVIOUS
  <2> HIDE DEF u, creds
  <2> QED
    BY <2>1, <2>2 DEF AskedOf
<1> HIDE DEF u
<1> QED
  BY <1>1, <1>2

LEMMA FormHead ==
    ASSUME NEW d
    PROVE  /\ FormOf(d).legalKind = IF d.legalPerson # <<>> THEN "legalPerson"
                                                            ELSE "naturalPerson"
           /\ FormOf(d).legalName = d.legalPerson
           /\ FormOf(d).givenName = IF d.naturalPerson = <<>> THEN "" ELSE d.naturalPerson[1]
           /\ FormOf(d).familyName = IF d.naturalPerson = <<>> THEN "" ELSE d.naturalPerson[2]
           /\ FormOf(d).euid = "" /\ FormOf(d).otherIds = d.identifiers
           /\ FormOf(d).country = d.country /\ FormOf(d).email = d.email
           /\ FormOf(d).phone = d.phone /\ FormOf(d).supervisory = d.supervisory
BY DEF FormOf

LEMMA NothingBefore ==
    ASSUME NEW T, NEW list \in Seq(T)
    PROVE  <<>> \o list = list
OBVIOUS

\* The form a document is read back into is accepted.
LEMMA FormIsAccepted ==
    ASSUME NEW d, NEW f, NEW ids, BuiltFrom(d, f, ids)
    PROVE  Accepted(FormOf(d))
<1> DEFINE g == FormOf(d)
<1>1. /\ g.legalKind = IF d.legalPerson # <<>> THEN "legalPerson" ELSE "naturalPerson"
      /\ g.legalName = d.legalPerson
      /\ g.givenName = IF d.naturalPerson = <<>> THEN "" ELSE d.naturalPerson[1]
      /\ g.familyName = IF d.naturalPerson = <<>> THEN "" ELSE d.naturalPerson[2]
      /\ g.euid = "" /\ g.otherIds = d.identifiers /\ g.country = d.country
      /\ g.email = d.email /\ g.phone = d.phone /\ g.supervisory = d.supervisory
  BY FormHead
<1>a. DOMAIN g.uses = DOMAIN d.uses /\ \A i \in DOMAIN d.uses : AskedOf(g.uses[i], d.uses[i])
  BY FormUses
<1> HIDE DEF g
<1>2. /\ d.legalPerson = LegalPerson(f) /\ d.naturalPerson = NaturalPerson(f)
      /\ d.identifiers = Identifiers(f)
      /\ d.country = f.country /\ d.supervisory = f.supervisory
      /\ HasLegalIdentity(f) /\ ValidCountry(f.country) /\ ValidIdentifiers(f)
      /\ ValidSupervisory(f.supervisory)
  BY BuiltFields
<1>3. FormShape(f)
  BY DEF BuiltFrom
<1>4. HasLegalIdentity(g)
  <2>1. \/ /\ LegalPerson(f) # <<>> /\ LegalPerson(f) = NonEmpty(f.legalName)
        \/ /\ LegalPerson(f) = <<>> /\ f.givenName # "" /\ f.familyName # ""
           /\ NaturalPerson(f) = <<f.givenName, f.familyName>>
    BY <1>2, <1>3, PersonIsFilled
  <2>2. CASE LegalPerson(f) # <<>> /\ LegalPerson(f) = NonEmpty(f.legalName)
    <3>1. NonEmpty(NonEmpty(f.legalName)) = NonEmpty(f.legalName)
      BY <1>3, NonEmptyIsStable DEF FormShape
    <3>2. g.legalKind = "legalPerson" /\ NonEmpty(g.legalName) # <<>>
      BY <1>1, <1>2, <2>2, <3>1
    <3> QED
      BY <3>2 DEF HasLegalIdentity
  <2>3. CASE /\ LegalPerson(f) = <<>> /\ f.givenName # "" /\ f.familyName # ""
             /\ NaturalPerson(f) = <<f.givenName, f.familyName>>
    <3> DEFINE person == <<f.givenName, f.familyName>>
    <3>1. person # <<>> /\ person[1] = f.givenName /\ person[2] = f.familyName
      BY PairEntries
    <3> HIDE DEF person
    <3>2. g.legalKind = "naturalPerson" /\ g.givenName = person[1] /\ g.familyName = person[2]
      <4>1. d.legalPerson = <<>> /\ d.naturalPerson = person
        BY <1>2, <2>3 DEF person
      <4> QED
        BY <1>1, <3>1, <4>1
    <3> QED
      BY <2>3, <3>1, <3>2 DEF HasLegalIdentity
  <2> QED
    BY <2>1, <2>2, <2>3
<1>5. ValidIdentifiers(g)
  <2>1. /\ Identifiers(f) \in Seq(IdentifierOf) /\ Identifiers(f) # <<>>
        /\ \A i \in DOMAIN Identifiers(f) :
              Identifiers(f)[i].type # "" /\ Identifiers(f)[i].id # ""
    BY <1>2, <1>3, IdentifiersAreFilled
  <2>2. Identifiers(g) = <<>> \o d.identifiers
    BY <1>1 DEF Identifiers
  <2>3. Identifiers(g) = d.identifiers
    BY <1>2, <2>1, <2>2, NothingBefore
  <2>4. Identifiers(g) # <<>>
    BY <1>2, <2>1, <2>3
  <2> QED
    BY <1>1, <1>2, <2>1, <2>4 DEF ValidIdentifiers
<1>6. /\ DOMAIN d.uses = DOMAIN f.uses /\ 1 \in DOMAIN f.uses
      /\ \A i \in DOMAIN f.uses :
            ProperUse(f.uses[i]) /\ MadeOf(d.uses[i], f.uses[i], ids[i])
  BY BuiltUse
<1>7. DOMAIN <<>> = {}
  OBVIOUS
<1>8. g.uses # <<>>
  BY <1>a, <1>6, <1>7
<1>9. ASSUME NEW i \in DOMAIN f.uses  PROVE ValidUseForm(g.uses[i])
  <2> DEFINE u == f.uses[i]
             v == g.uses[i]
  <2>1. ProperUse(u) /\ MadeOf(d.uses[i], u, ids[i]) /\ AskedOf(v, d.uses[i])
    BY <1>a, <1>6
  <2> HIDE DEF u, v
  <2>2. /\ v.purpose = u.purpose /\ v.policies = u.policies
        /\ DOMAIN v.credentials = DOMAIN u.credentials
        /\ \A j \in DOMAIN u.credentials :
              v.credentials[j] = CredentialFormOf(DocCredential(u.credentials[j]))
    BY <2>1 DEF MadeOf, AskedOf
  <2>3. v.credentials # <<>>
    BY <1>7, <2>1, <2>2 DEF ProperUse
  <2>4. \A j \in DOMAIN v.credentials : ValidCredentialForm(v.credentials[j])
    BY <2>1, <2>2, CredentialRoundTrips DEF ProperUse
  <2>5. ValidUseForm(v)
    BY <2>1, <2>2, <2>3, <2>4 DEF ValidUseForm, ProperUse
  <2> QED
    BY <2>5 DEF v
<1>10. Accepted(g)
  BY <1>1, <1>2, <1>a, <1>4, <1>5, <1>6, <1>8, <1>9 DEF Accepted
<1> QED
  BY <1>10 DEF g

\* And builds the document again.
LEMMA FormBuildsAgain ==
    ASSUME NEW d, NEW f, NEW ids, BuiltFrom(d, f, ids)
    PROVE  Document(FormOf(d), UseIdsOf(d)) = d
<1> DEFINE g == FormOf(d)
<1>1. /\ g.legalKind = IF d.legalPerson # <<>> THEN "legalPerson" ELSE "naturalPerson"
      /\ g.legalName = d.legalPerson
      /\ g.givenName = IF d.naturalPerson = <<>> THEN "" ELSE d.naturalPerson[1]
      /\ g.familyName = IF d.naturalPerson = <<>> THEN "" ELSE d.naturalPerson[2]
      /\ g.euid = "" /\ g.otherIds = d.identifiers /\ g.country = d.country
      /\ g.email = d.email /\ g.phone = d.phone /\ g.supervisory = d.supervisory
  BY FormHead
<1>a. DOMAIN g.uses = DOMAIN d.uses /\ \A i \in DOMAIN d.uses : AskedOf(g.uses[i], d.uses[i])
  BY FormUses
<1> HIDE DEF g
<1>2. /\ d.legalPerson = LegalPerson(f) /\ d.naturalPerson = NaturalPerson(f)
      /\ d.identifiers = Identifiers(f)
      /\ d.email = NonEmpty(f.email) /\ d.phone = NonEmpty(f.phone)
      /\ d = [legalPerson |-> d.legalPerson, naturalPerson |-> d.naturalPerson,
              identifiers |-> d.identifiers, country |-> d.country,
              email |-> d.email, phone |-> d.phone, supervisory |-> d.supervisory,
              uses |-> d.uses]
      /\ HasLegalIdentity(f) /\ ValidIdentifiers(f)
  BY BuiltFields
<1>3. FormShape(f)
  BY DEF BuiltFrom
<1>4. LegalPerson(g) = d.legalPerson /\ NaturalPerson(g) = d.naturalPerson
  <2>1. \/ /\ LegalPerson(f) # <<>> /\ LegalPerson(f) = NonEmpty(f.legalName)
           /\ NaturalPerson(f) = <<>>
        \/ /\ LegalPerson(f) = <<>>
           /\ NaturalPerson(f) = <<f.givenName, f.familyName>>
    BY <1>2, <1>3, PersonIsFilled
  <2>2. CASE /\ LegalPerson(f) # <<>> /\ LegalPerson(f) = NonEmpty(f.legalName)
             /\ NaturalPerson(f) = <<>>
    <3>1. NonEmpty(NonEmpty(f.legalName)) = NonEmpty(f.legalName)
      BY <1>3, NonEmptyIsStable DEF FormShape
    <3>2. g.legalKind = "legalPerson" /\ g.legalKind # "naturalPerson"
      BY <1>1, <1>2, <2>2
    <3>3. NonEmpty(g.legalName) = d.legalPerson
      BY <1>1, <1>2, <2>2, <3>1
    <3> QED
      BY <1>2, <2>2, <3>2, <3>3 DEF LegalPerson, NaturalPerson
  <2>3. CASE /\ LegalPerson(f) = <<>>
             /\ NaturalPerson(f) = <<f.givenName, f.familyName>>
    <3> DEFINE person == <<f.givenName, f.familyName>>
    <3>1. person # <<>> /\ person[1] = f.givenName /\ person[2] = f.familyName
      BY PairEntries
    <3>2. d.legalPerson = <<>> /\ d.naturalPerson = person
      BY <1>2, <2>3
    <3>3. person = <<person[1], person[2]>>
      BY <3>1
    <3> HIDE DEF person
    <3>4. g.legalKind = "naturalPerson" /\ g.givenName = person[1] /\ g.familyName = person[2]
      BY <1>1, <3>1, <3>2
    <3> QED
      BY <3>2, <3>3, <3>4 DEF LegalPerson, NaturalPerson
  <2> QED
    BY <2>1, <2>2, <2>3
<1>5. Identifiers(g) = d.identifiers
  <2>1. d.identifiers \in Seq(IdentifierOf)
    BY <1>2, <1>3, IdentifiersAreFilled
  <2>2. Identifiers(g) = <<>> \o d.identifiers
    BY <1>1 DEF Identifiers
  <2> QED
    BY <2>1, <2>2, NothingBefore
<1>6. NonEmpty(g.email) = d.email /\ NonEmpty(g.phone) = d.phone
  <2>1. /\ NonEmpty(NonEmpty(f.email)) = NonEmpty(f.email)
        /\ NonEmpty(NonEmpty(f.phone)) = NonEmpty(f.phone)
    BY <1>3, NonEmptyIsStable DEF FormShape
  <2> QED
    BY <1>1, <1>2, <2>1
<1> DEFINE uses == [i \in DOMAIN g.uses |->
              [id          |-> UseIdsOf(d)[i],
               purpose     |-> g.uses[i].purpose,
               policies    |-> g.uses[i].policies,
               credentials |-> [j \in DOMAIN g.uses[i].credentials |->
                                  DocCredential(g.uses[i].credentials[j])]]]
<1>7. uses = d.uses
  <2>1. /\ DOMAIN d.uses = DOMAIN f.uses /\ d.uses = [i \in DOMAIN f.uses |-> d.uses[i]]
        /\ \A i \in DOMAIN f.uses : /\ ProperUse(f.uses[i])
                                    /\ MadeOf(d.uses[i], f.uses[i], ids[i])
                                    /\ Whole(d.uses[i])
    BY BuiltUse
  <2>2. ASSUME NEW i \in DOMAIN d.uses  PROVE uses[i] = d.uses[i]
    <3> DEFINE again == [j \in DOMAIN g.uses[i].credentials |->
                           DocCredential(g.uses[i].credentials[j])]
               u   == f.uses[i]
               v   == g.uses[i]
               use == d.uses[i]
    <3>1. ProperUse(u) /\ MadeOf(use, u, ids[i]) /\ Whole(use) /\ AskedOf(v, use)
      BY <1>a, <2>1
    <3>2. uses[i] = [id |-> UseIdsOf(d)[i], purpose |-> v.purpose,
                     policies |-> v.policies, credentials |-> again]
      BY <1>a
    <3>3. UseIdsOf(d)[i] = use.id
      BY DEF UseIdsOf
    <3>4. again = [j \in DOMAIN v.credentials |-> DocCredential(v.credentials[j])]
      OBVIOUS
    <3> HIDE DEF uses, again, u, v, use
    <3>5. \A j \in DOMAIN use.credentials : DocCredential(v.credentials[j]) = use.credentials[j]
      BY <3>1, CredentialRoundTrips DEF ProperUse, MadeOf, AskedOf
    <3>6. again = use.credentials
      BY <3>1, <3>4, <3>5 DEF AskedOf, Whole
    <3>7. uses[i] = use
      BY <3>1, <3>2, <3>3, <3>6 DEF AskedOf, Whole
    <3> QED
      BY <3>7 DEF use
  <2>3. uses = [i \in DOMAIN d.uses |-> uses[i]]
    BY <1>a
  <2> HIDE DEF uses
  <2> QED
    BY <2>1, <2>2, <2>3
<1>8. Document(g, UseIdsOf(d)) =
        [legalPerson |-> LegalPerson(g), naturalPerson |-> NaturalPerson(g),
         identifiers |-> Identifiers(g), country |-> g.country,
         email |-> NonEmpty(g.email), phone |-> NonEmpty(g.phone),
         supervisory |-> g.supervisory, uses |-> uses]
  BY DEF Document
<1> HIDE DEF uses
<1>9. Document(g, UseIdsOf(d)) = d
  BY <1>1, <1>2, <1>4, <1>5, <1>6, <1>7, <1>8
<1> QED
  BY <1>9 DEF g

-----------------------------------------------------------------------------
(***************************************************************************)
(* What is stored was built.                                               *)
(***************************************************************************)
Built(d) == \E f, ids : BuiltFrom(d, f, ids)

DocsInv ==
    /\ doc = [c \in Client |-> doc[c]]
    /\ \A c \in Client : doc[c] # NoDoc => Built(doc[c])
    /\ \A r \in Request : pc[r] = "save" => Built(job[r].doc)

\* What PUT registration hands to the store was built.
LEMMA PutBuilds ==
    ASSUME NEW c \in Client, NEW body \in Body, Accepted(ToFormState(body))
    PROVE  LET f == ToFormState(body)
           IN  Built(Document(f, [i \in DOMAIN f.uses |-> <<arrived + 1, i>>]))
<1> DEFINE f   == ToFormState(body)
           ids == [i \in DOMAIN f.uses |-> <<arrived + 1, i>>]
<1>1. \A i, j \in DOMAIN f.uses : ids[i] = ids[j] => i = j
  <2> HIDE DEF f
  <2> QED
    OBVIOUS
<1>2. FormShape(f) /\ Accepted(f)
  BY BodyShape
<1> HIDE DEF f, ids
<1>3. BuiltFrom(Document(f, ids), f, ids)
  BY <1>1, <1>2 DEF BuiltFrom
<1>4. Built(Document(f, ids))
  BY <1>3 DEF Built
<1> QED
  BY <1>4 DEF f, ids

LEMMA DocsStep == ListsInv /\ DocsInv /\ [Next]_vars => DocsInv'
<1> SUFFICES ASSUME ListsInv, DocsInv, [Next]_vars  PROVE DocsInv'
  OBVIOUS
<1>1. ASSUME NEW r \in Request, UNCHANGED <<doc, job>>,
             \E l \in Labels \ {"save"} : pc' = [pc EXCEPT ![r] = l]
      PROVE  DocsInv'
  BY <1>1 DEF DocsInv, ListsInv
<1>2. ASSUME NEW r \in Request, NEW new, UNCHANGED doc, job' = [job EXCEPT ![r] = new],
             \E l \in Labels \ {"save"} : pc' = [pc EXCEPT ![r] = l]
      PROVE  DocsInv'
  BY <1>2 DEF DocsInv, ListsInv
<1>3. ASSUME NEW r \in Request, NEW c \in Client, NEW body \in Body,
             PutRegistration(r, c, body)
      PROVE  DocsInv'
  <2> DEFINE f   == ToFormState(body)
             ids == [i \in DOMAIN f.uses |-> <<arrived + 1, i>>]
             new == [client |-> c, body |-> body,
                     doc |-> Document(f, ids), uses |-> Projection(f, ids)]
  <2>1. UNCHANGED doc
    BY <1>3 DEF PutRegistration, store
  <2>2. CASE Accepted(f) /\ job' = [job EXCEPT ![r] = new] /\ pc' = [pc EXCEPT ![r] = "save"]
    <3>1. Built(Document(f, ids))
      BY <2>2, PutBuilds
    <3>2. new.doc = Document(f, ids)
      OBVIOUS
    <3> HIDE DEF f, ids, new
    <3>3. job'[r].doc = Document(f, ids) /\ \A q \in Request \ {r} : job'[q] = job[q]
      BY <2>2, <3>2 DEF ListsInv
    <3>4. \A q \in Request \ {r} : pc'[q] = pc[q]
      BY <2>2 DEF ListsInv
    <3> QED
      BY <2>1, <3>1, <3>3, <3>4 DEF DocsInv
  <2>3. CASE Answers(r, "invalid") /\ job' = [job EXCEPT ![r] = NoJob]
    BY <1>2, <2>1, <2>3 DEF Answers, Labels
  <2> QED
    <3> HIDE DEF new
    <3> QED
      BY <1>3, <2>2, <2>3, Zenon DEF PutRegistration, new
<1>4. ASSUME NEW r \in Request, pc[r] = "save", job[r].client \in Client,
             SaveWRPDocument(job[r].client, job[r].doc, job[r].uses), job' = job,
             \E l \in Labels \ {"save"} : pc' = [pc EXCEPT ![r] = l]
      PROVE  DocsInv'
  <2>1. doc' = [doc EXCEPT ![job[r].client] = job[r].doc]
    BY <1>4 DEF SaveWRPDocument
  <2>2. \A q \in Request : pc'[q] = "save" => pc[q] = "save"
    BY <1>4 DEF ListsInv
  <2> QED
    BY <1>4, <2>1, <2>2 DEF DocsInv
<1>5. ASSUME NEW r \in Request, Save(r)  PROVE DocsInv'
  <2>1. CASE UNCHANGED store /\ Answers(r, "not_found")
    BY <1>1, <1>5, <2>1 DEF Save, Answers, Labels, store
  <2>2. CASE /\ job[r].client \in known /\ Goto(r, "readback")
             /\ SaveWRPDocument(job[r].client, job[r].doc, job[r].uses)
    BY <1>4, <1>5, <2>2 DEF Save, Goto, Labels, ListsInv
  <2> QED
    BY <1>5, <2>1, <2>2 DEF Save
<1>6. ASSUME NEW r \in Request, Replace(r)  PROVE DocsInv'
  BY <1>1, <1>6 DEF Replace, SetIntendedUses, Goto, Answers, Labels, store
<1>7. ASSUME NEW r \in Request, ReadBack(r) \/ AuditReplace(r) \/ CallFails(r)
      PROVE  DocsInv'
  BY <1>1, <1>7 DEF ReadBack, AuditReplace, AppendAudit, CallFails, Fails, Answers, Labels, store
<1>8. ASSUME NEW r \in Request, AnswerLost(r)  PROVE DocsInv'
  <2>1. job' = job /\ pc' = [pc EXCEPT ![r] = "done"] /\ "done" \in Labels \ {"save"}
    BY <1>8 DEF AnswerLost, Fails, Answers, Labels
  <2>2. CASE pc[r] = "save" /\ SaveWRPDocument(job[r].client, job[r].doc, job[r].uses)
    BY <1>4, <2>1, <2>2 DEF ListsInv
  <2>3. CASE UNCHANGED doc
    BY <1>1, <2>1, <2>3
  <2> QED
    BY <1>8, <2>2, <2>3 DEF AnswerLost, SetIntendedUses, AppendAudit, store
<1>9. ASSUME NEW r \in Request, NEW c \in Client,
             GetClient(r, c) \/ \E name \in Renamings(c) : Confirm(r, c, name)
      PROVE  DocsInv'
  <2>1. /\ UNCHANGED doc /\ \E new : job' = [job EXCEPT ![r] = new]
        /\ \E l \in Labels \ {"save"} : pc' = [pc EXCEPT ![r] = l]
    BY <1>9 DEF GetClient, Confirm, Answers, Labels, store
  <2> QED
    BY <1>2, <2>1
<1>10. ASSUME NEW c \in Client, CreateDraftClient(c)  PROVE DocsInv'
  BY <1>10 DEF CreateDraftClient, DocsInv, requests
<1>11. CASE Crash
  BY <1>11 DEF Crash, DocsInv, store
<1>12. CASE UNCHANGED vars
  BY <1>12 DEF vars, store, requests, DocsInv
<1> QED
  BY <1>3, <1>5, <1>6, <1>7, <1>8, <1>9, <1>10, <1>11, <1>12 DEF Next

LEMMA DocsHold == Spec => []DocsInv
<1>1. Init => DocsInv
  BY DEF Init, DocsInv
<1> QED
  BY <1>1, DocsStep, ListsHold, PTL DEF Spec

(***************************************************************************)
(* Whatever is submitted, in whatever order and with whatever failures,    *)
(* a stored document keeps every rule Build's comments state of one        *)
(* (wizard.go, Build and ts5.WalletRelyingParty).                          *)
(***************************************************************************)
THEOREM StoredDocumentsAreValid == Spec => []StoredIsValid
<1>1. DocsInv => StoredIsValid
  BY BuiltIsValid DEF DocsInv, Built, StoredIsValid
<1> QED
  BY <1>1, DocsHold, PTL

(***************************************************************************)
(* And sent back as a registration it is accepted and built into itself:   *)
(* Build loses, reorders and refuses nothing of what it made.              *)
(***************************************************************************)
THEOREM StoredDocumentsRoundTrip == Spec => []StoredRoundTrips
<1>1. DocsInv => StoredRoundTrips
  BY FormIsAccepted, FormBuildsAgain DEF DocsInv, Built, StoredRoundTrips
<1> QED
  BY <1>1, DocsHold, PTL

-----------------------------------------------------------------------------
(***************************************************************************)
(* The projection.  With no registrar there is no confirmation, and what a *)
(* request saves is a document with its own projection.                    *)
(***************************************************************************)
Matched(d, list) ==
    /\ DOMAIN list = DOMAIN d.uses
    /\ DOMAIN list \subseteq Nat
    /\ \A i \in DOMAIN list :
          /\ list[i].id = d.uses[i].id
          /\ \A j \in DOMAIN list : list[i].id = list[j].id => i = j
          /\ DOMAIN list[i].credentials = DOMAIN d.uses[i].credentials
          /\ \A j \in DOMAIN list[i].credentials :
                ScopeMatches(list[i].credentials[j], d.uses[i].credentials[j])

Projected(d, scopes) ==
    /\ DOMAIN scopes = {d.uses[i].id : i \in DOMAIN d.uses}
    /\ \A i \in DOMAIN d.uses :
          LET use   == d.uses[i]
              scope == scopes[use.id].credentials
          IN  /\ DOMAIN scope = DOMAIN use.credentials
              /\ \A j \in DOMAIN scope : ScopeMatches(scope[j], use.credentials[j])

ProjectionInv ==
    /\ known \subseteq Client
    /\ doc  = [c \in Client |-> doc[c]]
    /\ rows = [c \in Client |-> rows[c]]
    /\ pc   = [r \in Request |-> pc[r]]
    /\ job  = [r \in Request |-> job[r]]
    /\ \A r \in Request :
          /\ pc[r] \notin {"replace", "audit"}
          /\ pc[r] = "save" => Matched(job[r].doc, job[r].uses)
    /\ \A c \in Client : Projected(doc[c], rows[c])

\* The claims list is empty for exactly the credentials with all claims.
LEMMA CredentialsMatch ==
    ASSUME NEW cf, ValidCredentialForm(cf)
    PROVE  ScopeMatches(ScopeCredential(cf), DocCredential(cf))
<1> DEFINE scope == ScopeCredential(cf)
           cred  == DocCredential(cf)
<1>1. /\ scope.format = cf.format /\ cred.format = cf.format
      /\ scope.types = NonEmpty(cf.types) /\ cred.meta.values = NonEmpty(cf.types)
      /\ scope.claims = BuiltClaims(cf) /\ cred.claims = BuiltClaims(cf)
      /\ scope.allClaims = cf.allClaims
  BY DEF ScopeCredential, DocCredential, BuildMeta
<1>2. cf.allClaims <=> BuiltClaims(cf) = <<>>
  BY Zenon DEF BuiltClaims, ValidCredentialForm, ValidClaims
<1>3. scope.allClaims <=> cred.claims = <<>>
  <2> HIDE DEF scope, cred
  <2> QED
    BY <1>1, <1>2, Zenon
<1> QED
  BY <1>1, <1>3, Zenon DEF ScopeMatches

\* What Build returns from one form belongs together.
LEMMA BuiltTogether ==
    ASSUME NEW f, Accepted(f), DOMAIN f.uses \subseteq Nat,
           NEW ids, \A i, j \in DOMAIN f.uses : ids[i] = ids[j] => i = j
    PROVE  Matched(Document(f, ids), Projection(f, ids))
<1> DEFINE d == Document(f, ids)
           list == Projection(f, ids)
<1>1. /\ DOMAIN d.uses = DOMAIN f.uses
      /\ DOMAIN list = DOMAIN f.uses
  BY DEF Document, Projection
<1>2. ASSUME NEW i \in DOMAIN f.uses
      PROVE  /\ list[i].id = ids[i] /\ d.uses[i].id = ids[i]
             /\ DOMAIN list[i].credentials = DOMAIN f.uses[i].credentials
             /\ DOMAIN d.uses[i].credentials = DOMAIN f.uses[i].credentials
             /\ \A j \in DOMAIN f.uses[i].credentials :
                   /\ list[i].credentials[j] = ScopeCredential(f.uses[i].credentials[j])
                   /\ d.uses[i].credentials[j] = DocCredential(f.uses[i].credentials[j])
  BY <1>2 DEF Document, Projection
<1>3. ASSUME NEW i \in DOMAIN f.uses, NEW j \in DOMAIN f.uses[i].credentials
      PROVE  ScopeMatches(list[i].credentials[j], d.uses[i].credentials[j])
  <2>1. ValidCredentialForm(f.uses[i].credentials[j])
    BY <1>3 DEF Accepted, ValidUseForm
  <2> HIDE DEF d, list
  <2> QED
    BY <1>2, <2>1, CredentialsMatch
<1> HIDE DEF d, list
<1>4. Matched(d, list)
  BY <1>1, <1>2, <1>3 DEF Matched
<1> QED
  BY <1>4 DEF d, list

\* Replacing rows by a projection makes them that projection.
LEMMA ReplacedMatches ==
    ASSUME NEW c, NEW d, NEW list, Matched(d, list)
    PROVE  Projected(d, ReplacedRows(c, list))
<1> DEFINE new == ReplacedRows(c, list)
<1>1. DOMAIN new = {d.uses[i].id : i \in DOMAIN d.uses}
  BY DEF ReplacedRows, Ids, Matched
<1>2. ASSUME NEW i \in DOMAIN d.uses
      PROVE  new[d.uses[i].id].credentials = list[i].credentials
  <2> DEFINE u == d.uses[i].id
  <2>1. i \in DOMAIN list /\ list[i].id = u /\ i \in Nat
    BY <1>2 DEF Matched
  <2>2. \A j \in DOMAIN list : list[j].id = u => j = i
    BY <2>1 DEF Matched
  <2>3. LastEntry(list, u) = list[i]
    BY <2>1, <2>2 DEF LastEntry
  <2>4. u \in Ids(list)
    BY <2>1 DEF Ids
  <2> QED
    BY <2>3, <2>4 DEF ReplacedRows
<1>3. ASSUME NEW i \in DOMAIN d.uses
      PROVE  /\ DOMAIN list[i].credentials = DOMAIN d.uses[i].credentials
             /\ \A j \in DOMAIN list[i].credentials :
                   ScopeMatches(list[i].credentials[j], d.uses[i].credentials[j])
  BY <1>3 DEF Matched
<1> HIDE DEF new
<1>4. Projected(d, new)
  BY <1>1, <1>2, <1>3 DEF Projected
<1> QED
  BY <1>4 DEF new

\* Saving a matched document and its projection keeps the two together.
LEMMA SavingKeepsProjection ==
    ASSUME ProjectionInv, NEW c \in known, NEW d, NEW list, Matched(d, list),
           SaveWRPDocument(c, d, list)
    PROVE  /\ known' \subseteq Client
           /\ doc' = [x \in Client |-> doc'[x]]
           /\ rows' = [x \in Client |-> rows'[x]]
           /\ \A x \in Client : Projected(doc'[x], rows'[x])
<1>1. c \in Client
  BY DEF ProjectionInv
<1>2. /\ doc' = [doc EXCEPT ![c] = d]
      /\ rows' = [rows EXCEPT ![c] = ReplacedRows(c, list)]
      /\ known' = known
  BY DEF SaveWRPDocument, ReplaceIntendedUses
<1>3. Projected(d, ReplacedRows(c, list))
  BY ReplacedMatches
<1> QED
  BY <1>1, <1>2, <1>3 DEF ProjectionInv

\* What PUT registration hands to the store is a document and its projection.
LEMMA PutBuildsMatched ==
    ASSUME NEW r \in Request, NEW c \in Client, NEW body \in Body,
           ProjectionInv, PutRegistration(r, c, body)
    PROVE  ProjectionInv'
<1> DEFINE f   == ToFormState(body)
           ids == [i \in DOMAIN f.uses |-> <<arrived + 1, i>>]
<1>1. DOMAIN f.uses \subseteq Nat
  BY BodiesAreLists
<1>2. \A i, j \in DOMAIN f.uses : ids[i] = ids[j] => i = j
  OBVIOUS
<1>3. CASE Accepted(f) /\ pc' = [pc EXCEPT ![r] = "save"]
           /\ job' = [job EXCEPT ![r] = [client |-> c, body |-> body,
                                          doc  |-> Document(f, ids),
                                          uses |-> Projection(f, ids)]]
  <2> HIDE DEF f, ids
  <2>1. Matched(Document(f, ids), Projection(f, ids))
    BY <1>1, <1>2, <1>3, BuiltTogether
  <2>2. Matched(job'[r].doc, job'[r].uses)
    BY <1>3, <2>1 DEF ProjectionInv
  <2>3. UNCHANGED store
    BY DEF PutRegistration
  <2> QED
    BY <1>3, <2>2, <2>3 DEF ProjectionInv, store
<1>4. CASE Answers(r, "invalid") /\ job' = [job EXCEPT ![r] = NoJob]
  <2>1. UNCHANGED store
    BY DEF PutRegistration
  <2> QED
    BY <1>4, <2>1 DEF ProjectionInv, store, Answers
<1> QED
  BY <1>3, <1>4, Zenon DEF PutRegistration

LEMMA ProjectionStep ==
    ASSUME RegistrarId = {}, ProjectionInv, [Next]_vars
    PROVE  ProjectionInv'
<1>1. CASE UNCHANGED vars
  BY <1>1 DEF ProjectionInv, vars, store, requests
<1>2. ASSUME NEW c \in Client, CreateDraftClient(c)  PROVE ProjectionInv'
  BY <1>2 DEF ProjectionInv, CreateDraftClient, requests
<1>3. ASSUME NEW r \in Request, NEW c \in Client, NEW body \in Body,
             PutRegistration(r, c, body)
      PROVE  ProjectionInv'
  BY <1>3, PutBuildsMatched
<1>4. ASSUME NEW r \in Request, NEW c \in Client, GetClient(r, c)
      PROVE  ProjectionInv'
  BY <1>4 DEF ProjectionInv, GetClient, Answers, store
<1>5. ASSUME NEW r \in Request, pc[r] = "save", job[r].client \in known,
             SaveWRPDocument(job[r].client, job[r].doc, job[r].uses),
             \E l \in {"readback", "done"} : pc' = [pc EXCEPT ![r] = l],
             job' = job
      PROVE  ProjectionInv'
  <2>1. Matched(job[r].doc, job[r].uses)
    BY <1>5 DEF ProjectionInv
  <2>2. /\ known' \subseteq Client
        /\ doc' = [x \in Client |-> doc'[x]]
        /\ rows' = [x \in Client |-> rows'[x]]
        /\ \A x \in Client : Projected(doc'[x], rows'[x])
    BY <1>5, <2>1, SavingKeepsProjection
  <2> QED
    BY <1>5, <2>2 DEF ProjectionInv
<1>6. ASSUME NEW r \in Request, UNCHANGED <<store, job>>,
             \E l \in {"readback", "done"} : pc' = [pc EXCEPT ![r] = l]
      PROVE  ProjectionInv'
  BY <1>6 DEF ProjectionInv, store
<1>7. ASSUME NEW r \in Request, Save(r)  PROVE ProjectionInv'
  BY <1>5, <1>6, <1>7 DEF Save, Goto, Answers, store
<1>8. ASSUME NEW r \in Request, ReadBack(r) \/ CallFails(r)  PROVE ProjectionInv'
  BY <1>6, <1>8 DEF ReadBack, CallFails, Fails, Answers
<1>9. ASSUME NEW r \in Request, Replace(r) \/ AuditReplace(r)  PROVE ProjectionInv'
  BY <1>9 DEF ProjectionInv, Replace, AuditReplace
<1>10. ASSUME NEW r \in Request, AnswerLost(r)  PROVE ProjectionInv'
  <2>1. /\ pc[r] = "save" /\ job[r].client \in known
        /\ SaveWRPDocument(job[r].client, job[r].doc, job[r].uses)
    BY <1>10 DEF AnswerLost, ProjectionInv
  <2>2. pc' = [pc EXCEPT ![r] = "done"] /\ job' = job
    BY <1>10 DEF AnswerLost, Fails, Answers
  <2> QED
    BY <1>5, <2>1, <2>2
<1>11. CASE Crash
  BY <1>11 DEF ProjectionInv, Crash, store
<1> QED
  BY <1>1, <1>2, <1>3, <1>4, <1>7, <1>8, <1>9, <1>10, <1>11 DEF Next

(***************************************************************************)
(* repo.go:99: without filing confirmations the intended-use rows of every *)
(* client are the projection of its WRP document, whatever requests run    *)
(* together and whatever fails between two calls.                          *)
(***************************************************************************)
THEOREM RowsAreProjections ==
    ASSUME RegistrarId = {}
    PROVE  Spec => []RowsProjectDocument
<1>1. Init => ProjectionInv
  BY DEF Init, ProjectionInv, Projected, NoDoc, NoRow
<1>2. ProjectionInv /\ [Next]_vars => ProjectionInv'
  BY ProjectionStep
<1>3. ProjectionInv => RowsProjectDocument
  BY DEF ProjectionInv, Projected, RowsProjectDocument
<1> QED
  BY <1>1, <1>2, <1>3, PTL DEF Spec

-----------------------------------------------------------------------------
(***************************************************************************)
(* With filing confirmations, which rename rows and may bring back a list  *)
(* that was read before another submission, the rows need not be the       *)
(* projection any more.  What holds of them all the same.                  *)
(***************************************************************************)

\* The requests that wait to replace rows bring what they waited with.
NobodyJoins ==
    \A q \in Request : pc'[q] \in {"save", "replace"} => pc'[q] = pc[q] /\ job'[q] = job[q]

Joins(r, label, new) ==
    /\ pc'[r] = label /\ job'[r] = new
    /\ \A q \in Request \ {r} : pc'[q] = pc[q] /\ job'[q] = job[q]

\* What a step does to documents, rows and the requests that wait.
Nothing == UNCHANGED <<doc, rows, order>> /\ arrived' \in {arrived, arrived + 1} /\ NobodyJoins

Submits(r, c, body) ==
    LET f   == ToFormState(body)
        ids == [i \in DOMAIN f.uses |-> <<arrived + 1, i>>]
    IN  /\ UNCHANGED <<doc, rows, order>> /\ arrived' = arrived + 1 /\ Accepted(f)
        /\ Joins(r, "save", [client |-> c, body |-> body, doc |-> Document(f, ids),
                             uses |-> Projection(f, ids)])

Renamed(c, name) ==
    [i \in DOMAIN name |-> [ListIntendedUses(c)[i] EXCEPT !.id = name[i]]]

Confirms(r, c, name) ==
    /\ UNCHANGED <<doc, rows, order>> /\ arrived' = arrived + 1 /\ DOMAIN name = DOMAIN order[c]
    /\ Joins(r, "replace", [NoJob EXCEPT !.client = c, !.uses = Renamed(c, name)])

Saves(r) ==
    /\ pc[r] = "save" /\ job[r].client \in Client /\ arrived' = arrived /\ NobodyJoins
    /\ SaveWRPDocument(job[r].client, job[r].doc, job[r].uses)

Replaces(r) ==
    /\ pc[r] = "replace" /\ job[r].client \in Client /\ arrived' = arrived /\ NobodyJoins
    /\ doc' = doc /\ ReplaceIntendedUses(job[r].client, job[r].uses)

StepDoes ==
    \/ Nothing
    \/ \E r \in Request, c \in Client, body \in Body : Submits(r, c, body)
    \/ \E r \in Request, c \in Client : \E name \in Renamings(c) : Confirms(r, c, name)
    \/ \E r \in Request : Saves(r) \/ Replaces(r)

LEMMA EveryStepDoes ==
    ASSUME ListsInv, [Next]_vars
    PROVE  StepDoes
<1>0. arrived \in Nat
  BY DEF ListsInv
<1>1. ASSUME NEW r \in Request, NEW l, l \notin {"save", "replace"},
             pc' = [pc EXCEPT ![r] = l], \A q \in Request \ {r} : job'[q] = job[q]
      PROVE  NobodyJoins
  BY <1>1 DEF ListsInv, NobodyJoins
<1>2. CASE UNCHANGED vars
  BY <1>2 DEF vars, store, requests, StepDoes, Nothing, NobodyJoins
<1>3. ASSUME NEW c \in Client, CreateDraftClient(c)  PROVE StepDoes
  BY <1>3 DEF CreateDraftClient, requests, StepDoes, Nothing, NobodyJoins
<1>4. CASE Crash
  BY <1>4 DEF Crash, store, StepDoes, Nothing, NobodyJoins
<1>5. ASSUME NEW r \in Request, NEW c \in Client, GetClient(r, c)  PROVE StepDoes
  <2>1. \A q \in Request \ {r} : job'[q] = job[q]
    BY <1>5 DEF GetClient, ListsInv
  <2> QED
    BY <1>1, <1>5, <2>1 DEF GetClient, Answers, store, StepDoes, Nothing
<1>6. ASSUME NEW r \in Request, NEW c \in Client, NEW body \in Body,
             PutRegistration(r, c, body)
      PROVE  StepDoes
  <2> DEFINE f   == ToFormState(body)
             ids == [i \in DOMAIN f.uses |-> <<arrived + 1, i>>]
             new == [client |-> c, body |-> body,
                     doc |-> Document(f, ids), uses |-> Projection(f, ids)]
  <2>1. UNCHANGED <<doc, rows, order>> /\ arrived' = arrived + 1
    BY <1>6 DEF PutRegistration, Arrives, store
  <2>2. \/ Accepted(f) /\ job' = [job EXCEPT ![r] = new] /\ pc' = [pc EXCEPT ![r] = "save"]
        \/ job' = [job EXCEPT ![r] = NoJob] /\ Answers(r, "invalid")
    <3> HIDE DEF new
    <3> QED
      BY <1>6, Zenon DEF PutRegistration, new
  <2>3. CASE Accepted(f) /\ job' = [job EXCEPT ![r] = new] /\ pc' = [pc EXCEPT ![r] = "save"]
    <3> HIDE DEF new
    <3>1. Joins(r, "save", new)
      BY <2>3 DEF ListsInv, Joins
    <3>2. Submits(r, c, body)
      BY <2>1, <2>3, <3>1 DEF Submits, new
    <3> QED
      BY <3>2 DEF StepDoes
  <2>4. CASE job' = [job EXCEPT ![r] = NoJob] /\ Answers(r, "invalid")
    <3>1. \A q \in Request \ {r} : job'[q] = job[q]
      BY <2>4 DEF ListsInv
    <3> QED
      BY <1>1, <2>1, <2>4, <3>1 DEF Answers, StepDoes, Nothing
  <2> QED
    BY <2>2, <2>3, <2>4
<1>7. ASSUME NEW r \in Request, NEW c \in Client, NEW name \in Renamings(c),
             Confirm(r, c, name)
      PROVE  StepDoes
  <2> DEFINE new == [NoJob EXCEPT !.client = c, !.uses = Renamed(c, name)]
  <2>1. /\ UNCHANGED <<doc, rows, order>> /\ arrived' = arrived + 1
        /\ DOMAIN name = DOMAIN order[c] /\ pc' = [pc EXCEPT ![r] = "replace"]
    BY <1>7 DEF Confirm, Arrives, store
  <2>2. job' = [job EXCEPT ![r] = new]
    BY <1>7 DEF Confirm, Renamed
  <2> HIDE DEF new
  <2>3. Joins(r, "replace", new)
    BY <2>1, <2>2 DEF ListsInv, Joins
  <2>4. Confirms(r, c, name)
    BY <2>1, <2>3 DEF Confirms, new
  <2> QED
    BY <2>4 DEF StepDoes
<1>8. ASSUME NEW r \in Request, NEW l, l \notin {"save", "replace"},
             pc' = [pc EXCEPT ![r] = l], job' = job, arrived' = arrived,
             \/ UNCHANGED store
             \/ /\ pc[r] = "save" /\ job[r].client \in known
                /\ SaveWRPDocument(job[r].client, job[r].doc, job[r].uses)
             \/ /\ pc[r] = "replace" /\ job[r].client \in known
                /\ SetIntendedUses(job[r].client, job[r].uses)
      PROVE  StepDoes
  <2>1. NobodyJoins
    BY <1>1, <1>8
  <2>2. pc[r] \in {"save", "replace"} => job[r].client \in Client
    BY DEF ListsInv
  <2> QED
    BY <1>8, <2>1, <2>2 DEF store, SetIntendedUses, StepDoes, Nothing, Saves, Replaces
<1>9. ASSUME NEW r \in Request, Save(r) \/ ReadBack(r) \/ Replace(r)  PROVE StepDoes
  BY <1>8, <1>9 DEF Save, ReadBack, Replace, Goto, Answers, store
<1>10. ASSUME NEW r \in Request, AuditReplace(r) \/ CallFails(r) \/ AnswerLost(r)
       PROVE  StepDoes
  BY <1>8, <1>10 DEF AuditReplace, AppendAudit, CallFails, AnswerLost, Fails, Answers
<1> QED
  BY <1>2, <1>3, <1>4, <1>5, <1>6, <1>7, <1>9, <1>10 DEF Next

\* A document and the projection that came with it, both built from a body.
Submitted(d, list) ==
    \E body \in Body, n \in Nat :
        LET f   == ToFormState(body)
            ids == [i \in DOMAIN f.uses |-> <<n, i>>]
        IN  Accepted(f) /\ d = Document(f, ids) /\ list = Projection(f, ids)

\* The credentials an accepted body asks for in one of its uses.
RequestedScope(scope) ==
    \E body \in Body :
        /\ Accepted(ToFormState(body))
        /\ \E i \in DOMAIN body.uses :
              scope = [j \in DOMAIN body.uses[i].credentials |->
                          ScopeCredential(body.uses[i].credentials[j])]

RequestedList(list) == \A i \in DOMAIN list : RequestedScope(list[i].credentials)

SourceInv ==
    /\ doc = [c \in Client |-> doc[c]]
    /\ \A c \in Client : doc[c] # NoDoc => \E list : Submitted(doc[c], list)
    /\ \A c \in Client : \A u \in DOMAIN rows[c] : RequestedScope(rows[c][u].credentials)
    /\ \A r \in Request : pc[r] = "save" => Submitted(job[r].doc, job[r].uses)
    /\ \A r \in Request : pc[r] \in {"save", "replace"} => RequestedList(job[r].uses)

\* What is submitted is a document with its projection, asks for nothing the
\* body does not ask for, and names its uses by pending identifiers.
LEMMA SubmittedFacts ==
    ASSUME NEW d, NEW list, Submitted(d, list)
    PROVE  /\ Matched(d, list) /\ RequestedList(list)
           /\ \A i \in DOMAIN list : list[i].id \in Nat \X Nat
           /\ \E body \in Body : Accepted(ToFormState(body)) /\ d.supervisory = body.supervisory
<1>1. PICK body \in Body, n \in Nat :
        LET f   == ToFormState(body)
            ids == [i \in DOMAIN f.uses |-> <<n, i>>]
        IN  Accepted(f) /\ d = Document(f, ids) /\ list = Projection(f, ids)
  BY DEF Submitted
<1> DEFINE f   == ToFormState(body)
           ids == [i \in DOMAIN f.uses |-> <<n, i>>]
<1>2. Accepted(f) /\ d = Document(f, ids) /\ list = Projection(f, ids)
  BY <1>1
<1>3. DOMAIN f.uses \subseteq Nat
  BY BodiesAreLists
<1>4. /\ \A i, j \in DOMAIN f.uses : ids[i] = ids[j] => i = j
      /\ \A i \in DOMAIN f.uses : ids[i] \in Nat \X Nat
  <2> HIDE DEF f
  <2> QED
    BY <1>3
<1>5. f.supervisory = body.supervisory
  BY DEF ToFormState
<1>6. /\ DOMAIN f.uses = DOMAIN body.uses
      /\ \A i \in DOMAIN body.uses : f.uses[i].credentials = body.uses[i].credentials
  BY DEF ToFormState
<1> HIDE DEF f, ids
<1>7. Matched(d, list)
  BY <1>2, <1>3, <1>4, BuiltTogether
<1>8. DOMAIN list = DOMAIN f.uses /\ \A i \in DOMAIN list : list[i].id = ids[i]
  BY <1>2 DEF Projection
<1>9. ASSUME NEW i \in DOMAIN list  PROVE RequestedScope(list[i].credentials)
  <2>1. list[i].credentials = [j \in DOMAIN f.uses[i].credentials |->
                                  ScopeCredential(f.uses[i].credentials[j])]
    BY <1>2, <1>8 DEF Projection
  <2>2. list[i].credentials = [j \in DOMAIN body.uses[i].credentials |->
                                  ScopeCredential(body.uses[i].credentials[j])]
    BY <1>6, <1>8, <2>1
  <2>3. Accepted(ToFormState(body)) /\ i \in DOMAIN body.uses
    BY <1>2, <1>6, <1>8 DEF f
  <2> QED
    BY <2>2, <2>3, Zenon DEF RequestedScope
<1>10. d.supervisory = body.supervisory
  BY <1>2, <1>5 DEF Document
<1>11. Accepted(ToFormState(body))
  BY <1>2 DEF f
<1> QED
  BY <1>4, <1>7, <1>8, <1>9, <1>10, <1>11 DEF RequestedList

\* Rows that replace others ask for what the list asks for.
LEMMA ReplacedAreRequested ==
    ASSUME NEW c, NEW list, UseList(list), RequestedList(list)
    PROVE  \A u \in DOMAIN ReplacedRows(c, list) :
              RequestedScope(ReplacedRows(c, list)[u].credentials)
<1> SUFFICES ASSUME NEW u \in Ids(list)
             PROVE  RequestedScope(ReplacedRows(c, list)[u].credentials)
  BY DEF ReplacedRows
<1> DEFINE last == CHOOSE i \in DOMAIN list :
                      list[i].id = u /\ \A j \in DOMAIN list : list[j].id = u => j <= i
<1>1. ReplacedRows(c, list)[u].credentials = list[last].credentials
  BY DEF ReplacedRows, LastEntry
<1>2. last \in DOMAIN list
  <2> DEFINE same == {i \in DOMAIN list : list[i].id = u}
  <2>1. PICK n \in Nat : DOMAIN list = 1..n
    BY DEF UseList
  <2>2. same \in SUBSET (1..n) /\ same # {}
    BY <2>1 DEF Ids
  <2>3. \E i \in same : \A j \in same : j <= i
    <3> HIDE DEF same
    <3> QED
      BY <2>1, <2>2, LastPlace
  <2>4. \E i \in DOMAIN list :
           list[i].id = u /\ \A j \in DOMAIN list : list[j].id = u => j <= i
    BY <2>3
  <2> QED
    BY <2>4
<1> HIDE DEF last
<1> QED
  BY <1>1, <1>2 DEF RequestedList

\* Who waits is who waited, or the one that joins.
LEMMA JoiningKeepsSource ==
    ASSUME SourceInv, NEW r \in Request, NEW l \in {"save", "replace"}, NEW new,
           UNCHANGED <<doc, rows>>, Joins(r, l, new),
           l = "save" => Submitted(new.doc, new.uses), RequestedList(new.uses)
    PROVE  SourceInv'
<1>1. \A q \in Request : pc'[q] = "save" => Submitted(job'[q].doc, job'[q].uses)
  BY DEF Joins, SourceInv
<1>2. \A q \in Request : pc'[q] \in {"save", "replace"} => RequestedList(job'[q].uses)
  BY DEF Joins, SourceInv
<1> QED
  BY <1>1, <1>2 DEF SourceInv

LEMMA ReplacingKeepsSource ==
    ASSUME ListsInv, SourceInv, NobodyJoins, NEW r \in Request, pc[r] \in {"save", "replace"},
           job[r].client \in Client, ReplaceIntendedUses(job[r].client, job[r].uses),
           \/ doc' = doc
           \/ pc[r] = "save" /\ doc' = [doc EXCEPT ![job[r].client] = job[r].doc]
    PROVE  SourceInv'
<1> DEFINE c == job[r].client
<1>1. UseList(job[r].uses) /\ RequestedList(job[r].uses)
  BY DEF ListsInv, SourceInv
<1>2. rows'[c] = ReplacedRows(c, job[r].uses) /\ \A d \in Client \ {c} : rows'[d] = rows[d]
  BY <1>1, ReplacedState
<1>3. \A u \in DOMAIN ReplacedRows(c, job[r].uses) :
         RequestedScope(ReplacedRows(c, job[r].uses)[u].credentials)
  BY <1>1, ReplacedAreRequested
<1>4. \A d \in Client : \A u \in DOMAIN rows'[d] : RequestedScope(rows'[d][u].credentials)
  BY <1>2, <1>3 DEF SourceInv
<1>5. /\ doc' = [d \in Client |-> doc'[d]]
      /\ \A d \in Client : doc'[d] # NoDoc => \E list : Submitted(doc'[d], list)
  <2>1. CASE doc' = doc
    BY <2>1 DEF SourceInv
  <2>2. CASE pc[r] = "save" /\ doc' = [doc EXCEPT ![c] = job[r].doc]
    <3>1. doc'[c] = job[r].doc /\ \A d \in Client \ {c} : doc'[d] = doc[d]
      BY <2>2 DEF SourceInv
    <3>2. Submitted(job[r].doc, job[r].uses)
      BY <2>2 DEF SourceInv
    <3> QED
      BY <2>2, <3>1, <3>2 DEF SourceInv
  <2> QED
    BY <2>1, <2>2
<1>6. \A q \in Request :
         /\ pc'[q] = "save" => Submitted(job'[q].doc, job'[q].uses)
         /\ pc'[q] \in {"save", "replace"} => RequestedList(job'[q].uses)
  BY DEF NobodyJoins, SourceInv
<1> QED
  BY <1>4, <1>5, <1>6 DEF SourceInv

LEMMA SourceStep == ListsInv /\ OrderInv /\ SourceInv /\ [Next]_vars => SourceInv'
<1> SUFFICES ASSUME ListsInv, OrderInv, SourceInv, [Next]_vars  PROVE SourceInv'
  OBVIOUS
<1>1. CASE Nothing
  BY <1>1 DEF Nothing, NobodyJoins, SourceInv
<1>2. ASSUME NEW r \in Request, NEW c \in Client, NEW body \in Body, Submits(r, c, body)
      PROVE  SourceInv'
  <2> DEFINE f   == ToFormState(body)
             ids == [i \in DOMAIN f.uses |-> <<arrived + 1, i>>]
             new == [client |-> c, body |-> body,
                     doc |-> Document(f, ids), uses |-> Projection(f, ids)]
  <2>1. Accepted(f) /\ UNCHANGED <<doc, rows>>
    BY <1>2 DEF Submits
  <2>2. Joins(r, "save", new)
    BY <1>2 DEF Submits
  <2>3. arrived + 1 \in Nat
    BY DEF ListsInv
  <2>4. new.doc = Document(f, ids) /\ new.uses = Projection(f, ids)
    OBVIOUS
  <2>5. Submitted(Document(f, ids), Projection(f, ids))
    BY <2>1, <2>3, Zenon DEF Submitted
  <2> HIDE DEF f, ids, new
  <2>6. Submitted(new.doc, new.uses) /\ RequestedList(new.uses)
    BY <2>4, <2>5, SubmittedFacts
  <2> QED
    BY <2>1, <2>2, <2>6, JoiningKeepsSource
<1>3. ASSUME NEW r \in Request, NEW c \in Client, NEW name \in Renamings(c),
             Confirms(r, c, name)
      PROVE  SourceInv'
  <2> DEFINE new == [NoJob EXCEPT !.client = c, !.uses = Renamed(c, name)]
  <2>1. UNCHANGED <<doc, rows>> /\ DOMAIN name = DOMAIN order[c] /\ Joins(r, "replace", new)
    BY <1>3 DEF Confirms
  <2>2. new.uses = Renamed(c, name)
    BY DEF NoJob
  <2>3. DOMAIN Renamed(c, name) = DOMAIN order[c]
    BY <2>1 DEF Renamed
  <2>4. ASSUME NEW i \in DOMAIN order[c]
        PROVE  RequestedScope(Renamed(c, name)[i].credentials)
    <3>1. Renamed(c, name)[i].credentials = rows[c][order[c][i]].credentials
      BY <2>1 DEF Renamed, ListIntendedUses
    <3>2. order[c][i] \in DOMAIN rows[c]
      BY DEF OrderInv
    <3> QED
      BY <3>1, <3>2 DEF SourceInv
  <2> HIDE DEF new
  <2>5. RequestedList(new.uses)
    BY <2>2, <2>3, <2>4 DEF RequestedList
  <2> QED
    BY <2>1, <2>5, JoiningKeepsSource
<1>4. ASSUME NEW r \in Request, Saves(r)  PROVE SourceInv'
  BY <1>4, ReplacingKeepsSource DEF Saves, SaveWRPDocument
<1>5. ASSUME NEW r \in Request, Replaces(r)  PROVE SourceInv'
  BY <1>5, ReplacingKeepsSource DEF Replaces
<1> QED
  BY <1>1, <1>2, <1>3, <1>4, <1>5, EveryStepDoes DEF StepDoes

LEMMA SourceHolds == Spec => []SourceInv
<1>1. Init => SourceInv
  BY DEF Init, SourceInv, NoRow
<1> QED
  BY <1>1, SourceStep, ListsHold, OrderHolds, PTL DEF Spec

(***************************************************************************)
(* The scope the session service enforces is one that was asked for: the   *)
(* credentials of every row are those of one use of a request that passed  *)
(* Build, whatever was confirmed in between, with however stale a list of  *)
(* rows (fake.go, SetIntendedUses).                                        *)
(***************************************************************************)
ScopesWereRequested ==
    \A c \in Client : \A u \in DOMAIN rows[c] : RequestedScope(rows[c][u].credentials)

THEOREM ScopesAreRequested == Spec => []ScopesWereRequested
<1>1. SourceInv => ScopesWereRequested
  BY DEF SourceInv, ScopesWereRequested
<1> QED
  BY <1>1, SourceHolds, PTL

(***************************************************************************)
(* A submission starts over: whatever the registrar confirmed, the rows    *)
(* are the projection of the new document again, and none of them has an   *)
(* identifier of the registrar's (wizard.go:298 mints pending ones for     *)
(* every document).                                                        *)
(***************************************************************************)
SubmissionsStartOver ==
    [][\A c \in Client : doc'[c] # doc[c] =>
          Projected(doc'[c], rows'[c]) /\ DOMAIN rows'[c] \cap RegistrarId = {}]_vars

THEOREM EverySubmissionStartsOver == Spec => SubmissionsStartOver
<1> DEFINE Over == \A c \in Client : doc'[c] # doc[c] =>
                      Projected(doc'[c], rows'[c]) /\ DOMAIN rows'[c] \cap RegistrarId = {}
<1>1. ASSUME ListsInv, SourceInv, [Next]_vars  PROVE Over
  <2>1. CASE doc' = doc
    BY <2>1
  <2>2. ASSUME NEW r \in Request, Saves(r)  PROVE Over
    <3> DEFINE c == job[r].client
    <3>1. /\ c \in Client /\ doc' = [doc EXCEPT ![c] = job[r].doc]
          /\ ReplaceIntendedUses(c, job[r].uses)
      BY <2>2 DEF Saves, SaveWRPDocument
    <3>2. Submitted(job[r].doc, job[r].uses) /\ UseList(job[r].uses)
      BY <1>1, <2>2 DEF Saves, SourceInv, ListsInv
    <3>3. /\ Matched(job[r].doc, job[r].uses)
          /\ \A i \in DOMAIN job[r].uses : job[r].uses[i].id \in Nat \X Nat
      BY <3>2, SubmittedFacts
    <3>4. rows'[c] = ReplacedRows(c, job[r].uses) /\ DOMAIN rows'[c] = Ids(job[r].uses)
      BY <1>1, <3>1, <3>2, ReplacedState
    <3>5. doc'[c] = job[r].doc /\ \A d \in Client \ {c} : doc'[d] = doc[d]
      BY <1>1, <3>1 DEF SourceInv
    <3>6. Projected(doc'[c], rows'[c])
      BY <3>3, <3>4, <3>5, ReplacedMatches
    <3>7. DOMAIN rows'[c] \cap RegistrarId = {}
      BY <3>3, <3>4, RegistrarAssumption DEF Ids
    <3> HIDE DEF c
    <3> QED
      BY <3>5, <3>6, <3>7
  <2> QED
    BY <1>1, <2>1, <2>2, EveryStepDoes DEF StepDoes, Nothing, Submits, Confirms, Replaces
<1>2. ListsInv /\ SourceInv /\ [Next]_vars => [Over]_vars
  BY <1>1
<1> QED
  BY <1>2, ListsHold, SourceHolds, PTL DEF Spec, SubmissionsStartOver

\* The pending identifiers a client's document and rows have, and those its
\* requests wait to write.
PendingIds(c) == (DOMAIN rows[c] \cup Ids(doc[c].uses)) \ RegistrarId

WaitingIds(c) ==
    (UNION {Ids(job[r].uses) : r \in {q \in Request : /\ pc[q] \in {"save", "replace"}
                                                      /\ job[q].client = c}}) \ RegistrarId

Held(c) == PendingIds(c) \cup WaitingIds(c)

OwnInv ==
    /\ \A c \in Client : \A u \in Held(c) : u[1] \in 1..arrived
    /\ \A c, d \in Client : \A u \in Held(c), v \in Held(d) : u[1] = v[1] => c = d

\* A step gives no client identifiers but those of the submission it makes.
HeldMove ==
    \/ arrived' \in {arrived, arrived + 1} /\ \A d \in Client : Held(d)' \subseteq Held(d)
    \/ \E c \in Client :
          /\ arrived' = arrived + 1
          /\ \A d \in Client \ {c} : Held(d)' \subseteq Held(d)
          /\ \A u \in Held(c)' : u \in Held(c) \/ u[1] = arrived + 1

LEMMA HeldBy ==
    ASSUME NEW c, NEW u
    PROVE  u \in Held(c) <=>
              /\ u \notin RegistrarId
              /\ \/ u \in DOMAIN rows[c] \/ u \in Ids(doc[c].uses)
                 \/ \E r \in Request : /\ pc[r] \in {"save", "replace"} /\ job[r].client = c
                                       /\ u \in Ids(job[r].uses)
<1>1. u \in WaitingIds(c) <=>
         /\ u \notin RegistrarId
         /\ \E r \in Request : /\ pc[r] \in {"save", "replace"} /\ job[r].client = c
                               /\ u \in Ids(job[r].uses)
  BY DEF WaitingIds
<1> QED
  BY <1>1 DEF Held, PendingIds

LEMMA HeldByThen ==
    ASSUME NEW c, NEW u
    PROVE  u \in Held(c)' <=>
              /\ u \notin RegistrarId
              /\ \/ u \in DOMAIN rows'[c] \/ u \in Ids(doc'[c].uses)
                 \/ \E r \in Request : /\ pc'[r] \in {"save", "replace"} /\ job'[r].client = c
                                       /\ u \in Ids(job'[r].uses)
<1>1. u \in WaitingIds(c)' <=>
         /\ u \notin RegistrarId
         /\ \E r \in Request : /\ pc'[r] \in {"save", "replace"} /\ job'[r].client = c
                               /\ u \in Ids(job'[r].uses)
  BY DEF WaitingIds, Ids
<1>2. u \in PendingIds(c)' <=>
         u \notin RegistrarId /\ (u \in DOMAIN rows'[c] \/ u \in Ids(doc'[c].uses))
  BY Zenon DEF PendingIds, Ids
<1> QED
  BY <1>1, <1>2 DEF Held

\* A replacement gives the client what its list names, and the document has
\* the names of its projection.
LEMMA ReplacingMovesHeld ==
    ASSUME ListsInv, SourceInv, NobodyJoins, NEW r \in Request, pc[r] \in {"save", "replace"},
           job[r].client \in Client, ReplaceIntendedUses(job[r].client, job[r].uses),
           arrived' = arrived,
           \/ doc' = doc
           \/ pc[r] = "save" /\ doc' = [doc EXCEPT ![job[r].client] = job[r].doc]
    PROVE  HeldMove
<1> DEFINE c == job[r].client
<1>1. UseList(job[r].uses)
  BY DEF ListsInv
<1>2. DOMAIN rows'[c] = Ids(job[r].uses) /\ \A d \in Client \ {c} : rows'[d] = rows[d]
  BY <1>1, ReplacedState
<1>3. pc[r] = "save" => Ids(job[r].doc.uses) = Ids(job[r].uses)
  <2> SUFFICES ASSUME pc[r] = "save"  PROVE Ids(job[r].doc.uses) = Ids(job[r].uses)
    OBVIOUS
  <2>1. Matched(job[r].doc, job[r].uses)
    BY SubmittedFacts DEF SourceInv
  <2> QED
    BY <2>1 DEF Matched, Ids
<1>4. ASSUME NEW d \in Client, NEW u \in Ids(doc'[d].uses)
      PROVE  u \in Ids(doc[d].uses) \/ (d = c /\ u \in Ids(job[r].uses))
  <2>1. CASE doc' = doc
    BY <1>4, <2>1
  <2>2. CASE pc[r] = "save" /\ doc' = [doc EXCEPT ![c] = job[r].doc]
    <3>1. doc'[d] = IF d = c THEN job[r].doc ELSE doc[d]
      BY <2>2 DEF SourceInv
    <3> QED
      BY <1>3, <1>4, <2>2, <3>1
  <2> QED
    BY <2>1, <2>2
<1>5. ASSUME NEW d \in Client, NEW u \in Held(d)'  PROVE u \in Held(d)
  <2>1. u \notin RegistrarId
    BY <1>5, HeldByThen
  <2>2. CASE u \in DOMAIN rows'[d]
    BY <1>2, <2>1, <2>2, HeldBy
  <2>3. CASE u \in Ids(doc'[d].uses)
    BY <1>4, <2>1, <2>3, HeldBy
  <2>4. CASE \E q \in Request : /\ pc'[q] \in {"save", "replace"} /\ job'[q].client = d
                                /\ u \in Ids(job'[q].uses)
    BY <2>1, <2>4, HeldBy DEF NobodyJoins
  <2> QED
    BY <1>5, <2>2, <2>3, <2>4, HeldByThen
<1> QED
  BY <1>5 DEF HeldMove

LEMMA JoiningMovesHeld ==
    ASSUME NEW r \in Request, NEW l \in {"save", "replace"}, NEW new, new.client \in Client,
           UNCHANGED <<doc, rows>>, arrived' = arrived + 1, Joins(r, l, new),
           \A u \in Ids(new.uses) :
              u \in RegistrarId \/ u \in Held(new.client) \/ u[1] = arrived + 1
    PROVE  HeldMove
<1>1. ASSUME NEW d \in Client, NEW u \in Held(d)'
      PROVE  u \in Held(d) \/ (d = new.client /\ u[1] = arrived + 1)
  <2>1. u \notin RegistrarId
    BY <1>1, HeldByThen
  <2>2. CASE u \in DOMAIN rows[d] \/ u \in Ids(doc[d].uses)
    BY <2>1, <2>2, HeldBy
  <2>3. ASSUME NEW q \in Request, pc'[q] \in {"save", "replace"}, job'[q].client = d,
               u \in Ids(job'[q].uses)
        PROVE  u \in Held(d) \/ (d = new.client /\ u[1] = arrived + 1)
    <3>1. CASE q = r
      BY <2>1, <2>3, <3>1 DEF Joins
    <3>2. CASE q # r
      BY <2>1, <2>3, <3>2, HeldBy DEF Joins
    <3> QED
      BY <3>1, <3>2
  <2> QED
    BY <1>1, <2>2, <2>3, HeldByThen
<1> QED
  BY <1>1 DEF HeldMove

LEMMA StepsMoveHeld ==
    ASSUME ListsInv, OrderInv, SourceInv, [Next]_vars
    PROVE  HeldMove
<1>1. CASE Nothing
  <2>1. ASSUME NEW d \in Client, NEW u \in Held(d)'  PROVE u \in Held(d)
    <3>1. \A q \in Request : pc'[q] \in {"save", "replace"} => pc'[q] = pc[q] /\ job'[q] = job[q]
      BY <1>1 DEF Nothing, NobodyJoins
    <3> QED
      BY <1>1, <2>1, <3>1, HeldBy, HeldByThen DEF Nothing
  <2> QED
    BY <1>1, <2>1 DEF Nothing, HeldMove
<1>2. ASSUME NEW r \in Request, NEW c \in Client, NEW body \in Body, Submits(r, c, body)
      PROVE  HeldMove
  <2> DEFINE f   == ToFormState(body)
             ids == [i \in DOMAIN f.uses |-> <<arrived + 1, i>>]
             new == [client |-> c, body |-> body,
                     doc |-> Document(f, ids), uses |-> Projection(f, ids)]
  <2>1. UNCHANGED <<doc, rows>> /\ arrived' = arrived + 1
    BY <1>2 DEF Submits
  <2>2. Joins(r, "save", new)
    BY <1>2 DEF Submits
  <2>3. new.client = c /\ new.uses = Projection(f, ids)
    OBVIOUS
  <2>4. \A i \in DOMAIN f.uses : ids[i][1] = arrived + 1
    <3> HIDE DEF f
    <3> QED
      OBVIOUS
  <2> HIDE DEF f, ids, new
  <2>5. \A u \in Ids(Projection(f, ids)) : u[1] = arrived + 1
    BY <2>4 DEF Ids, Projection
  <2> QED
    BY <2>1, <2>2, <2>3, <2>5, JoiningMovesHeld
<1>3. ASSUME NEW r \in Request, NEW c \in Client, NEW name \in Renamings(c),
             Confirms(r, c, name)
      PROVE  HeldMove
  <2> DEFINE new == [NoJob EXCEPT !.client = c, !.uses = Renamed(c, name)]
  <2>1. /\ UNCHANGED <<doc, rows>> /\ arrived' = arrived + 1
        /\ DOMAIN name = DOMAIN order[c] /\ Joins(r, "replace", new)
    BY <1>3 DEF Confirms
  <2>2. new.client = c /\ new.uses = Renamed(c, name)
    BY DEF NoJob
  <2>3. ASSUME NEW i \in DOMAIN name
        PROVE  /\ Renamed(c, name)[i].id = name[i]
               /\ name[i] \in RegistrarId \/ name[i] \in DOMAIN rows[c]
    <3>1. Renamed(c, name)[i].id = name[i]
      BY <2>1 DEF Renamed, ListIntendedUses
    <3>2. name[i] \in RegistrarId \cup {order[c][i]}
      BY DEF Renamings
    <3>3. order[c][i] \in DOMAIN rows[c]
      BY <2>1 DEF OrderInv
    <3> QED
      BY <3>1, <3>2, <3>3
  <2>4. DOMAIN Renamed(c, name) = DOMAIN name
    BY DEF Renamed
  <2> HIDE DEF new
  <2>5. \A u \in Ids(new.uses) : u \in RegistrarId \/ u \in DOMAIN rows[c]
    BY <2>2, <2>3, <2>4 DEF Ids
  <2>6. \A u \in Ids(new.uses) : u \in RegistrarId \/ u \in Held(c)
    BY <2>5, HeldBy
  <2> QED
    BY <2>1, <2>2, <2>6, JoiningMovesHeld
<1>4. ASSUME NEW r \in Request, Saves(r)  PROVE HeldMove
  BY <1>4, ReplacingMovesHeld DEF Saves, SaveWRPDocument
<1>5. ASSUME NEW r \in Request, Replaces(r)  PROVE HeldMove
  BY <1>5, ReplacingMovesHeld DEF Replaces
<1> QED
  BY <1>1, <1>2, <1>3, <1>4, <1>5, EveryStepDoes DEF StepDoes

(***************************************************************************)
(* Pending identifiers are minted once: no document and no row of one      *)
(* client ever has an identifier of a submission that was made for another *)
(* one, through renamings, stale lists, retries and restarts               *)
(* (wizard.go:298).                                                        *)
(***************************************************************************)
PendingIdsAreOwned ==
    \A c, d \in Client : \A u \in PendingIds(c), v \in PendingIds(d) : u[1] = v[1] => c = d

THEOREM SubmissionsAreNotMixed == Spec => []PendingIdsAreOwned
<1>1. Init => OwnInv
  <2> SUFFICES ASSUME Init  PROVE \A c \in Client : Held(c) = {}
    BY DEF OwnInv
  <2>1. ASSUME NEW c \in Client, NEW u \in Held(c)  PROVE FALSE
    BY <2>1, HeldBy DEF Init, NoRow, NoDoc, Ids
  <2> QED
    BY <2>1
<1>2. ASSUME ListsInv, OrderInv, SourceInv, OwnInv, [Next]_vars  PROVE OwnInv'
  <2>1. arrived \in Nat
    BY <1>2 DEF ListsInv
  <2>2. CASE arrived' \in {arrived, arrived + 1} /\ \A d \in Client : Held(d)' \subseteq Held(d)
    BY <1>2, <2>1, <2>2 DEF OwnInv
  <2>3. ASSUME NEW c \in Client, arrived' = arrived + 1,
               \A d \in Client \ {c} : Held(d)' \subseteq Held(d),
               \A u \in Held(c)' : u \in Held(c) \/ u[1] = arrived + 1
        PROVE  OwnInv'
    <3> DEFINE Old(d, u) == u \in Held(d) /\ u[1] \in 1..arrived
    <3>1. \A d \in Client : \A u \in Held(d)' : Old(d, u) \/ (d = c /\ u[1] = arrived + 1)
      BY <1>2, <2>3 DEF OwnInv
    <3>2. ASSUME NEW d \in Client, NEW u \in Held(d)'  PROVE u[1] \in 1..arrived'
      BY <2>1, <2>3, <3>1, <3>2
    <3>3. ASSUME NEW d \in Client, NEW e \in Client, NEW u \in Held(d)', NEW v \in Held(e)',
                 u[1] = v[1]
          PROVE  d = e
      <4>1. CASE Old(d, u) /\ Old(e, v)
        BY <1>2, <3>3, <4>1 DEF OwnInv
      <4>2. CASE d = c /\ u[1] = arrived + 1
        <5>1. v[1] \notin 1..arrived
          BY <2>1, <3>3, <4>2
        <5> QED
          BY <3>1, <4>2, <5>1
      <4>3. CASE e = c /\ v[1] = arrived + 1
        <5>1. u[1] \notin 1..arrived
          BY <2>1, <3>3, <4>3
        <5> QED
          BY <3>1, <4>3, <5>1
      <4> QED
        BY <3>1, <4>1, <4>2, <4>3
    <3> QED
      BY <3>2, <3>3 DEF OwnInv
  <2> QED
    BY <1>2, <2>2, <2>3, StepsMoveHeld DEF HeldMove
<1>3. OwnInv => PendingIdsAreOwned
  BY DEF OwnInv, PendingIdsAreOwned, Held
<1> QED
  BY <1>1, <1>2, <1>3, ListsHold, OrderHolds, SourceHolds, PTL DEF Spec

\* Lists without blanks, joined, have none.
LEMMA JoinedIsFilled ==
    ASSUME NEW a \in Seq(STRING), NEW b \in Seq(STRING), AllFilled(a), AllFilled(b)
    PROVE  a \o b \in Seq(STRING) /\ AllFilled(a \o b)
<1>0. /\ a \o b \in Seq(STRING) /\ DOMAIN (a \o b) = 1..(Len(a) + Len(b))
      /\ Len(a) \in Nat /\ DOMAIN a = 1..Len(a) /\ Len(b) \in Nat /\ DOMAIN b = 1..Len(b)
  OBVIOUS
<1>1. \A i \in 1..(Len(a) + Len(b)) :
         (a \o b)[i] = IF i <= Len(a) THEN a[i] ELSE b[i - Len(a)]
  OBVIOUS
<1>2. ASSUME NEW i \in 1..(Len(a) + Len(b))  PROVE (a \o b)[i] # ""
  <2>1. CASE i <= Len(a)
    <3>1. i \in DOMAIN a
      BY <1>0, <2>1
    <3> QED
      BY <1>1, <2>1, <3>1 DEF AllFilled
  <2>2. CASE ~(i <= Len(a))
    <3>1. i - Len(a) \in DOMAIN b
      BY <1>0, <2>2
    <3> QED
      BY <1>1, <2>2, <3>1 DEF AllFilled
  <2> QED
    BY <2>1, <2>2
<1> QED
  BY <1>0, <1>2 DEF AllFilled

(***************************************************************************)
(* Blank entries are the only way to a contact that says nothing: if no    *)
(* body has one among its contacts, what wizard.go:249 says of the stored  *)
(* supervisory authority is true.                                          *)
(***************************************************************************)
THEOREM ContactsWithoutBlanksAreUsable ==
    ASSUME \A body \in Body : /\ AllFilled(body.supervisory.email)
                              /\ AllFilled(body.supervisory.phone)
                              /\ AllFilled(body.supervisory.formUri)
    PROVE  Spec => []StoredContactIsUsable
<1>1. ASSUME NEW body \in Body, Accepted(ToFormState(body))
      PROVE  NonEmpty(body.supervisory.email \o body.supervisory.phone
                          \o body.supervisory.formUri) # <<>>
  <2> DEFINE sa == body.supervisory
  <2>1. sa \in Contacts
    BY BodyAssumption DEF RegistrationRequest
  <2>2. sa.email \in Seq(STRING) /\ sa.phone \in Seq(STRING) /\ sa.formUri \in Seq(STRING)
    BY <2>1 DEF Contacts
  <2>3. AllFilled(sa.email) /\ AllFilled(sa.phone) /\ AllFilled(sa.formUri)
    OBVIOUS
  <2>4. ValidSupervisory(sa)
    BY <1>1 DEF Accepted, ToFormState
  <2> HIDE DEF sa
  <2>5. sa.email \o sa.phone \in Seq(STRING) /\ AllFilled(sa.email \o sa.phone)
    BY <2>2, <2>3, JoinedIsFilled
  <2> DEFINE all == sa.email \o sa.phone \o sa.formUri
  <2>6. all \in Seq(STRING) /\ AllFilled(all)
    BY <2>2, <2>3, <2>5, JoinedIsFilled
  <2>7. all # <<>>
    BY <2>2, <2>4 DEF ValidSupervisory
  <2> HIDE DEF all
  <2>8. NonEmpty(all) # <<>>
    BY <2>6, <2>7, FilledIsNonEmpty
  <2> QED
    BY <2>8 DEF all, sa
<1>2. SourceInv => StoredContactIsUsable
  <2> SUFFICES ASSUME SourceInv, NEW c \in Client, doc[c] # NoDoc
               PROVE  LET sa == doc[c].supervisory
                      IN  NonEmpty(sa.email \o sa.phone \o sa.formUri) # <<>>
    BY DEF StoredContactIsUsable
  <2>1. PICK body \in Body :
           Accepted(ToFormState(body)) /\ doc[c].supervisory = body.supervisory
    BY SubmittedFacts DEF SourceInv
  <2> QED
    BY <1>1, <2>1
<1> QED
  BY <1>2, SourceHolds, PTL
=============================================================================
