--------------------------- MODULE Archive_proofs ---------------------------
(***************************************************************************)
(* The archive of any clients: evidence answers with what is due of it,    *)
(* its list names every upload once and keeps its order, and every other   *)
(* list is a page of the newest entries.  The invariant ties each row to   *)
(* the audit entry of its upload and to the purges that came after it.     *)
(***************************************************************************)
EXTENDS Archive, Selection_proofs

Actions == {"client.create", "client.transition", "evidence.add", "note", "client.purge"}

Entry == [client : Client \cup {NoClient}, action : Actions, ref : Nat]

Row == [owner : Client, content : Content \cup {Purged}, at : 0..MaxTime]

Adds(i)      == log[i].action = "evidence.add"
Purges(i, c) == log[i].action = "client.purge" /\ log[i].client = c

ShapeInv ==
    /\ offboarded \subseteq known /\ known \subseteq Client
    /\ log \in Seq(Entry) /\ Len(log) <= MaxWrites
    /\ deletions \in [Client -> Seq(Session)]
    /\ now \in 0..MaxTime

RowsInv ==
    /\ IsFiniteSet(DOMAIN evidence)
    /\ DOMAIN uploads = DOMAIN evidence
    /\ \A e \in DOMAIN evidence :
          e \in Id /\ evidence[e] \in Row /\ evidence[e].owner \in known

\* The log has the upload of every row, once; a row is empty when a purge of its
\* owner follows its upload.
LogInv ==
    /\ \A e \in DOMAIN evidence : \E i \in DOMAIN log : Adds(i) /\ log[i].ref = e
    /\ \A i, j \in DOMAIN log : Adds(i) /\ Adds(j) /\ log[i].ref = log[j].ref => i = j
    /\ \A i \in DOMAIN log : Adds(i) =>
          /\ log[i].ref \in DOMAIN evidence
          /\ evidence[log[i].ref].owner = log[i].client
          /\ evidence[log[i].ref].content =
                IF \E j \in DOMAIN log : i < j /\ Purges(j, log[i].client)
                THEN Purged ELSE uploads[log[i].ref]

ArchiveInv == ShapeInv /\ RowsInv /\ LogInv

-----------------------------------------------------------------------------
(***************************************************************************)
(* A step adds an entry or none.                                           *)
(***************************************************************************)
LEMMA AppendedEntry ==
    ASSUME ShapeInv, NEW x \in Entry, log' = Append(log, x)
    PROVE  /\ log' \in Seq(Entry) /\ Len(log) \in Nat
           /\ DOMAIN log = 1..Len(log) /\ DOMAIN log' = 1..(Len(log) + 1)
           /\ Len(log') = Len(log) + 1
           /\ \A i \in DOMAIN log : i \in DOMAIN log' /\ log'[i] = log[i] /\ i < Len(log) + 1
           /\ \A i \in DOMAIN log' : i \in DOMAIN log \/ i = Len(log) + 1
           /\ log'[Len(log) + 1] = x
<1>1. log \in Seq(Entry)
  BY DEF ShapeInv
<1> QED
  BY <1>1

LEMMA AuditAppends ==
    ASSUME NEW c \in Client \cup {NoClient}, NEW action \in Actions, NEW ref \in Nat,
           Audit(c, action, ref), ShapeInv
    PROVE  LET x == [client |-> c, action |-> action, ref |-> ref]
           IN  x \in Entry /\ log' = Append(log, x) /\ Len(log) + 1 <= MaxWrites
<1>1. Len(log) \in Nat /\ MaxWrites \in Nat /\ Len(log) < MaxWrites
  BY ArchiveAssumption DEF ShapeInv, Audit, Writes
<1> QED
  BY <1>1 DEF Audit, Entry

\* An entry that is neither an upload nor a purge disturbs nothing.
LEMMA NotingKeeps ==
    ASSUME ArchiveInv, NEW c \in Client \cup {NoClient},
           NEW action \in {"client.create", "client.transition", "note"},
           Audit(c, action, 0), known \subseteq known', UNCHANGED <<evidence, uploads, now>>
    PROVE  /\ log' \in Seq(Entry) /\ Len(log') <= MaxWrites
           /\ RowsInv' /\ LogInv'
<1> DEFINE x == [client |-> c, action |-> action, ref |-> 0]
           n == Len(log)
<1>1. action \in Actions /\ action \notin {"evidence.add", "client.purge"}
  BY DEF Actions
<1>2. x \in Entry /\ log' = Append(log, x) /\ n + 1 <= MaxWrites
  BY <1>1, AuditAppends DEF ArchiveInv
<1>3. /\ log' \in Seq(Entry) /\ n \in Nat /\ Len(log') = n + 1
      /\ \A i \in DOMAIN log : i \in DOMAIN log' /\ log'[i] = log[i]
      /\ \A i \in DOMAIN log' : i \in DOMAIN log \/ i = n + 1
      /\ log'[n + 1] = x
  BY <1>2, AppendedEntry DEF ArchiveInv
<1>4. x.action \notin {"evidence.add", "client.purge"}
  BY <1>1
<1> HIDE DEF x, n
<1>5. \A i \in DOMAIN log' : (Adds(i) \/ \E d : Purges(i, d))' => i \in DOMAIN log
  BY <1>3, <1>4 DEF Adds, Purges
<1>6. RowsInv'
  BY DEF ArchiveInv, RowsInv
<1>7. LogInv'
  <2>1. \A i \in DOMAIN log : /\ Adds(i)' <=> Adds(i)
                              /\ \A d : Purges(i, d)' <=> Purges(i, d)
    BY <1>3 DEF Adds, Purges
  <2>2. \A e \in DOMAIN evidence' : \E i \in DOMAIN log' : Adds(i)' /\ log'[i].ref = e
    BY <1>3, <2>1 DEF ArchiveInv, LogInv
  <2>3. \A i, j \in DOMAIN log' : Adds(i)' /\ Adds(j)' /\ log'[i].ref = log'[j].ref => i = j
    BY <1>3, <1>5, <2>1 DEF ArchiveInv, LogInv
  <2>4. ASSUME NEW i \in DOMAIN log', Adds(i)'
        PROVE  /\ log'[i].ref \in DOMAIN evidence'
               /\ evidence'[log'[i].ref].owner = log'[i].client
               /\ evidence'[log'[i].ref].content =
                     IF \E j \in DOMAIN log' : i < j /\ Purges(j, log[i].client)'
                     THEN Purged ELSE uploads'[log'[i].ref]
    <3>1. i \in DOMAIN log /\ Adds(i) /\ log'[i] = log[i]
      BY <1>3, <1>5, <2>1, <2>4
    <3>2. (\E j \in DOMAIN log' : i < j /\ Purges(j, log[i].client)')
             <=> (\E j \in DOMAIN log : i < j /\ Purges(j, log[i].client))
      <4>1. \A j \in DOMAIN log : Purges(j, log[i].client)' <=> Purges(j, log[i].client)
        BY <1>3, <3>1 DEF Purges
      <4>2. \A j \in DOMAIN log' : Purges(j, log[i].client)' => j \in DOMAIN log
        BY <1>5
      <4> QED
        BY <1>3, <4>1, <4>2
    <3> QED
      BY <3>1, <3>2 DEF ArchiveInv, LogInv
  <2> QED
    BY <2>2, <2>3, <2>4 DEF LogInv
<1> QED
  BY <1>2, <1>3, <1>6, <1>7 DEF n

\* An upload is a row of its own and the newest entry.
LEMMA AddingKeeps ==
    ASSUME ArchiveInv, NEW c \in Client, NEW content \in Content, AddEvidence(c, content)
    PROVE  ArchiveInv'
<1>1. PICK id \in Id \ DOMAIN evidence :
         /\ evidence' = Extended(evidence, id, [owner |-> c, content |-> content, at |-> now])
         /\ uploads' = Extended(uploads, id, content)
         /\ Audit(c, "evidence.add", id)
  BY DEF AddEvidence
<1> DEFINE x == [client |-> c, action |-> "evidence.add", ref |-> id]
           n == Len(log)
           row == [owner |-> c, content |-> content, at |-> now]
<1>2. n \in Nat /\ now \in 0..MaxTime
  BY DEF ArchiveInv, ShapeInv
<1>3. id \in Id /\ id \in Nat /\ id \notin DOMAIN evidence
  BY <1>1, ArchiveAssumption
<1>4. x \in Entry /\ log' = Append(log, x) /\ n + 1 <= MaxWrites
  <2>1. Audit(c, "evidence.add", id) /\ "evidence.add" \in Actions
    BY <1>1 DEF Actions
  <2> QED
    BY <1>3, <2>1, AuditAppends DEF ArchiveInv
<1>5. /\ log' \in Seq(Entry) /\ Len(log') = n + 1
      /\ DOMAIN log = 1..n /\ DOMAIN log' = 1..(n + 1)
      /\ \A i \in DOMAIN log : i \in DOMAIN log' /\ log'[i] = log[i] /\ i < n + 1
      /\ \A i \in DOMAIN log' : i \in DOMAIN log \/ i = n + 1
      /\ log'[n + 1] = x
  BY <1>4, AppendedEntry DEF ArchiveInv
<1>6. x.client = c /\ x.action = "evidence.add" /\ x.ref = id
  OBVIOUS
<1>7. row.owner = c /\ row.content = content /\ row.at = now /\ row \in Row
  BY <1>2 DEF Row
<1>9. /\ DOMAIN evidence' = DOMAIN evidence \cup {id}
      /\ DOMAIN uploads' = DOMAIN uploads \cup {id}
      /\ evidence'[id] = row /\ uploads'[id] = content
      /\ \A e \in DOMAIN evidence : evidence'[e] = evidence[e]
      /\ \A e \in DOMAIN uploads : e # id => uploads'[e] = uploads[e]
  <2>1. /\ evidence' = Extended(evidence, id, row) /\ uploads' = Extended(uploads, id, content)
    BY <1>1
  <2> HIDE DEF row
  <2> QED
    BY <1>3, <2>1 DEF Extended
<1>10. c \in known /\ UNCHANGED <<known, offboarded, deletions, now>>
  BY DEF AddEvidence
<1> HIDE DEF x, n, row
<1>11. ShapeInv'
  BY <1>4, <1>5, <1>10 DEF ArchiveInv, ShapeInv
<1>12. RowsInv'
  <2>1. IsFiniteSet(DOMAIN evidence')
    BY <1>9, FS_AddElement DEF ArchiveInv, RowsInv
  <2>2. DOMAIN uploads' = DOMAIN evidence'
    BY <1>9 DEF ArchiveInv, RowsInv
  <2>3. \A e \in DOMAIN evidence' :
           e \in Id /\ evidence'[e] \in Row /\ evidence'[e].owner \in known'
    BY <1>3, <1>7, <1>9, <1>10 DEF ArchiveInv, RowsInv
  <2> QED
    BY <2>1, <2>2, <2>3 DEF RowsInv
<1>13. LogInv'
  <2>1. /\ \A i \in DOMAIN log : /\ Adds(i)' <=> Adds(i)
                                 /\ \A d : Purges(i, d)' <=> Purges(i, d)
        /\ \A i \in DOMAIN log' : i = n + 1 => Adds(i)' /\ \A d : ~Purges(i, d)'
    BY <1>5, <1>6 DEF Adds, Purges
  <2>2. ASSUME NEW e \in DOMAIN evidence'
        PROVE  \E i \in DOMAIN log' : Adds(i)' /\ log'[i].ref = e
    <3>1. CASE e = id
      <4>1. n + 1 \in DOMAIN log'
        BY <1>2, <1>5
      <4>2. \A i \in DOMAIN log' : i = n + 1 => Adds(i)' /\ log'[i].ref = e
        BY <1>5, <1>6, <2>1, <3>1
      <4> QED
        BY <4>1, <4>2
    <3>2. CASE e \in DOMAIN evidence
      BY <1>5, <2>1, <3>2 DEF ArchiveInv, LogInv
    <3> QED
      BY <1>9, <3>1, <3>2
  <2>3. ASSUME NEW i \in DOMAIN log', NEW j \in DOMAIN log', Adds(i)', Adds(j)',
               log'[i].ref = log'[j].ref
        PROVE  i = j
    <3>1. \A k \in DOMAIN log : Adds(k)' => log'[k].ref \in DOMAIN evidence
      BY <1>5, <2>1 DEF ArchiveInv, LogInv
    <3>2. \A k \in DOMAIN log' : k = n + 1 => log'[k].ref = id
      BY <1>5, <1>6
    <3>3. CASE i \in DOMAIN log /\ j \in DOMAIN log
      BY <1>5, <2>1, <2>3, <3>3 DEF ArchiveInv, LogInv
    <3>4. CASE i = n + 1 \/ j = n + 1
      BY <1>3, <1>5, <2>3, <3>1, <3>2, <3>4
    <3> QED
      BY <1>5, <3>3, <3>4
  <2>4. ASSUME NEW i \in DOMAIN log', Adds(i)'
        PROVE  /\ log'[i].ref \in DOMAIN evidence'
               /\ evidence'[log'[i].ref].owner = log'[i].client
               /\ evidence'[log'[i].ref].content =
                     IF \E j \in DOMAIN log' : i < j /\ Purges(j, log[i].client)'
                     THEN Purged ELSE uploads'[log'[i].ref]
    <3>1. CASE i = n + 1
      <4>1. ~ \E j \in DOMAIN log' : i < j /\ Purges(j, log[i].client)'
        BY <1>2, <1>5, <3>1
      <4>2. log'[i].ref = id /\ log'[i].client = c
        BY <1>5, <1>6, <3>1
      <4> QED
        BY <1>7, <1>9, <4>1, <4>2
    <3>2. CASE i \in DOMAIN log
      <4>1. /\ Adds(i) /\ log'[i] = log[i] /\ log[i].ref \in DOMAIN evidence
            /\ evidence[log[i].ref].owner = log[i].client
            /\ evidence[log[i].ref].content =
                  IF \E j \in DOMAIN log : i < j /\ Purges(j, log[i].client)
                  THEN Purged ELSE uploads[log[i].ref]
        BY <1>5, <2>1, <2>4, <3>2 DEF ArchiveInv, LogInv
      <4>2. (\E j \in DOMAIN log' : i < j /\ Purges(j, log[i].client)')
               <=> (\E j \in DOMAIN log : i < j /\ Purges(j, log[i].client))
        <5>1. \A j \in DOMAIN log : Purges(j, log[i].client)' <=> Purges(j, log[i].client)
          BY <1>5, <4>1 DEF Purges
        <5>2. \A j \in DOMAIN log' : Purges(j, log[i].client)' => j \in DOMAIN log
          BY <1>5, <2>1
        <5> QED
          BY <1>5, <5>1, <5>2
      <4>3. uploads'[log[i].ref] = uploads[log[i].ref]
        BY <1>3, <1>9, <4>1 DEF ArchiveInv, RowsInv
      <4> QED
        BY <1>9, <4>1, <4>2, <4>3
    <3> QED
      BY <1>5, <3>1, <3>2
  <2> QED
    BY <2>2, <2>3, <2>4 DEF LogInv
<1> QED
  BY <1>11, <1>12, <1>13 DEF ArchiveInv

\* A purge empties the rows of its client, and it is the newest entry.
LEMMA PurgingKeeps ==
    ASSUME ArchiveInv, NEW c \in Client, PurgeOffboarded(c)
    PROVE  ArchiveInv'
<1> DEFINE x == [client |-> c, action |-> "client.purge", ref |-> 0]
           n == Len(log)
<1>1. x \in Entry /\ log' = Append(log, x) /\ n + 1 <= MaxWrites
  <2>1. Audit(c, "client.purge", 0) /\ "client.purge" \in Actions
    BY DEF PurgeOffboarded, Actions
  <2> QED
    BY <2>1, AuditAppends DEF ArchiveInv
<1>2. /\ log' \in Seq(Entry) /\ n \in Nat /\ Len(log') = n + 1
      /\ \A i \in DOMAIN log : i \in DOMAIN log' /\ log'[i] = log[i] /\ i < n + 1
      /\ \A i \in DOMAIN log' : i \in DOMAIN log \/ i = n + 1
      /\ log'[n + 1] = x /\ DOMAIN log' = 1..(n + 1)
  BY <1>1, AppendedEntry DEF ArchiveInv
<1>3. x.client = c /\ x.action = "client.purge"
  OBVIOUS
<1>4. /\ DOMAIN evidence' = DOMAIN evidence
      /\ \A e \in DOMAIN evidence :
            evidence'[e] = IF evidence[e].owner = c
                           THEN [evidence[e] EXCEPT !.content = Purged] ELSE evidence[e]
  BY DEF PurgeOffboarded
<1>5. UNCHANGED <<known, offboarded, deletions, now, uploads>>
  BY DEF PurgeOffboarded
<1> HIDE DEF x, n
<1>6. \A e \in DOMAIN evidence :
         /\ evidence'[e] \in Row
         /\ evidence'[e].owner = evidence[e].owner /\ evidence'[e].at = evidence[e].at
         /\ evidence'[e].content = IF evidence[e].owner = c THEN Purged ELSE evidence[e].content
  <2>1. \A e \in DOMAIN evidence : evidence[e] \in Row
    BY DEF ArchiveInv, RowsInv
  <2> QED
    BY <1>4, <2>1 DEF Row
<1>7. ShapeInv'
  BY <1>1, <1>2, <1>5 DEF ArchiveInv, ShapeInv
<1>8. \A i \in DOMAIN log : /\ Adds(i)' <=> Adds(i)
                            /\ \A d : Purges(i, d)' <=> Purges(i, d)
  BY <1>2 DEF Adds, Purges
<1>9. \A i \in DOMAIN log' : i = n + 1 => ~Adds(i)' /\ \A d : Purges(i, d)' <=> d = c
  BY <1>2, <1>3 DEF Adds, Purges
<1>10. RowsInv'
  <2>1. \A e \in DOMAIN evidence' :
           e \in Id /\ evidence'[e] \in Row /\ evidence'[e].owner \in known'
    BY <1>4, <1>5, <1>6 DEF ArchiveInv, RowsInv
  <2> QED
    BY <1>4, <1>5, <2>1 DEF ArchiveInv, RowsInv
<1>11. LogInv'
  <2>1. \A e \in DOMAIN evidence' : \E i \in DOMAIN log' : Adds(i)' /\ log'[i].ref = e
    BY <1>2, <1>4, <1>8 DEF ArchiveInv, LogInv
  <2>2. \A i, j \in DOMAIN log' : Adds(i)' /\ Adds(j)' /\ log'[i].ref = log'[j].ref => i = j
    BY <1>2, <1>8, <1>9 DEF ArchiveInv, LogInv
  <2>3. ASSUME NEW i \in DOMAIN log', Adds(i)'
        PROVE  /\ log'[i].ref \in DOMAIN evidence'
               /\ evidence'[log'[i].ref].owner = log'[i].client
               /\ evidence'[log'[i].ref].content =
                     IF \E j \in DOMAIN log' : i < j /\ Purges(j, log[i].client)'
                     THEN Purged ELSE uploads'[log'[i].ref]
    <3>1. i \in DOMAIN log /\ Adds(i) /\ log'[i] = log[i] /\ i < n + 1
      BY <1>2, <1>8, <1>9, <2>3
    <3>2. /\ log[i].ref \in DOMAIN evidence
          /\ evidence[log[i].ref].owner = log[i].client
          /\ evidence[log[i].ref].content =
                IF \E j \in DOMAIN log : i < j /\ Purges(j, log[i].client)
                THEN Purged ELSE uploads[log[i].ref]
      BY <3>1 DEF ArchiveInv, LogInv
    <3>3. CASE log[i].client = c
      <4>1. n + 1 \in DOMAIN log'
        BY <1>2
      <4>2. \E j \in DOMAIN log' : i < j /\ Purges(j, log[i].client)'
        BY <1>9, <3>1, <3>3, <4>1
      <4> QED
        BY <1>4, <1>6, <3>1, <3>2, <3>3, <4>2
    <3>4. CASE log[i].client # c
      <4>1. \A j \in DOMAIN log : Purges(j, log[i].client)' <=> Purges(j, log[i].client)
        BY <1>2, <3>1 DEF Purges
      <4>2. \A j \in DOMAIN log' : Purges(j, log[i].client)' => j \in DOMAIN log
        BY <1>2, <1>9, <3>1, <3>4
      <4>3. (\E j \in DOMAIN log' : i < j /\ Purges(j, log[i].client)')
               <=> (\E j \in DOMAIN log : i < j /\ Purges(j, log[i].client))
        BY <1>2, <4>1, <4>2
      <4> QED
        BY <1>4, <1>5, <1>6, <3>1, <3>2, <3>4, <4>3
    <3> QED
      BY <3>3, <3>4
  <2> QED
    BY <2>1, <2>2, <2>3 DEF LogInv
<1> QED
  BY <1>7, <1>10, <1>11 DEF ArchiveInv

-----------------------------------------------------------------------------
LEMMA ArchiveInitially == Init => ArchiveInv
<1> SUFFICES ASSUME Init PROVE ArchiveInv
  OBVIOUS
<1>1. ShapeInv
  BY ArchiveAssumption DEF Init, ShapeInv
<1>2. DOMAIN evidence = {} /\ DOMAIN uploads = {} /\ DOMAIN log = {} /\ Len(log) = 0
  BY DEF Init, NoRows
<1>3. IsFiniteSet(DOMAIN evidence)
  BY <1>2, FS_EmptySet
<1>4. RowsInv
  BY <1>2, <1>3 DEF RowsInv
<1>5. LogInv
  BY <1>2 DEF LogInv
<1> QED
  BY <1>1, <1>4, <1>5 DEF ArchiveInv

LEMMA ArchiveStep == ArchiveInv /\ [Next]_vars => ArchiveInv'
<1> SUFFICES ASSUME ArchiveInv, [Next]_vars PROVE ArchiveInv'
  OBVIOUS
<1> USE DEF rows, vars
<1>1. ASSUME NEW c \in Client, CreateDraftClient(c) PROVE ArchiveInv'
  <2>1. /\ Audit(c, "client.create", 0) /\ known' = known \cup {c}
        /\ UNCHANGED <<offboarded, evidence, deletions, now, uploads>>
    BY <1>1 DEF CreateDraftClient
  <2>2. known \subseteq known'
    BY <2>1
  <2>3. log' \in Seq(Entry) /\ Len(log') <= MaxWrites /\ RowsInv' /\ LogInv'
    BY <2>1, <2>2, NotingKeeps
  <2> QED
    BY <2>1, <2>3 DEF ArchiveInv, ShapeInv
<1>2. ASSUME NEW c \in Client, Offboard(c) PROVE ArchiveInv'
  <2>1. /\ Audit(c, "client.transition", 0) /\ c \in known
        /\ offboarded' = offboarded \cup {c}
        /\ UNCHANGED <<known, evidence, deletions, now, uploads>>
    BY <1>2 DEF Offboard
  <2>2. log' \in Seq(Entry) /\ Len(log') <= MaxWrites /\ RowsInv' /\ LogInv'
    BY <2>1, NotingKeeps
  <2> QED
    BY <2>1, <2>2 DEF ArchiveInv, ShapeInv
<1>3. ASSUME NEW c \in Client, PurgeOffboarded(c) PROVE ArchiveInv'
  BY <1>3, PurgingKeeps
<1>4. ASSUME NEW c \in Client, NEW content \in Content, AddEvidence(c, content)
      PROVE  ArchiveInv'
  BY <1>4, AddingKeeps
<1>5. ASSUME NEW c \in Client, NEW s \in Session, LogDeletionRequest(c, s) PROVE ArchiveInv'
  <2>1. deletions[c] \in Seq(Session) /\ deletions' = [deletions EXCEPT ![c] = Append(@, s)]
    BY <1>5 DEF ArchiveInv, ShapeInv, LogDeletionRequest
  <2>2. deletions' \in [Client -> Seq(Session)]
    <3>1. Append(deletions[c], s) \in Seq(Session)
      BY <2>1
    <3> QED
      BY <2>1, <3>1 DEF ArchiveInv, ShapeInv
  <2>3. UNCHANGED <<known, offboarded, evidence, log, now, uploads>>
    BY <1>5 DEF LogDeletionRequest
  <2>4. RowsInv' /\ LogInv'
    BY <2>3 DEF ArchiveInv, RowsInv, LogInv, Adds, Purges
  <2> QED
    BY <2>2, <2>3, <2>4 DEF ArchiveInv, ShapeInv
<1>6. ASSUME NEW c \in Client \cup {NoClient}, AppendAudit(c) PROVE ArchiveInv'
  <2>1. Audit(c, "note", 0) /\ UNCHANGED <<known, offboarded, evidence, deletions, now, uploads>>
    BY <1>6 DEF AppendAudit
  <2>2. log' \in Seq(Entry) /\ Len(log') <= MaxWrites /\ RowsInv' /\ LogInv'
    BY <2>1, NotingKeeps
  <2> QED
    BY <2>1, <2>2 DEF ArchiveInv, ShapeInv
<1>7. ASSUME Tick PROVE ArchiveInv'
  BY <1>7 DEF Tick, ArchiveInv, ShapeInv, RowsInv, LogInv, Adds, Purges
<1>8. ASSUME UNCHANGED vars PROVE ArchiveInv'
  BY <1>8 DEF ArchiveInv, ShapeInv, RowsInv, LogInv, Adds, Purges
<1> QED
  BY <1>1, <1>2, <1>3, <1>4, <1>5, <1>6, <1>7, <1>8 DEF Next

LEMMA ArchiveHolds == Spec => []ArchiveInv
BY ArchiveInitially, ArchiveStep, PTL DEF Spec

-----------------------------------------------------------------------------
\* The archive keeps its types: a row belongs to a client that exists.
THEOREM TypeCorrect == Spec => []TypeOK
<1>1. ArchiveInv => TypeOK
  <2> SUFFICES ASSUME ArchiveInv PROVE TypeOK
    OBVIOUS
  <2>1. DOMAIN evidence \subseteq Id
    BY DEF ArchiveInv, RowsInv
  <2>3. \A e \in DOMAIN evidence :
           /\ evidence[e].owner \in known
           /\ evidence[e].content \in Content \cup {Purged}
           /\ evidence[e].at \in 0..MaxTime
    BY DEF ArchiveInv, RowsInv, Row
  <2>4. \A i \in DOMAIN log : log[i].client \in Client \cup {NoClient}
    <3>1. \A i \in DOMAIN log : log[i] \in Entry
      BY DEF ArchiveInv, ShapeInv
    <3> QED
      BY <3>1 DEF Entry
  <2> QED
    BY <2>1, <2>3, <2>4 DEF TypeOK, ArchiveInv, ShapeInv
<1> QED
  BY <1>1, ArchiveHolds, PTL

\* What evidence answers is what is due: fake.go:673-684 and 756-779.
THEOREM ContentIsWhatIsDue == Spec => []ContentIsDue
<1>1. ArchiveInv => ContentIsDue
  <2> SUFFICES ASSUME ArchiveInv, NEW c \in Client, NEW e \in DOMAIN uploads
               PROVE  LET added == {i \in DOMAIN log : log[i] = [client |-> c,
                                       action |-> "evidence.add", ref |-> e]}
                          gone  == {i \in DOMAIN log : /\ log[i].client = c
                                                       /\ log[i].action = "client.purge"}
                      IN  GetEvidenceContent(c, e) =
                            IF added = {} THEN <<>>
                            ELSE IF \E i \in added, j \in gone : i < j THEN <<Purged>>
                            ELSE <<uploads[e]>>
    BY DEF ContentIsDue
  <2> DEFINE added == {i \in DOMAIN log : log[i] = [client |-> c,
                          action |-> "evidence.add", ref |-> e]}
             gone  == {i \in DOMAIN log : log[i].client = c /\ log[i].action = "client.purge"}
  <2>1. \A i \in DOMAIN log : log[i] \in Entry
    BY DEF ArchiveInv, ShapeInv
  <2>2. \A i \in DOMAIN log : i \in added <=> Adds(i) /\ log[i].client = c /\ log[i].ref = e
    BY <2>1 DEF Entry, Adds
  <2>3. \A j \in DOMAIN log : j \in gone <=> Purges(j, c)
    BY DEF Purges
  <2>4. added \subseteq DOMAIN log /\ gone \subseteq DOMAIN log /\ DOMAIN log \subseteq Int
    BY DEF ArchiveInv, ShapeInv
  <2>5. e \in DOMAIN evidence
    BY DEF ArchiveInv, RowsInv
  <2>6. PICK i \in DOMAIN log : Adds(i) /\ log[i].ref = e
    BY <2>5 DEF ArchiveInv, LogInv
  <2>7. \A j \in DOMAIN log : Adds(j) /\ log[j].ref = e => j = i
    BY <2>6 DEF ArchiveInv, LogInv
  <2>8. /\ evidence[e].owner = log[i].client
        /\ evidence[e].content = IF \E j \in DOMAIN log : i < j /\ Purges(j, log[i].client)
                                 THEN Purged ELSE uploads[e]
    BY <2>6 DEF ArchiveInv, LogInv
  <2> HIDE DEF added, gone
  <2>9. CASE log[i].client = c
    <3>1. added = {i}
      BY <2>2, <2>4, <2>6, <2>7, <2>9
    <3>2. (\E k \in added, j \in gone : k < j)
             <=> \E j \in DOMAIN log : i < j /\ Purges(j, log[i].client)
      BY <2>3, <2>4, <2>9, <3>1
    <3>3. GetEvidenceContent(c, e) = <<evidence[e].content>>
      BY <2>5, <2>8, <2>9 DEF GetEvidenceContent, Owned
    <3>4. added # {}
      BY <3>1
    <3> QED
      BY <2>8, <3>2, <3>3, <3>4 DEF added, gone
  <2>10. CASE log[i].client # c
    <3>1. added = {}
      BY <2>2, <2>4, <2>7, <2>10
    <3>2. GetEvidenceContent(c, e) = <<>>
      BY <2>8, <2>10 DEF GetEvidenceContent, Owned
    <3> QED
      BY <3>1, <3>2 DEF added
  <2> QED
    BY <2>9, <2>10
<1> QED
  BY <1>1, ArchiveHolds, PTL

-----------------------------------------------------------------------------
\* In a strict total order, given as a set of pairs, the k-th element has k that
\* are not behind it: listing by that number lists every element, in order.
TotalOrder(S, R) ==
    /\ \A d \in S : <<d, d>> \notin R
    /\ \A d, e \in S : d = e \/ <<d, e>> \in R \/ <<e, d>> \in R
    /\ \A d, e, f \in S : <<d, e>> \in R /\ <<e, f>> \in R => <<d, f>> \in R

NotBehind(S, R, e) == {d \in S : d = e \/ <<d, e>> \in R}

Ranked(S, R) ==
    [k \in 1..Cardinality(S) |-> CHOOSE e \in S : Cardinality(NotBehind(S, R, e)) = k]

LEMMA OrderIsCounted ==
    ASSUME NEW S, IsFiniteSet(S), NEW R, TotalOrder(S, R)
    PROVE  /\ \A e \in S : Cardinality(NotBehind(S, R, e)) \in 1..Cardinality(S)
           /\ \A d, e \in S : <<d, e>> \in R =>
                 Cardinality(NotBehind(S, R, d)) < Cardinality(NotBehind(S, R, e))
<1>1. Cardinality(S) \in Nat
  BY FS_CardinalityType
<1>2. ASSUME NEW e \in S
      PROVE  /\ IsFiniteSet(NotBehind(S, R, e))
             /\ Cardinality(NotBehind(S, R, e)) \in 1..Cardinality(S)
  <2>1. NotBehind(S, R, e) \in SUBSET S /\ NotBehind(S, R, e) # {}
    BY DEF NotBehind
  <2>2. /\ IsFiniteSet(NotBehind(S, R, e))
        /\ Cardinality(NotBehind(S, R, e)) <= Cardinality(S)
    BY <2>1, FS_Subset
  <2>3. Cardinality(NotBehind(S, R, e)) \in Nat /\ Cardinality(NotBehind(S, R, e)) # 0
    BY <2>1, <2>2, FS_CardinalityType, FS_EmptySet
  <2> QED
    BY <1>1, <2>2, <2>3
<1>3. ASSUME NEW d \in S, NEW e \in S, <<d, e>> \in R
      PROVE  Cardinality(NotBehind(S, R, d)) < Cardinality(NotBehind(S, R, e))
  <2>1. NotBehind(S, R, d) \in SUBSET NotBehind(S, R, e)
    BY <1>3 DEF NotBehind, TotalOrder
  <2>2. e \in NotBehind(S, R, e) /\ e \notin NotBehind(S, R, d)
    BY <1>3 DEF NotBehind, TotalOrder
  <2>3. IsFiniteSet(NotBehind(S, R, e))
    BY <1>2
  <2>4. /\ Cardinality(NotBehind(S, R, d)) <= Cardinality(NotBehind(S, R, e))
        /\ Cardinality(NotBehind(S, R, d)) # Cardinality(NotBehind(S, R, e))
    BY <2>1, <2>2, <2>3, FS_Subset
  <2>5. /\ Cardinality(NotBehind(S, R, d)) \in 1..Cardinality(S)
        /\ Cardinality(NotBehind(S, R, e)) \in 1..Cardinality(S)
    BY <1>2
  <2> QED
    BY <1>1, <2>4, <2>5
<1> QED
  BY <1>2, <1>3

LEMMA OrderIsListed ==
    ASSUME NEW S, IsFiniteSet(S), NEW R, TotalOrder(S, R)
    PROVE  LET list == Ranked(S, R)
           IN  /\ DOMAIN list = 1..Cardinality(S) /\ Cardinality(S) \in Nat
               /\ \A k \in DOMAIN list : list[k] \in S
               /\ \A e \in S : \E k \in DOMAIN list : list[k] = e
               /\ \A j, k \in DOMAIN list : <<list[j], list[k]>> \in R <=> j < k
<1> DEFINE list == Ranked(S, R)
           m == Cardinality(S)
           f == [e \in S |-> Cardinality(NotBehind(S, R, e))]
<1>1. m \in Nat /\ IsFiniteSet(1..m) /\ Cardinality(1..m) = m
  BY FS_CardinalityType, FS_Interval
<1>2. /\ \A e \in S : f[e] \in 1..m
      /\ \A d, e \in S : <<d, e>> \in R => f[d] < f[e]
  BY OrderIsCounted
<1>3. f \in [S -> 1..m]
  BY <1>2
<1>4. \A k \in 1..m : list[k] = CHOOSE e \in S : f[e] = k
  <2>1. \A k \in 1..m : (CHOOSE e \in S : f[e] = k)
                         = CHOOSE e \in S : Cardinality(NotBehind(S, R, e)) = k
    OBVIOUS
  <2> QED
    BY <2>1 DEF Ranked
<1>5. DOMAIN list = 1..m
  BY DEF Ranked
<1> HIDE DEF f, m, list
<1>6. \A d, e \in S : f[d] = f[e] => d = e
  <2>1. \A d, e \in S : <<d, e>> \in R => f[d] # f[e]
    BY <1>1, <1>2
  <2>2. \A d, e \in S : d = e \/ <<d, e>> \in R \/ <<e, d>> \in R
    BY DEF TotalOrder
  <2> QED
    BY <2>1, <2>2
<1>7. f \in Injection(S, 1..m)
  BY <1>3, <1>6 DEF Injection, IsInjective
<1>8. f \in Surjection(S, 1..m)
  BY <1>1, <1>7, FS_Injection DEF m
<1>9. \A k \in 1..m : list[k] \in S /\ f[list[k]] = k
  BY <1>4, <1>8 DEF Surjection
<1>10. \A e \in S : f[e] \in 1..m /\ list[f[e]] = e
  BY <1>2, <1>6, <1>9
<1>11. \A j, k \in 1..m : <<list[j], list[k]>> \in R <=> j < k
  <2> TAKE j, k \in 1..m
  <2>1. list[j] \in S /\ list[k] \in S /\ f[list[j]] = j /\ f[list[k]] = k
    BY <1>9
  <2>2. <<list[j], list[k]>> \in R => j < k
    BY <1>2, <2>1
  <2>3. <<list[k], list[j]>> \in R => k < j
    BY <1>2, <2>1
  <2>4. list[j] = list[k] => j = k
    BY <2>1
  <2>5. j \in Int /\ k \in Int
    BY <1>1
  <2>6. <<list[j], list[k]>> \in R \/ <<list[k], list[j]>> \in R \/ list[j] = list[k]
    BY <2>1 DEF TotalOrder
  <2> QED
    BY <2>2, <2>3, <2>4, <2>5, <2>6
<1>12. \A e \in S : \E k \in DOMAIN list : list[k] = e
  BY <1>5, <1>10
<1> QED
  BY <1>1, <1>5, <1>9, <1>11, <1>12 DEF m, list

\* The list of a client: its rows, each once, as time and id order them.
Before(c) == {p \in Owned(c) \X Owned(c) : Earlier(p[1], p[2])}

Listed(c) ==
    /\ DOMAIN ListEvidence(c) = 1..Cardinality(Owned(c))
    /\ Len(ListEvidence(c)) = Cardinality(Owned(c))
    /\ \A k \in DOMAIN ListEvidence(c) : ListEvidence(c)[k] \in Owned(c)
    /\ \A e \in Owned(c) : \E k \in DOMAIN ListEvidence(c) : ListEvidence(c)[k] = e
    /\ \A j, k \in DOMAIN ListEvidence(c) :
          <<ListEvidence(c)[j], ListEvidence(c)[k]>> \in Before(c) <=> j < k
    /\ Owned(c) = Uploaded(c)

LEMMA ListIsOrdered ==
    ASSUME ArchiveInv, NEW c \in Client
    PROVE  Listed(c)
<1> DEFINE S == Owned(c)
           R == Before(c)
           list == ListEvidence(c)
<1>1. S \subseteq DOMAIN evidence /\ IsFiniteSet(S)
  <2>1. S \in SUBSET DOMAIN evidence
    BY DEF Owned
  <2> QED
    BY <2>1, FS_Subset DEF ArchiveInv, RowsInv
<1>2. \A d, e \in S : <<d, e>> \in R <=> Earlier(d, e)
  BY DEF Before
<1>3. \A e \in S : e \in Int /\ evidence[e].at \in Int
  <2>1. \A e \in S : e \in Id /\ evidence[e].at \in 0..MaxTime
    BY <1>1 DEF ArchiveInv, RowsInv, Row
  <2> HIDE DEF S
  <2>2. Id \subseteq Int /\ 0..MaxTime \subseteq Int
    BY ArchiveAssumption
  <2> QED
    BY <2>1, <2>2
<1> HIDE DEF S, R
<1>4. TotalOrder(S, R)
  <2>1. \A d \in S : ~Earlier(d, d)
    BY <1>3 DEF Earlier
  <2>2. \A d, e \in S : d = e \/ Earlier(d, e) \/ Earlier(e, d)
    BY <1>3 DEF Earlier
  <2>3. \A d, e, f \in S : Earlier(d, e) /\ Earlier(e, f) => Earlier(d, f)
    BY <1>3 DEF Earlier
  <2> HIDE DEF Earlier
  <2> QED
    BY <1>2, <2>1, <2>2, <2>3 DEF TotalOrder
<1>5. list = Ranked(S, R)
  <2>1. \A e \in S : NotBehind(S, R, e) = {d \in S : d = e \/ Earlier(d, e)}
    BY <1>2 DEF NotBehind
  <2>2. \A k \in 1..Cardinality(S) :
           (CHOOSE e \in S : Cardinality(NotBehind(S, R, e)) = k)
             = CHOOSE e \in S : Cardinality({d \in S : d = e \/ Earlier(d, e)}) = k
    BY <2>1
  <2> QED
    BY <2>2 DEF ListEvidence, Ranked, S
<1> HIDE DEF list
<1>6. /\ DOMAIN list = 1..Cardinality(S) /\ Cardinality(S) \in Nat
      /\ \A k \in DOMAIN list : list[k] \in S
      /\ \A e \in S : \E k \in DOMAIN list : list[k] = e
      /\ \A j, k \in DOMAIN list : <<list[j], list[k]>> \in R <=> j < k
  <2>1. LET l == Ranked(S, R)
        IN  /\ DOMAIN l = 1..Cardinality(S) /\ Cardinality(S) \in Nat
            /\ \A k \in DOMAIN l : l[k] \in S
            /\ \A e \in S : \E k \in DOMAIN l : l[k] = e
            /\ \A j, k \in DOMAIN l : <<l[j], l[k]>> \in R <=> j < k
    BY <1>1, <1>4, OrderIsListed
  <2> QED
    BY <1>5, <2>1
<1>7. Len(list) = Cardinality(S)
  <2>1. list = [k \in 1..Cardinality(S) |-> list[k]] /\ list \in Seq(S)
    BY <1>5, <1>6 DEF Ranked
  <2> QED
    BY <1>6, <2>1
<1>8. S = Uploaded(c)
  <2>1. \A e \in S : e \in Uploaded(c)
    BY DEF S, Owned, Uploaded, Adds, ArchiveInv, LogInv
  <2>2. \A e \in Uploaded(c) : e \in S
    BY DEF S, Owned, Uploaded, Adds, ArchiveInv, LogInv
  <2> QED
    BY <2>1, <2>2
<1> QED
  BY <1>6, <1>7, <1>8 DEF Listed, S, R, list

\* Nothing changes the owner of a row or the time of its upload.
LEMMA RowsStay ==
    ASSUME ArchiveInv, [Next]_vars, NEW e \in DOMAIN evidence
    PROVE  /\ e \in DOMAIN evidence' /\ evidence'[e].owner = evidence[e].owner
           /\ evidence'[e].at = evidence[e].at
<1> USE DEF rows, vars
<1>1. ASSUME NEW c \in Client, NEW content \in Content, AddEvidence(c, content)
      PROVE  e \in DOMAIN evidence' /\ evidence'[e] = evidence[e]
  BY <1>1 DEF AddEvidence, Extended
<1>2. ASSUME NEW c \in Client, PurgeOffboarded(c)
      PROVE  /\ e \in DOMAIN evidence' /\ evidence'[e].owner = evidence[e].owner
             /\ evidence'[e].at = evidence[e].at
  <2>1. evidence[e] \in Row
    BY DEF ArchiveInv, RowsInv
  <2>2. /\ e \in DOMAIN evidence'
        /\ evidence'[e] = IF evidence[e].owner = c
                          THEN [evidence[e] EXCEPT !.content = Purged] ELSE evidence[e]
    BY <1>2 DEF PurgeOffboarded
  <2> QED
    BY <2>1, <2>2 DEF Row
<1>3. ASSUME NEW c \in Client,
             \/ CreateDraftClient(c) \/ Offboard(c)
             \/ \E s \in Session : LogDeletionRequest(c, s)
      PROVE  evidence' = evidence
  BY <1>3 DEF CreateDraftClient, Offboard, LogDeletionRequest
<1>4. ASSUME (\E c \in Client \cup {NoClient} : AppendAudit(c)) \/ Tick \/ UNCHANGED vars
      PROVE  evidence' = evidence
  BY <1>4 DEF AppendAudit, Tick
<1> QED
  BY <1>1, <1>2, <1>3, <1>4 DEF Next

\* A step keeps what is listed and the order it is listed in.
LEMMA ListsStay ==
    ASSUME ArchiveInv, ArchiveInv', [Next]_vars, NEW c \in Client, Listed(c), Listed(c)'
    PROVE  StaysListed(c)
<1> DEFINE old == ListEvidence(c)
           new == ListEvidence(c)'
<1>1. /\ DOMAIN new = 1..Cardinality(Owned(c)') /\ Len(new) = Cardinality(Owned(c)')
      /\ \A k \in DOMAIN new : new[k] \in Owned(c)'
      /\ \A e \in Owned(c)' : \E k \in DOMAIN new : new[k] = e
      /\ \A j, k \in DOMAIN new : <<new[j], new[k]>> \in Before(c)' <=> j < k
      /\ Owned(c)' = Uploaded(c)'
  BY DEF Listed
<1>2. /\ \A k \in DOMAIN old : old[k] \in Owned(c)
      /\ \A j, k \in DOMAIN old : <<old[j], old[k]>> \in Before(c) <=> j < k
  BY DEF Listed
<1>3. \A e \in Owned(c) : /\ e \in Owned(c)' /\ e \in DOMAIN evidence
                          /\ evidence'[e].at = evidence[e].at
  BY RowsStay DEF Owned
<1>4. \A d, e \in Owned(c)' : <<d, e>> \in Before(c)' => evidence'[d].at <= evidence'[e].at
  <2>1. \A e \in Owned(c)' : evidence'[e].at \in Int
    BY DEF Owned, ArchiveInv, RowsInv, Row
  <2> QED
    BY <2>1 DEF Before, Earlier
<1>5. \A d, e \in Owned(c) : <<d, e>> \in Before(c) => <<d, e>> \in Before(c)'
  BY <1>3 DEF Before, Earlier
<1> HIDE DEF old, new
<1>6. Seqs!ToSet(new) = Uploaded(c)' /\ Len(new) = Cardinality(Uploaded(c)')
  <2>1. Seqs!ToSet(new) = {new[k] : k \in DOMAIN new}
    BY DEF Seqs!ToSet
  <2> QED
    BY <1>1, <2>1
<1>7. \A j, k \in DOMAIN new : j < k => evidence'[new[j]].at <= evidence'[new[k]].at
  BY <1>1, <1>4
<1>8. ASSUME NEW j \in DOMAIN old, NEW k \in DOMAIN old, j < k
      PROVE  \E m, n \in DOMAIN new : m < n /\ new[m] = old[j] /\ new[n] = old[k]
  <2>1. <<old[j], old[k]>> \in Before(c)' /\ old[j] \in Owned(c)' /\ old[k] \in Owned(c)'
    BY <1>2, <1>3, <1>5, <1>8
  <2>2. PICK m \in DOMAIN new, n \in DOMAIN new : new[m] = old[j] /\ new[n] = old[k]
    BY <1>1, <2>1
  <2> QED
    BY <1>1, <2>1, <2>2
<1> QED
  BY <1>6, <1>7, <1>8 DEF StaysListed, old, new

\* A client's list is only added to, by what the trail says was uploaded, and
\* keeps its order whatever the clock and the ids do: repo.go:615, fake.go:661.
THEOREM UploadsStayListed == Spec => EvidenceStaysListed
<1>1. ArchiveInv => \A c \in Client : Listed(c)
  BY ListIsOrdered
<1>2. /\ ArchiveInv /\ ArchiveInv' /\ [Next]_vars
      /\ (\A c \in Client : Listed(c)) /\ (\A c \in Client : Listed(c))'
      => [\A c \in Client : StaysListed(c)]_vars
  BY ListsStay
<1> QED
  BY <1>1, <1>2, ArchiveHolds, PTL DEF Spec, EvidenceStaysListed

-----------------------------------------------------------------------------
\* How many entries a page has, and which.
LEMMA PageOfList ==
    ASSUME NEW T, NEW list \in Seq(T), NEW n \in Int
    PROVE  LET page == Newest(list, n)
           IN  /\ page \in Seq(T)
               /\ Len(page) = IF n < 0 THEN 0 ELSE IF n < Len(list) THEN n ELSE Len(list)
               /\ DOMAIN page = 1..Len(page)
               /\ \A k \in DOMAIN page : /\ page[k] = list[Len(list) + 1 - k]
                                         /\ k \in 1..Len(list) /\ k <= n
<1> DEFINE size == IF n < 0 THEN 0 ELSE IF n < Len(list) THEN n ELSE Len(list)
<1>1. Len(list) \in Nat /\ \A i \in 1..Len(list) : list[i] \in T
  OBVIOUS
<1>2. size \in Nat /\ size <= Len(list) /\ (size = 0 \/ size <= n)
  BY <1>1
<1>3. 1..(IF Len(list) < n THEN Len(list) ELSE n) = 1..size
  BY <1>1
<1> HIDE DEF size
<1>4. Newest(list, n) = [k \in 1..size |-> list[Len(list) + 1 - k]]
  BY <1>3 DEF Newest
<1>5. \A k \in 1..size : k \in 1..Len(list) /\ k <= n /\ Len(list) + 1 - k \in 1..Len(list)
  BY <1>1, <1>2
<1>6. Newest(list, n) \in Seq(T) /\ Len(Newest(list, n)) = size
  BY <1>1, <1>2, <1>4, <1>5
<1>7. DOMAIN Newest(list, n) = 1..size
  BY <1>4
<1> QED
  BY <1>4, <1>5, <1>6, <1>7 DEF size

\* Counted from the other end.
LEMMA RankFromBehind ==
    ASSUME NEW S \in SUBSET Int, IsFiniteSet(S), NEW x \in S
    PROVE  Cardinality({y \in S : y >= x}) = Cardinality(S) + 1 - Rank(S, x)
<1> DEFINE low == {y \in S : y <= x}
           high == {y \in S : y > x}
           behind == {y \in S : y >= x}
<1>0. x \in Int /\ \A y \in S : y \in Int
  OBVIOUS
<1>1. low \in SUBSET Int /\ high \in SUBSET Int
  OBVIOUS
<1>2. IsFiniteSet(low) /\ IsFiniteSet(high)
  BY FS_Subset
<1>3. \A a \in low, b \in high : a < b
  BY <1>0
<1>4. low \cup high = S
  <2>1. \A y \in S : y \in low \/ y \in high
    BY <1>0
  <2> QED
    BY <2>1
<1>5. Cardinality(S) = Cardinality(low) + Cardinality(high)
  <2> HIDE DEF low, high
  <2> QED
    BY <1>1, <1>2, <1>3, <1>4, NthOfParts
<1>6. Cardinality(low) = Rank(S, x)
  BY DEF Rank
<1>7. x \notin high /\ behind = high \cup {x}
  <2>1. \A y \in S : y \in behind <=> (y \in high \/ y = x)
    BY <1>0
  <2>2. x \notin high /\ behind \subseteq S /\ high \subseteq S
    BY <1>0
  <2> HIDE DEF high, behind
  <2> QED
    BY <2>1, <2>2
<1>8. Cardinality(high \cup {x}) = Cardinality(high) + 1
  BY <1>2, <1>7, FS_AddElement
<1>9. Cardinality(low) \in Nat /\ Cardinality(high) \in Nat
  BY <1>2, FS_CardinalityType
<1> HIDE DEF low, high, behind
<1>10. Cardinality(behind) = Cardinality(S) + 1 - Rank(S, x)
  BY <1>5, <1>6, <1>7, <1>8, <1>9
<1> QED
  BY <1>10 DEF behind

LEMMA SubSeqFromOne ==
    ASSUME NEW T, NEW q \in Seq(T), NEW k \in Nat, k <= Len(q)
    PROVE  SubSeq(q, 1, k) = [i \in 1..k |-> q[i]]
OBVIOUS

\* A page is the newest entries of its client, whatever the limit; a shorter
\* one begins a longer one.
LEMMA EveryPage ==
    ASSUME ArchiveInv, NEW c \in Client \cup {NoClient}, NEW n \in Int
    PROVE  IsPage(c, n)
<1> DEFINE all == {i \in DOMAIN log : log[i].client = c}
           list == Picked(log, all)
           page == ListAuditEntries(c, n)
           m == Cardinality(all)
<1>1. log \in Seq(Entry) /\ Len(log) \in Nat /\ DOMAIN log = 1..Len(log)
  BY DEF ArchiveInv, ShapeInv
<1>2. all \in SUBSET DOMAIN log /\ all \in SUBSET Int /\ IsFiniteSet(all) /\ m \in Nat
  BY <1>1, PlacesAreFinite
<1>3. page = Newest(list, n)
  BY DEF ListAuditEntries, Concerns
<1> HIDE DEF all, page
<1>4. list \in Seq(Entry) /\ Len(list) = m
  BY <1>1, <1>2, PickedIsList
<1>5. \A k \in 1..m : list[k] = log[Nth(all, k)] /\ Nth(all, k) \in all
  <2>1. all \in SUBSET (1..Len(log))
    BY <1>1, <1>2
  <2> QED
    BY <1>1, <2>1, PickedEntries
<1> HIDE DEF list
<1>6. /\ Len(page) = IF n < 0 THEN 0 ELSE IF n < m THEN n ELSE m
      /\ \A k \in DOMAIN page : page[k] = list[m + 1 - k] /\ k \in 1..m
  BY <1>3, <1>4, PageOfList
<1>7. \A k \in DOMAIN page :
         LET at == CHOOSE i \in all : Cardinality({j \in all : j >= i}) = k
         IN  page[k] = log[at]
  <2> TAKE k \in DOMAIN page
  <2> DEFINE Behind(i) == {j \in all : j >= i}
             at == CHOOSE i \in all : Cardinality(Behind(i)) = k
  <2>1. k \in 1..m /\ m + 1 - k \in 1..m /\ page[k] = list[m + 1 - k]
    BY <1>2, <1>6
  <2>2. \A i \in all : Cardinality(Behind(i)) = m + 1 - Rank(all, i) /\ Rank(all, i) \in 1..m
    BY <1>2, RankFromBehind, RanksAscend
  <2>3. Nth(all, m + 1 - k) \in all /\ Rank(all, Nth(all, m + 1 - k)) = m + 1 - k
    BY <1>2, <2>1, NthIsInverse
  <2> HIDE DEF Behind
  <2>4. Cardinality(Behind(Nth(all, m + 1 - k))) = k
    BY <1>2, <2>1, <2>2, <2>3
  <2>5. at \in all /\ Cardinality(Behind(at)) = k
    BY <2>3, <2>4
  <2> HIDE DEF at
  <2>6. Rank(all, at) = m + 1 - k
    BY <1>2, <2>1, <2>2, <2>5
  <2>7. Nth(all, m + 1 - k) = at
    BY <1>2, <2>5, <2>6, NthHasRank
  <2>8. page[k] = log[at]
    BY <1>5, <2>1, <2>7
  <2> QED
    BY <2>8 DEF at, Behind
<1>8. ASSUME c # NoClient
      PROVE  Seqs!IsPrefix(ListDeletionRequests(c, n), ListDeletionRequests(c, n + 1))
  <2> DEFINE s == Newest(deletions[c], n)
             t == Newest(deletions[c], n + 1)
  <2>1. deletions[c] \in Seq(Session)
    BY <1>8 DEF ArchiveInv, ShapeInv
  <2>2. /\ s \in Seq(Session) /\ t \in Seq(Session) /\ Len(s) \in Nat /\ Len(t) \in Nat
        /\ Len(s) <= Len(t)
        /\ \A k \in 1..Len(s) : s[k] = t[k]
    <3>1. Len(deletions[c]) \in Nat /\ n + 1 \in Int
      BY <2>1
    <3>2. /\ s \in Seq(Session) /\ DOMAIN s = 1..Len(s)
          /\ Len(s) = IF n < 0 THEN 0 ELSE IF n < Len(deletions[c]) THEN n
                                          ELSE Len(deletions[c])
          /\ \A k \in DOMAIN s : s[k] = deletions[c][Len(deletions[c]) + 1 - k]
      BY <2>1, PageOfList
    <3>3. /\ t \in Seq(Session) /\ DOMAIN t = 1..Len(t)
          /\ Len(t) = IF n + 1 < 0 THEN 0 ELSE IF n + 1 < Len(deletions[c]) THEN n + 1
                                              ELSE Len(deletions[c])
          /\ \A k \in DOMAIN t : t[k] = deletions[c][Len(deletions[c]) + 1 - k]
      BY <2>1, <3>1, PageOfList
    <3> HIDE DEF s, t
    <3>4. Len(s) \in Nat /\ Len(t) \in Nat /\ Len(s) <= Len(t)
      BY <3>1, <3>2, <3>3
    <3> QED
      BY <3>2, <3>3, <3>4
  <2> HIDE DEF s, t
  <2>3. SubSeq(s, 1, Len(s)) = SubSeq(t, 1, Len(s))
    <3>1. /\ SubSeq(s, 1, Len(s)) = [k \in 1..Len(s) |-> s[k]]
          /\ SubSeq(t, 1, Len(s)) = [k \in 1..Len(s) |-> t[k]]
      BY <2>2, SubSeqFromOne
    <3> QED
      BY <2>2, <3>1
  <2>4. Seqs!IsPrefix(s, t)
    BY <2>2, <2>3 DEF Seqs!IsPrefix
  <2> QED
    BY <2>4 DEF s, t, ListDeletionRequests
<1> QED
  BY <1>6, <1>7, <1>8 DEF IsPage, all, page

\* Every list is a page of its client's newest entries: repo.go:289 and 599.
THEOREM ListsAreTheNewest == Spec => []ListsArePages
<1>1. ArchiveInv => ListsArePages
  <2>1. \A n \in -1..(MaxWrites + 1) : n \in Int
    OBVIOUS
  <2> QED
    BY <2>1, EveryPage DEF ListsArePages
<1> QED
  BY <1>1, ArchiveHolds, PTL
=============================================================================
