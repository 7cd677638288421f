----------------------------- MODULE StoreProofs -----------------------------
(***************************************************************************)
(* Proofs about PointStore, for any keys, attributes, batches and number   *)
(* of concurrent handlers, and on top of them about Lifecycle, for any     *)
(* grace.                                                                  *)
(***************************************************************************)
EXTENDS Lifecycle, TLAPS

-----------------------------------------------------------------------------
(* The initial table is empty and nobody is in a transaction.              *)
LEMMA InitIInv == Init => IInv
<1> SUFFICES ASSUME Init PROVE IInv
  OBVIOUS
<1> USE DEF Init
<1>1. TypeOK
  BY StoreAssumption DEF TypeOK, Database
<1>2. OneTransaction /\ WaitingEmpty
  BY StoreAssumption DEF OneTransaction, WaitingEmpty
<1>3. Progress
  BY DEF Progress
<1>4. Extends(view, db) /\ IdsUnique /\ StampsOrdered
  BY DEF Extends, IdsUnique, IdsOf, StampsOrdered, Present
<1>5. AnswerMatchesBatch /\ AnsweredStored
  BY DEF AnswerMatchesBatch, AnsweredStored
<1> QED
  BY <1>1, <1>2, <1>3, <1>4, <1>5 DEF IInv

-----------------------------------------------------------------------------
(* A statement run on the connection's view by the handler that holds it:  *)
(* the one fact about INSERT and DO UPDATE that the invariant needs.       *)
LEMMA WriteRowIInv ==
  ASSUME IInv,
         NEW r \in Requests, Unwritten(r),
         NEW row \in Row, NEW seq \in Nat,
         WriteRow(r, row, seq),
         row.attr = Current(r).attr, row.updated = clock,
         row.id <= seq, view.seq <= seq,
         IF Present(view, Current(r).key)
         THEN /\ row.id = view.rows[Current(r).key].id
              /\ row.created = view.rows[Current(r).key].created
         ELSE row.id > view.seq
  PROVE  IInv'
<1> DEFINE n == Len(out[r])
           k == Current(r).key
<1> USE DEF WriteRow
<1>a. /\ out[r] \in Seq(Returned) /\ n \in Nat /\ DOMAIN out[r] = 1..n
      /\ batch[r] \in Seq(Point) /\ n < Len(batch[r])
      /\ pc[r] = "write" /\ conn = r
  BY StoreAssumption DEF IInv, TypeOK, OneTransaction, Unwritten
<1>b. k \in Keys /\ Current(r) \in Point /\ Current(r) = batch[r][n + 1] /\ n + 1 \in DOMAIN batch[r]
  <2>1. Current(r) = batch[r][n + 1] /\ n + 1 \in DOMAIN batch[r]
    BY <1>a DEF Current
  <2>2. batch[r][n + 1] \in Point
    BY <2>1, <1>a
  <2> QED
    BY <2>1, <2>2 DEF Point
<1>c. /\ view' = [rows |-> [view.rows EXCEPT ![k] = row], seq |-> seq]
      /\ view'.rows = [view.rows EXCEPT ![k] = row]
      /\ view'.seq = seq
      /\ view'.rows \in [Keys -> Row \cup {NoRow}]
      /\ view'.rows[k] = row
      /\ \A j \in Keys : j # k => view'.rows[j] = view.rows[j]
  BY <1>b DEF IInv, TypeOK, Database
<1>d. /\ out' = [out EXCEPT ![r] = Append(out[r], [key |-> k, id |-> row.id])]
      /\ out'[r] = Append(out[r], [key |-> k, id |-> row.id])
      /\ Len(out'[r]) = n + 1
      /\ \A i \in 1..n : out'[r][i] = out[r][i]
      /\ out'[r][n + 1] = [key |-> k, id |-> row.id]
      /\ DOMAIN out'[r] = 1..(n + 1)
      /\ \A q \in Requests : q # r => out'[q] = out[q]
      /\ [key |-> k, id |-> row.id] \in Returned
  BY <1>a, <1>b DEF IInv, TypeOK, Row, Returned
<1>e. \A q \in Requests : pc[q] = "write" => q = r
  BY <1>a DEF IInv, OneTransaction
<1>f. row # NoRow
  BY StoreAssumption
<1>1. TypeOK'
  BY <1>a, <1>c, <1>d DEF IInv, TypeOK, Database
<1>2. OneTransaction' /\ WaitingEmpty'
  BY <1>a, <1>d, StoreAssumption DEF IInv, OneTransaction, WaitingEmpty
<1>3. Progress'
  <2>1. Len(out'[r]) <= Len(batch[r])
    BY <1>a, <1>d
  <2>2. AppliesUpTo(batch[r], n + 1, view', db)
    <3> SUFFICES ASSUME NEW j \in Keys
                 PROVE  \/ \E i \in 1..(n + 1) :
                             /\ batch[r][i].key = j
                             /\ \A m \in (i + 1)..(n + 1) : batch[r][m].key # j
                             /\ Present(view', j)
                             /\ view'.rows[j].attr = batch[r][i].attr
                        \/ /\ \A i \in 1..(n + 1) : batch[r][i].key # j
                           /\ view'.rows[j] = db.rows[j]
      BY DEF AppliesUpTo
    <3>1. CASE j = k
      BY <3>1, <1>a, <1>b, <1>c, <1>f DEF Present
    <3>2. CASE j # k
      <4>1. AppliesUpTo(batch[r], n, view, db)
        BY <1>a DEF IInv, Progress
      <4>2. CASE \A i \in 1..n : batch[r][i].key # j
        BY <4>1, <4>2, <3>2, <1>a, <1>b, <1>c DEF AppliesUpTo
      <4>3. CASE \E i \in 1..n : batch[r][i].key = j
        <5>1. PICK i \in 1..n :
                 /\ batch[r][i].key = j
                 /\ \A m \in (i + 1)..n : batch[r][m].key # j
                 /\ Present(view, j)
                 /\ view.rows[j].attr = batch[r][i].attr
          BY <4>1, <4>3 DEF AppliesUpTo
        <5>2. \A m \in (i + 1)..(n + 1) : batch[r][m].key # j
          BY <5>1, <3>2, <1>a, <1>b
        <5> QED
          BY <5>1, <5>2, <3>2, <1>a, <1>c DEF Present
      <4> QED
        BY <4>2, <4>3
    <3> QED
      BY <3>1, <3>2
  <2>3. /\ \A j \in Keys : Present(db, j) => db.rows[j].updated \in Nat
        /\ clock \in Nat \ {0}
    BY DEF IInv, TypeOK, Database, Row, Present
  <2>4. ASSUME NEW i \in 1..(n + 1)
        PROVE  /\ out'[r][i].key = batch[r][i].key
               /\ Present(view', out'[r][i].key)
               /\ out'[r][i].id = view'.rows[out'[r][i].key].id
               /\ \A j \in Keys : Present(db, j) =>
                    view'.rows[out'[r][i].key].updated >= db.rows[j].updated
    <3>1. CASE out'[r][i].key = k
      <4>1. view'.rows[out'[r][i].key] = row
        BY <3>1, <1>c
      <4>2. \A j \in Keys : Present(db, j) => row.updated >= db.rows[j].updated
        BY <2>3 DEF IInv, StampsOrdered
      <4>3. CASE i = n + 1
        BY <4>1, <4>2, <4>3, <1>b, <1>d, <1>f DEF Present
      <4>4. CASE i \in 1..n
        <5>1. /\ out[r][i].key = batch[r][i].key
              /\ Present(view, k)
              /\ out[r][i].id = view.rows[k].id
              /\ out'[r][i] = out[r][i]
          BY <4>4, <3>1, <1>a, <1>d DEF IInv, Progress
        <5> QED
          BY <5>1, <4>1, <4>2, <1>f DEF Present
      <4> QED
        BY <4>3, <4>4, <1>a
    <3>2. CASE out'[r][i].key # k
      <4>1. i \in DOMAIN out[r] /\ out'[r][i] = out[r][i]
        BY <3>2, <1>a, <1>d
      <4>2. out[r][i] \in Returned
        BY <4>1, <1>a
      <4>3. view'.rows[out[r][i].key] = view.rows[out[r][i].key]
        BY <3>2, <4>1, <4>2, <1>c DEF Returned
      <4> QED
        BY <4>1, <4>3, <1>a DEF IInv, Progress, Present
    <3> QED
      BY <3>1, <3>2
  <2> QED
    BY <2>1, <2>2, <2>4, <1>a, <1>d, <1>e DEF Progress, Present
<1>4. Extends(view', db)
  BY <1>b, <1>c, <1>f DEF IInv, TypeOK, Database, Row, Extends, Present, StampsOrdered
<1>5. IdsUnique'
  <2>1. IdsOf(db)'
    BY DEF IInv, IdsUnique, IdsOf, Present
  <2>2. IdsOf(view)'
    <3>1. \A j \in Keys : Present(view, j) => view.rows[j] \in Row /\ view.rows[j].id <= view.seq
      BY DEF IInv, TypeOK, Database, IdsUnique, IdsOf, Present
    <3>2. view.seq \in Nat /\ row.id \in Nat
      BY DEF IInv, TypeOK, Database, Row
    <3>3. \A j \in Keys : Present(view, j)' => view'.rows[j].id <= seq
      BY <3>1, <3>2, <1>c DEF Present, Row
    <3>4. \A j \in Keys : j # k /\ Present(view, j)' => view'.rows[j].id # row.id
      BY <3>1, <3>2, <1>b, <1>c DEF Present, Row, IInv, IdsUnique, IdsOf
    <3> QED
      BY <3>3, <3>4, <1>c DEF IdsOf, IInv, IdsUnique, Present
  <2> QED
    BY <2>1, <2>2 DEF IdsUnique
<1>6. StampsOrdered'
  BY <1>b, <1>c, <1>f DEF IInv, TypeOK, StampsOrdered, Present
<1>7. AnswerMatchesBatch'
  BY <1>a, <1>d DEF IInv, AnswerMatchesBatch, Present
<1>8. AnsweredStored'
  BY DEF IInv, AnsweredStored, Present
<1> QED
  BY <1>1, <1>2, <1>3, <1>4, <1>5, <1>6, <1>7, <1>8 DEF IInv

(* INSERT: the new id is above every id of the view.                       *)
LEMMA InsertRowIInv ==
  ASSUME IInv, NEW r \in Requests, InsertRow(r)
  PROVE  IInv'
<1>1. batch[r] \in Seq(Point) /\ Current(r) \in Point /\ view.seq \in Nat /\ clock \in Nat \ {0}
  BY StoreAssumption DEF InsertRow, Unwritten, Current, IInv, TypeOK, Database
<1>2. Inserted(Current(r), view.seq) \in Row
  BY <1>1 DEF Inserted, Row, Point
<1> QED
  BY <1>1, <1>2, WriteRowIInv DEF InsertRow, Inserted

(* DO UPDATE: id and created_at are kept.                                  *)
LEMMA UpdateRowIInv ==
  ASSUME IInv, NEW r \in Requests, UpdateRow(r)
  PROVE  IInv'
<1> DEFINE row == Updated(Current(r), view.rows[Current(r).key])
<1>1. batch[r] \in Seq(Point) /\ Current(r) \in Point /\ view.seq \in Nat /\ clock \in Nat \ {0}
  BY StoreAssumption DEF UpdateRow, Unwritten, Current, IInv, TypeOK, Database
<1>2. /\ view.rows[Current(r).key] \in Row
      /\ view.rows[Current(r).key].id <= view.seq
  BY <1>1 DEF UpdateRow, Present, IInv, TypeOK, Database, Point, IdsUnique, IdsOf
<1>3. /\ row \in Row
      /\ row.attr = Current(r).attr
      /\ row.updated = clock
      /\ row.id = view.rows[Current(r).key].id
      /\ row.created = view.rows[Current(r).key].created
  BY <1>1, <1>2 DEF Updated, Row, Point
<1>4. PICK seq \in {view.seq} \cup {n \in {view.seq + 1} : n <= MaxBurn} : WriteRow(r, row, seq)
  BY DEF UpdateRow
<1>5. seq \in Nat /\ view.seq <= seq /\ row.id <= seq
  BY <1>1, <1>2, <1>3, <1>4 DEF Row
<1> HIDE DEF row
<1> QED
  BY <1>3, <1>4, <1>5, WriteRowIInv DEF UpdateRow

-----------------------------------------------------------------------------
(* A request is taken in: nothing it has written or returned exists yet.   *)
LEMMA ReceiveIInv ==
  ASSUME IInv, NEW r \in Requests, Receive(r)
  PROVE  IInv'
<1> USE DEF Receive
<1>1. PICK b \in Batches :
        /\ batch' = [batch EXCEPT ![r] = b]
        /\ pc' = [pc EXCEPT ![r] = IF b = <<>> THEN "respond" ELSE "begin"]
  OBVIOUS
<1>2. conn # r
  BY DEF IInv, OneTransaction
<1>3. /\ out'[r] = <<>>
      /\ batch'[r] = b
      /\ pc'[r] = IF b = <<>> THEN "respond" ELSE "begin"
      /\ \A q \in Requests : q # r => out'[q] = out[q] /\ batch'[q] = batch[q] /\ pc'[q] = pc[q]
  BY <1>1 DEF IInv, TypeOK
<1>4. TypeOK'
  BY <1>1 DEF IInv, TypeOK
<1>5. OneTransaction' /\ WaitingEmpty'
  BY <1>2, <1>3 DEF IInv, OneTransaction, WaitingEmpty
<1>6. Progress'
  BY <1>3 DEF IInv, Progress, AppliesUpTo, Present
<1>7. Extends(view, db)' /\ IdsUnique' /\ StampsOrdered' /\ AnsweredStored'
  BY DEF IInv, Extends, IdsUnique, IdsOf, StampsOrdered, AnsweredStored, Present
<1>8. AnswerMatchesBatch'
  BY <1>3 DEF IInv, AnswerMatchesBatch, Present
<1> QED
  BY <1>4, <1>5, <1>6, <1>7, <1>8 DEF IInv

(* The transaction starts from a view equal to what is committed.          *)
LEMMA BeginIInv ==
  ASSUME IInv, NEW r \in Requests, Begin(r)
  PROVE  IInv'
<1> USE DEF Begin
<1>1. view = db /\ \A q \in Requests : pc[q] # "write"
  BY StoreAssumption DEF IInv, OneTransaction
<1>2. Len(batch[r]) \in Nat
  <2>1. batch[r] \in Batches \cup {<<>>}
    BY DEF IInv, TypeOK
  <2> QED
    BY <2>1, StoreAssumption
<1>3. out[r] = <<>>
  BY DEF IInv, WaitingEmpty
<1>4. pc'[r] = "write" /\ \A q \in Requests : q # r => pc'[q] = pc[q]
  BY DEF IInv, TypeOK
<1>5. TypeOK'
  BY DEF IInv, TypeOK
<1>6. OneTransaction'
  BY <1>1, <1>4, StoreAssumption DEF IInv, OneTransaction
<1>7. Progress'
  BY <1>1, <1>2, <1>3, <1>4 DEF Progress, AppliesUpTo
<1>8. Extends(view, db)' /\ IdsUnique' /\ StampsOrdered' /\ AnsweredStored'
  BY DEF IInv, Extends, IdsUnique, IdsOf, StampsOrdered, AnsweredStored, Present
<1>9. AnswerMatchesBatch' /\ WaitingEmpty'
  BY <1>4 DEF IInv, AnswerMatchesBatch, WaitingEmpty, Present
<1> QED
  BY <1>5, <1>6, <1>7, <1>8, <1>9 DEF IInv

(* The transaction becomes the committed table.  Handlers about to answer  *)
(* keep their ids because the view extends what they committed.            *)
LEMMA CommitIInv ==
  ASSUME IInv, NEW r \in Requests, Commit(r)
  PROVE  IInv'
<1> USE DEF Commit
<1>1. /\ conn = r
      /\ \A q \in Requests : pc[q] = "write" => q = r
      /\ pc'[r] = "respond"
      /\ \A q \in Requests : q # r => pc'[q] = pc[q]
  BY DEF IInv, TypeOK, OneTransaction
<1>2. TypeOK'
  BY DEF IInv, TypeOK
<1>3. OneTransaction'
  BY <1>1, StoreAssumption DEF IInv, OneTransaction
<1>4. Progress' /\ WaitingEmpty'
  BY <1>1 DEF IInv, Progress, WaitingEmpty
<1>5. Extends(view, db)'
  BY DEF IInv, TypeOK, Database, Row, Extends, Present
<1>6. IdsUnique'
  BY DEF IInv, IdsUnique, IdsOf, Present
<1>7. StampsOrdered'
  BY DEF IInv, StampsOrdered, Present
<1>8. AnswerMatchesBatch'
  <2> SUFFICES ASSUME NEW q \in Requests, pc'[q] = "respond"
               PROVE  /\ Len(out[q]) = Len(batch[q])
                      /\ \A i \in DOMAIN out[q] :
                           /\ out[q][i].key = batch[q][i].key
                           /\ Present(view, out[q][i].key)
                           /\ out[q][i].id = view.rows[out[q][i].key].id
    BY DEF AnswerMatchesBatch, Present
  <2>1. CASE q = r
    BY <2>1 DEF IInv, Progress
  <2>2. CASE q # r
    <3>1. pc[q] = "respond" /\ out[q] \in Seq(Returned)
      BY <2>2, <1>1 DEF IInv, TypeOK
    <3>2. ASSUME NEW i \in DOMAIN out[q]
          PROVE  /\ Present(view, out[q][i].key)
                 /\ out[q][i].id = view.rows[out[q][i].key].id
      <4>1. out[q][i].key \in Keys
        <5>1. out[q][i] \in Returned
          BY <3>1, <3>2
        <5> QED
          BY <5>1 DEF Returned
      <4> QED
        BY <4>1, <3>1, <3>2 DEF IInv, AnswerMatchesBatch, Extends
    <3> QED
      BY <3>1, <3>2 DEF IInv, AnswerMatchesBatch
  <2> QED
    BY <2>1, <2>2
<1>9. AnsweredStored'
  BY DEF IInv, TypeOK, Returned, AnsweredStored, Extends, Present
<1> QED
  BY <1>2, <1>3, <1>4, <1>5, <1>6, <1>7, <1>8, <1>9 DEF IInv

(* What is answered with 200 was committed before.                         *)
LEMMA RespondIInv ==
  ASSUME IInv, NEW r \in Requests, Respond(r)
  PROVE  IInv'
<1> USE DEF Respond
<1>1. /\ pc'[r] = "idle" /\ out'[r] = <<>>
      /\ \A q \in Requests : q # r => pc'[q] = pc[q] /\ out'[q] = out[q] /\ batch'[q] = batch[q]
      /\ conn # r
      /\ out[r] \in Seq(Returned)
  BY DEF IInv, TypeOK, OneTransaction
<1>2. {out[r][i] : i \in DOMAIN out[r]} \subseteq Returned
  BY <1>1
<1>3. TypeOK'
  BY <1>2 DEF IInv, TypeOK
<1>4. OneTransaction' /\ Progress' /\ WaitingEmpty'
  BY <1>1 DEF IInv, OneTransaction, Progress, WaitingEmpty, AppliesUpTo, Present
<1>5. Extends(view, db)' /\ IdsUnique' /\ StampsOrdered'
  BY DEF IInv, Extends, IdsUnique, IdsOf, StampsOrdered, Present
<1>6. AnswerMatchesBatch'
  BY <1>1 DEF IInv, AnswerMatchesBatch, Present
<1>7. AnsweredStored'
  BY DEF IInv, AnswerMatchesBatch, AnsweredStored, Present
<1> QED
  BY <1>3, <1>4, <1>5, <1>6, <1>7 DEF IInv

(* A rollback makes the view equal to what is committed.                   *)
LEMMA RolledBack ==
  ASSUME IInv, view' = db, db' = db, clock' = clock
  PROVE  Extends(view, db)' /\ IdsUnique' /\ StampsOrdered'
<1>1. /\ db'.rows = db.rows /\ view'.rows = db.rows /\ view'.seq = db.seq
      /\ \A k \in Keys : Present(db, k) => db.rows[k] \in Row
  BY DEF IInv, TypeOK, Database, Present
<1>2. Extends(view, db)'
  BY <1>1 DEF Row, Extends, Present
<1>3. IdsUnique' /\ StampsOrdered'
  BY <1>1 DEF IInv, IdsUnique, IdsOf, StampsOrdered, Present
<1> QED
  BY <1>2, <1>3

LEMMA FailIInv ==
  ASSUME IInv, NEW r \in Requests, Fail(r)
  PROVE  IInv'
<1> USE DEF Fail, Rollback
<1>1. /\ pc'[r] = "idle" /\ out'[r] = <<>>
      /\ \A q \in Requests : q # r => pc'[q] = pc[q] /\ out'[q] = out[q] /\ batch'[q] = batch[q]
      /\ db' = db /\ clock' = clock /\ told' = told
  BY DEF IInv, TypeOK
<1>2. TypeOK'
  BY DEF IInv, TypeOK
<1>3. AnswerMatchesBatch' /\ AnsweredStored' /\ WaitingEmpty'
  BY <1>1 DEF IInv, AnswerMatchesBatch, AnsweredStored, WaitingEmpty, Present
<1>4. CASE pc[r] = "begin" /\ UNCHANGED <<db, view, conn>>
  <2>1. OneTransaction' /\ Progress'
    BY <1>1, <1>4 DEF IInv, OneTransaction, Progress, AppliesUpTo, Present
  <2>2. Extends(view, db)' /\ IdsUnique' /\ StampsOrdered'
    BY <1>1, <1>4 DEF IInv, Extends, IdsUnique, IdsOf, StampsOrdered, Present
  <2> QED
    BY <1>2, <1>3, <2>1, <2>2 DEF IInv
<1>5. CASE pc[r] = "write" /\ Rollback
  <2>1. \A q \in Requests : q # r => pc[q] # "write"
    BY <1>5 DEF IInv, OneTransaction
  <2>2. OneTransaction' /\ Progress'
    BY <2>1, <1>1, <1>5, StoreAssumption DEF OneTransaction, Progress
  <2> QED
    BY <1>1, <1>2, <1>3, <1>5, <2>2, RolledBack DEF IInv
<1> QED
  BY <1>4, <1>5

LEMMA CrashIInv ==
  ASSUME IInv, Crash
  PROVE  IInv'
<1> USE DEF Crash
<1>1. TypeOK'
  BY DEF IInv, TypeOK
<1>2. OneTransaction' /\ Progress' /\ WaitingEmpty'
  BY StoreAssumption DEF OneTransaction, Progress, WaitingEmpty
<1>3. AnswerMatchesBatch' /\ AnsweredStored'
  BY DEF IInv, AnswerMatchesBatch, AnsweredStored, Present
<1> QED
  BY <1>1, <1>2, <1>3, RolledBack DEF IInv

LEMMA TickIInv ==
  ASSUME IInv, Tick
  PROVE  IInv'
<1> USE DEF Tick
<1>1. TypeOK'
  BY DEF IInv, TypeOK
<1>2. OneTransaction' /\ Progress' /\ Extends(view, db)' /\ IdsUnique' /\ WaitingEmpty'
  BY DEF IInv, OneTransaction, Progress, AppliesUpTo, Extends, IdsUnique, IdsOf, WaitingEmpty, Present
<1>3. AnswerMatchesBatch' /\ AnsweredStored'
  BY DEF IInv, AnswerMatchesBatch, AnsweredStored, Present
<1>4. StampsOrdered'
  BY DEF IInv, TypeOK, Database, Row, StampsOrdered, Present
<1> QED
  BY <1>1, <1>2, <1>3, <1>4 DEF IInv

LEMMA StutterIInv ==
  ASSUME IInv, UNCHANGED vars
  PROVE  IInv'
BY DEF IInv, vars, TypeOK, OneTransaction, Progress, AppliesUpTo, Extends, IdsUnique, IdsOf,
       StampsOrdered, AnswerMatchesBatch, AnsweredStored, WaitingEmpty, Present

LEMMA NextIInv == IInv /\ [Next]_vars => IInv'
<1> SUFFICES ASSUME IInv, [Next]_vars PROVE IInv'
  OBVIOUS
<1>1. ASSUME NEW r \in Requests, Handler(r) PROVE IInv'
  BY <1>1, ReceiveIInv, BeginIInv, InsertRowIInv, UpdateRowIInv, CommitIInv, RespondIInv, FailIInv
     DEF Handler, Write
<1> QED
  BY <1>1, CrashIInv, TickIInv, StutterIInv DEF Next

(* The inductive invariant of PointStore holds in every reachable state.   *)
THEOREM Invariance == Spec => []IInv
BY InitIInv, NextIInv, PTL DEF Spec

(* Every variable is always of its type.                                   *)
THEOREM TypeCorrect == Spec => []TypeOK
<1>1. IInv => TypeOK
  BY DEF IInv
<1> QED
  BY <1>1, Invariance, PTL

(* What a client was answered with 200 stays stored under the same id.     *)
THEOREM AnsweredStaysStored == Spec => []AnsweredStored
<1>1. IInv => AnsweredStored
  BY DEF IInv
<1> QED
  BY <1>1, Invariance, PTL

(* An answer returns one committed id per point of the batch, in order.    *)
THEOREM AnswersMatch == Spec => []AnswerMatchesBatch
<1>1. IInv => AnswerMatchesBatch
  BY DEF IInv
<1> QED
  BY <1>1, Invariance, PTL

(* An id never names two points.                                           *)
THEOREM IdsStayUnique == Spec => []IdsUnique
<1>1. IInv => IdsUnique
  BY DEF IInv
<1> QED
  BY <1>1, Invariance, PTL

-----------------------------------------------------------------------------
(* Only a commit changes the committed table.                              *)
LEMMA OnlyCommits ==
  ASSUME IInv, [Next]_vars
  PROVE  db' = db \/ \E r \in Requests : Commit(r)
<1>1. ASSUME NEW r \in Requests, Handler(r)
      PROVE  db' = db \/ Commit(r)
  BY <1>1 DEF Handler, Write, Receive, Begin, InsertRow, UpdateRow, WriteRow, Respond, Fail, Rollback
<1> QED
  BY <1>1 DEF Next, Crash, Tick, vars

LEMMA BatchIsSequence ==
  ASSUME IInv, NEW r \in Requests
  PROVE  /\ batch[r] \in Seq(Point)
         /\ DOMAIN batch[r] = 1..Len(batch[r])
         /\ Len(batch[r]) \in Nat
<1>1. batch[r] \in Batches \cup {<<>>}
  BY DEF IInv, TypeOK
<1>2. CASE batch[r] = <<>>
  BY <1>2
<1>3. CASE batch[r] \in Seq(Point)
  BY <1>3
<1> QED
  BY <1>1, <1>2, <1>3, StoreAssumption

(* A commit applies the whole batch, with stamps between the newest one    *)
(* committed and the clock.                                                *)
LEMMA CommitApplies ==
  ASSUME IInv, NEW r \in Requests, Commit(r)
  PROVE  /\ pc[r] = "write" /\ pc'[r] = "respond"
         /\ AppliesUpTo(batch[r], Len(batch[r]), db', db)
         /\ Extends(db', db)
         /\ \A j \in Keys, k \in Touched(batch[r]) : Present(db, j) =>
              db'.rows[k].updated >= db.rows[j].updated
<1>1. pc[r] = "write" /\ pc'[r] = "respond" /\ db' = view /\ Len(out[r]) = Len(batch[r])
  BY DEF Commit, IInv, TypeOK
<1>2. DOMAIN out[r] = DOMAIN batch[r]
  <2>1. out[r] \in Seq(Returned)
    BY DEF IInv, TypeOK
  <2> QED
    BY <2>1, <1>1, BatchIsSequence
<1>3. AppliesUpTo(batch[r], Len(batch[r]), db', db) /\ Extends(db', db)
  BY <1>1 DEF IInv, Progress
<1>4. ASSUME NEW j \in Keys, NEW k \in Touched(batch[r]), Present(db, j)
      PROVE  db'.rows[k].updated >= db.rows[j].updated
  <2>1. PICK i \in DOMAIN out[r] : out[r][i].key = k
    BY <1>1, <1>2 DEF Touched, IInv, Progress
  <2> QED
    BY <2>1, <1>1, <1>4 DEF IInv, Progress
<1> QED
  BY <1>1, <1>3, <1>4

(* Points are never deleted or renumbered and their stamps never go back.  *)
THEOREM PointsSurvive == Spec => RowsSurvive
<1>1. ASSUME IInv, [Next]_vars
      PROVE  Extends(db', db)
  <2>1. CASE db' = db
    BY <1>1, <2>1 DEF IInv, TypeOK, Database, Row, Extends, Present
  <2>2. CASE \E r \in Requests : Commit(r)
    BY <1>1, <2>2, CommitApplies
  <2> QED
    BY <1>1, <2>1, <2>2, OnlyCommits
<1>2. IInv /\ [Next]_vars => [Extends(db', db)]_vars
  BY <1>1
<1> QED
  BY <1>2, Invariance, PTL DEF Spec, RowsSurvive

(* A batch is stored whole or not at all.                                  *)
THEOREM BatchesAreWhole == Spec => WholeBatch
<1> DEFINE Whole ==
      db'.rows # db.rows =>
        \E r \in Requests :
          /\ pc[r] = "write" /\ pc'[r] = "respond"
          /\ AppliesUpTo(batch[r], Len(batch[r]), db', db)
<1>1. ASSUME IInv, [Next]_vars
      PROVE  Whole
  BY <1>1, OnlyCommits, CommitApplies
<1>2. IInv /\ [Next]_vars => [Whole]_vars
  BY <1>1
<1> QED
  BY <1>2, Invariance, PTL DEF Spec, WholeBatch

(* No row becomes visible with a stamp older than one already visible.     *)
THEOREM StampsNeverGoBack == Spec => StampsMonotone
<1> DEFINE Monotone ==
      \A j, k \in Keys :
        db'.rows[k] # db.rows[k] /\ Present(db, j) =>
          db'.rows[k].updated >= db.rows[j].updated
<1>1. ASSUME IInv, [Next]_vars
      PROVE  Monotone
  <2> SUFFICES ASSUME NEW j \in Keys, NEW k \in Keys,
                      db'.rows[k] # db.rows[k], Present(db, j)
               PROVE  db'.rows[k].updated >= db.rows[j].updated
    OBVIOUS
  <2>1. PICK r \in Requests : Commit(r)
    BY <1>1, OnlyCommits
  <2>2. k \in Touched(batch[r])
    <3>1. PICK i \in 1..Len(batch[r]) : batch[r][i].key = k
      BY <2>1, <1>1, CommitApplies DEF AppliesUpTo
    <3>2. 1..Len(batch[r]) = DOMAIN batch[r]
      BY <1>1, BatchIsSequence
    <3> QED
      BY <3>1, <3>2 DEF Touched
  <2> QED
    BY <2>1, <2>2, <1>1, CommitApplies
<1>2. IInv /\ [Next]_vars => [Monotone]_vars
  BY <1>1
<1> QED
  BY <1>2, Invariance, PTL DEF Spec, StampsMonotone

-----------------------------------------------------------------------------
(* PointStore implements PointTable.                                       *)

LEMMA VisibleTyped ==
  ASSUME NEW d \in Database, NEW k \in Keys
  PROVE  /\ Visible(d)[k] = NoRow <=> ~Present(d, k)
         /\ Present(d, k) => /\ Visible(d)[k].attr = d.rows[k].attr
                             /\ Visible(d)[k].updated = d.rows[k].updated
<1>1. Present(d, k) => d.rows[k] \in Row
  BY DEF Database, Present
<1>2. Present(d, k) => [attr |-> d.rows[k].attr, updated |-> d.rows[k].updated] \in Entry
  BY <1>1 DEF Row, Entry
<1> QED
  BY <1>2, StoreAssumption DEF Visible

(* A commit is the abstract Upsert of the handler's batch.                 *)
LEMMA CommitIsUpsert ==
  ASSUME IInv, NEW r \in Requests, Commit(r)
  PROVE  Table!Upsert(batch[r])
<1> DEFINE b == batch[r]
           stamp == [k \in Table!Touched(b) |-> db'.rows[k].updated]
<1>1. /\ db \in Database /\ db' \in Database /\ db' = view
      /\ clock \in Nat /\ clock' = clock
  BY DEF Commit, IInv, TypeOK
<1>2. b \in Seq(Point) /\ DOMAIN b = 1..Len(b) /\ Len(b) \in Nat
  BY BatchIsSequence
<1>3. Table!Touched(b) = Touched(b) /\ Touched(b) \subseteq Keys
  <2>1. \A i \in DOMAIN b : b[i] \in Point
    BY <1>2
  <2> QED
    BY <2>1 DEF Table!Touched, Touched, Point
<1>4. /\ AppliesUpTo(b, Len(b), db', db)
      /\ \A j \in Keys, k \in Touched(b) : Present(db, j) => db'.rows[k].updated >= db.rows[j].updated
  BY CommitApplies
<1>5. ASSUME NEW k \in Touched(b)
      PROVE  /\ Present(db', k)
             /\ db'.rows[k].attr = Table!LastAttr(b, k)
  <2>1. PICK i \in 1..Len(b) :
          /\ b[i].key = k
          /\ \A j \in (i + 1)..Len(b) : b[j].key # k
          /\ Present(db', k)
          /\ db'.rows[k].attr = b[i].attr
    BY <1>2, <1>3, <1>4 DEF AppliesUpTo, Touched
  <2>2. Table!IsLast(b, i) /\ b[i].key = k
    BY <1>2, <2>1 DEF Table!IsLast
  <2>3. \A m \in DOMAIN b : Table!IsLast(b, m) /\ b[m].key = k => m = i
    BY <1>2, <2>1, <2>2 DEF Table!IsLast
  <2> QED
    BY <1>2, <2>1, <2>2, <2>3 DEF Table!LastAttr
<1>6. ASSUME NEW k \in Touched(b)
      PROVE  db'.rows[k].updated \in Table!Stamps
  <2>1. db'.rows[k].updated \in 1..clock
    BY <1>1, <1>3, <1>5 DEF IInv, StampsOrdered, Database, Row, Present
  <2>2. \A j \in Keys : Visible(db)[j] # NoRow => Visible(db)[j].updated <= db'.rows[k].updated
    BY <1>1, <1>4, <2>1, VisibleTyped DEF Database, Row, Present
  <2> QED
    BY <2>1, <2>2 DEF Table!Stamps
<1>7. stamp \in [Table!Touched(b) -> Table!Stamps]
  BY <1>3, <1>6
<1>8. Visible(db)' = [k \in Keys |-> IF k \in Table!Touched(b)
                                    THEN [attr |-> Table!LastAttr(b, k), updated |-> stamp[k]]
                                    ELSE Visible(db)[k]]
  <2> SUFFICES ASSUME NEW k \in Keys
               PROVE  Visible(db')[k] = IF k \in Touched(b)
                                        THEN [attr |-> Table!LastAttr(b, k), updated |-> stamp[k]]
                                        ELSE Visible(db)[k]
    BY <1>3 DEF Visible, Present
  <2>1. CASE k \in Touched(b)
    BY <2>1, <1>3, <1>5 DEF Visible
  <2>2. CASE k \notin Touched(b)
    <3>1. db'.rows[k] = db.rows[k]
      BY <2>2, <1>2, <1>4 DEF AppliesUpTo, Touched
    <3> QED
      BY <2>2, <3>1 DEF Visible, Present
  <2> QED
    BY <2>1, <2>2
<1> HIDE DEF stamp
<1> QED
  BY <1>1, <1>7, <1>8 DEF Table!Upsert

LEMMA InitIsTableInit == Init => Table!TableInit
BY DEF Init, Table!TableInit, Visible, Present

LEMMA NextIsTableNext ==
  ASSUME IInv, [Next]_vars
  PROVE  [Table!TableNext]_(Table!tableVars)
<1>1. CASE \E r \in Requests : Commit(r)
  <2>1. PICK r \in Requests : Commit(r)
    BY <1>1
  <2>2. Table!Upsert(batch[r])
    BY <2>1, CommitIsUpsert
  <2>3. CASE batch[r] \in Batches
    BY <2>2, <2>3 DEF Table!TableNext
  <2>4. CASE batch[r] = <<>>
    <3>1. Visible(db)' = Visible(db) /\ clock' = clock
      <4>1. \A k \in Keys : db'.rows[k] = db.rows[k]
        BY <2>1, <2>4, CommitApplies DEF AppliesUpTo
      <4> QED
        BY <4>1, <2>1 DEF Visible, Present, Commit
    <3> QED
      BY <3>1 DEF Table!tableVars
  <2> QED
    BY <2>3, <2>4 DEF IInv, TypeOK
<1>2. CASE Tick
  BY <1>2 DEF Tick, Table!TableNext, Table!Tick, Visible, Present
<1>3. CASE db' = db /\ clock' = clock
  BY <1>3 DEF Table!tableVars, Visible, Present
<1>4. clock' = clock \/ Tick
  BY DEF Next, Handler, Write, Receive, Begin, InsertRow, UpdateRow, WriteRow, Commit, Respond, Fail,
         Crash, vars
<1> QED
  BY <1>1, <1>2, <1>3, <1>4, OnlyCommits

(* The concurrent, crashing handlers implement the atomic table: every     *)
(* reader of the table may be reasoned about against PointTable alone.     *)
THEOREM Implements == Spec => TablePromise
BY InitIsTableInit, NextIsTableNext, Invariance, PTL DEF Spec, TablePromise, Table!TableSpec

-----------------------------------------------------------------------------
(* The life of the process (Lifecycle).                                    *)

(* The process starts serving on an empty table.                           *)
LEMMA InitLifeInv == LifeInit => LifeInv
<1> SUFFICES ASSUME LifeInit PROVE LifeInv
  OBVIOUS
<1>1. IInv
  BY InitIInv DEF LifeInit
<1>2. wal = <<db>> /\ db \in Database
  BY <1>1 DEF LifeInit, IInv, TypeOK
<1>a. wal \in Seq(Database) /\ wal # <<>> /\ wal[Len(wal)] = db
  BY <1>2
<1>b. Returning <=> cause # "none"
  BY DEF LifeInit, Returning
<1>3. LifeTypeOK /\ signalled \in Nat
  BY <1>a, <1>b, LifecycleAssumption DEF LifeInit, LifeTypeOK
<1>4. LogOK /\ Stopped
  BY <1>1, <1>2 DEF LifeInit, IInv, IdsUnique, StampsOrdered, LogOK, Stopped
<1> QED
  BY <1>1, <1>3, <1>4 DEF LifeInv

(* For the database, all but a power loss is a step of PointStore or none. *)
LEMMA StoreStep ==
  ASSUME LifeNext
  PROVE  PowerLoss \/ [Next]_vars
<1> USE DEF Next, Handler
<1>1. ASSUME NEW r \in Requests, Serve(r) PROVE [Next]_vars
  BY <1>1 DEF Serve, Accept, Drop, Arrive, BeginOpen, CommitLogged, FailOrGiveUp
<1>2. CASE Run
  BY <1>2 DEF Run, Signal, ListenFails, ShutdownDone, ShutdownExpires, Close, Exit
<1>3. CASE Kill \/ Start \/ TickInTime
  BY <1>3 DEF Kill, Start, TickInTime
<1> QED
  BY <1>1, <1>2, <1>3 DEF LifeNext

(* Without the commits that were not synced the database is an older one,  *)
(* and no handler is left.                                                 *)
LEMMA PowerLossIInv == LifeInv /\ PowerLoss => IInv'
<1> SUFFICES ASSUME LifeInv, PowerLoss PROVE IInv'
  OBVIOUS
<1>1. PICK i \in DOMAIN wal : db' = wal[i]
  BY DEF PowerLoss, ToSet
<1>2. /\ db' \in Database /\ view' = db' /\ clock' = clock /\ conn' = Free
      /\ IdsOf(db')
      /\ \A k \in Keys : Present(db', k) => db'.rows[k].updated <= clock
  BY <1>1 DEF LifeInv, LifeTypeOK, LogOK, PowerLoss
<1>3. TypeOK'
  BY <1>2 DEF LifeInv, IInv, TypeOK, PowerLoss
<1>4. OneTransaction' /\ WaitingEmpty' /\ Progress'
  BY StoreAssumption DEF PowerLoss, OneTransaction, WaitingEmpty, Progress
<1>5. Extends(view, db)' /\ IdsUnique' /\ StampsOrdered'
  BY <1>2, <1>3 DEF Extends, IdsUnique, IdsOf, StampsOrdered, Present, TypeOK, Database, Row
<1>6. AnswerMatchesBatch' /\ AnsweredStored'
  BY <1>2 DEF PowerLoss, AnswerMatchesBatch, AnsweredStored, Present
<1> QED
  BY <1>3, <1>4, <1>5, <1>6 DEF IInv

LEMMA LifeIInv == LifeInv /\ [LifeNext]_allVars => IInv'
<1> SUFFICES ASSUME LifeInv, [LifeNext]_allVars PROVE IInv'
  OBVIOUS
<1>1. CASE PowerLoss
  BY <1>1, PowerLossIInv
<1>2. CASE [Next]_vars
  BY <1>2, NextIInv DEF LifeInv
<1>3. CASE UNCHANGED allVars
  BY <1>3, NextIInv DEF LifeInv, allVars, vars
<1> QED
  BY <1>1, <1>2, <1>3, StoreStep

-----------------------------------------------------------------------------
(* The order of the stop: phases, causes and the deadline.                 *)
LEMMA LifeTypes == LifeInv /\ [LifeNext]_allVars => LifeTypeOK' /\ (signalled \in Nat)'
<1> SUFFICES ASSUME LifeInv, [LifeNext]_allVars
             PROVE  LifeTypeOK' /\ (signalled \in Nat)'
  OBVIOUS
<1>t. /\ db \in Database /\ clock \in Nat \ {0} /\ signalled \in Nat
      /\ db' \in Database
  BY LifeIInv DEF LifeInv, IInv, TypeOK
<1>w. ASSUME wal' = <<db'>> PROVE wal' \in Seq(Database) /\ wal' # <<>> /\ wal'[Len(wal')] = db'
  BY <1>t, <1>w
<1>k. ASSUME UNCHANGED <<wal, db>> PROVE wal' \in Seq(Database) /\ wal' # <<>> /\ wal'[Len(wal')] = db'
  BY <1>k DEF LifeInv, LifeTypeOK
<1>1. ASSUME NEW r \in Requests, Serve(r) PROVE LifeTypeOK' /\ (signalled \in Nat)'
  <2>1. UNCHANGED <<phase, cause, signalled, clock, safe, losses>>
    BY <1>1 DEF Serve, Accept, Drop, Arrive, BeginOpen, CommitLogged, FailOrGiveUp, vars,
                lifeVars, Receive, Begin, Commit, Fail, Rollback, Write, InsertRow, UpdateRow,
                WriteRow, Respond
  <2>2. fresh' \subseteq Requests /\ told \subseteq told'
    BY <1>1 DEF Serve, Accept, Drop, Arrive, BeginOpen, CommitLogged, FailOrGiveUp, vars,
                lifeVars, Receive, Begin, Commit, Fail, Rollback, Write, InsertRow, UpdateRow,
                WriteRow, Respond, LifeInv, LifeTypeOK
  <2>3. wal' \in Seq(Database) /\ wal' # <<>> /\ wal'[Len(wal')] = db'
    <3>1. CASE CommitLogged(r)
      <4>1. CASE wal' = <<db'>>
        BY <4>1, <1>w
      <4>2. CASE wal' = Append(wal, db')
        BY <4>2, <1>t DEF LifeInv, LifeTypeOK
      <4> QED
        BY <3>1, <4>1, <4>2 DEF CommitLogged
    <3>2. CASE FailOrGiveUp(r)
      <4>1. db' = db
        BY <3>2 DEF FailOrGiveUp, Fail, Rollback
      <4> QED
        BY <3>2, <4>1, <1>w, <1>k DEF FailOrGiveUp
    <3>3. CASE UNCHANGED <<wal, db>>
      BY <3>3, <1>k
    <3> QED
      BY <1>1, <3>1, <3>2, <3>3
         DEF Serve, Accept, Drop, Arrive, BeginOpen, vars, lifeVars, Receive, Begin, Write,
             InsertRow, UpdateRow, WriteRow, Respond
  <2> QED
    BY <1>t, <2>1, <2>2, <2>3 DEF LifeInv, LifeTypeOK, Returning
<1>2. CASE Signal \/ ListenFails \/ ShutdownDone \/ ShutdownExpires \/ Start
  <2>1. /\ UNCHANGED <<clock, db, wal, safe, told, fresh, losses>>
        /\ signalled' \in {signalled, clock}
    BY <1>2 DEF Signal, ListenFails, ShutdownDone, ShutdownExpires, Start, vars
  <2>2. CASE Signal \/ Start
    <3>1. /\ phase' \in {"serving", "draining"} /\ cause' = "none"
          /\ phase' = "draining" => signalled' = clock
      BY <2>2 DEF Signal, Start, LifeInv, LifeTypeOK, Returning
    <3>2. phase' = "draining" => clock' <= signalled' + Grace
      BY <1>t, <2>1, <3>1, LifecycleAssumption
    <3>3. Returning' <=> cause' # "none"
      BY <3>1 DEF Returning
    <3> QED
      BY <1>t, <1>k, <2>1, <3>1, <3>2, <3>3 DEF LifeInv, LifeTypeOK
  <2>3. CASE ListenFails \/ ShutdownDone \/ ShutdownExpires
    <3>1. phase' = "closing" /\ cause' \in {"graceful", "deadline", "listener"}
      BY <2>3 DEF ListenFails, ShutdownDone, ShutdownExpires
    <3> QED
      BY <1>t, <1>k, <2>1, <3>1 DEF LifeInv, LifeTypeOK, Returning
  <2> QED
    BY <1>2, <2>2, <2>3
<1>3. CASE Close
  <2>1. wal' \in Seq(Database) /\ wal' # <<>> /\ wal'[Len(wal')] = db'
    BY <1>3, <1>w, <1>k DEF Close, vars
  <2> QED
    BY <1>3, <1>t, <2>1 DEF Close, LifeInv, LifeTypeOK, Returning, vars
<1>4. CASE Exit \/ Kill
  <2>1. UNCHANGED <<clock, db, wal, told, losses>> /\ safe' \in {told, safe}
    BY <1>4 DEF Exit, Kill, Crash
  <2>2. phase' = "down" /\ cause' = "none" /\ signalled' = 0 /\ fresh' = {}
    BY <1>4 DEF Exit, Kill, End
  <2> QED
    BY <1>k, <2>1, <2>2 DEF LifeInv, LifeTypeOK, Returning
<1>5. CASE PowerLoss
  <2>1. wal' \in Seq(Database) /\ wal' # <<>> /\ wal'[Len(wal')] = db'
    BY <1>5, <1>w DEF PowerLoss
  <2>2. phase' = "down" /\ cause' = "none" /\ signalled' = 0 /\ fresh' = {}
    BY <1>5 DEF PowerLoss, End
  <2>3. safe' \subseteq told'
    BY <1>5 DEF PowerLoss, ToSet, LifeInv, LifeTypeOK, LogOK, Present
  <2>4. losses' \in 0..MaxLosses
    BY <1>5, LifecycleAssumption DEF PowerLoss, LifeInv, LifeTypeOK
  <2> QED
    BY <2>1, <2>2, <2>3, <2>4 DEF LifeTypeOK, Returning
<1>6. CASE TickInTime
  <2>1. UNCHANGED <<phase, cause, signalled, fresh, wal, safe, losses, db, told>>
    BY <1>6 DEF TickInTime, Tick, lifeVars
  <2>2. phase' = "draining" => clock' <= signalled' + Grace
    BY <1>6, <1>t, LifecycleAssumption DEF TickInTime, Tick, Expired, lifeVars, LifeInv, LifeTypeOK
  <2> QED
    BY <1>t, <1>k, <2>1, <2>2 DEF LifeInv, LifeTypeOK, Returning
<1>7. CASE UNCHANGED allVars
  BY <1>7, <1>k, <1>t DEF allVars, LifeInv, LifeTypeOK, Returning
<1> QED
  BY <1>1, <1>2, <1>3, <1>4, <1>5, <1>6, <1>7 DEF LifeNext, Run

(* When Shutdown has waited for everybody, nobody is left to do anything.  *)
LEMMA StopQuiet ==
  ASSUME LifeInv, [LifeNext]_allVars, cause' = "graceful"
  PROVE  fresh' = {} /\ \A r \in Requests : pc'[r] = "idle"
<1>q. ASSUME cause = "graceful"
      PROVE  /\ phase \in {"closing", "closed"} /\ fresh = {} /\ conn = Free
             /\ \A r \in Requests : pc[r] = "idle"
  BY <1>q DEF LifeInv, LifeTypeOK, Returning, Stopped, IInv, TypeOK, OneTransaction
<1>1. ASSUME NEW r \in Requests, Serve(r) PROVE FALSE
  <2>1. cause = "graceful"
    BY <1>1 DEF Serve, Accept, Drop, Arrive, BeginOpen, CommitLogged, FailOrGiveUp, vars, lifeVars
  <2> QED
    BY <1>1, <1>q, <2>1
       DEF Serve, Accept, Drop, Arrive, BeginOpen, CommitLogged, FailOrGiveUp, Begin, Commit,
           Fail, Write, InsertRow, UpdateRow, Unwritten, Respond
<1>2. CASE ShutdownDone
  BY <1>2 DEF ShutdownDone, vars
<1>3. CASE Close
  BY <1>3, <1>q DEF Close, vars
<1>4. CASE Signal \/ ListenFails \/ ShutdownExpires \/ Exit \/ Kill \/ PowerLoss \/ Start
  BY <1>4, <1>q
     DEF Signal, ListenFails, ShutdownExpires, Exit, Kill, PowerLoss, Start, End
<1>5. CASE TickInTime \/ UNCHANGED allVars
  BY <1>5, <1>q DEF TickInTime, Tick, lifeVars, allVars
<1> QED
  BY <1>1, <1>2, <1>3, <1>4, <1>5 DEF LifeNext, Run

(* A closed pool takes no new transaction, and the last one syncs what it  *)
(* leaves when it gives the connection back.                               *)
LEMMA StopSynced ==
  ASSUME LifeInv, [LifeNext]_allVars, phase' = "closed", conn' = Free
  PROVE  wal' = <<db'>>
<1>q. phase = "closed" /\ conn = Free => wal = <<db>>
  BY DEF LifeInv, Stopped
<1>1. ASSUME NEW r \in Requests, Serve(r) PROVE wal' = <<db'>>
  <2>1. phase = "closed"
    BY <1>1 DEF Serve, Accept, Drop, Arrive, BeginOpen, CommitLogged, FailOrGiveUp, vars, lifeVars
  <2>2. CASE CommitLogged(r)
    BY <2>1, <2>2 DEF CommitLogged
  <2>3. CASE FailOrGiveUp(r)
    <3>1. db' = db /\ (pc[r] # "write" => UNCHANGED <<conn, wal>>)
      BY <2>3 DEF FailOrGiveUp, Fail, Rollback
    <3>2. pc[r] = "write" => wal' = <<db>>
      BY <2>1, <2>3 DEF FailOrGiveUp
    <3> QED
      BY <1>q, <2>1, <3>1, <3>2
  <2>4. CASE (Write(r) \/ Respond(r)) /\ UNCHANGED lifeVars
    BY <1>q, <2>1, <2>4 DEF Write, InsertRow, UpdateRow, WriteRow, Respond, lifeVars
  <2>5. CASE Accept(r) \/ Drop(r) \/ Arrive(r)
    BY <1>q, <2>1, <2>5 DEF Accept, Drop, Arrive, Receive, vars
  <2> QED
    BY <1>1, <2>1, <2>2, <2>3, <2>4, <2>5 DEF Serve, BeginOpen
<1>2. CASE Close
  BY <1>2 DEF Close, vars
<1>3. CASE Signal \/ ListenFails \/ ShutdownDone \/ ShutdownExpires \/ Exit \/ Kill \/ PowerLoss \/ Start
  BY <1>3
     DEF Signal, ListenFails, ShutdownDone, ShutdownExpires, Exit, Kill, PowerLoss, Start, End
<1>4. CASE TickInTime \/ UNCHANGED allVars
  BY <1>4, <1>q DEF TickInTime, Tick, lifeVars, allVars
<1> QED
  BY <1>1, <1>2, <1>3, <1>4 DEF LifeNext, Run

(* What a power loss may bring back is the new database or what it might   *)
(* have brought back before; and of a database that is safe from them now, *)
(* nothing else is left in the WAL.                                        *)
LEMMA LogStep == LifeInv /\ [LifeNext]_allVars => LogOK'
<1> SUFFICES ASSUME LifeInv, [LifeNext]_allVars PROVE LogOK'
  OBVIOUS
<1>t. /\ IInv' /\ LifeTypeOK' /\ clock \in Nat \ {0} /\ clock' \in Nat \ {0}
  BY LifeIInv, LifeTypes DEF LifeInv, IInv, TypeOK
<1>d. /\ IdsOf(db')
      /\ \A k \in Keys : Present(db', k) => db'.rows[k].updated <= clock'
      /\ \A s \in safe' : Present(db', s.key) /\ db'.rows[s.key].id = s.id
  BY <1>t DEF IInv, IdsUnique, IdsOf, Present, StampsOrdered, AnsweredStored, LifeTypeOK
<1>1. CASE wal' = <<db'>>
  BY <1>1, <1>d DEF LogOK, IdsOf, Present
<1>2. CASE wal' # <<db'>>
  <2>1. /\ safe' = safe
        /\ clock' \in {clock, clock + 1}
        /\ wal' \in {wal, Append(wal, db')}
    <3>1. ASSUME NEW r \in Requests, Serve(r)
          PROVE  /\ safe' = safe /\ clock' = clock
                 /\ wal' \in {wal, Append(wal, db')}
      <4>1. safe' = safe /\ clock' = clock
        BY <3>1 DEF Serve, Accept, Drop, Arrive, BeginOpen, CommitLogged, FailOrGiveUp, vars,
                    lifeVars, Receive, Begin, Commit, Fail, Write, InsertRow, UpdateRow,
                    WriteRow, Respond
      <4>2. CASE CommitLogged(r)
        <5>1. wal' = <<db'>> \/ wal' = Append(wal, db')
          BY <4>2, Zenon DEF CommitLogged
        <5> QED
          BY <1>2, <4>1, <5>1
      <4>3. CASE FailOrGiveUp(r)
        BY <1>2, <4>3 DEF FailOrGiveUp, Fail, Rollback
      <4> QED
        BY <3>1, <4>1, <4>2, <4>3 DEF Serve, Accept, Drop, Arrive, BeginOpen, lifeVars
    <3>2. CASE Signal \/ ListenFails \/ ShutdownDone \/ ShutdownExpires \/ Start \/ Kill
      BY <3>2 DEF Signal, ListenFails, ShutdownDone, ShutdownExpires, Start, Kill, Crash, vars
    <3>3. CASE Close
      BY <1>2, <3>3 DEF Close, vars
    <3>4. CASE Exit
      BY <1>2, <3>4 DEF Exit, Crash, LifeInv, Stopped
    <3>5. CASE PowerLoss
      BY <1>2, <3>5 DEF PowerLoss
    <3>6. CASE TickInTime
      BY <3>6 DEF TickInTime, Tick, lifeVars
    <3>7. CASE UNCHANGED allVars
      BY <3>7 DEF allVars
    <3> QED
      BY <3>1, <3>2, <3>3, <3>4, <3>5, <3>6, <3>7 DEF LifeNext, Run
  <2>2. ASSUME NEW i \in DOMAIN wal'
        PROVE  wal'[i] = db' \/ \E j \in DOMAIN wal : wal'[i] = wal[j]
    BY <2>1 DEF LifeInv, LifeTypeOK
  <2>3. ASSUME NEW i \in DOMAIN wal', NEW j \in DOMAIN wal, wal'[i] = wal[j]
        PROVE  /\ IdsOf(wal'[i])
               /\ \A k \in Keys : Present(wal'[i], k) => wal'[i].rows[k].updated <= clock'
               /\ \A s \in safe' : Present(wal'[i], s.key) /\ wal'[i].rows[s.key].id = s.id
    <3>1. wal[j] \in Database
      BY DEF LifeInv, LifeTypeOK
    <3>2. ASSUME NEW k \in Keys, Present(wal[j], k) PROVE wal[j].rows[k].updated <= clock'
      BY <1>t, <2>1, <3>1, <3>2 DEF LifeInv, LogOK, Present, Database, Row
    <3> QED
      BY <2>1, <2>3, <3>2 DEF LifeInv, LogOK
  <2> QED
    BY <1>d, <2>2, <2>3 DEF LogOK, IdsOf, Present
<1> QED
  BY <1>1, <1>2

-----------------------------------------------------------------------------
(* The invariant is inductive.                                             *)
THEOREM LifeInvariance == LifeSpec => []LifeInv
<1>1. LifeInv /\ [LifeNext]_allVars => LifeInv'
  <2> SUFFICES ASSUME LifeInv, [LifeNext]_allVars PROVE LifeInv'
    OBVIOUS
  <2>1. Stopped'
    BY StopQuiet, StopSynced DEF Stopped
  <2> QED
    BY <2>1, LifeIInv, LifeTypes, LogStep DEF LifeInv
<1> QED
  BY InitLifeInv, <1>1, PTL DEF LifeSpec

(* No graceful stop cuts off a request that was read.                      *)
THEOREM NothingIsCut == LifeSpec => []GracefulCutsNothing
<1>1. LifeInv => GracefulCutsNothing
  BY DEF LifeInv, Stopped, GracefulCutsNothing
<1> QED
  BY LifeInvariance, <1>1, PTL

(* What was answered before the process ended by itself, with nobody left  *)
(* on the connection, outlives any power loss: it is in everything a power *)
(* loss may bring back, the newest commit included.                        *)
THEOREM StopsAreDurable == LifeSpec => []StoppedIsDurable
<1>1. LifeInv => StoppedIsDurable
  <2>1. LifeTypeOK => Len(wal) \in DOMAIN wal /\ wal[Len(wal)] = db
    BY DEF LifeTypeOK
  <2> QED
    BY <2>1 DEF LifeInv, LogOK, StoppedIsDurable
<1> QED
  BY LifeInvariance, <1>1, PTL
=============================================================================
