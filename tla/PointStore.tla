----------------------------- MODULE PointStore -----------------------------
(***************************************************************************)
(* POST /api/v1/points as the code runs it: createPoints                   *)
(* (internal/httpapi/points.go) calling Upsert (internal/store/points.go). *)
(* Several handlers run at once.  Each opens a transaction on the one      *)
(* database connection of the pool (store.go: SetMaxOpenConns(1)), writes  *)
(* its points one INSERT ... ON CONFLICT at a time, commits, and only then *)
(* answers.  A statement may fail, the client may go away, and the process *)
(* may die between any two steps and be started again.                     *)
(*                                                                         *)
(* `db' is what SQLite has committed; `view' is what the connection sees:  *)
(* the same, except inside an open transaction.  Beginning a transaction   *)
(* takes the connection, a commit makes db equal to view, a rollback makes *)
(* view equal to db.                                                       *)
(***************************************************************************)
EXTENDS Integers, Sequences

CONSTANTS
  Keys,       \* upsert keys (timestamp, latitude, longitude)
  Attrs,      \* contents of the non-key columns
  Batches,    \* the batches of points clients send
  Requests,   \* handlers of POST /api/v1/points that may run at once
  NoRow,      \* marks a key with no row
  Free,       \* the connection belongs to no handler
  MaxClock,   \* bound on the seconds that pass
  MaxBurn     \* bound on the ids that updates use up

Point == [key : Keys, attr : Attrs]

Row == [id : Nat \ {0}, attr : Attrs, created : Nat \ {0}, updated : Nat \ {0}]

Entry == [attr : Attrs, updated : Nat \ {0}]

Database == [rows : [Keys -> Row \cup {NoRow}], seq : Nat]

Returned == [key : Keys, id : Nat \ {0}]

ASSUME StoreAssumption ==
  /\ Batches \subseteq Seq(Point)
  /\ NoRow \notin Row
  /\ NoRow \notin Entry
  /\ Free \notin Requests
  /\ MaxClock \in Nat
  /\ MaxBurn \in Nat

VARIABLES
  db,      \* the committed points table and its AUTOINCREMENT counter
  view,    \* the same, as the connection sees it
  conn,    \* the handler that holds the connection, or Free
  pc,      \* where each handler is
  batch,   \* the points of each handler's request
  out,     \* the rows its statements have returned, in order
  clock,   \* unixepoch(), counted from 1
  told     \* history: the (key, id) pairs of all answers sent with 200

vars == <<db, view, conn, pc, batch, out, clock, told>>

Present(d, k) == d.rows[k] # NoRow

-----------------------------------------------------------------------------
Init ==
  /\ db = [rows |-> [k \in Keys |-> NoRow], seq |-> 0]
  /\ view = db
  /\ conn = Free
  /\ pc = [r \in Requests |-> "idle"]
  /\ batch = [r \in Requests |-> <<>>]
  /\ out = [r \in Requests |-> <<>>]
  /\ clock = 1
  /\ told = {}

(* A request arrives; with no valid point there is nothing to write and    *)
(* Upsert returns without a transaction.                                   *)
Receive(r) ==
  /\ pc[r] = "idle"
  /\ \E b \in Batches :
       /\ batch' = [batch EXCEPT ![r] = b]
       /\ pc' = [pc EXCEPT ![r] = IF b = <<>> THEN "respond" ELSE "begin"]
  /\ out' = [out EXCEPT ![r] = <<>>]
  /\ UNCHANGED <<db, view, conn, clock, told>>

(* BeginTx, once the pool has its only connection to give.                 *)
BeginAtOnce(r) ==  \* mutant: the connection is not waited for
  /\ pc[r] = "begin"
  /\ conn' = r
  /\ pc' = [pc EXCEPT ![r] = "write"]
  /\ UNCHANGED <<db, view, batch, out, clock, told>>

Begin(r) ==
  /\ pc[r] = "begin"
  /\ conn = Free
  /\ conn' = r
  /\ pc' = [pc EXCEPT ![r] = "write"]
  /\ UNCHANGED <<db, view, batch, out, clock, told>>

Unwritten(r) == pc[r] = "write" /\ Len(out[r]) < Len(batch[r])

Current(r) == batch[r][Len(out[r]) + 1]

(* The row an INSERT stores: the next id, both stamps from the clock.      *)
Inserted(p, seq) ==
  [id |-> seq + 1, attr |-> p.attr, created |-> clock, updated |-> clock]

(* DO UPDATE SET: every column but the key, id and created_at.             *)
UpdatedReplace(p, row) ==    \* mutant: INSERT OR REPLACE drops created_at
  [row EXCEPT !.attr = p.attr, !.created = clock, !.updated = clock]

UpdatedNoStamp(p, row) ==    \* mutant: updated_at is left out of the SET list
  [row EXCEPT !.attr = p.attr]

UpdatedNoColumns(p, row) ==  \* mutant: the columns are left out of the SET list
  [row EXCEPT !.updated = clock]

Updated(p, row) ==
  [row EXCEPT !.attr = p.attr, !.updated = clock]

(* The statement of the current point, run on the connection's view, and   *)
(* the row it returns.                                                     *)
WriteRowLastInsertId(r, row, seq) ==  \* mutant: LastInsertId for RETURNING id
  /\ view' = [rows |-> [view.rows EXCEPT ![Current(r).key] = row], seq |-> seq]
  /\ out' = [out EXCEPT ![r] = Append(@, [key |-> Current(r).key, id |-> seq])]
  /\ UNCHANGED <<db, conn, pc, batch, clock, told>>

WriteRow(r, row, seq) ==
  /\ view' = [rows |-> [view.rows EXCEPT ![Current(r).key] = row], seq |-> seq]
  /\ out' = [out EXCEPT ![r] = Append(@, [key |-> Current(r).key, id |-> row.id])]
  /\ UNCHANGED <<db, conn, pc, batch, clock, told>>

(* No row with this key yet.                                               *)
InsertRow(r) ==
  /\ Unwritten(r)
  /\ ~Present(view, Current(r).key)
  /\ WriteRow(r, Inserted(Current(r), view.seq), view.seq + 1)

(* The key exists.  SQLite may have used up an id for the INSERT part.     *)
UpdateRow(r) ==
  /\ Unwritten(r)
  /\ Present(view, Current(r).key)
  /\ \E seq \in {view.seq} \cup {n \in {view.seq + 1} : n <= MaxBurn} :
       WriteRow(r, Updated(Current(r), view.rows[Current(r).key]), seq)

CommitForgotten(r) ==  \* mutant: only the deferred Rollback runs
  /\ pc[r] = "write"
  /\ Len(out[r]) = Len(batch[r])
  /\ view' = db
  /\ conn' = Free
  /\ pc' = [pc EXCEPT ![r] = "respond"]
  /\ UNCHANGED <<db, batch, out, clock, told>>

Commit(r) ==
  /\ pc[r] = "write"
  /\ Len(out[r]) = Len(batch[r])
  /\ db' = view
  /\ conn' = Free
  /\ pc' = [pc EXCEPT ![r] = "respond"]
  /\ UNCHANGED <<view, batch, out, clock, told>>

(* 200 with the id of every point.                                         *)
Respond(r) ==
  /\ pc[r] = "respond"
  /\ told' = told \cup {out[r][i] : i \in DOMAIN out[r]}
  /\ pc' = [pc EXCEPT ![r] = "idle"]
  /\ batch' = [batch EXCEPT ![r] = <<>>]
  /\ out' = [out EXCEPT ![r] = <<>>]
  /\ UNCHANGED <<db, view, conn, clock>>

(* The deferred Rollback.                                                  *)
RollbackForgotten ==  \* mutant: what was written so far is committed
  /\ db' = view
  /\ conn' = Free
  /\ UNCHANGED view

RollbackLeak ==       \* mutant: the connection does not go back to the pool
  /\ view' = db
  /\ UNCHANGED <<db, conn>>

Rollback ==
  /\ view' = db
  /\ conn' = Free
  /\ UNCHANGED db

(* BeginTx, a statement or the commit returns an error, or the request's   *)
(* context is cancelled: the answer is 500.                                *)
Fail(r) ==
  /\ \/ pc[r] = "begin" /\ UNCHANGED <<db, view, conn>>
     \/ pc[r] = "write" /\ Rollback
  /\ pc' = [pc EXCEPT ![r] = "idle"]
  /\ batch' = [batch EXCEPT ![r] = <<>>]
  /\ out' = [out EXCEPT ![r] = <<>>]
  /\ UNCHANGED <<clock, told>>

(* The process dies and the service manager starts it again: SQLite rolls  *)
(* back what was not committed, every handler is gone.                     *)
Crash ==
  /\ view' = db
  /\ conn' = Free
  /\ pc' = [r \in Requests |-> "idle"]
  /\ batch' = [r \in Requests |-> <<>>]
  /\ out' = [r \in Requests |-> <<>>]
  /\ UNCHANGED <<db, clock, told>>

Tick ==
  /\ clock < MaxClock
  /\ clock' = clock + 1
  /\ UNCHANGED <<db, view, conn, pc, batch, out, told>>

Write(r) == InsertRow(r) \/ UpdateRow(r)

Handler(r) == Receive(r) \/ Begin(r) \/ Write(r) \/ Commit(r) \/ Respond(r) \/ Fail(r)

Next == (\E r \in Requests : Handler(r)) \/ Crash \/ Tick

Spec == Init /\ [][Next]_vars

(* A handler that can go on does.  A handler that waits for the connection *)
(* gets it if the connection keeps becoming free: database/sql hands a     *)
(* returned connection to a waiter picked at random.                       *)
Fairness ==
  \A r \in Requests :
    /\ SF_vars(Begin(r))
    /\ WF_vars(Write(r))
    /\ WF_vars(Commit(r))
    /\ WF_vars(Respond(r))

FairSpec == Spec /\ Fairness

-----------------------------------------------------------------------------
TypeOK ==
  /\ db \in Database
  /\ view \in Database
  /\ conn \in Requests \cup {Free}
  /\ pc \in [Requests -> {"idle", "begin", "write", "respond"}]
  /\ batch \in [Requests -> Batches \cup {<<>>}]
  /\ out \in [Requests -> Seq(Returned)]
  /\ clock \in Nat \ {0}
  /\ told \subseteq Returned

(* Every (key, id) a client was ever answered with 200 is stored under     *)
(* that id, whatever failed, crashed or ran in between: the durability the *)
(* app relies on when it deletes what it has uploaded.                     *)
AnsweredStored ==
  \A t \in told : Present(db, t.key) /\ db.rows[t.key].id = t.id

(* A handler about to answer 200 returns one row per point, in the order   *)
(* they were sent, and the ids in it are the ids committed, also when      *)
(* other handlers have committed since.                                    *)
AnswerMatchesBatch ==
  \A r \in Requests : pc[r] = "respond" =>
    /\ Len(out[r]) = Len(batch[r])
    /\ \A i \in DOMAIN out[r] :
         /\ out[r][i].key = batch[r][i].key
         /\ Present(db, out[r][i].key)
         /\ out[r][i].id = db.rows[out[r][i].key].id

(* No two keys share an id, and no id is above the AUTOINCREMENT counter,  *)
(* in the committed table and inside the transaction: an id used once      *)
(* never comes to name another point.                                      *)
IdsOf(d) ==
  /\ \A k \in Keys : Present(d, k) => d.rows[k].id <= d.seq
  /\ \A j, k \in Keys : Present(d, j) /\ Present(d, k) /\ d.rows[j].id = d.rows[k].id => j = k

IdsUnique == IdsOf(db) /\ IdsOf(view)

(* Upserting never deletes a point, changes its id or its created_at, or   *)
(* moves its updated_at back.                                              *)
Extends(new, old) ==
  \A k \in Keys : Present(old, k) =>
    /\ Present(new, k)
    /\ new.rows[k].id = old.rows[k].id
    /\ new.rows[k].created = old.rows[k].created
    /\ new.rows[k].updated >= old.rows[k].updated

RowsSurvive == [][Extends(db', db)]_vars

Touched(b) == {b[i].key : i \in DOMAIN b}

IsLast(b, i) ==
  /\ i \in DOMAIN b
  /\ \A j \in DOMAIN b : j > i => b[j].key # b[i].key

(* new is old with the first n points of b applied, later ones winning.    *)
AppliesUpTo(b, n, new, old) ==
  \A k \in Keys :
    \/ \E i \in 1..n :
         /\ b[i].key = k
         /\ \A j \in (i + 1)..n : b[j].key # k
         /\ Present(new, k)
         /\ new.rows[k].attr = b[i].attr
    \/ /\ \A i \in 1..n : b[i].key # k
       /\ new.rows[k] = old.rows[k]

(* All or nothing: the committed rows change only by the whole batch of a  *)
(* handler that thereby goes on to answer 200; whoever answers 500 or dies *)
(* has stored nothing.                                                     *)
WholeBatch ==
  [][db'.rows # db.rows =>
       \E r \in Requests :
         /\ pc[r] = "write" /\ pc'[r] = "respond"
         /\ AppliesUpTo(batch[r], Len(batch[r]), db', db)]_vars

(* A row never becomes visible with a stamp older than one already         *)
(* visible, although handlers take their stamps before they commit: what   *)
(* MAX(updated_at) in the list fingerprint relies on.                      *)
StampsMonotone ==
  [][\A j, k \in Keys :
       db'.rows[k] # db.rows[k] /\ Present(db, j) =>
         db'.rows[k].updated >= db.rows[j].updated]_vars

(* Every request is answered or lost in a crash; nobody waits for the      *)
(* connection for ever.                                                    *)
EveryRequestEnds == \A r \in Requests : pc[r] # "idle" ~> pc[r] = "idle"

-----------------------------------------------------------------------------
(* The committed rows, without what the rest of the program never reads of *)
(* them, keep the promise of PointTable.                                   *)
Visible(d) ==
  [k \in Keys |-> IF Present(d, k)
                  THEN [attr |-> d.rows[k].attr, updated |-> d.rows[k].updated]
                  ELSE NoRow]

Table == INSTANCE PointTable WITH rows <- Visible(db)

TablePromise == Table!TableSpec

-----------------------------------------------------------------------------
(* The inductive invariant.                                                *)

(* At most one handler is in a transaction, the one that holds the         *)
(* connection; outside of one the connection sees what is committed.       *)
OneTransaction ==
  /\ \A r \in Requests : pc[r] = "write" <=> conn = r
  /\ conn = Free => view = db

(* A handler that has no transaction yet has written nothing.              *)
WaitingEmpty == \A r \in Requests : pc[r] = "begin" => out[r] = <<>>

(* The transaction holds exactly the points written so far, stamped no     *)
(* earlier than anything committed.                                        *)
Progress ==
  \A r \in Requests : pc[r] = "write" =>
    /\ Len(out[r]) <= Len(batch[r])
    /\ AppliesUpTo(batch[r], Len(out[r]), view, db)
    /\ \A i \in DOMAIN out[r] :
         /\ out[r][i].key = batch[r][i].key
         /\ Present(view, out[r][i].key)
         /\ out[r][i].id = view.rows[out[r][i].key].id
         /\ \A k \in Keys : Present(db, k) =>
              view.rows[out[r][i].key].updated >= db.rows[k].updated

(* No stamp is ahead of the clock.                                         *)
StampsOrdered ==
  /\ \A k \in Keys : Present(db, k) => db.rows[k].updated <= clock
  /\ \A k \in Keys : Present(view, k) => view.rows[k].updated <= clock

IInv ==
  /\ TypeOK
  /\ OneTransaction
  /\ WaitingEmpty
  /\ Progress
  /\ Extends(view, db)
  /\ IdsUnique
  /\ StampsOrdered
  /\ AnswerMatchesBatch
  /\ AnsweredStored
=============================================================================
