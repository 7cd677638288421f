------------------------------ MODULE Lifecycle ------------------------------
(***************************************************************************)
(* The life of the serving process around the uploads of PointStore: run   *)
(* (cmd/itayo/main.go) from listening to the end of the process, Close     *)
(* (internal/store/store.go), and the durability that ensureWAL chooses    *)
(* (internal/store/migrate.go: WAL with synchronous=NORMAL).               *)
(*                                                                         *)
(* On SIGTERM or SIGINT the server stops accepting and waits for what is   *)
(* in flight, at most Grace seconds.  A listener that fails ends run       *)
(* without waiting.  Either way the deferred Close closes the pool, while  *)
(* handlers that are left go on until the process exits.  The handlers'    *)
(* steps are those of PointStore, with what they do to the WAL.            *)
(*                                                                         *)
(* SQLite syncs the WAL at checkpoints only.  wal holds the states of the  *)
(* database that a power loss may bring back: its head is synced, its last *)
(* element is db.                                                          *)
(***************************************************************************)
EXTENDS PointStore, SequencesExt

CONSTANTS
  Grace,      \* 10 seconds in the code
  MaxWal,     \* bound on the unsynced commits, plus one
  MaxLosses   \* bound on the power losses

ASSUME LifecycleAssumption == Grace \in Nat /\ MaxWal \in Nat \ {0} /\ MaxLosses \in Nat

VARIABLES
  phase,      \* what run is doing
  cause,      \* why run returns: Shutdown done, its deadline, or the listener
  signalled,  \* the second of the signal
  fresh,      \* accepted connections whose request is not read yet
  wal,        \* what a power loss may leave, oldest first
  safe,       \* history: told when the process last ended by itself with
              \* nobody left on the connection
  losses      \* power losses so far

lifeVars == <<phase, cause, signalled, fresh, wal, safe, losses>>
allVars == <<db, view, conn, pc, batch, out, clock, told,
             phase, cause, signalled, fresh, wal, safe, losses>>

Returning == phase \in {"closing", "closed"}

LifeInit ==
  /\ Init
  /\ phase = "serving" /\ cause = "none" /\ signalled = 0
  /\ fresh = {}
  /\ wal = <<db>>
  /\ safe = {}
  /\ losses = 0

-----------------------------------------------------------------------------
(* Connections.                                                            *)
Accept(r) ==
  /\ phase = "serving" /\ pc[r] = "idle"
  /\ fresh' = fresh \cup {r}
  /\ UNCHANGED <<vars, phase, cause, signalled, wal, safe, losses>>

(* The client leaves, or Shutdown closes a connection that stays silent.   *)
Drop(r) ==
  /\ r \in fresh
  /\ fresh' = fresh \ {r}
  /\ UNCHANGED <<vars, phase, cause, signalled, wal, safe, losses>>

(* Shutdown ends keep-alive; a failed listener does not.                   *)
Arrive(r) ==
  /\ \/ phase = "serving"
     \/ phase # "down" /\ (r \in fresh \/ cause = "listener")
  /\ Receive(r)
  /\ fresh' = fresh \ {r}
  /\ UNCHANGED <<phase, cause, signalled, wal, safe, losses>>

(* A closed pool refuses BeginTx.                                          *)
BeginOpen(r) ==
  /\ phase # "closed"
  /\ Begin(r)
  /\ UNCHANGED lifeVars

(* Close of the one connection checkpoints and syncs; so may a commit,     *)
(* when the WAL has reached wal_autocheckpoint.                            *)
CommitLogged(r) ==
  /\ Commit(r)
  /\ \/ wal' = <<db'>>
     \/ phase # "closed" /\ Len(wal) < MaxWal /\ wal' = Append(wal, db')
  /\ UNCHANGED <<phase, cause, signalled, fresh, safe, losses>>

(* A connection that comes back to a closed pool is closed.                *)
FailOrGiveUp(r) ==
  /\ Fail(r)
  /\ wal' = IF pc[r] = "write" /\ phase = "closed" THEN <<db>> ELSE wal
  /\ UNCHANGED <<phase, cause, signalled, fresh, safe, losses>>

Serve(r) ==
  \/ Accept(r) \/ Drop(r) \/ Arrive(r) \/ BeginOpen(r) \/ CommitLogged(r) \/ FailOrGiveUp(r)
  \/ (Write(r) \/ Respond(r)) /\ UNCHANGED lifeVars

-----------------------------------------------------------------------------
(* run.                                                                    *)
Signal ==
  /\ phase = "serving" /\ clock + Grace <= MaxClock
  /\ phase' = "draining"
  /\ signalled' = clock
  /\ UNCHANGED <<vars, cause, fresh, wal, safe, losses>>

ListenFails ==
  /\ phase = "serving"
  /\ phase' = "closing" /\ cause' = "listener"
  /\ UNCHANGED <<vars, signalled, fresh, wal, safe, losses>>

ShutdownAtOnce ==  \* mutant: srv.Close for srv.Shutdown
  /\ phase = "draining"
  /\ phase' = "closing" /\ cause' = "graceful"
  /\ UNCHANGED <<vars, signalled, fresh, wal, safe, losses>>

(* Shutdown returns nil: no connection is left with a request.             *)
ShutdownDone ==
  /\ phase = "draining"
  /\ fresh = {} /\ \A r \in Requests : pc[r] = "idle"
  /\ phase' = "closing" /\ cause' = "graceful"
  /\ UNCHANGED <<vars, signalled, fresh, wal, safe, losses>>

ExpiredNever == FALSE  \* mutant: Shutdown gets a context without timeout

ExpiredLate == clock > signalled + Grace  \* mutant: a second too late

Expired == clock >= signalled + Grace

ShutdownExpires ==
  /\ phase = "draining" /\ Expired
  /\ phase' = "closing" /\ cause' = "deadline"
  /\ UNCHANGED <<vars, signalled, fresh, wal, safe, losses>>

CloseAfterGraceful ==  \* mutant: os.Exit in the paths that return an error
  /\ phase = "closing"
  /\ phase' = "closed"
  /\ wal' = IF conn = Free /\ cause = "graceful" THEN <<db>> ELSE wal
  /\ UNCHANGED <<vars, cause, signalled, fresh, safe, losses>>

(* A connection in use is closed when it comes back.                       *)
Close ==
  /\ phase = "closing"
  /\ phase' = "closed"
  /\ wal' = IF conn = Free THEN <<db>> ELSE wal
  /\ UNCHANGED <<vars, cause, signalled, fresh, safe, losses>>

(* The process is gone: every handler with it, what was committed stays.   *)
End ==
  /\ phase' = "down" /\ cause' = "none" /\ signalled' = 0 /\ fresh' = {}

Exit ==
  /\ phase = "closed"
  /\ Crash /\ End
  /\ safe' = IF conn = Free THEN told ELSE safe
  /\ UNCHANGED <<wal, losses>>

Kill ==
  /\ phase # "down"
  /\ Crash /\ End
  /\ UNCHANGED <<wal, safe, losses>>

(* The machine loses power: the commits after some point of wal are gone.  *)
(* told goes on without the answers this makes void.                       *)
PowerLoss ==
  /\ losses < MaxLosses
  /\ db' \in ToSet(wal) /\ view' = db' /\ wal' = <<db'>>
  /\ conn' = Free
  /\ pc' = [r \in Requests |-> "idle"]
  /\ batch' = [r \in Requests |-> <<>>]
  /\ out' = [r \in Requests |-> <<>>]
  /\ End
  /\ losses' = losses + 1
  /\ told' = {t \in told : Present(db', t.key) /\ db'.rows[t.key].id = t.id}
  /\ UNCHANGED <<clock, safe>>

Start ==
  /\ phase = "down"
  /\ phase' = "serving"
  /\ UNCHANGED <<vars, cause, signalled, fresh, wal, safe, losses>>

(* The timer of Shutdown does not let its second pass.                     *)
TickInTime ==
  /\ ~(phase = "draining" /\ Expired)
  /\ Tick
  /\ UNCHANGED lifeVars

Run == Signal \/ ListenFails \/ ShutdownDone \/ ShutdownExpires \/ Close \/ Exit

LifeNext ==
  \/ \E r \in Requests : Serve(r)
  \/ Run \/ Kill \/ PowerLoss \/ Start \/ TickInTime

LifeSpec == LifeInit /\ [][LifeNext]_allVars

(* Time passes, and the goroutine of run goes on; no handler has to.       *)
LifeFairSpec ==
  /\ LifeSpec
  /\ WF_allVars(TickInTime)
  /\ WF_allVars(ShutdownDone) /\ WF_allVars(ShutdownExpires)
  /\ WF_allVars(Close) /\ WF_allVars(Exit)

-----------------------------------------------------------------------------
(* Types; the deadline is kept, and db is the newest state in wal.         *)
LifeTypeOK ==
  /\ phase \in {"serving", "draining", "closing", "closed", "down"}
  /\ cause \in {"none", "graceful", "deadline", "listener"}
  /\ Returning <=> cause # "none"
  /\ phase = "draining" => clock <= signalled + Grace
  /\ fresh \subseteq Requests
  /\ wal \in Seq(Database) /\ wal # <<>> /\ wal[Len(wal)] = db
  /\ safe \subseteq told
  /\ losses \in 0..MaxLosses

(* Whatever a power loss may bring back is a database, unlike the newest   *)
(* one only in what it lacks, and lacks nothing a stop has made safe.      *)
LogOK ==
  \A i \in DOMAIN wal :
    /\ IdsOf(wal[i])
    /\ \A k \in Keys : Present(wal[i], k) => wal[i].rows[k].updated <= clock
    /\ \A t \in safe : Present(wal[i], t.key) /\ wal[i].rows[t.key].id = t.id

(* After a graceful stop nothing is left that could change the database.   *)
(* Whatever made run return, once the pool is closed and nobody has the    *)
(* connection any more everything is synced.                               *)
Stopped ==
  /\ cause = "graceful" => fresh = {} /\ \A r \in Requests : pc[r] = "idle"
  /\ phase = "closed" /\ conn = Free => wal = <<db>>

(* The inductive invariant.                                                *)
LifeInv ==
  /\ IInv
  /\ LifeTypeOK
  /\ signalled \in Nat
  /\ LogOK
  /\ Stopped

(* A stop in which Shutdown succeeds cuts off no request that was read:    *)
(* when the pool is closed nobody is left who needs it, also when requests *)
(* came in on accepted connections after the signal.                       *)
GracefulCutsNothing ==
  cause = "graceful" => \A r \in Requests : pc[r] = "idle"

(* What was answered before the process ended by itself survives power     *)
(* losses, then and later, unless a handler still had the connection: not  *)
(* only after a graceful stop, but also when Shutdown ran out of time or   *)
(* the listener failed while handlers committed under the closed pool.     *)
(* With synchronous=NORMAL that is the checkpoint of Close, or of the last *)
(* handler to give its connection back.                                    *)
StoppedIsDurable ==
  \A t \in safe : Present(db, t.key) /\ db.rows[t.key].id = t.id

(* "SIGTERM / SIGINT" ends the process "within 10 seconds" (README.md),    *)
(* whether or not the handlers in flight ever finish.                      *)
StopEnds == phase = "draining" ~> phase = "down"
=============================================================================
