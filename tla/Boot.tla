-------------------------------- MODULE Boot --------------------------------
(***************************************************************************)
(* From starting the process to serving: run (cmd/itayo/main.go), Open     *)
(* (internal/store/store.go), migrate and ensureWAL                        *)
(* (internal/store/migrate.go), and EnsureIdentity                         *)
(* (internal/store/identity.go), which httpapi.New calls before the server *)
(* listens.  Every SQL statement commits on its own, also inside one       *)
(* multi-statement migration; any of them may fail, which ends the         *)
(* process, and the process may die between any two, or the machine lose   *)
(* its power and with it what was committed but not synced.  The service   *)
(* manager starts it again, perhaps with another configuration.            *)
(***************************************************************************)
EXTENDS Integers, Sequences, FiniteSets

CONSTANTS
  Kinds,      \* kinds of DATABASE_PATH tried: a subset of PathKinds
  Owners,     \* configured USER_EMAIL and USER_THEME
  Initial,    \* databases found at the first start: a subset of {"none", "mvp"}
  Nobody,     \* the identity table has no row
  MaxClock,   \* bound on the seconds that pass
  MaxDeaths   \* bound on how often the process ends, power losses included

(* A plain path gets the pragmas of Open's DSN, a "file:" URI is used as   *)
(* given, and a memory database lives as long as the process.              *)
PathKinds == {"plain", "uri", "memory"}

ASSUME BootAssumption ==
  /\ Kinds \subseteq PathKinds
  /\ Initial \subseteq {"none", "mvp"}
  /\ Nobody \notin [owner : Owners, created : Nat, updated : Nat]
  /\ MaxClock \in Nat
  /\ MaxDeaths \in Nat

(* The statements of each migration, named for the object they create.     *)
Schema ==
  << <<"points", "points_upsert", "settings">>,
     <<"points_timestamp", "points_bbox", "identity", "mobile_settings">> >>

ObjectsOf(v) == {Schema[v][i] : i \in DOMAIN Schema[v]}

Versions == DOMAIN Schema

Objects == {"schema_migrations"} \cup UNION {ObjectsOf(v) : v \in Versions}

VARIABLES
  kind,      \* what DATABASE_PATH is
  objs,      \* tables and indexes of the database
  versions,  \* the rows of schema_migrations
  wal,       \* the database file is in WAL mode
  identity,  \* the row of identity, or Nobody
  owner,     \* the configuration of the running process
  pc,        \* where the process is
  mig, step, \* the migration and the statement of it that come next
  clock,     \* now
  deaths,    \* how often the process has ended
  log,       \* what a loss of power may leave, oldest first: the database
             \* as it was last synced, and every commit since
  torn       \* history: it ended with points created but not settings

database == [objs |-> objs, versions |-> versions, wal |-> wal, identity |-> identity]
vars == <<kind, objs, versions, wal, identity, owner, pc, mig, step, clock, deaths, log, torn>>

Identity == [owner : Owners, created : Nat, updated : Nat]

(* Commits are synced at once unless the connection runs with              *)
(* synchronous=NORMAL: from the DSN of a plain path, and after ensureWAL   *)
(* otherwise.  Then a commit is synced when it reaches wal_autocheckpoint. *)
Lazy == kind = "plain" \/ (kind = "uri" /\ pc = "identity")

Committed ==
  IF database' = database
  THEN UNCHANGED log
  ELSE \/ log' = <<database'>>
       \/ Lazy /\ log' = Append(log, database')

(* A change of the journal mode is synced.                                 *)
Synced == log' = IF database' = database THEN log ELSE <<database'>>

Init ==
  /\ kind \in Kinds
  /\ objs \in IF kind = "memory" THEN {{}}
              ELSE {IF i = "mvp" THEN ObjectsOf(1) ELSE {} : i \in Initial}
  /\ versions = {}
  /\ wal = FALSE
  /\ identity = Nobody
  /\ owner \in Owners
  /\ pc = "down"
  /\ mig = 1 /\ step = 1
  /\ clock = 0
  /\ deaths = 0
  /\ log = <<database>>
  /\ torn = FALSE

Start ==
  /\ pc = "down"
  /\ owner' \in Owners
  /\ pc' = "connect"
  /\ UNCHANGED <<kind, objs, versions, wal, identity, mig, step, clock, deaths, log, torn>>

(* The first connection runs the pragmas of the DSN.                       *)
Connect ==
  /\ pc = "connect"
  /\ wal' = (wal \/ kind = "plain")
  /\ pc' = "versions"
  /\ UNCHANGED <<kind, objs, versions, identity, owner, mig, step, clock, deaths, torn>>
  /\ Synced

CreateVersions ==
  /\ pc = "versions"
  /\ objs' = objs \cup {"schema_migrations"}
  /\ pc' = "adopt"
  /\ UNCHANGED <<kind, versions, wal, identity, owner, mig, step, clock, deaths, torn>>
  /\ Committed

SchemaVersion(vs) == IF vs = {} THEN 0 ELSE CHOOSE v \in vs : \A w \in vs : w <= v

(* A database without a version but with a points table is taken for one   *)
(* of the MVP, which is version 1.                                         *)
Adopt ==
  /\ pc = "adopt"
  /\ versions' = IF SchemaVersion(versions) = 0 /\ "points" \in objs THEN {1} ELSE versions
  /\ mig' = SchemaVersion(versions') + 1
  /\ step' = 1
  /\ pc' = "migrate"
  /\ UNCHANGED <<kind, objs, wal, identity, owner, clock, deaths, torn>>
  /\ Committed

RunStatementOnce ==  \* mutant: CREATE without IF NOT EXISTS
  /\ pc = "migrate"
  /\ mig \in Versions /\ step \in DOMAIN Schema[mig]
  /\ Schema[mig][step] \notin objs
  /\ objs' = objs \cup {Schema[mig][step]}
  /\ step' = step + 1
  /\ UNCHANGED <<kind, versions, wal, identity, owner, pc, mig, clock, deaths, torn>>
  /\ Committed

RunStatement ==
  /\ pc = "migrate"
  /\ mig \in Versions /\ step \in DOMAIN Schema[mig]
  /\ objs' = objs \cup {Schema[mig][step]}
  /\ step' = step + 1
  /\ UNCHANGED <<kind, versions, wal, identity, owner, pc, mig, clock, deaths, torn>>
  /\ Committed

RecordVersionFirst ==  \* mutant: the version is recorded before its statements ran
  /\ pc = "migrate"
  /\ mig \in Versions /\ (step \notin DOMAIN Schema[mig] \/ mig \notin versions)
  /\ versions' = versions \cup {mig}
  /\ IF step \in DOMAIN Schema[mig]
     THEN UNCHANGED <<mig, step>>
     ELSE mig' = mig + 1 /\ step' = 1
  /\ UNCHANGED <<kind, objs, wal, identity, owner, pc, clock, deaths, torn>>
  /\ Committed

RecordVersion ==
  /\ pc = "migrate"
  /\ mig \in Versions /\ step \notin DOMAIN Schema[mig]
  /\ versions' = versions \cup {mig}
  /\ mig' = mig + 1
  /\ step' = 1
  /\ UNCHANGED <<kind, objs, wal, identity, owner, pc, clock, deaths, torn>>
  /\ Committed

EnsureWALSkipped ==  \* mutant: the DSN is trusted to have set the journal mode
  /\ pc = "migrate" /\ mig \notin Versions
  /\ pc' = "identity"
  /\ UNCHANGED <<kind, objs, versions, wal, identity, owner, mig, step, clock, deaths, log, torn>>

EnsureWAL ==
  /\ pc = "migrate" /\ mig \notin Versions
  /\ wal' = (wal \/ kind # "memory")
  /\ pc' = "identity"
  /\ UNCHANGED <<kind, objs, versions, identity, owner, mig, step, clock, deaths, torn>>
  /\ Synced

(* The identity row EnsureIdentity leaves, and the server listens.         *)
SeededReplace ==  \* mutant: a changed configuration replaces the row
  IF identity = Nobody \/ identity.owner # owner
  THEN [owner |-> owner, created |-> clock, updated |-> clock]
  ELSE identity

Seeded ==
  IF identity = Nobody
  THEN [owner |-> owner, created |-> clock, updated |-> clock]
  ELSE IF identity.owner # owner
       THEN [identity EXCEPT !.owner = owner, !.updated = clock]
       ELSE identity

EnsureIdentity ==
  /\ pc = "identity"
  /\ "identity" \in objs
  /\ identity' = Seeded
  /\ pc' = "serving"
  /\ UNCHANGED <<kind, objs, versions, wal, owner, mig, step, clock, deaths, torn>>
  /\ Committed

(* The process ends without the machine: a statement fails, or it is       *)
(* stopped or killed.  What was committed stays, unless it was in memory;  *)
(* it is synced if the process came to close the database.                 *)
Die ==
  /\ pc # "down"
  /\ deaths < MaxDeaths
  /\ deaths' = deaths + 1
  /\ pc' = "down"
  /\ mig' = 1 /\ step' = 1
  /\ IF kind = "memory"
     THEN objs' = {} /\ versions' = {} /\ wal' = FALSE /\ identity' = Nobody
     ELSE UNCHANGED <<objs, versions, wal, identity>>
  /\ log' = <<database'>> \/ (kind # "memory" /\ UNCHANGED log)
  /\ torn' = (torn \/ (kind # "memory" /\ "points" \in objs /\ "settings" \notin objs))
  /\ UNCHANGED <<kind, owner, clock>>

(* The machine loses its power, whether the process runs or not: the       *)
(* commits since the last sync are gone from some point on.                *)
PowerLoss ==
  /\ kind # "memory"
  /\ deaths < MaxDeaths
  /\ deaths' = deaths + 1
  /\ pc' = "down"
  /\ mig' = 1 /\ step' = 1
  /\ \E i \in DOMAIN log :
       /\ objs' = log[i].objs /\ versions' = log[i].versions
       /\ wal' = log[i].wal /\ identity' = log[i].identity
  /\ log' = <<database'>>
  /\ torn' = (torn \/ ("points" \in objs' /\ "settings" \notin objs'))
  /\ UNCHANGED <<kind, owner, clock>>

(* The commits of the handlers reach wal_autocheckpoint.                   *)
Checkpoint ==
  /\ pc = "serving"
  /\ log' = <<database>>
  /\ UNCHANGED <<kind, objs, versions, wal, identity, owner, pc, mig, step, clock, deaths, torn>>

Tick ==
  /\ clock < MaxClock
  /\ clock' = clock + 1
  /\ UNCHANGED <<kind, objs, versions, wal, identity, owner, pc, mig, step, deaths, log, torn>>

Boots == \/ Start \/ Connect \/ CreateVersions \/ Adopt \/ RunStatement
         \/ RecordVersion \/ EnsureWAL \/ EnsureIdentity

Next == Boots \/ Checkpoint \/ Die \/ PowerLoss \/ Tick

Spec == Init /\ [][Next]_vars

(* The process runs, and is started again when it has ended.               *)
FairSpec == Spec /\ WF_vars(Boots)

-----------------------------------------------------------------------------
(* The server listens only on a complete, versioned database, in WAL mode  *)
(* when it is a file, for the configured user, whatever failed in earlier  *)
(* starts and whoever they were for - except that a start that ended       *)
(* inside migration 1 of a new database is not healed.                     *)
ServingComplete ==
  pc = "serving" =>
    /\ ~torn => objs = Objects
    /\ versions = Versions
    /\ kind # "memory" => wal
    /\ identity # Nobody /\ identity.owner = owner

(* A version 2 on record means that all of migration 2 was applied, even   *)
(* if that took several starts.                                            *)
Version2Complete == 2 \in versions => ObjectsOf(2) \subseteq objs

(* "MVP databases created before versioning are schema v1." (migrate.go):  *)
(* a version on record means that all of that version was applied.         *)
VersionsComplete == \A v \in versions : ObjectsOf(v) \subseteq objs

(* "created_at is stable": over restarts and changes of configuration the  *)
(* identity of a database file is never lost or dated anew, but by a loss  *)
(* of power that takes its seeding, when nothing was synced since - once   *)
(* synced it stays, whatever is lost of the commits that follow.           *)
CreatedAtStable ==
  [][kind # "memory" /\ identity # Nobody =>
       \/ identity' # Nobody /\ identity'.created = identity.created
       \/ PowerLoss /\ identity' = Nobody /\ log[1].identity = Nobody]_vars

(* However its starts are cut short, as long as that ends, the process     *)
(* comes to serve and stays there: no database it leaves behind stops it.  *)
ComesToServe == <>[](pc = "serving")

-----------------------------------------------------------------------------
(* The inductive invariant.                                                *)
TypeOK ==
  /\ kind \in PathKinds
  /\ objs \subseteq Objects
  /\ versions \in {{}, {1}, {1, 2}}
  /\ wal \in BOOLEAN /\ torn \in BOOLEAN
  /\ identity \in Identity \cup {Nobody}
  /\ owner \in Owners
  /\ pc \in {"down", "connect", "versions", "adopt", "migrate", "identity", "serving"}
  /\ clock \in Nat

(* How far the start has come.                                             *)
Reached ==
  /\ pc \in {"adopt", "migrate", "identity", "serving"} => "schema_migrations" \in objs
  /\ pc = "migrate" =>
       \/ mig = 1 /\ versions = {} /\ step \in 1..4
          /\ \A i \in 1..3 : i < step => Schema[1][i] \in objs
       \/ mig = 2 /\ versions = {1} /\ step \in 1..5
          /\ \A i \in 1..4 : i < step => Schema[2][i] \in objs
       \/ mig = 3 /\ versions = {1, 2}
  /\ pc \in {"identity", "serving"} => versions = {1, 2} /\ (kind # "memory" => wal)
  /\ pc = "serving" => identity # Nobody /\ identity.owner = owner

(* The objects of migration 1 come in its order; a table without the rest  *)
(* is being completed, or is what torn remembers.                          *)
FirstInOrder ==
  /\ "settings" \in objs => ObjectsOf(1) \subseteq objs
  /\ "points" \in objs => torn \/ "settings" \in objs \/ (pc = "migrate" /\ mig = 1)
  /\ 1 \in versions => torn \/ "settings" \in objs

(* What a loss of power may leave is like what a death may leave, and no   *)
(* commit takes the identity away or dates it anew.                        *)
Databases ==
  [objs : SUBSET Objects, versions : {{}, {1}, {1, 2}}, wal : BOOLEAN,
   identity : Identity \cup {Nobody}]

Sound(d) ==
  /\ "settings" \in d.objs => ObjectsOf(1) \subseteq d.objs
  /\ 1 \in d.versions => torn \/ "settings" \in d.objs
  /\ 2 \in d.versions => ObjectsOf(2) \subseteq d.objs

KeepsIdentity(d, e) ==
  d.identity # Nobody => e.identity # Nobody /\ e.identity.created = d.identity.created

LogOK ==
  /\ log \in Seq(Databases)
  /\ log # <<>> /\ log[Len(log)] = database
  /\ \A i \in DOMAIN log : Sound(log[i])
  /\ \A i, j \in DOMAIN log : i < j => KeepsIdentity(log[i], log[j])

IInv == TypeOK /\ Reached /\ FirstInOrder /\ Version2Complete /\ LogOK
=============================================================================
