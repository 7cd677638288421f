----------------------------- MODULE BootProofs -----------------------------
(***************************************************************************)
(* Proofs about Boot, for any configurations and any number of deaths.     *)
(***************************************************************************)
EXTENDS Boot, TLAPS

-----------------------------------------------------------------------------
(* The two migrations, object by object.                                   *)
LEMMA TheSchema ==
  /\ Versions = {1, 2}
  /\ DOMAIN Schema[1] = 1..3 /\ DOMAIN Schema[2] = 1..4
  /\ Schema[1][1] = "points" /\ Schema[1][2] = "points_upsert" /\ Schema[1][3] = "settings"
  /\ ObjectsOf(1) = {"points", "points_upsert", "settings"}
  /\ ObjectsOf(2) = {Schema[2][i] : i \in 1..4}
  /\ Objects = {"schema_migrations"} \cup ObjectsOf(1) \cup ObjectsOf(2)
  /\ "points" \notin ObjectsOf(2) /\ "settings" \notin ObjectsOf(2)
<1>1. Versions = {1, 2}
  BY DEF Versions, Schema
<1>2. DOMAIN Schema[1] = 1..3 /\ DOMAIN Schema[2] = 1..4
  BY DEF Schema
<1>3. Schema[1][1] = "points" /\ Schema[1][2] = "points_upsert" /\ Schema[1][3] = "settings"
  BY DEF Schema
<1>4. ObjectsOf(1) = {"points", "points_upsert", "settings"}
  BY <1>2, <1>3 DEF ObjectsOf
<1>5. ObjectsOf(2) = {Schema[2][i] : i \in 1..4}
  BY <1>2 DEF ObjectsOf
<1>6. Objects = {"schema_migrations"} \cup ObjectsOf(1) \cup ObjectsOf(2)
  BY <1>1 DEF Objects
<1>7. \A i \in 1..4 : Schema[2][i] # "points" /\ Schema[2][i] # "settings"
  BY DEF Schema
<1> QED
  BY <1>1, <1>2, <1>3, <1>4, <1>5, <1>6, <1>7

(* The version read back from what can be on record.                       *)
LEMMA HighestVersion ==
  ASSUME NEW vs \in {{}, {1}, {1, 2}}
  PROVE  SchemaVersion(vs) = IF vs = {} THEN 0 ELSE IF vs = {1} THEN 1 ELSE 2
<1>1. CASE vs = {}
  BY <1>1 DEF SchemaVersion
<1>2. CASE vs = {1}
  BY <1>2 DEF SchemaVersion
<1>3. CASE vs = {1, 2}
  BY <1>3 DEF SchemaVersion
<1> QED
  BY <1>1, <1>2, <1>3

-----------------------------------------------------------------------------
(* What is said of the database and the place of the process, without the  *)
(* log.                                                                    *)
SInv == TypeOK /\ Reached /\ FirstInOrder /\ Version2Complete

(* No database, or one of the MVP.                                         *)
LEMMA InitSInv == Init => SInv
<1> SUFFICES ASSUME Init PROVE SInv
  OBVIOUS
<1>1. objs = {} \/ objs = ObjectsOf(1)
  BY DEF Init
<1>2. TypeOK
  BY <1>1, TheSchema, BootAssumption DEF Init, TypeOK
<1>3. Reached /\ FirstInOrder /\ Version2Complete
  BY <1>1, TheSchema DEF Init, Reached, FirstInOrder, Version2Complete
<1> QED
  BY <1>2, <1>3 DEF SInv

(* Steps that leave schema and versions as they are.                       *)
LEMMA QuietSInv == SInv /\ (Start \/ Connect \/ EnsureWAL \/ Checkpoint \/ Tick \/ UNCHANGED vars) => SInv'
<1> SUFFICES ASSUME SInv, Start \/ Connect \/ EnsureWAL \/ Checkpoint \/ Tick \/ UNCHANGED vars PROVE SInv'
  OBVIOUS
<1> USE DEF SInv, TypeOK, Reached, FirstInOrder, Version2Complete
<1>1. CASE Start
  BY <1>1 DEF Start
<1>2. CASE Connect
  BY <1>2 DEF Connect
<1>3. CASE EnsureWAL
  BY <1>3, TheSchema DEF EnsureWAL
<1>4. CASE Checkpoint
  BY <1>4 DEF Checkpoint
<1>5. CASE Tick
  BY <1>5 DEF Tick
<1>6. CASE UNCHANGED vars
  BY <1>6 DEF vars
<1> QED
  BY <1>1, <1>2, <1>3, <1>4, <1>5, <1>6

LEMMA AdoptSInv == SInv /\ (CreateVersions \/ Adopt) => SInv'
<1> SUFFICES ASSUME SInv, CreateVersions \/ Adopt PROVE SInv'
  OBVIOUS
<1> USE DEF SInv, TypeOK, Reached, FirstInOrder, Version2Complete
<1>1. CASE CreateVersions
  BY <1>1, TheSchema DEF CreateVersions
<1>2. CASE Adopt
  <2>1. versions' \in {{}, {1}, {1, 2}}
    BY <1>2 DEF Adopt
  <2>2. /\ mig' = SchemaVersion(versions') + 1 /\ step' = 1
        /\ pc' = "migrate" /\ pc = "adopt"
        /\ versions' = versions \/ (versions = {} /\ versions' = {1} /\ "points" \in objs)
    BY <1>2, HighestVersion DEF Adopt
  <2>3. SchemaVersion(versions') = IF versions' = {} THEN 0 ELSE IF versions' = {1} THEN 1 ELSE 2
    BY <2>1, HighestVersion
  <2>4. versions = {} => versions' = {1} \/ "points" \notin objs
    BY <1>2, HighestVersion DEF Adopt
  <2> QED
    BY <1>2, <2>1, <2>2, <2>3, <2>4, TheSchema DEF Adopt
<1> QED
  BY <1>1, <1>2

LEMMA StatementSInv == SInv /\ RunStatement => SInv'
<1> SUFFICES ASSUME SInv, RunStatement PROVE SInv'
  OBVIOUS
<1> USE DEF SInv, TypeOK, Reached, FirstInOrder, Version2Complete
<1>1. CASE mig = 1
  <2>1. step \in 1..3 /\ versions = {} /\ step' = step + 1 /\ objs' = objs \cup {Schema[1][step]}
    BY <1>1, TheSchema DEF RunStatement
  <2>2. CASE step = 1
    BY <1>1, <2>1, <2>2, TheSchema DEF RunStatement
  <2>3. CASE step = 2
    BY <1>1, <2>1, <2>3, TheSchema DEF RunStatement
  <2>4. CASE step = 3
    BY <1>1, <2>1, <2>4, TheSchema DEF RunStatement
  <2> QED
    BY <2>1, <2>2, <2>3, <2>4
<1>2. CASE mig = 2
  <2>1. /\ step \in 1..4 /\ versions = {1} /\ step' = step + 1 /\ pc = "migrate"
        /\ objs' = objs \cup {Schema[2][step]}
        /\ UNCHANGED <<kind, versions, wal, identity, owner, pc, mig, clock, torn>>
    BY <1>2, TheSchema DEF RunStatement
  <2>2. \A i \in 1..4 : i < step' => Schema[2][i] \in objs'
    BY <1>2, <2>1
  <2>3. TypeOK'
    BY <2>1, TheSchema
  <2> QED
    BY <1>2, <2>1, <2>2, <2>3, TheSchema
<1> QED
  BY <1>1, <1>2, TheSchema DEF RunStatement

LEMMA RecordSInv == SInv /\ RecordVersion => SInv'
<1> SUFFICES ASSUME SInv, RecordVersion PROVE SInv'
  OBVIOUS
<1> USE DEF SInv, TypeOK, Reached, FirstInOrder, Version2Complete
<1>1. CASE mig = 1
  <2>1. step = 4 /\ versions' = {1} /\ mig' = 2 /\ step' = 1
    BY <1>1, TheSchema DEF RecordVersion
  <2> QED
    BY <1>1, <2>1, TheSchema DEF RecordVersion
<1>2. CASE mig = 2
  <2>1. step = 5 /\ versions' = {1, 2} /\ mig' = 3
    BY <1>2, TheSchema DEF RecordVersion
  <2> QED
    BY <1>2, <2>1, TheSchema DEF RecordVersion
<1> QED
  BY <1>1, <1>2, TheSchema DEF RecordVersion

LEMMA SeededIsIdentity ==
  ASSUME TypeOK
  PROVE  /\ Seeded \in Identity /\ Seeded.owner = owner
         /\ identity # Nobody => Seeded.created = identity.created
  BY DEF TypeOK, Seeded, Identity

LEMMA IdentitySInv == SInv /\ EnsureIdentity => SInv'
  BY SeededIsIdentity, BootAssumption
     DEF EnsureIdentity, SInv, TypeOK, Reached, FirstInOrder, Version2Complete, Identity

LEMMA DieSInv == SInv /\ Die => SInv'
<1> SUFFICES ASSUME SInv, Die PROVE SInv'
  OBVIOUS
<1> USE DEF SInv, TypeOK, Reached, FirstInOrder, Version2Complete, Die
<1>1. CASE kind = "memory"
  BY <1>1
<1>2. CASE kind # "memory"
  BY <1>2
<1> QED
  BY <1>1, <1>2

------------------------------------------------------------(* What a loss of power leaves is as sound as what a death leaves; a table *)
(* without the rest of its migration is remembered by torn.                *)
LEMMA LossSInv == IInv /\ PowerLoss => SInv'
<1> SUFFICES ASSUME IInv, PowerLoss PROVE SInv'
  OBVIOUS
<1>1. PICK i \in DOMAIN log :
        /\ objs' = log[i].objs /\ versions' = log[i].versions
        /\ wal' = log[i].wal /\ identity' = log[i].identity
  BY DEF PowerLoss
<1>2. log[i] \in Databases /\ Sound(log[i])
  BY DEF IInv, LogOK
<1>3. TypeOK'
  BY <1>1, <1>2 DEF IInv, TypeOK, PowerLoss, Databases
<1>4. Reached'
  BY DEF PowerLoss, Reached
<1>5. FirstInOrder' /\ Version2Complete'
  BY <1>1, <1>2 DEF PowerLoss, Sound, FirstInOrder, Version2Complete, IInv, TypeOK
<1> QED
  BY <1>3, <1>4, <1>5 DEF SInv

-----------------------------------------------------------------------------
(* The database is one that a death may leave.                             *)
LEMMA DatabaseIsSound == SInv => database \in Databases /\ Sound(database)
  BY DEF SInv, TypeOK, FirstInOrder, Version2Complete, database, Databases, Sound

(* No step but a death takes the identity away or dates it anew.           *)
LEMMA IdentityIsKept ==
  ASSUME SInv, Boots \/ Checkpoint \/ Tick
  PROVE  KeepsIdentity(database, database') /\ torn' = torn
<1>1. CASE EnsureIdentity
  BY <1>1, SeededIsIdentity, BootAssumption
     DEF SInv, EnsureIdentity, database, KeepsIdentity, Identity
<1>2. CASE ~EnsureIdentity
  <2>1. identity' = identity /\ torn' = torn
    BY <1>2 DEF Boots, Start, Connect, CreateVersions, Adopt, RunStatement, RecordVersion,
                EnsureWAL, Checkpoint, Tick
  <2> QED
    BY <2>1 DEF database, KeepsIdentity
<1> QED
  BY <1>1, <1>2

(* The log of one database, and the log with a commit more.                *)
LEMMA LogOfOne ==
  ASSUME SInv', log' = <<database'>>
  PROVE  LogOK'
<1> DEFINE d == database'
<1>1. d \in Databases /\ Sound(database)'
  BY DEF SInv, TypeOK, FirstInOrder, Version2Complete, database, Databases, Sound
<1>2. log' = <<d>>
  OBVIOUS
<1> HIDE DEF d
<1>3. log' \in Seq(Databases) /\ log' # <<>> /\ Len(log') = 1 /\ DOMAIN log' = 1..1
  BY <1>1, <1>2
<1>4. \A i \in DOMAIN log' : i = 1 /\ log'[i] = d
  BY <1>2, <1>3
<1> QED
  BY <1>1, <1>3, <1>4 DEF LogOK, d, Sound

LEMMA LogOfMore ==
  ASSUME LogOK, SInv', torn' = torn, KeepsIdentity(database, database'),
         log' = Append(log, database')
  PROVE  LogOK'
<1> DEFINE d == database'
           n == Len(log)
<1>1. d \in Databases /\ Sound(database)'
  BY DEF SInv, TypeOK, FirstInOrder, Version2Complete, database, Databases, Sound
<1>2. log' = Append(log, d) /\ log \in Seq(Databases) /\ log # <<>> /\ log[n] = database
  BY DEF LogOK
<1>3. KeepsIdentity(log[n], d)
  BY <1>2
<1> HIDE DEF d
<1>4. /\ n \in Nat \ {0} /\ DOMAIN log = 1..n /\ DOMAIN log' = 1..(n + 1)
      /\ log' \in Seq(Databases) /\ Len(log') = n + 1 /\ log' # <<>>
      /\ log'[n + 1] = d /\ \A i \in 1..n : log'[i] = log[i]
  BY <1>1, <1>2
<1> HIDE DEF n
<1>5. \A i \in DOMAIN log' : Sound(log[i])'
  BY <1>1, <1>4 DEF LogOK, Sound, d
<1>6. \A i \in 1..n : KeepsIdentity(log[i], d)
  <2> TAKE i \in 1..n
  <2>1. i = n \/ i < n
    BY <1>4
  <2>2. i < n => KeepsIdentity(log[i], log[n])
    BY <1>4 DEF LogOK
  <2> QED
    BY <1>3, <2>1, <2>2 DEF KeepsIdentity
<1>7. \A i, j \in DOMAIN log' : i < j => KeepsIdentity(log'[i], log'[j])
  <2> SUFFICES ASSUME NEW i \in DOMAIN log', NEW j \in DOMAIN log', i < j
               PROVE  KeepsIdentity(log'[i], log'[j])
    OBVIOUS
  <2>1. i \in 1..n /\ (j = n + 1 \/ j \in 1..n)
    BY <1>4
  <2> QED
    BY <1>4, <1>6, <2>1 DEF LogOK
<1> QED
  BY <1>4, <1>5, <1>7 DEF LogOK, d

LEMMA LogStays ==
  ASSUME LogOK, torn' = torn, UNCHANGED <<log, database>>
  PROVE  LogOK'
  BY DEF LogOK, Sound

(* What may be in the log stays sound, whoever commits, syncs or loses it. *)
LEMMA LogSteps ==
  ASSUME IInv, SInv', Next
  PROVE  LogOK'
<1>1. CASE Die \/ PowerLoss
  <2>1. CASE log' = <<database'>>
    BY <2>1, LogOfOne
  <2>2. CASE log' # <<database'>>
    <3>1. Die /\ UNCHANGED log /\ UNCHANGED database /\ torn' = (torn \/ torn')
      BY <1>1, <2>2 DEF Die, PowerLoss, database
    <3> QED
      BY <3>1 DEF IInv, LogOK, Sound
  <2> QED
    BY <2>1, <2>2
<1>2. CASE Boots \/ Checkpoint \/ Tick
  <2>1. KeepsIdentity(database, database') /\ torn' = torn
    BY <1>2, IdentityIsKept DEF IInv, SInv
  <2>2. \/ log' = <<database'>>
        \/ log' = Append(log, database')
        \/ UNCHANGED <<log, database>>
    <3>1. CASE Start \/ Checkpoint \/ Tick
      BY <3>1 DEF Start, Checkpoint, Tick, database
    <3>2. CASE Connect \/ EnsureWAL
      BY <3>2 DEF Connect, EnsureWAL, Synced
    <3>3. CASE CreateVersions \/ Adopt \/ RunStatement \/ RecordVersion \/ EnsureIdentity
      BY <3>3 DEF CreateVersions, Adopt, RunStatement, RecordVersion, EnsureIdentity, Committed
    <3> QED
      BY <1>2, <3>1, <3>2, <3>3 DEF Boots
  <2> QED
    BY <2>1, <2>2, LogOfOne, LogOfMore, LogStays DEF IInv
<1> QED
  BY <1>1, <1>2 DEF Next

-----------------
THEOREM Invariance == Spec => []IInv
<1>1. Init => IInv
  <2> SUFFICES ASSUME Init PROVE IInv
    OBVIOUS
  <2>1. SInv /\ log = <<database>>
    BY InitSInv DEF Init
  <2>2. database \in Databases /\ Sound(database)
    BY <2>1, DatabaseIsSound
  <2> DEFINE d == database
  <2>3. log = <<d>> /\ d \in Databases
    BY <2>1, <2>2
  <2> HIDE DEF d
  <2>4. log \in Seq(Databases) /\ log # <<>> /\ Len(log) = 1 /\ \A i \in DOMAIN log : i = 1 /\ log[i] = d
    BY <2>3
  <2> QED
    BY <2>1, <2>2, <2>4 DEF IInv, SInv, LogOK, d
<1>2. IInv /\ Next => IInv'
  <2> SUFFICES ASSUME IInv, Next PROVE IInv'
    OBVIOUS
  <2>1. SInv'
    BY QuietSInv, AdoptSInv, StatementSInv, RecordSInv, IdentitySInv, DieSInv, LossSInv
       DEF Next, Boots, IInv, SInv
  <2> QED
    BY <2>1, LogSteps DEF IInv, SInv
<1>3. IInv /\ UNCHANGED vars => IInv'
  <2> SUFFICES ASSUME IInv, UNCHANGED vars PROVE IInv'
    OBVIOUS
  <2>1. SInv'
    BY QuietSInv DEF IInv, SInv
  <2>2. LogOK'
    BY LogStays DEF IInv, vars, database
  <2> QED
    BY <2>1, <2>2 DEF IInv, SInv
<1> QED
  BY <1>1, <1>2, <1>3, PTL DEF Spec

(* The server never listens on a part of the schema, without WAL or for    *)
(* the owner of an earlier configuration, but for what torn remembers.     *)
THEOREM ListensWhenComplete == Spec => []ServingComplete
<1>1. IInv => ServingComplete
  BY TheSchema DEF IInv, TypeOK, Reached, FirstInOrder, Version2Complete, ServingComplete
<1> QED
  BY Invariance, <1>1, PTL

(* A recorded version 2 is a complete one.                                 *)
THEOREM Version2IsComplete == Spec => []Version2Complete
  BY Invariance, PTL DEF IInv

(* The identity of a file is never lost or dated anew, but by a loss of    *)
(* power when its seeding was never synced.                                *)
THEOREM CreatedOnce == Spec => CreatedAtStable
<1>1. ASSUME IInv, Next, kind # "memory", identity # Nobody
      PROVE  \/ identity' # Nobody /\ identity'.created = identity.created
             \/ PowerLoss /\ identity' = Nobody /\ log[1].identity = Nobody
  <2>1. CASE Boots \/ Checkpoint \/ Tick
    BY <1>1, <2>1, IdentityIsKept DEF IInv, SInv, KeepsIdentity, database
  <2>2. CASE Die
    BY <1>1, <2>2 DEF Die
  <2>3. CASE PowerLoss
    <3>1. PICK i \in DOMAIN log : identity' = log[i].identity
      BY <2>3 DEF PowerLoss
    <3>2. /\ log \in Seq(Databases) /\ log # <<>> /\ log[Len(log)].identity = identity
          /\ \A m, n \in DOMAIN log : m < n => KeepsIdentity(log[m], log[n])
      BY <1>1 DEF IInv, LogOK, database
    <3>3. KeepsIdentity(log[1], log[i]) /\ KeepsIdentity(log[i], log[Len(log)])
      <4>1. 1 \in DOMAIN log /\ Len(log) \in DOMAIN log /\ i \in 1..Len(log) /\ Len(log) \in Nat
        BY <3>2
      <4>2. (i = 1 \/ 1 < i) /\ (i = Len(log) \/ i < Len(log))
        BY <4>1
      <4> QED
        BY <3>2, <4>1, <4>2 DEF KeepsIdentity
    <3> QED
      BY <1>1, <2>3, <3>1, <3>2, <3>3 DEF KeepsIdentity
  <2> QED
    BY <1>1, <2>1, <2>2, <2>3 DEF Next
<1>2. IInv /\ [Next]_vars =>
        [kind # "memory" /\ identity # Nobody =>
           \/ identity' # Nobody /\ identity'.created = identity.created
           \/ PowerLoss /\ identity' = Nobody /\ log[1].identity = Nobody]_vars
  BY <1>1
<1> QED
  BY Invariance, <1>2, PTL DEF Spec, CreatedAtStable
=============================================================================
