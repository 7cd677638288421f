---------------------------- MODULE MobileProofs ----------------------------
(***************************************************************************)
(* Proofs about MobileSettings, for any devices, patches, keys and bounds. *)
(***************************************************************************)
EXTENDS MobileSettings, TLAPS

-----------------------------------------------------------------------------
(* What SanitizeMobile keeps of a value is a value its key may have.       *)
LEMMA CastPermitted ==
  ASSUME NEW k \in MobileKeys, NEW v \in JSON, Cast(k, v) # NoValue
  PROVE  Cast(k, v) \in Permitted(k)
<1>1. CASE k = ModeKey
  <2>1. Cast(k, v) = IF v.type = "string" /\ v.text \in Modes THEN v.text ELSE NoValue
    BY <1>1, SettingsAssumption DEF Cast
  <2> QED
    BY <1>1, <2>1 DEF Permitted
<1>2. CASE k \in Booleans
  <2>1. k # ModeKey /\ k \notin DOMAIN Clamps
    BY <1>2, SettingsAssumption
  <2>2. Cast(k, v) = AsBool(v)
    BY <1>2, <2>1 DEF Cast
  <2>3. v.type \in {"bool", "string"} => v.bool \in BOOLEAN \cup {NoValue}
    BY DEF JSON
  <2> QED
    BY <1>2, <2>1, <2>2, <2>3 DEF AsBool, Permitted
<1>3. CASE k \in DOMAIN Clamps
  <2>1. k # ModeKey /\ k \notin Booleans
    BY <1>3, SettingsAssumption
  <2>2. Cast(k, v) = IF AsInt(v) = NoValue THEN NoValue
                     ELSE Clamped(AsInt(v), Clamps[k][1], Clamps[k][2])
    BY <1>3, <2>1 DEF Cast
  <2>3. v.type \in {"number", "string"} => v.int \in Int \cup {NoValue}
    BY DEF JSON
  <2>4. AsInt(v) \in Int
    BY <2>2, <2>3 DEF AsInt
  <2>5. \A n, low, high \in Int : low <= high => Clamped(n, low, high) \in low..high
    BY DEF Clamped
  <2>6. Cast(k, v) \in Clamps[k][1]..Clamps[k][2]
    BY <1>3, <2>2, <2>4, <2>5, SettingsAssumption
  <2> QED
    BY <2>1, <2>6 DEF Permitted
<1> QED
  BY <1>1, <1>2, <1>3 DEF MobileKeys

LEMMA SanitizedIsBlob ==
  ASSUME NEW p \in Patches
  PROVE  IsBlob(SanitizeMobile(p))
<1> DEFINE D == {k \in DOMAIN p \cap MobileKeys : Cast(k, p[k]) # NoValue}
<1>1. SanitizeMobile(p) = [k \in D |-> Cast(k, p[k])]
  BY DEF SanitizeMobile
<1>2. \A k \in D : k \in MobileKeys /\ Cast(k, p[k]) \in Permitted(k)
  BY CastPermitted, SettingsAssumption
<1> HIDE DEF D
<1> QED
  BY <1>1, <1>2 DEF IsBlob

LEMMA EmptyIsBlob == IsBlob(Empty) /\ DOMAIN Empty = {}
  BY DEF IsBlob, Empty

(* A blob is neither of the markers, nor is a row that holds it.           *)
LEMMA BlobIsNoMarker ==
  ASSUME NEW b, IsBlob(b), NEW n \in Nat
  PROVE  b # Corrupt /\ [blob |-> b, updated |-> n] # Unset
<1>1. \A k \in MobileKeys : Permitted(k) \subseteq Int \cup Modes \cup BOOLEAN
  <2> SUFFICES ASSUME NEW k \in MobileKeys
               PROVE  Permitted(k) \subseteq Int \cup Modes \cup BOOLEAN
    OBVIOUS
  <2>1. k \in DOMAIN Clamps => Clamps[k][1]..Clamps[k][2] \subseteq Int
    BY SettingsAssumption
  <2> QED
    BY <2>1 DEF Permitted, MobileKeys
<1>2. /\ b = [k \in DOMAIN b |-> b[k]] /\ DOMAIN b \in SUBSET MobileKeys
      /\ \A k \in DOMAIN b : b[k] \in Int \cup Modes \cup BOOLEAN
  BY <1>1 DEF IsBlob
<1>3. b \in Blobs(DOMAIN b)
  BY <1>2 DEF Blobs
<1>4. [blob |-> b, updated |-> n] \in [blob : Blobs(DOMAIN b), updated : Nat]
  BY <1>3
<1> QED
  BY <1>2, <1>3, <1>4, SettingsAssumption

(* MergeMobile sets the keys of the patch and no others.                   *)
LEMMA Merging ==
  ASSUME NEW old, NEW p, IsBlob(old), IsBlob(p)
  PROVE  IsBlob(MergeMobile(old, p)) /\ IsMerge(MergeMobile(old, p), old, p)
  BY DEF IsBlob, IsMerge, MergeMobile

LEMMA MergeShows ==
  ASSUME NEW new, NEW old, NEW p, IsMerge(new, old, p)
  PROVE  Shows(new, p)
  BY DEF IsMerge, Shows

LEMMA BlobOfRow == TypeOK => IsBlob(Blob(row))
  BY EmptyIsBlob DEF TypeOK, Blob

-----------------------------------------------------------------------------
LEMMA InitIInv == Init => IInv
<1> SUFFICES ASSUME Init PROVE IInv
  OBVIOUS
<1>1. Updated(row) = Unset /\ clock = 1
  BY DEF Init, Updated
<1>2. TypeOK
  BY EmptyIsBlob DEF Init, TypeOK
<1>3. StampsInOrder
  BY <1>1 DEF Init, StampsInOrder
<1>4. InStep
  BY EmptyIsBlob DEF Init, InStep
<1> QED
  BY <1>2, <1>3, <1>4 DEF IInv

(* The row and the clock are left alone and r takes a step.                *)
LEMMA ReceiveIInv ==
  ASSUME IInv, NEW r \in Requests, ReceivePatch(r) \/ ReceiveGet(r)
  PROVE  IInv'
<1>1. PICK p : /\ IsBlob(p) /\ patch' = [patch EXCEPT ![r] = p]
               /\ pc'[r] = "answer" => DOMAIN p = {}
  <2>1. CASE ReceivePatch(r)
    <3>1. PICK q \in Patches : patch' = [patch EXCEPT ![r] = SanitizeMobile(q)]
      BY <2>1 DEF ReceivePatch
    <3>2. pc'[r] # "answer"
      BY <2>1 DEF ReceivePatch, IInv, TypeOK
    <3> QED
      BY <3>1, <3>2, SanitizedIsBlob
  <2>2. CASE ReceiveGet(r)
    <3>1. patch' = [patch EXCEPT ![r] = patch[r]] /\ DOMAIN patch[r] = {} /\ IsBlob(patch[r])
      BY <2>2 DEF ReceiveGet, IInv, TypeOK, InStep
    <3> QED
      BY <3>1
  <2> QED
    BY <2>1, <2>2
<1>2. /\ pc' \in [Requests -> {"idle", "load", "stamp", "save", "answer"}]
      /\ pc'[r] \in {"load", "answer"} /\ \A q \in Requests \ {r} : pc'[q] = pc[q]
      /\ answer' = [answer EXCEPT ![r] = Unset]
      /\ overlapped' = [overlapped EXCEPT ![r] = FALSE]
      /\ UNCHANGED <<row, merged, stamp, clock>>
  BY DEF ReceivePatch, ReceiveGet, IInv, TypeOK
<1>3. TypeOK'
  BY <1>1, <1>2 DEF IInv, TypeOK
<1>4. StampsInOrder'
  BY <1>2 DEF IInv, TypeOK, StampsInOrder, Updated
<1>5. InStep'
  BY <1>1, <1>2 DEF IInv, TypeOK, InStep, Blob, Shows
<1> QED
  BY <1>3, <1>4, <1>5 DEF IInv

LEMMA LoadIInv ==
  ASSUME IInv, NEW r \in Requests, Load(r)
  PROVE  IInv'
<1>1. /\ IsBlob(MergeMobile(Blob(row), patch[r]))
      /\ IsMerge(MergeMobile(Blob(row), patch[r]), Blob(row), patch[r])
  BY Merging, BlobOfRow DEF IInv, TypeOK
<1>2. PICK m : m = MergeMobile(Blob(row), patch[r])
  OBVIOUS
<1>3. /\ merged' = [merged EXCEPT ![r] = m]
      /\ overlapped' = [overlapped EXCEPT ![r] = FALSE]
      /\ pc' = [pc EXCEPT ![r] = "stamp"]
      /\ UNCHANGED <<row, patch, stamp, answer, clock>>
  BY <1>2 DEF Load
<1>4. TypeOK'
  BY <1>1, <1>2, <1>3 DEF IInv, TypeOK
<1>5. StampsInOrder'
  BY <1>3 DEF IInv, TypeOK, StampsInOrder, Updated
<1>6. InStep'
  BY <1>1, <1>2, <1>3 DEF IInv, TypeOK, InStep, Blob
<1> QED
  BY <1>4, <1>5, <1>6 DEF IInv

LEMMA TakeStampIInv ==
  ASSUME IInv, NEW r \in Requests, TakeStamp(r)
  PROVE  IInv'
<1>1. /\ stamp' = [stamp EXCEPT ![r] = clock] /\ pc[r] = "stamp"
      /\ pc' = [pc EXCEPT ![r] = "save"]
      /\ UNCHANGED <<row, patch, merged, answer, clock, overlapped>>
  BY DEF TakeStamp
<1>2. TypeOK'
  BY <1>1 DEF IInv, TypeOK
<1>3. StampsInOrder'
  BY <1>1 DEF IInv, TypeOK, StampsInOrder, Updated
<1>4. InStep'
  BY <1>1 DEF IInv, TypeOK, InStep, Blob
<1> QED
  BY <1>2, <1>3, <1>4 DEF IInv

(* What is saved is what was merged.                                       *)
LEMMA SaveStores ==
  ASSUME IInv, NEW r \in Requests, Save(r)
  PROVE  /\ row' = [blob |-> merged[r], updated |-> stamp[r]]
         /\ row' # Unset /\ IsBlob(merged[r]) /\ stamp[r] \in Nat
         /\ Blob(row)' = merged[r] /\ Updated(row)' = stamp[r]
<1>1. row' = [blob |-> merged[r], updated |-> stamp[r]] /\ IsBlob(merged[r]) /\ stamp[r] \in Nat
  BY DEF Save, IInv, TypeOK
<1>2. row' # Unset /\ merged[r] # Corrupt
  BY <1>1, BlobIsNoMarker
<1> QED
  BY <1>1, <1>2 DEF Blob, Updated

LEMMA SaveIInv ==
  ASSUME IInv, NEW r \in Requests, Save(r)
  PROVE  IInv'
<1>1. /\ pc[r] = "save" /\ pc' = [pc EXCEPT ![r] = "answer"]
      /\ overlapped' = [q \in Requests |-> overlapped[q] \/ q # r]
      /\ UNCHANGED <<patch, merged, stamp, answer, clock>>
  BY DEF Save
<1>2. TypeOK'
  <2>1. overlapped' \in [Requests -> BOOLEAN]
    BY <1>1
  <2> QED
    BY <1>1, <2>1, SaveStores DEF IInv, TypeOK
<1>3. \A q \in Requests : /\ ~overlapped'[q] => q = r /\ ~overlapped[r]
                          /\ pc'[q] = IF q = r THEN "answer" ELSE pc[q]
  BY <1>1 DEF IInv, TypeOK
<1>4. StampsInOrder'
  <2>1. \A q \in Requests : stamp[q] <= clock
    BY DEF IInv, StampsInOrder
  <2>2. row'.updated = stamp[r] /\ UNCHANGED <<stamp, clock>>
    BY <1>1, SaveStores
  <2> QED
    BY <1>3, <2>1, <2>2 DEF StampsInOrder
<1>5. InStep'
  <2>1. ~overlapped[r] => Shows(merged[r], patch[r])
    BY <1>1, MergeShows DEF IInv, InStep
  <2> QED
    BY <1>1, <1>3, <2>1, SaveStores DEF IInv, InStep
<1> QED
  BY <1>2, <1>4, <1>5 DEF IInv

LEMMA DoneIInv ==
  ASSUME IInv, NEW r \in Requests, NEW a, Done(r, a), a # Unset => IsBlob(a.settings)
  PROVE  IInv'
<1>1. /\ pc' = [pc EXCEPT ![r] = "idle"] /\ answer' = [answer EXCEPT ![r] = a]
      /\ patch' = [patch EXCEPT ![r] = Empty] /\ merged' = [merged EXCEPT ![r] = Empty]
      /\ stamp' = [stamp EXCEPT ![r] = 0]
      /\ UNCHANGED <<row, clock, overlapped>>
  BY DEF Done
<1>2. TypeOK'
  BY <1>1, EmptyIsBlob DEF IInv, TypeOK
<1>3. StampsInOrder'
  BY <1>1 DEF IInv, TypeOK, StampsInOrder, Updated
<1>4. InStep'
  BY <1>1, EmptyIsBlob DEF IInv, TypeOK, InStep, Blob
<1> QED
  BY <1>2, <1>3, <1>4 DEF IInv

LEMMA CrashIInv == IInv /\ Crash => IInv'
<1> SUFFICES ASSUME IInv, Crash PROVE IInv'
  OBVIOUS
<1>1. TypeOK'
  BY EmptyIsBlob DEF IInv, TypeOK, Crash
<1>2. StampsInOrder'
  BY DEF IInv, TypeOK, StampsInOrder, Updated, Crash
<1>3. InStep'
  BY EmptyIsBlob DEF InStep, Crash
<1> QED
  BY <1>1, <1>2, <1>3 DEF IInv

LEMMA TickIInv == IInv /\ Tick => IInv'
<1> SUFFICES ASSUME IInv, Tick PROVE IInv'
  OBVIOUS
<1>1. TypeOK'
  BY DEF IInv, TypeOK, Tick
<1>2. StampsInOrder'
  BY DEF IInv, TypeOK, StampsInOrder, Updated, Tick
<1>3. InStep'
  BY DEF IInv, InStep, Blob, Tick
<1> QED
  BY <1>1, <1>2, <1>3 DEF IInv

LEMMA NextIInv == IInv /\ [Next]_vars => IInv'
<1> SUFFICES ASSUME IInv, [Next]_vars PROVE IInv'
  OBVIOUS
<1>1. ASSUME NEW r \in Requests, Handler(r) PROVE IInv'
  <2>1. CASE Answer(r)
    <3>1. PICK a : Done(r, a) /\ (a = [settings |-> Blob(row), updated |-> Updated(row)]
                                  \/ a = [settings |-> Empty, updated |-> Unset])
      BY <2>1 DEF Answer
    <3>2. IsBlob(a.settings)
      BY <3>1, BlobOfRow, EmptyIsBlob DEF IInv
    <3> QED
      BY <3>1, <3>2, DoneIInv
  <2>2. CASE Fail(r)
    BY <2>2, DoneIInv DEF Fail
  <2> QED
    BY <1>1, <2>1, <2>2, ReceiveIInv, LoadIInv, TakeStampIInv, SaveIInv DEF Handler
<1>2. CASE UNCHANGED vars
  BY <1>2 DEF vars, IInv, TypeOK, StampsInOrder, InStep, Updated, Blob
<1> QED
  BY <1>1, <1>2, CrashIInv, TickIInv DEF Next

(* The inductive invariant: only what the sync may store is stored, no     *)
(* stamp goes back, and a PATCH that nobody overlaps works on what is      *)
(* stored.                                                                 *)
THEOREM Invariance == Spec => []IInv
<1>1. Init => IInv
  BY InitIInv
<1>2. IInv /\ [Next]_vars => IInv'
  BY NextIInv
<1> QED
  BY <1>1, <1>2, PTL DEF Spec

-----------------------------------------------------------------------------
LEMMA OnlySave ==
  ASSUME IInv, [Next]_vars, NEW r \in Requests, Saves(r)
  PROVE  Save(r)
<1>1. pc[r] = "save" /\ pc'[r] = "answer"
  BY DEF Saves
<1>2. ASSUME NEW q \in Requests, Handler(q) PROVE Save(r)
  <2>1. pc' = [pc EXCEPT ![q] = pc'[q]]
    BY <1>2 DEF Handler, ReceivePatch, ReceiveGet, Load, TakeStamp, Save, Answer, Fail, Done,
                IInv, TypeOK
  <2>2. q = r
    BY <1>1, <2>1 DEF IInv, TypeOK
  <2> QED
    BY <1>1, <1>2, <2>2 DEF Handler, ReceivePatch, ReceiveGet, Load, TakeStamp, Answer, Fail, Done,
                           IInv, TypeOK
<1>3. ~Crash
  BY <1>1 DEF Crash
<1>4. ~Tick /\ ~UNCHANGED vars
  BY <1>1 DEF Tick, vars
<1> QED
  BY <1>2, <1>3, <1>4 DEF Next

(* Of two PATCHes that do not overlap each is an atomic merge into what is *)
(* stored, with a stamp that is not older: for any number of devices.      *)
THEOREM AtomicAlone == Spec => AtomicUnlessOverlapped
<1>1. IInv /\ [Next]_vars =>
        [\A r \in Requests : Saves(r) /\ ~overlapped[r] =>
           /\ IsMerge(row'.blob, Blob(row), patch[r])
           /\ Updated(row) # Unset => row'.updated >= row.updated]_vars
  <2> SUFFICES ASSUME IInv, [Next]_vars, NEW r \in Requests, Saves(r), ~overlapped[r]
               PROVE  /\ IsMerge(row'.blob, Blob(row), patch[r])
                      /\ Updated(row) # Unset => row'.updated >= row.updated
    OBVIOUS
  <2>1. row' = [blob |-> merged[r], updated |-> stamp[r]] /\ pc[r] = "save"
    BY OnlySave, SaveStores DEF Saves
  <2>2. IsMerge(merged[r], Blob(row), patch[r])
    BY <2>1 DEF IInv, InStep
  <2>3. Updated(row) # Unset => row.updated <= stamp[r] /\ row.updated \in Nat /\ stamp[r] \in Nat
    BY <2>1 DEF IInv, TypeOK, StampsInOrder, Updated
  <2> QED
    BY <2>1, <2>2, <2>3
<1> QED
  BY <1>1, Invariance, PTL DEF Spec, AtomicUnlessOverlapped

LEMMA OnlyDone ==
  ASSUME IInv, [Next]_vars, NEW r \in Requests,
         pc[r] = "answer", pc'[r] = "idle", answer'[r] # Unset
  PROVE  Answer(r)
<1>1. ASSUME NEW q \in Requests, Handler(q) PROVE Answer(r)
  <2>1. pc' = [pc EXCEPT ![q] = pc'[q]]
    BY <1>1 DEF Handler, ReceivePatch, ReceiveGet, Load, TakeStamp, Save, Answer, Fail, Done,
                IInv, TypeOK
  <2>2. q = r
    BY <2>1 DEF IInv, TypeOK
  <2> QED
    BY <1>1, <2>2 DEF Handler, ReceivePatch, ReceiveGet, Load, TakeStamp, Save, Fail
<1>2. ~Crash
  BY DEF Crash
<1>3. ~Tick /\ ~UNCHANGED vars
  BY DEF Tick, vars
<1> QED
  BY <1>1, <1>2, <1>3 DEF Next

(* A device that nobody overlaps has its values stored when answered,      *)
(* and is shown them, or nothing.                                          *)
THEOREM ShownAlone == Spec => AnswerShowsPatch
<1>1. IInv /\ [Next]_vars =>
        [\A r \in Requests :
           pc[r] = "answer" /\ pc'[r] = "idle" /\ answer'[r] # Unset /\ ~overlapped[r] =>
             /\ Shows(Blob(row), patch[r])
             /\ \/ Shows(answer'[r].settings, patch[r])
                \/ answer'[r] = [settings |-> Empty, updated |-> Unset]]_vars
  <2> SUFFICES ASSUME IInv, [Next]_vars, NEW r \in Requests,
                      pc[r] = "answer", pc'[r] = "idle", answer'[r] # Unset, ~overlapped[r]
               PROVE  /\ Shows(Blob(row), patch[r])
                      /\ \/ Shows(answer'[r].settings, patch[r])
                         \/ answer'[r] = [settings |-> Empty, updated |-> Unset]
    OBVIOUS
  <2>1. \/ Done(r, [settings |-> Blob(row), updated |-> Updated(row)])
        \/ Done(r, [settings |-> Empty, updated |-> Unset])
    BY OnlyDone DEF Answer
  <2>2. \/ answer'[r] = [settings |-> Blob(row), updated |-> Updated(row)]
        \/ answer'[r] = [settings |-> Empty, updated |-> Unset]
    BY <2>1 DEF Done, IInv, TypeOK
  <2>3. Shows(Blob(row), patch[r])
    BY DEF IInv, InStep
  <2> QED
    BY <2>2, <2>3
<1> QED
  BY <1>1, Invariance, PTL DEF Spec, AnswerShowsPatch
=============================================================================
