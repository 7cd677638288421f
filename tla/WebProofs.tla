----------------------------- MODULE WebProofs -----------------------------
(***************************************************************************)
(* Proofs about WebSettings, for any clients, patches, permit list,        *)
(* defaults, time zones and documents stored before.                       *)
(***************************************************************************)
EXTENDS WebSettings, TLAPS

(* What the stored row may be.                                             *)
Readable(raw) == raw \in {Unset, Corrupt} \cup Older \/ IsDocument(raw)

LEMMA DefaultIsDocument ==
  ASSUME NEW zone
  PROVE  IsDocument(Default(zone))
BY WebAssumption DEF IsDocument, Default, Overlay

(* Whatever is stored, what is read is a complete document.                *)
LEMMA LoadIsDocument ==
  ASSUME NEW raw, NEW zone, Readable(raw)
  PROVE  IsDocument(Load(raw, zone))
<1>1. CASE raw \in {Unset, Corrupt}
  BY <1>1, DefaultIsDocument DEF Load
<1>2. CASE raw \notin {Unset, Corrupt}
  <2>1. DOMAIN raw.scalars \subseteq Permitted
    BY <1>2, WebAssumption DEF Readable, IsDocument
  <2>2. Load(raw, zone) =
          [scalars |-> Overlay(Default(zone).scalars, raw.scalars),
           maps |-> IF HasMaps(raw) THEN raw.maps ELSE Default(zone).maps]
    BY <1>2 DEF Load
  <2>3. DOMAIN Overlay(Default(zone).scalars, raw.scalars)
          = DOMAIN Default(zone).scalars \cup DOMAIN raw.scalars
    BY DEF Overlay
  <2> QED
    BY <2>1, <2>2, <2>3, DefaultIsDocument DEF IsDocument
<1> QED
  BY <1>1, <1>2

(* A document is told from no row and from an unreadable one.              *)
LEMMA DocumentIsReadable ==
  ASSUME NEW d, DOMAIN d = {"scalars", "maps"}
  PROVE  d \notin {Unset, Corrupt} /\ HasMaps(d)
<1>1. DOMAIN Unset = {"none"} /\ DOMAIN Corrupt = {"corrupt"}
  BY DEF Unset, Corrupt
<1>2. "scalars" \notin {"none"} /\ "scalars" \notin {"corrupt"} /\ "scalars" \in DOMAIN d
  OBVIOUS
<1> QED
  BY <1>1, <1>2, Zenon DEF HasMaps

(* What a patch's maps makes of the unit: the one it names, if that is     *)
(* known, or else what was there, be it none.                              *)
LEMMA MergedUnit ==
  ASSUME NEW dst, NEW src
  PROVE  LET unit == Spelling[src["distance_unit"]]
             new == MergeMaps(dst, src)
         IN  IF "distance_unit" \in DOMAIN src /\ unit \in Units
             THEN "distance_unit" \in DOMAIN new /\ new["distance_unit"] = unit
             ELSE /\ "distance_unit" \in DOMAIN new <=> "distance_unit" \in DOMAIN dst
                  /\ "distance_unit" \in DOMAIN new => new["distance_unit"] = dst["distance_unit"]
<1> DEFINE unit == Spelling[src["distance_unit"]]
           taken == {k \in DOMAIN src : k = "distance_unit" => unit \in Units}
           new == [k \in taken |-> IF k = "distance_unit" THEN unit ELSE src[k]]
<1>1. MergeMaps(dst, src) = [k \in DOMAIN dst \cup taken |-> IF k \in taken THEN new[k] ELSE dst[k]]
  BY DEF MergeMaps, Overlay
<1>2. /\ "distance_unit" \in taken <=> "distance_unit" \in DOMAIN src /\ unit \in Units
      /\ "distance_unit" \in taken => new["distance_unit"] = unit
  OBVIOUS
<1> HIDE DEF taken, new, unit
<1>3. /\ "distance_unit" \in DOMAIN MergeMaps(dst, src) <=>
           "distance_unit" \in DOMAIN dst \/ "distance_unit" \in taken
      /\ "distance_unit" \in taken => MergeMaps(dst, src)["distance_unit"] = new["distance_unit"]
      /\ "distance_unit" \in DOMAIN dst /\ "distance_unit" \notin taken =>
           MergeMaps(dst, src)["distance_unit"] = dst["distance_unit"]
  BY <1>1
<1> QED
  BY <1>2, <1>3 DEF unit

(* Applying a patch to a complete document gives one.                      *)
LEMMA ApplyIsDocument ==
  ASSUME NEW d, NEW p, IsDocument(d)
  PROVE  IsDocument(Apply(d, p))
<1>1. Apply(d, p) =
        [scalars |-> Overlay(d.scalars, Permit(p.scalars)),
         maps |-> IF HasMaps(p) THEN MergeMaps(d.maps, p.maps) ELSE d.maps]
  BY DEF Apply
<1>2. /\ DOMAIN Overlay(d.scalars, Permit(p.scalars)) = DOMAIN d.scalars \cup DOMAIN Permit(p.scalars)
      /\ DOMAIN Permit(p.scalars) \subseteq Permitted
  BY DEF Overlay, Permit
<1> QED
  BY <1>1, <1>2 DEF IsDocument

(* What a PATCH does to a document, key by key.                            *)
LEMMA ApplyByKey ==
  ASSUME NEW d, NEW p, DOMAIN d.scalars \subseteq Permitted
  PROVE  /\ \A k \in DOMAIN d.scalars \cup (DOMAIN p.scalars \cap Permitted) :
              Apply(d, p).scalars[k] =
                IF k \in DOMAIN p.scalars THEN p.scalars[k] ELSE d.scalars[k]
         /\ \A k \in IF HasMaps(p) THEN DOMAIN d.maps \ DOMAIN p.maps ELSE DOMAIN d.maps :
              k \in DOMAIN Apply(d, p).maps /\ Apply(d, p).maps[k] = d.maps[k]
<1>1. /\ Apply(d, p).scalars = Overlay(d.scalars, Permit(p.scalars))
      /\ Apply(d, p).maps = IF HasMaps(p) THEN MergeMaps(d.maps, p.maps) ELSE d.maps
  BY DEF Apply
<1>2. \A k \in DOMAIN d.scalars \cup (DOMAIN p.scalars \cap Permitted) :
        Overlay(d.scalars, Permit(p.scalars))[k] =
          IF k \in DOMAIN p.scalars THEN p.scalars[k] ELSE d.scalars[k]
  BY DEF Overlay, Permit
<1>3. ASSUME NEW k \in DOMAIN d.maps \ DOMAIN p.maps
      PROVE  k \in DOMAIN MergeMaps(d.maps, p.maps) /\ MergeMaps(d.maps, p.maps)[k] = d.maps[k]
  <2> DEFINE taken == {x \in DOMAIN p.maps : x = "distance_unit" =>
                         Spelling[p.maps["distance_unit"]] \in Units}
             new == [x \in taken |-> IF x = "distance_unit"
                                     THEN Spelling[p.maps["distance_unit"]] ELSE p.maps[x]]
  <2>1. MergeMaps(d.maps, p.maps) =
          [x \in DOMAIN d.maps \cup taken |-> IF x \in taken THEN new[x] ELSE d.maps[x]]
    BY DEF MergeMaps, Overlay
  <2>2. k \notin taken
    OBVIOUS
  <2> HIDE DEF taken, new
  <2> QED
    BY <2>1, <2>2
<1> QED
  BY <1>1, <1>2, <1>3

-----------------------------------------------------------------------------
LEMMA InitIInv == Init => IInv
BY DEF Init, IInv, TypeOK, InStep

(* Every handler step but Save leaves the row and the time zone alone, and *)
(* the other handlers too.                                                 *)
LEMMA HandlerIInv ==
  ASSUME IInv, NEW r \in Requests,
         ReceivePatch(r) \/ GetSettings(r) \/ LoadAndApply(r) \/ Fail(r)
  PROVE  IInv'
<1>0. Readable(stored)
  BY DEF IInv, TypeOK, Readable
<1>1. CASE ReceivePatch(r)
  <2>1. TypeOK'
    BY <1>1 DEF ReceivePatch, IInv, TypeOK, IsDocument
  <2>2. InStep'
    BY <1>1 DEF ReceivePatch, IInv, TypeOK, InStep, Load, Apply, Default
  <2> QED
    BY <2>1, <2>2 DEF IInv
<1>2. CASE GetSettings(r)
  <2>0. IsDocument(Load(stored, tz))
    BY <1>0, LoadIsDocument
  <2>1. TypeOK'
    BY <1>2, <2>0 DEF GetSettings, IInv, TypeOK, IsDocument
  <2>2. InStep'
    BY <1>2 DEF GetSettings, IInv, TypeOK, InStep
  <2> QED
    BY <2>1, <2>2 DEF IInv
<1>3. CASE LoadAndApply(r)
  <2>0. IsDocument(Apply(Load(stored, tz), patch[r]))
    BY <1>0, LoadIsDocument, ApplyIsDocument
  <2>1. TypeOK'
    BY <1>3, <2>0 DEF LoadAndApply, IInv, TypeOK, IsDocument
  <2>2. InStep'
    BY <1>3 DEF LoadAndApply, IInv, TypeOK, InStep
  <2> QED
    BY <2>1, <2>2 DEF IInv
<1>4. CASE Fail(r)
  <2>1. TypeOK'
    BY <1>4 DEF Fail, Done, IInv, TypeOK, IsDocument
  <2>2. InStep'
    BY <1>4 DEF Fail, Done, IInv, TypeOK, InStep
  <2> QED
    BY <2>1, <2>2 DEF IInv
<1> QED
  BY <1>1, <1>2, <1>3, <1>4

LEMMA SaveIInv ==
  ASSUME IInv, NEW r \in Requests, Save(r)
  PROVE  IInv'
<1>1. IsDocument(merged[r]) /\ stored' = merged[r]
  BY DEF Save, IInv, TypeOK
<1>2. TypeOK'
  BY <1>1 DEF Save, Done, IInv, TypeOK, IsDocument
<1>3. InStep'
  BY DEF Save, Done, IInv, TypeOK, InStep
<1> QED
  BY <1>2, <1>3 DEF IInv

LEMMA RestartIInv ==
  ASSUME IInv, Restart
  PROVE  IInv'
BY DEF Restart, IInv, TypeOK, InStep, IsDocument

LEMMA NextIInv ==
  ASSUME IInv, [Next]_vars
  PROVE  IInv'
<1>1. CASE UNCHANGED vars
  BY <1>1 DEF vars, IInv, TypeOK, InStep, IsDocument
<1>2. CASE Restart
  BY <1>2, RestartIInv
<1>3. ASSUME NEW r \in Requests, Handler(r)
      PROVE  IInv'
  BY <1>3, HandlerIInv, SaveIInv DEF Handler
<1> QED
  BY <1>1, <1>2, <1>3 DEF Next

(* Whatever is sent, saved, failed or restarted, every document saved or   *)
(* answered is complete, and until another PATCH saves, what a PATCH is    *)
(* about to save is its patch applied to the stored document               *)
(* (patchSettings).                                                        *)
THEOREM Invariance == Spec => []IInv
<1>1. IInv /\ [Next]_vars => IInv'
  BY NextIInv
<1> QED
  BY InitIInv, <1>1, PTL DEF Spec

(* What is saved without overlap is the patch applied to what is stored.   *)
LEMMA SavedAlone ==
  ASSUME IInv, NEW r \in Requests, SavesAlone(r)
  PROVE  /\ stored' = Apply(Load(stored, tz), patch[r])
         /\ DOMAIN stored' = {"scalars", "maps"}
         /\ DOMAIN Load(stored, tz).scalars \subseteq Permitted
<1>1. stored' = Apply(Load(stored, tz), patch[r])
  BY DEF IInv, InStep, SavesAlone
<1>2. IsDocument(Load(stored, tz))
  BY LoadIsDocument DEF IInv, TypeOK, Readable
<1> QED
  BY <1>1, <1>2, ApplyIsDocument DEF IsDocument

(* The unit insights compute with after a PATCH is the one it names, or    *)
(* the one of before if it names none that is known, for any patches and   *)
(* any documents stored before (mergeMapsObject, insightsScope).           *)
THEOREM UnitAsChosen == Spec => UnitChosen
<1> DEFINE A == \A r \in Requests : SavesAlone(r) =>
       LET p == patch[r]
           named == IF NamesUnit(p) THEN {Spelling[p.maps["distance_unit"]]} \cap Units ELSE {}
       IN  UnitRead(stored', tz') \in IF named = {} THEN {UnitRead(stored, tz)} ELSE named
<1>1. IInv => A
  <2> SUFFICES ASSUME IInv, NEW r \in Requests, SavesAlone(r)
               PROVE  LET p == patch[r]
                          named == IF NamesUnit(p) THEN {Spelling[p.maps["distance_unit"]]} \cap Units
                                   ELSE {}
                      IN  UnitRead(stored', tz') \in IF named = {} THEN {UnitRead(stored, tz)} ELSE named
    OBVIOUS
  <2> DEFINE p == patch[r]
             old == Load(stored, tz)
             new == stored'
             unit == Spelling[p.maps["distance_unit"]]
             named == IF NamesUnit(p) THEN {unit} \cap Units ELSE {}
  <2>1. stored' = Apply(old, p) /\ DOMAIN stored' = {"scalars", "maps"}
    BY SavedAlone
  <2>2. new.maps = IF HasMaps(p) THEN MergeMaps(old.maps, p.maps) ELSE old.maps
    BY <2>1 DEF Apply
  <2>3. HasMaps(new) /\ Load(stored', tz').maps = new.maps /\ HasMaps(Load(stored', tz'))
    <3>1. HasMaps(new) /\ new \notin {Unset, Corrupt}
      BY <2>1, DocumentIsReadable
    <3>2. Load(stored', tz') = [scalars |-> Overlay(Default(tz').scalars, new.scalars), maps |-> new.maps]
      BY <3>1 DEF Load
    <3> QED
      BY <3>1, <3>2 DEF HasMaps
  <2>4. HasMaps(old)
    BY DEF Load, Default, HasMaps
  <2>5. UnitRead(stored', tz') =
          IF "distance_unit" \in DOMAIN new.maps /\ new.maps["distance_unit"] = "mi" THEN "mi" ELSE "km"
    BY <2>3 DEF UnitRead, NamesUnit
  <2>6. UnitRead(stored, tz) =
          IF "distance_unit" \in DOMAIN old.maps /\ old.maps["distance_unit"] = "mi" THEN "mi" ELSE "km"
    BY <2>4 DEF UnitRead, NamesUnit
  <2> HIDE DEF old, new
  <2>7. CASE NamesUnit(p) /\ unit \in Units
    <3>1. "distance_unit" \in DOMAIN new.maps /\ new.maps["distance_unit"] = unit
      BY <2>2, <2>7, MergedUnit DEF NamesUnit
    <3>2. UnitRead(stored', tz') = unit
      BY <2>5, <2>7, <3>1 DEF Units
    <3> QED
      BY <2>7, <3>2
  <2>8. CASE ~(NamesUnit(p) /\ unit \in Units)
    <3>1. /\ "distance_unit" \in DOMAIN new.maps <=> "distance_unit" \in DOMAIN old.maps
          /\ "distance_unit" \in DOMAIN new.maps =>
               new.maps["distance_unit"] = old.maps["distance_unit"]
      BY <2>2, <2>8, MergedUnit DEF NamesUnit
    <3>2. named = {} /\ UnitRead(stored', tz') = UnitRead(stored, tz)
      BY <2>5, <2>6, <2>8, <3>1
    <3> QED
      BY <3>2
  <2> QED
    BY <2>7, <2>8
<1> QED
  BY Invariance, <1>1, PTL DEF UnitChosen

(* After the first PATCH a restart with another TIME_ZONE changes nothing  *)
(* of the document that is answered (Load, Apply).                         *)
THEOREM PatchFreezes == Spec => FrozenByPatch
<1>1. ASSUME IInv, stored \notin {Unset, Corrupt} \cup Older
      PROVE  Load(stored, tz') = Load(stored, tz)
  <2>1. IsDocument(stored)
    BY <1>1 DEF IInv, TypeOK
  <2>2. ASSUME NEW zone
        PROVE  Load(stored, zone) =
                 [scalars |-> [k \in DOMAIN stored.scalars |-> stored.scalars[k]],
                  maps |-> IF HasMaps(stored) THEN stored.maps ELSE DefaultMaps]
    <3>1. DOMAIN Default(zone).scalars \subseteq DOMAIN stored.scalars
      BY <2>1 DEF IsDocument, Default, Overlay
    <3>2. Overlay(Default(zone).scalars, stored.scalars)
            = [k \in DOMAIN stored.scalars |-> stored.scalars[k]]
      BY <3>1 DEF Overlay
    <3>3. Default(zone).maps = DefaultMaps
      BY DEF Default
    <3> QED
      BY <1>1, <3>2, <3>3 DEF Load
  <2> QED
    BY <2>2
<1> QED
  BY Invariance, <1>1, PTL DEF FrozenByPatch

(* Unless another PATCH saved in between, a PATCH changes the keys it has  *)
(* and no others (patchSettings, Apply).                                   *)
THEOREM AloneIsIsolated == Spec => PatchIsolated
<1> DEFINE A == \A r \in Requests : SavesAlone(r) =>
       LET old == Load(stored, tz)
           p == patch[r]
           kept == IF HasMaps(p) THEN DOMAIN old.maps \ DOMAIN p.maps ELSE DOMAIN old.maps
       IN /\ \A k \in DOMAIN old.scalars \cup (DOMAIN p.scalars \cap Permitted) :
               stored'.scalars[k] = IF k \in DOMAIN p.scalars THEN p.scalars[k] ELSE old.scalars[k]
          /\ \A k \in kept :
               k \in DOMAIN stored'.maps /\ stored'.maps[k] = old.maps[k]
<1>1. IInv => A
  BY SavedAlone, ApplyByKey
<1> QED
  BY Invariance, <1>1, PTL DEF PatchIsolated
=============================================================================
