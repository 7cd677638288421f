----------------------------- MODULE WebSettings -----------------------------
(***************************************************************************)
(* GET and PATCH /api/v1/settings: getSettings, patchSettings, loadSettings*)
(* (internal/httpapi/settings.go), SettingsJSON and SaveSettingsJSON       *)
(* (internal/store/settings.go), Default, Load and Apply                   *)
(* (internal/settings/settings.go).                                        *)
(*                                                                         *)
(* The stored document is overlaid on the defaults whenever it is read,    *)
(* and a PATCH stores the overlaid document with the patch applied: load,  *)
(* merge, save, with no transaction.  The defaults have the configured     *)
(* time zone in them, which a restart may change.                          *)
(*                                                                         *)
(* A document has scalars (everything that is replaced as a whole, arrays  *)
(* and objects but maps included) and may have maps, the one object merged *)
(* by key.  In a patch, maps that is no object is as good as none; in an   *)
(* old document, it is as good as an empty one.                            *)
(***************************************************************************)
EXTENDS Integers

CONSTANTS
  Requests,   \* handlers that may run at once
  Patches,    \* patches sent, as [scalars] or [scalars, maps]
  Permitted,  \* the permit list, without maps
  Defaults,   \* the defaults but for timezone and maps
  TimeZones,  \* values of TIME_ZONE
  Spelling,   \* what lower case and trimming make of the units sent
  Older       \* documents stored when there were fewer defaults, and any units

Unset == [none |-> TRUE]       \* there is no row
Corrupt == [corrupt |-> TRUE]  \* a stored payload that is no JSON object

Units == {"km", "mi"}

HasMaps(d) == "maps" \in DOMAIN d
NamesUnit(d) == HasMaps(d) /\ "distance_unit" \in DOMAIN d.maps

ASSUME WebAssumption ==
  /\ "timezone" \in Permitted /\ DOMAIN Defaults \subseteq Permitted
  /\ \A p \in Patches : NamesUnit(p) => p.maps["distance_unit"] \in DOMAIN Spelling
  /\ \A d \in Older : "scalars" \in DOMAIN d /\ DOMAIN d.scalars \subseteq Permitted

VARIABLES
  stored,      \* the payload of the settings row, Unset or Corrupt
  tz,          \* the TIME_ZONE of the running process
  pc,          \* where each handler is
  patch,       \* the patch of each PATCH
  merged,      \* the document it is going to save
  answer,      \* the settings each handler answered last
  overlapped   \* history: another handler has saved since this one loaded

vars == <<stored, tz, pc, patch, merged, answer, overlapped>>

-----------------------------------------------------------------------------
(* maps.Copy: what top has hides what base has.                            *)
Overlay(base, top) ==
  [k \in DOMAIN base \cup DOMAIN top |-> IF k \in DOMAIN top THEN top[k] ELSE base[k]]

DefaultMaps == [k \in {"distance_unit"} |-> "km"]

Default(zone) ==
  [scalars |-> Overlay(Defaults, [k \in {"timezone"} |-> zone]), maps |-> DefaultMaps]

(* Load: a shallow overlay, so a stored maps hides the default one.        *)
Load(raw, zone) ==
  IF raw \in {Unset, Corrupt} THEN Default(zone)
  ELSE [scalars |-> Overlay(Default(zone).scalars, raw.scalars),
        maps |-> IF HasMaps(raw) THEN raw.maps ELSE Default(zone).maps]

(* mergeMapsObject: a unit that is none leaves the old one.                *)
MergeMapsUnchecked(dst, src) == Overlay(dst, src)  \* mutant: any distance_unit is taken

MergeMaps(dst, src) ==
  LET unit == Spelling[src["distance_unit"]]
      taken == {k \in DOMAIN src : k = "distance_unit" => unit \in Units}
  IN Overlay(dst, [k \in taken |-> IF k = "distance_unit" THEN unit ELSE src[k]])

Permit(f) == [k \in DOMAIN f \cap Permitted |-> f[k]]

ApplyAll(current, p) ==  \* mutant: no permit list
  [scalars |-> Overlay(current.scalars, p.scalars),
   maps |-> IF HasMaps(p) THEN MergeMaps(current.maps, p.maps) ELSE current.maps]

ApplyShallow(current, p) ==  \* mutant: maps is replaced instead of merged
  [scalars |-> Overlay(current.scalars, Permit(p.scalars)),
   maps |-> IF HasMaps(p) THEN MergeMaps(DefaultMaps, p.maps) ELSE current.maps]

Apply(current, p) ==
  [scalars |-> Overlay(current.scalars, Permit(p.scalars)),
   maps |-> IF HasMaps(p) THEN MergeMaps(current.maps, p.maps) ELSE current.maps]

-----------------------------------------------------------------------------
Init ==
  /\ stored \in {Unset, Corrupt} \cup Older
  /\ tz \in TimeZones
  /\ pc = [r \in Requests |-> "idle"]
  /\ patch = [r \in Requests |-> Unset]
  /\ merged = [r \in Requests |-> Unset]
  /\ answer = [r \in Requests |-> Unset]
  /\ overlapped = [r \in Requests |-> FALSE]

ReceivePatch(r) ==
  /\ pc[r] = "idle"
  /\ \E p \in Patches : patch' = [patch EXCEPT ![r] = p]
  /\ pc' = [pc EXCEPT ![r] = "load"]
  /\ answer' = [answer EXCEPT ![r] = Unset]
  /\ UNCHANGED <<stored, tz, merged, overlapped>>

(* The whole of getSettings: one statement.                                *)
GetSettings(r) ==
  /\ pc[r] = "idle"
  /\ answer' = [answer EXCEPT ![r] = Load(stored, tz)]
  /\ UNCHANGED <<stored, tz, pc, patch, merged, overlapped>>

LoadAndApplySparse(r) ==  \* mutant: the patch is applied to what is stored, not to Load's result
  /\ pc[r] = "load"
  /\ merged' = [merged EXCEPT ![r] =
       Apply(IF stored \in {Unset, Corrupt}
             THEN [scalars |-> [x \in {} |-> "none"], maps |-> Default(tz).maps]
             ELSE [scalars |-> stored.scalars, maps |-> Load(stored, tz).maps], patch[r])]
  /\ overlapped' = [overlapped EXCEPT ![r] = FALSE]
  /\ pc' = [pc EXCEPT ![r] = "save"]
  /\ UNCHANGED <<stored, tz, patch, answer>>

LoadAndApply(r) ==
  /\ pc[r] = "load"
  /\ merged' = [merged EXCEPT ![r] = Apply(Load(stored, tz), patch[r])]
  /\ overlapped' = [overlapped EXCEPT ![r] = FALSE]
  /\ pc' = [pc EXCEPT ![r] = "save"]
  /\ UNCHANGED <<stored, tz, patch, answer>>

Done(r, a) ==
  /\ pc' = [pc EXCEPT ![r] = "idle"]
  /\ answer' = [answer EXCEPT ![r] = a]
  /\ patch' = [patch EXCEPT ![r] = Unset]
  /\ merged' = [merged EXCEPT ![r] = Unset]

(* The answer is the document that was saved; it is not read again.        *)
Save(r) ==
  /\ pc[r] = "save"
  /\ stored' = merged[r]
  /\ overlapped' = [q \in Requests |-> q # r /\ (overlapped[q] \/ pc[q] = "save")]
  /\ Done(r, merged[r])
  /\ UNCHANGED tz

Fail(r) ==
  /\ pc[r] \in {"load", "save"}
  /\ overlapped' = [overlapped EXCEPT ![r] = FALSE]
  /\ Done(r, Unset)
  /\ UNCHANGED <<stored, tz>>

(* The process ends, and is started again, perhaps with another TIME_ZONE. *)
Restart ==
  /\ tz' \in TimeZones
  /\ pc' = [r \in Requests |-> "idle"]
  /\ patch' = [r \in Requests |-> Unset]
  /\ merged' = [r \in Requests |-> Unset]
  /\ answer' = [r \in Requests |-> Unset]
  /\ overlapped' = [r \in Requests |-> FALSE]
  /\ UNCHANGED stored

Handler(r) == ReceivePatch(r) \/ GetSettings(r) \/ LoadAndApply(r) \/ Save(r) \/ Fail(r)

Next == (\E r \in Requests : Handler(r)) \/ Restart

Spec == Init /\ [][Next]_vars

-----------------------------------------------------------------------------
(* The unit insights compute with when the request names none: what is not *)
(* mi is km.                                                               *)
UnitRead(raw, zone) ==
  LET d == Load(raw, zone) IN IF NamesUnit(d) /\ d.maps["distance_unit"] = "mi" THEN "mi" ELSE "km"

-----------------------------------------------------------------------------
(* A complete document: every default is there, and no key is off the      *)
(* permit list.                                                            *)
IsDocument(d) ==
  /\ DOMAIN d = {"scalars", "maps"}
  /\ {"timezone"} \cup DOMAIN Defaults \subseteq DOMAIN d.scalars
  /\ DOMAIN d.scalars \subseteq Permitted

(* Types; in particular every document saved or answered is complete and   *)
(* within the permit list.                                                 *)
TypeOK ==
  /\ stored \notin {Unset, Corrupt} \cup Older => IsDocument(stored)
  /\ tz \in TimeZones
  /\ pc \in [Requests -> {"idle", "load", "save"}]
  /\ patch \in [Requests -> Patches \cup {Unset}]
  /\ overlapped \in [Requests -> BOOLEAN]
  /\ DOMAIN merged = Requests /\ DOMAIN answer = Requests
  /\ \A r \in Requests :
       /\ pc[r] # "idle" => patch[r] \in Patches
       /\ pc[r] = "save" => IsDocument(merged[r])
       /\ answer[r] # Unset => IsDocument(answer[r])

(* Until somebody else saves, what a PATCH is about to save is its patch   *)
(* applied to what is stored.                                              *)
InStep ==
  \A r \in Requests :
    pc[r] = "save" /\ ~overlapped[r] => merged[r] = Apply(Load(stored, tz), patch[r])

(* The inductive invariant.                                                *)
IInv == TypeOK /\ InStep

(* r saves what it has merged, and nobody else has since it loaded.        *)
SavesAlone(r) ==
  /\ pc[r] = "save" /\ stored' = merged[r] /\ pc'[r] = "idle" /\ answer'[r] # Unset
  /\ ~overlapped[r]

(* After a PATCH insights compute with the unit it names, in whatever      *)
(* spelling, and with the one of before if it names none that is known;    *)
(* also if the document stored before had no unit or an unknown one, which *)
(* insights take for km.                                                   *)
UnitChosen ==
  [][\A r \in Requests : SavesAlone(r) =>
       LET p == patch[r]
           named == IF NamesUnit(p) THEN {Spelling[p.maps["distance_unit"]]} \cap Units ELSE {}
       IN  UnitRead(stored', tz') \in IF named = {} THEN {UnitRead(stored, tz)} ELSE named]_vars

(* From the first PATCH on, a restart with another TIME_ZONE changes       *)
(* nothing of the document GET /settings answers: the PATCH has stored     *)
(* every default.  (Insights are computed in the configured zone.)         *)
FrozenByPatch ==
  [][stored \notin {Unset, Corrupt} \cup Older => Load(stored, tz') = Load(stored, tz)]_vars

(* Read by key, a PATCH sets the permitted keys it has, keeps every other  *)
(* scalar and every other key inside maps, unless another PATCH saved      *)
(* between its load and its save.                                          *)
PatchIsolated ==
  [][\A r \in Requests : SavesAlone(r) =>
       LET old == Load(stored, tz)
           p == patch[r]
           kept == IF HasMaps(p) THEN DOMAIN old.maps \ DOMAIN p.maps ELSE DOMAIN old.maps
       IN /\ \A k \in DOMAIN old.scalars \cup (DOMAIN p.scalars \cap Permitted) :
               stored'.scalars[k] = IF k \in DOMAIN p.scalars THEN p.scalars[k] ELSE old.scalars[k]
          /\ \A k \in kept :
               k \in DOMAIN stored'.maps /\ stored'.maps[k] = old.maps[k]]_vars
=============================================================================
