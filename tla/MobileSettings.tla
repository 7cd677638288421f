--------------------------- MODULE MobileSettings ---------------------------
(***************************************************************************)
(* GET and PATCH /api/v1/settings/mobile: patchMobileSettings and          *)
(* mobileResponse (internal/httpapi/settings.go), LoadMobileSettings and   *)
(* SaveMobileSettings (internal/store/settings.go), SanitizeMobile and     *)
(* MergeMobile (internal/settings/settings.go).                            *)
(*                                                                         *)
(* A PATCH loads the stored blob, merges the patch into it in memory,      *)
(* takes a stamp, saves the whole blob, and loads the row again for its    *)
(* answer: four steps with no transaction around them, so requests of two  *)
(* devices interleave.  Any statement may fail, and the process may die.   *)
(*                                                                         *)
(* JSON values are told apart by their type; a string carries what         *)
(* strconv makes of it as a boolean and as an integer.                     *)
(***************************************************************************)
EXTENDS Integers, TLC

CONSTANTS
  Requests,     \* handlers that may run at once
  Patches,      \* settings objects sent: functions from keys to JSON values
  Booleans,     \* the keys cast to booleans
  Clamps,       \* the keys clamped, with their bounds <<lowest, highest>>
  NoValue,      \* what does not parse; a value SanitizeMobile drops
  Unset,        \* there is no row; there is no updated_at
  Corrupt,      \* a stored payload that is no JSON object
  MaxClock      \* bound on the seconds that pass

ModeKey == "tracking_mode"

Modes == {"precise", "significant"}

MobileKeys == {ModeKey} \cup Booleans \cup DOMAIN Clamps

JSON == [type : {"bool"}, bool : BOOLEAN]
        \cup [type : {"number"}, int : Int \cup {NoValue}]   \* NoValue: not an int64
        \cup [type : {"string"}, text : STRING, bool : BOOLEAN \cup {NoValue},
              int : Int \cup {NoValue}]
        \cup [type : {"other"}]

(* What a blob with the keys D is at most.                                 *)
Blobs(D) == [D -> Int \cup Modes \cup BOOLEAN]

ASSUME SettingsAssumption ==
  /\ \A p \in Patches : \A k \in DOMAIN p : p[k] \in JSON
  /\ ModeKey \notin Booleans \cup DOMAIN Clamps
  /\ Booleans \cap DOMAIN Clamps = {}
  /\ \A k \in DOMAIN Clamps :
       Clamps[k][1] \in Int /\ Clamps[k][2] \in Int /\ Clamps[k][1] <= Clamps[k][2]
  /\ \A D \in SUBSET MobileKeys :
       Corrupt \notin Blobs(D) /\ Unset \notin [blob : Blobs(D), updated : Nat]
  /\ Unset \notin Nat
  /\ MaxClock \in Nat

VARIABLES
  row,         \* the row of mobile_settings, or Unset
  pc,          \* where each handler is
  patch,       \* the sanitised patch of each PATCH
  merged,      \* the blob it is going to save
  stamp,       \* the updated_at it is going to save
  answer,      \* what each handler answered last
  clock,       \* now
  overlapped   \* history: another handler has saved since this one loaded

vars == <<row, pc, patch, merged, stamp, answer, clock, overlapped>>

-----------------------------------------------------------------------------
Empty == [k \in {} |-> NoValue]

Clamped(n, low, high) == IF n < low THEN low ELSE IF n > high THEN high ELSE n

(* asBool and asInt                                                        *)
AsBool(v) == IF v.type \in {"bool", "string"} THEN v.bool ELSE NoValue

AsInt(v) == IF v.type \in {"number", "string"} THEN v.int ELSE NoValue

CastUnclamped(k, v) ==  \* mutant: numbers are not clamped
  CASE k = ModeKey -> IF v.type = "string" /\ v.text \in Modes THEN v.text ELSE NoValue
    [] k \in Booleans -> AsBool(v)
    [] k \in DOMAIN Clamps -> AsInt(v)

Cast(k, v) ==
  CASE k = ModeKey -> IF v.type = "string" /\ v.text \in Modes THEN v.text ELSE NoValue
    [] k \in Booleans -> AsBool(v)
    [] k \in DOMAIN Clamps ->
         IF AsInt(v) = NoValue THEN NoValue
         ELSE Clamped(AsInt(v), Clamps[k][1], Clamps[k][2])

SanitizeMobile(p) ==
  [k \in {k \in DOMAIN p \cap MobileKeys : Cast(k, p[k]) # NoValue} |-> Cast(k, p[k])]

MergeMobileStoredWins(existing, sanitized) == existing @@ sanitized  \* mutant: wrong order

MergeMobileReplace(existing, sanitized) == sanitized  \* mutant: the patch replaces the blob

MergeMobile(existing, sanitized) ==
  [k \in DOMAIN existing \cup DOMAIN sanitized |->
     IF k \in DOMAIN sanitized THEN sanitized[k] ELSE existing[k]]

(* What LoadMobileSettings and json.Unmarshal make of a row.               *)
Blob(r) == IF r = Unset THEN Empty ELSE IF r.blob = Corrupt THEN Empty ELSE r.blob

Updated(r) == IF r = Unset THEN Unset ELSE r.updated

-----------------------------------------------------------------------------
Init ==
  /\ row \in {Unset, [blob |-> Corrupt, updated |-> Unset]}
  /\ pc = [r \in Requests |-> "idle"]
  /\ patch = [r \in Requests |-> Empty]
  /\ merged = [r \in Requests |-> Empty]
  /\ stamp = [r \in Requests |-> 0]
  /\ answer = [r \in Requests |-> Unset]
  /\ clock = 1
  /\ overlapped = [r \in Requests |-> FALSE]

ReceivePatch(r) ==
  /\ pc[r] = "idle"
  /\ \E p \in Patches : patch' = [patch EXCEPT ![r] = SanitizeMobile(p)]
  /\ pc' = [pc EXCEPT ![r] = "load"]
  /\ answer' = [answer EXCEPT ![r] = Unset]
  /\ overlapped' = [overlapped EXCEPT ![r] = FALSE]
  /\ UNCHANGED <<row, merged, stamp, clock>>

ReceiveGet(r) ==
  /\ pc[r] = "idle"
  /\ pc' = [pc EXCEPT ![r] = "answer"]
  /\ answer' = [answer EXCEPT ![r] = Unset]
  /\ overlapped' = [overlapped EXCEPT ![r] = FALSE]
  /\ UNCHANGED <<row, patch, merged, stamp, clock>>

Load(r) ==
  /\ pc[r] = "load"
  /\ merged' = [merged EXCEPT ![r] = MergeMobile(Blob(row), patch[r])]
  /\ overlapped' = [overlapped EXCEPT ![r] = FALSE]
  /\ pc' = [pc EXCEPT ![r] = "stamp"]
  /\ UNCHANGED <<row, patch, stamp, answer, clock>>

TakeStamp(r) ==
  /\ pc[r] = "stamp"
  /\ stamp' = [stamp EXCEPT ![r] = clock]
  /\ pc' = [pc EXCEPT ![r] = "save"]
  /\ UNCHANGED <<row, patch, merged, answer, clock, overlapped>>

Save(r) ==
  /\ pc[r] = "save"
  /\ row' = [blob |-> merged[r], updated |-> stamp[r]]
  /\ overlapped' = [q \in Requests |-> overlapped[q] \/ q # r]
  /\ pc' = [pc EXCEPT ![r] = "answer"]
  /\ UNCHANGED <<patch, merged, stamp, answer, clock>>

(* A handler that has answered forgets its request.                        *)
Done(r, a) ==
  /\ pc' = [pc EXCEPT ![r] = "idle"]
  /\ answer' = [answer EXCEPT ![r] = a]
  /\ patch' = [patch EXCEPT ![r] = Empty]
  /\ merged' = [merged EXCEPT ![r] = Empty]
  /\ stamp' = [stamp EXCEPT ![r] = 0]
  /\ UNCHANGED <<row, clock, overlapped>>

(* mobileResponse: 200 with the stored row read again - or, if that read   *)
(* fails, with the error logged and nothing in the answer.                 *)
Answer(r) ==
  /\ pc[r] = "answer"
  /\ \/ Done(r, [settings |-> Blob(row), updated |-> Updated(row)])
     \/ Done(r, [settings |-> Empty, updated |-> Unset])

(* The load or the save fails: 500, nothing stored.                        *)
Fail(r) ==
  /\ pc[r] \in {"load", "save"}
  /\ Done(r, Unset)

Crash ==
  /\ pc' = [r \in Requests |-> "idle"]
  /\ patch' = [r \in Requests |-> Empty]
  /\ merged' = [r \in Requests |-> Empty]
  /\ stamp' = [r \in Requests |-> 0]
  /\ answer' = [r \in Requests |-> Unset]
  /\ overlapped' = [r \in Requests |-> FALSE]
  /\ UNCHANGED <<row, clock>>

Tick ==
  /\ clock < MaxClock
  /\ clock' = clock + 1
  /\ UNCHANGED <<row, pc, patch, merged, stamp, answer, overlapped>>

Handler(r) == \/ ReceivePatch(r) \/ ReceiveGet(r) \/ Load(r) \/ TakeStamp(r)
              \/ Save(r) \/ Answer(r) \/ Fail(r)

Next == (\E r \in Requests : Handler(r)) \/ Crash \/ Tick

Spec == Init /\ [][Next]_vars

-----------------------------------------------------------------------------
(* Values a key may have in storage.                                       *)
Permitted(k) ==
  IF k = ModeKey THEN Modes
  ELSE IF k \in Booleans THEN BOOLEAN
  ELSE Clamps[k][1]..Clamps[k][2]

IsBlob(b) ==
  /\ b = [k \in DOMAIN b |-> b[k]]
  /\ DOMAIN b \subseteq MobileKeys
  /\ \A k \in DOMAIN b : b[k] \in Permitted(k)

(* Types; in particular whatever clients send, a stored blob has only the  *)
(* keys of the sync, each with a value of its type and within its bounds.  *)
TypeOK ==
  /\ row # Unset =>
       /\ row = [blob |-> row.blob, updated |-> row.updated]
       /\ row.blob # Corrupt => IsBlob(row.blob)
       /\ row.updated # Unset => row.updated \in Nat
  /\ pc \in [Requests -> {"idle", "load", "stamp", "save", "answer"}]
  /\ patch = [r \in Requests |-> patch[r]]
  /\ merged = [r \in Requests |-> merged[r]]
  /\ answer = [r \in Requests |-> answer[r]]
  /\ \A r \in Requests :
       /\ IsBlob(patch[r]) /\ IsBlob(merged[r])
       /\ answer[r] # Unset => IsBlob(answer[r].settings)
  /\ stamp \in [Requests -> Nat]
  /\ clock \in Nat
  /\ overlapped \in [Requests -> BOOLEAN]

Saves(r) == pc[r] = "save" /\ pc'[r] = "answer"

(* The blob new is old with the keys of p set.                             *)
IsMerge(new, old, p) ==
  /\ DOMAIN new = DOMAIN old \cup DOMAIN p
  /\ \A k \in DOMAIN new : new[k] = IF k \in DOMAIN p THEN p[k] ELSE old[k]

(* The blob old has what p says of its keys.                               *)
Shows(old, p) == \A k \in DOMAIN p : k \in DOMAIN old /\ old[k] = p[k]

(* No stamp is ahead of the clock, none that is going to be saved is older *)
(* than the one stored.                                                    *)
StampsInOrder ==
  /\ Updated(row) # Unset => row.updated <= clock
  /\ \A r \in Requests :
       /\ stamp[r] <= clock
       /\ pc[r] = "save" /\ ~overlapped[r] /\ Updated(row) # Unset => row.updated <= stamp[r]

(* Until somebody else saves, what a PATCH read is what is stored, and     *)
(* then what it saved is.                                                  *)
InStep ==
  \A r \in Requests :
    /\ pc[r] = "idle" => DOMAIN patch[r] = {}
    /\ pc[r] \in {"stamp", "save"} /\ ~overlapped[r] => IsMerge(merged[r], Blob(row), patch[r])
    /\ pc[r] = "answer" /\ ~overlapped[r] => Shows(Blob(row), patch[r])

(* The inductive invariant.                                                *)
IInv == TypeOK /\ StampsInOrder /\ InStep

(* A PATCH leaves every stored key it does not mention as it was, stores   *)
(* its own keys, and does not move updated_at back, unless another PATCH   *)
(* saved while it ran.                                                     *)
AtomicUnlessOverlapped ==
  [][\A r \in Requests : Saves(r) /\ ~overlapped[r] =>
       /\ IsMerge(row'.blob, Blob(row), patch[r])
       /\ Updated(row) # Unset => row'.updated >= row.updated]_vars

(* A PATCH that is answered 200 has its values stored, unless another      *)
(* PATCH saved meanwhile, and the answer shows them to the device or is    *)
(* the empty one of a reload that failed: a device that is answered        *)
(* nothing has lost nothing.                                               *)
AnswerShowsPatch ==
  [][\A r \in Requests :
       pc[r] = "answer" /\ pc'[r] = "idle" /\ answer'[r] # Unset /\ ~overlapped[r] =>
         /\ Shows(Blob(row), patch[r])
         /\ \/ Shows(answer'[r].settings, patch[r])
            \/ answer'[r] = [settings |-> Empty, updated |-> Unset]]_vars

(* "MergeMobile last-write-wins merges sanitized keys into the stored      *)
(* mobile blob." (settings.go): a PATCH changes no stored key but its own. *)
MergesIntoStored ==
  [][\A r \in Requests : Saves(r) =>
       \A k \in DOMAIN Blob(row) \ DOMAIN patch[r] :
         k \in DOMAIN row'.blob /\ row'.blob[k] = row.blob[k]]_vars
=============================================================================
