---------------------------- MODULE MCDeviceSync ----------------------------
(***************************************************************************)
(* Small instances of DeviceSync: two keys, one setting with three values, *)
(* one serial.  Edits may set the setting, rotate the key, or raise the    *)
(* firmware floor with the setting (a firmware publish), and may go back   *)
(* to a value the device had before.                                       *)
(***************************************************************************)
EXTENDS DeviceSync, TLC

CONSTANTS k1, k2, x, y, z, city, sn

MCKeys == {k1, k2}
MCFields == {city}
MCValues == {x, y, z}
MCSerials == {sn}

SetCity(v) == [psk |-> None, set |-> [f \in Fields |-> v], minSV |-> 0]
SetKey(k)  == [psk |-> k, set |-> [f \in Fields |-> None], minSV |-> 0]
SetFirmware(v, sv) == [psk |-> None, set |-> [f \in Fields |-> v], minSV |-> sv]

MCStage == {SetCity(x), SetCity(y), SetKey(k1), SetKey(k2)}
MCProvision == {[psk |-> k1, set |-> [f \in Fields |-> x], minSV |-> 0]}

\* Once an outstanding edit was discarded a number may stand for two payloads, and
\* the invariants that rest on the numbers promise nothing: see the run on
\* PromotesOnlyWhatDeviceRan.  The states after that one are left out.
NumbersAreUnique == "dropped" \notin marks

\* Request slots are interchangeable.
SlotSymmetry == Permutations(Handlers)

\* Edits for liveness: a setting, a publish that carries a floor, and a rotation
\* with no way back to the first key.
LiveStage == {SetCity(x), SetFirmware(y, 1), SetKey(k2)}

\* What the liveness properties are about: an operator who drops or changes edits
\* under way, or provisions the device anew, ends what EditsSettle asks for.
Undisturbed == marks \subseteq {"setback", "unrotated"}

\* Edits of settings only.
SettingEdits == {SetCity(x), SetCity(y), SetCity(z)}

\* Edits for the disagreements: a publish also raises the floor.
AllEdits == MCStage \cup {SetFirmware(y, 1)}
=============================================================================
