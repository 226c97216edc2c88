--------------------------- MODULE MCDeviceTools ---------------------------
(***************************************************************************)
(* A small instance of DeviceTools: two images of the local version,       *)
(* whose manifest comes in a call of its own, two signed firmwares         *)
(* elsewhere, two providers.                                               *)
(***************************************************************************)
EXTENDS DeviceTools, TLC

CONSTANTS k, a, b, local, v1, v2, v3, far, x, m1, m2, m3, claude, codex

MCFields == FirmwareFields \cup {"manifest", "providers"}
MCFlags == {claude, codex}
MCClaude == {claude}
MCValues == {a, b, local, v1, v2, v3, far, x, m1, m2, m3, {}, {claude}, {codex}, {claude, codex}}

SignedFW(version, manifest) == [url |-> far, sha |-> x, version |-> version, manifest |-> manifest]
MCExternal == {SignedFW(v2, m2), SignedFW(v3, m3)}
\* A flag set, a flag cleared, both at once, and such calls that bring firmware or a
\* manifest along.
MCFlagCalls ==
  {[on |-> {codex}, off |-> {}, rest |-> NoSettings],
   [on |-> {}, off |-> {claude}, rest |-> NoSettings],
   [on |-> {codex}, off |-> {claude}, rest |-> SetFirmware(SignedFW(v2, m2))],
   [on |-> {claude}, off |-> {codex}, rest |-> SetManifest(m1)]}
MCCovers ==
  [m \in {m1, m2, m3} |-> CASE m = m1 -> v1 [] m = m2 -> v2 [] m = m3 -> v3]

\* Sessions are interchangeable, and so are requests and the images published.
MCSymmetry == Permutations(Sessions) \cup Permutations(Requests) \cup Permutations(Images)
=============================================================================
