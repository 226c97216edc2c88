--------------------------- MODULE FirmwareProofs ---------------------------
(***************************************************************************)
(* Proofs about DeviceTools, for any number of sessions, requests, images, *)
(* chunks and calls.                                                       *)
(*                                                                         *)
(* Files: as long as no two publishes copied at once, the tmp file is the  *)
(* copy of the one that is under way, and no name, request or cache entry  *)
(* stands for it (Separate); times of last writes tell files apart.        *)
(* Record: what an edit makes of each setting (StagedSettings).            *)
(***************************************************************************)
EXTENDS DeviceTools, RegistryLemmas, SequenceTheorems

-----------------------------------------------------------------------------
(* Bytes *)

Part(image, n) == [i \in 1..n |-> image]

LEMMA LenOfFunction ==
  ASSUME NEW S, NEW n \in Nat, NEW f \in [1..n -> S]
  PROVE  f \in Seq(S) /\ Len(f) = n
<1>1. f \in Seq(S)
  BY SeqDef
<1>2. Len(f) \in Nat /\ DOMAIN f = 1..Len(f)
  BY <1>1, LenProperties
<1>3. DOMAIN f = 1..n
  OBVIOUS
<1>4. QED
  BY <1>1, <1>2, <1>3

LEMMA PartType ==
  ASSUME NEW image \in Images, NEW n \in Nat
  PROVE  Part(image, n) \in Bytes /\ Len(Part(image, n)) = n
<1>1. Part(image, n) \in [1..n -> Images \cup {Hole}]
  BY DEF Part
<1>2. QED
  BY <1>1, LenOfFunction DEF Bytes

LEMMA PutType ==
  ASSUME NEW bytes \in Bytes, NEW k \in Nat \ {0}, NEW image \in Images
  PROVE  Put(bytes, k, image) \in Bytes
<1> DEFINE n == IF k > Len(bytes) THEN k ELSE Len(bytes)
<1>1. Len(bytes) \in Nat /\ \A i \in 1..Len(bytes) : bytes[i] \in Images \cup {Hole}
  BY LenProperties, ElementOfSeq DEF Bytes
<1>2. n \in Nat
  BY <1>1
<1>3. Put(bytes, k, image) \in [1..n -> Images \cup {Hole}]
  BY <1>1, <1>2 DEF Put
<1> HIDE DEF n
<1>4. QED
  BY <1>2, <1>3, LenOfFunction DEF Bytes

\* A write at the end of a partial copy.
LEMMA PutNext ==
  ASSUME NEW image \in Images, NEW n \in Nat
  PROVE  Put(Part(image, n), n + 1, image) = Part(image, n + 1)
<1>1. Len(Part(image, n)) = n
  BY PartType
<1>2. \A i \in 1..n : Part(image, n)[i] = image
  BY DEF Part
<1>3. QED
  BY <1>1, <1>2 DEF Put, Part

-----------------------------------------------------------------------------
(* Files: what a write changes *)

\* One file, perhaps a new one, was written; its time is the latest.
Wrote(w) ==
  /\ nodes' \in Seq(Node)
  /\ w \in 1..Len(nodes')
  /\ clock' = clock + 1
  /\ nodes'[w].mtime = clock'
  /\ \A n \in 1..Len(nodes) : n \in 1..Len(nodes')
  /\ \A n \in 1..Len(nodes') : n # w => n \in 1..Len(nodes) /\ nodes'[n] = nodes[n]

LEMMA NodeFacts ==
  ASSUME DirTypeOK
  PROVE  /\ Len(nodes) \in Nat
         /\ \A n \in 1..Len(nodes) : nodes[n] \in Node
BY LenProperties, ElementOfSeq DEF DirTypeOK

LEMMA Overwritten ==
  ASSUME DirTypeOK, NEW w \in 1..Len(nodes), NEW bytes \in Bytes,
         clock' = clock + 1,
         nodes' = [nodes EXCEPT ![w] = [bytes |-> bytes, mtime |-> clock']]
  PROVE  /\ Wrote(w)
         /\ Len(nodes') = Len(nodes)
         /\ nodes'[w].bytes = bytes
<1>1. nodes \in Seq(Node) /\ clock \in Nat
  BY DEF DirTypeOK
<1>2. [bytes |-> bytes, mtime |-> clock'] \in Node
  BY <1>1 DEF Node
<1>3. Len(nodes) \in Nat /\ nodes \in [1..Len(nodes) -> Node]
  BY <1>1, LenProperties
<1>4. nodes' \in [1..Len(nodes) -> Node]
  BY <1>2, <1>3
<1>5. nodes' \in Seq(Node) /\ Len(nodes') = Len(nodes)
  BY <1>3, <1>4, LenOfFunction
<1>6. QED
  BY <1>3, <1>5 DEF Wrote

LEMMA OpenFacts ==
  ASSUME TypeOK, NEW s \in Sessions, NEW image \in Images, OpenTmp(s, image)
  PROVE  /\ Wrote(tmp')
         /\ nodes'[tmp'].bytes = Part(image, 0)
         /\ tmp # 0 => tmp' = tmp
         /\ tmp = 0 => tmp' = Len(nodes) + 1
<1> DEFINE new == Empty(clock')
<1>1. /\ DirTypeOK /\ nodes \in Seq(Node) /\ clock \in Nat /\ clock' = clock + 1
      /\ tmp \in 0..Len(nodes) /\ Len(nodes) \in Nat
  BY NodeFacts DEF TypeOK, DirTypeOK, OpenTmp
<1>2. <<>> \in Bytes
  BY EmptySeq DEF Bytes
<1>3. new = [bytes |-> <<>>, mtime |-> clock'] /\ new \in Node
  BY <1>1, <1>2 DEF Node, Empty
<1>4. <<>> = Part(image, 0)
  <2>1. Part(image, 0) \in Bytes /\ Len(Part(image, 0)) = 0
    BY PartType
  <2>2. QED
    BY <2>1, EmptySeq DEF Bytes
<1>5. CASE tmp = 0
  <2>1. tmp' = Len(nodes) + 1 /\ nodes' = Append(nodes, new)
    BY <1>5 DEF OpenTmp
  <2>2. /\ nodes' \in Seq(Node)
        /\ Len(nodes') = Len(nodes) + 1
        /\ \A i \in 1..Len(nodes) : nodes'[i] = nodes[i]
        /\ nodes'[Len(nodes) + 1] = new
    BY <1>1, <1>3, <2>1, AppendProperties
  <2>3. Wrote(tmp')
    BY <1>1, <1>3, <2>1, <2>2 DEF Wrote
  <2>4. QED
    BY <1>3, <1>4, <1>5, <2>1, <2>2, <2>3
<1>6. CASE tmp # 0
  <2>1. tmp' = tmp /\ nodes' = [nodes EXCEPT ![tmp] = new]
    BY <1>6 DEF OpenTmp
  <2>2. tmp \in 1..Len(nodes)
    BY <1>1, <1>6
  <2>3. Wrote(tmp) /\ nodes'[tmp].bytes = <<>>
    BY <1>1, <1>2, <1>3, <2>1, <2>2, Overwritten
  <2>4. QED
    BY <1>4, <1>6, <2>1, <2>3
<1>7. QED
  BY <1>5, <1>6

LEMMA CopyFacts ==
  ASSUME TypeOK, NEW s \in Sessions, CopyChunk(s)
  PROVE  /\ copy[s] \in Copy /\ copy[s].node \in 1..Len(nodes)
         /\ copy[s].done \in 0..Chunks /\ copy[s].done + 1 \in 0..Chunks
         /\ Wrote(copy[s].node)
         /\ Len(nodes') = Len(nodes)
         /\ nodes'[copy[s].node].bytes
              = Put(nodes[copy[s].node].bytes, copy[s].done + 1, copy[s].image)
<1>1. DirTypeOK /\ Copying(s) /\ copy[s].done < Chunks
  BY DEF TypeOK, CopyChunk
<1>2. copy[s] \in Copy /\ copy[s].node \in 1..Len(nodes)
  BY <1>1 DEF DirTypeOK, Copying, Idle, Copy, Installed
<1>3. copy[s].done \in 0..Chunks /\ copy[s].done + 1 \in 0..Chunks /\ copy[s].image \in Images
  BY <1>1, <1>2, FirmwareDirAssumption DEF Copy
<1> DEFINE bytes == Put(nodes[copy[s].node].bytes, copy[s].done + 1, copy[s].image)
<1>4. nodes[copy[s].node].bytes \in Bytes
  BY <1>1, <1>2, NodeFacts DEF Node
<1>5. bytes \in Bytes
  BY <1>3, <1>4, PutType
<1>6. clock' = clock + 1
      /\ nodes' = [nodes EXCEPT ![copy[s].node] = [bytes |-> bytes, mtime |-> clock']]
  BY DEF CopyChunk
<1> HIDE DEF bytes
<1>7. /\ Wrote(copy[s].node)
      /\ Len(nodes') = Len(nodes)
      /\ nodes'[copy[s].node].bytes = bytes
  BY <1>1, <1>2, <1>5, <1>6, Overwritten
<1>8. QED
  BY <1>2, <1>3, <1>7 DEF bytes

-----------------------------------------------------------------------------
(* The record: what an edit makes of each setting *)

LEMMA StagedSettings ==
  ASSUME NEW rec \in Record, NEW upd \in Update
  PROVE  /\ Staged(rec, upd).active = rec.active
         /\ Staged(rec, upd).pending # None =>
              Staged(rec, upd).pending.set = Overlay(PendingBase(rec).set, upd.set)
         /\ Staged(rec, upd).pending = None =>
              rec.active.set = Overlay(PendingBase(rec).set, upd.set)
<1> DEFINE merged == [MergePayload(PendingBase(rec), upd) EXCEPT !.version = NextVersion(rec)]
<1>1. PendingBase(rec) \in Payload /\ PendingBase(rec) # None
  BY NoneAssumption DEF PendingBase, Record
<1>2. MergePayload(PendingBase(rec), upd) \in Payload
  BY <1>1, MergeType
<1>3. NextVersion(rec) \in Nat
  BY StagedFacts
<1>4. merged \in Payload /\ merged.set = Overlay(PendingBase(rec).set, upd.set)
  BY <1>2, <1>3 DEF MergePayload, Payload
<1>5. merged # None
  BY <1>4, NoneAssumption
<1>6. Staged(rec, upd) = [rec EXCEPT !.pending =
                            IF PayloadEquivalent(merged, rec.active) THEN None ELSE merged]
  BY DEF Staged
<1>7. rec.active \in Payload
  BY DEF Record
<1> HIDE DEF merged
<1>8. QED
  BY <1>4, <1>5, <1>6, <1>7 DEF Record, PayloadEquivalent

\* None is not a value, so an update holds an opinion where it sets a field.
LEMMA Opinions ==
  /\ \A v \in Values : v # None
  /\ \A on \in SUBSET Flags : on # None
  /\ \A m \in Manifests : m # None
BY DeviceToolsAssumption, NoneAssumption

Staging == External \cup {Local(image) : image \in Images}

\* What the tools stage: firmware or none of it, a manifest or none, providers or
\* none.
Brings(set, fw) ==
  (\A f \in FirmwareFields : set[f] = fw[f]) /\ set["manifest"] = fw.manifest

Call(set) ==
  /\ set \in Settings
  /\ \/ \A f \in FirmwareFields : set[f] = None
     \/ \E fw \in Staging : Brings(set, fw)
  /\ set["manifest"] \in Manifests \cup {None}
  /\ set["providers"] \in (SUBSET Flags) \cup {None}

LEMMA StagingTypes ==
  ASSUME NEW fw \in Staging
  PROVE  /\ fw \in Firmware
         /\ \A f \in FirmwareFields : fw[f] \in Values /\ fw[f] # None
         /\ fw.manifest # None => fw \in External
BY DeviceToolsAssumption, Opinions DEF Staging, Local, Firmware, FirmwareFields

LEMMA FirmwareCall ==
  ASSUME NEW fw \in Staging
  PROVE  /\ Call(SetFirmware(fw)) /\ Brings(SetFirmware(fw), fw)
         /\ SetFirmware(fw)["providers"] = None
<1>1. /\ fw \in Firmware /\ SetFirmware(fw) \in Settings
      /\ SetFirmware(fw)["providers"] = None
      /\ SetFirmware(fw)["manifest"] = fw.manifest
      /\ \A f \in FirmwareFields : SetFirmware(fw)[f] = fw[f]
  BY StagingTypes, DeviceToolsAssumption
     DEF SetFirmware, NoSettings, Settings, Firmware, FirmwareFields
<1>2. QED
  BY <1>1 DEF Call, Brings, Firmware

LEMMA ManifestCall ==
  ASSUME NEW m \in Manifests
  PROVE  Call(SetManifest(m)) /\ SetManifest(m)["providers"] = None
BY DeviceToolsAssumption DEF Call, SetManifest, NoSettings, Settings, FirmwareFields

LEMMA RestCall ==
  ASSUME NEW set \in Rest
  PROVE  Call(set) /\ set["providers"] = None /\ set["url"] # LocalURL
<1>0. LocalURL # None
  BY DeviceToolsAssumption, Opinions
<1>1. CASE set = NoSettings
  BY <1>0, <1>1, DeviceToolsAssumption DEF Call, NoSettings, Settings, FirmwareFields
<1>2. ASSUME NEW fw \in External, set = SetFirmware(fw)
      PROVE  Call(set) /\ set["providers"] = None /\ set["url"] # LocalURL
  <2>1. fw \in Staging /\ fw.url # LocalURL
    BY DeviceToolsAssumption DEF Staging
  <2>2. QED
    BY <1>2, <2>1, FirmwareCall DEF Brings, FirmwareFields
<1>3. ASSUME NEW m \in Manifests, set = SetManifest(m)
      PROVE  Call(set) /\ set["providers"] = None /\ set["url"] # LocalURL
  <2>1. set["url"] = None
    BY <1>3, DeviceToolsAssumption DEF SetManifest, NoSettings, FirmwareFields
  <2>2. QED
    BY <1>0, <1>3, <2>1, ManifestCall
<1>4. QED
  BY <1>1, <1>2, <1>3 DEF Rest

LEMMA FlagsCall ==
  ASSUME NEW set \in Rest, NEW on \in SUBSET Flags
  PROVE  LET all == [set EXCEPT !["providers"] = on] IN
         /\ Call(all) /\ all["providers"] = on /\ on # None /\ all["url"] # LocalURL
         /\ Strays(all) = Strays(set)
<1> DEFINE all == [set EXCEPT !["providers"] = on]
<1>1. /\ Call(set) /\ set \in Settings /\ set["url"] # LocalURL
      /\ on \in Values /\ on # None
  BY RestCall, Opinions, DeviceToolsAssumption DEF Call
<1>2. /\ all \in Settings /\ all["providers"] = on
      /\ \A f \in FirmwareFields \cup {"manifest"} : all[f] = set[f]
  BY <1>1, DeviceToolsAssumption DEF Settings, FirmwareFields
<1> HIDE DEF all
<1>3. Call(all)
  BY <1>1, <1>2 DEF Call, Brings
<1>4. Strays(all) = Strays(set)
  BY <1>2 DEF Strays, FirmwareFields
<1>5. QED
  BY <1>1, <1>2, <1>3, <1>4 DEF all, FirmwareFields

LEMMA ChangesType ==
  ASSUME NEW set, Call(set)
  PROVE  Changes(set) \in Update /\ Changes(set).set = set
BY DEF Call, Changes, Update

-----------------------------------------------------------------------------
(* The record: invariant *)

SameFirmware(p, q) == \A f \in FirmwareFields : p.set[f] = q.set[f]

HasFirmware(p, fw) == \A f \in FirmwareFields : p.set[f] = fw[f]

ProvidersTyped == \A p \in OnRecord : p.set["providers"] \in (SUBSET Flags) \cup {None}

\* A payload without providers is over one without: the default applies to both.
ProvidersStay ==
  file.pending # None /\ file.pending.set["providers"] = None
    => file.active.set["providers"] = None

ToolsSound ==
  \A s \in Sessions :
    /\ tool[s].pc = "flags" => tool[s].base = tool[s].saw
    /\ tool[s].pc = "revert" => tool[s].fw.manifest # None

RecordInv ==
  /\ ProvidersTyped /\ ProvidersStay /\ ToolsSound
  /\ FirmwareTogether /\ ManifestMatches /\ FlagsAsWanted

LEMMA RecordFacts ==
  ASSUME file \in Record
  PROVE  /\ file.active \in Payload /\ file.active # None
         /\ file.pending \in Payload \cup {None}
         /\ file.active.set \in Settings
         /\ file.pending # None => file.pending.set \in Settings
         /\ PendingBase(file) \in OnRecord /\ PendingBase(file).set \in Settings
         /\ file.active \in OnRecord
         /\ file.pending # None => file.pending \in OnRecord
BY NoneAssumption DEF Record, Payload, PendingBase, OnRecord

\* An edit overlays what is pending, or in force: each setting is the call's, or
\* as before.
LEMMA StageCall ==
  ASSUME file \in Record, RecordInv, NEW set, Call(set),
         file' = Staged(file, Changes(set)),
         bare' = (bare \/ Strays(set)),
         \/ set["providers"] = None /\ UNCHANGED <<wanted, crossed>>
         \/ set["providers"] # None /\ (~crossed' => wanted' = set["providers"]),
         ToolsSound'
  PROVE  /\ file' \in Record
         /\ RecordInv'
         /\ \A p \in OnRecord' :
              \/ \E fw \in Staging : Brings(set, fw) /\ HasFirmware(p, fw)
              \/ \E q \in OnRecord : SameFirmware(p, q)
<1> DEFINE base == PendingBase(file)
           new == Overlay(base.set, set)
<1>1. Changes(set) \in Update /\ Changes(set).set = set
  BY ChangesType
<1>2. base \in OnRecord /\ base.set \in Settings /\ set \in Settings
  BY RecordFacts DEF Call
<1>3. \A f \in FirmwareFields \cup {"manifest", "providers"} :
        new[f] = IF set[f] = None THEN base.set[f] ELSE set[f]
  BY <1>2, DeviceToolsAssumption DEF Overlay
<1>4. /\ file' \in Record
      /\ file'.active = file.active
      /\ file'.pending # None => file'.pending.set = new
      /\ file'.pending = None => file.active.set = new
  BY <1>1, StagedFacts, StagedSettings
<1>5. \A p \in OnRecord' : p.set = new \/ p \in OnRecord
  BY <1>4, RecordFacts DEF OnRecord
<1>6. \/ /\ \A f \in FirmwareFields : set[f] = None /\ new[f] = base.set[f]
      \/ \E fw \in Staging :
           Brings(set, fw) /\ \A f \in FirmwareFields : new[f] = fw[f] /\ set[f] # None
  <2>1. CASE \A f \in FirmwareFields : set[f] = None
    BY <1>3, <2>1
  <2>2. ASSUME NEW fw \in Staging, Brings(set, fw)
        PROVE  \A f \in FirmwareFields : new[f] = fw[f] /\ set[f] # None
    BY <1>3, <2>2, StagingTypes DEF Brings
  <2>3. QED
    BY <2>1, <2>2 DEF Call
<1> HIDE DEF new
<1>7. ProvidersTyped'
  <2>1. new["providers"] \in (SUBSET Flags) \cup {None}
    BY <1>2, <1>3 DEF RecordInv, ProvidersTyped, Call
  <2>2. QED
    BY <1>5, <2>1 DEF RecordInv, ProvidersTyped
<1>8. FirmwareTogether'
  <2>1. SUFFICES ASSUME NEW p \in OnRecord', p.set = new
                 PROVE  \/ \A f \in FirmwareFields : p.set[f] = None
                        \/ \E g \in Staging : \A f \in FirmwareFields : p.set[f] = g[f]
    BY <1>5 DEF RecordInv, FirmwareTogether, Staging
  <2>2. CASE \A f \in FirmwareFields : new[f] = base.set[f]
    BY <1>2, <2>1, <2>2 DEF RecordInv, FirmwareTogether, Staging
  <2>3. CASE \E fw \in Staging : \A f \in FirmwareFields : new[f] = fw[f]
    BY <2>1, <2>3
  <2>4. QED
    BY <1>6, <2>2, <2>3
<1>9. ManifestMatches'
  <2>1. SUFFICES ASSUME ~bare', NEW p \in OnRecord', p.set = new, new["manifest"] # None
                 PROVE  Covers[new["manifest"]] = new["version"]
    BY <1>5 DEF RecordInv, ManifestMatches
  <2>2. ~bare /\ ~Strays(set)
    BY <2>1
  <2>3. /\ new["manifest"] = IF set["manifest"] = None THEN base.set["manifest"] ELSE set["manifest"]
        /\ new["version"] = IF set["version"] = None THEN base.set["version"] ELSE set["version"]
    BY <1>3 DEF FirmwareFields
  <2>4. base.set["manifest"] # None => Covers[base.set["manifest"]] = base.set["version"]
    BY <1>2, <2>2 DEF RecordInv, ManifestMatches
  <2>5. set["manifest"] # None /\ set["version"] # None => Covers[set["manifest"]] = set["version"]
    <3>1. SUFFICES ASSUME set["manifest"] # None, set["version"] # None
                   PROVE  Covers[set["manifest"]] = set["version"]
      OBVIOUS
    <3>2. PICK fw \in Staging : Brings(set, fw)
      BY <1>6, <3>1 DEF FirmwareFields
    <3>3. fw.manifest = set["manifest"] /\ fw.version = set["version"] /\ fw \in External
      BY <3>1, <3>2, StagingTypes DEF Brings, FirmwareFields
    <3>4. QED
      BY <3>1, <3>3, DeviceToolsAssumption
  <2>6. QED
    BY <2>1, <2>2, <2>3, <2>4, <2>5 DEF Strays, base
<1>10. /\ ProvidersStay'
       /\ Providers(file') = IF set["providers"] = None THEN Providers(file) ELSE set["providers"]
  <2>1. base = IF file.pending # None THEN file.pending ELSE file.active
    BY DEF base, PendingBase
  <2>2. file.pending # None /\ file.pending.set["providers"] = None
          => file.active.set["providers"] = None
    BY DEF RecordInv, ProvidersStay
  <2>3. new["providers"] = IF set["providers"] = None THEN base.set["providers"] ELSE set["providers"]
    BY <1>3
  <2>4. QED
    BY <1>4, <2>1, <2>2, <2>3 DEF ProvidersStay, Providers, PendingBase
<1>11. FlagsAsWanted'
  BY <1>10 DEF RecordInv, FlagsAsWanted
<1>12. \A p \in OnRecord' :
         \/ \E fw \in Staging : Brings(set, fw) /\ HasFirmware(p, fw)
         \/ \E q \in OnRecord : SameFirmware(p, q)
  <2>1. SUFFICES ASSUME NEW p \in OnRecord', p.set = new
                 PROVE  \/ \E fw \in Staging : Brings(set, fw) /\ HasFirmware(p, fw)
                        \/ SameFirmware(p, base)
    BY <1>2, <1>5 DEF SameFirmware
  <2>2. QED
    BY <1>6, <2>1 DEF HasFirmware, SameFirmware
<1>13. QED
  BY <1>4, <1>7, <1>8, <1>9, <1>10, <1>11, <1>12 DEF RecordInv

LEMMA PromoteRecord ==
  ASSUME file \in Record, RecordInv, Promote
  PROVE  /\ file' \in Record
         /\ RecordInv'
         /\ \A p \in OnRecord' : p \in OnRecord
<1>1. file.pending # None /\ UNCHANGED <<tool, wanted, crossed, bare>>
  BY DEF Promote, MayPromote
<1>2. file' \in Record /\ file'.active = file.pending /\ file'.pending = None
  BY <1>1, PromotedFacts DEF Promote
<1>3. \A p \in OnRecord' : p \in OnRecord
  BY <1>1, <1>2 DEF OnRecord
<1>4. Providers(file') = Providers(file)
  BY <1>1, <1>2 DEF Providers, PendingBase, RecordInv, ProvidersStay
<1>5. QED
  BY <1>1, <1>2, <1>3, <1>4
     DEF RecordInv, ProvidersTyped, ProvidersStay, ToolsSound, FirmwareTogether,
         ManifestMatches, FlagsAsWanted

-----------------------------------------------------------------------------
(* Files: types *)

LEMMA IdleFacts ==
  /\ Idle.pc = "idle"
  /\ \A c \in Copy : c.pc = "copy" /\ c # Idle
  /\ \A c \in Installed : c.pc = "installed" /\ c # Idle
  /\ \A r \in Request : r.pc \in {"hash", "store", "send"} /\ r # Idle
BY DEF Idle, Copy, Installed, Request

LEMMA RequestFacts ==
  ASSUME DirTypeOK, NEW r \in Requests, req[r].pc # "idle"
  PROVE  /\ req[r] \in Request /\ req[r] # Idle
         /\ req[r].fd \in 1..Len(nodes)
         /\ dst \in 1..Len(nodes) /\ dst # 0
         /\ nodes[dst] \in Node /\ nodes[req[r].fd] \in Node
<1>1. req[r] # Idle
  BY IdleFacts
<1>2. req[r] \in Request
  BY <1>1 DEF DirTypeOK
<1>3. req[r].fd \in 1..Len(nodes) /\ dst # 0 /\ dst \in 0..Len(nodes)
  BY <1>1 DEF DirTypeOK
<1>4. Len(nodes) \in Nat
  BY NodeFacts
<1>5. dst \in 1..Len(nodes)
  BY <1>3, <1>4
<1>6. QED
  BY <1>1, <1>2, <1>3, <1>5, NodeFacts

LEMMA StatType ==
  ASSUME DirTypeOK, NEW n \in 1..Len(nodes)
  PROVE  StatOf(n) \in Stat
<1>1. nodes[n] \in Node
  BY NodeFacts
<1>2. Len(nodes[n].bytes) \in Nat
  BY <1>1, LenProperties DEF Node, Bytes
<1>3. QED
  BY <1>1, <1>2 DEF StatOf, Stat, Node

LEMMA OpenTmpType ==
  ASSUME TypeOK, NEW s \in Sessions, NEW image \in Images, OpenTmp(s, image)
  PROVE  DirTypeOK'
<1>1. DirTypeOK /\ Wrote(tmp') /\ UNCHANGED <<dst, req, cache, replaced>>
  BY OpenFacts DEF TypeOK, OpenTmp
<1>2. /\ nodes' \in Seq(Node) /\ tmp' \in 1..Len(nodes')
      /\ \A n \in 1..Len(nodes) : n \in 1..Len(nodes')
  BY <1>1 DEF Wrote
<1>3. Len(nodes) \in Nat /\ Len(nodes') \in Nat
  BY <1>1, <1>2, LenProperties DEF DirTypeOK
<1>4. /\ clock' \in Nat /\ tmp' \in 0..Len(nodes') /\ tmp' \in Nat \ {0}
      /\ dst' \in 0..Len(nodes')
  BY <1>1, <1>2, <1>3 DEF DirTypeOK, Wrote
<1>5. calls' \in 0..MaxCalls /\ overlapped' \in BOOLEAN /\ replaced' \in BOOLEAN
  BY <1>1, FirmwareDirAssumption DEF DirTypeOK, OpenTmp, Called
<1> DEFINE c == [pc |-> "copy", image |-> image, node |-> tmp', done |-> 0]
<1>6. c \in Copy /\ copy' = [copy EXCEPT ![s] = c]
  BY <1>4, FirmwareDirAssumption DEF Copy, OpenTmp
<1>7. /\ copy' \in [Sessions -> {Idle} \cup Copy \cup Installed]
      /\ \A t \in Sessions : copy'[t].pc = "copy" => copy'[t].node \in 1..Len(nodes')
  BY <1>1, <1>2, <1>6 DEF DirTypeOK
<1>8. \A r \in Requests : req'[r] # Idle => req'[r].fd \in 1..Len(nodes') /\ dst' # 0
  BY <1>1, <1>2 DEF DirTypeOK
<1>9. req' \in [Requests -> {Idle} \cup Request] /\ cache' \in Entry
  BY <1>1 DEF DirTypeOK
<1>10. QED
  BY <1>2, <1>4, <1>5, <1>7, <1>8, <1>9 DEF DirTypeOK

LEMMA CopyChunkType ==
  ASSUME TypeOK, NEW s \in Sessions, CopyChunk(s)
  PROVE  DirTypeOK'
<1>1. /\ DirTypeOK /\ Wrote(copy[s].node) /\ Len(nodes') = Len(nodes)
      /\ copy[s] \in Copy /\ copy[s].done + 1 \in 0..Chunks
  BY CopyFacts DEF TypeOK
<1>2. /\ nodes' \in Seq(Node) /\ clock' \in Nat
  BY <1>1 DEF Wrote, DirTypeOK
<1>3. copy' = [copy EXCEPT ![s].done = copy[s].done + 1]
      /\ UNCHANGED <<tmp, dst, calls, req, cache, overlapped, replaced>>
  BY <1>1 DEF CopyChunk, DirTypeOK
<1>4. [copy[s] EXCEPT !.done = copy[s].done + 1] \in Copy
      /\ [copy[s] EXCEPT !.done = copy[s].done + 1].node = copy[s].node
  BY <1>1 DEF Copy
<1>5. /\ copy' \in [Sessions -> {Idle} \cup Copy \cup Installed]
      /\ \A t \in Sessions : copy'[t].pc = "copy" => copy'[t].node \in 1..Len(nodes')
  BY <1>1, <1>3, <1>4, CopyFacts DEF DirTypeOK
<1>6. QED
  BY <1>1, <1>2, <1>3, <1>5 DEF DirTypeOK

LEMMA InstallType ==
  ASSUME TypeOK, NEW s \in Sessions, Install(s) \/ PublishFails(s)
  PROVE  DirTypeOK'
<1>1. DirTypeOK /\ copy[s] \in Copy /\ Len(nodes) \in Nat
  BY NodeFacts DEF TypeOK, DirTypeOK, Install, PublishFails, Copying, Idle, Installed
<1>2. CASE Install(s)
  <2>1. /\ tmp # 0 /\ dst' = tmp /\ tmp' = 0 /\ replaced' \in BOOLEAN
        /\ copy' = [copy EXCEPT ![s] = [pc |-> "installed", image |-> copy[s].image]]
        /\ UNCHANGED <<nodes, clock, calls, req, cache, overlapped>>
    BY <1>1, <1>2 DEF Install, Rename, DirTypeOK
  <2>2. [pc |-> "installed", image |-> copy[s].image] \in Installed
    BY <1>1 DEF Copy, Installed
  <2>3. /\ copy' \in [Sessions -> {Idle} \cup Copy \cup Installed]
        /\ \A t \in Sessions : copy'[t].pc = "copy" => copy'[t].node \in 1..Len(nodes')
    BY <1>1, <2>1, <2>2 DEF DirTypeOK
  <2>4. QED
    BY <1>1, <2>1, <2>3 DEF DirTypeOK
<1>3. CASE PublishFails(s)
  <2>1. /\ copy' \in [Sessions -> {Idle} \cup Copy \cup Installed]
        /\ \A t \in Sessions : copy'[t].pc = "copy" => copy'[t].node \in 1..Len(nodes')
    BY <1>1, <1>3, IdleFacts DEF DirTypeOK, PublishFails
  <2>2. QED
    BY <1>1, <1>3, <2>1 DEF DirTypeOK, PublishFails
<1>4. QED
  BY <1>2, <1>3

RequestStep(r) == OpenFirmware(r) \/ CachedSHA(r) \/ HashFile(r) \/ StoreSHA(r) \/ Send(r)

LEMMA RequestStepType ==
  ASSUME TypeOK, NEW r \in Requests, RequestStep(r)
  PROVE  DirTypeOK' /\ UNCHANGED <<nodes, tmp, dst, clock, copy, overlapped, replaced>>
<1>1. DirTypeOK /\ UNCHANGED <<nodes, tmp, dst, clock, copy, overlapped, replaced>>
  BY DEF TypeOK, RequestStep, OpenFirmware, CachedSHA, HashFile, StoreSHA, Send
<1>2. CASE OpenFirmware(r)
  <2>1. dst \in 1..Len(nodes)
    BY <1>1, <1>2, NodeFacts DEF DirTypeOK, OpenFirmware
  <2>2. [pc |-> "hash", fd |-> dst, stat |-> StatOf(dst), sum |-> <<>>, raced |-> FALSE] \in Request
    BY <1>1, <2>1, StatType, EmptySeq, NodeFacts DEF Request, Bytes
  <2>3. calls' \in 0..MaxCalls
    BY <1>1, <1>2, FirmwareDirAssumption DEF OpenFirmware, Called, DirTypeOK
  <2>4. QED
    BY <1>1, <1>2, <2>1, <2>2, <2>3 DEF OpenFirmware, DirTypeOK
<1>3. CASE CachedSHA(r)
  <2>1. req[r] \in Request /\ req[r] # Idle
    BY <1>1, <1>3, RequestFacts DEF CachedSHA
  <2> DEFINE new == [req[r] EXCEPT !.pc = "send", !.sum = cache.sum, !.raced = cache.raced]
  <2>2. new \in Request /\ new.fd = req[r].fd /\ req' = [req EXCEPT ![r] = new]
    BY <1>1, <1>3, <2>1 DEF Request, Entry, DirTypeOK, CachedSHA
  <2>3. QED
    BY <1>1, <1>3, <2>1, <2>2 DEF CachedSHA, DirTypeOK
<1>4. CASE HashFile(r)
  <2>1. req[r] \in Request /\ req[r] # Idle /\ nodes[dst] \in Node
    BY <1>1, <1>4, RequestFacts DEF HashFile
  <2> DEFINE new == [req[r] EXCEPT !.pc = "store", !.sum = nodes[dst].bytes,
                                   !.raced = dst # req[r].fd]
  <2>2. new \in Request /\ new.fd = req[r].fd /\ req' = [req EXCEPT ![r] = new]
    BY <1>1, <1>4, <2>1 DEF Request, Node, DirTypeOK, HashFile
  <2>3. QED
    BY <1>1, <1>4, <2>1, <2>2 DEF HashFile, DirTypeOK
<1>5. CASE StoreSHA(r)
  <2>1. req[r] \in Request /\ req[r] # Idle
    BY <1>1, <1>5, RequestFacts DEF StoreSHA
  <2>2. [req[r] EXCEPT !.pc = "send"] \in Request /\ [req[r] EXCEPT !.pc = "send"].fd = req[r].fd
    BY <2>1 DEF Request
  <2>3. cache' \in Entry /\ req' = [req EXCEPT ![r] = [req[r] EXCEPT !.pc = "send"]]
    BY <1>1, <1>5, <2>1 DEF Request, Entry, DirTypeOK, StoreSHA
  <2>4. QED
    BY <1>1, <1>5, <2>1, <2>2, <2>3 DEF StoreSHA, DirTypeOK
<1>6. CASE Send(r)
  BY <1>1, <1>6 DEF Send, DirTypeOK
<1>7. QED
  BY <1>1, <1>2, <1>3, <1>4, <1>5, <1>6 DEF RequestStep

-----------------------------------------------------------------------------
(* Files: invariant *)

\* The time of the last write tells a file from every other.
Clocked ==
  /\ \A n \in 1..Len(nodes) : nodes[n].mtime <= clock
  /\ \A m, n \in 1..Len(nodes) : nodes[m].mtime = nodes[n].mtime => m = n
  /\ cache.stat.mtime <= clock
  /\ \A r \in Requests : req[r] # Idle => req[r].stat.mtime <= clock

\* One copy at a time, and nothing but it refers to the tmp file.
Separate ==
  /\ tmp # 0 => tmp # dst /\ \A r \in Requests : req[r] # Idle => req[r].fd # tmp
  /\ \A s \in Sessions : Copying(s) =>
       /\ tmp # 0 /\ copy[s].node = tmp
       /\ nodes[tmp].bytes = Part(copy[s].image, copy[s].done)
  /\ \A s, t \in Sessions : Copying(s) /\ Copying(t) => s = t

IsWhole(n) == \E image \in Images : nodes[n].bytes = Whole(image)

Contents ==
  /\ dst # 0 => IsWhole(dst)
  /\ \A r \in Requests : req[r] # Idle => IsWhole(req[r].fd)

\* A request's file stays what it was, and a hash not raced is of a file of the
\* size and time it is filed under.
RightHash(r) ==
  /\ req[r].stat = StatOf(req[r].fd)
  /\ req[r].pc # "hash" /\ ~req[r].raced => req[r].sum = nodes[req[r].fd].bytes

Hashes ==
  /\ \A r \in Requests : req[r] # Idle => RightHash(r)
  /\ ~cache.raced => \A n \in 1..Len(nodes) :
                       StatOf(n) = cache.stat => nodes[n].bytes = cache.sum

Ready ==
  ~overlapped /\ ~replaced =>
    \A s \in Sessions :
      copy[s].pc = "installed" => dst # 0 /\ nodes[dst].bytes = Whole(copy[s].image)

FilesInv == Clocked /\ (~overlapped => Separate /\ Contents /\ Hashes) /\ Ready

\* What publishes staged remains right.
Kept ==
  /\ overlapped => overlapped'
  /\ replaced => replaced'
  /\ ~overlapped' /\ ~replaced' /\ dst # 0 => dst' # 0 /\ nodes'[dst'].bytes = nodes[dst].bytes

\* A write to a file that no name but tmp, and no request, stands for.
LEMMA WroteTmp ==
  ASSUME TypeOK, FilesInv, NEW w, Wrote(w), UNCHANGED <<dst, req, cache, replaced>>,
         ~overlapped => overlapped' \/ (w # dst /\ \A r \in Requests : req[r] # Idle => req[r].fd # w),
         overlapped => overlapped'
  PROVE  /\ Clocked' /\ Kept
         /\ ~overlapped' => Contents' /\ Hashes'
<1>1. /\ DirTypeOK /\ Clocked
      /\ Len(nodes) \in Nat /\ clock \in Nat
      /\ \A n \in 1..Len(nodes) : nodes[n] \in Node /\ nodes[n].mtime \in Nat
  BY NodeFacts DEF TypeOK, FilesInv, DirTypeOK, Node
<1>2. /\ w \in 1..Len(nodes') /\ clock' = clock + 1 /\ nodes'[w].mtime = clock + 1
      /\ \A n \in 1..Len(nodes) : n \in 1..Len(nodes')
      /\ \A n \in 1..Len(nodes') : n # w => n \in 1..Len(nodes) /\ nodes'[n] = nodes[n]
  BY DEF Wrote
<1>3. cache.stat.mtime \in Nat
  BY <1>1 DEF DirTypeOK, Entry, Stat
<1>4. Clocked'
  <2>1. \A n \in 1..Len(nodes') : n # w => nodes'[n].mtime <= clock /\ nodes'[n].mtime \in Nat
    BY <1>1, <1>2 DEF Clocked
  <2>2. \A m, n \in 1..Len(nodes') : nodes'[m].mtime = nodes'[n].mtime => m = n
    BY <1>1, <1>2, <2>1 DEF Clocked
  <2>3. \A r \in Requests : req[r] # Idle => req[r].stat.mtime \in Nat
    BY <1>1 DEF DirTypeOK, Request, Stat
  <2>4. \A n \in 1..Len(nodes') : nodes'[n].mtime <= clock'
    BY <1>1, <1>2, <2>1
  <2>5. cache'.stat.mtime <= clock'
    BY <1>1, <1>2, <1>3 DEF Clocked
  <2>6. ASSUME NEW r \in Requests, req'[r] # Idle
        PROVE  req'[r].stat.mtime <= clock'
    <3>1. req[r].stat.mtime \in Nat /\ req[r].stat.mtime <= clock
      BY <1>1, <2>3, <2>6 DEF Clocked
    <3>2. QED
      BY <1>1, <1>2, <3>1
  <2>7. QED
    BY <2>2, <2>4, <2>5, <2>6 DEF Clocked
<1>5. SUFFICES ASSUME ~overlapped'
               PROVE  Contents' /\ Hashes' /\ (dst # 0 => dst' # 0 /\ nodes'[dst'].bytes = nodes[dst].bytes)
  BY <1>4 DEF Kept
<1>6. Contents /\ Hashes /\ w # dst /\ \A r \in Requests : req[r] # Idle => req[r].fd # w
  BY <1>5 DEF FilesInv
<1>7. dst # 0 => dst \in 1..Len(nodes) /\ nodes'[dst] = nodes[dst]
  BY <1>1, <1>2, <1>6 DEF DirTypeOK
<1>8. \A r \in Requests : req[r] # Idle => nodes'[req[r].fd] = nodes[req[r].fd]
  BY <1>1, <1>2, <1>6 DEF DirTypeOK
<1>9. Contents'
  BY <1>6, <1>7, <1>8 DEF Contents, IsWhole
<1>10. \A r \in Requests : req'[r] # Idle => RightHash(r)'
  BY <1>6, <1>8 DEF Hashes, RightHash, StatOf
<1>11. ASSUME NEW n \in 1..Len(nodes'), ~cache'.raced, StatOf(n)' = cache'.stat
       PROVE  nodes'[n].bytes = cache'.sum
  <2>1. nodes'[n].mtime = cache.stat.mtime
    BY <1>11 DEF StatOf
  <2>2. n # w
    BY <1>1, <1>2, <1>3, <2>1 DEF Clocked
  <2>3. n \in 1..Len(nodes) /\ nodes'[n] = nodes[n]
    BY <1>2, <2>2
  <2>4. StatOf(n) = cache.stat
    BY <1>11, <2>3 DEF StatOf
  <2>5. QED
    BY <1>6, <1>11, <2>3, <2>4 DEF Hashes
<1>12. QED
  BY <1>7, <1>9, <1>10, <1>11 DEF Hashes

LEMMA OpenTmpFiles ==
  ASSUME TypeOK, FilesInv, NEW s \in Sessions, NEW image \in Images,
         copy[s] = Idle, OpenTmp(s, image)
  PROVE  FilesInv' /\ Kept
<1>1. /\ Wrote(tmp') /\ nodes'[tmp'].bytes = Part(image, 0)
      /\ tmp # 0 => tmp' = tmp
      /\ tmp = 0 => tmp' = Len(nodes) + 1
      /\ DirTypeOK /\ Len(nodes) \in Nat
  BY OpenFacts, NodeFacts DEF TypeOK
<1>2. /\ UNCHANGED <<dst, req, cache, replaced>>
      /\ copy' = [copy EXCEPT ![s] = [pc |-> "copy", image |-> image, node |-> tmp', done |-> 0]]
      /\ overlapped' = (overlapped \/ \E t \in Sessions : Copying(t))
  BY DEF OpenTmp
<1>3. ASSUME ~overlapped
      PROVE  tmp' # dst /\ \A r \in Requests : req[r] # Idle => req[r].fd # tmp'
  <2>1. Separate
    BY <1>3 DEF FilesInv
  <2>2. CASE tmp # 0
    BY <1>1, <2>1, <2>2 DEF Separate
  <2>3. CASE tmp = 0
    BY <1>1, <2>3 DEF DirTypeOK
  <2>4. QED
    BY <2>2, <2>3
<1>4. /\ Clocked' /\ Kept
      /\ ~overlapped' => Contents' /\ Hashes'
  BY <1>1, <1>2, <1>3, WroteTmp
<1>5. ~overlapped' => Separate'
  <2>1. SUFFICES ASSUME ~overlapped' PROVE Separate'
    OBVIOUS
  <2>2. ~overlapped /\ \A t \in Sessions : ~Copying(t)
    BY <1>2, <2>1
  <2>3. \A t \in Sessions : Copying(t)' => t = s
    BY <1>2, <2>2 DEF Copying, DirTypeOK
  <2>4. copy'[s].node = tmp' /\ copy'[s].image = image /\ copy'[s].done = 0
    BY <1>1, <1>2 DEF DirTypeOK
  <2>5. tmp' # 0
    BY <1>1
  <2>6. QED
    BY <1>1, <1>2, <1>3, <2>2, <2>3, <2>4, <2>5 DEF Separate
<1>6. Ready'
  BY <1>1, <1>2, <1>4 DEF FilesInv, Ready, Kept, DirTypeOK
<1>7. QED
  BY <1>4, <1>5, <1>6 DEF FilesInv

LEMMA CopyChunkFiles ==
  ASSUME TypeOK, FilesInv, NEW s \in Sessions, CopyChunk(s)
  PROVE  FilesInv' /\ Kept
<1> DEFINE w == copy[s].node
<1>1. /\ Wrote(w) /\ Len(nodes') = Len(nodes)
      /\ nodes'[w].bytes = Put(nodes[w].bytes, copy[s].done + 1, copy[s].image)
      /\ copy[s] \in Copy /\ copy[s].done \in 0..Chunks
  BY CopyFacts
<1>2. /\ DirTypeOK /\ Copying(s)
      /\ copy' = [copy EXCEPT ![s].done = copy[s].done + 1]
      /\ UNCHANGED <<tmp, dst, req, cache, overlapped, replaced>>
  BY DEF TypeOK, CopyChunk, DirTypeOK
<1>3. /\ copy'[s].node = w /\ copy'[s].image = copy[s].image /\ copy'[s].done = copy[s].done + 1
      /\ copy'[s].pc = "copy"
      /\ \A t \in Sessions : t # s => copy'[t] = copy[t]
  BY <1>1, <1>2 DEF DirTypeOK, Copy
<1> HIDE DEF w
<1>4. ~overlapped => /\ Separate /\ tmp # 0 /\ w = tmp
                     /\ w # dst /\ \A r \in Requests : req[r] # Idle => req[r].fd # w
  BY <1>2 DEF FilesInv, Separate, w
<1>5. /\ Clocked' /\ Kept
      /\ ~overlapped' => Contents' /\ Hashes'
  BY <1>1, <1>2, <1>4, WroteTmp
<1>6. ~overlapped' => Separate'
  <2>1. SUFFICES ASSUME ~overlapped PROVE Separate'
    BY <1>2
  <2>2. nodes[tmp].bytes = Part(copy[s].image, copy[s].done)
    BY <1>2, <1>4, <2>1 DEF Separate
  <2>3. copy[s].image \in Images /\ copy[s].done \in Nat
    BY <1>1, FirmwareDirAssumption DEF Copy
  <2>4. nodes'[tmp].bytes = Part(copy[s].image, copy[s].done + 1)
    BY <1>1, <1>4, <2>1, <2>2, <2>3, PutNext
  <2>5. \A t \in Sessions : Copying(t)' => t = s
    BY <1>2, <1>3, <1>4, <2>1 DEF Separate, Copying
  <2>6. QED
    BY <1>2, <1>3, <1>4, <2>1, <2>4, <2>5 DEF Separate
<1>7. Ready'
  BY <1>1, <1>2, <1>3, <1>5 DEF FilesInv, Ready, Kept
<1>8. QED
  BY <1>5, <1>6, <1>7 DEF FilesInv

LEMMA InstallFiles ==
  ASSUME TypeOK, FilesInv, NEW s \in Sessions, Install(s)
  PROVE  FilesInv' /\ Kept
<1>1. /\ DirTypeOK /\ Copying(s) /\ copy[s].done = Chunks
      /\ tmp # 0 /\ dst' = tmp /\ tmp' = 0
      /\ replaced' = (replaced \/ (dst # 0 /\ nodes[dst].bytes # nodes[tmp].bytes))
      /\ copy' = [copy EXCEPT ![s] = [pc |-> "installed", image |-> copy[s].image]]
      /\ UNCHANGED <<nodes, clock, req, cache, overlapped>>
  BY DEF TypeOK, Install, Rename
<1>2. copy[s] \in Copy /\ copy[s].image \in Images
  BY <1>1 DEF DirTypeOK, Copying, Idle, Copy, Installed
<1>3. Clocked'
  BY <1>1 DEF FilesInv, Clocked
<1>4. ~overlapped => /\ Separate /\ Contents /\ Hashes
                     /\ nodes[tmp].bytes = Whole(copy[s].image)
  BY <1>1 DEF FilesInv, Separate, Part, Whole
<1>5. \A t \in Sessions : Copying(t)' => t # s /\ Copying(t)
  BY <1>1 DEF Copying, DirTypeOK
<1>6. ~overlapped' => Separate' /\ Contents' /\ Hashes'
  <2>1. SUFFICES ASSUME ~overlapped PROVE Separate' /\ Contents' /\ Hashes'
    BY <1>1
  <2>2. Separate'
    BY <1>1, <1>4, <1>5, <2>1 DEF Separate
  <2>3. Contents'
    BY <1>1, <1>2, <1>4, <2>1 DEF Contents, IsWhole
  <2>4. Hashes'
    BY <1>1, <1>4, <2>1 DEF Hashes, RightHash, StatOf
  <2>5. QED
    BY <2>2, <2>3, <2>4
<1>7. Kept
  BY <1>1 DEF Kept
<1>8. Ready'
  <2>1. SUFFICES ASSUME ~overlapped, ~replaced', NEW t \in Sessions, copy'[t].pc = "installed"
                 PROVE  nodes[tmp].bytes = Whole(copy'[t].image)
    BY <1>1 DEF Ready
  <2>2. CASE t = s
    BY <1>1, <1>4, <2>1, <2>2 DEF DirTypeOK
  <2>3. CASE t # s
    <3>1. copy'[t] = copy[t]
      BY <1>1, <2>3 DEF DirTypeOK
    <3>2. ~replaced /\ (dst # 0 => nodes[dst].bytes = nodes[tmp].bytes)
      BY <1>1, <2>1
    <3>3. QED
      BY <2>1, <3>1, <3>2 DEF FilesInv, Ready
  <2>4. QED
    BY <2>2, <2>3
<1>9. QED
  BY <1>3, <1>6, <1>7, <1>8 DEF FilesInv

\* A publish that fails, is recorded or is given up: its slot is free again.
LEMMA SlotFreed ==
  ASSUME TypeOK, FilesInv, NEW s \in Sessions,
         tmp' = tmp \/ tmp' = 0,
         copy' = [copy EXCEPT ![s] = Idle],
         UNCHANGED <<nodes, dst, clock, req, cache, overlapped, replaced>>,
         Copying(s) \/ tmp' = tmp
  PROVE  FilesInv' /\ Kept
<1>1. DirTypeOK
  BY DEF TypeOK
<1>2. /\ \A t \in Sessions : t # s => copy'[t] = copy[t]
      /\ copy'[s].pc = "idle"
  BY <1>1, IdleFacts DEF DirTypeOK
<1>3. Clocked' /\ Kept
  BY DEF FilesInv, Clocked, Kept
<1>4. ~overlapped' => Separate' /\ Contents' /\ Hashes'
  <2>1. SUFFICES ASSUME ~overlapped PROVE Separate' /\ Contents' /\ Hashes'
    OBVIOUS
  <2>2. Separate /\ Contents /\ Hashes
    BY <2>1 DEF FilesInv
  <2>3. \A t \in Sessions : Copying(t)' => t # s /\ Copying(t) /\ copy'[t] = copy[t]
    BY <1>2 DEF Copying
  <2>4. \A t \in Sessions : Copying(t)' => tmp' = tmp
    BY <2>2, <2>3 DEF Separate
  <2>5. Separate'
    BY <2>2, <2>3, <2>4 DEF Separate
  <2>6. Contents' /\ Hashes'
    BY <2>2 DEF Contents, IsWhole, Hashes, RightHash, StatOf
  <2>7. QED
    BY <2>5, <2>6
<1>5. Ready'
  BY <1>2 DEF FilesInv, Ready
<1>6. QED
  BY <1>3, <1>4, <1>5 DEF FilesInv

LEMMA RequestFiles ==
  ASSUME TypeOK, FilesInv, NEW r \in Requests, RequestStep(r)
  PROVE  FilesInv' /\ Kept
<1>1. DirTypeOK /\ UNCHANGED <<nodes, tmp, dst, clock, copy, overlapped, replaced>>
  BY RequestStepType DEF TypeOK
<1>2. Ready' /\ Kept
  BY <1>1 DEF FilesInv, Ready, Kept
<1>3. /\ \A q \in Requests : q # r => req'[q] = req[q]
      /\ ~OpenFirmware(r) => UNCHANGED calls
  BY <1>1 DEF RequestStep, OpenFirmware, CachedSHA, HashFile, StoreSHA, Send, DirTypeOK
<1>4. \/ req'[r] = Idle
      \/ /\ req'[r].stat.mtime <= clock
         /\ ~overlapped =>
              /\ tmp # 0 => req'[r].fd # tmp
              /\ IsWhole(req'[r].fd)
              /\ req'[r].stat = StatOf(req'[r].fd)
              /\ req'[r].pc # "hash" /\ ~req'[r].raced => req'[r].sum = nodes[req'[r].fd].bytes
  <2>1. CASE OpenFirmware(r)
    <3>1. /\ dst # 0 /\ req'[r].fd = dst /\ req'[r].stat = StatOf(dst)
          /\ req'[r].pc = "hash"
      BY <1>1, <2>1 DEF OpenFirmware, DirTypeOK
    <3>2. dst \in 1..Len(nodes)
      BY <1>1, <3>1, NodeFacts DEF DirTypeOK
    <3>3. StatOf(dst).mtime <= clock
      BY <3>2 DEF FilesInv, Clocked, StatOf
    <3>4. QED
      BY <3>1, <3>3 DEF FilesInv, Separate, Contents
  <2>2. CASE CachedSHA(r)
    <3>1. req[r] \in Request /\ req[r] # Idle /\ req[r].fd \in 1..Len(nodes)
      BY <1>1, <2>2, RequestFacts DEF CachedSHA
    <3>2. /\ req'[r].fd = req[r].fd /\ req'[r].stat = req[r].stat
          /\ req'[r].sum = cache.sum /\ req'[r].raced = cache.raced
          /\ cache.stat = req[r].stat
      BY <1>1, <2>2, <3>1 DEF CachedSHA, Hits, DirTypeOK, Request
    <3>3. QED
      BY <3>1, <3>2 DEF FilesInv, Clocked, Separate, Contents, Hashes, RightHash
  <2>3. CASE HashFile(r)
    <3>1. req[r] \in Request /\ req[r] # Idle
      BY <1>1, <2>3, RequestFacts DEF HashFile
    <3>2. /\ req'[r].fd = req[r].fd /\ req'[r].stat = req[r].stat
          /\ req'[r].sum = nodes[dst].bytes /\ req'[r].raced = (dst # req[r].fd)
      BY <1>1, <2>3, <3>1 DEF HashFile, DirTypeOK, Request
    <3>3. QED
      BY <3>1, <3>2 DEF FilesInv, Clocked, Separate, Contents, Hashes, RightHash
  <2>4. CASE StoreSHA(r)
    <3>1. req[r] \in Request /\ req[r] # Idle /\ req[r].pc # "hash"
      BY <1>1, <2>4, RequestFacts DEF StoreSHA
    <3>2. /\ req'[r].fd = req[r].fd /\ req'[r].stat = req[r].stat
          /\ req'[r].sum = req[r].sum /\ req'[r].raced = req[r].raced
      BY <1>1, <2>4, <3>1 DEF StoreSHA, DirTypeOK, Request
    <3>3. QED
      BY <3>1, <3>2 DEF FilesInv, Clocked, Separate, Contents, Hashes, RightHash
  <2>5. CASE Send(r)
    BY <1>1, <2>5 DEF Send, DirTypeOK
  <2>6. QED
    BY <2>1, <2>2, <2>3, <2>4, <2>5 DEF RequestStep
<1>5. cache' = cache \/ /\ req[r] # Idle /\ req[r].pc # "hash"
                        /\ req[r].fd \in 1..Len(nodes)
                        /\ cache'.stat = req[r].stat /\ cache'.sum = req[r].sum
                        /\ cache'.raced = req[r].raced
  BY <1>1, RequestFacts DEF RequestStep, OpenFirmware, CachedSHA, HashFile, StoreSHA, Send
<1>6. Clocked'
  BY <1>1, <1>3, <1>4, <1>5 DEF FilesInv, Clocked
<1>7. ~overlapped' => Separate' /\ Contents' /\ Hashes'
  <2>1. SUFFICES ASSUME ~overlapped PROVE Separate' /\ Contents' /\ Hashes'
    BY <1>1
  <2>2. Separate /\ Contents /\ Hashes /\ Clocked
    BY <2>1 DEF FilesInv
  <2>3. Separate'
    BY <1>1, <1>3, <1>4, <2>1, <2>2 DEF Separate, Copying
  <2>4. Contents'
    BY <1>1, <1>3, <1>4, <2>1, <2>2 DEF Contents, IsWhole
  <2>5. \A q \in Requests : req'[q] # Idle => RightHash(q)'
    BY <1>1, <1>3, <1>4, <2>1, <2>2 DEF Hashes, RightHash, StatOf
  <2>6. ASSUME NEW n \in 1..Len(nodes), ~cache'.raced, StatOf(n) = cache'.stat
        PROVE  nodes[n].bytes = cache'.sum
    <3>1. CASE cache' = cache
      BY <2>2, <2>6, <3>1 DEF Hashes
    <3>2. CASE cache' # cache
      <4>1. /\ RightHash(r) /\ req[r].fd \in 1..Len(nodes)
            /\ cache'.stat = req[r].stat /\ cache'.sum = req[r].sum
            /\ req[r].pc # "hash" /\ ~req[r].raced
        BY <1>5, <2>2, <2>6, <3>2 DEF Hashes
      <4>2. StatOf(n).mtime = StatOf(req[r].fd).mtime
        BY <2>6, <4>1 DEF RightHash
      <4>3. n = req[r].fd
        BY <2>2, <4>1, <4>2 DEF Clocked, StatOf
      <4>4. QED
        BY <4>1, <4>3 DEF RightHash
    <3>3. QED
      BY <3>1, <3>2
  <2>7. QED
    BY <1>1, <2>3, <2>4, <2>5, <2>6 DEF Hashes, StatOf
<1>8. QED
  BY <1>2, <1>6, <1>7 DEF FilesInv

-----------------------------------------------------------------------------
(* The invariant of the specification *)

IInv == TypeOK /\ RecordInv /\ FilesInv /\ PublishedIsInstalled

LEMMA InitIInv == Init => IInv
<1>1. SUFFICES ASSUME Init PROVE IInv
  OBVIOUS
<1>2. PICK key \in Keys, sv \in Floors :
        file = Registered([psk |-> key, set |-> NoSettings, minSV |-> sv])
  BY <1>1 DEF Init
<1> DEFINE upd == [psk |-> key, set |-> NoSettings, minSV |-> sv]
<1>3. upd \in Update /\ upd.psk # None
  BY DeviceToolsAssumption, NoneAssumption DEF Update, NoSettings, Settings
<1>4. /\ file \in Record /\ file.pending = None
      /\ file.active.set = NoSettings
  BY <1>2, <1>3, RegisteredFacts DEF Registered
<1>5. OnRecord = {file.active}
  BY <1>4, RecordFacts DEF OnRecord
<1>6. \A f \in Fields : file.active.set[f] = None
  BY <1>4 DEF NoSettings
<1>7. /\ file.active.set["url"] = None /\ file.active.set["providers"] = None
      /\ file.active.set["manifest"] = None
      /\ \A f \in FirmwareFields : file.active.set[f] = None
  BY <1>6, DeviceToolsAssumption DEF FirmwareFields
<1>8. LocalURL # None
  BY Opinions, DeviceToolsAssumption
<1>9. DirTypeOK
  <2>1. nodes \in Seq(Node) /\ Len(nodes) = 0 /\ <<>> \in Bytes
    BY <1>1, EmptySeq DEF Init, DirInit, Bytes
  <2>2. cache \in Entry
    BY <1>1, <2>1 DEF Init, DirInit, Entry, Stat
  <2>3. /\ copy \in [Sessions -> {Idle} \cup Copy \cup Installed]
        /\ \A s \in Sessions : copy[s].pc # "copy"
        /\ req \in [Requests -> {Idle} \cup Request]
        /\ \A r \in Requests : req[r] = Idle
    BY <1>1, IdleFacts DEF Init, DirInit
  <2>4. /\ tmp \in 0..Len(nodes) /\ dst \in 0..Len(nodes)
        /\ clock \in Nat /\ calls \in 0..MaxCalls
    BY <1>1, <2>1, FirmwareDirAssumption DEF Init, DirInit
  <2>5. overlapped \in BOOLEAN /\ replaced \in BOOLEAN
    BY <1>1 DEF Init, DirInit
  <2>6. QED
    BY <2>1, <2>2, <2>3, <2>4, <2>5 DEF DirTypeOK
<1>10. TypeOK
  BY <1>1, <1>4, <1>9, DeviceToolsAssumption DEF Init, TypeOK
<1>11. RecordInv
  <2>1. ToolsSound
    BY <1>1, IdleFacts DEF Init, ToolsSound
  <2>2. FlagsAsWanted
    BY <1>1, <1>4, <1>7 DEF Init, FlagsAsWanted, Providers, PendingBase
  <2>3. QED
    BY <1>4, <1>5, <1>7, <2>1, <2>2
       DEF RecordInv, ProvidersTyped, ProvidersStay, FirmwareTogether, ManifestMatches
<1>12. FilesInv
  <2>1. Len(nodes) = 0 /\ tmp = 0 /\ dst = 0 /\ cache.stat.mtime = 0 /\ clock = 0
    BY <1>1 DEF Init, DirInit
  <2>2. \A s \in Sessions : copy[s].pc = "idle"
    BY <1>1, IdleFacts DEF Init, DirInit
  <2>3. \A r \in Requests : req[r] = Idle
    BY <1>1 DEF Init, DirInit
  <2>4. QED
    BY <2>1, <2>2, <2>3
       DEF FilesInv, Clocked, Separate, Contents, Hashes, Ready, Copying
<1>13. PublishedIsInstalled
  BY <1>5, <1>7, <1>8 DEF PublishedIsInstalled
<1>14. QED
  BY <1>10, <1>11, <1>12, <1>13 DEF IInv

\* Staged firmware that is local was copied by the session that stages it.
LEMMA StagedLocal ==
  ASSUME IInv, Kept, NEW set,
         set["url"] = LocalURL /\ ~overlapped /\ ~replaced
           => dst # 0 /\ nodes[dst].bytes = Whole(set["sha"]),
         \A p \in OnRecord' :
           \/ \E fw \in Staging : Brings(set, fw) /\ HasFirmware(p, fw)
           \/ \E q \in OnRecord : SameFirmware(p, q)
  PROVE  PublishedIsInstalled'
<1>1. SUFFICES ASSUME ~overlapped', ~replaced', NEW p \in OnRecord', p.set["url"] = LocalURL
               PROVE  dst' # 0 /\ nodes'[dst'].bytes = Whole(p.set["sha"])
  BY DEF PublishedIsInstalled
<1>2. ~overlapped /\ ~replaced
  BY <1>1 DEF Kept
<1>3. dst # 0 /\ nodes[dst].bytes = Whole(p.set["sha"])
  <2>1. CASE \E fw \in Staging : Brings(set, fw) /\ HasFirmware(p, fw)
    <3>1. set["url"] = LocalURL /\ set["sha"] = p.set["sha"]
      BY <1>1, <2>1 DEF Brings, HasFirmware, FirmwareFields
    <3>2. QED
      BY <1>2, <3>1
  <2>2. CASE \E q \in OnRecord : SameFirmware(p, q)
    BY <1>1, <1>2, <2>2 DEF IInv, PublishedIsInstalled, SameFirmware, FirmwareFields
  <2>3. QED
    BY <2>1, <2>2
<1>4. QED
  BY <1>1, <1>3 DEF Kept

\* The same when no firmware is staged.
LEMMA NothingStaged ==
  ASSUME IInv, Kept, \A p \in OnRecord' : \E q \in OnRecord : SameFirmware(p, q)
  PROVE  PublishedIsInstalled'
BY DEF IInv, Kept, PublishedIsInstalled, SameFirmware, FirmwareFields

\* Steps of the file alone.
LEMMA RecordStays ==
  ASSUME RecordInv, UNCHANGED toolVars
  PROVE  RecordInv' /\ \A p \in OnRecord' : \E q \in OnRecord : SameFirmware(p, q)
BY DEF RecordInv, ProvidersTyped, ProvidersStay, ToolsSound, FirmwareTogether, OnRecord,
       ManifestMatches, FlagsAsWanted, Providers, PendingBase, SameFirmware, toolVars

\* Steps of the record alone.
LEMMA FilesStay ==
  ASSUME FilesInv, UNCHANGED filesVars
  PROVE  FilesInv' /\ Kept
BY DEF FilesInv, Clocked, Separate, Contents, Hashes, Ready, Kept, Copying, IsWhole,
       RightHash, StatOf, filesVars

LEMMA ProvidersType ==
  ASSUME file \in Record, ProvidersTyped
  PROVE  Providers(file) \in SUBSET Flags
<1>1. PendingBase(file) \in OnRecord /\ file.active \in OnRecord
  BY RecordFacts
<1>2. QED
  BY <1>1, DeviceToolsAssumption DEF ProvidersTyped, Providers

\* A session that takes up an edit.
LEMMA BeginStep ==
  ASSUME IInv, NEW s \in Sessions, Begin(s)
  PROVE  DirTypeOK' /\ FilesInv' /\ Kept /\ copy' = copy /\ copy[s] = Idle /\ tool[s] = Idle
<1>1. /\ TypeOK /\ FilesInv /\ UNCHANGED filesVars
      /\ copy[s] = Idle /\ tool[s] = Idle
      /\ calls' \in 0..MaxCalls
  BY FirmwareDirAssumption DEF IInv, Begin, Free, Called, TypeOK, DirTypeOK
<1>2. DirTypeOK' /\ copy' = copy
  BY <1>1 DEF TypeOK, DirTypeOK, filesVars
<1>3. QED
  BY <1>1, <1>2, FilesStay

LEMMA LoadFlagsStep ==
  ASSUME IInv, NEW s \in Sessions, NEW call \in FlagCalls, LoadFlags(s, call)
  PROVE  IInv'
<1> DEFINE new == [pc |-> "flags", call |-> call,
                   base |-> Providers(file), saw |-> Providers(file)]
<1>1. /\ DirTypeOK' /\ FilesInv' /\ Kept /\ copy' = copy /\ copy[s] = Idle
      /\ tool' = [tool EXCEPT ![s] = new]
      /\ UNCHANGED <<file, wanted, crossed, bare>>
  BY BeginStep DEF LoadFlags
<1>2. new \in FlagsEdit /\ new.pc = "flags" /\ new.base = new.saw
  BY ProvidersType DEF FlagsEdit, IInv, TypeOK, RecordInv
<1> HIDE DEF new
<1>3. TypeOK'
  BY <1>1, <1>2 DEF IInv, TypeOK
<1>4. ToolsSound'
  BY <1>1, <1>2 DEF IInv, TypeOK, RecordInv, ToolsSound
<1>5. RecordInv'
  BY <1>1, <1>4 DEF IInv, RecordInv, ProvidersTyped, ProvidersStay, FirmwareTogether,
                    OnRecord, ManifestMatches, FlagsAsWanted, Providers, PendingBase
<1>6. \A p \in OnRecord' : \E q \in OnRecord : SameFirmware(p, q)
  BY <1>1 DEF OnRecord, SameFirmware
<1>7. PublishedIsInstalled'
  BY <1>1, <1>6, NothingStaged
<1>8. QED
  BY <1>1, <1>3, <1>5, <1>7 DEF IInv

LEMMA LoadRevertStep ==
  ASSUME IInv, NEW s \in Sessions, NEW fw \in External, NEW target \in Targets,
         LoadRevert(s, fw, target)
  PROVE  IInv'
<1> DEFINE new == [pc |-> "revert", fw |-> fw]
<1>1. /\ DirTypeOK' /\ FilesInv' /\ Kept /\ copy' = copy /\ copy[s] = Idle
      /\ tool' = [tool EXCEPT ![s] = new] /\ fw.manifest # None
      /\ UNCHANGED <<file, wanted, crossed, bare>>
  BY BeginStep DEF LoadRevert
<1>2. new \in Revert /\ new.pc = "revert" /\ new.fw = fw
  BY DEF Revert
<1> HIDE DEF new
<1>3. TypeOK'
  BY <1>1, <1>2 DEF IInv, TypeOK
<1>4. ToolsSound'
  BY <1>1, <1>2 DEF IInv, TypeOK, RecordInv, ToolsSound
<1>5. RecordInv'
  BY <1>1, <1>4 DEF IInv, RecordInv, ProvidersTyped, ProvidersStay, FirmwareTogether,
                    OnRecord, ManifestMatches, FlagsAsWanted, Providers, PendingBase
<1>6. \A p \in OnRecord' : \E q \in OnRecord : SameFirmware(p, q)
  BY <1>1 DEF OnRecord, SameFirmware
<1>7. PublishedIsInstalled'
  BY <1>1, <1>6, NothingStaged
<1>8. QED
  BY <1>1, <1>3, <1>5, <1>7 DEF IInv

\* A session that ends its edit.
LEMMA ToolIdle ==
  ASSUME IInv, NEW s \in Sessions, tool' = [tool EXCEPT ![s] = Idle]
  PROVE  /\ ToolsSound'
         /\ tool' \in [Sessions -> {Idle} \cup FlagsEdit \cup Revert]
         /\ \A t \in Sessions : tool'[t] = Idle \/ tool'[t] = tool[t]
<1>1. tool \in [Sessions -> {Idle} \cup FlagsEdit \cup Revert] /\ ToolsSound
  BY DEF IInv, TypeOK, RecordInv
<1>2. QED
  BY <1>1, IdleFacts DEF ToolsSound

LEMMA FlagsFacts ==
  ASSUME IInv, NEW s \in Sessions, tool[s].pc = "flags"
  PROVE  /\ tool[s].call.rest \in Rest
         /\ With(tool[s].base, tool[s].call) \in SUBSET Flags
         /\ With(wanted, tool[s].call) \in SUBSET Flags
<1>1. tool[s] \in FlagsEdit
  BY IdleFacts DEF IInv, TypeOK, FlagsEdit, Revert, Idle
<1>2. tool[s].call \in FlagCalls /\ tool[s].base \in SUBSET Flags
  BY <1>1 DEF FlagsEdit
<1>3. tool[s].call.on \in SUBSET Flags /\ wanted \in SUBSET Flags
  BY <1>2, DeviceToolsAssumption DEF FlagCall, IInv, TypeOK
<1>4. QED
  BY <1>2, <1>3, DeviceToolsAssumption DEF With

LEMMA StageFlagsStep ==
  ASSUME IInv, NEW s \in Sessions, StageFlags(s)
  PROVE  IInv'
<1> DEFINE call == tool[s].call
           on == With(tool[s].base, call)
           set == [call.rest EXCEPT !["providers"] = on]
<1>1. /\ tool[s].pc = "flags" /\ file' = Staged(file, Changes(set))
      /\ wanted' = With(wanted, call)
      /\ crossed' = (crossed \/ Providers(file) # tool[s].saw)
      /\ bare' = (bare \/ Strays(call.rest))
      /\ tool' = [tool EXCEPT ![s] = Idle]
      /\ UNCHANGED dirVars
  BY DEF StageFlags, Stage
<1>2. call.rest \in Rest /\ on \in SUBSET Flags /\ wanted' \in SUBSET Flags
  BY <1>1, FlagsFacts
<1>3. crossed' \in BOOLEAN /\ bare' \in BOOLEAN
  BY <1>1 DEF IInv, TypeOK
<1>4. ~crossed' => wanted' = on
  BY <1>1 DEF IInv, RecordInv, ToolsSound, FlagsAsWanted
<1> HIDE DEF on
<1>5. /\ Call(set) /\ set["providers"] = on /\ on # None /\ set["url"] # LocalURL
      /\ Strays(set) = Strays(call.rest)
  BY <1>2, FlagsCall
<1> HIDE DEF set, call
<1>6. /\ file' \in Record /\ RecordInv'
      /\ \A p \in OnRecord' :
           \/ \E fw \in Staging : Brings(set, fw) /\ HasFirmware(p, fw)
           \/ \E q \in OnRecord : SameFirmware(p, q)
  BY <1>1, <1>4, <1>5, StageCall, ToolIdle DEF IInv, TypeOK
<1>7. DirTypeOK' /\ FilesInv' /\ Kept
  BY <1>1, FilesStay DEF IInv, TypeOK, DirTypeOK, dirVars, filesVars
<1>8. TypeOK'
  BY <1>1, <1>2, <1>3, <1>6, <1>7, ToolIdle DEF IInv, TypeOK, dirVars
<1>9. QED
  BY <1>5, <1>6, <1>7, <1>8, StagedLocal DEF IInv

LEMMA StageRestStep ==
  ASSUME IInv, NEW s \in Sessions, NEW set \in Rest, StageRest(s, set)
  PROVE  IInv'
<1>1. /\ DirTypeOK' /\ FilesInv' /\ Kept /\ copy' = copy
      /\ file' = Staged(file, Changes(set))
      /\ bare' = (bare \/ Strays(set))
      /\ UNCHANGED <<tool, wanted, crossed>>
  BY BeginStep DEF StageRest, Stage
<1>2. bare' \in BOOLEAN /\ ToolsSound'
  BY <1>1 DEF IInv, TypeOK, RecordInv, ToolsSound
<1>3. Call(set) /\ set["providers"] = None /\ set["url"] # LocalURL
  BY RestCall
<1>4. /\ file' \in Record /\ RecordInv'
      /\ \A p \in OnRecord' :
           \/ \E fw \in Staging : Brings(set, fw) /\ HasFirmware(p, fw)
           \/ \E q \in OnRecord : SameFirmware(p, q)
  BY <1>1, <1>2, <1>3, StageCall DEF IInv, TypeOK
<1>5. TypeOK'
  BY <1>1, <1>2, <1>4 DEF IInv, TypeOK
<1>6. QED
  BY <1>1, <1>3, <1>4, <1>5, StagedLocal DEF IInv

LEMMA StageRevertStep ==
  ASSUME IInv, NEW s \in Sessions, StageRevert(s)
  PROVE  IInv'
<1> DEFINE fw == tool[s].fw
           set == SetFirmware(fw)
<1>1. /\ tool[s].pc = "revert" /\ file' = Staged(file, Changes(set))
      /\ tool' = [tool EXCEPT ![s] = Idle]
      /\ UNCHANGED <<dirVars, wanted, crossed, bare>>
  BY DEF StageRevert, Stage
<1>2. tool[s] \in Revert
  BY <1>1, IdleFacts DEF IInv, TypeOK, FlagsEdit, Revert, Idle
<1>3. fw \in External /\ fw \in Staging /\ fw.manifest # None /\ fw.url # LocalURL
  BY <1>1, <1>2, DeviceToolsAssumption DEF Revert, Staging, IInv, RecordInv, ToolsSound
<1> HIDE DEF fw
<1>4. Call(set) /\ Brings(set, fw) /\ set["providers"] = None
  BY <1>3, FirmwareCall
<1> HIDE DEF set
<1>5. set["url"] # LocalURL /\ ~Strays(set)
  BY <1>3, <1>4, StagingTypes DEF Brings, Strays, FirmwareFields
<1>6. bare' = (bare \/ Strays(set))
  BY <1>1, <1>5 DEF IInv, TypeOK
<1>7. /\ file' \in Record /\ RecordInv'
      /\ \A p \in OnRecord' :
           \/ \E g \in Staging : Brings(set, g) /\ HasFirmware(p, g)
           \/ \E q \in OnRecord : SameFirmware(p, q)
  BY <1>1, <1>4, <1>6, StageCall, ToolIdle DEF IInv, TypeOK
<1>8. DirTypeOK' /\ FilesInv' /\ Kept
  BY <1>1, FilesStay DEF IInv, TypeOK, DirTypeOK, dirVars, filesVars
<1>9. TypeOK'
  BY <1>1, <1>7, <1>8, ToolIdle DEF IInv, TypeOK, dirVars
<1>10. QED
  BY <1>5, <1>7, <1>8, <1>9, StagedLocal DEF IInv

LEMMA StagePublishedStep ==
  ASSUME IInv, NEW s \in Sessions, StagePublished(s)
  PROVE  IInv'
<1> DEFINE fw == Local(copy[s].image)
           set == SetFirmware(fw)
<1>1. /\ copy[s].pc = "installed" /\ file' = Staged(file, Changes(set))
      /\ bare' = (bare \/ Strays(set))
      /\ copy' = [copy EXCEPT ![s] = Idle]
      /\ UNCHANGED <<nodes, tmp, dst, clock, calls, req, cache, overlapped, replaced,
                     tool, wanted, crossed>>
  BY DEF StagePublished, Stage
<1>2. copy[s].image \in Images
  BY <1>1, IdleFacts DEF IInv, TypeOK, DirTypeOK, Copy, Installed
<1>3. /\ fw \in Staging /\ fw.sha = copy[s].image
      /\ ~overlapped /\ ~replaced => dst # 0 /\ nodes[dst].bytes = Whole(fw.sha)
  BY <1>1, <1>2 DEF Staging, Local, IInv, FilesInv, Ready
<1>4. bare' \in BOOLEAN /\ ToolsSound'
  BY <1>1 DEF IInv, TypeOK, RecordInv, ToolsSound
<1> HIDE DEF fw
<1>5. Call(set) /\ set["sha"] = fw.sha /\ set["providers"] = None
  BY <1>3, FirmwareCall DEF Brings, FirmwareFields
<1> HIDE DEF set
<1>6. /\ file' \in Record /\ RecordInv'
      /\ \A p \in OnRecord' :
           \/ \E g \in Staging : Brings(set, g) /\ HasFirmware(p, g)
           \/ \E q \in OnRecord : SameFirmware(p, q)
  BY <1>1, <1>4, <1>5, StageCall DEF IInv, TypeOK
<1>7. FilesInv' /\ Kept
  BY <1>1, SlotFreed DEF IInv
<1>8. /\ DirTypeOK'
      /\ \A t \in Sessions : copy'[t] = Idle \/ copy'[t] = copy[t]
  BY <1>1, IdleFacts DEF IInv, TypeOK, DirTypeOK
<1>9. TypeOK'
  BY <1>1, <1>4, <1>6, <1>8 DEF IInv, TypeOK
<1>10. QED
  BY <1>3, <1>5, <1>6, <1>7, <1>9, StagedLocal DEF IInv

LEMMA AbandonStep ==
  ASSUME IInv, NEW s \in Sessions, Abandon(s)
  PROVE  IInv'
<1>1. /\ tool' = [tool EXCEPT ![s] = Idle] /\ copy' = [copy EXCEPT ![s] = Idle]
      /\ UNCHANGED <<nodes, tmp, dst, clock, calls, req, cache, overlapped, replaced,
                     file, wanted, crossed, bare>>
  BY DEF Abandon
<1>2. FilesInv' /\ Kept
  BY <1>1, SlotFreed DEF IInv
<1>3. /\ DirTypeOK'
      /\ \A t \in Sessions : copy'[t] = Idle \/ copy'[t] = copy[t]
  BY <1>1, IdleFacts DEF IInv, TypeOK, DirTypeOK
<1>4. TypeOK'
  BY <1>1, <1>3, ToolIdle DEF IInv, TypeOK
<1>5. RecordInv'
  BY <1>1, ToolIdle
     DEF IInv, RecordInv, ProvidersTyped, ProvidersStay, FirmwareTogether, OnRecord,
         ManifestMatches, FlagsAsWanted, Providers, PendingBase
<1>6. \A p \in OnRecord' : \E q \in OnRecord : SameFirmware(p, q)
  BY <1>1 DEF OnRecord, SameFirmware
<1>7. QED
  BY <1>2, <1>4, <1>5, <1>6, NothingStaged DEF IInv

LEMMA PromoteStep ==
  ASSUME IInv, Promote
  PROVE  IInv'
<1>1. UNCHANGED <<dirVars, tool, wanted, crossed, bare>>
  BY DEF Promote
<1>2. /\ file' \in Record /\ RecordInv'
      /\ \A p \in OnRecord' : \E q \in OnRecord : SameFirmware(p, q)
  BY PromoteRecord DEF IInv, TypeOK, SameFirmware
<1>3. DirTypeOK' /\ FilesInv' /\ Kept
  BY <1>1, FilesStay DEF IInv, TypeOK, DirTypeOK, dirVars, filesVars
<1>4. TypeOK'
  BY <1>1, <1>2, <1>3 DEF IInv, TypeOK, dirVars
<1>5. QED
  BY <1>2, <1>3, <1>4, NothingStaged DEF IInv

LEMMA PublishStep ==
  ASSUME IInv, NEW s \in Sessions, NEW image \in Images,
         Free(s), OpenTmp(s, image), UNCHANGED toolVars
  PROVE  IInv'
<1>1. copy[s] = Idle /\ tool[s] = Idle
  BY DEF Free
<1>2. DirTypeOK' /\ FilesInv' /\ Kept
  BY <1>1, OpenTmpType, OpenTmpFiles DEF IInv
<1>3. \A t \in Sessions : t = s \/ copy'[t] = copy[t]
  BY DEF OpenTmp, IInv, TypeOK, DirTypeOK
<1>4. TypeOK'
  BY <1>1, <1>2, <1>3 DEF IInv, TypeOK, toolVars
<1>5. QED
  BY <1>2, <1>4, RecordStays, NothingStaged DEF IInv

LEMMA DirIInv ==
  ASSUME IInv, DirStep, UNCHANGED toolVars
  PROVE  IInv'
<1>1. /\ DirTypeOK' /\ FilesInv' /\ Kept
      /\ \A t \in Sessions : copy'[t] # Idle => copy[t] # Idle
  <2>1. ASSUME NEW s \in Sessions, CopyChunk(s)
        PROVE  /\ DirTypeOK' /\ FilesInv' /\ Kept
               /\ \A t \in Sessions : copy'[t] # Idle => copy[t] # Idle
    BY <2>1, CopyChunkType, CopyChunkFiles, IdleFacts
       DEF IInv, TypeOK, DirTypeOK, CopyChunk, Copying
  <2>2. ASSUME NEW s \in Sessions, Install(s)
        PROVE  /\ DirTypeOK' /\ FilesInv' /\ Kept
               /\ \A t \in Sessions : copy'[t] # Idle => copy[t] # Idle
    BY <2>2, InstallType, InstallFiles, IdleFacts
       DEF IInv, TypeOK, DirTypeOK, Install, Rename, Copying
  <2>3. ASSUME NEW s \in Sessions, PublishFails(s)
        PROVE  /\ DirTypeOK' /\ FilesInv' /\ Kept
               /\ \A t \in Sessions : copy'[t] # Idle => copy[t] # Idle
    BY <2>3, InstallType, SlotFreed DEF IInv, TypeOK, DirTypeOK, PublishFails
  <2>4. ASSUME NEW r \in Requests, RequestStep(r)
        PROVE  /\ DirTypeOK' /\ FilesInv' /\ Kept
               /\ \A t \in Sessions : copy'[t] # Idle => copy[t] # Idle
    BY <2>4, RequestStepType, RequestFiles DEF IInv
  <2>5. QED
    BY <2>1, <2>2, <2>3, <2>4 DEF DirStep, RequestStep
<1>2. TypeOK'
  BY <1>1 DEF IInv, TypeOK, toolVars
<1>3. QED
  BY <1>1, <1>2, RecordStays, NothingStaged DEF IInv

LEMMA NextIInv == IInv /\ [Next]_vars => IInv'
<1>1. SUFFICES ASSUME IInv, [Next]_vars PROVE IInv'
  OBVIOUS
<1>2. CASE UNCHANGED vars
  <2>1. UNCHANGED toolVars /\ UNCHANGED filesVars /\ UNCHANGED dirVars
    BY <1>2 DEF vars, dirVars, filesVars
  <2>2. DirTypeOK' /\ FilesInv' /\ Kept
    BY <1>1, <2>1, FilesStay DEF IInv, TypeOK, DirTypeOK, dirVars
  <2>3. TypeOK'
    BY <1>1, <2>1, <2>2 DEF IInv, TypeOK, toolVars, dirVars
  <2>4. QED
    BY <1>1, <2>1, <2>2, <2>3, RecordStays, NothingStaged DEF IInv
<1>3. CASE ToolNext
  BY <1>1, <1>3, LoadFlagsStep, StageRestStep, LoadRevertStep, StageFlagsStep, StageRevertStep,
     StagePublishedStep, AbandonStep, PromoteStep DEF ToolNext
<1>4. CASE \E s \in Sessions, image \in Images :
             Free(s) /\ OpenTmp(s, image) /\ UNCHANGED toolVars
  BY <1>1, <1>4, PublishStep
<1>5. CASE DirStep /\ UNCHANGED toolVars
  BY <1>1, <1>5, DirIInv
<1>6. QED
  BY <1>1, <1>2, <1>3, <1>4, <1>5 DEF Next

LEMMA Invariance == Spec => []IInv
BY InitIInv, NextIInv, PTL DEF Spec

LEMMA FilesWhole == IInv => InstalledWhole /\ HeaderMatchesBody
<1>1. SUFFICES ASSUME IInv PROVE InstalledWhole /\ HeaderMatchesBody
  OBVIOUS
<1>2. InstalledWhole
  BY <1>1 DEF IInv, FilesInv, Contents, IsWhole, InstalledWhole
<1>3. HeaderMatchesBody
  BY <1>1, IdleFacts DEF IInv, FilesInv, Hashes, RightHash, HeaderMatchesBody
<1>4. QED
  BY <1>2, <1>3

-----------------------------------------------------------------------------
(* Theorems *)

\* The record, the edits and publishes under way, the files and the requests keep
\* their types; an open file exists and a session does one thing at a time.
THEOREM ToolsTypeCorrect == Spec => []TypeOK
<1>1. IInv => TypeOK
  BY DEF IInv
<1>2. QED
  BY <1>1, Invariance, PTL

\* publish_firmware's temporary file and rename: for any number of sessions that
\* fail or die anywhere, what is installed and what is sent is a whole image,
\* unless two publishes of the version copied at once.
THEOREM InstalledIsWhole == Spec => []InstalledWhole
BY FilesWhole, Invariance, PTL

\* firmwareSHA's cache: the hash in the header is the body's, for any number of
\* requests, unless it was taken while the file was being replaced.
THEOREM HeaderIsOfBody == Spec => []HeaderMatchesBody
BY FilesWhole, Invariance, PTL

\* publish_firmware's order of install and record: what a record offers for
\* download from this broker is there, with the hash on record, unless publishes
\* of the version overlapped or it was published again with other bytes.
THEOREM OfferedIsInstalled == Spec => []PublishedIsInstalled
<1>1. IInv => PublishedIsInstalled
  BY DEF IInv
<1>2. QED
  BY <1>1, Invariance, PTL

\* mergePayload on the firmware settings: url, hash and version stay together
\* through edits, promotions and edits dropped as no-ops.
THEOREM FirmwareStaysTogether == Spec => []FirmwareTogether
<1>1. IInv => FirmwareTogether
  BY DEF IInv, RecordInv
<1>2. QED
  BY <1>1, Invariance, PTL

\* mergePayload and revert_firmware: a manifest on record stays with the firmware
\* it is for until one of the two is staged alone.
THEOREM ManifestsMatch == Spec => []ManifestMatches
<1>1. IInv => ManifestMatches
  BY DEF IInv, RecordInv
<1>2. QED
  BY <1>1, Invariance, PTL

\* set_device_pending's providers: flag by flag what the edits asked for, through
\* merges, promotions and dropped edits, unless two edits of flags crossed.
THEOREM FlagsAreAsWanted == Spec => []FlagsAsWanted
<1>1. IInv => FlagsAsWanted
  BY DEF IInv, RecordInv
<1>2. QED
  BY <1>1, Invariance, PTL

-----------------------------------------------------------------------------
(* The record's life *)

Lives == INSTANCE RecordLifeProofs

LEMMA SameSteps ==
  /\ \A rec : Life!NewRecord(rec) = NewRecord(rec) /\ Lives!NewRecord(rec) = NewRecord(rec)
  /\ \A rec, new : Life!Step(rec, new) = Step(rec, new) /\ Lives!Step(rec, new) = Step(rec, new)
BY DEF Life!Step, Lives!Step, Step, Life!NewRecord, Lives!NewRecord, NewRecord,
       Life!Edits, Lives!Edits, Edits, Life!Promotes, Lives!Promotes, Promotes,
       Life!Notes, Lives!Notes, Notes, Life!PayloadsOf, Lives!PayloadsOf, PayloadsOf,
       Life!PendingBase, Lives!PendingBase, PendingBase, Life!Record, Lives!Record, Record,
       Life!Payload, Lives!Payload, Payload, Life!Settings, Lives!Settings, Settings

\* What the tools stage is an update.
LEMMA ToolLives ==
  ASSUME IInv, ToolNext
  PROVE  [Step(file, file')]_file
<1>1. file \in Record
  BY DEF IInv, TypeOK
<1>2. ASSUME NEW s \in Sessions, StageFlags(s)
      PROVE  [Step(file, file')]_file
  <2> DEFINE on == With(tool[s].base, tool[s].call)
             set == [tool[s].call.rest EXCEPT !["providers"] = on]
  <2>1. tool[s].pc = "flags" /\ file' = Staged(file, Changes(set))
    BY <1>2 DEF StageFlags, Stage
  <2>2. tool[s].call.rest \in Rest /\ on \in SUBSET Flags
    BY <2>1, FlagsFacts
  <2>3. Call(set)
    BY <2>2, FlagsCall
  <2> HIDE DEF set
  <2>4. QED
    BY <1>1, <2>1, <2>3, ChangesType, StagedStep
<1>3. ASSUME NEW s \in Sessions, NEW set \in Rest, StageRest(s, set)
      PROVE  [Step(file, file')]_file
  BY <1>1, <1>3, RestCall, ChangesType, StagedStep DEF StageRest, Stage
<1>4. ASSUME NEW s \in Sessions, StageRevert(s)
      PROVE  [Step(file, file')]_file
  <2>1. tool[s].pc = "revert" /\ file' = Staged(file, Changes(SetFirmware(tool[s].fw)))
    BY <1>4 DEF StageRevert, Stage
  <2>2. tool[s] \in Revert
    BY <2>1, IdleFacts DEF IInv, TypeOK, FlagsEdit, Revert, Idle
  <2>3. Call(SetFirmware(tool[s].fw))
    BY <2>2, FirmwareCall DEF Revert, Staging
  <2>4. QED
    BY <1>1, <2>1, <2>3, ChangesType, StagedStep
<1>5. ASSUME NEW s \in Sessions, StagePublished(s)
      PROVE  [Step(file, file')]_file
  <2>1. /\ copy[s].pc = "installed"
        /\ file' = Staged(file, Changes(SetFirmware(Local(copy[s].image))))
    BY <1>5 DEF StagePublished, Stage
  <2>2. copy[s].image \in Images
    BY <2>1, IdleFacts DEF IInv, TypeOK, DirTypeOK, Copy, Installed
  <2>3. Call(SetFirmware(Local(copy[s].image)))
    BY <2>2, FirmwareCall DEF Staging
  <2>4. QED
    BY <1>1, <2>1, <2>3, ChangesType, StagedStep
<1>6. CASE Promote
  BY <1>1, <1>6, PromotedStep DEF Promote, MayPromote
<1>7. ASSUME NEW s \in Sessions
      PROVE  /\ \A call \in FlagCalls : LoadFlags(s, call) => UNCHANGED file
             /\ \A fw \in External, target \in Targets :
                  LoadRevert(s, fw, target) => UNCHANGED file
             /\ Abandon(s) => UNCHANGED file
  BY Zenon DEF LoadFlags, LoadRevert, Abandon
<1>8. QED
  BY <1>2, <1>3, <1>4, <1>5, <1>6, <1>7, Zenon DEF ToolNext

\* The tools that read before they edit, in any number of sessions that fail or
\* die, move the record as the registry's operations allow.
THEOREM ToolsFollowLife == Spec => FollowsLife
<1>1. Init => Life!Init
  <2> SUFFICES ASSUME NEW key \in Keys, NEW sv \in Floors,
                      file = Registered([psk |-> key, set |-> NoSettings, minSV |-> sv])
               PROVE  NewRecord(file)
    BY SameSteps DEF Init, Life!Init
  <2>1. [psk |-> key, set |-> NoSettings, minSV |-> sv] \in Update /\ key # None
    BY DeviceToolsAssumption, NoneAssumption DEF Update, NoSettings, Settings
  <2>2. QED
    BY <2>1, RegisteredStep
<1>2. IInv /\ [Next]_vars => [Life!Next]_file
  <2> SUFFICES ASSUME IInv, [Next]_vars
               PROVE  [Step(file, file')]_file
    BY SameSteps DEF Life!Next
  <2>1. CASE ToolNext
    BY <2>1, ToolLives
  <2>2. CASE UNCHANGED toolVars \/ UNCHANGED vars
    BY <2>2 DEF toolVars, vars
  <2>3. QED
    BY <2>1, <2>2 DEF Next
<1>3. QED
  BY <1>1, <1>2, Invariance, PTL DEF Spec, FollowsLife, Life!Spec

\* The numbers on record, whatever the tools read before they edit.
THEOREM ToolsNumbersRise == Spec => Life!NumbersRise
<1>1. Life!Spec => Lives!Spec
  <2>1. Life!Init => Lives!Init
    BY SameSteps DEF Life!Init, Lives!Init
  <2>2. [Life!Next]_file => [Lives!Next]_file
    BY SameSteps DEF Life!Next, Lives!Next
  <2>3. QED
    BY <2>1, <2>2, PTL DEF Life!Spec, Lives!Spec
<1>2. Lives!NumbersRise => Life!NumbersRise
  BY PTL DEF Life!NumbersRise, Lives!NumbersRise,
             Life!Rising, Lives!Rising, Life!PayloadsOf, Lives!PayloadsOf
<1>3. None \notin Keys \cup Values \cup Serials \cup Lives!Payload
                 \cup Lives!Update \cup Lives!Record
  BY NoneAssumption DEF Lives!Payload, Lives!Update, Lives!Record, Lives!Settings,
                        Payload, Update, Record, Settings
<1>4. Lives!Spec => Lives!NumbersRise
  BY <1>3, Lives!LifeNumbersRise, PTL
<1>5. QED
  BY <1>1, <1>2, <1>4, ToolsFollowLife, PTL DEF FollowsLife
=============================================================================
