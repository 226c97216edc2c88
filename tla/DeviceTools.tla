---------------------------- MODULE DeviceTools ----------------------------
(***************************************************************************)
(* The MCP tools that stage firmware and provider flags for one device:    *)
(* set_device_pending, revert_firmware and publish_firmware.  Each is a    *)
(* registry read, work on what was read, and a SetPending: between them    *)
(* other sessions stage and the device promotes.  A publish installs a     *)
(* file in between, see FirmwareDir.                                       *)
(*                                                                         *)
(* Of the settings of Registry it has those of the firmware and providers. *)
(* Broker, key, the other settings and the movements of the floor are the  *)
(* business of DeviceSync.                                                 *)
(***************************************************************************)
EXTENDS FirmwareDir, Registry

CONSTANTS Flags,         \* providers
          LocalURL,      \* <broker_url>/firmware/cwm-<version>.bin
          LocalVersion,  \* that version
          External,      \* firmware staged with an https URL
          Manifests,     \* signed manifests
          Covers,        \* Covers[m]: the version a manifest is for
          Claude,        \* the default providers
          FlagCalls,     \* calls of set_device_pending that name provider flags
          Floors,        \* what the device's floor may be
          Targets        \* target_min_secure_version of a revert, 0 if not given

FirmwareFields == {"url", "sha", "version"}
NoSettings == [f \in Fields |-> None]

\* What a caller supplies: url, sha and version, and a manifest or none.
Firmware == [url : Values, sha : Values, version : Values, manifest : Manifests \cup {None}]

\* What a call says of the flags, and what else it brings.
FlagCall == [on : SUBSET Flags, off : SUBSET Flags, rest : Settings]

Local(image) == [url |-> LocalURL, sha |-> image, version |-> LocalVersion, manifest |-> None]

\* An update that takes the URL to be on record already.
SetHashAndVersion(fw) ==
  [NoSettings EXCEPT !["sha"] = fw.sha, !["version"] = fw.version,
                     !["manifest"] = fw.manifest]

SetFirmware(fw) ==
  [NoSettings EXCEPT !["url"] = fw.url, !["sha"] = fw.sha,
                     !["version"] = fw.version, !["manifest"] = fw.manifest]

SetManifest(m) == [NoSettings EXCEPT !["manifest"] = m]

\* What set_device_pending lets through besides flags: url, sha and version
\* together or none of them.
Rest == {NoSettings} \cup {SetFirmware(fw) : fw \in External}
                     \cup {SetManifest(m) : m \in Manifests}

ASSUME DeviceToolsAssumption ==
  /\ Fields = FirmwareFields \cup {"manifest", "providers"}
  /\ Images \cup {LocalURL, LocalVersion} \cup Manifests \cup SUBSET Flags \subseteq Values
  /\ External \subseteq Firmware
  /\ \A fw \in External : fw.url # LocalURL
  /\ Claude \subseteq Flags
  /\ FlagCalls \subseteq FlagCall
  /\ \A call \in FlagCalls : call.rest \in Rest
  /\ Covers \in [Manifests -> Values]
  /\ \A fw \in External : fw.manifest # None => Covers[fw.manifest] = fw.version
  /\ Floors \subseteq Nat /\ Targets \subseteq Nat

VARIABLES
  file,     \* the device's record
  tool,     \* tool[s]: the edit under way in session s
  wanted,   \* history: the providers asked for
  crossed,  \* history: providers changed between the read and the write of an edit
  bare      \* history: firmware without its manifest, or a manifest without its
            \* firmware, was staged

toolVars == <<file, tool, wanted, crossed, bare>>
vars == <<dirVars, toolVars>>

-----------------------------------------------------------------------------

\* What was read is history in saw, in base what the edit makes of it.
FlagsEdit == [pc : {"flags"}, call : FlagCalls, base : SUBSET Flags, saw : SUBSET Flags]
Revert == [pc : {"revert"}, fw : External]

TypeOK ==
  /\ DirTypeOK
  /\ file \in Record
  /\ tool \in [Sessions -> {Idle} \cup FlagsEdit \cup Revert]
  /\ wanted \subseteq Flags
  /\ crossed \in BOOLEAN /\ bare \in BOOLEAN
  /\ \A s \in Sessions : tool[s] = Idle \/ copy[s] = Idle

\* A device that was registered and has reported its floor.
Init ==
  /\ DirInit
  /\ \E key \in Keys, sv \in Floors :
       file = Registered([psk |-> key, set |-> NoSettings, minSV |-> sv])
  /\ tool = [s \in Sessions |-> Idle]
  /\ wanted = Claude
  /\ crossed = FALSE /\ bare = FALSE

Providers(rec) ==
  LET pending == PendingBase(rec).set["providers"]
      active  == rec.active.set["providers"]
  IN  IF pending # None THEN pending ELSE IF active # None THEN active ELSE Claude

-----------------------------------------------------------------------------

Changes(set) == [psk |-> None, set |-> set, minSV |-> 0]

\* An edit of the payload in force.
StageInForce(set) ==
  file' = [file EXCEPT !.active =
             [MergePayload(@, Changes(set)) EXCEPT !.version = NextVersion(file)]]

Stage(set) == file' = Staged(file, Changes(set))

Free(s) == tool[s] = Idle /\ copy[s] = Idle

Begin(s) == Free(s) /\ Called /\ UNCHANGED filesVars

\* Firmware without a manifest over firmware with another one's, or a manifest
\* over firmware it is not for.
Strays(set) ==
  LET base == PendingBase(file).set
  IN  \/ /\ set["version"] # None /\ set["manifest"] = None
         /\ base["manifest"] # None /\ Covers[base["manifest"]] # set["version"]
      \/ /\ set["version"] = None /\ set["manifest"] # None
         /\ Covers[set["manifest"]] # base["version"]

\* An edit that overlooks what is pending.
LoadActiveFlags(s, call) ==
  /\ Begin(s)
  /\ tool' = [tool EXCEPT ![s] = [pc |-> "flags", call |-> call,
                                  base |-> Providers([file EXCEPT !.pending = None]),
                                  saw |-> Providers(file)]]
  /\ UNCHANGED <<file, wanted, crossed, bare>>

\* set_device_pending with provider flags: the read ...
LoadFlags(s, call) ==
  /\ Begin(s)
  /\ tool' = [tool EXCEPT ![s] = [pc |-> "flags", call |-> call,
                                  base |-> Providers(file), saw |-> Providers(file)]]
  /\ UNCHANGED <<file, wanted, crossed, bare>>

With(flags, call) == (flags \cup call.on) \ call.off

\* ... and the write, of all flags and of what else the call brings.
StageFlags(s) ==
  LET call == tool[s].call IN
  /\ tool[s].pc = "flags"
  /\ Stage([call.rest EXCEPT !["providers"] = With(tool[s].base, call)])
  /\ wanted' = With(wanted, call)
  /\ crossed' = (crossed \/ Providers(file) # tool[s].saw)
  /\ bare' = (bare \/ Strays(call.rest))
  /\ tool' = [tool EXCEPT ![s] = Idle]
  /\ UNCHANGED dirVars

\* set_device_pending with firmware, or with the manifest only of firmware that is
\* on record or is not; publish_firmware with an external URL.
StageRest(s, set) ==
  /\ Begin(s)
  /\ Stage(set)
  /\ bare' = (bare \/ Strays(set))
  /\ UNCHANGED <<tool, wanted, crossed>>

\* revert_firmware: a target below the floor on record is refused, one of 0
\* (none given) is not.
LoadRevert(s, fw, target) ==
  /\ Begin(s)
  /\ fw.manifest # None
  /\ target > 0 => target >= file.active.minSV
  /\ tool' = [tool EXCEPT ![s] = [pc |-> "revert", fw |-> fw]]
  /\ UNCHANGED <<file, wanted, crossed, bare>>

\* A revert that leaves the manifest to a later call.
StageRevertBare(s) ==
  /\ tool[s].pc = "revert"
  /\ Stage(SetFirmware([tool[s].fw EXCEPT !.manifest = None]))
  /\ tool' = [tool EXCEPT ![s] = Idle]
  /\ UNCHANGED <<dirVars, wanted, crossed, bare>>

StageRevert(s) ==
  /\ tool[s].pc = "revert"
  /\ Stage(SetFirmware(tool[s].fw))
  /\ tool' = [tool EXCEPT ![s] = Idle]
  /\ UNCHANGED <<dirVars, wanted, crossed, bare>>

\* The end of a local publish: the hash is of what the session itself copied.
StagePublished(s) ==
  /\ copy[s].pc = "installed"
  /\ Stage(SetFirmware(Local(copy[s].image)))
  /\ bare' = (bare \/ Strays(SetFirmware(Local(copy[s].image))))
  /\ copy' = [copy EXCEPT ![s] = Idle]
  /\ UNCHANGED <<nodes, tmp, dst, clock, calls, req, cache, overlapped, replaced,
                 tool, wanted, crossed>>

\* SetPending fails, a publish finds no broker_url, or the session dies at any
\* point.  A tmp file and an installed one stay.
Abandon(s) ==
  /\ ~Free(s)
  /\ tool' = [tool EXCEPT ![s] = Idle]
  /\ copy' = [copy EXCEPT ![s] = Idle]
  /\ UNCHANGED <<nodes, tmp, dst, clock, calls, req, cache, overlapped, replaced,
                 file, wanted, crossed, bare>>

\* A sync of the device that runs the pending payload.
Promote ==
  /\ MayPromote(file, file.pending.version, TRUE)
  /\ file' = Promoted(file)
  /\ UNCHANGED <<dirVars, tool, wanted, crossed, bare>>

ToolNext ==
  \/ \E s \in Sessions :
       \/ \E call \in FlagCalls : LoadFlags(s, call)
       \/ \E set \in Rest \ {NoSettings} : StageRest(s, set)
       \/ \E fw \in External, target \in Targets : LoadRevert(s, fw, target)
       \/ StageFlags(s) \/ StageRevert(s) \/ StagePublished(s) \/ Abandon(s)
  \/ Promote

Next ==
  \/ \E s \in Sessions, image \in Images :
       Free(s) /\ OpenTmp(s, image) /\ UNCHANGED toolVars
  \/ DirStep /\ UNCHANGED toolVars
  \/ ToolNext

Spec == Init /\ [][Next]_vars

-----------------------------------------------------------------------------
(* Properties *)

OnRecord == {file.active, file.pending} \ {None}

\* What publish_firmware stages can be downloaded: the file is installed, whole,
\* and has the hash on record, whatever fails or dies between the install and
\* the record.  Not so if two publishes of the version copied at once, or it
\* was published again with other bytes, by whichever session, for whichever
\* device.
PublishedIsInstalled ==
  ~overlapped /\ ~replaced =>
    \A p \in OnRecord :
      p.set["url"] = LocalURL => dst # 0 /\ nodes[dst].bytes = Whole(p.set["sha"])

\* "All-or-nothing": url, hash and version of a payload come from one call,
\* through merges with pending edits, promotions and edits dropped as no-ops.
FirmwareTogether ==
  \A p \in OnRecord :
    \/ \A f \in FirmwareFields : p.set[f] = None
    \/ \E fw \in External \cup {Local(image) : image \in Images} :
         \A f \in FirmwareFields : p.set[f] = fw[f]

\* A signed manifest stays with the firmware it is for, through merges, reverts
\* and promotions, unless an edit brings one of the two only: the merge then
\* keeps the other, whatever it belongs to.
ManifestMatches ==
  ~bare => \A p \in OnRecord :
             p.set["manifest"] # None => Covers[p.set["manifest"]] = p.set["version"]

\* Providers are what the edits asked for, flag by flag, in the order in which
\* they were staged, whatever was promoted or dropped in between - unless an
\* edit staged flags it had read before another edit changed them.
FlagsAsWanted == ~crossed => Providers(file) = wanted

\* Whatever the tools read before they edit, fail and abandon, the record is
\* only edited and promoted, as RecordLife says.  DeviceSync follows it too,
\* so either may be the other's environment.
Life == INSTANCE RecordLife

FollowsLife == Life!Spec
=============================================================================
