# A TLA+ verification of cwm-mcp

cwm-mcp is the host side of a wall-mounted usage display. One binary runs an
HTTP **broker** that the device polls over the LAN and an **MCP server** that
an operator's assistant uses to configure devices. Several processes may run at
once (one MCP session each); the one that binds the port is the broker, the
others follow, and all share a directory of **device records**.

This directory holds models of that code, the TLC configurations that check
them on small instances, and TLAPS proofs of the main results for every value
of the constants. `PROJECT.json` lists the runs, the hazards of the code, the
lines every definition stands for, and the theorems.

    tlc -workers 2 -config MCDeviceSync.cfg MCDeviceSync.tla
    tlapm DeviceSyncProofs.tla

## 1. The system

| part (source) | state | operations | talks to |
|---|---|---|---|
| device registry (`registry/registry.go`) | one TOML file per device: `active`, optional `pending`, last seen, serial; a `.lock` and a `.tmp` beside it | Register, SetPending, MaybePromote, Touch, SetSerial, BumpMinSV, Load, PSKsFor | the file system; called by broker and MCP tools of any process |
| payload encryption (`registry/crypto.go`) | none | EncryptPending | broker |
| request authentication (`auth/auth.go`) | nonce cache of the serving process | Verify, VerifyMulti, CheckAndAdd, reap | broker |
| broker (`broker/server.go`) | per-request locals; SHA cache of firmware files | /device/{id}/sync, /credentials, /codex-credentials, /usage/{p}, /firmware/{f}, /firmware-logs; Serve | registry, auth, usage, log buffer |
| usage cache (`usage/usage.go`) | entry and flight per provider | Get | fetchers (`claude.go`, `codex.go`, `gemini.go`) |
| leader election (`leader/leader.go`, `runMCP` and `runDaemon` of `main.go`) | who has the port; the role | Acquire, Run; the handler | broker.Serve, tailer, mDNS |
| firmware log (`serial/tailer.go`, `logbuf/logbuf.go`) | ring buffer, connected flag | Run, Write, Tail, Len; `cwm-mcp logs` follows it | broker |
| firmware files (`mcp/devices.go`, `broker/server.go`) | `cwm-<version>.bin`, its `.tmp`; SHA cache | publish_firmware; /firmware/{f} | registry |
| MCP tools (`mcp/devices.go`, `mcp/discovery.go`, `mcp/server.go`) | none between calls | register_device, set_device_pending, revert_firmware, publish_firmware, provision_device; status tools | registry, the device's /provision |
| mDNS (`mdns/publish.go`) | the advertisement and its TXT record | Start, refreshLoop, Close | registry; the handler |
| configuration, credentials, process state (`config`, `creds`, `state`) | files; role and counters | load, read, SetRole, count | — |
| the device (not in this repository) | known-good and candidate configuration, anti-rollback floor | poll, commit, roll back, install firmware | broker |

How the parts interact. An MCP tool edits the record of a device: the edit
becomes or amends `pending`, under a higher version. The device polls /sync,
signs with the key of the configuration it runs and reports that
configuration's version. The broker reads the record's keys, verifies, promotes
`pending` to `active` if the report earns it, notes contact, serial and floor,
reads the record again, and returns `pending`, encrypted, if the device's
version is older. The device tries what it got as a candidate: a 200 to a
request signed as the candidate commits it, a 401 rolls it back - also a 401
that has nothing to do with the candidate, as all of them look alike.

What is hard, and what makes each part correct:

- **Registry file.** Callers in several processes, goroutines included; a save
  is five system calls, any of which may fail or be the last one before a kill
  or a power loss. Correct: each operation is atomic or fails cleanly; no
  reader ever sees part of a record; the lock never stays held.
- **Sync protocol.** A handler drops the registry lock between its six registry
  calls. Requests overlap (the device gives up after a time-out and polls
  again), answers get lost, registry writes fail while the handler still
  answers 200, requests are refused for the clock or the nonce, and edits arrive
at any moment. Correct: only what the device
  proved to run is promoted; with nothing pending, registry and device agree; a
  key rotation never locks the device out; an edit arrives in the end.
- **Authentication.** A nonce must outlive the window in which its timestamp
  is valid, although the two are measured on different clocks and handlers
  overtake each other between the clock and the cache; the cache is lost at
  every restart or handover. Correct: a cache accepts a signed request at most
  once, and nothing but that uses its nonce up.
- **Usage cache.** The mutex is released during a fetch; others wait for its
  result or are cancelled. Correct: one fetch at a time; what the display shows
  never goes back; nobody hangs; every waiter gets the flight's result.
- **Leader election.** The listener closes first and the rest of a handler is
  withdrawn after it, so the next leader starts while the former unwinds; the
  advertisement is closed by the handler and by its refresher, whoever is first;
  servers and Listens fail; processes are told to stop, or killed, at any point.
  Correct: only who is in its handler acts as the broker and one at most serves;
  a free port is taken; a process told to stop exits; the role it reports and
  the devices it advertises catch up.
- **Firmware log.** An answer is two reads of a buffer that is written
  meanwhile; a handover starts a new buffer; answers get lost. Correct: the
  follower prints every line once, in order, or reports it as lost.
- **Firmware files.** Sessions publish one version without a lock and die
  half-way; requests open the file, hash it by name and cache the hash. Correct:
  what is served is a whole image with its own hash, and what a record offers is
  there.
- **Edits that read first.** Provider flags and reverts read the record before
  they stage. Correct: what is on record is what the edits asked for; firmware
  fields and manifest belong together.

`PROJECT.json` lists the individual hazards at their lines, with the properties
that would catch them, or the reason why none does.

## 2. Modules

| module | models |
|---|---|
| `Registry` | the record and what each operation makes of it, as pure functions |
| `RegistryOps` | the operations as requests: what each saves and answers |
| `RegistryStore` | abstract: an atomic store that fails cleanly |
| `RecordSteps`, `RecordLife` | abstract: how one record may follow another, and a record's life made of such steps |
| `RegistryFile` | flock, read, `.tmp`, fsync, rename, unlock; crash and power loss |
| `DeviceSync` | one device, its record, the broker's handlers, the MCP sessions |
| `NonceAuth` | timestamps, nonces and the nonce cache, over two clocks |
| `UsageCache` | Cache.Get of one provider, by the steps of its callers |
| `Leader` | the processes of a host: election, the broker handler, its background goroutines |
| `FirmwareLog` | on top of it tailers, ring buffers, the /firmware-logs answer, the follower |
| `FirmwareDir` | one firmware version: publish's copy and rename, download, SHA cache |
| `DeviceTools` | on top of it and `Registry`, the MCP edits that read before they stage |
| `MCRegistryFile`, `MCDeviceSync`, `MCNonceAuth`, `MCFirmwareLog`, `MCDeviceTools` | small instances for TLC |
| `RegistryLemmas`, `RecordLifeProofs`, `RegistryFileProofs`, `DeviceSyncProofs`, `NonceAuthProofs`, `UsageCacheProofs`, `BrokerProofs`, `FirmwareProofs` | theorems |

    Registry <- RegistryOps <- RegistryStore
        ^            ^              ^ refinement (Implements)
        |            '----------- RegistryFile
        |--- DeviceSync   (one action per locked registry call)
        '--- DeviceTools ---> FirmwareDir

    Registry <- RecordSteps <- RecordLife
                                  ^ refinement (FollowsLife)
                                  '--- DeviceSync, DeviceTools, RegistryFile

    Leader <- FirmwareLog

The two halves meet in the grain of atomicity. `RegistryFile` implements
`RegistryStore`, in which an operation happens at one instant between call and
return or not at all; `DeviceSync` takes each registry call as one action that
happens or, with `Faults`, does not (`Write`). An error after which the record
has changed all the same does not exist: the rename is the last call of a save
that can fail.

`DeviceSync` has the device and every edit as an update; `DeviceTools` has no
device but its promotions, and looks inside the edits. They share `Staged`,
`Promoted` and the rest of `Registry`, each being in the other's environment.
What either may count on is `RecordLife`: the record is registered once, edited,
promoted and noted upon, in any order and by anybody. Both implement it
(`FollowsLife`), by the variable `file` as it is, and so does the record that
`RegistryFile` keeps, from one power loss to the next.

`NonceAuth` and `UsageCache` stand alone. Why `NonceAuth` refuses a request - the
skew, a replay - is to `DeviceSync` a refusal that may hit any request
(`Rejected`); what the usage endpoint answers is, too, an outcome there
(`TouchStep`). It shares no state with the registry but for the keys.

### Registry

`ConfigPayload` has some fifteen optional settings that the code copies,
compares and sends alike; they are one function `set` over an arbitrary set
`Fields`, `None` being "no opinion". `version`, `psk` and `minSV` have rules of
their own. `Staged` is SetPending: merge over pending or active (`PendingBase`,
`MergePayload`), number (`NextVersion`), and drop the result if it equals active
(`PayloadEquivalent`). `MayPromote` is the condition of MaybePromote and
`Promoted` its effect. Version numbers are naturals: uint32 would wrap after
four billion edits. The timestamps are left out but for "has been seen".

`RecordSteps` says of the same operations only what a caller of another process
can rely on: `NewRecord` (Register), `Edits` (SetPending: active stays, the new
pending is a change, numbered above all on record, with no lower floor than what
it amends), `Promotes` (MaybePromote: pending becomes active as it is), `Notes`
(Touch, SetSerial, BumpMinSV: nothing is lowered or forgotten).

### RegistryFile

Variables: the data file, the data file as a power loss would leave it, the
shared `.tmp`, the holder of the flock, and each caller's progress. Each system
call is an action, each with its failure. `Die` kills a process at any point:
the kernel drops its flock, its `.tmp` stays. The directory is never fsynced, so
`LosePower` may go back to an older file, and a file whose content was not
fsynced comes back torn; `Commit` is the file system catching up.

### DeviceSync

| code | here |
|---|---|
| handleDeviceSync | `Authenticate`, `PromoteStep`, `TouchStep`, `SerialStep`, `FloorStep`, `AnswerStep`, one per registry call, in that order |
| VerifyMulti | `Verified`, `Rejected` |
| verifyCredentialRequest with X-Cwm-Device, and what its callers answer | `Authenticate`, `PromoteStep`, `TouchStep` with kind "fetch" |
| `active`, `res.PSKIndex`, `observed` | `req[h].active`, `req[h].viaPending`, `req[h].ran.version` |
| set_device_pending, revert_firmware, publish_firmware | `Stage` |
| provision_device | `Provision` (the POST), then `RecordProvision`, or `ProvisionUnrecorded` |
| register_device | `RegisterDevice`, for a device configured by other means |
| shutdown after a 1 s drain, kill, lost packet, the device's time-out | `Lose` |
| firmware (external) | `Poll`, `Accept`, `RollBack`, `Retry`, `InstallFirmware` |

VerifyMulti fails for missing headers, a bad timestamp, skew, a bad nonce, a
signature that no key on record explains, and a replay, and the handlers answer
each with the same 401. The model keeps the one for the signature apart
("badSignature"), for a property; any request may get another ("unauthorized"),
whatever its key, and so may a usage request whose token the provider rejects
(`usageErrorToHTTP`). The device cannot tell them apart and rolls back on all. That
is not harmless. If a candidate was promoted, the answer was lost, and the next
request meets such a 401, the device falls back behind a record that has nothing
pending for it; if the candidate carried a rotated key, it falls back to a key
that is on record no more. The firmware is not in this repository: whether it
really rolls back on every 401 cannot be read here, and the model takes the worst.

The device is modelled from what the broker's code and comments expect of it.
`RegisterDevice` registers the configuration the device really has: an operator
who registers another one has locked the device out by that. `marks` is
history, read by properties and by nothing else: *dropped* (an outstanding edit
was discarded as a no-op), *withdrawn* (a key was offered and is on record no
more), *amended* (a rotation under way was edited), *reprovisioned*,
*unrecorded* (a provision the registry missed), *setback* (a candidate that the
record had not given up was rolled back), *unrotated* (the same, with a key).

### NonceAuth

`Receive` is a handler reading `time.Now()` for VerifyMulti; `CheckAndAdd` is
reap and insertion under the mutex; `Reject` every other way out. The signature
is a choice between the last two. `now.Unix() - ts` is whole seconds of the wall
clock, which may be set (`SetClock`); the age of a nonce is on the monotonic
reading that Go keeps in a Time. Hence time in half seconds, so that the
fraction one of them drops is there. `Handover` is a new `Serve`, with an empty
cache. A message may arrive any number of times.

The code does not relate `nonce_cache_ttl_seconds` to
`max_timestamp_skew_seconds`; `NonceAuthAssumption` is the relation it needs:
in half seconds, `2 * TTL >= 4 * Skew + 1 + Lag + Drift`, for handlers held up
by at most `Lag` before the cache and a wall clock set back by at most `Drift`.
The defaults (300 s and 60 s) leave almost three minutes for the two.

### UsageCache

| code | here |
|---|---|
| `entries[p].snap`, `fetched` against the TTL, `inFlights[p]` | `entry`, `fresh`, `flight` |
| the channel of a flight: one slot, open or closed | `chan[f]` |
| the locked first part of Get: hit, busy, new flight | `Hit`, `Join`, `Lead` |
| Fetch and the locked second part | `Land`, succeeding or failing |
| `ch <- result`, `close(ch)`, the select | `Send`, `Close`, `Receive`, `Cancel` |
| handleUsage's answer | `Status` in `Return` |

A snapshot bears the number of the flight that fetched it, so an older one can
be told from a newer one; 0 is the zero Snapshot. `served` and `least` are
history: the newest snapshot answered, now and when a request began.

### Leader and FirmwareLog

| code | here |
|---|---|
| `leader.Run`: Acquire, the three cases, the select | `Acquire`, `Busy`, `ListenFails`; `Retry`, `Exit` |
| the handler: startFirmwareTailer, startMDNS, Serve, the deferred calls | `Acquire`; `ServeFails`, `Shutdown`; `Unwind` |
| runDaemon | a process with `daemon`: one probe, no retry |
| signals, stdin closed, kill | `Cancel`, `Kill` |
| buildTXT | `Listed`, with room for `TxtLimit` ids |
| refreshLoop; Publisher.Close, called by it and by the handler | `Refresh`; `RefreshEnds`, `Withdraw`, `Close` |
| Tailer.Run; logbuf.Write, Tail, Len | `TailerEnds`; `ReadLine`, `LastLines`, `Retained` |
| handleFirmwareLogs: Tail, then Len | `TailLines`, then the total in `PrintAnswer` |
| runLogs: backlog, nothing new, new lines, failed fetch | `PrintBacklog`, `PrintNothing`, `PrintNew`, `FetchFails` |

Publisher.Close takes the server from the publisher under the mutex (`held`) and
shuts it down after unlocking (`on`). refreshLoop may have done the first half when
the handler calls it: the handler's own call then returns at once, and the
handler, and the process, may be gone before or after the goroutine gets to the
second half (`Withdraw`).

Handler runs are numbered (`runs`, `owner`); each has its buffer and its tailer.
A cancelled tailer stays until `TailerEnds`, since closing the descriptor of a
blocking read need not wake it: until then it takes lines from its successor. A
server whose Serve failed is never shut down, so `TailLines` may ask any run
whose process lives. Lines are numbers and a buffer is how many were written to
it. `account` is history: what the follower printed of one run after the lines
it skipped, and how many it reported as lost. It is *closed*, and nothing is
claimed of it any more, when the ring evicts a line, when a line is written
between the two reads of an answer, and when an answer comes from another run.
These three are real failures of runLogs, not simplifications: the total it
takes for a growing counter is the number of lines retained. After the first
eviction it prints nothing ever again; an answer that is raced makes it print a
line twice; after a handover it is silent until the new buffer is fuller than
the old one was.

Left out: which connection an answer travels on, whether the tty is open (a
tailer that has it not reads no line), partial lines. That ServeStdio returns
once its context is done, without which a cancelled process would not exit, is
taken from the library.

### FirmwareDir and DeviceTools

| code | here |
|---|---|
| publish: OpenFile, io.Copy, Rename, any of them failing | `OpenTmp`, `CopyChunk`, `Install`, `PublishFails` |
| handleFirmware: Open and Stat; firmwareSHA; ServeContent | `OpenFirmware`; `CachedSHA` or `HashFile`, `StoreSHA`; `Send` |
| publish: SetPending | `StagePublished` |
| set_device_pending with firmware or a manifest, publish with external_url | `StageRest` |
| set_device_pending with provider flags, and with what else the call brings | `LoadFlags`, `StageFlags` |
| revert_firmware | `LoadRevert`, `StageRevert` |
| errors after that, a session that dies | `Abandon` |

`nodes` are files and `tmp` and `dst` what the two names stand for: a second
publish truncates and writes the very file another session is copying to, or has
just renamed. A hash is the bytes it is of. A call with provider flags names any
of them and may bring firmware or a manifest along (`FlagCalls`); its other
settings are in `DeviceSync`. Every write moves the clock, hence the mtime that
the SHA cache compares: the model takes the file system's ticks to be finer than
the time between two writes. Two images of one size that end in one tick would
share a cache entry, which no property here excludes. Left out: fsync and power
loss (as in `RegistryFile` the directory is not fsynced), other versions (other
names; they share nothing but the cache's map), the broker_url (no broker_url is
`Abandon`), and requests for ranges. The floor is fixed: that a sync may raise
it between the test of `LoadRevert` and the write has no consequence here, as
the device decides.

History in provisos, each a real failure behind it: `overlapped` (two publishes
copied at once: a mixture of two images is installed), `replaced` (the version
was published again with other bytes: other records keep the former hash),
`raced` (the hash was taken of a file put in the place of the opened one: the
header is not the body's, and the pair sits in the cache), `crossed` (two edits
of flags overlapped: one is lost), `bare` (firmware or manifest was staged
alone: the merge keeps the other, of another version).

## 3. Runs

| run | module and configuration | checks | states |
|---|---|---|---|
| `device_sync` | `MCDeviceSync.cfg` | `TypeOK`, `VersionIdentifiesPayload`, `PromotionIsProved`, `Agreement`, `DeviceReachable`, `BadSignatureIsDue`, `FollowsLife`, `NumbersRise` | 2.1 million |
| `device_sync_live` | `MCDeviceSyncLive.cfg` | `EditsSettle`, `FloorIsMirrored` | 12 thousand |
| `registry_file` | `MCRegistryFile.cfg` | `FileTypeOK`, `WholeRecords`, `CriticalSection`, `Implements`, `FollowsLife`, `LockReleased` | 334 thousand |
| `nonce_auth` | `MCNonceAuth.cfg` | `NonceTypeOK`, `NonceNotBurnt`, `AtMostOnce` | 1.1 million |
| `usage_cache` | `UsageCache`, `MCUsageCache.cfg` | `UsageTypeOK`, `SingleFlight`, `NeverGoesBack`, `AllAnswered` | 156 thousand |
| `broker_process` | `MCFirmwareLog.cfg` | `LogTypeOK`, `OnlyTheLeaderActs`, `NothingMissed`, `PortTaken`, `CancelEnds`, `RoleCatchesUp`, `DevicesAdvertised`, `FollowerCatchesUp` | 130 thousand |
| `firmware` | `MCDeviceTools.cfg` | `TypeOK`, `InstalledWhole`, `HeaderMatchesBody`, `PublishedIsInstalled`, `FirmwareTogether`, `ManifestMatches`, `FlagsAsWanted`, `FollowsLife` | 1.4 million |
| `dropped_edit` | `MCPromotion.cfg` | `PromotesOnlyWhatDeviceRan`: violated | |
| `floor_lowered` | `MCFloor.cfg` | `FloorNeverLowered`: violated | |
| `blob_key` | `MCBlob.cfg` | `BlobReadable`: violated | |
| `status_probe` | `MCProbe.cfg` | `ProbeAnswered`: violated | |
| `usage_waiters` | `MCUsageZero.cfg` | `AnswerHasSnapshot`: violated | |

What the properties say:

- `VersionIdentifiesPayload` — promotion trusts a number. Whatever the device
  runs, has signed or is being sent under the pending payload's number is the
  pending payload, and no number is ahead of the record.
- `PromotionIsProved` — only a request of a device that ran the very payload
  promotes it. Both hold until an outstanding edit is *dropped*; without that
  proviso the second is `PromotesOnlyWhatDeviceRan`, which fails.
- `Agreement` — with nothing pending, what `list_devices` shows as active is
  what the device runs. Excepted, besides *dropped* and *reprovisioned*, is a
  device that a 401 has set back from what the record stands by.
- `DeviceReachable` — the key the device signs with is on record, through all
  refusals, unless the operator withdrew it, the registry missed a provision, or
  a 401 that was not for the signature undid a rotation (*unrotated*). A device
  set back with the same key stays reachable.
- `BadSignatureIsDue` — as long as a 401 for a signature can arrive, the record
  has given up the payload that signed, although the verifier's keys were read
  before other requests promoted and edits came: of the reasons for a roll-back,
  this one never hits what the record stands by. The others may.
- `NumbersRise` — the number in force never falls and never changes its meaning;
  a new pending is numbered above everything on record at that moment (a number
  that was dropped may come again: `dropped_edit`).
- `FollowsLife` — whatever the module adds, the record takes `RecordLife`'s steps.
- `EditsSettle` — no edit stays pending for ever, a roll-back for no good reason
  included, as long as the device's known-good key is the active one.
- `FloorIsMirrored` — the record gets to the floor the device reports, also after
  a promotion has lowered it; `FloorNeverLowered`, which fails, is the comment.
- `CriticalSection` — what a caller is about to rename is its own whole record
  and follows from the record still in place, though all callers share a `.tmp`.
- `Implements` — `RegistryFile` refines `RegistryStore`.
- `AtMostOnce` — a cache accepts a signed request once, however often it arrives
  and in whatever order handlers reach the cache.
- `NonceNotBurnt` — a request refused as a replay was accepted before. For the
  probes, which share a nonce, the same is `ProbeAnswered`, which fails.
- `SingleFlight` — one upstream fetch at a time, the mutex being free meanwhile.
- `NeverGoesBack` — a request that began after another was answered does not
  get an older snapshot, from the entry, a flight or a failed flight's copy.
- `AllAnswered` — no request hangs on a flight that has ended, before its own
  deadline; `AnswerHasSnapshot` — a 200 carries a snapshot, which fails.
- `OnlyTheLeaderActs` — who has a tailer that goes on reading, or holds an
  advertisement, is in its handler; an advertisement that nobody holds any more
  is one of a process told to stop that has not exited; who serves has the port;
  no process has two such tailers. `OnlyPortOwnerAdvertises` and `OneReader` are
  what the comments say; they fail.
- `PortTaken`, `CancelEnds` — a free port is taken as long as somebody is left to
  take it; a process told to stop exits.
- `RoleCatchesUp`, `DevicesAdvertised` — the role that the status tool reports
  and the advertised devices may lag, not for ever; a device that the TXT record
  has no room for is not advertised.
- `NothingMissed`, `FollowerCatchesUp` — the follower prints each line once and
  in order or counts it as lost, and does not stay behind a broker that stays.
- `InstalledWhole`, `HeaderMatchesBody` — what is installed, and what is being
  sent, is a whole image; the hash sent with it is its own.
- `PublishedIsInstalled` — a record that offers a download from this broker
  offers what is installed, with its hash, across merges and promotions.
- `FirmwareTogether`, `ManifestMatches` — url, hash and version come from one
  call; a manifest is that of the version beside it.
- `FlagsAsWanted` — each provider flag is what the last edit of it asked for.

**Bounds.** Two keys allow a rotation, its withdrawal and a rotation back; the
setting has two values that edits choose from and one that provisioning shares,
so an edit can return to what the device had. `MaxVersion = 3` gives two edits
after registration, enough for amend, drop and restage. Two request slots let a
late request overlap its retry; a third brings no new pair of steps. One setting
suffices as settings are independent of each other. `RegistryFile` takes two
callers, since the lock relates pairs, and one operation of each shape: read
only, always saves, creates, saves under a condition. Symmetry (request slots)
is used in the safety run only. `device_sync` leaves out firmware upgrades and
the serial for size, and goes no further once an edit was dropped
(`NumbersAreUnique`): from there on a number may stand for two payloads, the
properties but `FollowsLife` and `NumbersRise` promise nothing, and
`dropped_edit` has its own run. The theorems have no such constraint.
`device_sync_live` has the serial, one firmware upgrade, three edits one after
the other, among them a publish that carries a floor, and all refusals; it goes
no further once the operator has disturbed an edit under way or provisioned the
device anew (`Undisturbed`), where `EditsSettle` asks for nothing any more and
`FloorIsMirrored` is not checked. It has no "fetch" requests: their refusals
could set a candidate back as often as it is tried, as a network could.
`nonce_auth` has one request, of second 2, and two probes; skew 1 s, TTL 4 s,
lag ½ s, drift 1 s make the assumption an equality, so an error of half a second
shows; the clock stops at 4½ s, after the nonce is forgotten. Two handlers can
overtake each other. In `usage_cache` three handlers make a leader and two
waiters, and three flights a value, a failure that falls back on it, and a newer
value. In `broker_process` two processes hand the port over, `MaxFaults = 1`
allows two handler runs, and `MaxEvents = 3` bounds faults, registrations and
lines together; a behaviour has lines or registrations, not both
(`LinesOrDevices`), as the log does not look at the devices. Two devices and
room for one make the cut of the TXT record matter, and a lower id take the
place of a higher; a ring of two lines with requests of one lets a line be lost
within the bound and a third evict. A process lives once; a restarted one is
another process. In `firmware` a copy takes two writes, so that another session
can come between; `MaxCalls = 4` bounds calls and requests begun, enough for two
publishes and two downloads, or publish, manifest, revert and an edit of flags;
two firmwares elsewhere make an amended edit visible; the revert's targets are
below, at and above nothing given (0, 1, 2) of a floor of
2. Sessions, requests and images are symmetric there: the run has no liveness
property.

**Fairness** (`LiveSpec`). The device polls /sync for ever: weak fairness of
`Poll`, its slot being free until then. A handler that is not killed runs on
(weak fairness: a goroutine). Losses, restarts and refusals for the clock or the
nonce do not hit each sync request at the same step for ever: strong fairness on
the steps of a sync request, per step. For verification and promotion this is
asked of the requests of candidates and of those of the known-good configuration
apart: a device whose candidates are refused every time, for reasons of the
moment that spare its other requests, would be another network fault that never
ends. An answer that nobody waits for frees its slot. Without it a network that
always fails at the same point would refute any claim; nothing is assumed of
operators, of firmware or of losses. `FileLiveSpec` assumes that callers'
goroutines are scheduled, and so does `LiveSpec` of `UsageCache`, where a fetch
also ends because handleUsage puts 15 seconds on its context; the waiter's own
15 seconds are not relied on. `LeaderFairness` assumes that goroutines run and
timers fire (weak fairness of a process's steps), that ticks come, and that a
select that finds the context done again and again chooses it in the end (strong
fairness of `Exit`; Go chooses at random among ready cases). `LiveSpec` of
`FirmwareLog` adds that a poll ends, and that not every answer of a broker that
stays is lost (strong fairness of `PrintAnswer`). Nothing is assumed of faults.
Deadlock is not checked in the usage runs, where `MaxFlights` ends behaviours,
and in `broker_process` and `firmware`, where processes live once and calls are
bounded.

**Disagreements** the violation runs show:

1. `dropped_edit`: SetPending forgets the number of a pending it discards as a
   no-op. Stage *y* (version 2), the device runs it as a candidate, stage *x*
   back (dropped), stage *z*: version 2 again. The device's next poll as
   version 2 promotes *z*, which it never received and will not be sent.
2. `floor_lowered`: an edit is staged with the floor of that moment; the device
   then reports a higher one; promotion puts the older back, against the
   "monotonic" of BumpMinSV.
3. `blob_key`: the blob is encrypted with the key that was active when the
   handler began, also for a request signed with the pending key. The device
   ignores what it cannot read and the next poll repairs it, unless the device
   was re-provisioned: it then signs with the pending key, as version 0, and
   every answer stays unreadable until an operator intervenes.
4. `status_probe`: `cwm-mcp status` and the health check sign with a constant
   nonce each. The second within the TTL is refused as a replay and reported
   as a broker that rejects the key.
5. `usage_waiters`: two requests join a flight; one takes the result from the
   channel, the other reads the closed channel: zero snapshot, no error, 200.
   The display is told there is no usage, also when the fetch had failed.

One more the model shows without a run of its own. `main.go:278-281` and
`serial/tailer.go:3-4` want exactly one reader of the device port, and
`main.go:286-288` only the owner of the bound port to answer on the LAN. Both are
scoped to the handler, and the handler outlives its listener: a server fails, which
closes the listener; another process binds the port, starts its tailer and
advertises; only then does the former run its deferred Close and stop its tailer.
In between there are two readers that nobody has cancelled, each of which gets some
of the lines, and two advertisements (`OneReader` and `OnlyPortOwnerAdvertises`
in `Leader`, violated after Start, Acquire, ServeFails, Start, Acquire).
`OnlyTheLeaderActs` is what the code does guarantee.

## 4. Proofs

`RegistryLemmas` states what each operation of `Registry` returns and
preserves, and that it is a step of `RecordSteps`. It needs `NoneAssumption` only:
`None` is no key, value or record.

`DeviceSyncProofs`, for any number of requests, keys, settings, edits:

- `TypeCorrect`: `TypeOK` is inductive because of its last conjunct: a handler
  past authentication has a record (nothing removes one) and an active key.
- `VersionsIdentify`: `VersionIdentifiesPayload`, given `TypeOK`, is inductive.
  An edit takes a number above all numbers in existence (`Accounted`); promotion
  removes the pending; an answer carries the pending as it is; everything else
  moves configurations about. `PendingAhead` keeps the highest number on record
  from falling when the pending goes. A drop frees a number, hence the proviso.
- `PromotionProved`: a promoting request reported the pending number, so by
  `VersionIdentifiesPayload` it ran the pending payload when it signed.
- `BadSignaturesAreDue`, `RegistryAgrees`, `NeverLockedOut`: by one invariant
  (`SyncInv`) on the configurations in existence, inductive given the two above.
  None of the three is inductive alone, as each needs to know what the device
  may still do: commit, fall back, or take up an answer on its way. The device
  waits only for an answer to what it runs (`DeviceInv`), so an Accept commits
  the configuration that signed. The active number, too, stands for one payload
  (`ActiveIdentified`), so a promotion by an old request is one of what the
  device holds. A payload refused for its signature is past (`Rejections`): such
  a roll-back never leaves the newest payload; any other may, and then leaves
  its mark (`SetBack`). An answer that the device waits for is as new as
  anything it ever signed with (`AnswerIsLatest`), so accepting it is no step
  back either. Hence a device that has signed as the pending payload runs it
  until the record moves on or it is set back (`RunsNewest`); when a promotion
  empties `pending` the device is where the record is (`Settled`, which is
  `Agreement`); and what it runs, may fall back to and may try next has a key on
  record or in the hands of a provisioning session (`KeysKnown`, which is
  `DeviceReachable`). The known-good configuration needs its key only until the
  candidate is in force: from then on a refusal is marked as one that undid a
  rotation.
- `SyncFollowsLife` and `SyncNumbersRise`: a refinement by the identity on `file`,
  and what follows from it.

`RecordLifeProofs`: `LifeNumbersRise`, from `EditsAhead`, for the abstract record
alone. `SyncNumbersRise` and `ToolsNumbersRise` are its instances: nothing about
handlers, sessions or files is used but that they follow the record's life.

`RegistryFileProofs`, for any callers and operations:

- `FileInvariant`: `FileTypeOK`, `WholeRecords` and `CriticalSection` together
  are inductive. None is alone: a rename installs a whole record because the
  `.tmp` is the caller's, and it is because the lock excludes the others.
- `FileImplementsStore`: the rename, or the decision to answer without saving,
  is `Apply`; every other step is a call, a failure, a return or a stutter.
- `FileFollowsLife`: the data file changes at a rename, which puts what the
  operation saves over the record it has read, and at a power loss.

`NonceAuthProofs`, for any messages, handlers, skew, TTL, lag and drift that
meet `NonceAuthAssumption`:

- `NoncesEarned`: every nonce in the cache is that of an accepted message
  (`Earned`), and only probes share theirs.
- `AcceptedAtMostOnce`: an accepted message's nonce is in the cache, with a time
  no older than its acceptance, or that was more than the TTL ago
  (`Remembered`). In the second case the message has left the window of every
  clock reading still in use (`Timely`): this is where the inequality is spent.

`FileTypes` and `RecordsAreWhole`, `NonceTypes` and `UsageTypes` state the parts
of these invariants that the runs check on their own.

`UsageCacheProofs`, for any handlers and flights:

- `OneFetchAtATime` and `AnswersNeverGoBack`: what the leader read before it
  released the mutex still holds when it lands (`FetcherOwns`), so the entry
  only grows (`EntryOld`); a flight has no result while it can be joined
  (`NoResultYet`), so a result is as new as anything answered before its
  waiters began (`ResultsNew`).

`BrokerProofs`, for any number of processes, faults and lines, and any sizes:

- `OneProcessActs`, of `LeaderSpec`: needs that a process has at most one tailer
  per run of its own and that only a run of a process in its handler has one not
  cancelled (`TailersOwned`), and that only a process told to stop lets go of an
  advertisement it has not withdrawn (`AdvertDue`). That the runs never exceed
  their bound, which the type needs, is a counting argument: each ended run was
  ended by a fault (`RunsCounted`).
- `EveryLineAccounted`: while the account is open the total is the number of
  lines written, so the mark is a line number and lies between what was skipped
  and what was written (`AccountInv`); the lines appended by an answer are the
  ones up to its total, above everything printed before (`MorePrinted`).
- `BrokerTypeCorrect`: with these.

`FirmwareProofs`, for any sessions, requests, images, chunks, flags and edits:

- `InstalledIsWhole`, `HeaderIsOfBody`, `OfferedIsInstalled`: by one invariant on
  the files (`FilesInv`): unless publishes overlap, a file under a name other
  than the `.tmp` is never written again (`Separate`) and is whole (`Contents`);
  a write moves the clock, so stat identifies bytes (`Clocked`), whence a cache
  hit is right (`Hashes`); a session past its rename has its image installed
  (`Ready`).
- `FirmwareStaysTogether`, `ManifestsMatch`, `FlagsAreAsWanted`: by cases of the
  merge (`RecordInv`); a pending without providers is over an active without
  (`ProvidersStay`), so a promotion does not change the default that is shown.
- `ToolsTypeCorrect`: with these. `ToolsFollowLife`: every edit of a tool is an
  update, so what it stages is an edit of `RecordLife`.

Every safety property the passing runs check is a theorem. Model-checked only:
the liveness properties `EditsSettle`, `FloorIsMirrored`, `LockReleased`,
`AllAnswered`, `PortTaken`, `CancelEnds`, `RoleCatchesUp`, `DevicesAdvertised`
and `FollowerCatchesUp`, since TLAPS does not reach liveness under fairness or
ENABLED. No module here has a recursive operator, so nothing was moved out of
reach by that; an induction over data would be out of reach too.

## 5. Not modelled

- The fetchers of the usage providers (`claude.go`, `codex.go`, `gemini.go`,
  `gemini_oauth_client.go`) are an outcome in `UsageCache`. Their state is
  Gemini's token cache and the memoised OAuth client, each two assignments under
  a mutex: two overlapping refreshes, possible as the per-device override
  bypasses the flight (`server.go:520-540`), may leave the older token, and a
  failed discovery is remembered for the life of the process. What follows from
  either is decided by services this repository does not describe.
- Configuration and credential files are parsed and handed on: no state.
- Of mDNS, the announcement and the goodbye packets, which may reach caches out
  of order, and the bytes of the TXT record (`TxtLimit` is in ids; they are of
  one length). Of `state.go`, the request counters. Of the command line, flags
  and printing.
- AES-CTR, HMAC, TOML, HTTP: libraries, modelled by what they are used for.
- Partial provisioning (no broker URL) changes the device behind the registry's
  back by design (`discovery.go:304-311`) and is left out of `Provision`. Settings
  that the POST leaves out are taken to stay what they were on the device. Two
  settings differ from the uniform treatment: clearing `gemini_models` and a
  brightness of 0 do not travel to the device (`server.go:645-683`);
  `DeviceSync`'s settings cannot be cleared.

What could come next: the nonce cache of `NonceAuth` composed with the handler
runs of `Leader`, across which the code promises nothing today; a power loss in
`DeviceSync`, which takes back a promotion the device has already acted on.
