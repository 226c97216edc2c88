---------------------------- MODULE FirmwareDir ----------------------------
(***************************************************************************)
(* The file of one firmware version in the broker's firmware directory.    *)
(* publish_firmware copies an image to cwm-<version>.bin.tmp and renames   *)
(* it, in any number of MCP sessions and without a lock; handleFirmware    *)
(* serves the file, with a SHA-256 that it caches.                         *)
(*                                                                         *)
(* Names and files are told apart: an open file stays what it is when its  *)
(* name is given to another.  A file is its bytes, in chunks, and the time *)
(* of the last write; a hash is the bytes it is of.  Every write moves the *)
(* clock: the file system's ticks are taken to be finer than the time from *)
(* one write to the next.                                                  *)
(***************************************************************************)
EXTENDS Naturals, Sequences

CONSTANTS Sessions,      \* MCP sessions, at most one call each
          Requests,      \* request slots of the broker
          Images,        \* firmware images that are published
          Chunks,        \* writes it takes to copy one
          Hole,          \* bytes that were never written
          MaxCalls       \* bound: calls and requests begun

ASSUME FirmwareDirAssumption ==
  /\ Chunks \in Nat \ {0}
  /\ Hole \notin Images
  /\ MaxCalls \in Nat

VARIABLES
  nodes,       \* the files there have been
  tmp, dst,    \* what the two names stand for, 0 if for nothing
  clock,       \* time of the last write
  calls,       \* calls and requests begun
  copy,        \* copy[s]: the publish under way in session s
  req,         \* req[r]: the request in slot r; raced is history: the hash was
               \* taken of a file put in place of the one to be sent
  cache,       \* firmwareSHACache: the entry of this path
  overlapped,  \* history: two publishes copied at the same time
  replaced     \* history: the installed file was replaced by a different one

dirVars == <<nodes, tmp, dst, clock, calls, copy, req, cache, overlapped, replaced>>
filesVars == <<nodes, tmp, dst, clock, copy, req, cache, overlapped, replaced>>

-----------------------------------------------------------------------------

Bytes == Seq(Images \cup {Hole})
Node == [bytes : Bytes, mtime : Nat]
Stat == [mtime : Nat, size : Nat]
Whole(image) == [i \in 1..Chunks |-> image]

Idle == [pc |-> "idle"]
Copy == [pc : {"copy"}, image : Images, node : Nat \ {0}, done : 0..Chunks]
Installed == [pc : {"installed"}, image : Images]

Request == [pc : {"hash", "store", "send"}, fd : Nat \ {0}, stat : Stat,
            sum : Bytes, raced : BOOLEAN]
Entry == [stat : Stat, sum : Bytes, raced : BOOLEAN]

DirTypeOK ==
  /\ nodes \in Seq(Node)
  /\ tmp \in 0..Len(nodes) /\ dst \in 0..Len(nodes)
  /\ clock \in Nat /\ calls \in 0..MaxCalls
  /\ copy \in [Sessions -> {Idle} \cup Copy \cup Installed]
  /\ \A s \in Sessions : copy[s].pc = "copy" => copy[s].node \in 1..Len(nodes)
  /\ req \in [Requests -> {Idle} \cup Request]
  /\ \A r \in Requests : req[r] # Idle => req[r].fd \in 1..Len(nodes) /\ dst # 0
  /\ cache \in Entry
  /\ overlapped \in BOOLEAN /\ replaced \in BOOLEAN

DirInit ==
  /\ nodes = <<>>
  /\ tmp = 0 /\ dst = 0
  /\ clock = 0 /\ calls = 0
  /\ copy = [s \in Sessions |-> Idle]
  /\ req = [r \in Requests |-> Idle]
  /\ cache = [stat |-> [mtime |-> 0, size |-> 0], sum |-> <<>>, raced |-> FALSE]
  /\ overlapped = FALSE /\ replaced = FALSE

-----------------------------------------------------------------------------
(* publish_firmware, local hosting *)

Called == calls < MaxCalls /\ calls' = calls + 1

Copying(s) == copy[s].pc = "copy"

Empty(time) == [bytes |-> <<>>, mtime |-> time]

\* O_CREATE|O_TRUNC: a tmp file that is there - left behind, or being written by
\* another session - is emptied, not replaced.
OpenTmp(s, image) ==
  /\ copy[s] = Idle
  /\ Called
  /\ clock' = clock + 1
  /\ \/ tmp = 0 /\ tmp' = Len(nodes) + 1 /\ nodes' = Append(nodes, Empty(clock'))
     \/ tmp # 0 /\ tmp' = tmp /\ nodes' = [nodes EXCEPT ![tmp] = Empty(clock')]
  /\ copy' = [copy EXCEPT ![s] = [pc |-> "copy", image |-> image, node |-> tmp', done |-> 0]]
  /\ overlapped' = (overlapped \/ \E t \in Sessions : Copying(t))
  /\ UNCHANGED <<dst, req, cache, replaced>>

\* A write at the session's own offset.
Put(bytes, k, x) ==
  [i \in 1..(IF k > Len(bytes) THEN k ELSE Len(bytes)) |->
     IF i = k THEN x ELSE IF i <= Len(bytes) THEN bytes[i] ELSE Hole]

CopyChunk(s) ==
  /\ Copying(s) /\ copy[s].done < Chunks
  /\ clock' = clock + 1
  /\ copy' = [copy EXCEPT ![s].done = @ + 1]
  /\ nodes' = [nodes EXCEPT ![copy[s].node] =
                 [bytes |-> Put(@.bytes, copy[s].done + 1, copy[s].image), mtime |-> clock']]
  /\ UNCHANGED <<tmp, dst, calls, req, cache, overlapped, replaced>>

\* The tmp name, whosever file it is, becomes the firmware's.
Rename(s) ==
  /\ tmp # 0
  /\ dst' = tmp /\ tmp' = 0
  /\ replaced' = (replaced \/ (dst # 0 /\ nodes[dst].bytes # nodes[tmp].bytes))
  /\ copy' = [copy EXCEPT ![s] = [pc |-> "installed", image |-> copy[s].image]]
  /\ UNCHANGED <<nodes, clock, calls, req, cache, overlapped>>

\* An install that does not look at the error of io.Copy.
InstallAnyway(s) == Copying(s) /\ Rename(s)

Install(s) == Copying(s) /\ copy[s].done = Chunks /\ Rename(s)

\* A failing publish that removes the firmware instead of the tmp file.
RemoveInstalled(s) ==
  /\ Copying(s)
  /\ dst' = 0
  /\ copy' = [copy EXCEPT ![s] = Idle]
  /\ UNCHANGED <<nodes, tmp, clock, calls, req, cache, overlapped, replaced>>

\* Copy, Sync, Close or Rename fails - Rename surely if another session took the
\* name - and the tmp name is removed.
PublishFails(s) ==
  /\ Copying(s)
  /\ tmp' = 0
  /\ copy' = [copy EXCEPT ![s] = Idle]
  /\ UNCHANGED <<nodes, dst, clock, calls, req, cache, overlapped, replaced>>

-----------------------------------------------------------------------------
(* handleFirmware, once the request is authenticated *)

StatOf(n) == [mtime |-> nodes[n].mtime, size |-> Len(nodes[n].bytes)]

\* A request for a file that is not there is answered 404.
OpenFirmware(r) ==
  /\ req[r] = Idle /\ dst # 0
  /\ Called
  /\ req' = [req EXCEPT ![r] = [pc |-> "hash", fd |-> dst, stat |-> StatOf(dst),
                                sum |-> <<>>, raced |-> FALSE]]
  /\ UNCHANGED <<nodes, tmp, dst, clock, copy, cache, overlapped, replaced>>

\* A cache that compares sizes only.
HitsBySize(r) == cache.stat.size = req[r].stat.size

Hits(r) == cache.stat = req[r].stat

CachedSHA(r) ==
  /\ req[r].pc = "hash" /\ Hits(r)
  /\ req' = [req EXCEPT ![r].pc = "send", ![r].sum = cache.sum,
                        ![r].raced = cache.raced]
  /\ UNCHANGED <<nodes, tmp, dst, clock, calls, copy, cache, overlapped, replaced>>

\* firmwareSHA opens the path again: by now it may name another file.
HashFile(r) ==
  /\ req[r].pc = "hash" /\ ~Hits(r)
  /\ req' = [req EXCEPT ![r].pc = "store", ![r].sum = nodes[dst].bytes,
                        ![r].raced = dst # req[r].fd]
  /\ UNCHANGED <<nodes, tmp, dst, clock, calls, copy, cache, overlapped, replaced>>

StoreSHA(r) ==
  /\ req[r].pc = "store"
  /\ cache' = [stat |-> req[r].stat, sum |-> req[r].sum, raced |-> req[r].raced]
  /\ req' = [req EXCEPT ![r].pc = "send"]
  /\ UNCHANGED <<nodes, tmp, dst, clock, calls, copy, overlapped, replaced>>

\* ServeContent sends what the file opened first holds, or the client leaves.
Send(r) ==
  /\ req[r].pc = "send"
  /\ req' = [req EXCEPT ![r] = Idle]
  /\ UNCHANGED <<nodes, tmp, dst, clock, calls, copy, cache, overlapped, replaced>>

DirStep ==
  \/ \E s \in Sessions : CopyChunk(s) \/ Install(s) \/ PublishFails(s)
  \/ \E r \in Requests :
       OpenFirmware(r) \/ CachedSHA(r) \/ HashFile(r) \/ StoreSHA(r) \/ Send(r)

-----------------------------------------------------------------------------
(* Properties *)

\* The installed file is a whole image at all times, and so is what a device is
\* sent: sessions fail and die in the middle of a copy and leave tmp files
\* behind.  Only publishes of the version that copy at the same time spoil it.
InstalledWhole ==
  ~overlapped =>
    /\ dst # 0 => \E image \in Images : nodes[dst].bytes = Whole(image)
    /\ \A r \in Requests :
         req[r] # Idle => \E image \in Images : nodes[req[r].fd].bytes = Whole(image)

\* X-Cwm-Firmware-SHA256 and ETag are those of the body, also out of a cache that
\* other requests fill before and after the file is replaced - unless it was
\* replaced between the two opens of the request that took the hash.
HeaderMatchesBody ==
  \A r \in Requests :
    req[r].pc = "send" /\ ~req[r].raced /\ ~overlapped
      => req[r].sum = nodes[req[r].fd].bytes
=============================================================================
