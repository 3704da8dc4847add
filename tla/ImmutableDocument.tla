--------------------------- MODULE ImmutableDocument ---------------------------
(***************************************************************************)
(* The no-replace publication of one result document, as written by        *)
(* ig_immutable_document (transaction-lib.sh) and, step for step, by        *)
(* atomic_receipt (custody-ingress-guard.sh): write a temporary, fsync it,  *)
(* hard-link it to the destination, fsync the directory, unlink the         *)
(* temporary, fsync the directory.  A later call finds whatever a killed    *)
(* one left and reconciles it first.                                       *)
(*                                                                         *)
(* Callers hold the global lock, so at most one call runs at a time.  The   *)
(* process may be killed between any two system calls (Kill) and the host   *)
(* may lose power (PowerLoss).  The file system keeps the entries of one    *)
(* directory in order: after a power loss the directory is in one of the    *)
(* states it went through since it was last synced, and a file that was    *)
(* not synced may hold a prefix of its bytes.                               *)
(***************************************************************************)
EXTENDS Naturals, FiniteSets

CONSTANTS
  Payloads,   \* complete documents callers may ask to publish
  Partial,    \* the content of a file that is not completely written
  Inodes,     \* file identities
  None        \* no file, no caller, no acknowledged document

ASSUME PayloadAssumption == None \notin Payloads /\ Partial \notin Payloads /\ None # Partial
ASSUME InodeAssumption == None \notin Inodes

VARIABLES
  listing,    \* the directory as the running system sees it
  disk,       \* the directory states a power loss may fall back to
  data,       \* the content of each file
  synced,     \* the files whose content is on disk
  syscall,    \* the next system call of the running call, or "idle"
  want,       \* the payload of the running call
  settled,    \* a call that synced the published name has returned
  acked       \* a call has returned success for the published name

vars == <<listing, disk, data, synced, syscall, want, settled, acked>>

Names == {"final", "tmp"}
Listings == [Names -> Inodes \union {None}]
Steps == {"idle", "stat", "syncReconciled", "check", "create", "write", "link",
          "syncLink", "unlink", "syncUnlink", "verify", "syncDiscard"}

\* Every variable has its type, and a payload is held exactly while a call of
\* ig_immutable_document runs (its argv outlives no killed process).
TypeOK ==
  /\ listing \in Listings
  /\ disk \in SUBSET Listings
  /\ data \in [Inodes -> Payloads \union {Partial}]
  /\ synced \in SUBSET Inodes
  /\ syscall \in Steps
  /\ want \in Payloads \union {None}
  /\ want # None <=> syscall \notin {"idle", "syncDiscard"}
  /\ settled \in BOOLEAN
  /\ acked \in BOOLEAN

--------------------------------------------------------------------------------
\* What the code reads: which names exist, and st_nlink of the temporary.

Exists(name) == listing[name] # None
SameFile == Exists("final") /\ listing["tmp"] = listing["final"]

\* The files some directory state still names: their inodes are not reused.
Named == {i \in Inodes : \E d \in disk \union {listing} : \E n \in Names : d[n] = i}

\* A directory operation takes effect in memory; a sync makes it the only
\* state a power loss can return to.
SetEntry(name, i) ==
  /\ listing' = [listing EXCEPT ![name] = i]
  /\ disk' = disk \union {[listing EXCEPT ![name] = i]}

SyncDirectory ==
  /\ disk' = {listing}
  /\ UNCHANGED listing

Proceed(from, to) == syscall = from /\ syscall' = to

Return == syscall' = "idle" /\ want' = None

--------------------------------------------------------------------------------
Init ==
  /\ listing = [n \in Names |-> None]
  /\ disk = {[n \in Names |-> None]}
  /\ data = [i \in Inodes |-> Partial]
  /\ synced = {}
  /\ syscall = "idle"
  /\ want = None
  /\ settled = FALSE
  /\ acked = FALSE

Call(p) ==
  /\ Proceed("idle", "stat")
  /\ want' = p
  /\ UNCHANGED <<listing, disk, data, synced, settled, acked>>

\* Both names are one file with two links: an earlier call linked it and was
\* killed before unlinking the temporary.
ReconcileLinked ==
  /\ Proceed("stat", "syncReconciled")
  /\ SameFile
  /\ SetEntry("tmp", None)
  /\ UNCHANGED <<data, synced, want, settled, acked>>

\* Only the temporary is there: an earlier call was killed before the link.
DiscardUnlinked ==
  /\ Proceed("stat", "syncReconciled")
  /\ Exists("tmp") /\ ~Exists("final")
  /\ SetEntry("tmp", None)
  /\ UNCHANGED <<data, synced, want, settled, acked>>

\* The code refuses a temporary that is another file than the destination
\* ("document temporary collision"); NoCollision shows no call meets one.
NoTemporary ==
  /\ syscall = "stat"
  /\ ~Exists("tmp")
  /\ syscall' = IF Exists("final") THEN "check" ELSE "create"
  /\ UNCHANGED <<listing, disk, data, synced, want, settled, acked>>

SyncReconciled ==
  /\ syscall = "syncReconciled"
  /\ syscall' = IF Exists("final") THEN "check" ELSE "create"
  /\ SyncDirectory
  /\ settled' = (settled \/ Exists("final"))
  /\ UNCHANGED <<data, synced, want, acked>>

\* The destination exists: its bytes must be the caller's, with one link.
Compare ==
  /\ syscall = "check"
  /\ acked' = (acked \/ data[listing["final"]] = want)
  /\ Return
  /\ UNCHANGED <<listing, disk, data, synced, settled>>

Create ==
  /\ Proceed("create", "write")
  /\ ~Exists("tmp")
  /\ \E i \in Inodes \ Named :
       /\ SetEntry("tmp", i)
       /\ data' = [data EXCEPT ![i] = Partial]
       /\ synced' = synced \ {i}
  /\ UNCHANGED <<want, settled, acked>>

\* Mutant of WriteAndSync: os.fsync of the temporary is missing.
WriteUnsynced ==
  /\ Proceed("write", "link")
  /\ data' = [data EXCEPT ![listing["tmp"]] = want]
  /\ UNCHANGED <<listing, disk, synced, want, settled, acked>>

WriteAndSync ==
  /\ Proceed("write", "link")
  /\ data' = [data EXCEPT ![listing["tmp"]] = want]
  /\ synced' = synced \union {listing["tmp"]}
  /\ UNCHANGED <<listing, disk, want, settled, acked>>

Link ==
  /\ Proceed("link", "syncLink")
  /\ ~Exists("final")
  /\ SetEntry("final", listing["tmp"])
  /\ UNCHANGED <<data, synced, want, settled, acked>>

\* Mutant of SyncLink: os.fsync of the directory after the link is missing.
LinkUnsynced ==
  /\ Proceed("syncLink", "unlink")
  /\ settled' = TRUE
  /\ UNCHANGED <<listing, disk, data, synced, want, acked>>

SyncLink ==
  /\ Proceed("syncLink", "unlink")
  /\ SyncDirectory
  /\ settled' = TRUE
  /\ UNCHANGED <<data, synced, want, acked>>

Unlink ==
  /\ Proceed("unlink", "syncUnlink")
  /\ SetEntry("tmp", None)
  /\ UNCHANGED <<data, synced, want, settled, acked>>

SyncUnlink ==
  /\ Proceed("syncUnlink", "verify")
  /\ SyncDirectory
  /\ UNCHANGED <<data, synced, want, settled, acked>>

Verify ==
  /\ syscall = "verify"
  /\ acked' = (acked \/ data[listing["final"]] = want)
  /\ Return
  /\ UNCHANGED <<listing, disk, data, synced, settled>>

\* ig_discard_unpublished_document_temp: refused once the destination exists.
DiscardTemp ==
  /\ Proceed("idle", "syncDiscard")
  /\ ~Exists("final") /\ Exists("tmp")
  /\ SetEntry("tmp", None)
  /\ UNCHANGED <<data, synced, want, settled, acked>>

SyncDiscard ==
  /\ Proceed("syncDiscard", "idle")
  /\ SyncDirectory
  /\ UNCHANGED <<data, synced, want, settled, acked>>

--------------------------------------------------------------------------------
\* SIGKILL, or an exception between two system calls: the names stay.
Kill ==
  /\ syscall # "idle"
  /\ Return
  /\ UNCHANGED <<listing, disk, data, synced, settled, acked>>

\* The directory falls back to one of the states it went through since its
\* last sync; files that were never synced may be cut short.
PowerLoss ==
  /\ \E d \in disk : listing' = d /\ disk' = {d}
  /\ data' \in {data, [i \in Inodes |-> IF i \in synced THEN data[i] ELSE Partial]}
  /\ Return
  /\ UNCHANGED <<synced, settled, acked>>

Writer ==
  \/ ReconcileLinked \/ DiscardUnlinked \/ NoTemporary \/ SyncReconciled
  \/ Compare \/ Create \/ WriteAndSync \/ Link \/ SyncLink
  \/ Unlink \/ SyncUnlink \/ Verify \/ SyncDiscard

Next ==
  \/ \E p \in Payloads : Call(p)
  \/ DiscardTemp
  \/ Writer
  \/ Kill
  \/ PowerLoss

Spec == Init /\ [][Next]_vars

--------------------------------------------------------------------------------
\* A reader of the destination never sees a document that is cut short, not
\* even after a power loss: the link is made only after the file's fsync.
PublishedComplete ==
  \A d \in disk \union {listing} :
    d["final"] # None => data[d["final"]] \in Payloads /\ d["final"] \in synced

\* A retry never meets a temporary that is a different file than the published
\* destination, so "document temporary collision" cannot hold a retry up.
NoCollision ==
  Exists("tmp") /\ Exists("final") => SameFile

\* Whatever interrupted calls left behind, a reader sees a complete document or
\* none, and a retry can finish.
LeftoversAreSafe == PublishedComplete /\ NoCollision

\* The document is a write-once register: its value is what readers of the
\* destination see, settled once a call has synced that name.
Value == IF Exists("final") THEN data[listing["final"]] ELSE None
Register == INSTANCE WriteOnce WITH value <- Value, settled <- settled
IsWriteOnce == Register!Spec

\* operations.md promises a receipt that "is made durable": once any call has
\* returned success, no power loss can take the document away.
AckedDurable ==
  acked => \A d \in disk : d["final"] # None
================================================================================
