------------------------------ MODULE FileProofs ------------------------------
(***************************************************************************)
(* Proofs about files that others change or that a crash may catch half     *)
(* written: ImmutableDocument, for any payloads and any number of files;    *)
(* the readers of StableReads, for every reader and any number of changes;  *)
(* and the check of ProtectedHost: its binding, the one mount of its        *)
(* archive, and the verdict when nothing disturbs it.                       *)
(*                                                                         *)
(* The document: what a reader sees is complete, a retry never collides,    *)
(* and it is a write-once register.  Where the call stands (Control) says   *)
(* which names exist; every state the directory may fall back to is one     *)
(* that an earlier step left (DiskStates), so it names the destination the  *)
(* running system names, or none; and a settled destination is in all of    *)
(* them (Settled).                                                         *)
(***************************************************************************)
EXTENDS ImmutableDocument, StableReads, ProtectedHost, SequenceTheorems, TLAPS

-----------------------------------------------------------------------------
(* Result documents: the invariant *)


\* Which names the directory has at each step of a call.
Control ==
  /\ syscall \in {"syncReconciled", "check", "create"} => ~Exists("tmp")
  /\ syscall \in {"create", "write", "link"} => ~Exists("final")
  /\ syscall \in {"write", "link"} => Exists("tmp")
  /\ syscall = "link" => data[listing["tmp"]] \in Payloads /\ listing["tmp"] \in synced
  /\ syscall \in {"check", "syncLink", "unlink", "syncUnlink", "verify"} => Exists("final")
  /\ syscall \in {"syncLink", "unlink"} => listing["tmp"] = listing["final"]
  /\ syscall \in {"syncUnlink", "verify"} => ~Exists("tmp")

\* The directory and every state a power loss may return to.
DiskStates ==
  /\ listing \in disk
  /\ \A d \in disk :
       /\ d["final"] # None => data[d["final"]] \in Payloads /\ d["final"] \in synced
       /\ d["final"] # None /\ d["tmp"] # None => d["tmp"] = d["final"]
       /\ d["final"] \in {None, listing["final"]}

\* A settled destination is in each of them.
Settled == settled => \A d \in disk : d["final"] = listing["final"] /\ d["final"] # None

DocumentInv == TypeOK /\ Control /\ DiskStates /\ Settled

--------------------------------------------------------------------------------
\* The first state satisfies the inductive invariant.
LEMMA DocumentStarts == Init => DocumentInv
BY DEF Init, DocumentInv, TypeOK, Control, DiskStates, Settled, Names, Listings, Steps, Exists

\* Every step preserves it.
LEMMA DocumentSteps == DocumentInv /\ [Next]_vars => DocumentInv'
<1> SUFFICES ASSUME DocumentInv, [Next]_vars
             PROVE  DocumentInv'
  OBVIOUS
<1> USE PayloadAssumption, InodeAssumption DEF DocumentInv, Names, Proceed, Exists
<1>1. ASSUME NEW payload \in Payloads, Call(payload)  PROVE  DocumentInv'
  <2>1. TypeOK'
    BY <1>1 DEF TypeOK, Control, Listings, Steps, Call
  <2>2. Control'
    BY <1>1 DEF TypeOK, Control, DiskStates, Listings, Call
  <2>3. DiskStates'
    BY <1>1 DEF TypeOK, Control, DiskStates, Listings, Call
  <2>4. Settled'
    BY <1>1 DEF TypeOK, Control, DiskStates, Settled, Listings, Call
  <2>5. QED
    BY <2>1, <2>2, <2>3, <2>4
<1>2. CASE ReconcileLinked
  <2>1. TypeOK'
    BY <1>2 DEF TypeOK, Control, Listings, Steps, ReconcileLinked, SetEntry, SameFile
  <2>2. Control'
    BY <1>2 DEF TypeOK, Control, DiskStates, Listings, ReconcileLinked, SetEntry, SameFile
  <2>3. DiskStates'
    BY <1>2 DEF TypeOK, Control, DiskStates, Listings, ReconcileLinked, SetEntry, SameFile
  <2>4. Settled'
    BY <1>2
       DEF TypeOK, Control, DiskStates, Settled, Listings, ReconcileLinked, SetEntry,
           SameFile
  <2>5. QED
    BY <2>1, <2>2, <2>3, <2>4
<1>3. CASE DiscardUnlinked
  <2>1. TypeOK'
    BY <1>3 DEF TypeOK, Control, Listings, Steps, DiscardUnlinked, SetEntry
  <2>2. Control'
    BY <1>3 DEF TypeOK, Control, DiskStates, Listings, DiscardUnlinked, SetEntry
  <2>3. DiskStates'
    BY <1>3 DEF TypeOK, Control, DiskStates, Listings, DiscardUnlinked, SetEntry
  <2>4. Settled'
    BY <1>3 DEF TypeOK, Control, DiskStates, Settled, Listings, DiscardUnlinked, SetEntry
  <2>5. QED
    BY <2>1, <2>2, <2>3, <2>4
<1>4. CASE NoTemporary
  <2>1. TypeOK'
    BY <1>4 DEF TypeOK, Control, Listings, Steps, NoTemporary
  <2>2. Control'
    BY <1>4 DEF TypeOK, Control, DiskStates, Listings, NoTemporary
  <2>3. DiskStates'
    BY <1>4 DEF TypeOK, Control, DiskStates, Listings, NoTemporary
  <2>4. Settled'
    BY <1>4 DEF TypeOK, Control, DiskStates, Settled, Listings, NoTemporary
  <2>5. QED
    BY <2>1, <2>2, <2>3, <2>4
<1>5. CASE SyncReconciled
  <2>1. TypeOK'
    BY <1>5 DEF TypeOK, Control, Listings, Steps, SyncReconciled, SyncDirectory
  <2>2. Control'
    BY <1>5 DEF TypeOK, Control, DiskStates, Listings, SyncReconciled, SyncDirectory
  <2>3. DiskStates'
    BY <1>5 DEF TypeOK, Control, DiskStates, Listings, SyncReconciled, SyncDirectory
  <2>4. Settled'
    BY <1>5 DEF TypeOK, Control, DiskStates, Settled, Listings, SyncReconciled, SyncDirectory
  <2>5. QED
    BY <2>1, <2>2, <2>3, <2>4
<1>6. CASE Compare
  <2>1. TypeOK'
    BY <1>6 DEF TypeOK, Control, Listings, Steps, Compare, Return
  <2>2. Control'
    BY <1>6 DEF TypeOK, Control, DiskStates, Listings, Compare, Return
  <2>3. DiskStates'
    BY <1>6 DEF TypeOK, Control, DiskStates, Listings, Compare, Return
  <2>4. Settled'
    BY <1>6 DEF TypeOK, Control, DiskStates, Settled, Listings, Compare, Return
  <2>5. QED
    BY <2>1, <2>2, <2>3, <2>4
<1>7. CASE Create
  <2>1. TypeOK'
    BY <1>7 DEF TypeOK, Control, Listings, Steps, Create, SetEntry, Named
  <2>2. Control'
    BY <1>7 DEF TypeOK, Control, DiskStates, Listings, Create, SetEntry, Named
  <2>3. DiskStates'
    BY <1>7 DEF TypeOK, Control, DiskStates, Listings, Create, SetEntry, Named
  <2>4. Settled'
    BY <1>7 DEF TypeOK, Control, DiskStates, Settled, Listings, Create, SetEntry, Named
  <2>5. QED
    BY <2>1, <2>2, <2>3, <2>4
<1>8. CASE WriteAndSync
  <2>1. TypeOK'
    BY <1>8 DEF TypeOK, Control, Listings, Steps, WriteAndSync
  <2>2. Control'
    BY <1>8 DEF TypeOK, Control, DiskStates, Listings, WriteAndSync
  <2>3. DiskStates'
    BY <1>8 DEF TypeOK, Control, DiskStates, Listings, WriteAndSync
  <2>4. Settled'
    BY <1>8 DEF TypeOK, Control, DiskStates, Settled, Listings, WriteAndSync
  <2>5. QED
    BY <2>1, <2>2, <2>3, <2>4
<1>9. CASE Link
  <2>1. TypeOK'
    BY <1>9 DEF TypeOK, Control, Listings, Steps, Link, SetEntry
  <2>2. Control'
    BY <1>9 DEF TypeOK, Control, DiskStates, Listings, Link, SetEntry
  <2>3. DiskStates'
    BY <1>9 DEF TypeOK, Control, DiskStates, Listings, Link, SetEntry
  <2>4. Settled'
    BY <1>9 DEF TypeOK, Control, DiskStates, Settled, Listings, Link, SetEntry
  <2>5. QED
    BY <2>1, <2>2, <2>3, <2>4
<1>10. CASE SyncLink
  <2>1. TypeOK'
    BY <1>10 DEF TypeOK, Control, Listings, Steps, SyncLink, SyncDirectory
  <2>2. Control'
    BY <1>10 DEF TypeOK, Control, DiskStates, Listings, SyncLink, SyncDirectory
  <2>3. DiskStates'
    BY <1>10 DEF TypeOK, Control, DiskStates, Listings, SyncLink, SyncDirectory
  <2>4. Settled'
    BY <1>10 DEF TypeOK, Control, DiskStates, Settled, Listings, SyncLink, SyncDirectory
  <2>5. QED
    BY <2>1, <2>2, <2>3, <2>4
<1>11. CASE Unlink
  <2>1. TypeOK'
    BY <1>11 DEF TypeOK, Control, Listings, Steps, Unlink, SetEntry
  <2>2. Control'
    BY <1>11 DEF TypeOK, Control, DiskStates, Listings, Unlink, SetEntry
  <2>3. DiskStates'
    BY <1>11 DEF TypeOK, Control, DiskStates, Listings, Unlink, SetEntry
  <2>4. Settled'
    BY <1>11 DEF TypeOK, Control, DiskStates, Settled, Listings, Unlink, SetEntry
  <2>5. QED
    BY <2>1, <2>2, <2>3, <2>4
<1>12. CASE SyncUnlink
  <2>1. TypeOK'
    BY <1>12 DEF TypeOK, Control, Listings, Steps, SyncUnlink, SyncDirectory
  <2>2. Control'
    BY <1>12 DEF TypeOK, Control, DiskStates, Listings, SyncUnlink, SyncDirectory
  <2>3. DiskStates'
    BY <1>12 DEF TypeOK, Control, DiskStates, Listings, SyncUnlink, SyncDirectory
  <2>4. Settled'
    BY <1>12 DEF TypeOK, Control, DiskStates, Settled, Listings, SyncUnlink, SyncDirectory
  <2>5. QED
    BY <2>1, <2>2, <2>3, <2>4
<1>13. CASE Verify
  <2>1. TypeOK'
    BY <1>13 DEF TypeOK, Control, Listings, Steps, Verify, Return
  <2>2. Control'
    BY <1>13 DEF TypeOK, Control, DiskStates, Listings, Verify, Return
  <2>3. DiskStates'
    BY <1>13 DEF TypeOK, Control, DiskStates, Listings, Verify, Return
  <2>4. Settled'
    BY <1>13 DEF TypeOK, Control, DiskStates, Settled, Listings, Verify, Return
  <2>5. QED
    BY <2>1, <2>2, <2>3, <2>4
<1>14. CASE DiscardTemp
  <2>1. TypeOK'
    BY <1>14 DEF TypeOK, Control, Listings, Steps, DiscardTemp, SetEntry
  <2>2. Control'
    BY <1>14 DEF TypeOK, Control, DiskStates, Listings, DiscardTemp, SetEntry
  <2>3. DiskStates'
    BY <1>14 DEF TypeOK, Control, DiskStates, Listings, DiscardTemp, SetEntry
  <2>4. Settled'
    BY <1>14 DEF TypeOK, Control, DiskStates, Settled, Listings, DiscardTemp, SetEntry
  <2>5. QED
    BY <2>1, <2>2, <2>3, <2>4
<1>15. CASE SyncDiscard
  <2>1. TypeOK'
    BY <1>15 DEF TypeOK, Control, Listings, Steps, SyncDiscard, SyncDirectory
  <2>2. Control'
    BY <1>15 DEF TypeOK, Control, DiskStates, Listings, SyncDiscard, SyncDirectory
  <2>3. DiskStates'
    BY <1>15 DEF TypeOK, Control, DiskStates, Listings, SyncDiscard, SyncDirectory
  <2>4. Settled'
    BY <1>15 DEF TypeOK, Control, DiskStates, Settled, Listings, SyncDiscard, SyncDirectory
  <2>5. QED
    BY <2>1, <2>2, <2>3, <2>4
<1>16. CASE Kill
  <2>1. TypeOK'
    BY <1>16 DEF TypeOK, Control, Listings, Steps, Kill, Return
  <2>2. Control'
    BY <1>16 DEF TypeOK, Control, DiskStates, Listings, Kill, Return
  <2>3. DiskStates'
    BY <1>16 DEF TypeOK, Control, DiskStates, Listings, Kill, Return
  <2>4. Settled'
    BY <1>16 DEF TypeOK, Control, DiskStates, Settled, Listings, Kill, Return
  <2>5. QED
    BY <2>1, <2>2, <2>3, <2>4
<1>17. CASE PowerLoss
  <2>1. TypeOK'
    BY <1>17 DEF TypeOK, Control, Listings, Steps, PowerLoss, Return
  <2>2. Control'
    BY <1>17 DEF TypeOK, Control, DiskStates, Listings, PowerLoss, Return
  <2>3. DiskStates'
    BY <1>17 DEF TypeOK, Control, DiskStates, Listings, PowerLoss, Return
  <2>4. Settled'
    BY <1>17 DEF TypeOK, Control, DiskStates, Settled, Listings, PowerLoss, Return
  <2>5. QED
    BY <2>1, <2>2, <2>3, <2>4
<1>18. CASE UNCHANGED vars
  <2>1. TypeOK'
    BY <1>18 DEF TypeOK, Control, Listings, Steps, vars
  <2>2. Control'
    BY <1>18 DEF TypeOK, Control, DiskStates, Listings, vars
  <2>3. DiskStates'
    BY <1>18 DEF TypeOK, Control, DiskStates, Listings, vars
  <2>4. Settled'
    BY <1>18 DEF TypeOK, Control, DiskStates, Settled, Listings, vars
  <2>5. QED
    BY <2>1, <2>2, <2>3, <2>4
<1>19. QED
  BY <1>1, <1>2, <1>3, <1>4, <1>5, <1>6, <1>7, <1>8, <1>9, <1>10, <1>11, <1>12, <1>13,
     <1>14, <1>15, <1>16, <1>17, <1>18
     DEF Next, Writer

\* The inductive invariant holds in every reachable state.
THEOREM DocumentInvariant == Spec => []DocumentInv
BY DocumentStarts, DocumentSteps, PTL DEF Spec

\* Every variable keeps its type: no call leaves its payload behind.
THEOREM DocumentTypes == Spec => []TypeOK
<1>1. DocumentInv => TypeOK
  BY DEF DocumentInv
<1>2. QED
  BY <1>1, DocumentInvariant, PTL

\* A reader of the destination never sees a document that is cut short, in the
\* running system or after a power loss at any point of ig_immutable_document.
THEOREM DocumentComplete == Spec => []PublishedComplete
<1>1. DocumentInv => PublishedComplete
  BY DEF DocumentInv, DiskStates, PublishedComplete
<1>2. QED
  BY <1>1, DocumentInvariant, PTL

\* A retry of ig_immutable_document never meets "document temporary collision".
THEOREM DocumentReconcilable == Spec => []NoCollision
<1>1. DocumentInv => NoCollision
  BY DEF DocumentInv, DiskStates, NoCollision, SameFile, Exists
<1>2. QED
  BY <1>1, DocumentInvariant, PTL

\* Readers and retries are safe from what interrupted calls left
\* (transaction-lib.sh, ig_immutable_document).
THEOREM LeftoversSafe == Spec => []LeftoversAreSafe
BY DocumentComplete, DocumentReconcilable, PTL DEF LeftoversAreSafe

--------------------------------------------------------------------------------
\* A step publishes, settles or loses the document, or leaves it as it is.
LEMMA RegisterStep ==
  DocumentInv /\ [Next]_vars => [Register!Next]_(Register!vars)
<1> SUFFICES ASSUME DocumentInv, [Next]_vars
             PROVE  [Register!Next]_(Register!vars)
  OBVIOUS
<1> USE PayloadAssumption, InodeAssumption
    DEF DocumentInv, TypeOK, Names, Listings, Proceed, Exists, Value
<1>1. CASE Link
  <2>1. Value = None /\ settled' = settled
    BY <1>1 DEF Control, Link
  <2>2. Value' \in Payloads
    BY <1>1 DEF Control, Link, SetEntry
  <2>3. Register!Publish(Value')
    BY <2>1, <2>2 DEF Register!Publish
  <2>4. QED
    BY <2>2, <2>3 DEF Register!Next
<1>2. CASE SyncLink \/ SyncReconciled
  <2>1. Value' = Value
    BY <1>2 DEF SyncLink, SyncReconciled, SyncDirectory
  <2>2. CASE Exists("final")
    <3>1. Value # None /\ settled'
      BY <1>2, <2>2 DEF DiskStates, SyncLink, SyncReconciled
    <3>2. Register!Settle
      BY <2>1, <3>1 DEF Register!Settle
    <3>3. QED
      BY <3>2 DEF Register!Next
  <2>3. CASE ~Exists("final")
    <3>1. settled' = settled
      BY <1>2, <2>3 DEF Control, SyncLink, SyncReconciled
    <3>2. QED
      BY <2>1, <3>1 DEF Register!vars
  <2>4. QED
    BY <2>2, <2>3
<1>3. CASE PowerLoss
  <2>1. settled' = settled /\ Value' \in {None, Value}
    BY <1>3 DEF PowerLoss, DiskStates
  <2>2. settled => Value' = Value
    BY <1>3 DEF PowerLoss, DiskStates, Settled
  <2>3. CASE Value' = Value
    BY <2>1, <2>3 DEF Register!vars
  <2>4. CASE Value' # Value
    <3>1. Register!Lose
      BY <2>1, <2>2, <2>4 DEF Register!Lose
    <3>2. QED
      BY <3>1 DEF Register!Next
  <2>5. QED
    BY <2>3, <2>4
<1>4. CASE WriteAndSync \/ Create
  <2>1. Value' = Value /\ settled' = settled
    BY <1>4 DEF Control, WriteAndSync, Create, SetEntry
  <2>2. QED
    BY <2>1 DEF Register!vars
<1>5. CASE ReconcileLinked \/ DiscardUnlinked \/ Unlink \/ DiscardTemp
  <2>1. Value' = Value /\ settled' = settled
    BY <1>5 DEF ReconcileLinked, DiscardUnlinked, Unlink, DiscardTemp, SetEntry
  <2>2. QED
    BY <2>1 DEF Register!vars
<1>6. CASE \/ \E payload \in Payloads : Call(payload)
           \/ NoTemporary \/ Compare \/ SyncUnlink \/ Verify \/ SyncDiscard \/ Kill
           \/ UNCHANGED vars
  <2>1. UNCHANGED <<listing, data, settled>>
    BY <1>6
       DEF Call, NoTemporary, Compare, SyncUnlink, SyncDirectory, Verify, SyncDiscard, Kill,
           vars
  <2>2. QED
    BY <2>1 DEF Register!vars
<1>7. QED
  BY <1>1, <1>2, <1>3, <1>4, <1>5, <1>6 DEF Next, Writer

\* ig_immutable_document implements a write-once register: the destination
\* shows nothing or one payload that never changes, and once its directory entry
\* was synced no power loss takes it back.
THEOREM WritesOnce == Spec => IsWriteOnce
<1>1. Init => Register!Init
  BY DEF Init, Register!Init, Value, Exists, Names
<1>2. QED
  BY <1>1, RegisterStep, DocumentInvariant, PTL DEF Spec, IsWriteOnce, Register!Spec

-----------------------------------------------------------------------------
(* The readers: the invariant *)

\* The calls that have the file open, those after the first fstat, and those
\* after the second.
Checked == {"entry", "rewalk", "final", "accepted"}
Watching == Between \union Checked
Holds == {"fstat"} \union Watching

\* The contents of a file, and what one read and all reads of it may return.
Data == UNION {[1..n -> 0..MaxEvents] : n \in 1..2}
OneBlock == UNION {[1..n -> 0..MaxEvents] : n \in 0..1}
Bytes == UNION {[1..n -> 0..MaxEvents] : n \in 0..2}
FileStat ==
    [ino : File, mode : {"private", "shared"}, nlink : 0..1, size : 1..2,
     mtime : 0..MaxEvents, ctime : 0..MaxEvents]

\* A state of a file that was seen and that no later time stamp contradicts.
Kept(s) ==
    \/ s.ctime = node[s.ino].ctime
    \/ "times" \notin touched /\ s.mtime = node[s.ino].mtime

\* No time stamp is ahead of the clock, so the next one is new.
TimesPast ==
    /\ clock <= events
    /\ \A f \in File : node[f].mtime <= clock /\ node[f].ctime <= clock
    /\ \A d \in Directory : dir[d].stamp <= clock

\* The second file takes the place of the first, once.
OneReplacement ==
    \/ dir["real"].entry = "first" /\ dir["other"].entry = "second"
    \/ dir["real"].entry = "second" /\ dir["other"].entry = Absent

Framed(o) ==
    o = [before |-> o.before, fd |-> o.fd, pfd |-> o.pfd, opened |-> o.opened,
         above |-> o.above, raw |-> o.raw, after |-> o.after]
ObsTyped ==
    /\ Framed(obs)
    /\ pc = "second block" => obs.raw \in OneBlock
    /\ pc \in Checked =>
          /\ obs.after \in FileStat /\ obs.after.ino = obs.fd
          /\ obs.after.mtime <= clock /\ obs.after.ctime <= clock

\* What was looked at has the mode the reader demands of it.
LookedAt ==
    pc \in {"open", "fstat"} /\ p.looks =>
        /\ obs.before \in FileStat
        /\ "look" \in p.policed => Permitted(p.policy, obs.before)

\* The opened file is the one its directory named; a file that came to the
\* path by the replacement is still there.
OpenedIsNamed ==
    pc \in Holds =>
        /\ obs.fd \in File /\ obs.pfd \in Directory
        /\ obs.fd = "first" => obs.pfd = "real"
        /\ obs.fd = "second" /\ obs.pfd = "real" => dir["real"].entry = "second"
        /\ node[obs.fd].data \in held

\* What the first fstat returned, of the file and of its directory.
FstatSeen ==
    pc \in Watching =>
        /\ obs.opened \in FileStat /\ obs.opened.ino = obs.fd
        /\ obs.opened.mtime <= clock /\ obs.opened.ctime <= clock
        /\ obs.above.ino = obs.pfd /\ obs.above.stamp \in 0..clock
        /\ p.policy = "private" /\ "after" \notin p.policed =>
               Permitted("private", obs.opened)

\* The bytes read are the file's, unless its times tell otherwise.
BytesKept ==
    /\ pc = "second block" /\ Kept(obs.opened) => obs.raw = Block(obs.fd, 1)
    /\ pc = "after" /\ Kept(obs.opened) => obs.raw = node[obs.fd].data
    /\ pc \in Checked /\ p.after # "nothing" /\ ~TimesDeceive =>
           /\ obs.raw \in held
           /\ Kept(obs.after) => obs.raw = node[obs.fd].data
    /\ pc = "accepted" /\ p.final # "nothing" /\ ~TimesDeceive => obs.raw \in named

\* What went wrong between the two fstats is still to be seen, or the times
\* of the file tell of it.
BreachShows ==
    pc \in Watching =>
        /\ "private" \in broken /\ obs.opened.ctime = node[obs.fd].ctime =>
               ~Permitted("private", Stat(obs.fd))
        /\ "entry" \in broken => dir[obs.pfd].entry # obs.fd
NotBroken ==
    /\ pc \in {"look", "open", "fstat"} => broken = {}
    /\ pc \in Checked /\ p.policy = "private" => "private" \notin broken
    /\ pc \in {"rewalk", "final", "accepted"} /\ p.parent => "entry" \notin broken
    /\ pc \in {"final", "accepted"} /\ p.rewalks => obs.raw \in walked

\* As long as nobody touched the file or its path, the reader saw it as it was
\* from the start.
Pristine ==
    [ino |-> "first", mode |-> "private", nlink |-> 1, size |-> 2, mtime |-> 0, ctime |-> 0]
Untouched == touched \subseteq {"sibling"}
CalmFiles ==
    Untouched =>
        /\ node["first"] = [data |-> <<0, 0>>, mode |-> "private", mtime |-> 0, ctime |-> 0,
                            nlink |-> 1]
        /\ dir["real"].entry = "first" /\ dir["other"].entry = "second"
        /\ parent = [ino |-> "real", link |-> FALSE]
CalmReader ==
    Untouched =>
        /\ pc \in {"open", "fstat"} /\ p.looks => obs.before = Pristine
        /\ pc \in Holds => obs.fd = "first" /\ obs.pfd = "real"
        /\ pc \in Watching => obs.opened = Pristine /\ obs.above.ino = "real"
        /\ pc \in Watching /\ touched = {} => obs.above = DirStat("real")
        /\ pc = "second block" => obs.raw = <<0>>
        /\ pc = "after" => obs.raw = <<0, 0>>
        /\ pc \in Checked => obs.after = Pristine

\* The invariant, whatever the clock does, and what a clock adds that gives no
\* two changes the same time stamp.
ReadsInv ==
    /\ ReadsTypeOK /\ ObsTyped
    /\ TimesPast /\ OneReplacement
    /\ LookedAt /\ OpenedIsNamed /\ FstatSeen
    /\ CalmFiles /\ CalmReader /\ RefusedForCause
FineInv == BytesKept /\ BreachShows /\ NotBroken

-----------------------------------------------------------------------------
(* The readers: what their profiles have in common *)

\* What a profile must be for the properties to hold of its reader: whoever
\* looks at the path again compares as much as after the read; a reader that
\* demands a private file compares the change time, and checks the mode on a
\* state that it compares with the one after the read.
Sound(q) ==
    /\ q.after \in {"nothing", "short", "public", "state"}
    /\ q.opened \in {"nothing", "identity", "short", "public", "state"}
    /\ q.opened # "nothing" => q.looks
    /\ q.final \in {"nothing", q.after}
    /\ q.looks \in BOOLEAN /\ q.parent \in BOOLEAN /\ q.rewalks \in BOOLEAN
    /\ q.walks \in BOOLEAN /\ q.resolves \in BOOLEAN
    /\ q.rewalks => q.parent /\ q.after = "state"
    /\ q.policy = "private" =>
          /\ q.after = "state"
          /\ \/ "fstat" \in q.policed \/ "after" \in q.policed
             \/ "look" \in q.policed /\ q.opened = "state"

\* Every profile is one of those.
LEMMA ProfilesAreSound ==
    ASSUME NEW who \in DOMAIN Profile
    PROVE  Sound(Profile[who])
<1>1. Sound(ReleaseYaml)
    BY DEF Sound, ReleaseYaml
<1>2. Sound(AdminContract)
    BY DEF Sound, AdminContract
<1>3. Sound(Kubeconfig)
    BY DEF Sound, Kubeconfig
<1>4. Sound(RuntimeEvidence)
    BY DEF Sound, RuntimeEvidence
<1>5. Sound(HostContract)
    BY DEF Sound, HostContract, RuntimeEvidence
<1>6. Sound(HostBinding)
    BY DEF Sound, HostBinding
<1>7. Sound(PublicFile)
    BY DEF Sound, PublicFile
<1>8. Sound(Template)
    BY DEF Sound, Template
<1>. DEFINE names == {"release", "artifact", "admin", "kubeconfig", "token", "evidence",
                      "contract", "binding", "public", "template"}
<1>9. /\ DOMAIN Profile = names
      /\ Profile["release"] = ReleaseYaml /\ Profile["artifact"] = ReleaseYaml
      /\ Profile["admin"] = AdminContract /\ Profile["kubeconfig"] = Kubeconfig
      /\ Profile["token"] = Kubeconfig /\ Profile["evidence"] = RuntimeEvidence
      /\ Profile["contract"] = HostContract /\ Profile["binding"] = HostBinding
      /\ Profile["public"] = PublicFile /\ Profile["template"] = Template
    BY DEF Profile, ReviewArtifact, TunnelToken
<1>. HIDE DEF names
<1>10. who \in names
    BY <1>9
<1>. QED
    BY <1>1, <1>2, <1>3, <1>4, <1>5, <1>6, <1>7, <1>8, <1>9, <1>10 DEF names

\* What a comparison that succeeds says of the two states.
LEMMA SameSays ==
    ASSUME NEW s \in FileStat, NEW t \in FileStat, NEW view, Same(view, s, t)
    PROVE  /\ view # "nothing" /\ view \in {"identity", "short", "public", "state"} => s.ino = t.ino
           /\ view \in {"short", "public", "state"} => s.mtime = t.mtime /\ s.size = t.size
           /\ view = "state" => s.ctime = t.ctime /\ s.mode = t.mode /\ s.nlink = t.nlink
BY DEF Same, Identity, Short, Public, State

LEMMA SameAll ==
    ASSUME NEW s, NEW view \in {"nothing", "identity", "short", "public", "state"}
    PROVE  Same(view, s, s)
BY DEF Same

LEMMA StateSays ==
    ASSUME NEW s \in FileStat, NEW t \in FileStat, State(s) = State(t)
    PROVE  s = t
BY DEF State, FileStat

-----------------------------------------------------------------------------
(* The readers: the data *)

LEMMA SmallSum ==
    ASSUME NEW a, NEW b, NEW c, NEW k \in Nat, c = a + b, b \in 0..1, a \in k..1
    PROVE  c \in k..2
OBVIOUS

LEMMA FunctionIsSequence ==
    ASSUME NEW S, NEW n \in Nat, NEW d \in [1..n -> S]
    PROVE  d \in Seq(S) /\ Len(d) = n
<1>1. d \in UNION {[1..m -> S] : m \in Nat}
    OBVIOUS
<1>2. d \in Seq(S)
    BY <1>1, SeqDef, Zenon
<1>. QED
    BY <1>2, LenProperties

LEMMA PairOfBlocks ==
    ASSUME NEW S, NEW a \in S, NEW b \in S
    PROVE  <<a>> \o <<b>> = <<a, b>>
<1>1. <<a>> \in Seq(S) /\ <<b>> \in Seq(S) /\ <<a, b>> \in Seq(S)
    OBVIOUS
<1>2. /\ <<a>> \o <<b>> \in Seq(S)
      /\ Len(<<a>> \o <<b>>) = 2 /\ Len(<<a, b>>) = 2
      /\ (<<a>> \o <<b>>)[1] = a /\ (<<a>> \o <<b>>)[2] = b
    BY <1>1
<1>3. \A i \in 1..2 : (<<a>> \o <<b>>)[i] = <<a, b>>[i]
    BY <1>2
<1>. QED
    BY <1>1, <1>2, <1>3, SeqEqual

LEMMA DataForm ==
    ASSUME NEW d \in Data
    PROVE  /\ d \in Seq(0..MaxEvents)
           /\ Len(d) \in 1..2
           /\ Len(d) = 1 => d = <<d[1]>>
           /\ Len(d) = 2 => d = <<d[1], d[2]>>
           /\ d[1] \in 0..MaxEvents /\ (Len(d) = 2 => d[2] \in 0..MaxEvents)
<1>1. PICK n \in 1..2 : d \in [1..n -> 0..MaxEvents]
    BY DEF Data
<1>2. n \in Nat
    OBVIOUS
<1>3. d \in Seq(0..MaxEvents) /\ Len(d) = n
    BY <1>1, <1>2, FunctionIsSequence, Zenon
<1>. QED
    BY <1>1, <1>3

LEMMA DataMade ==
    ASSUME NEW a \in 0..MaxEvents, NEW b \in 0..MaxEvents
    PROVE  <<a>> \in Data /\ <<a, b>> \in Data
BY ReadsAssumption DEF Data

\* What is read of a file that nobody changes is its contents.
LEMMA BlocksMakeData ==
    ASSUME NEW f \in File, node[f].data \in Data
    PROVE  /\ Block(f, 1) = <<node[f].data[1]>>
           /\ Block(f, 1) \o Block(f, 2) = node[f].data
<1>. DEFINE d == node[f].data
<1>1. /\ d \in Seq(0..MaxEvents) /\ Len(d) \in 1..2
      /\ Len(d) = 1 => d = <<d[1]>>
      /\ Len(d) = 2 => d = <<d[1], d[2]>>
      /\ d[1] \in 0..MaxEvents /\ (Len(d) = 2 => d[2] \in 0..MaxEvents)
    BY DataForm
<1>2. Block(f, 1) = <<d[1]>>
    BY <1>1 DEF Block
<1>3. CASE Len(d) = 1
    <2>1. Block(f, 2) = <<>>
        BY <1>3 DEF Block
    <2>2. <<d[1]>> \o <<>> = <<d[1]>>
        BY <1>1, ConcatEmptySeq
    <2>. QED
        BY <1>1, <1>2, <1>3, <2>1, <2>2
<1>4. CASE Len(d) = 2
    <2>1. Block(f, 2) = <<d[2]>>
        BY <1>4 DEF Block
    <2>2. <<d[1]>> \o <<d[2]>> = <<d[1], d[2]>>
        BY <1>1, <1>4, PairOfBlocks
    <2>. QED
        BY <1>1, <1>2, <1>4, <2>1, <2>2
<1>. QED
    BY <1>1, <1>3, <1>4

\* One read, of a file that is of any contents, adds at most one block.
LEMMA BlockTyped ==
    ASSUME NEW f \in File, node[f].data \in Data, NEW i \in 1..2
    PROVE  Block(f, i) \in OneBlock
<1>. DEFINE d == node[f].data
            b == Block(f, i)
<1>1. /\ d \in Seq(0..MaxEvents) /\ Len(d) \in 1..2
      /\ d[1] \in 0..MaxEvents /\ (Len(d) = 2 => d[2] \in 0..MaxEvents)
    BY DataForm
<1>2. b \in Seq(0..MaxEvents) /\ Len(b) \in 0..1
    <2>1. CASE i <= Len(d)
        <3>1. b = <<d[i]>> /\ d[i] \in 0..MaxEvents
            BY <1>1, <2>1 DEF Block
        <3>. QED
            BY <3>1
    <2>2. CASE ~(i <= Len(d))
        <3>1. b = <<>>
            BY <2>2 DEF Block
        <3>. QED
            BY <3>1
    <2>. QED
        BY <2>1, <2>2
<1>. HIDE DEF b
<1>3. b \in [1..Len(b) -> 0..MaxEvents]
    BY <1>2, LenProperties
<1>4. b \in OneBlock
    BY <1>2, <1>3 DEF OneBlock
<1>. QED
    BY <1>4 DEF b

LEMMA OneBlockIsSequence ==
    ASSUME NEW r \in OneBlock
    PROVE  r \in Seq(0..MaxEvents) /\ Len(r) \in 0..1
<1>1. PICK n \in 0..1 : r \in [1..n -> 0..MaxEvents]
    BY DEF OneBlock
<1>2. n \in Nat
    OBVIOUS
<1>3. r \in Seq(0..MaxEvents) /\ Len(r) = n
    BY <1>1, <1>2, FunctionIsSequence, Zenon
<1>. QED
    BY <1>1, <1>3

LEMMA TwoBlocksTyped ==
    ASSUME NEW r \in OneBlock, NEW b \in OneBlock
    PROVE  r \in Bytes /\ r \o b \in Bytes
<1>1. /\ r \in Seq(0..MaxEvents) /\ Len(r) \in 0..1
      /\ b \in Seq(0..MaxEvents) /\ Len(b) \in 0..1
    BY OneBlockIsSequence
<1>2. r \o b \in Seq(0..MaxEvents) /\ Len(r \o b) = Len(r) + Len(b)
    BY <1>1, ConcatProperties
<1>3. Len(r \o b) \in 0..2
    BY <1>1, <1>2, SmallSum, Zenon
<1>4. r \in [1..Len(r) -> 0..MaxEvents] /\ r \o b \in [1..Len(r \o b) -> 0..MaxEvents]
    BY <1>1, <1>2, LenProperties
<1>5. Len(r) \in 0..2
    BY <1>1
<1>. QED
    BY <1>3, <1>4, <1>5 DEF Bytes

\* What a rewrite of one block makes of the contents.
LEMMA RewriteMakesData ==
    ASSUME NEW d \in Data, NEW v \in 0..MaxEvents
    PROVE  (IF d[1] = d[Len(d)] THEN <<v>> \o Tail(d) ELSE Whole(d[1])) \in Data
<1>. DEFINE S == 0..MaxEvents
<1>1. /\ d \in Seq(S) /\ Len(d) \in 1..2 /\ d[1] \in S
      /\ Len(d) = 2 => d[2] \in S
    BY DataForm
<1>2. Whole(d[1]) \in Data
    BY <1>1, DataMade DEF Whole
<1>3. <<v>> \o Tail(d) \in Data
    <2>1. <<v>> \in Seq(S) /\ Len(<<v>>) \in 1..1
        OBVIOUS
    <2>2. Tail(d) \in Seq(S) /\ Len(Tail(d)) \in 0..1
        BY <1>1, HeadTailProperties
    <2>. DEFINE w == <<v>> \o Tail(d)
    <2>3. w \in Seq(S) /\ Len(w) = Len(<<v>>) + Len(Tail(d))
        BY <2>1, <2>2, ConcatProperties
    <2>. HIDE DEF w
    <2>4. w \in [1..Len(w) -> S]
        BY <2>3, LenProperties
    <2>5. Len(w) \in 1..2
        BY <2>1, <2>2, <2>3, SmallSum, Zenon
    <2>6. w \in Data
        BY <2>4, <2>5 DEF Data
    <2>. QED
        BY <2>6 DEF w
<1>. QED
    BY <1>2, <1>3

-----------------------------------------------------------------------------
(* The readers: what others do to the file, its directory and its path *)

NodeRecord ==
    [data : Data, mode : {"private", "shared"}, mtime : 0..MaxEvents, ctime : 0..MaxEvents,
     nlink : 0..1]
Directories == [Directory -> [entry : File \union {Absent}, stamp : 0..MaxEvents]]
FilesTyped == node \in [File -> NodeRecord] /\ dir \in Directories /\ parent \in [ino : Directory, link : BOOLEAN]

\* One change to a file: it is stamped, with both times where the contents
\* changed; a modification time that is not new was set back.
FileChanged(f) ==
    \/ node'[f] = node[f]
    \/ /\ node'[f].ctime = clock'
       /\ \/ node'[f].mtime = clock'
          \/ /\ node'[f].data = node[f].data
             /\ node'[f].mtime = node[f].mtime \/ (node'[f].mtime = 0 /\ "times" \in touched')
EntriesKept == \A d \in Directory : dir'[d].entry = dir[d].entry
EntriesReplaced ==
    /\ dir["real"].entry = "first" /\ dir["other"].entry = "second"
    /\ dir'["real"].entry = "second" /\ dir'["other"].entry = Absent
Touching ==
    \E w \in {"content", "times", "mode", "path", "sibling"} :
        /\ touched' = touched \union {w}
        /\ w = "sibling" => node' = node /\ parent' = parent /\ EntriesKept
Change ==
    /\ Running /\ UNCHANGED reads
    /\ events' = events + 1 /\ events' \in 0..MaxEvents
    /\ clock' \in {clock, clock + 1} /\ (FineClock => clock' = clock + 1)
    /\ FilesTyped'
    /\ \A f \in File : FileChanged(f)
    /\ \A d \in Directory : dir'[d] = dir[d] \/ dir'[d].stamp = clock'
    /\ EntriesKept \/ EntriesReplaced
    /\ Touching

\* What all of them have in common.
LEMMA EventDoes ==
    ASSUME ReadsTypeOK, TimesPast, NEW w, Event(w)
    PROVE  /\ Running /\ UNCHANGED reads
           /\ events' = events + 1 /\ events' \in 0..MaxEvents
           /\ clock' \in {clock, clock + 1} /\ (FineClock => clock' = clock + 1)
           /\ clock' \in 0..MaxEvents
           /\ touched' = touched \union {w}
<1>1. events \in 0..MaxEvents /\ clock \in 0..MaxEvents /\ clock <= events
    BY DEF ReadsTypeOK, TimesPast
<1>2. /\ Running /\ UNCHANGED reads /\ touched' = touched \union {w}
      /\ events < MaxEvents /\ events' = events + 1
      /\ clock' \in IF FineClock THEN {clock + 1} ELSE {clock, clock + 1}
    BY DEF Event
<1>. QED
    BY <1>1, <1>2, ReadsAssumption

LEMMA TypedFiles ==
    ASSUME ReadsTypeOK
    PROVE  FilesTyped
BY DEF ReadsTypeOK, FilesTyped, NodeRecord, Data, Directories

\* A change to one file and nothing else.
LEMMA OneFileChanges ==
    ASSUME ReadsTypeOK, TimesPast, NEW f \in File, NEW w \in {"content", "times", "mode"}, Event(w),
           NEW n \in NodeRecord, node' = [g \in File |-> IF g = f THEN n ELSE node[g]],
           UNCHANGED <<dir, parent>>,
           n.ctime = clock',
           \/ n.mtime = clock'
           \/ n.data = node[f].data /\ (n.mtime = node[f].mtime \/ (n.mtime = 0 /\ w = "times"))
    PROVE  Change
<1>1. /\ Running /\ UNCHANGED reads
      /\ events' = events + 1 /\ events' \in 0..MaxEvents
      /\ clock' \in {clock, clock + 1} /\ (FineClock => clock' = clock + 1)
      /\ touched' = touched \union {w}
    BY EventDoes
<1>2. FilesTyped
    BY TypedFiles
<1>3. FilesTyped'
    BY <1>2 DEF FilesTyped
<1>4. node'[f] = n /\ \A g \in File \ {f} : node'[g] = node[g]
    BY <1>2 DEF FilesTyped
<1>5. \A g \in File : FileChanged(g)
    <2>1. FileChanged(f)
        BY <1>1, <1>4 DEF FileChanged
    <2>2. \A g \in File \ {f} : FileChanged(g)
        BY <1>4 DEF FileChanged
    <2>. QED
        BY <2>1, <2>2
<1>6. dir' = dir /\ parent' = parent
    OBVIOUS
<1>7. Touching
    <2>1. w \in {"content", "times", "mode", "path", "sibling"} /\ w # "sibling"
        OBVIOUS
    <2>. QED
        BY <1>1, <2>1 DEF Touching
<1>. QED
    BY <1>1, <1>3, <1>5, <1>6, <1>7 DEF Change, EntriesKept

LEMMA RewriteChanges ==
    ASSUME ReadsTypeOK, TimesPast, NEW f \in File, Rewrite(f)
    PROVE  Change
<1>. DEFINE d == node[f].data
            v == IF d[1] = d[Len(d)] THEN <<events + 1>> \o Tail(d) ELSE Whole(d[1])
            n == [data |-> v, mode |-> node[f].mode, mtime |-> clock', ctime |-> clock',
                  nlink |-> node[f].nlink]
<1>1. Event("content")
    BY DEF Rewrite
<1>2. events + 1 \in 0..MaxEvents /\ clock' \in 0..MaxEvents
    BY <1>1, EventDoes
<1>3. node[f] \in NodeRecord /\ node \in [File -> NodeRecord]
    BY TypedFiles DEF FilesTyped
<1>4. v \in Data
    <2>1. d \in Data
        BY <1>3 DEF NodeRecord
    <2>. QED
        BY <1>2, <2>1, RewriteMakesData
<1>5. node' = [g \in File |-> IF g = f THEN n ELSE node[g]] /\ UNCHANGED <<dir, parent>>
    <2>1. /\ node' = [node EXCEPT ![f].data = v, ![f].mtime = clock', ![f].ctime = clock']
          /\ UNCHANGED <<dir, parent>>
        BY DEF Rewrite
    <2>. HIDE DEF v
    <2>2. node'[f] = n
        BY <1>3, <2>1 DEF NodeRecord
    <2>3. node' = [g \in File |-> IF g = f THEN node'[f] ELSE node[g]]
        BY <1>3, <2>1 DEF NodeRecord
    <2>. QED
        BY <2>1, <2>2, <2>3, Zenon
<1>6. n \in NodeRecord /\ n.ctime = clock' /\ n.mtime = clock'
    <2>. HIDE DEF v
    <2>. QED
        BY <1>2, <1>3, <1>4 DEF NodeRecord
<1>. HIDE DEF n
<1>. QED
    BY <1>1, <1>5, <1>6, OneFileChanges

LEMMA ShortenChanges ==
    ASSUME ReadsTypeOK, TimesPast, NEW f \in File, Shorten(f)
    PROVE  Change
<1>. DEFINE n == [data |-> <<events + 1>>, mode |-> node[f].mode, mtime |-> clock',
                  ctime |-> clock', nlink |-> node[f].nlink]
<1>1. Event("content")
    BY DEF Shorten
<1>2. events + 1 \in 0..MaxEvents /\ clock' \in 0..MaxEvents
    BY <1>1, EventDoes
<1>3. node[f] \in NodeRecord /\ node \in [File -> NodeRecord]
    BY TypedFiles DEF FilesTyped
<1>4. <<events + 1>> \in Data
    BY <1>2, DataMade
<1>5. node' = [g \in File |-> IF g = f THEN n ELSE node[g]] /\ UNCHANGED <<dir, parent>>
    <2>1. node'[f] = n
        BY <1>3 DEF NodeRecord, Shorten
    <2>2. node' = [g \in File |-> IF g = f THEN node'[f] ELSE node[g]]
        BY <1>3 DEF NodeRecord, Shorten
    <2>3. UNCHANGED <<dir, parent>>
        BY DEF Shorten
    <2>. QED
        BY <2>1, <2>2, <2>3, Zenon
<1>6. n \in NodeRecord /\ n.ctime = clock' /\ n.mtime = clock'
    BY <1>2, <1>3, <1>4 DEF NodeRecord
<1>. HIDE DEF n
<1>. QED
    BY <1>1, <1>5, <1>6, OneFileChanges

LEMMA RestoreTimeChanges ==
    ASSUME ReadsTypeOK, TimesPast, NEW f \in File, RestoreTime(f)
    PROVE  Change
<1>. DEFINE n == [data |-> node[f].data, mode |-> node[f].mode, mtime |-> 0,
                  ctime |-> clock', nlink |-> node[f].nlink]
<1>1. Event("times")
    BY DEF RestoreTime
<1>2. clock' \in 0..MaxEvents /\ 0 \in 0..MaxEvents
    <2>1. clock' \in 0..MaxEvents
        BY <1>1, EventDoes
    <2>. QED
        BY <2>1, ReadsAssumption
<1>3. node[f] \in NodeRecord /\ node \in [File -> NodeRecord]
    BY TypedFiles DEF FilesTyped
<1>4. node' = [g \in File |-> IF g = f THEN n ELSE node[g]] /\ UNCHANGED <<dir, parent>>
    <2>1. node'[f] = n
        BY <1>3 DEF NodeRecord, RestoreTime
    <2>2. node' = [g \in File |-> IF g = f THEN node'[f] ELSE node[g]]
        BY <1>3 DEF NodeRecord, RestoreTime
    <2>3. UNCHANGED <<dir, parent>>
        BY DEF RestoreTime
    <2>. QED
        BY <2>1, <2>2, <2>3, Zenon
<1>5. n \in NodeRecord /\ n.ctime = clock' /\ n.data = node[f].data /\ n.mtime = 0
    BY <1>2, <1>3 DEF NodeRecord
<1>. HIDE DEF n
<1>. QED
    BY <1>1, <1>4, <1>5, OneFileChanges

LEMMA ChangeModeChanges ==
    ASSUME ReadsTypeOK, TimesPast, NEW f \in File, ChangeMode(f)
    PROVE  Change
<1>. DEFINE m == IF node[f].mode = "private" THEN "shared" ELSE "private"
            n == [data |-> node[f].data, mode |-> m, mtime |-> node[f].mtime,
                  ctime |-> clock', nlink |-> node[f].nlink]
<1>1. Event("mode")
    BY DEF ChangeMode
<1>2. clock' \in 0..MaxEvents
    BY <1>1, EventDoes
<1>3. node[f] \in NodeRecord /\ node \in [File -> NodeRecord]
    BY TypedFiles DEF FilesTyped
<1>4. node' = [g \in File |-> IF g = f THEN n ELSE node[g]] /\ UNCHANGED <<dir, parent>>
    <2>1. node'[f] = n
        BY <1>3 DEF NodeRecord, ChangeMode
    <2>2. node' = [g \in File |-> IF g = f THEN node'[f] ELSE node[g]]
        BY <1>3 DEF NodeRecord, ChangeMode
    <2>3. UNCHANGED <<dir, parent>>
        BY DEF ChangeMode
    <2>. QED
        BY <2>1, <2>2, <2>3, Zenon
<1>5. n \in NodeRecord /\ n.ctime = clock' /\ n.data = node[f].data /\ n.mtime = node[f].mtime
    BY <1>2, <1>3 DEF NodeRecord
<1>. HIDE DEF n, m
<1>. QED
    BY <1>1, <1>4, <1>5, OneFileChanges

LEMMA ReplaceChanges ==
    ASSUME ReadsTypeOK, TimesPast, Replace
    PROVE  Change
<1>1. Event("path")
    BY DEF Replace
<1>2. /\ Running /\ UNCHANGED reads
      /\ events' = events + 1 /\ events' \in 0..MaxEvents
      /\ clock' \in {clock, clock + 1} /\ (FineClock => clock' = clock + 1)
      /\ clock' \in 0..MaxEvents
      /\ touched' = touched \union {"path"}
    BY <1>1, EventDoes
<1>3. /\ node \in [File -> NodeRecord] /\ dir \in Directories /\ parent \in [ino : Directory, link : BOOLEAN]
      /\ node["first"] \in NodeRecord /\ node["second"] \in NodeRecord
    BY TypedFiles DEF FilesTyped, File
<1>. DEFINE first == [data |-> node["first"].data, mode |-> node["first"].mode,
                      mtime |-> node["first"].mtime, ctime |-> clock', nlink |-> 0]
            second == [data |-> node["second"].data, mode |-> node["second"].mode,
                       mtime |-> node["second"].mtime, ctime |-> clock',
                       nlink |-> node["second"].nlink]
<1>4. node'["first"] = first /\ node'["second"] = second
    BY <1>3 DEF NodeRecord, File, Replace
<1>5. first \in NodeRecord /\ second \in NodeRecord
    BY <1>2, <1>3 DEF NodeRecord
<1>6. node' \in [File -> NodeRecord] /\ node'["first"] = first /\ node'["second"] = second
    <2>1. node' = [g \in File |-> IF g = "first" THEN node'["first"] ELSE node'["second"]]
        BY <1>3 DEF File, Replace
    <2>. HIDE DEF first, second
    <2>. QED
        BY <1>4, <1>5, <2>1 DEF File
<1>7. \A f \in File : FileChanged(f)
    BY <1>6 DEF FileChanged, File
<1>8. /\ dir["real"].entry = "first" /\ dir["other"].entry = "second"
      /\ dir' = [dir EXCEPT !["real"] = [entry |-> "second", stamp |-> clock'],
                            !["other"] = [entry |-> Absent, stamp |-> clock']]
      /\ parent' = parent
    BY DEF Replace
<1>9. /\ dir' \in Directories
      /\ dir'["real"] = [entry |-> "second", stamp |-> clock']
      /\ dir'["other"] = [entry |-> Absent, stamp |-> clock']
    BY <1>2, <1>3, <1>8 DEF Directories, Directory, File
<1>10. \A d \in Directory : dir'[d].stamp = clock'
    BY <1>9 DEF Directory
<1>11. EntriesReplaced
    BY <1>8, <1>9 DEF EntriesReplaced
<1>12. Touching
    BY <1>2 DEF Touching
<1>13. FilesTyped'
    BY <1>3, <1>6, <1>8, <1>9 DEF FilesTyped
<1>. QED
    BY <1>2, <1>7, <1>10, <1>11, <1>12, <1>13 DEF Change

\* The path is led elsewhere, whether that stamps the directories or not.
LEMMA RerouteChanges ==
    ASSUME ReadsTypeOK, TimesPast, Reroute, dir' \in Directories, EntriesKept,
           \A d \in Directory : dir'[d] = dir[d] \/ dir'[d].stamp = clock'
    PROVE  Change
<1>1. Event("path")
    BY DEF Reroute
<1>2. /\ Running /\ UNCHANGED reads
      /\ events' = events + 1 /\ events' \in 0..MaxEvents
      /\ clock' \in {clock, clock + 1} /\ (FineClock => clock' = clock + 1)
      /\ touched' = touched \union {"path"}
    BY <1>1, EventDoes
<1>3. FilesTyped
    BY TypedFiles
<1>4. node' = node /\ parent' \in [ino : Directory, link : BOOLEAN]
    BY DEF Reroute
<1>5. FilesTyped'
    BY <1>3, <1>4 DEF FilesTyped
<1>6. Touching
    BY <1>2 DEF Touching
<1>7. \A f \in File : FileChanged(f)
    BY <1>4 DEF FileChanged
<1>. QED
    BY <1>2, <1>5, <1>6, <1>7 DEF Change

LEMMA MoveParentChanges ==
    ASSUME ReadsTypeOK, TimesPast, MoveParent
    PROVE  Change
<1>1. /\ Reroute /\ Event("path")
      /\ dir' = [d \in Directory |-> [dir[d] EXCEPT !.stamp = clock']]
    BY DEF MoveParent, Reroute
<1>2. clock' \in 0..MaxEvents
    BY <1>1, EventDoes
<1>3. FilesTyped
    BY TypedFiles
<1>4. /\ dir' \in Directories
      /\ \A d \in Directory : dir'[d].entry = dir[d].entry /\ dir'[d].stamp = clock'
    BY <1>1, <1>2, <1>3 DEF FilesTyped, Directories
<1>. QED
    BY <1>1, <1>4, RerouteChanges DEF EntriesKept

LEMMA MoveAncestorChanges ==
    ASSUME ReadsTypeOK, TimesPast, MoveAncestor
    PROVE  Change
<1>1. Reroute /\ dir' = dir
    BY DEF MoveAncestor
<1>2. FilesTyped
    BY TypedFiles
<1>. QED
    BY <1>1, <1>2, RerouteChanges DEF FilesTyped, EntriesKept

LEMMA SiblingChanges ==
    ASSUME ReadsTypeOK, TimesPast, Sibling
    PROVE  Change
<1>1. Event("sibling")
    BY DEF Sibling
<1>2. /\ Running /\ UNCHANGED reads
      /\ events' = events + 1 /\ events' \in 0..MaxEvents
      /\ clock' \in {clock, clock + 1} /\ (FineClock => clock' = clock + 1)
      /\ clock' \in 0..MaxEvents
      /\ touched' = touched \union {"sibling"}
    BY <1>1, EventDoes
<1>3. FilesTyped
    BY TypedFiles
<1>4. /\ node' = node /\ parent' = parent
      /\ dir' = [dir EXCEPT !["real"].stamp = clock']
    BY DEF Sibling
<1>5. /\ dir' \in Directories
      /\ \A d \in Directory : dir'[d].entry = dir[d].entry
      /\ dir'["real"].stamp = clock' /\ dir'["other"] = dir["other"]
    BY <1>2, <1>3, <1>4 DEF FilesTyped, Directories, Directory
<1>6. FilesTyped'
    BY <1>3, <1>4, <1>5 DEF FilesTyped
<1>7. EntriesKept
    BY <1>5 DEF EntriesKept
<1>8. Touching
    BY <1>2, <1>4, <1>7 DEF Touching
<1>9. \A f \in File : FileChanged(f)
    BY <1>4 DEF FileChanged
<1>10. \A d \in Directory : dir'[d] = dir[d] \/ dir'[d].stamp = clock'
    BY <1>5 DEF Directory
<1>. QED
    BY <1>2, <1>4, <1>6, <1>7, <1>8, <1>9, <1>10 DEF Change

\* Whatever others do is such a change.
LEMMA OthersChange ==
    ASSUME ReadsTypeOK, TimesPast, Others
    PROVE  Change
BY RewriteChanges, ShortenChanges, RestoreTimeChanges, ChangeModeChanges, ReplaceChanges,
   MoveParentChanges, MoveAncestorChanges, SiblingChanges DEF Others

-----------------------------------------------------------------------------
(* The readers: changes by others keep the invariant *)

LEMMA EntryTyped ==
    ASSUME FilesTyped
    PROVE  Entry \in File \union {Absent} /\ parent.ino \in Directory
BY DEF FilesTyped, Directories, Entry

LEMMA ChangeKeepsTypes ==
    ASSUME ReadsInv, Change, Observed
    PROVE  ReadsTypeOK' /\ ObsTyped' /\ TimesPast' /\ OneReplacement'
<1>1. /\ ReadsTypeOK /\ FilesTyped /\ ObsTyped /\ TimesPast /\ OneReplacement
    BY TypedFiles DEF ReadsInv
<1>2. /\ reader' = reader /\ pc' = pc /\ obs' = obs /\ FilesTyped'
      /\ events' = events + 1 /\ events' \in 0..MaxEvents
      /\ clock' \in {clock, clock + 1}
    BY DEF Change, reads
<1>3. clock \in 0..MaxEvents /\ events \in 0..MaxEvents /\ clock <= events
    BY <1>1 DEF ReadsTypeOK, TimesPast
<1>4. clock' \in 0..MaxEvents /\ clock' <= events' /\ clock <= clock'
    BY <1>2, <1>3, ReadsAssumption
<1>5. touched' \subseteq {"content", "times", "mode", "path", "sibling"}
    BY <1>1 DEF Change, Touching, ReadsTypeOK
<1>6. ReadsTypeOK'
    <2>1. /\ reader' \in Readers
          /\ pc' \in {"look", "open", "fstat", "first block", "second block", "after", "entry",
                      "rewalk", "final", "accepted", "refused"}
          /\ obs'.raw \in UNION {[1..n -> 0..MaxEvents] : n \in 0..2}
        BY <1>1, <1>2 DEF ReadsTypeOK
    <2>. QED
        BY <1>2, <1>4, <1>5, <2>1 DEF ReadsTypeOK, FilesTyped, NodeRecord, Data, Directories
<1>7. ObsTyped'
    <2>1. pc \in Checked => obs.after.mtime <= clock' /\ obs.after.ctime <= clock'
        <3>1. SUFFICES ASSUME pc \in Checked
                       PROVE  obs.after.mtime <= clock' /\ obs.after.ctime <= clock'
            OBVIOUS
        <3>2. /\ obs.after.mtime \in 0..MaxEvents /\ obs.after.ctime \in 0..MaxEvents
              /\ obs.after.mtime <= clock /\ obs.after.ctime <= clock
            BY <1>1, <3>1 DEF ObsTyped, FileStat
        <3>. QED
            BY <1>3, <1>4, <3>2
    <2>. QED
        BY <1>1, <1>2, <2>1 DEF ObsTyped
<1>8. TimesPast'
    <2>1. ASSUME NEW f \in File
          PROVE  node'[f].mtime <= clock' /\ node'[f].ctime <= clock'
        <3>1. /\ node[f].mtime \in 0..MaxEvents /\ node[f].ctime \in 0..MaxEvents
              /\ node[f].mtime <= clock /\ node[f].ctime <= clock
            BY <1>1 DEF FilesTyped, NodeRecord, TimesPast
        <3>2. \/ node'[f] = node[f]
              \/ /\ node'[f].ctime = clock'
                 /\ \/ node'[f].mtime = clock'
                    \/ node'[f].mtime = node[f].mtime
                    \/ node'[f].mtime = 0
            BY DEF Change, FileChanged
        <3>. QED
            BY <1>3, <1>4, <3>1, <3>2
    <2>2. ASSUME NEW d \in Directory
          PROVE  dir'[d].stamp <= clock'
        <3>1. dir[d].stamp \in 0..MaxEvents /\ dir[d].stamp <= clock
            BY <1>1 DEF FilesTyped, Directories, TimesPast
        <3>2. dir'[d] = dir[d] \/ dir'[d].stamp = clock'
            BY DEF Change
        <3>. QED
            BY <1>3, <1>4, <3>1, <3>2
    <2>. QED
        BY <1>4, <2>1, <2>2 DEF TimesPast
<1>9. OneReplacement'
    <2>1. EntriesKept \/ EntriesReplaced
        BY DEF Change
    <2>. QED
        BY <1>1, <2>1 DEF OneReplacement, EntriesKept, EntriesReplaced, Directory
<1>. QED
    BY <1>6, <1>7, <1>8, <1>9

LEMMA ChangeKeepsReader ==
    ASSUME ReadsInv, Change, Observed
    PROVE  LookedAt' /\ OpenedIsNamed' /\ FstatSeen'
<1>1. /\ ReadsTypeOK /\ FilesTyped /\ OneReplacement /\ LookedAt /\ OpenedIsNamed /\ FstatSeen
      /\ TimesPast
    BY TypedFiles DEF ReadsInv
<1>2. /\ reader' = reader /\ pc' = pc /\ obs' = obs
      /\ clock' \in {clock, clock + 1}
      /\ EntriesKept \/ EntriesReplaced
    BY DEF Change, reads
<1>3. p' = p
    BY <1>2 DEF p
<1>4. LookedAt'
    BY <1>1, <1>2, <1>3 DEF LookedAt
<1>5. OpenedIsNamed'
    <2>1. SUFFICES ASSUME pc \in Holds
                   PROVE  /\ obs.fd = "second" /\ obs.pfd = "real" =>
                                dir'["real"].entry = "second"
                          /\ node'[obs.fd].data \in held'
        BY <1>1, <1>2 DEF OpenedIsNamed
    <2>2. obs.fd = "second" /\ obs.pfd = "real" => dir'["real"].entry = "second"
        BY <1>1, <1>2, <2>1 DEF OpenedIsNamed, EntriesKept, EntriesReplaced, Directory
    <2>3. node'[obs.fd].data \in held'
        <3>1. obs'.fd \in File
            BY <1>1, <1>2, <2>1 DEF OpenedIsNamed
        <3>. QED
            BY <1>2, <3>1 DEF Observed
    <2>. QED
        BY <2>2, <2>3
<1>6. FstatSeen'
    <2>1. SUFFICES ASSUME pc \in Watching
                   PROVE  /\ obs.opened.mtime <= clock' /\ obs.opened.ctime <= clock'
                          /\ obs.above.stamp \in 0..clock'
        BY <1>1, <1>2, <1>3 DEF FstatSeen
    <2>2. /\ obs.opened.mtime \in 0..MaxEvents /\ obs.opened.ctime \in 0..MaxEvents
          /\ obs.opened.mtime <= clock /\ obs.opened.ctime <= clock
          /\ obs.above.stamp \in 0..clock
        BY <1>1, <2>1 DEF FstatSeen, FileStat
    <2>3. clock \in 0..MaxEvents
        BY <1>1 DEF ReadsTypeOK
    <2>. QED
        BY <1>2, <2>2, <2>3
<1>. QED
    BY <1>4, <1>5, <1>6

LEMMA ChangeKeepsCalm ==
    ASSUME ReadsInv, Change, Observed
    PROVE  CalmFiles' /\ CalmReader' /\ RefusedForCause'
<1>1. /\ FilesTyped /\ CalmFiles /\ CalmReader
    BY TypedFiles DEF ReadsInv
<1>2. /\ reader' = reader /\ pc' = pc /\ obs' = obs /\ Running
    BY DEF Change, reads
<1>3. p' = p
    BY <1>2 DEF p
<1>4. PICK w \in {"content", "times", "mode", "path", "sibling"} :
          /\ touched' = touched \union {w}
          /\ w = "sibling" => node' = node /\ parent' = parent /\ EntriesKept
    BY DEF Change, Touching
<1>5. RefusedForCause'
    BY <1>2 DEF RefusedForCause, Running
<1>6. CASE w # "sibling"
    <2>1. ~Untouched'
        BY <1>4, <1>6 DEF Untouched
    <2>. QED
        BY <1>5, <2>1 DEF CalmFiles, CalmReader
<1>7. CASE w = "sibling"
    <2>1. node' = node /\ parent' = parent /\ EntriesKept /\ touched' # {}
        BY <1>4, <1>7
    <2>2. Untouched' => Untouched
        BY <1>4 DEF Untouched
    <2>3. CalmFiles'
        BY <1>1, <2>1, <2>2 DEF CalmFiles, EntriesKept, Directory
    <2>4. CalmReader'
        BY <1>1, <1>2, <1>3, <2>1, <2>2 DEF CalmReader
    <2>. QED
        BY <1>5, <2>3, <2>4
<1>. QED
    BY <1>6, <1>7

LEMMA ChangeKeepsReadsInv ==
    ASSUME ReadsInv, Change, Observed
    PROVE  ReadsInv'
BY ChangeKeepsTypes, ChangeKeepsReader, ChangeKeepsCalm DEF ReadsInv

-----------------------------------------------------------------------------
(* The readers: what a new time stamp for every change adds *)

\* A state that the times of a file still agree with is the one it was in.
LEMMA KeptStays ==
    ASSUME ReadsInv, Change, FineClock,
           NEW s \in FileStat, s.mtime <= clock, s.ctime <= clock,
           \/ s.ctime = node'[s.ino].ctime
           \/ "times" \notin touched' /\ s.mtime = node'[s.ino].mtime
    PROVE  /\ Kept(s) /\ node'[s.ino].data = node[s.ino].data
           /\ s.ctime = node'[s.ino].ctime => node'[s.ino] = node[s.ino]
<1>. DEFINE f == s.ino
<1>1. f \in File /\ s.mtime \in 0..MaxEvents /\ s.ctime \in 0..MaxEvents
    BY DEF FileStat
<1>2. clock \in 0..MaxEvents
    BY DEF ReadsInv, ReadsTypeOK
<1>3. clock' = clock + 1 /\ touched \subseteq touched' /\ FileChanged(f)
    BY <1>1 DEF Change, Touching
<1>4. s.ctime # clock' /\ s.mtime # clock'
    BY <1>1, <1>2, <1>3
<1>5. \/ s.ctime = node'[f].ctime
      \/ "times" \notin touched' /\ s.mtime = node'[f].mtime
    BY DEF Kept
<1>6. CASE node'[f] = node[f]
    BY <1>3, <1>5, <1>6 DEF Kept
<1>7. CASE /\ node'[f].ctime = clock'
           /\ \/ node'[f].mtime = clock'
              \/ /\ node'[f].data = node[f].data
                 /\ node'[f].mtime = node[f].mtime \/ (node'[f].mtime = 0 /\ "times" \in touched')
    <2>1. /\ "times" \notin touched' /\ s.mtime = node'[f].mtime
          /\ s.ctime # node'[f].ctime
        BY <1>4, <1>5, <1>7
    <2>2. node'[f].data = node[f].data /\ node'[f].mtime = node[f].mtime
        BY <1>4, <1>7, <2>1
    <2>. QED
        BY <1>3, <2>1, <2>2 DEF Kept
<1>. QED
    BY <1>3, <1>6, <1>7 DEF FileChanged

LEMMA ChangeKeepsBytes ==
    ASSUME ReadsInv, FineInv, FineClock, Change, Observed
    PROVE  BytesKept'
<1>1. /\ FilesTyped /\ ObsTyped /\ OpenedIsNamed /\ FstatSeen /\ BytesKept
    BY TypedFiles DEF ReadsInv, FineInv
<1>2. reader' = reader /\ pc' = pc /\ obs' = obs /\ Running
    BY DEF Change, reads
<1>3. p' = p /\ (TimesDeceive => TimesDeceive')
    BY <1>2 DEF p, TimesDeceive, Change, Touching
<1>4. pc # "accepted"
    BY <1>2 DEF Running
<1>5. pc \in Watching /\ Kept(obs.opened)' =>
          Kept(obs.opened) /\ node'[obs.fd].data = node[obs.fd].data
    <2>1. SUFFICES ASSUME pc \in Watching, Kept(obs.opened)'
                   PROVE  Kept(obs.opened) /\ node'[obs.fd].data = node[obs.fd].data
        OBVIOUS
    <2>2. /\ obs.opened \in FileStat /\ obs.opened.ino = obs.fd
          /\ obs.opened.mtime <= clock /\ obs.opened.ctime <= clock
        BY <1>1, <2>1 DEF FstatSeen
    <2>3. \/ obs.opened.ctime = node'[obs.opened.ino].ctime
          \/ "times" \notin touched' /\ obs.opened.mtime = node'[obs.opened.ino].mtime
        BY <1>2, <2>1 DEF Kept
    <2>. QED
        BY <2>2, <2>3, KeptStays
<1>6. pc \in Checked /\ Kept(obs.after)' =>
          Kept(obs.after) /\ node'[obs.fd].data = node[obs.fd].data
    <2>1. SUFFICES ASSUME pc \in Checked, Kept(obs.after)'
                   PROVE  Kept(obs.after) /\ node'[obs.fd].data = node[obs.fd].data
        OBVIOUS
    <2>2. /\ obs.after \in FileStat /\ obs.after.ino = obs.fd
          /\ obs.after.mtime <= clock /\ obs.after.ctime <= clock
        BY <1>1, <2>1 DEF ObsTyped
    <2>3. \/ obs.after.ctime = node'[obs.after.ino].ctime
          \/ "times" \notin touched' /\ obs.after.mtime = node'[obs.after.ino].mtime
        BY <1>2, <2>1 DEF Kept
    <2>. QED
        BY <2>2, <2>3, KeptStays
<1>7. pc \in Holds => obs.fd \in File /\ held \subseteq held'
    BY <1>1, <1>2 DEF OpenedIsNamed, Observed
<1>8. pc = "second block" /\ Kept(obs.opened)' => obs.raw = Block(obs.fd, 1)'
    <2>1. Block(obs.fd, 1)' = IF 1 <= Len(node'[obs.fd].data) THEN <<node'[obs.fd].data[1]>>
                                                             ELSE <<>>
        BY <1>2 DEF Block
    <2>. QED
        BY <1>1, <1>5, <2>1 DEF BytesKept, Block, Watching, Between
<1>9. pc = "after" /\ Kept(obs.opened)' => obs.raw = node'[obs.fd].data
    BY <1>1, <1>5 DEF BytesKept, Watching, Between
<1>10. pc \in Checked /\ p.after # "nothing" /\ ~TimesDeceive' =>
           /\ obs.raw \in held'
           /\ Kept(obs.after)' => obs.raw = node'[obs.fd].data
    BY <1>1, <1>3, <1>6, <1>7 DEF BytesKept, Holds, Watching
<1>. QED
    BY <1>2, <1>3, <1>4, <1>8, <1>9, <1>10 DEF BytesKept

LEMMA ChangeKeepsBreach ==
    ASSUME ReadsInv, FineInv, FineClock, Change, Observed
    PROVE  BreachShows' /\ NotBroken'
<1>1. /\ FilesTyped /\ OneReplacement /\ OpenedIsNamed /\ FstatSeen /\ BreachShows /\ NotBroken
    BY TypedFiles DEF ReadsInv, FineInv
<1>2. /\ reader' = reader /\ pc' = pc /\ obs' = obs /\ Running
      /\ clock' = clock + 1
    BY DEF Change, reads
<1>3. p' = p
    BY <1>2 DEF p
<1>4. NotBroken'
    <2>1. pc' \notin Between => broken' = broken
        BY DEF Observed
    <2>2. pc \in Checked \/ pc \in {"look", "open", "fstat"} => broken' = broken
        BY <1>2, <2>1 DEF Between, Checked
    <2>3. walked \subseteq walked'
        BY DEF Observed
    <2>. QED
        BY <1>1, <1>2, <1>3, <2>2, <2>3 DEF NotBroken, Checked
<1>5. BreachShows'
    <2>1. SUFFICES ASSUME pc \in Watching
                   PROVE  /\ "private" \in broken' /\ obs.opened.ctime = node'[obs.fd].ctime =>
                                ~Permitted("private", Stat(obs.fd)')
                          /\ "entry" \in broken' => dir'[obs.pfd].entry # obs.fd
        BY <1>2 DEF BreachShows
    <2>2. /\ obs.fd \in File /\ obs.pfd \in Directory
          /\ obs.fd = "first" => obs.pfd = "real"
          /\ obs.fd = "second" /\ obs.pfd = "real" => dir["real"].entry = "second"
        BY <1>1, <2>1 DEF OpenedIsNamed, Holds
    <2>3. /\ obs.opened \in FileStat /\ obs.opened.ino = obs.fd
          /\ obs.opened.mtime <= clock /\ obs.opened.ctime <= clock
        BY <1>1, <2>1 DEF FstatSeen
    <2>4. /\ "private" \in broken /\ obs.opened.ctime = node[obs.fd].ctime =>
                ~Permitted("private", Stat(obs.fd))
          /\ "entry" \in broken => dir[obs.pfd].entry # obs.fd
        BY <1>1, <2>1 DEF BreachShows
    <2>5. /\ "private" \in broken' =>
                "private" \in broken \/ ~Permitted("private", Stat(obs.fd)')
          /\ "entry" \in broken' => "entry" \in broken \/ dir'[obs.pfd].entry # obs.fd
        BY <1>2 DEF Observed
    <2>6. "private" \in broken' /\ obs.opened.ctime = node'[obs.fd].ctime =>
              ~Permitted("private", Stat(obs.fd)')
        <3>1. SUFFICES ASSUME "private" \in broken, obs.opened.ctime = node'[obs.fd].ctime
                       PROVE  ~Permitted("private", Stat(obs.fd)')
            BY <2>5
        <3>2. node'[obs.fd] = node[obs.fd]
            BY <2>3, <3>1, KeptStays
        <3>. QED
            BY <1>2, <2>4, <3>1, <3>2 DEF Stat
    <2>7. "entry" \in broken' => dir'[obs.pfd].entry # obs.fd
        <3>1. SUFFICES ASSUME "entry" \in broken
                       PROVE  dir'[obs.pfd].entry # obs.fd
            BY <2>5
        <3>2. EntriesKept \/ EntriesReplaced
            BY DEF Change
        <3>. QED
            BY <2>2, <2>4, <3>1, <3>2 DEF EntriesKept, EntriesReplaced, File, Directory, Absent
    <2>. QED
        BY <2>6, <2>7
<1>. QED
    BY <1>4, <1>5

LEMMA ChangeKeepsFineInv ==
    ASSUME ReadsInv, FineInv, FineClock, Change, Observed
    PROVE  FineInv'
BY ChangeKeepsBytes, ChangeKeepsBreach DEF FineInv

-----------------------------------------------------------------------------
(* The readers: their own calls keep the invariant *)

Calls ==
    {"look", "open", "fstat", "first block", "second block", "after", "entry", "rewalk",
     "final", "accepted", "refused"}
\* What may be the cause of a refusal.
Cause == touched # {} /\ (touched = {"sibling"} => p.parent)

LEMMA StatTyped ==
    ASSUME FilesTyped, TimesPast, NEW f \in File
    PROVE  /\ Stat(f) \in FileStat /\ Stat(f).ino = f
           /\ Stat(f).mtime <= clock /\ Stat(f).ctime <= clock
           /\ Stat(f).ctime = node[f].ctime /\ Stat(f).mtime = node[f].mtime
           /\ Stat(f).size = Len(node[f].data)
           /\ Stat(f).mode = node[f].mode /\ Stat(f).nlink = node[f].nlink
<1>1. node[f] \in NodeRecord
    BY DEF FilesTyped
<1>2. Len(node[f].data) \in 1..2
    BY <1>1, DataForm DEF NodeRecord
<1>. QED
    BY <1>1, <1>2 DEF NodeRecord, FileStat, Stat, TimesPast

LEMMA ProfileSound ==
    ASSUME ReadsInv
    PROVE  Sound(p)
<1>1. reader \in DOMAIN Profile
    BY ReadersAssumption DEF ReadsInv, ReadsTypeOK
<1>. QED
    BY <1>1, ProfilesAreSound DEF p

\* The first file, as long as nobody touched it, is as it was.
LEMMA CalmStat ==
    ASSUME ReadsInv, Untouched
    PROVE  /\ Stat("first") = Pristine /\ Entry = "first"
           /\ parent.ino = "real" /\ parent.link = FALSE /\ dir["real"].entry = "first"
           /\ \A policy : Permitted(policy, Pristine)
           /\ \A view \in {"nothing", "identity", "short", "public", "state"} :
                 Same(view, Pristine, Pristine)
           /\ "first" \in File
<1>1. /\ node["first"] = [data |-> <<0, 0>>, mode |-> "private", mtime |-> 0, ctime |-> 0,
                          nlink |-> 1]
      /\ dir["real"].entry = "first"
      /\ parent = [ino |-> "real", link |-> FALSE]
    BY DEF ReadsInv, CalmFiles
<1>2. Len(<<0, 0>>) = 2
    OBVIOUS
<1>3. Stat("first") = Pristine
    BY <1>1, <1>2 DEF Stat, Pristine
<1>4. \A policy : Permitted(policy, Pristine)
    BY DEF Permitted, Pristine
<1>. QED
    BY <1>1, <1>3, <1>4, SameAll DEF Entry, File

LEMMA BlockNumbers == 1 \in 1..2 /\ 2 \in 1..2
OBVIOUS

LEMMA FirstOfPair ==
    ASSUME NEW d, d = <<0, 0>>
    PROVE  d[1] = 0
OBVIOUS

LEMMA CalmData ==
    ASSUME ReadsInv, Untouched
    PROVE  node["first"].data = <<0, 0>>
<1>1. node["first"] = [data |-> <<0, 0>>, mode |-> "private", mtime |-> 0, ctime |-> 0,
                       nlink |-> 1]
    BY DEF ReadsInv, CalmFiles
<1>. QED
    BY <1>1

\* What no call of a reader touches, and what every call leaves typed.
LEMMA StepKeeps ==
    ASSUME ReadsInv, NEW from, NEW ok, NEW to \in Calls, Step(from, ok, to),
           obs'.raw \in Bytes
    PROVE  /\ node' = node /\ dir' = dir /\ parent' = parent /\ clock' = clock
           /\ events' = events /\ reader' = reader /\ touched' = touched /\ p' = p
           /\ FilesTyped' /\ TimesPast' /\ OneReplacement' /\ CalmFiles' /\ ReadsTypeOK'
           /\ clock \in 0..MaxEvents
<1>1. /\ node' = node /\ dir' = dir /\ parent' = parent /\ clock' = clock /\ events' = events
      /\ reader' = reader /\ touched' = touched
      /\ pc' = IF ok THEN to ELSE "refused"
    BY DEF Step, files
<1>2. pc' \in Calls
    BY <1>1 DEF Calls
<1>3. /\ ReadsTypeOK /\ FilesTyped /\ TimesPast /\ OneReplacement /\ CalmFiles
    BY TypedFiles DEF ReadsInv
<1>4. ReadsTypeOK'
    BY <1>1, <1>2, <1>3 DEF ReadsTypeOK, Calls, Bytes
<1>5. /\ FilesTyped' /\ TimesPast' /\ OneReplacement' /\ CalmFiles'
    BY <1>1, <1>3 DEF FilesTyped, TimesPast, OneReplacement, CalmFiles, Untouched
<1>. QED
    BY <1>1, <1>3, <1>4, <1>5 DEF p, ReadsTypeOK

\* A refusal with a cause keeps the invariant, and ends what it is about.
LEMMA StepRefused ==
    ASSUME ReadsInv, NEW from, NEW ok, NEW to \in Calls, Step(from, ok, to), ~ok,
           obs'.raw \in Bytes, Framed(obs'), Cause
    PROVE  pc' = "refused" /\ ReadsInv'
<1>1. /\ reader' = reader /\ touched' = touched /\ p' = p
      /\ TimesPast' /\ OneReplacement' /\ CalmFiles' /\ ReadsTypeOK'
    BY StepKeeps
<1>2. pc' = "refused"
    BY DEF Step
<1>3. ObsTyped' /\ LookedAt' /\ OpenedIsNamed' /\ FstatSeen' /\ CalmReader'
    BY <1>2 DEF ObsTyped, LookedAt, OpenedIsNamed, FstatSeen, CalmReader, Holds, Watching,
                Between, Checked
<1>4. RefusedForCause'
    BY <1>1 DEF RefusedForCause, Cause
<1>. QED
    BY <1>1, <1>2, <1>3, <1>4 DEF ReadsInv

LEMMA RefusedIsFine ==
    ASSUME pc' = "refused"
    PROVE  FineInv'
BY DEF FineInv, BytesKept, BreachShows, NotBroken, Watching, Between, Checked

\* A file that nobody but its neighbours was touched around cannot be refused.
LEMMA TouchedIsCause ==
    ASSUME ~Untouched
    PROVE  Cause
BY DEF Untouched, Cause

LEMMA LookKeeps ==
    ASSUME ReadsInv, Look, Observed
    PROVE  ReadsInv'
<1>. DEFINE visible == Entry \in File /\ (p.resolves => ~parent.link)
            ok == p.looks => visible /\ Allowed("look", Stat(Entry))
<1>1. /\ FilesTyped /\ TimesPast /\ ReadsTypeOK /\ ObsTyped /\ pc = "look"
    BY TypedFiles DEF ReadsInv, Look, Step
<1>2. /\ Step("look", ok, "open")
      /\ obs' = IF p.looks /\ Entry \in File THEN [obs EXCEPT !.before = Stat(Entry)] ELSE obs
    BY DEF Look
<1>3. Framed(obs) /\ obs.raw \in Bytes
    BY <1>1 DEF ObsTyped, ReadsTypeOK, Bytes
<1>4. /\ Framed(obs') /\ obs'.raw = obs.raw
      /\ p.looks /\ Entry \in File => obs'.before = Stat(Entry)
    BY <1>2, <1>3 DEF Framed
<1>5. "open" \in Calls /\ Sound(p)
    BY ProfileSound DEF Calls
<1>6. CASE ~ok
    <2>1. Untouched => ok
        BY CalmStat DEF Allowed
    <2>. HIDE DEF ok
    <2>. QED
        BY <1>2, <1>3, <1>4, <1>5, <1>6, <2>1, TouchedIsCause, StepRefused
<1>7. CASE ok
    <2>1. /\ reader' = reader /\ touched' = touched /\ p' = p
          /\ TimesPast' /\ OneReplacement' /\ CalmFiles' /\ ReadsTypeOK'
        <3>. HIDE DEF ok
        <3>. QED
            BY <1>2, <1>3, <1>4, <1>5, StepKeeps
    <2>2. pc' = "open"
        BY <1>2, <1>7 DEF Step
    <2>3. ObsTyped' /\ OpenedIsNamed' /\ FstatSeen' /\ RefusedForCause'
        BY <1>4, <2>2 DEF ObsTyped, OpenedIsNamed, FstatSeen, RefusedForCause, Holds, Watching,
                          Between, Checked
    <2>4. LookedAt'
        <3>1. SUFFICES ASSUME p.looks
                       PROVE  /\ obs'.before \in FileStat
                              /\ "look" \in p.policed => Permitted(p.policy, obs'.before)
            BY <2>1 DEF LookedAt
        <3>2. Entry \in File /\ Allowed("look", Stat(Entry)) /\ obs'.before = Stat(Entry)
            BY <1>4, <1>7, <3>1
        <3>. QED
            BY <1>1, <3>2, StatTyped DEF Allowed
    <2>5. CalmReader'
        <3>1. SUFFICES ASSUME Untouched, p.looks
                       PROVE  obs'.before = Pristine
            BY <2>1, <2>2 DEF CalmReader, Untouched, Holds, Watching, Between, Checked
        <3>. QED
            BY <1>4, <3>1, CalmStat
    <2>. QED
        BY <2>1, <2>3, <2>4, <2>5 DEF ReadsInv
<1>. QED
    BY <1>6, <1>7

LEMMA OpenKeeps ==
    ASSUME ReadsInv, Open, Observed
    PROVE  ReadsInv'
<1>. DEFINE ok == Entry \in File /\ (p.walks => ~parent.link)
<1>1. /\ FilesTyped /\ TimesPast /\ ReadsTypeOK /\ ObsTyped /\ OneReplacement /\ pc = "open"
      /\ LookedAt /\ CalmReader
    BY TypedFiles DEF ReadsInv, Open, Step
<1>2. /\ Step("open", ok, "fstat")
      /\ obs' = IF ok THEN [obs EXCEPT !.fd = Entry, !.pfd = parent.ino] ELSE obs
    BY DEF Open
<1>3. Framed(obs) /\ obs.raw \in Bytes
    BY <1>1 DEF ObsTyped, ReadsTypeOK, Bytes
<1>4. "fstat" \in Calls
    BY DEF Calls
<1>5. CASE ~ok
    <2>1. Untouched => ok
        BY CalmStat
    <2>2. obs' = obs
        BY <1>2, <1>5
    <2>. HIDE DEF ok
    <2>. QED
        BY <1>2, <1>3, <1>4, <1>5, <2>1, <2>2, TouchedIsCause, StepRefused
<1>6. CASE ok
    <2>1. obs' = [before |-> obs.before, fd |-> Entry, pfd |-> parent.ino,
                  opened |-> obs.opened, above |-> obs.above, raw |-> obs.raw,
                  after |-> obs.after]
        <3>1. obs' = [obs EXCEPT !.fd = Entry, !.pfd = parent.ino]
            BY <1>2, <1>6
        <3>. QED
            BY <1>3, <3>1 DEF Framed
    <2>2. Framed(obs') /\ obs'.raw \in Bytes
        BY <1>3, <2>1 DEF Framed
    <2>3. /\ reader' = reader /\ touched' = touched /\ p' = p
          /\ node' = node /\ dir' = dir /\ parent' = parent
          /\ TimesPast' /\ OneReplacement' /\ CalmFiles' /\ ReadsTypeOK'
        <3>. HIDE DEF ok
        <3>. QED
            BY <1>2, <1>4, <2>2, StepKeeps
    <2>4. pc' = "fstat"
        BY <1>2, <1>6 DEF Step
    <2>5. ObsTyped' /\ FstatSeen' /\ RefusedForCause'
        BY <2>2, <2>4 DEF ObsTyped, FstatSeen, RefusedForCause, Watching, Between, Checked
    <2>6. LookedAt'
        BY <1>1, <2>1, <2>3, <2>4 DEF LookedAt
    <2>7. OpenedIsNamed'
        <3>1. Entry \in File /\ parent.ino \in Directory /\ Entry = dir[parent.ino].entry
            BY <1>1, <1>6 DEF FilesTyped, Entry
        <3>2. obs'.fd = Entry /\ obs'.pfd = parent.ino
            BY <2>1
        <3>3. Entry = "first" => parent.ino = "real"
            BY <1>1, <3>1 DEF OneReplacement, Directory, Absent
        <3>4. Entry = "second" /\ parent.ino = "real" => dir["real"].entry = "second"
            BY <3>1
        <3>5. node'[obs'.fd].data \in held'
            BY <3>1, <3>2 DEF Observed
        <3>. QED
            BY <2>3, <3>1, <3>2, <3>3, <3>4, <3>5 DEF OpenedIsNamed
    <2>8. CalmReader'
        BY <1>1, <2>1, <2>3, <2>4, CalmStat DEF CalmReader, Untouched, Watching, Between, Checked
    <2>. QED
        BY <2>3, <2>5, <2>6, <2>7, <2>8 DEF ReadsInv
<1>. QED
    BY <1>5, <1>6
LEMMA FstatKeeps ==
    ASSUME ReadsInv, Fstat, Observed
    PROVE  ReadsInv'
<1>. DEFINE s == Stat(obs.fd)
            ok == Same(p.opened, obs.before, s) /\ Allowed("fstat", s)
<1>1. /\ FilesTyped /\ TimesPast /\ ReadsTypeOK /\ ObsTyped /\ pc = "fstat"
      /\ LookedAt /\ CalmReader /\ OpenedIsNamed
    BY TypedFiles DEF ReadsInv, Fstat, Step
<1>2. /\ Step("fstat", ok, "first block")
      /\ obs' = [obs EXCEPT !.opened = s, !.above = DirStat(obs.pfd)]
    BY DEF Fstat
<1>3. Framed(obs) /\ obs.raw \in Bytes /\ "first block" \in Calls /\ Sound(p)
    BY <1>1, ProfileSound DEF ObsTyped, ReadsTypeOK, Bytes, Calls
<1>4. obs' = [before |-> obs.before, fd |-> obs.fd, pfd |-> obs.pfd, opened |-> s,
              above |-> DirStat(obs.pfd), raw |-> obs.raw, after |-> obs.after]
    BY <1>2, <1>3 DEF Framed
<1>5. Framed(obs') /\ obs'.raw \in Bytes
    BY <1>3, <1>4 DEF Framed
<1>6. obs.fd \in File /\ obs.pfd \in Directory
    BY <1>1 DEF OpenedIsNamed, Holds
<1>7. s \in FileStat /\ s.ino = obs.fd /\ s.mtime <= clock /\ s.ctime <= clock
    BY <1>1, <1>6, StatTyped
<1>8. Untouched => obs.fd = "first" /\ obs.pfd = "real" /\ s = Pristine
    BY <1>1, CalmStat DEF CalmReader, Holds
<1>9. CASE ~ok
    <2>1. Untouched => ok
        <3>1. SUFFICES ASSUME Untouched
                       PROVE  Same(p.opened, obs.before, Pristine) /\ Allowed("fstat", Pristine)
            BY <1>8
        <3>2. p.opened # "nothing" => obs.before = Pristine
            BY <1>1, <1>3, <3>1 DEF CalmReader, Sound
        <3>3. p.opened \in {"nothing", "identity", "short", "public", "state"}
            BY <1>3 DEF Sound
        <3>4. Same(p.opened, obs.before, Pristine)
            <4>1. CASE p.opened = "nothing"
                BY <4>1 DEF Same
            <4>2. CASE p.opened # "nothing"
                BY <3>1, <3>2, <3>3, <4>2, CalmStat
            <4>. QED
                BY <4>1, <4>2
        <3>5. Allowed("fstat", Pristine)
            BY <3>1, CalmStat DEF Allowed
        <3>. QED
            BY <3>4, <3>5
    <2>. HIDE DEF ok
    <2>2. Cause
        BY <1>9, <2>1, TouchedIsCause
    <2>. DEFINE next == "first block"
    <2>3. Step("fstat", ok, next) /\ next \in Calls /\ ~ok
        BY <1>2, <1>3, <1>9
    <2>. HIDE DEF next
    <2>. QED
        BY <1>5, <2>2, <2>3, StepRefused
<1>10. CASE ok
    <2>1. /\ reader' = reader /\ touched' = touched /\ p' = p
          /\ node' = node /\ dir' = dir /\ parent' = parent /\ clock' = clock
          /\ TimesPast' /\ OneReplacement' /\ CalmFiles' /\ ReadsTypeOK'
        <3>. HIDE DEF ok
        <3>. QED
            BY <1>2, <1>3, <1>5, StepKeeps
    <2>2. pc' = "first block"
        BY <1>2, <1>10 DEF Step
    <2>3. ObsTyped' /\ LookedAt' /\ RefusedForCause'
        BY <1>5, <2>2 DEF ObsTyped, LookedAt, RefusedForCause, Checked
    <2>4. OpenedIsNamed'
        <3>1. /\ obs.fd = "first" => obs.pfd = "real"
              /\ obs.fd = "second" /\ obs.pfd = "real" => dir["real"].entry = "second"
              /\ obs'.fd = obs.fd /\ obs'.pfd = obs.pfd
            BY <1>1, <1>4 DEF OpenedIsNamed, Holds
        <3>2. node'[obs'.fd].data \in held'
            BY <1>6, <3>1 DEF Observed
        <3>. QED
            BY <1>6, <2>1, <3>1, <3>2 DEF OpenedIsNamed
    <2>5. FstatSeen'
        <3>1. /\ obs'.opened = s /\ obs'.fd = obs.fd /\ obs'.pfd = obs.pfd
              /\ obs'.above = DirStat(obs.pfd)
            BY <1>4
        <3>2. /\ obs'.above.ino = obs'.pfd /\ obs'.above.stamp \in 0..clock
            <4>1. dir[obs.pfd].stamp \in 0..MaxEvents /\ dir[obs.pfd].stamp <= clock
                BY <1>1, <1>6 DEF FilesTyped, Directories, TimesPast
            <4>2. clock \in 0..MaxEvents
                BY <1>1 DEF ReadsTypeOK
            <4>. QED
                BY <3>1, <4>1, <4>2 DEF DirStat
        <3>3. p.policy = "private" /\ "after" \notin p.policed => Permitted("private", s)
            <4>1. SUFFICES ASSUME p.policy = "private", "after" \notin p.policed
                           PROVE  Permitted("private", s)
                OBVIOUS
            <4>2. CASE "fstat" \in p.policed
                BY <1>10, <4>1, <4>2 DEF Allowed
            <4>3. CASE "look" \in p.policed /\ p.opened = "state"
                <5>1. obs.before \in FileStat /\ Permitted("private", obs.before)
                    BY <1>1, <1>3, <4>1, <4>3 DEF LookedAt, Sound
                <5>2. obs.before.mode = s.mode /\ obs.before.nlink = s.nlink
                    BY <1>7, <1>10, <4>3, <5>1, SameSays
                <5>. QED
                    BY <5>1, <5>2 DEF Permitted
            <4>. QED
                BY <1>3, <4>1, <4>2, <4>3 DEF Sound
        <3>. QED
            BY <1>7, <2>1, <3>1, <3>2, <3>3 DEF FstatSeen
    <2>6. CalmReader'
        <3>1. SUFFICES ASSUME Untouched
                       PROVE  /\ obs'.fd = "first" /\ obs'.pfd = "real"
                              /\ obs'.opened = Pristine /\ obs'.above.ino = "real"
                              /\ obs'.above = DirStat("real")'
            BY <2>1, <2>2 DEF CalmReader, Untouched, Checked
        <3>2. obs'.above = DirStat("real")
            BY <1>4, <1>8, <3>1
        <3>3. DirStat("real")' = DirStat("real") /\ DirStat("real").ino = "real"
            BY <2>1 DEF DirStat
        <3>. QED
            BY <1>4, <1>8, <3>1, <3>2, <3>3
    <2>. QED
        BY <2>1, <2>3, <2>4, <2>5, <2>6 DEF ReadsInv
<1>. QED
    BY <1>9, <1>10

\* What a call keeps that only adds to what was observed, once the file is open.
LEMMA LaterKeeps ==
    ASSUME ReadsInv, Observed, NEW from \in Watching, NEW to \in Watching, Step(from, TRUE, to),
           Framed(obs'), obs'.raw \in Bytes,
           obs'.fd = obs.fd, obs'.pfd = obs.pfd, obs'.opened = obs.opened, obs'.above = obs.above
    PROVE  /\ ReadsTypeOK' /\ TimesPast' /\ OneReplacement' /\ CalmFiles'
           /\ LookedAt' /\ OpenedIsNamed' /\ FstatSeen' /\ RefusedForCause'
           /\ Untouched' =>
                 /\ Untouched
                 /\ obs'.fd = "first" /\ obs'.pfd = "real"
                 /\ obs'.opened = Pristine /\ obs'.above.ino = "real"
                 /\ touched' = {} => obs'.above = DirStat("real")'
<1>1. to \in Calls
    BY DEF Calls, Watching, Between, Checked
<1>2. /\ reader' = reader /\ touched' = touched /\ p' = p
      /\ node' = node /\ dir' = dir /\ parent' = parent /\ clock' = clock
      /\ TimesPast' /\ OneReplacement' /\ CalmFiles' /\ ReadsTypeOK'
    BY <1>1, StepKeeps
<1>3. pc \in Watching /\ pc' \in Watching
    BY DEF Step
<1>4. LookedAt' /\ RefusedForCause'
    BY <1>3 DEF LookedAt, RefusedForCause, Watching, Between, Checked
<1>5. OpenedIsNamed'
    <2>1. /\ obs.fd \in File /\ obs.pfd \in Directory
          /\ obs.fd = "first" => obs.pfd = "real"
          /\ obs.fd = "second" /\ obs.pfd = "real" => dir["real"].entry = "second"
        BY <1>3 DEF ReadsInv, OpenedIsNamed, Holds
    <2>2. node'[obs'.fd].data \in held'
        BY <2>1 DEF Observed
    <2>. QED
        BY <1>2, <2>1, <2>2 DEF OpenedIsNamed
<1>6. FstatSeen'
    BY <1>2, <1>3 DEF ReadsInv, FstatSeen
<1>7. Untouched' =>
          /\ Untouched
          /\ obs'.fd = "first" /\ obs'.pfd = "real"
          /\ obs'.opened = Pristine /\ obs'.above.ino = "real"
          /\ touched' = {} => obs'.above = DirStat("real")'
    BY <1>2, <1>3 DEF ReadsInv, CalmReader, Untouched, Holds, DirStat
<1>. QED
    BY <1>2, <1>4, <1>5, <1>6, <1>7

LEMMA FirstBlockKeeps ==
    ASSUME ReadsInv, Observed, Step("first block", TRUE, "second block"),
           obs' = [obs EXCEPT !.raw = Block(obs.fd, 1)]
    PROVE  ReadsInv'
<1>1. /\ FilesTyped /\ ReadsTypeOK /\ ObsTyped /\ pc = "first block" /\ OpenedIsNamed
    BY TypedFiles DEF ReadsInv, Step
<1>2. obs.fd \in File /\ node[obs.fd].data \in Data /\ Framed(obs)
    BY <1>1 DEF OpenedIsNamed, Holds, Watching, Between, FilesTyped, NodeRecord, ObsTyped
<1>4. Block(obs.fd, 1) \in OneBlock
    BY <1>2, BlockNumbers, BlockTyped, Zenon
<1>5. /\ Framed(obs') /\ obs'.raw = Block(obs.fd, 1)
      /\ obs'.fd = obs.fd /\ obs'.pfd = obs.pfd /\ obs'.opened = obs.opened
      /\ obs'.above = obs.above
    BY <1>2 DEF Framed
<1>6. obs'.raw \in Bytes
    BY <1>4, <1>5, TwoBlocksTyped
<1>7. /\ ReadsTypeOK' /\ TimesPast' /\ OneReplacement' /\ CalmFiles'
      /\ LookedAt' /\ OpenedIsNamed' /\ FstatSeen' /\ RefusedForCause'
      /\ Untouched' =>
            /\ Untouched
            /\ obs'.fd = "first" /\ obs'.pfd = "real"
            /\ obs'.opened = Pristine /\ obs'.above.ino = "real"
            /\ touched' = {} => obs'.above = DirStat("real")'
    BY <1>5, <1>6, LaterKeeps DEF Watching, Between
<1>8. pc' = "second block"
    BY DEF Step
<1>9. ObsTyped'
    BY <1>4, <1>5, <1>8 DEF ObsTyped, Checked
<1>10. CalmReader'
    <2>1. Untouched' => obs'.raw = <<0>>
        <3>1. SUFFICES ASSUME Untouched'
                       PROVE  obs'.raw = <<0>>
            OBVIOUS
        <3>2. Untouched /\ obs.fd = "first"
            BY <1>5, <1>7, <3>1
        <3>3. node["first"].data = <<0, 0>>
            BY <3>2, CalmData
        <3>4. Block(obs.fd, 1) = <<node[obs.fd].data[1]>>
            BY <1>2, BlocksMakeData
        <3>. QED
            BY <1>5, <3>2, <3>3, <3>4, FirstOfPair, Zenon
    <2>. QED
        BY <1>7, <1>8, <2>1 DEF CalmReader, Checked
<1>. QED
    BY <1>7, <1>9, <1>10 DEF ReadsInv

LEMMA SecondBlockKeeps ==
    ASSUME ReadsInv, Observed, Step("second block", TRUE, "after"),
           obs' = [obs EXCEPT !.raw = @ \o Block(obs.fd, 2)]
    PROVE  ReadsInv'
<1>1. /\ FilesTyped /\ ReadsTypeOK /\ ObsTyped /\ pc = "second block" /\ OpenedIsNamed
    BY TypedFiles DEF ReadsInv, Step
<1>2. /\ obs.fd \in File /\ node[obs.fd].data \in Data /\ Framed(obs)
      /\ obs.raw \in OneBlock
    BY <1>1 DEF OpenedIsNamed, Holds, Watching, Between, FilesTyped, NodeRecord, ObsTyped
<1>3. obs.raw \o Block(obs.fd, 2) \in Bytes
    <2>1. Block(obs.fd, 2) \in OneBlock
        BY <1>2, BlockNumbers, BlockTyped, Zenon
    <2>. QED
        BY <1>2, <2>1, TwoBlocksTyped, Zenon
<1>4. /\ Framed(obs') /\ obs'.raw = obs.raw \o Block(obs.fd, 2)
      /\ obs'.fd = obs.fd /\ obs'.pfd = obs.pfd /\ obs'.opened = obs.opened
      /\ obs'.above = obs.above
    BY <1>2 DEF Framed
<1>5. /\ ReadsTypeOK' /\ TimesPast' /\ OneReplacement' /\ CalmFiles'
      /\ LookedAt' /\ OpenedIsNamed' /\ FstatSeen' /\ RefusedForCause'
      /\ Untouched' =>
            /\ Untouched
            /\ obs'.fd = "first" /\ obs'.pfd = "real"
            /\ obs'.opened = Pristine /\ obs'.above.ino = "real"
            /\ touched' = {} => obs'.above = DirStat("real")'
    BY <1>3, <1>4, LaterKeeps DEF Watching, Between
<1>6. pc' = "after"
    BY DEF Step
<1>7. ObsTyped'
    BY <1>4, <1>6 DEF ObsTyped, Checked
<1>8. CalmReader'
    <2>1. Untouched' => obs'.raw = <<0, 0>>
        <3>1. SUFFICES ASSUME Untouched'
                       PROVE  obs'.raw = <<0, 0>>
            OBVIOUS
        <3>2. Untouched /\ obs.fd = "first"
            BY <1>4, <1>5, <3>1
        <3>4. node["first"].data = <<0, 0>>
            BY <3>2, CalmData
        <3>5. obs.raw = <<0>>
            BY <1>1, <3>2 DEF ReadsInv, CalmReader
        <3>3. /\ Block(obs.fd, 1) = <<node[obs.fd].data[1]>>
              /\ Block(obs.fd, 1) \o Block(obs.fd, 2) = node[obs.fd].data
            BY <1>2, BlocksMakeData
        <3>. QED
            BY <1>4, <3>2, <3>3, <3>4, <3>5, FirstOfPair, Zenon
    <2>. QED
        BY <1>5, <1>6, <2>1 DEF CalmReader, Checked
<1>. QED
    BY <1>5, <1>7, <1>8 DEF ReadsInv

LEMMA AfterKeeps ==
    ASSUME ReadsInv, After, Observed
    PROVE  ReadsInv'
<1>. DEFINE s == Stat(obs.fd)
            ok == /\ Same(p.after, obs.opened, s)
                  /\ p.after # "nothing" => s.size = Len(obs.raw)
                  /\ Allowed("after", s)
                  /\ p.parent => obs.above = DirStat(obs.pfd)
<1>1. /\ FilesTyped /\ TimesPast /\ ReadsTypeOK /\ ObsTyped /\ pc = "after"
      /\ CalmReader /\ OpenedIsNamed
    BY TypedFiles DEF ReadsInv, After, Step
<1>2. /\ Step("after", ok, "entry")
      /\ obs' = [obs EXCEPT !.after = s]
    BY DEF After
<1>3. Framed(obs) /\ obs.raw \in Bytes /\ "entry" \in Calls /\ Sound(p)
    BY <1>1, ProfileSound DEF ObsTyped, ReadsTypeOK, Bytes, Calls
<1>4. /\ Framed(obs') /\ obs'.raw = obs.raw /\ obs'.after = s
      /\ obs'.fd = obs.fd /\ obs'.pfd = obs.pfd /\ obs'.opened = obs.opened
      /\ obs'.above = obs.above
    BY <1>2, <1>3 DEF Framed
<1>5. obs'.raw \in Bytes
    BY <1>3, <1>4
<1>6. obs.fd \in File
    BY <1>1 DEF OpenedIsNamed, Holds, Watching, Between
<1>7. s \in FileStat /\ s.ino = obs.fd /\ s.mtime <= clock /\ s.ctime <= clock
    BY <1>1, <1>6, StatTyped
<1>8. Untouched => /\ obs.fd = "first" /\ obs.pfd = "real" /\ s = Pristine
                   /\ obs.opened = Pristine /\ obs.raw = <<0, 0>>
                   /\ touched = {} => obs.above = DirStat("real")
    BY <1>1, CalmStat DEF CalmReader, Holds, Watching, Between
<1>9. CASE ~ok
    <2>1. Cause
        <3>1. CASE ~Untouched
            BY <3>1, TouchedIsCause
        <3>2. CASE Untouched
            <4>1. p.after \in {"nothing", "identity", "short", "public", "state"}
                BY <1>3 DEF Sound
            <4>2. Same(p.after, obs.opened, s)
                BY <1>8, <3>2, <4>1, CalmStat
            <4>3. s.size = Len(obs.raw)
                <5>1. Len(<<0, 0>>) = 2 /\ Pristine.size = 2
                    BY DEF Pristine
                <5>2. s = Pristine /\ obs.raw = <<0, 0>>
                    BY <1>8, <3>2
                <5>. HIDE DEF s
                <5>. QED
                    BY <5>1, <5>2, Zenon
            <4>4. Allowed("after", s)
                BY <1>8, <3>2, CalmStat DEF Allowed
            <4>5. p.parent /\ obs.above # DirStat(obs.pfd)
                BY <1>9, <4>2, <4>3, <4>4
            <4>6. touched # {}
                BY <1>8, <3>2, <4>5
            <4>. QED
                BY <4>5, <4>6 DEF Cause
        <3>. QED
            BY <3>1, <3>2
    <2>. HIDE DEF ok
    <2>. QED
        BY <1>2, <1>3, <1>4, <1>5, <1>9, <2>1, StepRefused
<1>10. CASE ok
    <2>1. Step("after", TRUE, "entry")
        BY <1>2, <1>10 DEF Step
    <2>2. /\ ReadsTypeOK' /\ TimesPast' /\ OneReplacement' /\ CalmFiles'
          /\ LookedAt' /\ OpenedIsNamed' /\ FstatSeen' /\ RefusedForCause'
          /\ Untouched' =>
                /\ Untouched
                /\ obs'.fd = "first" /\ obs'.pfd = "real"
                /\ obs'.opened = Pristine /\ obs'.above.ino = "real"
                /\ touched' = {} => obs'.above = DirStat("real")'
        <3>1. "after" \in Watching /\ "entry" \in Watching
            BY DEF Watching, Between, Checked
        <3>. HIDE DEF ok
        <3>. QED
            BY <1>4, <1>5, <2>1, <3>1, LaterKeeps
    <2>3. pc' = "entry" /\ clock' = clock
        BY <2>1 DEF Step, files
    <2>4. ObsTyped'
        BY <1>4, <1>7, <2>3 DEF ObsTyped
    <2>5. CalmReader'
        BY <1>4, <1>8, <2>2, <2>3 DEF CalmReader
    <2>. QED
        BY <2>2, <2>4, <2>5 DEF ReadsInv
<1>. QED
    BY <1>9, <1>10

\* The last three calls only compare.
LEMMA ComparingKeeps ==
    ASSUME ReadsInv, Observed, NEW from \in {"entry", "rewalk", "final"},
           NEW to \in {"rewalk", "final", "accepted"}, NEW ok, Step(from, ok, to),
           UNCHANGED obs, ~ok => Cause
    PROVE  ReadsInv'
<1>1. /\ ReadsTypeOK /\ ObsTyped /\ CalmReader /\ pc = from
    BY DEF ReadsInv, Step
<1>2. Framed(obs) /\ obs.raw \in Bytes /\ to \in Calls /\ obs' = obs
    BY <1>1 DEF ObsTyped, ReadsTypeOK, Bytes, Calls
<1>3. CASE ~ok
    BY <1>2, <1>3, StepRefused
<1>4. CASE ok
    <2>1. Step(from, TRUE, to) /\ from \in Watching /\ to \in Watching
        BY <1>4 DEF Step, Watching, Checked
    <2>2. /\ ReadsTypeOK' /\ TimesPast' /\ OneReplacement' /\ CalmFiles'
          /\ LookedAt' /\ OpenedIsNamed' /\ FstatSeen' /\ RefusedForCause'
          /\ Untouched' =>
                /\ Untouched
                /\ obs'.fd = "first" /\ obs'.pfd = "real"
                /\ obs'.opened = Pristine /\ obs'.above.ino = "real"
                /\ touched' = {} => obs'.above = DirStat("real")'
        BY <1>2, <2>1, LaterKeeps
    <2>3. pc' = to /\ clock' = clock /\ pc \in Checked /\ to \in Checked
        BY <1>1, <2>1 DEF Step, files, Checked
    <2>4. ObsTyped'
        BY <1>1, <1>2, <2>3 DEF ObsTyped
    <2>5. CalmReader'
        BY <1>1, <1>2, <2>2, <2>3 DEF CalmReader
    <2>. QED
        BY <2>2, <2>4, <2>5 DEF ReadsInv
<1>. QED
    BY <1>3, <1>4

\* As long as the file is untouched, the state that was kept is still its own.
LEMMA CalmChecked ==
    ASSUME ReadsInv, Untouched, pc \in Checked
    PROVE  /\ obs.after = Pristine /\ obs.fd = "first" /\ obs.pfd = "real"
           /\ dir[obs.pfd].entry = "first"
           /\ touched = {} => obs.above = DirStat(parent.ino)
BY CalmStat DEF ReadsInv, CalmReader, Holds, Watching

LEMMA HeldEntryKeeps ==
    ASSUME ReadsInv, HeldEntry, Observed
    PROVE  ReadsInv'
<1>. DEFINE ok == p.parent => /\ dir[obs.pfd].entry \in File
                              /\ State(Stat(dir[obs.pfd].entry)) = State(obs.after)
<1>1. Step("entry", ok, "rewalk") /\ UNCHANGED obs /\ pc = "entry"
    BY DEF HeldEntry, Step
<1>2. ~ok => Cause
    <2>1. Untouched => ok
        BY <1>1, CalmChecked, CalmStat DEF Checked
    <2>. QED
        BY <2>1, TouchedIsCause
<1>. HIDE DEF ok
<1>. QED
    BY <1>1, <1>2, ComparingKeeps

LEMMA RewalkKeeps ==
    ASSUME ReadsInv, Rewalk, Observed
    PROVE  ReadsInv'
<1>. DEFINE ok == p.rewalks => /\ ~parent.link /\ Entry \in File
                               /\ State(Stat(Entry)) = State(obs.after)
                               /\ DirStat(parent.ino) = obs.above
<1>1. Step("rewalk", ok, "final") /\ UNCHANGED obs /\ pc = "rewalk" /\ Sound(p)
    BY ProfileSound DEF Rewalk, Step
<1>2. ~ok => Cause
    <2>1. SUFFICES ASSUME ~ok, Untouched
                   PROVE  Cause
        BY TouchedIsCause
    <2>2. p.rewalks /\ DirStat(parent.ino) # obs.above
        BY <1>1, <2>1, CalmChecked, CalmStat DEF Checked
    <2>3. touched # {}
        BY <1>1, <2>1, <2>2, CalmChecked DEF Checked
    <2>. QED
        BY <1>1, <2>2, <2>3 DEF Cause, Sound
<1>. HIDE DEF ok
<1>. QED
    BY <1>1, <1>2, ComparingKeeps

LEMMA FinalKeeps ==
    ASSUME ReadsInv, Final, Observed
    PROVE  ReadsInv'
<1>. DEFINE ok == p.final # "nothing" =>
                      /\ Entry \in File /\ Same(p.final, obs.after, Stat(Entry))
                      /\ p.resolves /\ ~p.rewalks => ~parent.link
<1>1. Step("final", ok, "accepted") /\ UNCHANGED obs /\ pc = "final" /\ Sound(p)
    BY ProfileSound DEF Final, Step
<1>2. ~ok => Cause
    <2>1. Untouched => ok
        <3>1. p.final \in {"nothing", "identity", "short", "public", "state"}
            BY <1>1 DEF Sound
        <3>. QED
            BY <1>1, <3>1, CalmChecked, CalmStat DEF Checked
    <2>. QED
        BY <2>1, TouchedIsCause
<1>. HIDE DEF ok
<1>. QED
    BY <1>1, <1>2, ComparingKeeps

LEMMA ReadKeepsReadsInv ==
    ASSUME ReadsInv, Read, Observed
    PROVE  ReadsInv'
BY LookKeeps, OpenKeeps, FstatKeeps, FirstBlockKeeps, SecondBlockKeeps, AfterKeeps,
   HeldEntryKeeps, RewalkKeeps, FinalKeeps DEF Read, ReadBlock

LEMMA ReadsInvStarts ==
    ASSUME ReadsInit
    PROVE  ReadsInv
<1>1. /\ node = [f \in File |-> [data |-> <<0, 0>>, mode |-> "private", mtime |-> 0,
                                 ctime |-> 0, nlink |-> 1]]
      /\ dir = [d \in Directory |-> [entry |-> IF d = "real" THEN "first" ELSE "second",
                                     stamp |-> 0]]
      /\ parent = [ino |-> "real", link |-> FALSE]
      /\ clock = 0 /\ events = 0 /\ reader \in Readers /\ pc = "look"
      /\ obs = NothingSeen /\ touched = {}
    BY DEF ReadsInit, Whole
<1>2. 0 \in 0..MaxEvents
    BY ReadsAssumption
<1>3. <<0, 0>> \in Data
    BY <1>2, DataMade
<1>4. FilesTyped
    BY <1>1, <1>2, <1>3 DEF FilesTyped, NodeRecord, Directories, Directory, File
<1>5. obs.raw \in Bytes
    <2>1. obs.raw = <<>>
        BY <1>1 DEF NothingSeen
    <2>2. <<>> \in [1..0 -> 0..MaxEvents]
        OBVIOUS
    <2>. QED
        BY <2>1, <2>2 DEF Bytes
<1>6. ReadsTypeOK
    BY <1>1, <1>2, <1>4, <1>5 DEF ReadsTypeOK, FilesTyped, NodeRecord, Data, Directories, Bytes
<1>7. ObsTyped
    BY <1>1 DEF ObsTyped, Framed, NothingSeen, Checked
<1>8. TimesPast /\ OneReplacement /\ CalmFiles
    BY <1>1 DEF TimesPast, OneReplacement, CalmFiles, File, Directory
<1>9. LookedAt /\ OpenedIsNamed /\ FstatSeen /\ CalmReader /\ RefusedForCause
    BY <1>1 DEF LookedAt, OpenedIsNamed, FstatSeen, CalmReader, RefusedForCause, Holds,
                Watching, Between, Checked
<1>. QED
    BY <1>6, <1>7, <1>8, <1>9 DEF ReadsInv

LEMMA ReadsInvStep ==
    ASSUME ReadsInv, [ReadsNext]_readVars
    PROVE  ReadsInv'
<1>1. CASE Read /\ Observed
    BY <1>1, ReadKeepsReadsInv
<1>2. CASE Others /\ Observed
    BY <1>2, OthersChange, ChangeKeepsReadsInv DEF ReadsInv
<1>3. CASE UNCHANGED readVars
    <2>1. /\ node' = node /\ dir' = dir /\ parent' = parent /\ clock' = clock
          /\ events' = events /\ reader' = reader /\ pc' = pc /\ obs' = obs /\ named' = named
          /\ walked' = walked /\ held' = held /\ touched' = touched /\ broken' = broken
        BY <1>3 DEF readVars, files, reads, seen
    <2>2. ReadsTypeOK' /\ ObsTyped' /\ TimesPast' /\ OneReplacement'
        BY <2>1 DEF ReadsInv, ReadsTypeOK, ObsTyped, TimesPast, OneReplacement
    <2>3. p' = p /\ DirStat("real")' = DirStat("real")
        BY <2>1 DEF p, DirStat
    <2>4. LookedAt' /\ OpenedIsNamed' /\ FstatSeen'
        BY <2>1, <2>3 DEF ReadsInv, LookedAt, OpenedIsNamed, FstatSeen
    <2>5. CalmFiles' /\ CalmReader' /\ RefusedForCause'
        BY <2>1, <2>3 DEF ReadsInv, CalmFiles, CalmReader, RefusedForCause, Untouched
    <2>. QED
        BY <2>2, <2>4, <2>5 DEF ReadsInv
<1>. QED
    BY <1>1, <1>2, <1>3 DEF ReadsNext

\* The invariant of a read: types, time stamps, what the reader saw of the
\* file and its directory, and that a refusal has a cause.
THEOREM ReadsInvariant == ReadsSpec => []ReadsInv
<1>1. ReadsInit => ReadsInv
    BY ReadsInvStarts
<1>2. ReadsInv /\ [ReadsNext]_readVars => ReadsInv'
    BY ReadsInvStep
<1>. QED
    BY <1>1, <1>2, PTL DEF ReadsSpec

\* Every variable of the reader and of the file system keeps its type.
THEOREM ReadsTypeCorrect == ReadsSpec => []ReadsTypeOK
<1>1. ReadsInv => ReadsTypeOK
    BY DEF ReadsInv
<1>. QED
    BY <1>1, ReadsInvariant, PTL

\* No reader refuses a file that nobody touched; and when there were only
\* changes next to it, only the readers refuse that compare the directory.
THEOREM RefusedForCauseHolds == ReadsSpec => []RefusedForCause
<1>1. ReadsInv => RefusedForCause
    BY DEF ReadsInv
<1>. QED
    BY <1>1, ReadsInvariant, PTL

-----------------------------------------------------------------------------
(* The readers: what a call adds to the invariant under a fine clock *)

LEMMA StepLeaves ==
    ASSUME NEW from, NEW ok, NEW to, Step(from, ok, to)
    PROVE  /\ node' = node /\ dir' = dir /\ parent' = parent /\ clock' = clock
           /\ touched' = touched /\ p' = p /\ pc = from /\ pc' = IF ok THEN to ELSE "refused"
           /\ TimesDeceive' = TimesDeceive
BY DEF Step, files, p, TimesDeceive

\* The file is the opened one's, and is as it was, before and after a call.
LEMMA BreachStays ==
    ASSUME BreachShows, Observed, pc \in Watching, pc' \in Watching,
           node' = node, dir' = dir,
           obs'.fd = obs.fd, obs'.pfd = obs.pfd, obs'.opened = obs.opened
    PROVE  BreachShows'
<1>1. /\ "private" \in broken /\ obs.opened.ctime = node[obs.fd].ctime =>
            ~Permitted("private", Stat(obs.fd))
      /\ "entry" \in broken => dir[obs.pfd].entry # obs.fd
    BY DEF BreachShows
<1>2. /\ "private" \in broken' =>
            "private" \in broken \/ ~Permitted("private", Stat(obs.fd)')
      /\ "entry" \in broken' => "entry" \in broken \/ dir'[obs.pfd].entry # obs.fd
    BY DEF Observed
<1>3. Stat(obs.fd)' = Stat(obs.fd)
    BY DEF Stat
<1>4. Permitted("private", Stat(obs.fd)') <=> Permitted("private", Stat(obs.fd))
    BY <1>3
<1>. QED
    BY <1>1, <1>2, <1>3, <1>4 DEF BreachShows

LEMMA EarlyIsFine ==
    ASSUME FineInv, Observed, pc \in {"look", "open"}, pc' \in {"open", "fstat"}
    PROVE  FineInv'
<1>1. broken' = broken /\ broken = {}
    BY DEF FineInv, NotBroken, Observed, Between
<1>. QED
    BY <1>1 DEF FineInv, BytesKept, BreachShows, NotBroken, Watching, Between, Checked

LEMMA LookIsFine ==
    ASSUME FineInv, Look, Observed
    PROVE  FineInv'
<1>1. pc = "look" /\ pc' \in {"open", "refused"}
    BY DEF Look, Step
<1>. QED
    BY <1>1, EarlyIsFine, RefusedIsFine

LEMMA OpenIsFine ==
    ASSUME FineInv, Open, Observed
    PROVE  FineInv'
<1>1. pc = "open" /\ pc' \in {"fstat", "refused"}
    BY DEF Open, Step
<1>. QED
    BY <1>1, EarlyIsFine, RefusedIsFine

LEMMA FstatIsFine ==
    ASSUME ReadsInv, FineInv, Fstat, Observed
    PROVE  FineInv'
<1>1. /\ pc = "fstat" /\ pc' \in {"first block", "refused"}
      /\ obs' = [obs EXCEPT !.opened = Stat(obs.fd), !.above = DirStat(obs.pfd)]
    BY DEF Fstat, Step
<1>2. CASE pc' = "first block"
    <2>1. broken = {}
        BY <1>1 DEF FineInv, NotBroken
    <2>2. obs'.fd = obs.fd /\ obs'.pfd = obs.pfd
        BY <1>1 DEF ReadsInv, ObsTyped, Framed
    <2>3. /\ "private" \in broken' => ~Permitted("private", Stat(obs.fd)')
          /\ "entry" \in broken' => dir'[obs.pfd].entry # obs.fd
        BY <2>1 DEF Observed
    <2>5. BreachShows'
        BY <2>2, <2>3 DEF BreachShows
    <2>6. BytesKept' /\ NotBroken'
        BY <1>2 DEF BytesKept, NotBroken, Checked
    <2>. QED
        BY <2>5, <2>6 DEF FineInv
<1>. QED
    BY <1>1, <1>2, RefusedIsFine

LEMMA FirstBlockIsFine ==
    ASSUME ReadsInv, FineInv, Observed, Step("first block", TRUE, "second block"),
           obs' = [obs EXCEPT !.raw = Block(obs.fd, 1)]
    PROVE  FineInv'
<1>1. /\ node' = node /\ dir' = dir /\ parent' = parent
      /\ pc = "first block" /\ pc' = "second block"
    BY DEF Step, files
<1>2. /\ obs'.raw = Block(obs.fd, 1)
      /\ obs'.fd = obs.fd /\ obs'.pfd = obs.pfd /\ obs'.opened = obs.opened
      /\ obs'.above = obs.above
    BY DEF ReadsInv, ObsTyped, Framed
<1>3. BreachShows'
    BY <1>1, <1>2, BreachStays DEF FineInv, Watching, Between
<1>4. BytesKept'
    <2>1. Block(obs.fd, 1)' = Block(obs.fd, 1)
        <3>1. node'[obs'.fd].data = node[obs.fd].data
            BY <1>1, <1>2
        <3>2. Block(obs.fd, 1)' = IF 1 <= Len(node'[obs'.fd].data)
                                  THEN <<node'[obs'.fd].data[1]>> ELSE <<>>
            BY Zenon DEF Block
        <3>3. Block(obs.fd, 1) = IF 1 <= Len(node[obs.fd].data)
                                 THEN <<node[obs.fd].data[1]>> ELSE <<>>
            BY Zenon DEF Block
        <3>. QED
            BY <3>1, <3>2, <3>3, Zenon
    <2>. QED
        BY <1>1, <1>2, <2>1 DEF BytesKept, Checked
<1>5. NotBroken'
    BY <1>1 DEF NotBroken, Checked
<1>. QED
    BY <1>3, <1>4, <1>5 DEF FineInv

LEMMA SecondBlockIsFine ==
    ASSUME ReadsInv, FineInv, Observed, Step("second block", TRUE, "after"),
           obs' = [obs EXCEPT !.raw = @ \o Block(obs.fd, 2)]
    PROVE  FineInv'
<1>1. /\ node' = node /\ dir' = dir /\ parent' = parent /\ touched' = touched
      /\ pc = "second block" /\ pc' = "after"
    BY DEF Step, files
<1>2. /\ obs'.raw = obs.raw \o Block(obs.fd, 2)
      /\ obs'.fd = obs.fd /\ obs'.pfd = obs.pfd /\ obs'.opened = obs.opened
      /\ obs'.above = obs.above
    BY DEF ReadsInv, ObsTyped, Framed
<1>3. BreachShows'
    BY <1>1, <1>2, BreachStays DEF FineInv, Watching, Between
<1>4. BytesKept'
    <2>1. SUFFICES ASSUME Kept(obs.opened)'
                   PROVE  obs'.raw = node'[obs'.fd].data
        BY <1>1 DEF BytesKept, Checked
    <2>2. Kept(obs.opened)
        BY <1>1, <1>2, <2>1 DEF Kept
    <2>3. obs.raw = Block(obs.fd, 1)
        BY <1>1, <2>2 DEF FineInv, BytesKept
    <2>4. obs.fd \in File /\ node[obs.fd].data \in Data
        BY <1>1, TypedFiles DEF ReadsInv, OpenedIsNamed, Holds, Watching, Between, FilesTyped,
                                NodeRecord
    <2>5. Block(obs.fd, 1) \o Block(obs.fd, 2) = node[obs.fd].data
        BY <2>4, BlocksMakeData
    <2>. QED
        BY <1>1, <1>2, <2>3, <2>5
<1>5. NotBroken'
    BY <1>1 DEF NotBroken, Checked
<1>. QED
    BY <1>3, <1>4, <1>5 DEF FineInv

\* Times that agree after the read mean that what was read is the file's.
LEMMA AfterIsFine ==
    ASSUME ReadsInv, FineInv, After, Observed
    PROVE  FineInv'
<1>. DEFINE s == Stat(obs.fd)
<1>1. /\ node' = node /\ dir' = dir /\ parent' = parent /\ touched' = touched /\ p' = p
      /\ TimesDeceive' = TimesDeceive
      /\ pc = "after" /\ pc' \in {"entry", "refused"}
      /\ obs' = [obs EXCEPT !.after = s]
    BY StepLeaves DEF After
<1>2. CASE pc' = "entry"
    <2>1. Same(p.after, obs.opened, s) /\ Allowed("after", s) /\ Sound(p)
        BY <1>2, ProfileSound DEF After, Step
    <2>2. /\ obs'.raw = obs.raw /\ obs'.after = s
          /\ obs'.fd = obs.fd /\ obs'.pfd = obs.pfd /\ obs'.opened = obs.opened
          /\ obs'.above = obs.above
        BY <1>1 DEF ReadsInv, ObsTyped, Framed
    <2>3. /\ obs.fd \in File /\ node[obs.fd].data \in held
          /\ obs.opened \in FileStat /\ obs.opened.ino = obs.fd
          /\ p.policy = "private" /\ "after" \notin p.policed =>
                Permitted("private", obs.opened)
        BY <1>1 DEF ReadsInv, OpenedIsNamed, FstatSeen, Holds, Watching, Between
    <2>4. /\ s \in FileStat /\ s.ino = obs.fd
          /\ s.ctime = node[obs.fd].ctime /\ s.mtime = node[obs.fd].mtime
        BY <2>3, TypedFiles, StatTyped DEF ReadsInv
    <2>5. BreachShows'
        BY <1>1, <1>2, <2>2, BreachStays DEF FineInv, Watching, Between, Checked
    <2>6. broken' = broken
        BY <1>2 DEF Observed, Between
    <2>7. NotBroken'
        <3>1. p.policy = "private" => "private" \notin broken
            <4>1. SUFFICES ASSUME p.policy = "private", "private" \in broken
                           PROVE  FALSE
                OBVIOUS
            <4>2. /\ obs.opened.ctime = s.ctime /\ obs.opened.mode = s.mode
                  /\ obs.opened.nlink = s.nlink
                BY <2>1, <2>3, <2>4, <4>1, SameSays DEF Sound
            <4>3. ~Permitted("private", s)
                BY <1>1, <2>4, <4>1, <4>2 DEF FineInv, BreachShows, Watching, Between
            <4>4. ~Permitted("private", obs.opened)
                BY <4>2, <4>3 DEF Permitted
            <4>5. "after" \in p.policed
                BY <2>3, <4>1, <4>4
            <4>6. Permitted("private", s)
                BY <2>1, <4>1, <4>5 DEF Allowed
            <4>. QED
                BY <4>3, <4>6
        <3>. QED
            BY <1>1, <1>2, <2>6, <3>1 DEF NotBroken
    <2>8. BytesKept'
        <3>1. SUFFICES ASSUME p.after # "nothing", ~TimesDeceive
                       PROVE  obs.raw \in held' /\ obs.raw = node[obs.fd].data
            BY <1>1, <1>2, <2>2 DEF BytesKept
        <3>2. Kept(obs.opened)
            <4>1. CASE p.after = "state"
                <5>1. obs.opened.ctime = s.ctime
                    BY <2>1, <2>3, <2>4, <4>1, SameSays
                <5>. QED
                    BY <2>3, <2>4, <5>1 DEF Kept
            <4>2. CASE p.after \in {"short", "public"}
                <5>1. obs.opened.mtime = s.mtime
                    BY <2>1, <2>3, <2>4, <4>2, SameSays
                <5>2. "times" \notin touched
                    BY <3>1, <4>2 DEF TimesDeceive
                <5>. QED
                    BY <2>3, <2>4, <5>1, <5>2 DEF Kept
            <4>. QED
                BY <2>1, <3>1, <4>1, <4>2 DEF Sound
        <3>3. obs.raw = node[obs.fd].data
            BY <1>1, <3>2 DEF FineInv, BytesKept
        <3>4. held \subseteq held'
            BY <2>2, <2>3 DEF Observed
        <3>. QED
            BY <2>3, <3>3, <3>4
    <2>. QED
        BY <2>5, <2>7, <2>8 DEF FineInv
<1>. QED
    BY <1>1, <1>2, RefusedIsFine

\* The last three calls leave alone what there is to know of the file.
LEMMA ComparingIsFine ==
    ASSUME ReadsInv, FineInv, Observed, NEW from \in {"entry", "rewalk", "final"},
           NEW to \in {"rewalk", "final", "accepted"}, NEW ok, Step(from, ok, to), ok,
           UNCHANGED obs
    PROVE  /\ BreachShows' /\ broken' = broken /\ p' = p /\ TimesDeceive' = TimesDeceive
           /\ pc = from /\ pc' = to /\ held \subseteq held'
           /\ p.after # "nothing" /\ ~TimesDeceive =>
                 /\ obs.raw \in held'
                 /\ Kept(obs.after) => obs.raw = node[obs.fd].data
           /\ p.after # "nothing" /\ ~TimesDeceive =>
                 /\ obs'.raw \in held'
                 /\ Kept(obs.after)' => obs'.raw = node'[obs'.fd].data
           /\ p.policy = "private" => "private" \notin broken
           /\ walked \subseteq walked'
<1>1. /\ node' = node /\ dir' = dir /\ parent' = parent /\ touched' = touched /\ p' = p
      /\ TimesDeceive' = TimesDeceive /\ pc = from /\ pc' = to /\ obs' = obs
    BY StepLeaves
<1>2. pc \in Checked /\ pc' \in Checked
    BY <1>1 DEF Checked
<1>3. BreachShows'
    BY <1>1, <1>2, BreachStays DEF FineInv, Watching
<1>4. broken' = broken
    BY <1>2 DEF Observed, Between, Checked
<1>5. held \subseteq held'
    BY <1>1, <1>2 DEF ReadsInv, OpenedIsNamed, Holds, Watching, Observed
<1>6. p.after # "nothing" /\ ~TimesDeceive =>
          /\ obs.raw \in held'
          /\ Kept(obs.after) => obs.raw = node[obs.fd].data
    BY <1>2, <1>5 DEF FineInv, BytesKept
<1>7. p.after # "nothing" /\ ~TimesDeceive =>
          /\ obs'.raw \in held'
          /\ Kept(obs.after)' => obs'.raw = node'[obs'.fd].data
    BY <1>1, <1>6 DEF Kept
<1>8. p.policy = "private" => "private" \notin broken
    BY <1>2 DEF FineInv, NotBroken
<1>9. walked \subseteq walked'
    BY DEF Observed
<1>. QED
    BY <1>1, <1>3, <1>4, <1>5, <1>6, <1>7, <1>8, <1>9

LEMMA HeldEntryIsFine ==
    ASSUME ReadsInv, FineInv, HeldEntry, Observed
    PROVE  FineInv'
<1>. DEFINE ok == p.parent => /\ dir[obs.pfd].entry \in File
                              /\ State(Stat(dir[obs.pfd].entry)) = State(obs.after)
<1>1. Step("entry", ok, "rewalk") /\ UNCHANGED obs /\ pc = "entry"
    BY DEF HeldEntry, Step
<1>2. CASE ~ok
    BY <1>1, <1>2, RefusedIsFine DEF Step
<1>3. CASE ok
    <2>1. /\ BreachShows' /\ broken' = broken /\ p' = p /\ TimesDeceive' = TimesDeceive
          /\ pc' = "rewalk"
          /\ p.after # "nothing" /\ ~TimesDeceive =>
                /\ obs'.raw \in held'
                /\ Kept(obs.after)' => obs'.raw = node'[obs'.fd].data
          /\ p.policy = "private" => "private" \notin broken
        <3>. HIDE DEF ok
        <3>. QED
            BY <1>1, <1>3, ComparingIsFine
    <2>2. p.parent => "entry" \notin broken
        <3>1. SUFFICES ASSUME p.parent
                       PROVE  dir[obs.pfd].entry = obs.fd
            BY <1>1 DEF FineInv, BreachShows, Watching, Checked
        <3>2. /\ dir[obs.pfd].entry \in File /\ obs.after \in FileStat /\ obs.after.ino = obs.fd
              /\ State(Stat(dir[obs.pfd].entry)) = State(obs.after)
            BY <1>1, <1>3, <3>1 DEF ReadsInv, ObsTyped, Checked
        <3>3. /\ Stat(dir[obs.pfd].entry) \in FileStat
              /\ Stat(dir[obs.pfd].entry).ino = dir[obs.pfd].entry
            BY <3>2, TypedFiles, StatTyped DEF ReadsInv
        <3>4. Stat(dir[obs.pfd].entry) = obs.after
            BY <3>2, <3>3, StateSays
        <3>. QED
            BY <3>2, <3>3, <3>4
    <2>. QED
        BY <2>1, <2>2 DEF FineInv, BytesKept, NotBroken
<1>. QED
    BY <1>2, <1>3

LEMMA RewalkIsFine ==
    ASSUME ReadsInv, FineInv, Rewalk, Observed
    PROVE  FineInv'
<1>. DEFINE ok == p.rewalks => /\ ~parent.link /\ Entry \in File
                               /\ State(Stat(Entry)) = State(obs.after)
                               /\ DirStat(parent.ino) = obs.above
<1>1. Step("rewalk", ok, "final") /\ UNCHANGED obs /\ pc = "rewalk"
    BY DEF Rewalk, Step
<1>2. CASE ~ok
    BY <1>1, <1>2, RefusedIsFine DEF Step
<1>3. CASE ok
    <2>1. /\ BreachShows' /\ broken' = broken /\ p' = p /\ TimesDeceive' = TimesDeceive
          /\ pc' = "final"
          /\ p.after # "nothing" /\ ~TimesDeceive =>
                /\ obs'.raw \in held'
                /\ Kept(obs.after)' => obs'.raw = node'[obs'.fd].data
          /\ p.policy = "private" => "private" \notin broken
        <3>. HIDE DEF ok
        <3>. QED
            BY <1>1, <1>3, ComparingIsFine
    <2>2. p.rewalks => obs'.raw \in walked'
        <3>1. SUFFICES ASSUME p.rewalks
                       PROVE  obs.raw \in walked'
            BY <1>1
        <3>2. /\ ~parent.link /\ Entry \in File
              /\ State(Stat(Entry)) = State(obs.after)
              /\ obs.after \in FileStat /\ obs.after.ino = obs.fd
            BY <1>1, <1>3, <3>1 DEF ReadsInv, ObsTyped, Checked
        <3>3. /\ Stat(Entry) \in FileStat /\ Stat(Entry).ino = Entry
              /\ Stat(Entry).ctime = node[Entry].ctime
            BY <3>2, TypedFiles, StatTyped DEF ReadsInv
        <3>4. Stat(Entry) = obs.after
            BY <3>2, <3>3, StateSays
        <3>5. Entry = obs.fd /\ obs.after.ctime = node[Entry].ctime
            BY <3>2, <3>3, <3>4
        <3>6. p.after = "state" /\ ~TimesDeceive
            BY <3>1, ProfileSound DEF Sound, TimesDeceive
        <3>7. Kept(obs.after)
            BY <3>2, <3>5 DEF Kept
        <3>8. obs.raw = node[Entry].data
            BY <1>1, <3>5, <3>6, <3>7 DEF FineInv, BytesKept, Checked
        <3>9. Entry' = Entry /\ node' = node /\ parent' = parent
            BY <1>1 DEF Step, files, Entry
        <3>10. node[Entry].data \in walked'
            BY <2>1, <3>2, <3>9 DEF Observed, Afterwards
        <3>. QED
            BY <3>8, <3>10
    <2>3. p.parent => "entry" \notin broken
        BY <1>1 DEF FineInv, NotBroken
    <2>. QED
        BY <2>1, <2>2, <2>3 DEF FineInv, BytesKept, NotBroken
<1>. QED
    BY <1>2, <1>3

LEMMA FinalIsFine ==
    ASSUME ReadsInv, FineInv, Final, Observed
    PROVE  FineInv'
<1>. DEFINE ok == p.final # "nothing" =>
                      /\ Entry \in File /\ Same(p.final, obs.after, Stat(Entry))
                      /\ p.resolves /\ ~p.rewalks => ~parent.link
<1>1. Step("final", ok, "accepted") /\ UNCHANGED obs /\ pc = "final" /\ Sound(p)
    BY ProfileSound DEF Final, Step
<1>2. CASE ~ok
    BY <1>1, <1>2, RefusedIsFine DEF Step
<1>3. CASE ok
    <2>1. /\ BreachShows' /\ broken' = broken /\ p' = p /\ TimesDeceive' = TimesDeceive
          /\ pc' = "accepted"
          /\ p.after # "nothing" /\ ~TimesDeceive /\ Kept(obs.after) =>
                obs.raw = node[obs.fd].data
          /\ p.after # "nothing" /\ ~TimesDeceive =>
                /\ obs'.raw \in held'
                /\ Kept(obs.after)' => obs'.raw = node'[obs'.fd].data
          /\ p.policy = "private" => "private" \notin broken
          /\ walked \subseteq walked'
        <3>. HIDE DEF ok
        <3>. QED
            BY <1>1, <1>3, ComparingIsFine
    <2>2. p.final # "nothing" /\ ~TimesDeceive => obs.raw \in named'
        <3>1. SUFFICES ASSUME p.final # "nothing", ~TimesDeceive
                       PROVE  obs.raw \in named'
            OBVIOUS
        <3>2. /\ Entry \in File /\ Same(p.final, obs.after, Stat(Entry))
              /\ obs.after \in FileStat /\ obs.after.ino = obs.fd
              /\ p.final = p.after /\ p.after \in {"short", "public", "state"}
            BY <1>1, <1>3, <3>1 DEF ReadsInv, ObsTyped, Checked, Sound
        <3>3. /\ Stat(Entry) \in FileStat /\ Stat(Entry).ino = Entry
              /\ Stat(Entry).ctime = node[Entry].ctime /\ Stat(Entry).mtime = node[Entry].mtime
            BY <3>2, TypedFiles, StatTyped DEF ReadsInv
        <3>4. Entry = obs.fd
            BY <3>2, <3>3, SameSays
        <3>5. Kept(obs.after)
            <4>1. CASE p.final = "state"
                <5>1. obs.after.ctime = node[Entry].ctime
                    BY <3>2, <3>3, <4>1, SameSays
                <5>. QED
                    BY <3>2, <3>4, <5>1 DEF Kept
            <4>2. CASE p.final \in {"short", "public"}
                <5>1. obs.after.mtime = node[Entry].mtime
                    BY <3>2, <3>3, <4>2, SameSays
                <5>2. "times" \notin touched
                    BY <3>1, <3>2, <4>2 DEF TimesDeceive
                <5>. QED
                    BY <3>2, <3>4, <5>1, <5>2 DEF Kept
            <4>. QED
                BY <3>2, <4>1, <4>2
        <3>6. obs.raw = node[Entry].data
            BY <2>1, <3>1, <3>2, <3>4, <3>5
        <3>7. Entry' = Entry /\ node' = node
            BY <1>1 DEF Step, files, Entry
        <3>8. node[Entry].data \in named'
            BY <3>2, <3>7 DEF Observed
        <3>. QED
            BY <3>6, <3>8
    <2>3. /\ p.parent => "entry" \notin broken
          /\ p.rewalks => obs.raw \in walked
        BY <1>1 DEF FineInv, NotBroken
    <2>4. obs' = obs
        BY <1>1
    <2>. QED
        BY <2>1, <2>2, <2>3, <2>4 DEF FineInv, BytesKept, NotBroken
<1>. QED
    BY <1>2, <1>3

LEMMA ReadKeepsFineInv ==
    ASSUME ReadsInv, FineInv, Read, Observed
    PROVE  FineInv'
BY LookIsFine, OpenIsFine, FstatIsFine, FirstBlockIsFine, SecondBlockIsFine, AfterIsFine,
   HeldEntryIsFine, RewalkIsFine, FinalIsFine DEF Read, ReadBlock

LEMMA FineInvStep ==
    ASSUME ReadsInv, FineInv, FineClock, [ReadsNext]_readVars
    PROVE  FineInv'
<1>1. CASE Read /\ Observed
    BY <1>1, ReadKeepsFineInv
<1>2. CASE Others /\ Observed
    BY <1>2, OthersChange, ChangeKeepsFineInv DEF ReadsInv
<1>3. CASE UNCHANGED readVars
    <2>1. /\ node' = node /\ dir' = dir /\ parent' = parent /\ clock' = clock
          /\ events' = events /\ reader' = reader /\ pc' = pc /\ obs' = obs /\ named' = named
          /\ walked' = walked /\ held' = held /\ touched' = touched /\ broken' = broken
        BY <1>3 DEF readVars, files, reads, seen
    <2>2. p' = p
        BY <2>1 DEF p
    <2>3. BytesKept'
        BY <2>1, <2>2 DEF FineInv, BytesKept, Kept, TimesDeceive, Block
    <2>4. BreachShows'
        BY <2>1 DEF FineInv, BreachShows, Stat, DirStat, Entry
    <2>5. NotBroken'
        BY <2>1, <2>2 DEF FineInv, NotBroken
    <2>. QED
        BY <2>3, <2>4, <2>5 DEF FineInv
<1>. QED
    BY <1>1, <1>2, <1>3 DEF ReadsNext

\* With a time stamp of its own for every change, what was read is what the
\* file holds unless its times tell otherwise, and what went wrong between the
\* two fstats can still be seen.
THEOREM FineInvariant ==
    ASSUME FineClock
    PROVE  ReadsSpec => [](ReadsInv /\ FineInv)
<1>1. ReadsInit => ReadsInv /\ FineInv
    <2>1. ReadsInit => pc = "look" /\ broken = {}
        BY DEF ReadsInit
    <2>2. ReadsInit => FineInv
        BY <2>1 DEF FineInv, BytesKept, BreachShows, NotBroken, Watching, Between, Checked
    <2>. QED
        BY <2>2, ReadsInvStarts
<1>2. ReadsInv /\ FineInv /\ [ReadsNext]_readVars => (ReadsInv /\ FineInv)'
    BY ReadsInvStep, FineInvStep
<1>. QED
    BY <1>1, <1>2, PTL DEF ReadsSpec

\* The bytes a reader returns are one state of the opened file, never a mix of
\* two, and one that was at the path during the read.
THEOREM AcceptedIsTrueHolds ==
    ASSUME FineClock
    PROVE  ReadsSpec => []AcceptedIsTrue
<1>1. ReadsInv /\ FineInv => AcceptedIsTrue
    BY DEF FineInv, BytesKept, AcceptedIsTrue, AcceptedIsWhole, AcceptedWasNamed, Checked
<1>. QED
    BY <1>1, FineInvariant, PTL

\* A reader that holds the directory returns a file that was in it at every
\* instant of the read, one that demands a private file one that was private
\* all that time, and one that walks the path again what the path named, by
\* real directories, once it was read.
THEOREM HeldThroughoutHolds ==
    ASSUME FineClock
    PROVE  ReadsSpec => []HeldThroughout
<1>1. ReadsInv /\ FineInv => HeldThroughout
    BY DEF FineInv, NotBroken, HeldThroughout, PathHeld, PrivateThroughout, Checked
<1>. QED
    BY <1>1, FineInvariant, PTL

-----------------------------------------------------------------------------
(* The mounts: what the mount of a path and its prefixes are *)

\* A prefix, index by index.
LEMMA PrefixIs ==
    ASSUME NEW S, NEW s \in Seq(S), NEW t \in Seq(S)
    PROVE  IsPrefix(s, t) <=> Len(s) <= Len(t) /\ \A i \in 1..Len(s) : s[i] = t[i]
<1>1. Len(s) \in Nat /\ Len(t) \in Nat
    BY LenProperties
<1>2. SUFFICES ASSUME Len(s) <= Len(t)
               PROVE  SubSeq(s, 1, Len(s)) = SubSeq(t, 1, Len(s))
                          <=> \A i \in 1..Len(s) : s[i] = t[i]
    BY DEF IsPrefix
<1>. DEFINE a == SubSeq(s, 1, Len(s))
            b == SubSeq(t, 1, Len(s))
<1>3. /\ \A i \in 1..Len(s) : s[i] \in S
      /\ \A i \in 1..Len(s) : t[i] \in S
    BY <1>1, <1>2, ElementOfSeq
<1>4. a \in Seq(S) /\ Len(a) = Len(s) /\ \A i \in 1..Len(s) : a[i] = s[i]
    <2>1. /\ a \in Seq(S) /\ Len(a) = IF 1 <= Len(s) THEN Len(s) - 1 + 1 ELSE 0
          /\ \A i \in 1..Len(s) - 1 + 1 : a[i] = s[1 + i - 1]
        BY <1>1, <1>3, SubSeqProperties
    <2>. HIDE DEF a
    <2>. QED
        BY <1>1, <2>1
<1>5. b \in Seq(S) /\ Len(b) = Len(s) /\ \A i \in 1..Len(s) : b[i] = t[i]
    <2>1. /\ b \in Seq(S) /\ Len(b) = IF 1 <= Len(s) THEN Len(s) - 1 + 1 ELSE 0
          /\ \A i \in 1..Len(s) - 1 + 1 : b[i] = t[1 + i - 1]
        BY <1>1, <1>3, SubSeqProperties
    <2>. HIDE DEF b
    <2>. QED
        BY <1>1, <2>1
<1>6. a = b <=> \A i \in 1..Len(s) : a[i] = b[i]
    <2>. HIDE DEF a, b
    <2>. QED
        BY <1>4, <1>5, SeqEqual
<1>. QED
    BY <1>4, <1>5, <1>6

\* Two prefixes of one path: one is a prefix of the other.
LEMMA PrefixesOverlap ==
    ASSUME NEW S, NEW s \in Seq(S), NEW t \in Seq(S), NEW u \in Seq(S),
           IsPrefix(s, u), IsPrefix(t, u)
    PROVE  /\ IsPrefix(s, t) \/ IsPrefix(t, s)
           /\ Len(s) = Len(t) => s = t
<1>1. Len(s) \in Nat /\ Len(t) \in Nat
    BY LenProperties
<1>2. /\ \A i \in 1..Len(s) : s[i] = u[i]
      /\ \A i \in 1..Len(t) : t[i] = u[i]
    BY PrefixIs
<1>3. \/ Len(s) <= Len(t) /\ \A i \in 1..Len(s) : s[i] = t[i]
      \/ Len(t) <= Len(s) /\ \A i \in 1..Len(t) : t[i] = s[i]
    BY <1>1, <1>2
<1>4. Len(s) = Len(t) => s = t
    <2>1. Len(s) = Len(t) => \A i \in 1..Len(s) : s[i] = t[i]
        BY <1>2
    <2>. QED
        BY <2>1, SeqEqual
<1>. QED
    BY <1>3, <1>4, PrefixIs

\* What is below a point, put below another one.
PutBelow(outer, root, path, point) ==
    /\ Len(outer) = Len(root) + (Len(path) - Len(point))
    /\ \A i \in 1..Len(root) : outer[i] = root[i]
    /\ \A i \in 1..Len(path) - Len(point) : outer[Len(root) + i] = path[Len(point) + i]
    /\ IsPrefix(root, outer)
LEMMA BelowIs ==
    ASSUME NEW S, NEW path \in Seq(S), NEW point \in Seq(S), NEW root \in Seq(S),
           IsPrefix(point, path)
    PROVE  /\ root \o Below(path, point) \in Seq(S)
           /\ PutBelow(root \o Below(path, point), root, path, point)
<1>. DEFINE b == Below(path, point)
            k == Len(path) - Len(point)
<1>1. Len(path) \in Nat /\ Len(point) \in Nat /\ Len(root) \in Nat
    BY LenProperties
<1>2. Len(point) <= Len(path) /\ k \in Nat
    BY <1>1, PrefixIs
<1>3. \A i \in Len(point) + 1..Len(path) : path[i] \in S
    BY <1>1, <1>2, ElementOfSeq
<1>4. b \in Seq(S) /\ Len(b) = k /\ \A i \in 1..k : b[i] = path[Len(point) + i]
    <2>. DEFINE m == Len(point) + 1
                n == Len(path)
    <2>1. m \in Int /\ n \in Int /\ n - m + 1 = k /\ (m <= n <=> k # 0)
        BY <1>1, <1>2
    <2>2. \A i \in m..n : path[i] \in S
        BY <1>3
    <2>3. b = SubSeq(path, m, n)
        BY DEF Below
    <2>. HIDE DEF m, n, b, k
    <2>4. /\ b \in Seq(S) /\ Len(b) = IF m <= n THEN n - m + 1 ELSE 0
          /\ \A i \in 1..n - m + 1 : b[i] = path[m + i - 1]
        BY <2>1, <2>2, <2>3, SubSeqProperties
    <2>5. \A i \in 1..k : m + i - 1 = Len(point) + i
        BY <1>1 DEF m
    <2>. QED
        BY <1>2, <2>1, <2>4, <2>5
<1>. HIDE DEF b, k
<1>5. /\ root \o b \in Seq(S) /\ Len(root \o b) = Len(root) + k
      /\ \A i \in 1..Len(root) + k :
             (root \o b)[i] = IF i <= Len(root) THEN root[i] ELSE b[i - Len(root)]
    BY <1>4, ConcatProperties
<1>6. \A i \in 1..Len(root) : (root \o b)[i] = root[i]
    BY <1>1, <1>2, <1>5
<1>7. \A i \in 1..k : (root \o b)[Len(root) + i] = path[Len(point) + i]
    BY <1>1, <1>2, <1>4, <1>5
<1>8. IsPrefix(root, root \o b)
    <2>1. Len(root) <= Len(root \o b)
        BY <1>1, <1>2, <1>5
    <2>2. \A i \in 1..Len(root) : root[i] = (root \o b)[i]
        BY <1>6
    <2>. QED
        BY <1>5, <2>1, <2>2, PrefixIs
<1>. QED
    BY <1>5, <1>6, <1>7, <1>8 DEF b, k, PutBelow

\* A path whose part below a point begins with another path's begins with it.
LEMMA BelowKeepsPrefix ==
    ASSUME NEW S, NEW path \in Seq(S), NEW target \in Seq(S), NEW point \in Seq(S),
           NEW root \in Seq(S), IsPrefix(point, path), IsPrefix(point, target),
           IsPrefix(root \o Below(target, point), root \o Below(path, point))
    PROVE  IsPrefix(target, path)
<1>. DEFINE inner == root \o Below(target, point)
            outer == root \o Below(path, point)
<1>1. /\ Len(path) \in Nat /\ Len(target) \in Nat /\ Len(point) \in Nat /\ Len(root) \in Nat
    BY LenProperties
<1>2. /\ Len(point) <= Len(path) /\ \A i \in 1..Len(point) : point[i] = path[i]
      /\ Len(point) <= Len(target) /\ \A i \in 1..Len(point) : point[i] = target[i]
    BY PrefixIs
<1>3. /\ inner \in Seq(S) /\ Len(inner) = Len(root) + (Len(target) - Len(point))
      /\ \A i \in 1..Len(target) - Len(point) : inner[Len(root) + i] = target[Len(point) + i]
    <2>1. inner \in Seq(S) /\ PutBelow(inner, root, target, point)
        BY BelowIs, Zenon
    <2>. QED
        BY <2>1, Zenon DEF PutBelow
<1>4. /\ outer \in Seq(S) /\ Len(outer) = Len(root) + (Len(path) - Len(point))
      /\ \A i \in 1..Len(path) - Len(point) : outer[Len(root) + i] = path[Len(point) + i]
    <2>1. outer \in Seq(S) /\ PutBelow(outer, root, path, point)
        BY BelowIs, Zenon
    <2>. QED
        BY <2>1, Zenon DEF PutBelow
<1>. HIDE DEF inner, outer
<1>5. Len(inner) <= Len(outer) /\ \A i \in 1..Len(inner) : inner[i] = outer[i]
    <2>1. IsPrefix(inner, outer)
        BY DEF inner, outer
    <2>. QED
        BY <1>3, <1>4, <2>1, PrefixIs
<1>6. Len(target) <= Len(path)
    BY <1>1, <1>3, <1>4, <1>5
<1>7. ASSUME NEW i \in 1..Len(target)
      PROVE  target[i] = path[i]
    <2>1. CASE i <= Len(point)
        BY <1>1, <1>2, <2>1
    <2>2. CASE i > Len(point)
        <3>. DEFINE j == i - Len(point)
        <3>1. /\ j \in 1..Len(target) - Len(point) /\ j \in 1..Len(path) - Len(point)
              /\ Len(point) + j = i /\ Len(root) + j \in 1..Len(inner)
            BY <1>1, <1>3, <1>6, <2>2
        <3>. HIDE DEF j
        <3>. QED
            BY <1>3, <1>4, <1>5, <3>1
    <2>. QED
        BY <1>1, <2>1, <2>2
<1>. QED
    BY <1>6, <1>7, PrefixIs

-----------------------------------------------------------------------------
(* The mounts: an accepted one shows its directory nowhere else *)

MountTable(ms, names) == \A m \in ms : m.point \in Seq(names) /\ m.root \in Seq(names)

\* The mount that a walk along a path ends in contains the path.
LEMMA SeenContains ==
    ASSUME NEW names, NEW ms, MountTable(ms, names), NEW path \in Seq(names),
           NEW m \in Seen(path, ms)
    PROVE  m \in ms /\ IsPrefix(m.point, path)
<1>. DEFINE containing == {n \in ms : Within(path, n.point)}
<1>1. m \in Passed(path, ms)
    BY DEF Seen
<1>2. \A n \in Root(ms) : IsPrefix(n.point, path)
    <2>1. /\ << >> \in Seq(names) /\ Len(<< >>) = 0 /\ Len(path) \in Nat
        BY LenProperties, EmptySeq
    <2>2. Len(<< >>) <= Len(path) /\ \A i \in 1..Len(<< >>) : << >>[i] = path[i]
        BY <2>1
    <2>3. IsPrefix(<< >>, path)
        BY <2>1, <2>2, PrefixIs, Zenon
    <2>. QED
        BY <2>3, Zenon DEF Root
<1>3. Root(ms) \subseteq containing
    BY <1>2 DEF Root, Within
<1>4. \A n \in containing : Entered(n, path, ms) \subseteq containing
    BY DEF Entered
<1>5. m \in containing
    BY <1>1, <1>3, <1>4 DEF Passed
<1>. QED
    BY <1>5 DEF Within

\* No path outside the target leads to a file of an accepted target, if the
\* record of its mount is of the mount that it is seen through.
LEMMA RecordHasNoAlias ==
    ASSUME NEW names, NEW ms, MountTable(ms, names), NEW target \in Seq(names),
           MountRecord(target, ms) # NoMount, Seen(target, ms) = {MountRecord(target, ms)},
           NEW path \in Seq(names)
    PROVE  ~Aliased(path, target, ms)
<1>. DEFINE containing == {a \in {n \in ms : Overlap(n.point, target)} : Within(target, a.point)}
            m == Deepest(containing)
<1>1. /\ MountRecord(target, ms) = m
      /\ \A a \in ms \ {m} : a.dev = m.dev => ~Overlap(a.root, m.root \o Below(target, m.point))
    BY DEF MountRecord
<1>. HIDE DEF m
<1>2. SUFFICES ASSUME NEW v \in Seen(path, ms), ~IsPrefix(target, path), v.dev = m.dev,
                      IsPrefix(Inner(m, target), Inner(v, path))
               PROVE  FALSE
    BY <1>1 DEF Aliased, Within
<1>. DEFINE inner == m.root \o Below(target, m.point)
            outer == v.root \o Below(path, v.point)
<1>3. IsPrefix(inner, outer)
    BY <1>2 DEF Inner
<1>4. /\ m \in ms /\ IsPrefix(m.point, target)
      /\ v \in ms /\ IsPrefix(v.point, path)
    BY <1>1, SeenContains
<1>5. /\ m.point \in Seq(names) /\ m.root \in Seq(names)
      /\ v.point \in Seq(names) /\ v.root \in Seq(names)
    BY <1>4 DEF MountTable
<1>6. /\ inner \in Seq(names)
      /\ outer \in Seq(names) /\ PutBelow(outer, v.root, path, v.point)
    BY <1>4, <1>5, BelowIs
<1>7. CASE v = m
    BY <1>2, <1>3, <1>4, <1>5, <1>7, BelowKeepsPrefix
<1>8. CASE v # m
    <2>. HIDE DEF inner, outer
    <2>1. IsPrefix(v.root, outer)
        BY <1>6 DEF PutBelow
    <2>2. IsPrefix(v.root, inner) \/ IsPrefix(inner, v.root)
        BY <1>3, <1>5, <1>6, <2>1, PrefixesOverlap
    <2>3. ~Overlap(v.root, inner)
        BY <1>1, <1>2, <1>4, <1>8 DEF inner
    <2>. QED
        BY <2>2, <2>3 DEF Overlap, Within
<1>. QED
    BY <1>7, <1>8

-----------------------------------------------------------------------------
(* The protected host: the invariant *)

\* The calls that have the archive open, that have listed it, that have looked
\* at every entry once, and twice.
TwiceSeen == {"listed", "mount again", "root again", "walk", "bound"}
OnceSeen == {"again"} \union TwiceSeen
ListedOnce == {"first"} \union OnceSeen
ArchiveOpen == {"mount", "list"} \union ListedOnce
EarlyStages == {"load", "service", "legacy", "root", "open", "mount", "list"}
LateStages == {"evidence", "read", "boot", "passed"}
Stages ==
    {"idle", "load", "service", "legacy", "root", "open", "failed", "emitted"}
        \union ArchiveOpen \union LateStages

Present == {n \in Name : archive.entry[n] # Gone}
HostFramed ==
    /\ stage \in Stages /\ mode \in {"live", "emit"} /\ disturbed \in BOOLEAN
    /\ changes \in 0..MaxChanges /\ boot \in Nat \ {0} /\ now \in Nat
    /\ unit = [u \in {"service", "legacy"} |-> unit[u]]
    /\ archive = [place |-> archive.place, link |-> archive.link, stamp |-> archive.stamp,
                  entry |-> archive.entry]
    /\ archive.link \in BOOLEAN
    /\ archive.stamp \in 0..changes
    /\ archive.entry \in [Name -> 0..Gone]
    /\ \A n \in Name : archive.entry[n] \in 0..changes \union {Gone}
    /\ contract = [present |-> TRUE, binding |-> contract.binding, evidence |-> contract.evidence]
    /\ evidence = [version |-> evidence.version, boot |-> evidence.boot,
                   created |-> evidence.created, present |-> TRUE]
    /\ evidence.created \in Nat
    /\ evidence.version = 0 => evidence.boot = 0
    /\ have = [contract |-> have.contract, root |-> have.root, mount |-> have.mount,
               todo |-> have.todo, first |-> have.first, again |-> have.again,
               started |-> have.started, evidence |-> have.evidence, began |-> have.began]
MountsKept == MountTable(mounts, STRING)

\* What the opened archive has shown so far.
OpenedArchive ==
    /\ stage \in ArchiveOpen => have.root.stamp \in 0..changes /\ Snapshot \in snaps
    /\ stage = "list" => have.mount # NoMount
    /\ stage \in ListedOnce =>
          /\ have.started \in 0..changes
          /\ archive.stamp = have.root.stamp => have.started = have.root.stamp
    /\ stage = "first" =>
          /\ have.todo \subseteq have.again /\ have.again \subseteq Name
          /\ have.first \in [have.again \ have.todo -> 0..changes]
          /\ archive.stamp = have.started => have.again = Present

EntriesUnseen == stage \in EarlyStages => have.first = << >>

\* The instant at which the second look began: no entry that still is as it
\* was seen has changed since, nor the directory if its stamp is the same.
Instant(s) ==
    /\ archive.stamp = have.started => s.stamp = have.started
    /\ s.stamp = have.started => {n \in Name : s.entry[n] # Gone} = DOMAIN have.first
    /\ \A n \in DOMAIN have.first : archive.entry[n] = have.first[n] => s.entry[n] = have.first[n]
    /\ stage = "again" =>
          \A n \in DOMAIN have.first \ have.again : s.entry[n] = have.first[n]
    /\ stage \in TwiceSeen => \A n \in DOMAIN have.first : s.entry[n] = have.first[n]
    /\ stage \in TwiceSeen \ {"listed"} => s.stamp = have.started
    /\ stage \in {"walk", "bound"} => have.started = have.root.stamp
InstantSeen ==
    stage \in OnceSeen =>
        /\ DOMAIN have.first \subseteq Name /\ have.first \in [DOMAIN have.first -> 0..changes]
        /\ \E s \in snaps : Instant(s)

HostInv == HostFramed /\ MountsKept /\ OpenedArchive /\ EntriesUnseen /\ InstantSeen

\* What a check found out so far, if nothing changed since it began.
Undisturbed == ~disturbed /\ mode = "live"
Found ==
    /\ stage \notin {"idle", "load", "failed"} =>
          have.contract = contract /\ contract.binding # {}
    /\ stage \notin {"idle", "load", "failed", "service"} => unit["service"] = "active"
    /\ stage \notin {"idle", "load", "failed", "service", "legacy"} => unit["legacy"] = "inactive"
    /\ stage \in {"open"} \union ArchiveOpen \union LateStages =>
          ~archive.link /\ OnMount(MountRecord(Target, mounts))
    /\ stage \in ArchiveOpen => have.root = RootStat
    /\ stage \in {"list"} \union ListedOnce => have.mount = MountRecord(Target, mounts)
    /\ stage \in ListedOnce \union LateStages => Present # {}
    /\ stage \in ListedOnce => have.started = archive.stamp
    /\ stage = "first" =>
          /\ have.again = Present /\ have.todo \subseteq Present
          /\ have.first = [n \in Present \ have.todo |-> archive.entry[n]]
    /\ stage \in OnceSeen => have.first = [n \in Present |-> archive.entry[n]]
    /\ stage = "again" => have.again \subseteq Present
    /\ stage \in LateStages =>
          contract.binding = {Fingerprint(RootStat, MountRecord(Target, mounts),
                                          [n \in Present |-> archive.entry[n]])}
    /\ stage \in {"read", "boot"} => have.began = now
    /\ stage \in {"boot", "passed"} => evidence.version = contract.evidence
    /\ stage = "boot" => have.evidence = evidence
    /\ stage = "emitted" => FALSE
    /\ stage = "failed" => ~Right
    /\ stage = "passed" => Right
FoundInv == Undisturbed => Found

-----------------------------------------------------------------------------
(* The protected host: each call of the check keeps the invariant *)

HaveFramed(h) ==
    h = [contract |-> h.contract, root |-> h.root, mount |-> h.mount, todo |-> h.todo,
         first |-> h.first, again |-> h.again, started |-> h.started, evidence |-> h.evidence,
         began |-> h.began]

\* The host stays as it is while the check takes a step.
LEMMA CheckFramed ==
    ASSUME HostInv, UNCHANGED <<host, contract, evidence, changes>>,
           stage' \in Stages, mode' \in {"live", "emit"}, disturbed' \in BOOLEAN,
           HaveFramed(have')
    PROVE  HostFramed' /\ MountsKept'
<1>1. /\ unit' = unit /\ archive' = archive /\ mounts' = mounts /\ boot' = boot /\ now' = now
      /\ contract' = contract /\ evidence' = evidence /\ changes' = changes
    BY DEF host
<1>2. HostFramed'
    BY <1>1 DEF HostInv, HostFramed, HaveFramed
<1>3. MountsKept'
    BY <1>1 DEF HostInv, MountsKept
<1>. QED
    BY <1>2, <1>3

\* A check that does not have the archive open claims nothing about it.
LEMMA NotOpen ==
    ASSUME stage' \notin ArchiveOpen
    PROVE  OpenedArchive' /\ InstantSeen'
BY DEF OpenedArchive, InstantSeen, ArchiveOpen, ListedOnce, OnceSeen, TwiceSeen

\* A step of the check outside the archive.
LEMMA OutsideKeeps ==
    ASSUME HostInv, UNCHANGED <<host, contract, evidence, changes>>,
           mode' \in {"live", "emit"}, disturbed' \in BOOLEAN,
           stage' \in Stages \ ArchiveOpen, HaveFramed(have'), EntriesUnseen'
    PROVE  HostInv'
BY CheckFramed, NotOpen DEF HostInv

\* What assignments to what the check holds leave alone.
LEMMA FieldSet ==
    ASSUME NEW h, HaveFramed(h), NEW v
    PROVE  /\ HaveFramed([h EXCEPT !.contract = v])
           /\ HaveFramed([h EXCEPT !.began = v])
           /\ HaveFramed([h EXCEPT !.evidence = v])
           /\ HaveFramed([h EXCEPT !.root = v])
           /\ HaveFramed([h EXCEPT !.mount = v])
           /\ HaveFramed([h EXCEPT !.todo = v])
           /\ HaveFramed([h EXCEPT !.first = v])
           /\ HaveFramed([h EXCEPT !.again = v])
           /\ HaveFramed([h EXCEPT !.started = v])
<1>1. HaveFramed([h EXCEPT !.contract = v])
    BY DEF HaveFramed
<1>2. HaveFramed([h EXCEPT !.began = v])
    BY DEF HaveFramed
<1>3. HaveFramed([h EXCEPT !.evidence = v])
    BY DEF HaveFramed
<1>4. HaveFramed([h EXCEPT !.root = v])
    BY DEF HaveFramed
<1>5. HaveFramed([h EXCEPT !.mount = v])
    BY DEF HaveFramed
<1>6. HaveFramed([h EXCEPT !.todo = v])
    BY DEF HaveFramed
<1>7. HaveFramed([h EXCEPT !.first = v])
    BY DEF HaveFramed
<1>8. HaveFramed([h EXCEPT !.again = v])
    BY DEF HaveFramed
<1>9. HaveFramed([h EXCEPT !.started = v])
    BY DEF HaveFramed
<1>. QED
    BY <1>1, <1>2, <1>3, <1>4, <1>5, <1>6, <1>7, <1>8, <1>9, Zenon

LEMMA FieldsSet ==
    ASSUME NEW h, HaveFramed(h), NEW v, NEW w, NEW x
    PROVE  /\ HaveFramed([h EXCEPT !.todo = v, !.first = w])
           /\ HaveFramed([h EXCEPT !.todo = v, !.again = w, !.started = x])
<1>. DEFINE g == [h EXCEPT !.todo = v]
            e == [g EXCEPT !.again = w]
<1>1. h = [k \in DOMAIN h |-> h[k]]
    BY DEF HaveFramed
<1>2. /\ [h EXCEPT !.todo = v, !.first = w] = [g EXCEPT !.first = w]
      /\ [h EXCEPT !.todo = v, !.again = w, !.started = x] = [e EXCEPT !.started = x]
    BY <1>1
<1>3. HaveFramed(g)
    BY FieldSet
<1>. HIDE DEF g
<1>4. HaveFramed(e)
    BY <1>3, FieldSet
<1>. HIDE DEF e
<1>. QED
    BY <1>2, <1>3, <1>4, FieldSet

\* What a call leaves alone.
LEMMA GotoDoes ==
    ASSUME NEW from, NEW ok, NEW to, Goto(from, ok, to), HostInv
    PROVE  /\ stage = from /\ stage' = IF ok THEN to ELSE "failed"
           /\ UNCHANGED <<host, contract, evidence, changes, snaps>>
           /\ mode' \in {"live", "emit"} /\ disturbed' \in BOOLEAN
           /\ archive' = archive /\ mounts' = mounts /\ snaps' = snaps
           /\ HaveFramed(have)
BY DEF Goto, ceremony, host, HostInv, HostFramed, HaveFramed

LEMMA BeginKeeps ==
    ASSUME HostInv, Begin
    PROVE  HostInv'
<1>1. /\ UNCHANGED <<host, contract, evidence, changes>>
      /\ stage' = "load" /\ mode' \in {"live", "emit"} /\ disturbed' \in BOOLEAN
      /\ have' = NothingHeld
    BY DEF Begin, ceremony
<1>2. stage' \in Stages \ ArchiveOpen
    BY <1>1 DEF Stages, ArchiveOpen, ListedOnce, OnceSeen, TwiceSeen
<1>3. HaveFramed(have')
    BY <1>1 DEF NothingHeld, HaveFramed
<1>4. EntriesUnseen'
    BY <1>1 DEF NothingHeld, EntriesUnseen
<1>. QED
    BY <1>1, <1>2, <1>3, <1>4, OutsideKeeps

\* A call outside the archive that holds on to nothing.
LEMMA OutsideCallKeeps ==
    ASSUME HostInv, NEW from, NEW ok, NEW to \in Stages \ ArchiveOpen, Goto(from, ok, to),
           to \in EarlyStages => from \in EarlyStages,
           HaveFramed(have) => HaveFramed(have') /\ have'.first = have.first
    PROVE  HostInv'
<1>1. /\ stage = from /\ stage' = IF ok THEN to ELSE "failed"
      /\ UNCHANGED <<host, contract, evidence, changes>> /\ HaveFramed(have)
      /\ mode' \in {"live", "emit"} /\ disturbed' \in BOOLEAN
    BY GotoDoes
<1>2. "failed" \in Stages \ ArchiveOpen /\ "failed" \notin EarlyStages
    BY DEF Stages, ArchiveOpen, ListedOnce, OnceSeen, TwiceSeen, EarlyStages
<1>3. stage' \in Stages \ ArchiveOpen
    BY <1>1, <1>2
<1>4. EntriesUnseen'
    BY <1>1, <1>2 DEF HostInv, EntriesUnseen
<1>. QED
    BY <1>1, <1>3, <1>4, OutsideKeeps

LEMMA EarlyNames ==
    /\ "load" \in EarlyStages /\ "service" \in EarlyStages /\ "legacy" \in EarlyStages
    /\ "root" \in EarlyStages /\ EarlyStages \cap (LateStages \union {"emitted"}) = {}
BY DEF EarlyStages, LateStages

LEMMA LoadKeeps ==
    ASSUME HostInv, Load
    PROVE  HostInv'
<1>. DEFINE ok == IF mode = "emit" THEN contract.present /\ contract.binding = {}
                  ELSE contract.evidence # 0 /\ (contract.present => contract.binding # {})
            to == IF mode = "emit" THEN "root" ELSE "service"
<1>1. Goto("load", ok, to) /\ have' = [have EXCEPT !.contract = contract]
    BY DEF Load
<1>2. to \in Stages \ ArchiveOpen
    BY DEF Stages, ArchiveOpen, ListedOnce, OnceSeen, TwiceSeen
<1>. HIDE DEF ok, to
<1>3. HaveFramed(have) => HaveFramed(have') /\ have'.first = have.first
    BY <1>1, FieldSet DEF HaveFramed
<1>. QED
    BY <1>1, <1>2, <1>3, EarlyNames, OutsideCallKeeps

LEMMA ProbeUnitsKeep ==
    ASSUME HostInv, ProbeUnits
    PROVE  HostInv'
<1>. DEFINE next == IF have.contract.present THEN "root" ELSE "evidence"
<1>1. next \in Stages \ ArchiveOpen /\ "legacy" \in Stages \ ArchiveOpen
    BY DEF Stages, ArchiveOpen, ListedOnce, OnceSeen, TwiceSeen, LateStages
<1>. HIDE DEF next
<1>2. CASE ProbeUnit("service", "legacy")
    BY <1>1, <1>2, EarlyNames, OutsideCallKeeps DEF ProbeUnit, Holding
<1>3. CASE ProbeUnit("legacy", next)
    BY <1>1, <1>3, EarlyNames, OutsideCallKeeps DEF ProbeUnit, Holding
<1>. QED
    BY <1>2, <1>3 DEF ProbeUnits, next

LEMMA RootIssuesKeep ==
    ASSUME HostInv, RootIssues
    PROVE  HostInv'
<1>1. "open" \in Stages \ ArchiveOpen
    BY DEF Stages, ArchiveOpen, ListedOnce, OnceSeen, TwiceSeen
<1>. QED
    BY <1>1, EarlyNames, OutsideCallKeeps DEF RootIssues, Holding

LEMMA LateCallsKeep ==
    ASSUME HostInv, Bound \/ Emit \/ ReadClock \/ ReadEvidence \/ Judge
    PROVE  HostInv'
<1>1. LateStages \union {"emitted"} \subseteq Stages \ ArchiveOpen
    BY DEF Stages, ArchiveOpen, ListedOnce, OnceSeen, TwiceSeen, LateStages
<1>2. /\ "evidence" \in LateStages /\ "read" \in LateStages
      /\ "boot" \in LateStages /\ "passed" \in LateStages
    BY DEF LateStages
<1>3. CASE Bound
    BY <1>1, <1>2, <1>3, EarlyNames, OutsideCallKeeps DEF Bound, Holding
<1>4. CASE Emit
    <2>1. /\ UNCHANGED <<host, contract, evidence, changes, mode, disturbed>>
          /\ stage' = "emitted" /\ have' = have
        BY <1>4 DEF Emit
    <2>2. mode' \in {"live", "emit"} /\ disturbed' \in BOOLEAN /\ HaveFramed(have')
        BY <2>1 DEF HostInv, HostFramed, HaveFramed
    <2>3. EntriesUnseen'
        BY <2>1, EarlyNames DEF EntriesUnseen
    <2>. QED
        BY <1>1, <2>1, <2>2, <2>3, OutsideKeeps
<1>5. CASE ReadClock
    <2>1. Goto("evidence", TRUE, "read") /\ have' = [have EXCEPT !.began = now]
        BY <1>5 DEF ReadClock
    <2>2. HaveFramed(have) => HaveFramed(have') /\ have'.first = have.first
        BY <2>1, FieldSet DEF HaveFramed
    <2>. QED
        BY <1>1, <1>2, <2>1, <2>2, EarlyNames, OutsideCallKeeps
<1>6. CASE ReadEvidence
    <2>1. have' = [have EXCEPT !.evidence = evidence]
        BY <1>6 DEF ReadEvidence
    <2>2. HaveFramed(have) => HaveFramed(have') /\ have'.first = have.first
        BY <2>1, FieldSet DEF HaveFramed
    <2>. QED
        BY <1>1, <1>2, <1>6, <2>2, EarlyNames, OutsideCallKeeps DEF ReadEvidence
<1>7. CASE Judge
    BY <1>1, <1>2, <1>7, EarlyNames, OutsideCallKeeps DEF Judge, Holding
<1>. QED
    BY <1>3, <1>4, <1>5, <1>6, <1>7

-----------------------------------------------------------------------------
(* The protected host: the archive while nobody changes it *)

\* A call on the open archive.
LEMMA ArchiveCallKeeps ==
    ASSUME HostInv, NEW from, NEW ok, NEW to \in Stages, Goto(from, ok, to),
           HaveFramed(have) => HaveFramed(have'),
           ok => OpenedArchive' /\ EntriesUnseen' /\ InstantSeen'
    PROVE  HostInv'
<1>1. /\ stage' = IF ok THEN to ELSE "failed"
      /\ UNCHANGED <<host, contract, evidence, changes>> /\ HaveFramed(have)
      /\ mode' \in {"live", "emit"} /\ disturbed' \in BOOLEAN
    BY GotoDoes
<1>2. "failed" \in Stages \ ArchiveOpen
    BY DEF Stages, ArchiveOpen, ListedOnce, OnceSeen, TwiceSeen
<1>3. HostFramed' /\ MountsKept'
    BY <1>1, <1>2, CheckFramed
<1>4. CASE ok
    BY <1>3, <1>4 DEF HostInv
<1>5. CASE ~ok
    BY <1>1, <1>2, <1>3, <1>5, NotOpen DEF HostInv, EntriesUnseen, EarlyStages
<1>. QED
    BY <1>4, <1>5

LEMMA OpenArchiveKeeps ==
    ASSUME HostInv, OpenArchive
    PROVE  HostInv'
<1>1. /\ UNCHANGED <<host, contract, evidence, changes, mode, disturbed>>
      /\ archive' = archive /\ changes' = changes
      /\ stage' \in {"failed", "mount"}
      /\ have' = [have EXCEPT !.root = RootStat] /\ snaps' = {Snapshot}
    BY DEF OpenArchive, ceremony, host
<1>2. stage' \in Stages /\ mode' \in {"live", "emit"} /\ disturbed' \in BOOLEAN
    BY <1>1 DEF HostInv, HostFramed, Stages, ArchiveOpen
<1>3. HaveFramed(have')
    BY <1>1, FieldSet DEF HostInv, HostFramed, HaveFramed
<1>4. have'.root.stamp \in 0..changes
    BY <1>1 DEF HostInv, HostFramed, RootStat
<1>5. OpenedArchive'
    BY <1>1, <1>4 DEF OpenedArchive, ArchiveOpen, ListedOnce, OnceSeen, TwiceSeen, Snapshot
<1>6. InstantSeen'
    BY <1>1 DEF InstantSeen, OnceSeen, TwiceSeen
<1>7. stage = "open" /\ HaveFramed(have)
    BY DEF OpenArchive, HostInv, HostFramed, HaveFramed
<1>8. EntriesUnseen'
    BY <1>1, <1>7 DEF HostInv, EntriesUnseen, EarlyStages, HaveFramed
<1>. QED
    BY <1>1, <1>2, <1>3, <1>5, <1>6, <1>8, CheckFramed DEF HostInv

LEMMA MountBeforeKeeps ==
    ASSUME HostInv, MountBefore
    PROVE  HostInv'
<1>. DEFINE m == MountRecord(Target, mounts)
            ok == m # NoMount /\ m.dev = have.root.ino.dev
<1>1. Goto("mount", ok, "list") /\ have' = [have EXCEPT !.mount = m]
    BY DEF MountBefore
<1>. HIDE DEF m
<1>2. "list" \in Stages /\ "mount" \in ArchiveOpen
    BY DEF Stages, ArchiveOpen
<1>3. HaveFramed(have) => HaveFramed(have')
    BY <1>1, FieldSet
<1>4. ASSUME ok
      PROVE  OpenedArchive' /\ EntriesUnseen' /\ InstantSeen'
    <2>1. /\ stage = "mount" /\ stage' = "list"
          /\ archive' = archive /\ changes' = changes /\ snaps' = snaps /\ HaveFramed(have)
        BY <1>1, <1>4, GotoDoes
    <2>2. have'.root = have.root /\ have'.mount = m /\ have'.first = have.first
        BY <1>1, <2>1 DEF HaveFramed
    <2>3. have.root.stamp \in 0..changes /\ Snapshot \in snaps
        BY <1>2, <2>1 DEF HostInv, OpenedArchive
    <2>4. OpenedArchive'
        BY <1>4, <2>1, <2>2, <2>3 DEF OpenedArchive, ListedOnce, OnceSeen, TwiceSeen, Snapshot
    <2>5. InstantSeen'
        BY <2>1 DEF InstantSeen, OnceSeen, TwiceSeen
    <2>6. EntriesUnseen'
        BY <2>1, <2>2 DEF HostInv, EntriesUnseen, EarlyStages
    <2>. QED
        BY <2>4, <2>5, <2>6
<1>. HIDE DEF ok
<1>. QED
    BY <1>1, <1>2, <1>3, <1>4, ArchiveCallKeeps

LEMMA ListKeeps ==
    ASSUME HostInv, List
    PROVE  HostInv'
<1>1. /\ Goto("list", Present # {}, "first")
      /\ have' = [have EXCEPT !.todo = Present, !.again = Present, !.started = archive.stamp]
    BY DEF List, Present
<1>2. "first" \in Stages /\ "list" \in ArchiveOpen
    BY DEF Stages, ArchiveOpen, ListedOnce
<1>3. HaveFramed(have) => HaveFramed(have')
    BY <1>1, FieldsSet
<1>4. ASSUME Present # {}
      PROVE  OpenedArchive' /\ EntriesUnseen' /\ InstantSeen'
    <2>1. /\ stage = "list" /\ stage' = "first"
          /\ archive' = archive /\ changes' = changes /\ snaps' = snaps /\ HaveFramed(have)
        BY <1>1, <1>4, GotoDoes
    <2>2. /\ have'.root = have.root /\ have'.todo = Present /\ have'.again = Present
          /\ have'.started = archive.stamp /\ have'.first = have.first
        BY <1>1, <2>1 DEF HaveFramed
    <2>3. have.root.stamp \in 0..changes /\ Snapshot \in snaps /\ archive.stamp \in 0..changes
        BY <1>2, <2>1 DEF HostInv, OpenedArchive, HostFramed
    <2>4. have.first = << >>
        BY <2>1 DEF HostInv, EntriesUnseen, EarlyStages
    <2>5. << >> \in [Present \ Present -> 0..changes]
        OBVIOUS
    <2>6. OpenedArchive'
        BY <2>1, <2>2, <2>3, <2>4, <2>5
        DEF OpenedArchive, ListedOnce, OnceSeen, TwiceSeen, Snapshot, Present
    <2>. QED
        BY <2>1, <2>6 DEF InstantSeen, EntriesUnseen, EarlyStages, OnceSeen, TwiceSeen
<1>. QED
    BY <1>1, <1>2, <1>3, <1>4, ArchiveCallKeeps

LEMMA StatEntryKeeps ==
    ASSUME HostInv, NEW n \in Name, StatEntry(n)
    PROVE  HostInv'
<1>. DEFINE ok == archive.entry[n] # Gone
            to == IF have.todo = {n} THEN "again" ELSE "first"
            first == [k \in DOMAIN have.first \union {n} |->
                         IF k = n THEN archive.entry[n] ELSE have.first[k]]
            todo == have.todo \ {n}
<1>1. /\ n \in have.todo /\ Goto("first", ok, to)
      /\ have' = [have EXCEPT !.todo = todo, !.first = first]
    BY DEF StatEntry
<1>2. /\ to \in Stages /\ "first" \in ListedOnce /\ "first" \in ArchiveOpen /\ to \in {"again", "first"}
      /\ to = "again" => have.todo = {n}
    BY DEF Stages, ArchiveOpen, ListedOnce, OnceSeen
<1>. HIDE DEF first, todo, to
<1>3. HaveFramed(have) => HaveFramed(have')
    BY <1>1, FieldsSet
<1>4. ASSUME ok
      PROVE  OpenedArchive' /\ EntriesUnseen' /\ InstantSeen'
    <2>1. /\ stage = "first" /\ stage' = to
          /\ archive' = archive /\ changes' = changes /\ snaps' = snaps /\ HaveFramed(have)
        BY <1>1, <1>4, GotoDoes
    <2>2. /\ have'.root = have.root /\ have'.todo = todo /\ have'.first = first
          /\ have'.again = have.again /\ have'.started = have.started
        BY <1>1, <2>1 DEF HaveFramed
    <2>3. /\ have.root.stamp \in 0..changes /\ Snapshot \in snaps
          /\ have.started \in 0..changes
          /\ archive.stamp = have.root.stamp => have.started = have.root.stamp
          /\ have.todo \subseteq have.again /\ have.again \subseteq Name
          /\ have.first \in [have.again \ have.todo -> 0..changes]
          /\ archive.stamp = have.started => have.again = Present
        BY <1>2, <2>1 DEF HostInv, OpenedArchive
    <2>4. archive.entry[n] \in 0..changes
        BY <1>4 DEF HostInv, HostFramed
    <2>5. /\ DOMAIN have.first = have.again \ have.todo
          /\ \A k \in have.again \ have.todo : have.first[k] \in 0..changes
        BY <2>3
    <2>6. (DOMAIN have.first) \union {n} = have.again \ todo /\ todo \subseteq have.again
        BY <1>1, <2>3, <2>5 DEF todo
    <2>7. first \in [have.again \ todo -> 0..changes]
        BY <2>4, <2>5, <2>6 DEF first
    <2>8. OpenedArchive'
        BY <1>2, <2>1, <2>2, <2>3, <2>6, <2>7
        DEF OpenedArchive, ListedOnce, OnceSeen, TwiceSeen, Snapshot, Present
    <2>9. InstantSeen'
        <3>1. SUFFICES ASSUME to = "again"
                       PROVE  InstantSeen'
            BY <1>2, <2>1 DEF InstantSeen, OnceSeen, TwiceSeen
        <3>2. todo = {} /\ DOMAIN first = have.again /\ first \in [have.again -> 0..changes]
            BY <1>2, <2>7, <3>1 DEF todo
        <3>3. /\ Snapshot.stamp = archive.stamp /\ Snapshot.entry = archive.entry
            BY DEF Snapshot
        <3>. QED
            BY <2>1, <2>2, <2>3, <3>1, <3>2, <3>3
            DEF InstantSeen, Instant, OnceSeen, TwiceSeen, Present
    <2>. QED
        BY <1>2, <2>1, <2>8, <2>9 DEF EntriesUnseen, EarlyStages
<1>. HIDE DEF ok
<1>. QED
    BY <1>1, <1>2, <1>3, <1>4, ArchiveCallKeeps

\* What the archive shows while the entries are looked at again.
LEMMA OpenedStays ==
    ASSUME HostInv, stage \in OnceSeen, stage' \in OnceSeen,
           archive' = archive, changes' = changes, snaps' = snaps,
           have'.root = have.root, have'.started = have.started
    PROVE  OpenedArchive' /\ EntriesUnseen'
<1>1. /\ OnceSeen \subseteq ArchiveOpen /\ OnceSeen \subseteq ListedOnce
      /\ "list" \notin OnceSeen /\ "first" \notin OnceSeen /\ OnceSeen \cap EarlyStages = {}
    BY DEF OnceSeen, TwiceSeen, ListedOnce, ArchiveOpen, EarlyStages
<1>2. /\ have.root.stamp \in 0..changes /\ Snapshot \in snaps
      /\ have.started \in 0..changes
      /\ archive.stamp = have.root.stamp => have.started = have.root.stamp
    BY <1>1 DEF HostInv, OpenedArchive
<1>. QED
    BY <1>1, <1>2 DEF OpenedArchive, Snapshot, EntriesUnseen

LEMMA StatAgainKeeps ==
    ASSUME HostInv, NEW n \in Name, StatAgain(n)
    PROVE  HostInv'
<1>. DEFINE ok == archive.entry[n] = have.first[n]
            to == IF have.again = {n} THEN "listed" ELSE "again"
            rest == have.again \ {n}
<1>1. /\ n \in have.again /\ Goto("again", ok, to)
      /\ have' = [have EXCEPT !.again = rest]
    BY DEF StatAgain
<1>2. /\ to \in Stages /\ "again" \in OnceSeen /\ to \in {"again", "listed"} /\ to \in OnceSeen
      /\ to = "listed" => have.again = {n}
    BY DEF Stages, ArchiveOpen, ListedOnce, OnceSeen, TwiceSeen
<1>. HIDE DEF to, rest
<1>3. HaveFramed(have) => HaveFramed(have')
    BY <1>1, FieldSet
<1>4. ASSUME ok
      PROVE  OpenedArchive' /\ EntriesUnseen' /\ InstantSeen'
    <2>1. /\ stage = "again" /\ stage' = to
          /\ archive' = archive /\ changes' = changes /\ snaps' = snaps /\ HaveFramed(have)
        BY <1>1, <1>4, GotoDoes
    <2>2. /\ have'.root = have.root /\ have'.first = have.first
          /\ have'.again = rest /\ have'.started = have.started
        BY <1>1, <2>1 DEF HaveFramed
    <2>3. PICK s \in snaps : Instant(s)
        BY <1>2, <2>1 DEF HostInv, InstantSeen
    <2>4. /\ archive.stamp = have.started => s.stamp = have.started
          /\ s.stamp = have.started => {k \in Name : s.entry[k] # Gone} = DOMAIN have.first
          /\ \A k \in DOMAIN have.first : archive.entry[k] = have.first[k] => s.entry[k] = have.first[k]
          /\ \A k \in DOMAIN have.first \ have.again : s.entry[k] = have.first[k]
        BY <2>1, <2>3 DEF Instant
    <2>5. \A k \in DOMAIN have.first \ rest : s.entry[k] = have.first[k]
        BY <1>4, <2>4 DEF rest
    <2>6. to = "listed" => \A k \in DOMAIN have.first : s.entry[k] = have.first[k]
        BY <1>2, <2>5 DEF rest
    <2>7. InstantSeen'
        <3>1. /\ DOMAIN have.first \subseteq Name
              /\ have.first \in [DOMAIN have.first -> 0..changes]
            BY <1>2, <2>1 DEF HostInv, InstantSeen
        <3>. QED
            BY <1>2, <2>1, <2>2, <2>4, <2>5, <2>6, <3>1 DEF InstantSeen, Instant, TwiceSeen
    <2>. QED
        BY <1>2, <2>1, <2>2, <2>7, OpenedStays
<1>. HIDE DEF ok
<1>5. to \in Stages
    BY <1>2
<1>. QED
    BY <1>1, <1>3, <1>4, <1>5, ArchiveCallKeeps

\* The calls after the second look, up to the walk.
LEMMA LookingKeeps ==
    ASSUME HostInv, NEW from \in TwiceSeen, NEW ok, NEW to \in TwiceSeen \ {"listed"},
           Goto(from, ok, to), have' = have,
           ok /\ from = "listed" => archive.stamp = have.started,
           ok /\ to \in {"walk", "bound"} =>
               from \in {"walk", "bound"} \/ archive.stamp = have.root.stamp
    PROVE  HostInv'
<1>1. /\ stage = from /\ stage' = IF ok THEN to ELSE "failed"
      /\ archive' = archive /\ changes' = changes /\ snaps' = snaps /\ HaveFramed(have)
    BY GotoDoes
<1>2. /\ from \in OnceSeen /\ to \in OnceSeen /\ from # "again" /\ to # "again"
      /\ from \in ListedOnce /\ to \in Stages
    BY DEF OnceSeen, TwiceSeen, ListedOnce, ArchiveOpen, Stages
<1>3. ASSUME ok
      PROVE  OpenedArchive' /\ EntriesUnseen' /\ InstantSeen'
    <2>1. OpenedArchive' /\ EntriesUnseen'
        BY <1>1, <1>2, <1>3, OpenedStays
    <2>2. PICK s \in snaps : Instant(s)
        BY <1>1, <1>2 DEF HostInv, InstantSeen
    <2>3. /\ archive.stamp = have.started => s.stamp = have.started
          /\ s.stamp = have.started => {k \in Name : s.entry[k] # Gone} = DOMAIN have.first
          /\ \A k \in DOMAIN have.first : archive.entry[k] = have.first[k] => s.entry[k] = have.first[k]
          /\ \A k \in DOMAIN have.first : s.entry[k] = have.first[k]
        BY <1>1, <2>2 DEF Instant
    <2>4. s.stamp = have.started
        BY <1>1, <1>3, <2>2, <2>3 DEF Instant
    <2>5. to \in {"walk", "bound"} => have.started = have.root.stamp
        BY <1>1, <1>2, <1>3, <2>2 DEF HostInv, OpenedArchive, Instant
    <2>6. /\ DOMAIN have.first \subseteq Name
          /\ have.first \in [DOMAIN have.first -> 0..changes]
        BY <1>1, <1>2 DEF HostInv, InstantSeen
    <2>7. InstantSeen'
        BY <1>1, <1>2, <1>3, <2>3, <2>4, <2>5, <2>6 DEF InstantSeen, Instant
    <2>. QED
        BY <2>1, <2>7
<1>. QED
    BY <1>1, <1>2, <1>3, ArchiveCallKeeps

LEMMA LookCallsKeep ==
    ASSUME HostInv, Listed \/ MountAfter \/ RootAgain \/ Walk
    PROVE  HostInv'
<1>. DEFINE mount == "mount again"
            root == "root again"
<1>1. /\ "listed" \in TwiceSeen /\ mount \in TwiceSeen \ {"listed"} /\ root \in TwiceSeen \ {"listed"}
      /\ "walk" \in TwiceSeen \ {"listed"} /\ "bound" \in TwiceSeen \ {"listed"}
      /\ mount \notin {"walk", "bound", "listed"} /\ root \notin {"walk", "bound", "listed"}
    BY DEF TwiceSeen
<1>2. /\ Listed => Goto("listed", archive.stamp = have.started, mount) /\ have' = have
      /\ MountAfter => Goto(mount, MountRecord(Target, mounts) = have.mount, root) /\ have' = have
      /\ RootAgain =>
            /\ Goto(root, archive.stamp = have.root.stamp /\ archive.place = have.root.ino.place, "walk")
            /\ have' = have
      /\ Walk => Goto("walk", ~archive.link /\ RootStat = have.root, "bound") /\ have' = have
    BY DEF Listed, MountAfter, RootAgain, Walk, Holding
<1>. HIDE DEF mount, root
<1>3. CASE Listed
    BY <1>1, <1>2, <1>3, LookingKeeps
<1>4. CASE MountAfter
    BY <1>1, <1>2, <1>4, LookingKeeps
<1>5. CASE RootAgain
    BY <1>1, <1>2, <1>5, LookingKeeps
<1>6. CASE Walk
    BY <1>1, <1>2, <1>6, LookingKeeps
<1>. QED
    BY <1>3, <1>4, <1>5, <1>6

LEMMA CheckKeepsHostInv ==
    ASSUME HostInv, Check
    PROVE  HostInv'
BY BeginKeeps, LoadKeeps, ProbeUnitsKeep, RootIssuesKeep, OpenArchiveKeeps, MountBeforeKeeps,
   ListKeeps, StatEntryKeeps, StatAgainKeeps, LookCallsKeep, LateCallsKeep, Zenon DEF Check

-----------------------------------------------------------------------------
(* The protected host: changes while the check runs *)

ContractFramed(c, present) ==
    c = [present |-> present, binding |-> c.binding, evidence |-> c.evidence]
LEMMA ContractSet ==
    ASSUME NEW c, NEW present, ContractFramed(c, present), NEW v
    PROVE  /\ ContractFramed([c EXCEPT !.binding = v], present)
           /\ ContractFramed([c EXCEPT !.evidence = v], present)
<1>1. ContractFramed([c EXCEPT !.binding = v], present)
    BY DEF ContractFramed
<1>2. ContractFramed([c EXCEPT !.evidence = v], present)
    BY DEF ContractFramed
<1>. QED
    BY <1>1, <1>2

LEMMA RecordKeeps ==
    ASSUME HostInv, Record
    PROVE  HostInv'
<1>1. PICK field, value : Edit(field, value) /\ field \in {"binding", "evidence"}
    BY DEF Record
<1>2. /\ unit' = unit /\ archive' = archive /\ mounts' = mounts /\ boot' = boot /\ now' = now
      /\ evidence' = evidence /\ changes' = changes /\ stage' = stage /\ mode' = mode
      /\ have' = have /\ snaps' = snaps /\ disturbed' = TRUE
      /\ contract' = [contract EXCEPT ![field] = value]
    BY <1>1 DEF Edit, host, check
<1>3. contract' = [present |-> TRUE, binding |-> contract'.binding, evidence |-> contract'.evidence]
    <2>1. ContractFramed(contract, TRUE)
        BY DEF HostInv, HostFramed, ContractFramed
    <2>2. \/ contract' = [contract EXCEPT !.binding = value]
          \/ contract' = [contract EXCEPT !.evidence = value]
        BY <1>1, <1>2, Zenon
    <2>3. /\ ContractFramed([contract EXCEPT !.binding = value], TRUE)
          /\ ContractFramed([contract EXCEPT !.evidence = value], TRUE)
        BY <2>1, ContractSet
    <2>4. ContractFramed(contract', TRUE)
        BY <2>2, <2>3
    <2>. QED
        BY <2>4, Zenon DEF ContractFramed
<1>4. HostFramed'
    BY <1>2, <1>3 DEF HostInv, HostFramed
<1>5. MountsKept' /\ OpenedArchive' /\ EntriesUnseen' /\ InstantSeen'
    BY <1>2 DEF HostInv, MountsKept, OpenedArchive, EntriesUnseen, InstantSeen, Instant,
                Present, Snapshot
<1>. QED
    BY <1>4, <1>5 DEF HostInv

LEMMA CaptureEvidenceKeeps ==
    ASSUME HostInv, CaptureEvidence
    PROVE  HostInv'
<1>1. /\ unit' = unit /\ archive' = archive /\ mounts' = mounts /\ boot' = boot /\ now' = now
      /\ contract' = contract /\ changes < MaxChanges /\ changes' = changes + 1
      /\ stage' = stage /\ mode' = mode /\ have' = have /\ snaps' = snaps /\ disturbed' = TRUE
      /\ evidence' = [version |-> changes', boot |-> boot, created |-> now, present |-> TRUE]
    BY DEF CaptureEvidence, HostEvent, host, check
<1>2. /\ changes' \in 0..MaxChanges /\ 0..changes \subseteq 0..changes' /\ changes' # 0
    BY <1>1, HostAssumption DEF HostInv, HostFramed
<1>3. HostFramed'
    BY <1>1, <1>2 DEF HostInv, HostFramed
<1>4. MountsKept' /\ EntriesUnseen'
    BY <1>1 DEF HostInv, MountsKept, EntriesUnseen
<1>5. OpenedArchive'
    BY <1>1, <1>2 DEF HostInv, OpenedArchive, Present, Snapshot
<1>6. InstantSeen'
    BY <1>1, <1>2 DEF HostInv, InstantSeen, Instant
<1>. QED
    BY <1>3, <1>4, <1>5, <1>6 DEF HostInv

\* A mount is in the table as it was chosen, below whichever above.
LEMMA MountedIsTyped ==
    ASSUME NEW m \in Mount, NEW above
    PROVE  Mounted(m, above).point \in Seq(STRING) /\ Mounted(m, above).root \in Seq(STRING)
<1>1. Mounted(m, above).point = m.point /\ Mounted(m, above).root = m.root
    BY DEF Mounted
<1>. QED
    BY <1>1, MountAssumption, Zenon

LEMMA RootIsTyped == \A m \in RootMount : m.point \in Seq(STRING) /\ m.root \in Seq(STRING)
BY MountedIsTyped, Zenon DEF RootMount

LEMMA RebootKeeps ==
    ASSUME HostInv, Reboot
    PROVE  HostInv'
<1>1. /\ unit' = unit /\ archive' = archive /\ mounts' = RootMount
      /\ boot' = boot + 1 /\ now' = now /\ evidence' = evidence
      /\ contract' = contract /\ changes < MaxChanges /\ changes' = changes + 1
      /\ stage' = "idle" /\ mode' = mode /\ have' = NothingHeld /\ disturbed' = TRUE
    BY DEF Reboot, HostEvent
<1>2. changes' \in 0..MaxChanges /\ 0..changes \subseteq 0..changes'
    BY <1>1, HostAssumption DEF HostInv, HostFramed
<1>3. HostFramed'
    BY <1>1, <1>2 DEF HostInv, HostFramed, NothingHeld, Stages
<1>4. MountsKept'
    BY <1>1, RootIsTyped DEF MountsKept, MountTable
<1>5. stage' \notin ArchiveOpen /\ stage' \notin EarlyStages
    BY <1>1 DEF ArchiveOpen, ListedOnce, OnceSeen, TwiceSeen, EarlyStages
<1>. QED
    BY <1>3, <1>4, <1>5, NotOpen DEF HostInv, EntriesUnseen

\* A change gives what it changes a stamp that nothing had before.
LEMMA ChangeIsFresh ==
    ASSUME HostInv, HostChange
    PROVE  /\ unit' = [u \in {"service", "legacy"} |-> unit'[u]]
           /\ MountsKept' /\ now' \in Nat
           /\ archive' = [place |-> archive'.place, link |-> archive'.link,
                          stamp |-> archive'.stamp, entry |-> archive'.entry]
           /\ archive'.link \in BOOLEAN
           /\ archive'.stamp \in {archive.stamp, changes + 1}
           /\ archive'.entry \in [Name -> 0..Gone]
           /\ \A n \in Name : archive'.entry[n] \in {archive.entry[n], changes + 1, Gone}
           /\ archive'.stamp = archive.stamp =>
                  {n \in Name : archive'.entry[n] # Gone} = {n \in Name : archive.entry[n] # Gone}
<1>1. /\ changes \in 0..MaxChanges /\ changes < MaxChanges /\ changes' = changes + 1
      /\ changes + 1 \in 0..Gone /\ changes + 1 # Gone /\ Gone \in 0..Gone
    BY HostAssumption DEF HostInv, HostFramed, HostChange, HostEvent, Gone
<1>. DEFINE S == /\ archive = [place |-> archive.place, link |-> archive.link,
                              stamp |-> archive.stamp, entry |-> archive.entry]
                 /\ archive.link \in BOOLEAN /\ archive.stamp \in 0..changes
                 /\ archive.entry \in [Name -> 0..Gone]
<1>2. S /\ now \in Nat /\ unit = [u \in {"service", "legacy"} |-> unit[u]]
    BY DEF HostInv, HostFramed
<1>3. MountsKept /\ (mounts' = mounts => MountsKept')
    BY DEF HostInv, MountsKept
<1>. DEFINE Units == /\ unit' \in [DOMAIN unit -> UnitStates]
                     /\ UNCHANGED <<archive, mounts, now>>
            Mounting ==
                /\ \E m \in Mount :
                      /\ \A n \in mounts : n.id # m.id
                      /\ mounts' = mounts \union {Mounted(m, Visible(m.point, mounts).id)}
                /\ UNCHANGED <<unit, archive, now>>
            Unmounting ==
                /\ \E m \in mounts :
                      /\ m.parent # 0 /\ \A n \in mounts : n.parent # m.id
                      /\ mounts' = mounts \ {m}
                /\ UNCHANGED <<unit, archive, now>>
            Clock == now' = now + 1 /\ UNCHANGED <<unit, archive, mounts>>
            Calm == UNCHANGED <<unit, mounts, now>>
            Rewritten == \E n \in Name :
                archive.entry[n] # Gone /\ archive' = [archive EXCEPT !.entry[n] = changes']
            Listing == \E n \in Name :
                archive' = [archive EXCEPT !.stamp = changes',
                                !.entry[n] = IF @ = Gone THEN changes' ELSE Gone]
            Linked == archive' = [archive EXCEPT !.stamp = changes', !.link = ~@]
            Moved == archive' = [archive EXCEPT !.stamp = changes',
                                     !.place = IF @ = "home" THEN "other" ELSE "home"]
<1>4. Units \/ Mounting \/ Unmounting \/ Clock \/ (Calm /\ (Rewritten \/ Listing \/ Linked \/ Moved))
    BY Zenon DEF HostChange, Changes
<1>5. CASE Units
    BY <1>2, <1>3, <1>5
<1>6. CASE Mounting \/ Unmounting
    <2>1. MountsKept'
        <3>1. CASE Mounting
            <4>1. PICK m \in Mount : mounts' = mounts \union {Mounted(m, Visible(m.point, mounts).id)}
                BY <3>1
            <4>. QED
                BY <1>3, <4>1, MountedIsTyped, Zenon DEF MountsKept, MountTable
        <3>2. CASE Unmounting
            <4>1. PICK m \in mounts : mounts' = mounts \ {m}
                BY <3>2
            <4>. QED
                BY <1>3, <4>1 DEF MountsKept, MountTable
        <3>. QED
            BY <1>6, <3>1, <3>2
    <2>2. UNCHANGED <<unit, archive, now>>
        BY <1>6
    <2>. HIDE DEF Mounting, Unmounting
    <2>. QED
        BY <1>2, <2>1, <2>2
<1>7. CASE Clock
    BY <1>2, <1>3, <1>7
<1>8. CASE Calm /\ Rewritten
    BY <1>1, <1>2, <1>3, <1>8
<1>9. CASE Calm /\ Listing
    <2>1. PICK n \in Name :
              archive' = [archive EXCEPT !.stamp = changes',
                              !.entry[n] = IF @ = Gone THEN changes' ELSE Gone]
        BY <1>9
    <2>. DEFINE entry == [archive.entry EXCEPT ![n] = IF @ = Gone THEN changes' ELSE Gone]
    <2>2. archive' = [archive EXCEPT !.stamp = changes', !.entry = entry]
        BY <2>1
    <2>3. /\ entry \in [Name -> 0..Gone]
          /\ \A k \in Name : entry[k] \in {archive.entry[k], changes + 1, Gone}
        BY <1>1, <1>2
    <2>. HIDE DEF entry
    <2>4. /\ archive' = [place |-> archive'.place, link |-> archive'.link,
                         stamp |-> archive'.stamp, entry |-> archive'.entry]
          /\ archive'.link = archive.link /\ archive'.stamp = changes + 1
          /\ archive'.entry = entry
        BY <1>1, <1>2, <2>2
    <2>5. archive'.stamp # archive.stamp
        BY <1>1, <1>2, <2>4
    <2>. QED
        BY <1>2, <1>3, <1>9, <2>3, <2>4, <2>5
<1>10. CASE Calm /\ Linked
    BY <1>1, <1>2, <1>3, <1>10
<1>11. CASE Calm /\ Moved
    BY <1>1, <1>2, <1>3, <1>11
<1>. HIDE DEF Units, Mounting, Unmounting, Clock, Calm, Rewritten, Listing, Linked, Moved
<1>. QED
    BY <1>4, <1>5, <1>6, <1>7, <1>8, <1>9, <1>10, <1>11

LEMMA HostChangeKeeps ==
    ASSUME HostInv, HostChange
    PROVE  HostInv'
<1>1. /\ boot' = boot /\ evidence' = evidence /\ contract' = contract
      /\ changes < MaxChanges /\ changes' = changes + 1
      /\ stage' = stage /\ mode' = mode /\ have' = have /\ disturbed' = TRUE
      /\ snaps' = IF snaps = {} THEN {} ELSE snaps \union {Snapshot'}
    BY DEF HostChange, HostEvent, check
<1>2. /\ changes \in Nat /\ changes' \in 0..MaxChanges /\ 0..changes \subseteq 0..changes'
      /\ changes' \notin 0..changes /\ Gone \notin 0..changes' /\ changes' \in 0..changes'
    BY <1>1, HostAssumption DEF HostInv, HostFramed, Gone
<1>3. /\ archive'.stamp \in {archive.stamp, changes'}
      /\ \A n \in Name : archive'.entry[n] \in {archive.entry[n], changes', Gone}
      /\ archive'.stamp = archive.stamp =>
             {n \in Name : archive'.entry[n] # Gone} = {n \in Name : archive.entry[n] # Gone}
    BY <1>1, ChangeIsFresh
<1>4. HostFramed'
    <2>1. /\ archive'.stamp \in 0..changes'
          /\ \A n \in Name : archive'.entry[n] \in 0..changes' \union {Gone}
        BY <1>2, <1>3 DEF HostInv, HostFramed
    <2>. QED
        BY <1>1, <1>2, <2>1, ChangeIsFresh DEF HostInv, HostFramed
<1>5. MountsKept'
    BY ChangeIsFresh DEF MountsKept
<1>6. EntriesUnseen'
    BY <1>1 DEF HostInv, EntriesUnseen
<1>7. \A t \in 0..changes : archive'.stamp = t => archive.stamp = t
    BY <1>2, <1>3
<1>8. \A n \in Name : \A t \in 0..changes : archive'.entry[n] = t => archive.entry[n] = t
    BY <1>2, <1>3
<1>9. OpenedArchive'
    <2>1. SUFFICES ASSUME stage \in ArchiveOpen
                   PROVE  OpenedArchive'
        BY <1>1 DEF OpenedArchive, ArchiveOpen, ListedOnce
    <2>2. have.root.stamp \in 0..changes /\ Snapshot' \in snaps'
        BY <1>1, <2>1 DEF HostInv, OpenedArchive
    <2>3. stage = "list" => have.mount # NoMount
        BY DEF HostInv, OpenedArchive
    <2>4. stage \in ListedOnce =>
              /\ have.started \in 0..changes
              /\ archive'.stamp = have.root.stamp => have.started = have.root.stamp
        BY <1>7, <2>2 DEF HostInv, OpenedArchive
    <2>5. stage = "first" =>
              /\ have.todo \subseteq have.again /\ have.again \subseteq Name
              /\ have.first \in [have.again \ have.todo -> 0..changes']
              /\ archive'.stamp = have.started => have.again = Present'
        <3>1. SUFFICES ASSUME stage = "first"
                       PROVE  /\ have.todo \subseteq have.again /\ have.again \subseteq Name
                              /\ have.first \in [have.again \ have.todo -> 0..changes']
                              /\ archive'.stamp = have.started => have.again = Present'
            OBVIOUS
        <3>2. /\ have.todo \subseteq have.again /\ have.again \subseteq Name
              /\ have.first \in [have.again \ have.todo -> 0..changes]
              /\ archive.stamp = have.started => have.again = Present
              /\ have.started \in 0..changes
            BY <3>1 DEF HostInv, OpenedArchive, ListedOnce
        <3>3. archive'.stamp = have.started => archive'.stamp = archive.stamp
            BY <1>7, <3>2
        <3>. QED
            BY <1>2, <1>3, <3>2, <3>3 DEF Present
    <2>. QED
        BY <1>1, <1>2, <2>2, <2>3, <2>4, <2>5 DEF OpenedArchive
<1>10. InstantSeen'
    <2>1. SUFFICES ASSUME stage \in OnceSeen
                   PROVE  InstantSeen'
        BY <1>1 DEF InstantSeen
    <2>2. /\ DOMAIN have.first \subseteq Name /\ have.first \in [DOMAIN have.first -> 0..changes]
        BY <2>1 DEF HostInv, InstantSeen
    <2>3. PICK s \in snaps : Instant(s)
        BY <2>1 DEF HostInv, InstantSeen
    <2>4. have.started \in 0..changes
        BY <2>1 DEF HostInv, OpenedArchive, ListedOnce
    <2>5. s \in snaps'
        BY <1>1, <2>3
    <2>6. archive'.stamp = have.started => s.stamp = have.started
        BY <1>7, <2>3, <2>4 DEF Instant
    <2>7. \A n \in DOMAIN have.first : archive'.entry[n] = have.first[n] => s.entry[n] = have.first[n]
        BY <1>8, <2>2, <2>3 DEF Instant
    <2>8. /\ s.stamp = have.started => {n \in Name : s.entry[n] # Gone} = DOMAIN have.first
          /\ stage = "again" => \A n \in DOMAIN have.first \ have.again : s.entry[n] = have.first[n]
          /\ stage \in TwiceSeen => \A n \in DOMAIN have.first : s.entry[n] = have.first[n]
          /\ stage \in TwiceSeen \ {"listed"} => s.stamp = have.started
          /\ stage \in {"walk", "bound"} => have.started = have.root.stamp
        BY <2>3 DEF Instant
    <2>9. have.first \in [DOMAIN have.first -> 0..changes']
        BY <1>2, <2>2
    <2>. QED
        BY <1>1, <2>2, <2>5, <2>6, <2>7, <2>8, <2>9 DEF InstantSeen, Instant
<1>. QED
    BY <1>4, <1>5, <1>6, <1>9, <1>10 DEF HostInv

LEMMA HostInvStarts == HostInit => HostInv
<1>. SUFFICES ASSUME HostInit
              PROVE  HostInv
    OBVIOUS
<1>1. stage \notin ArchiveOpen /\ stage \notin EarlyStages /\ stage = "idle"
    BY DEF HostInit, ArchiveOpen, ListedOnce, OnceSeen, TwiceSeen, EarlyStages
<1>2. /\ unit = [u \in {"service", "legacy"} |-> unit[u]]
      /\ archive = [place |-> archive.place, link |-> archive.link, stamp |-> archive.stamp,
                    entry |-> archive.entry]
      /\ contract = [present |-> TRUE, binding |-> contract.binding, evidence |-> contract.evidence]
      /\ evidence = [version |-> evidence.version, boot |-> evidence.boot,
                     created |-> evidence.created, present |-> TRUE]
    BY DEF HostInit
<1>3. HaveFramed(have)
    BY DEF HostInit, NothingHeld, HaveFramed
<1>4. /\ archive.link = FALSE /\ archive.stamp = 0 /\ archive.entry = [n \in Name |-> 0]
      /\ evidence.created = 0 /\ evidence.version = 0 /\ evidence.boot = 0
      /\ boot = 1 /\ now = 0 /\ changes = 0 /\ stage = "idle" /\ mode = "live" /\ disturbed = FALSE
    BY DEF HostInit
<1>5. 0 \in 0..MaxChanges /\ 0 \in 0..Gone /\ 0 \in 0..0
    BY HostAssumption DEF Gone
<1>6. stage \in Stages
    BY <1>4 DEF Stages
<1>7. HostFramed
    <2>1. disturbed \in BOOLEAN /\ archive.link \in BOOLEAN
        BY <1>4, Zenon
    <2>3. boot \in Nat \ {0} /\ now \in Nat /\ mode \in {"live", "emit"}
        BY <1>4
    <2>4. archive.stamp \in 0..changes /\ changes \in 0..MaxChanges
        BY <1>4, <1>5, Zenon
    <2>2. /\ archive.entry \in [Name -> 0..Gone]
          /\ \A n \in Name : archive.entry[n] \in 0..changes \union {Gone}
        BY <1>4, <1>5
    <2>. QED
        BY <1>2, <1>3, <1>4, <1>6, <2>1, <2>2, <2>3, <2>4 DEF HostFramed, HaveFramed
<1>. QED
    BY <1>1, <1>7, RootIsTyped DEF HostInv, HostInit, MountsKept, MountTable, OpenedArchive, EntriesUnseen, InstantSeen,
                      ArchiveOpen, ListedOnce

LEMMA HostInvStep ==
    ASSUME HostInv, [HostNext]_hostVars
    PROVE  HostInv'
<1>1. CASE UNCHANGED hostVars
    <2>1. /\ contract' = contract /\ evidence' = evidence /\ unit' = unit /\ archive' = archive
          /\ mounts' = mounts /\ boot' = boot /\ now' = now /\ changes' = changes
          /\ stage' = stage /\ mode' = mode /\ have' = have /\ snaps' = snaps
          /\ disturbed' = disturbed
        BY <1>1 DEF hostVars, host, ceremony, check
    <2>2. HostFramed'
        BY <2>1 DEF HostInv, HostFramed
    <2>3. MountsKept' /\ OpenedArchive' /\ EntriesUnseen' /\ InstantSeen'
        BY <2>1 DEF HostInv, MountsKept, OpenedArchive, EntriesUnseen, InstantSeen, Instant,
                    Present, Snapshot
    <2>. QED
        BY <2>2, <2>3 DEF HostInv
<1>. QED
    BY <1>1, CheckKeepsHostInv, RecordKeeps, CaptureEvidenceKeeps, HostChangeKeeps, RebootKeeps
    DEF HostNext

\* What the check of the archive holds is what the archive once was, however
\* the host changes meanwhile.
THEOREM HostInvariant == HostSpec => []HostInv
<1>. QED
    BY HostInvStarts, HostInvStep, PTL DEF HostSpec

\* Every entry was looked at on its own, and yet together they are the archive
\* as it was at one instant since it was opened.
THEOREM BindingIsOneInstantHolds == HostSpec => []BindingIsOneInstant
<1>1. HostInv => BindingIsOneInstant
    <2>. SUFFICES ASSUME HostInv, stage = "bound"
                  PROVE  BindingIsOneInstant
        BY DEF BindingIsOneInstant
    <2>1. stage \in OnceSeen /\ stage \in TwiceSeen \ {"listed"}
        BY DEF OnceSeen, TwiceSeen
    <2>2. PICK s \in snaps : Instant(s)
        BY <2>1 DEF HostInv, InstantSeen
    <2>. QED
        BY <2>1, <2>2 DEF Instant, BindingIsOneInstant
<1>. QED
    BY <1>1, HostInvariant, PTL

-----------------------------------------------------------------------------
(* The protected host: what a check that nothing disturbs finds *)

\* What stays the same while the host does.
LEMMA SameHost ==
    ASSUME UNCHANGED <<host, contract, evidence>>
    PROVE  /\ contract' = contract /\ evidence' = evidence /\ unit' = unit
           /\ archive' = archive /\ mounts' = mounts /\ boot' = boot /\ now' = now
           /\ Present' = Present /\ RootStat' = RootStat /\ Inode' = Inode
           /\ Right' <=> Right
<1>1. /\ contract' = contract /\ evidence' = evidence /\ unit' = unit
      /\ archive' = archive /\ mounts' = mounts /\ boot' = boot /\ now' = now
    BY DEF host
<1>2. Inode' = Inode
    BY <1>1 DEF Inode
<1>3. RootStat' = RootStat /\ Present' = Present
    BY <1>1, <1>2 DEF RootStat, Present
<1>4. Right' <=> Right
    BY <1>1, <1>2, <1>3 DEF Right, OnMount
<1>. QED
    BY <1>1, <1>2, <1>3, <1>4

\* A call that fails refuses a host that is not right.
LEMMA FailedIsFound ==
    ASSUME stage' = "failed", ~Right'
    PROVE  Found'
BY DEF Found, ArchiveOpen, ListedOnce, OnceSeen, TwiceSeen, LateStages

\* A call of a check that nothing disturbs.
LEMMA FoundCall ==
    ASSUME FoundInv, NEW from, NEW ok, NEW to, Goto(from, ok, to),
           Undisturbed /\ Found /\ ok => Found',
           Undisturbed /\ Found /\ ~ok => ~Right
    PROVE  FoundInv'
<1>1. /\ stage' = IF ok THEN to ELSE "failed"
      /\ UNCHANGED <<host, contract, evidence>>
      /\ mode' = mode /\ disturbed' = disturbed
    BY DEF Goto, ceremony
<1>2. Undisturbed' => Undisturbed /\ Found
    BY <1>1 DEF FoundInv, Undisturbed
<1>3. CASE ok
    BY <1>2, <1>3 DEF FoundInv
<1>4. CASE ~ok
    BY <1>1, <1>2, <1>4, SameHost, FailedIsFound DEF FoundInv
<1>. QED
    BY <1>3, <1>4

LEMMA BeginFinds ==
    ASSUME Begin
    PROVE  FoundInv'
BY DEF Begin, FoundInv, Found, ArchiveOpen, ListedOnce, OnceSeen, TwiceSeen, LateStages

LEMMA LoadFinds ==
    ASSUME HostInv, FoundInv, Load
    PROVE  FoundInv'
<1>. DEFINE ok == IF mode = "emit" THEN contract.present /\ contract.binding = {}
                  ELSE contract.evidence # 0 /\ (contract.present => contract.binding # {})
            to == IF mode = "emit" THEN "root" ELSE "service"
<1>1. Goto("load", ok, to) /\ have' = [have EXCEPT !.contract = contract]
    BY DEF Load
<1>2. HaveFramed(have)
    BY DEF HostInv, HostFramed, HaveFramed
<1>3. have'.contract = contract
    BY <1>1, <1>2 DEF HaveFramed
<1>4. ASSUME Undisturbed, ok
      PROVE  Found'
    <2>1. stage' = "service" /\ contract' = contract /\ contract.binding # {}
        BY <1>1, <1>4 DEF Goto, ceremony, Undisturbed, HostInv, HostFramed
    <2>. QED
        BY <1>3, <2>1 DEF Found, ArchiveOpen, ListedOnce, OnceSeen, TwiceSeen, LateStages
<1>5. ASSUME Undisturbed, ~ok
      PROVE  ~Right
    <2>1. contract.evidence = 0 \/ contract.binding = {}
        BY <1>5 DEF Undisturbed, HostInv, HostFramed
    <2>2. evidence.version = 0 => evidence.boot # boot
        BY DEF HostInv, HostFramed
    <2>. QED
        BY <2>1, <2>2 DEF Right
<1>. HIDE DEF ok, to
<1>. QED
    BY <1>1, <1>4, <1>5, FoundCall

LEMMA ProbeUnitsFind ==
    ASSUME HostInv, FoundInv, ProbeUnits
    PROVE  FoundInv'
<1>. DEFINE next == IF have.contract.present THEN "root" ELSE "evidence"
<1>1. CASE ProbeUnit("service", "legacy")
    <2>1. /\ Goto("service", Exact("service", unit["service"]), "legacy")
          /\ have' = have /\ stage = "service"
          /\ UNCHANGED <<host, contract, evidence>>
        BY <1>1 DEF ProbeUnit, Holding, Goto, ceremony
    <2>2. Exact("service", unit["service"]) <=> unit["service"] = "active"
        BY DEF Exact
    <2>3. ASSUME Found, Exact("service", unit["service"])
          PROVE  Found'
        <3>1. stage' = "legacy"
            BY <2>1, <2>3 DEF Goto
        <3>2. have.contract = contract /\ contract.binding # {}
            BY <2>1, <2>3 DEF Found
        <3>. QED
            BY <2>1, <2>2, <2>3, <3>1, <3>2, SameHost
            DEF Found, ArchiveOpen, ListedOnce, OnceSeen, TwiceSeen, LateStages
    <2>4. ~Exact("service", unit["service"]) => ~Right
        BY <2>2 DEF Right
    <2>. QED
        BY <2>1, <2>3, <2>4, FoundCall
<1>2. CASE ProbeUnit("legacy", next)
    <2>1. /\ Goto("legacy", Exact("legacy", unit["legacy"]), next)
          /\ have' = have /\ stage = "legacy"
          /\ UNCHANGED <<host, contract, evidence>>
        BY <1>2 DEF ProbeUnit, Holding, Goto, ceremony
    <2>2. Exact("legacy", unit["legacy"]) <=> unit["legacy"] = "inactive"
        BY DEF Exact
    <2>3. ASSUME Found, Exact("legacy", unit["legacy"])
          PROVE  Found'
        <3>1. have.contract = contract /\ contract.binding # {} /\ unit["service"] = "active"
            BY <2>1, <2>3 DEF Found
        <3>2. stage' = "root"
            BY <2>1, <2>3, <3>1 DEF Goto, HostInv, HostFramed
        <3>. QED
            BY <2>1, <2>2, <2>3, <3>1, <3>2, SameHost
            DEF Found, ArchiveOpen, ListedOnce, OnceSeen, TwiceSeen, LateStages
    <2>4. ~Exact("legacy", unit["legacy"]) => ~Right
        BY <2>2 DEF Right
    <2>. HIDE DEF next
    <2>. QED
        BY <2>1, <2>3, <2>4, FoundCall
<1>. QED
    BY <1>1, <1>2 DEF ProbeUnits

LEMMA RootIssuesFind ==
    ASSUME HostInv, FoundInv, RootIssues
    PROVE  FoundInv'
<1>. DEFINE ok == ~archive.link /\ OnMount(MountRecord(Target, mounts))
<1>1. /\ Goto("root", ok, "open") /\ have' = have /\ stage = "root"
      /\ UNCHANGED <<host, contract, evidence>>
    BY DEF RootIssues, Holding, Goto, ceremony
<1>2. ASSUME Found, ok
      PROVE  Found'
    <2>1. stage' = "open"
        BY <1>1, <1>2 DEF Goto
    <2>2. /\ have.contract = contract /\ contract.binding # {}
          /\ unit["service"] = "active" /\ unit["legacy"] = "inactive"
        BY <1>1, <1>2 DEF Found
    <2>. QED
        BY <1>1, <1>2, <2>1, <2>2, SameHost
        DEF Found, ArchiveOpen, ListedOnce, OnceSeen, TwiceSeen, LateStages, OnMount
<1>3. ~ok => ~Right
    BY DEF Right
<1>. HIDE DEF ok
<1>. QED
    BY <1>1, <1>2, <1>3, FoundCall

\* What is known once the archive is open, and once it is listed.
LEMMA OpenFound ==
    ASSUME Found, stage \in {"open"} \union ArchiveOpen
    PROVE  /\ have.contract = contract /\ contract.binding # {}
           /\ unit["service"] = "active" /\ unit["legacy"] = "inactive"
           /\ ~archive.link /\ OnMount(MountRecord(Target, mounts))
           /\ stage # "open" => have.root = RootStat
           /\ stage \in {"list"} \union ListedOnce => have.mount = MountRecord(Target, mounts)
           /\ stage \in ListedOnce => Present # {} /\ have.started = archive.stamp
           /\ stage \in OnceSeen => have.first = [n \in Present |-> archive.entry[n]]
<1>1. stage \notin {"idle", "load", "failed", "service", "legacy"}
    BY DEF ArchiveOpen, ListedOnce, OnceSeen, TwiceSeen
<1>. QED
    BY <1>1, Zenon DEF Found

\* What must be known at the next call on the archive.
LEMMA OpenFinds ==
    ASSUME UNCHANGED <<host, contract, evidence>>, Found,
           stage \in {"open"} \union ArchiveOpen, stage' \in ArchiveOpen,
           have'.contract = have.contract, have'.root = RootStat,
           stage' # "mount" => have'.mount = MountRecord(Target, mounts),
           stage' \in ListedOnce => Present # {} /\ have'.started = archive.stamp,
           stage' = "first" =>
               /\ have'.again = Present /\ have'.todo \subseteq Present
               /\ have'.first = [n \in Present \ have'.todo |-> archive.entry[n]],
           stage' \in OnceSeen => have'.first = [n \in Present |-> archive.entry[n]],
           stage' = "again" => have'.again \subseteq Present
    PROVE  Found'
<1>1. /\ have.contract = contract /\ contract.binding # {}
      /\ unit["service"] = "active" /\ unit["legacy"] = "inactive"
      /\ ~archive.link /\ OnMount(MountRecord(Target, mounts))
    BY OpenFound
<1>2. /\ stage' \notin {"idle", "load", "failed", "service", "legacy", "emitted", "read", "boot", "passed"}
      /\ stage' \notin LateStages /\ (stage' \in {"list"} \union ListedOnce => stage' # "mount")
    BY DEF ArchiveOpen, ListedOnce, OnceSeen, TwiceSeen, LateStages
<1>3. /\ contract' = contract /\ unit' = unit /\ archive' = archive /\ mounts' = mounts
      /\ Present' = Present /\ RootStat' = RootStat /\ Inode' = Inode
    BY SameHost
<1>. QED
    BY <1>1, <1>2, <1>3, Zenon DEF Found, OnMount

LEMMA OpenArchiveFinds ==
    ASSUME HostInv, FoundInv, OpenArchive
    PROVE  FoundInv'
<1>1. /\ stage = "open" /\ stage' = IF archive.link THEN "failed" ELSE "mount"
      /\ have' = [have EXCEPT !.root = RootStat]
      /\ UNCHANGED <<host, contract, evidence, mode, disturbed>>
      /\ mode' = mode /\ disturbed' = disturbed
    BY DEF OpenArchive, ceremony
<1>2. HaveFramed(have)
    BY DEF HostInv, HostFramed, HaveFramed
<1>3. have'.root = RootStat /\ have'.contract = have.contract
    BY <1>1, <1>2 DEF HaveFramed
<1>4. ASSUME Found
      PROVE  Found'
    <2>1. stage' = "mount"
        BY <1>1, <1>4, OpenFound
    <2>2. stage' \in ArchiveOpen /\ stage' \notin ListedOnce
        BY <2>1 DEF ArchiveOpen, ListedOnce, OnceSeen, TwiceSeen
    <2>3. stage' # "first" /\ stage' # "again" /\ stage' \notin OnceSeen
        BY <2>1 DEF OnceSeen, TwiceSeen
    <2>. QED
        BY <1>1, <1>3, <1>4, <2>1, <2>2, <2>3, OpenFinds
<1>. QED
    BY <1>1, <1>4 DEF FoundInv, Undisturbed

LEMMA MountBeforeFinds ==
    ASSUME HostInv, FoundInv, MountBefore
    PROVE  FoundInv'
<1>. DEFINE m == MountRecord(Target, mounts)
            ok == m # NoMount /\ m.dev = have.root.ino.dev
<1>1. /\ Goto("mount", ok, "list") /\ have' = [have EXCEPT !.mount = m]
      /\ stage = "mount" /\ UNCHANGED <<host, contract, evidence>>
    BY DEF MountBefore, Goto, ceremony
<1>2. have'.mount = m /\ have'.contract = have.contract /\ have'.root = have.root
    BY <1>1 DEF HostInv, HostFramed
<1>3. stage \in ArchiveOpen
    BY <1>1 DEF ArchiveOpen
<1>4. ASSUME Found, ok
      PROVE  Found'
    <2>1. stage' = "list"
        BY <1>1, <1>4 DEF Goto
    <2>2. stage' \in ArchiveOpen /\ stage' \notin ListedOnce
        BY <2>1 DEF ArchiveOpen, ListedOnce, OnceSeen, TwiceSeen
    <2>3. stage' # "first" /\ stage' # "again" /\ stage' \notin OnceSeen
        BY <2>1 DEF OnceSeen, TwiceSeen
    <2>4. have.root = RootStat
        BY <1>1, <1>3, <1>4, OpenFound
    <2>. QED
        BY <1>1, <1>2, <1>3, <1>4, <2>1, <2>2, <2>3, <2>4, OpenFinds
<1>5. Found => ok
    BY <1>1, <1>3, OpenFound DEF OnMount, RootStat
<1>. HIDE DEF ok
<1>. QED
    BY <1>1, <1>4, <1>5, FoundCall

LEMMA ListFinds ==
    ASSUME HostInv, FoundInv, List
    PROVE  FoundInv'
<1>. DEFINE ok == Present # {}
<1>1. /\ Goto("list", ok, "first")
      /\ have' = [have EXCEPT !.todo = Present, !.again = Present, !.started = archive.stamp]
      /\ stage = "list" /\ UNCHANGED <<host, contract, evidence>>
    BY DEF List, Present, Goto, ceremony
<1>2. HaveFramed(have)
    BY DEF HostInv, HostFramed, HaveFramed
<1>3. /\ have'.contract = have.contract /\ have'.root = have.root /\ have'.mount = have.mount
      /\ have'.todo = Present /\ have'.again = Present /\ have'.first = have.first
      /\ have'.started = archive.stamp
    BY <1>1, <1>2 DEF HaveFramed
<1>4. stage \in ArchiveOpen
    BY <1>1 DEF ArchiveOpen
<1>5. ASSUME Found, ok
      PROVE  Found'
    <2>1. stage' = "first"
        BY <1>1, <1>5 DEF Goto
    <2>2. stage' \in ArchiveOpen /\ stage' \notin OnceSeen /\ stage' # "again"
        BY <2>1 DEF ArchiveOpen, ListedOnce, OnceSeen, TwiceSeen
    <2>3. have.root = RootStat /\ have.mount = MountRecord(Target, mounts)
        BY <1>1, <1>4, <1>5, OpenFound
    <2>4. have.first = << >>
        BY <1>1 DEF HostInv, EntriesUnseen, EarlyStages
    <2>5. << >> = [n \in Present \ Present |-> archive.entry[n]]
        OBVIOUS
    <2>6. have'.first = [n \in Present \ have'.todo |-> archive.entry[n]]
        BY <1>3, <2>4, <2>5
    <2>. QED
        BY <1>1, <1>3, <1>4, <1>5, <2>2, <2>3, <2>6, OpenFinds
<1>6. ~ok => ~Right
    BY DEF Right, Present
<1>. HIDE DEF ok
<1>. QED
    BY <1>1, <1>5, <1>6, FoundCall

LEMMA StatEntryFinds ==
    ASSUME HostInv, FoundInv, NEW n \in Name, StatEntry(n)
    PROVE  FoundInv'
<1>. DEFINE ok == archive.entry[n] # Gone
            to == IF have.todo = {n} THEN "again" ELSE "first"
            first == [k \in DOMAIN have.first \union {n} |->
                         IF k = n THEN archive.entry[n] ELSE have.first[k]]
            todo == have.todo \ {n}
<1>1. /\ n \in have.todo /\ Goto("first", ok, to)
      /\ have' = [have EXCEPT !.todo = todo, !.first = first]
      /\ stage = "first" /\ UNCHANGED <<host, contract, evidence>>
    BY DEF StatEntry, Goto, ceremony
<1>2. HaveFramed(have)
    BY DEF HostInv, HostFramed, HaveFramed
<1>. HIDE DEF first, todo
<1>3. /\ have'.contract = have.contract /\ have'.root = have.root /\ have'.mount = have.mount
      /\ have'.todo = todo /\ have'.again = have.again /\ have'.first = first
      /\ have'.started = have.started
    BY <1>1, <1>2 DEF HaveFramed
<1>4. stage \in ArchiveOpen /\ stage \in ListedOnce
    BY <1>1 DEF ArchiveOpen, ListedOnce
<1>5. ASSUME Found, ok
      PROVE  Found'
    <2>1. stage' = to
        BY <1>1, <1>5 DEF Goto
    <2>2. stage' \in ArchiveOpen
        BY <2>1 DEF ArchiveOpen, ListedOnce, OnceSeen
    <2>3. /\ have.root = RootStat /\ have.mount = MountRecord(Target, mounts)
          /\ Present # {} /\ have.started = archive.stamp
        BY <1>1, <1>4, <1>5, OpenFound
    <2>4. /\ have.again = Present /\ have.todo \subseteq Present
          /\ have.first = [k \in Present \ have.todo |-> archive.entry[k]]
        BY <1>1, <1>5 DEF Found
    <2>5. /\ todo \subseteq Present
          /\ (DOMAIN have.first) \union {n} = Present \ todo
        BY <1>1, <2>4 DEF todo
    <2>6. \A k \in Present \ todo : first[k] = archive.entry[k]
        BY <2>4, <2>5 DEF first
    <2>7. first = [k \in Present \ todo |-> first[k]]
        BY <2>5 DEF first
    <2>8. first = [k \in Present \ todo |-> archive.entry[k]]
        BY <2>6, <2>7
    <2>9. to # "first" => todo = {} /\ Present \ todo = Present
        BY DEF todo
    <2>10. stage' \in OnceSeen => to # "first"
        BY <2>1 DEF OnceSeen, TwiceSeen
    <2>11. stage' \in OnceSeen => first = [k \in Present |-> archive.entry[k]]
        BY <2>8, <2>9, <2>10
    <2>. QED
        BY <1>1, <1>3, <1>4, <1>5, <2>2, <2>3, <2>4, <2>5, <2>8, <2>11, OpenFinds
<1>6. Found => ok
    BY <1>1 DEF Found, Present
<1>. HIDE DEF ok, to
<1>. QED
    BY <1>1, <1>5, <1>6, FoundCall

LEMMA StatAgainFinds ==
    ASSUME HostInv, FoundInv, NEW n \in Name, StatAgain(n)
    PROVE  FoundInv'
<1>. DEFINE ok == archive.entry[n] = have.first[n]
            to == IF have.again = {n} THEN "listed" ELSE "again"
            rest == have.again \ {n}
<1>1. /\ n \in have.again /\ Goto("again", ok, to) /\ have' = [have EXCEPT !.again = rest]
      /\ stage = "again" /\ UNCHANGED <<host, contract, evidence>>
    BY DEF StatAgain, Goto, ceremony
<1>2. HaveFramed(have)
    BY DEF HostInv, HostFramed, HaveFramed
<1>3. /\ have'.contract = have.contract /\ have'.root = have.root /\ have'.mount = have.mount
      /\ have'.again = rest /\ have'.first = have.first /\ have'.started = have.started
    BY <1>1, <1>2 DEF HaveFramed
<1>4. stage \in ArchiveOpen /\ stage \in ListedOnce /\ stage \in OnceSeen
    BY <1>1 DEF ArchiveOpen, ListedOnce, OnceSeen
<1>5. ASSUME Found
      PROVE  /\ have.root = RootStat /\ have.mount = MountRecord(Target, mounts)
             /\ Present # {} /\ have.started = archive.stamp
             /\ have.first = [k \in Present |-> archive.entry[k]] /\ have.again \subseteq Present
    BY <1>1, <1>4, <1>5, OpenFound, Zenon DEF Found
<1>6. ASSUME Found, ok
      PROVE  Found'
    <2>1. stage' = to
        BY <1>1, <1>6 DEF Goto
    <2>2. stage' \in ArchiveOpen /\ stage' # "first"
        BY <2>1 DEF ArchiveOpen, ListedOnce, OnceSeen, TwiceSeen
    <2>3. rest \subseteq Present
        BY <1>5, <1>6
    <2>. HIDE DEF rest, ok, to
    <2>. QED
        BY <1>1, <1>3, <1>4, <1>5, <1>6, <2>2, <2>3, OpenFinds
<1>7. Found => ok
    BY <1>1, <1>5
<1>. HIDE DEF ok, to
<1>. QED
    BY <1>1, <1>6, <1>7, FoundCall

\* The calls after the second look, up to the walk.
LEMMA LookingFinds ==
    ASSUME HostInv, FoundInv, NEW from \in TwiceSeen, NEW ok, NEW to \in TwiceSeen,
           Goto(from, ok, to), have' = have, Found => ok
    PROVE  FoundInv'
<1>1. stage = from /\ UNCHANGED <<host, contract, evidence>>
    BY DEF Goto, ceremony
<1>2. /\ from \in ArchiveOpen /\ from \in ListedOnce /\ from \in OnceSeen
      /\ from # "open" /\ to \in ArchiveOpen /\ to # "first" /\ to # "again" /\ to # "mount"
    BY DEF ArchiveOpen, ListedOnce, OnceSeen, TwiceSeen
<1>3. ASSUME Found, ok
      PROVE  Found'
    <2>1. stage' = to
        BY <1>3 DEF Goto
    <2>2. /\ have.root = RootStat /\ have.mount = MountRecord(Target, mounts)
          /\ Present # {} /\ have.started = archive.stamp
          /\ have.first = [k \in Present |-> archive.entry[k]]
        BY <1>1, <1>2, <1>3, OpenFound
    <2>. QED
        BY <1>1, <1>2, <1>3, <2>1, <2>2, OpenFinds
<1>. QED
    BY <1>3, FoundCall

LEMMA LookCallsFind ==
    ASSUME HostInv, FoundInv, Listed \/ MountAfter \/ RootAgain \/ Walk
    PROVE  FoundInv'
<1>. DEFINE mount == "mount again"
            root == "root again"
<1>1. /\ "listed" \in TwiceSeen /\ mount \in TwiceSeen /\ root \in TwiceSeen
      /\ "walk" \in TwiceSeen /\ "bound" \in TwiceSeen
    BY DEF TwiceSeen
<1>2. /\ Listed => Goto("listed", archive.stamp = have.started, mount) /\ have' = have
      /\ MountAfter => Goto(mount, MountRecord(Target, mounts) = have.mount, root) /\ have' = have
      /\ RootAgain =>
            /\ Goto(root, archive.stamp = have.root.stamp /\ archive.place = have.root.ino.place, "walk")
            /\ have' = have
      /\ Walk => Goto("walk", ~archive.link /\ RootStat = have.root, "bound") /\ have' = have
    BY DEF Listed, MountAfter, RootAgain, Walk, Holding
<1>3. stage \in TwiceSeen
    BY DEF TwiceSeen, Listed, MountAfter, RootAgain, Walk, Goto
<1>4. ASSUME Found
      PROVE  /\ archive.stamp = have.started /\ MountRecord(Target, mounts) = have.mount
             /\ archive.stamp = have.root.stamp /\ archive.place = have.root.ino.place
             /\ ~archive.link /\ RootStat = have.root
    <2>1. stage \in ArchiveOpen /\ stage \in ListedOnce /\ stage # "open"
        BY <1>3 DEF ArchiveOpen, ListedOnce, OnceSeen, TwiceSeen
    <2>2. /\ have.root = RootStat /\ have.mount = MountRecord(Target, mounts)
          /\ have.started = archive.stamp /\ ~archive.link
        BY <1>4, <2>1, OpenFound
    <2>. QED
        BY <2>2 DEF RootStat, Inode
<1>. HIDE DEF mount, root
<1>5. CASE Listed
    BY <1>1, <1>2, <1>4, <1>5, LookingFinds
<1>6. CASE MountAfter
    BY <1>1, <1>2, <1>4, <1>6, LookingFinds
<1>7. CASE RootAgain
    BY <1>1, <1>2, <1>4, <1>7, LookingFinds
<1>8. CASE Walk
    BY <1>1, <1>2, <1>4, <1>8, LookingFinds
<1>. QED
    BY <1>5, <1>6, <1>7, <1>8

\* The binding that the archive has now.
Current == {Fingerprint(RootStat, MountRecord(Target, mounts), [n \in Present |-> archive.entry[n]])}

\* What is known after the archive, and what must be at the next call.
LEMMA LateFound ==
    ASSUME Found, stage \in LateStages
    PROVE  /\ have.contract = contract /\ contract.binding = Current
           /\ unit["service"] = "active" /\ unit["legacy"] = "inactive"
           /\ ~archive.link /\ OnMount(MountRecord(Target, mounts)) /\ Present # {}
<1>1. stage \notin {"idle", "load", "failed", "service", "legacy"}
    BY DEF LateStages
<1>. QED
    BY <1>1, Zenon DEF Found, Current

LEMMA LateFinds ==
    ASSUME UNCHANGED <<host, contract, evidence>>,
           have.contract = contract, contract.binding = Current,
           unit["service"] = "active", unit["legacy"] = "inactive",
           ~archive.link, OnMount(MountRecord(Target, mounts)), Present # {},
           stage' \in LateStages, have'.contract = have.contract,
           stage' \in {"read", "boot"} => have'.began = now,
           stage' \in {"boot", "passed"} => evidence.version = contract.evidence,
           stage' = "boot" => have'.evidence = evidence,
           stage' = "passed" => Right
    PROVE  Found'
<1>1. /\ stage' \notin {"idle", "load", "failed", "service", "legacy", "emitted", "first", "again"}
      /\ stage' \notin ArchiveOpen /\ stage' \notin ListedOnce /\ stage' \notin OnceSeen
      /\ stage' # "list"
    BY DEF ArchiveOpen, ListedOnce, OnceSeen, TwiceSeen, LateStages
<1>2. /\ contract' = contract /\ evidence' = evidence /\ unit' = unit /\ archive' = archive
      /\ mounts' = mounts /\ now' = now
      /\ Present' = Present /\ RootStat' = RootStat /\ Inode' = Inode /\ (Right' <=> Right)
    BY SameHost
<1>3. Current' = Current
    BY <1>2 DEF Current
<1>4. contract.binding # {}
    BY DEF Current
<1>. QED
    BY <1>1, <1>2, <1>3, <1>4, Zenon DEF Found, OnMount, Current

LEMMA BoundFinds ==
    ASSUME HostInv, FoundInv, Bound
    PROVE  FoundInv'
<1>. DEFINE ok == {Binding} = have.contract.binding
<1>1. /\ Goto("bound", ok, "evidence") /\ have' = have
      /\ stage = "bound" /\ UNCHANGED <<host, contract, evidence>>
    BY DEF Bound, Holding, Goto, ceremony
<1>2. stage \in ArchiveOpen /\ stage \in ListedOnce /\ stage \in OnceSeen
    BY <1>1 DEF ArchiveOpen, ListedOnce, OnceSeen, TwiceSeen
<1>3. ASSUME Found
      PROVE  have.contract = contract /\ {Binding} = Current /\ Present # {}
    BY <1>1, <1>2, <1>3, OpenFound DEF Current, Binding
<1>4. ASSUME Found, ok
      PROVE  Found'
    <2>1. stage' = "evidence"
        BY <1>1, <1>4 DEF Goto
    <2>2. stage' \in LateStages
        BY <2>1 DEF LateStages
    <2>3. /\ unit["service"] = "active" /\ unit["legacy"] = "inactive"
          /\ ~archive.link /\ OnMount(MountRecord(Target, mounts)) /\ contract.binding = Current
        BY <1>2, <1>3, <1>4, OpenFound
    <2>. QED
        BY <1>1, <1>3, <1>4, <2>1, <2>2, <2>3, LateFinds
<1>5. Found /\ ~ok => ~Right
    BY <1>3 DEF Right, Current, Present
<1>. HIDE DEF ok
<1>. QED
    BY <1>1, <1>4, <1>5, FoundCall

LEMMA EmitFinds ==
    ASSUME FoundInv, Emit
    PROVE  FoundInv'
BY DEF Emit, FoundInv, Undisturbed

LEMMA ReadClockFinds ==
    ASSUME HostInv, FoundInv, ReadClock
    PROVE  FoundInv'
<1>1. /\ Goto("evidence", TRUE, "read") /\ have' = [have EXCEPT !.began = now]
      /\ stage = "evidence" /\ stage' = "read" /\ UNCHANGED <<host, contract, evidence>>
    BY DEF ReadClock, Goto, ceremony
<1>2. have'.contract = have.contract /\ have'.began = now
    BY <1>1 DEF HostInv, HostFramed
<1>3. stage \in LateStages /\ stage' \in LateStages /\ stage' \notin {"boot", "passed"}
    BY <1>1 DEF LateStages
<1>4. ASSUME Found
      PROVE  Found'
    BY <1>1, <1>2, <1>3, <1>4, LateFound, LateFinds
<1>. QED
    BY <1>1, <1>4, FoundCall

LEMMA ReadEvidenceFinds ==
    ASSUME HostInv, FoundInv, ReadEvidence
    PROVE  FoundInv'
<1>. DEFINE ok == evidence.version = have.contract.evidence
<1>1. /\ Goto("read", ok, "boot") /\ have' = [have EXCEPT !.evidence = evidence]
      /\ stage = "read" /\ UNCHANGED <<host, contract, evidence>>
    BY DEF ReadEvidence, Goto, ceremony
<1>2. /\ have'.contract = have.contract /\ have'.began = have.began
      /\ have'.evidence = evidence
    BY <1>1 DEF HostInv, HostFramed
<1>3. stage \in LateStages
    BY <1>1 DEF LateStages
<1>4. ASSUME Found, ok
      PROVE  Found'
    <2>1. stage' = "boot"
        BY <1>1, <1>4 DEF Goto
    <2>2. stage' \in LateStages /\ stage' # "passed"
        BY <2>1 DEF LateStages
    <2>3. have.began = now
        BY <1>1, <1>4 DEF Found
    <2>4. evidence.version = contract.evidence
        BY <1>3, <1>4, LateFound
    <2>. QED
        BY <1>1, <1>2, <1>3, <1>4, <2>2, <2>3, <2>4, LateFound, LateFinds
<1>5. Found /\ ~ok => ~Right
    BY <1>3, LateFound DEF Right
<1>. HIDE DEF ok
<1>. QED
    BY <1>1, <1>4, <1>5, FoundCall

LEMMA PresentFields ==
    ASSUME NEW c, NEW e, NEW v, ContractFramed(c, v),
           e = [version |-> e.version, boot |-> e.boot, created |-> e.created, present |-> v]
    PROVE  e.present = c.present
BY DEF ContractFramed

LEMMA JudgeFinds ==
    ASSUME HostInv, FoundInv, Judge
    PROVE  FoundInv'
<1>. DEFINE ok == /\ Fresh(have.evidence, have.began)
                  /\ have.evidence.boot = boot
                  /\ have.evidence.present = have.contract.present
<1>1. /\ Goto("boot", ok, "passed") /\ have' = have
      /\ stage = "boot" /\ UNCHANGED <<host, contract, evidence>>
    BY DEF Judge, Holding, Goto, ceremony
<1>2. stage \in LateStages
    BY <1>1 DEF LateStages
<1>3. ASSUME Found
      PROVE  /\ have.began = now /\ have.evidence = evidence
             /\ evidence.version = contract.evidence /\ have.contract = contract
    BY <1>1, <1>2, <1>3, LateFound DEF Found
<1>4. /\ now \in Nat /\ evidence.created \in Nat /\ MaxAge \in Nat
      /\ evidence.present = contract.present
    <2>1. now \in Nat /\ evidence.created \in Nat
        BY DEF HostInv, HostFramed
    <2>2. /\ ContractFramed(contract, TRUE)
          /\ evidence = [version |-> evidence.version, boot |-> evidence.boot,
                         created |-> evidence.created, present |-> TRUE]
        BY Zenon DEF HostInv, HostFramed, ContractFramed
    <2>3. evidence.present = contract.present
        BY <2>2, PresentFields, Zenon
    <2>. QED
        BY <2>1, <2>3, HostAssumption
<1>5. ASSUME Found
      PROVE  ok <=> now - evidence.created \in 0..MaxAge /\ evidence.boot = boot
    BY <1>3, <1>4, <1>5 DEF Fresh
<1>6. ASSUME Found
      PROVE  ok <=> Right
    BY <1>2, <1>3, <1>5, <1>6, LateFound DEF Right, Current, Present
<1>7. ASSUME Found, ok
      PROVE  Found'
    <2>1. stage' = "passed"
        BY <1>1, <1>7 DEF Goto
    <2>2. stage' \in LateStages /\ stage' # "boot" /\ stage' # "read"
        BY <2>1 DEF LateStages
    <2>3. Right
        BY <1>6, <1>7
    <2>. HIDE DEF ok
    <2>. QED
        BY <1>1, <1>2, <1>3, <1>7, <2>2, <2>3, LateFound, LateFinds
<1>. HIDE DEF ok
<1>. QED
    BY <1>1, <1>6, <1>7, FoundCall

LEMMA FoundInvStarts == HostInit => FoundInv
BY DEF HostInit, FoundInv, Found, ArchiveOpen, ListedOnce, OnceSeen, TwiceSeen, LateStages

LEMMA FoundInvStep ==
    ASSUME HostInv, FoundInv, [HostNext]_hostVars
    PROVE  FoundInv'
<1>1. CASE Check
    BY <1>1, BeginFinds, LoadFinds, ProbeUnitsFind, RootIssuesFind, OpenArchiveFinds,
       MountBeforeFinds, ListFinds, StatEntryFinds, StatAgainFinds, LookCallsFind, BoundFinds,
       EmitFinds, ReadClockFinds, ReadEvidenceFinds, JudgeFinds, Zenon DEF Check
<1>2. CASE Record \/ CaptureEvidence \/ HostChange \/ Reboot
    BY <1>2 DEF Record, Edit, CaptureEvidence, HostChange, Reboot, HostEvent, FoundInv, Undisturbed
<1>3. CASE UNCHANGED hostVars
    <2>1. /\ UNCHANGED <<host, contract, evidence>> /\ stage' = stage /\ mode' = mode
          /\ have' = have /\ disturbed' = disturbed
        BY <1>3 DEF hostVars, ceremony, check
    <2>2. /\ contract' = contract /\ evidence' = evidence /\ unit' = unit /\ archive' = archive
          /\ mounts' = mounts /\ now' = now
          /\ Present' = Present /\ RootStat' = RootStat /\ Inode' = Inode /\ (Right' <=> Right)
        BY <2>1, SameHost
    <2>. QED
        BY <2>1, <2>2 DEF FoundInv, Found, Undisturbed, OnMount
<1>. QED
    BY <1>1, <1>2, <1>3 DEF HostNext

THEOREM FoundInvariant == HostSpec => []FoundInv
<1>1. HostInv /\ FoundInv /\ [HostNext]_hostVars => FoundInv'
    BY FoundInvStep
<1>. QED
    BY <1>1, FoundInvStarts, HostInvariant, PTL DEF HostSpec

\* A check during which nothing changed passes exactly when the host, the
\* contract and the evidence belong together.
THEOREM UndisturbedVerdictHolds == HostSpec => []UndisturbedVerdict
<1>1. FoundInv => UndisturbedVerdict
    BY DEF FoundInv, Found, Undisturbed, UndisturbedVerdict
<1>. QED
    BY <1>1, FoundInvariant, PTL

\* While the record of the mount holds, and is of the mount through which the
\* archive is seen, no path at all outside the archive leads into it.
NoOtherName ==
    /\ stage = "list" /\ have.mount = MountRecord(Target, mounts)
    /\ Seen(Target, mounts) = {have.mount}
    => \A path \in Seq(STRING) : ~Aliased(path, Target, mounts)
THEOREM NoOtherNameHolds == HostSpec => []NoOtherName
<1>1. HostInv => NoOtherName
    <2>. SUFFICES ASSUME HostInv, stage = "list", have.mount = MountRecord(Target, mounts),
                         Seen(Target, mounts) = {have.mount}, NEW path \in Seq(STRING)
                  PROVE  ~Aliased(path, Target, mounts)
        BY DEF NoOtherName
    <2>1. MountRecord(Target, mounts) # NoMount /\ MountTable(mounts, STRING)
        BY DEF HostInv, OpenedArchive, MountsKept
    <2>2. Target \in Seq(STRING)
        BY MountAssumption, Zenon
    <2>. QED
        BY <2>1, <2>2, RecordHasNoAlias
<1>. QED
    BY <1>1, HostInvariant, PTL

LEMMA SeqInSeq ==
    ASSUME NEW A, NEW B, A \subseteq B
    PROVE  Seq(A) \subseteq Seq(B)
<1>. SUFFICES ASSUME NEW s \in Seq(A)
              PROVE  s \in Seq(B)
    OBVIOUS
<1>1. Len(s) \in Nat /\ s \in [1..Len(s) -> A]
    BY LenProperties
<1>2. s \in [1..Len(s) -> B]
    BY <1>1
<1>. QED
    BY <1>1, <1>2, FunctionIsSequence

\* A binding is of the archive itself, at one instant and by its one name.
THEOREM ArchiveIsBoundHolds == HostSpec => []ArchiveIsBound
<1>1. HostInv => ArchiveHasNoAlias
    <2>. SUFFICES ASSUME HostInv, stage = "list", have.mount = MountRecord(Target, mounts),
                         Seen(Target, mounts) = {have.mount},
                         NEW k \in 0..3, NEW path \in [1..k -> {"srv", "old", "mnt", "new"}]
                  PROVE  ~Aliased(path, Target, mounts)
        BY DEF ArchiveHasNoAlias
    <2>. DEFINE names == STRING \union {"srv", "old", "mnt", "new"}
    <2>1. STRING \subseteq names /\ path \in [1..k -> names] /\ k \in Nat
        OBVIOUS
    <2>. HIDE DEF names
    <2>2. path \in Seq(names)
        BY <2>1, FunctionIsSequence
    <2>3. Seq(STRING) \subseteq Seq(names)
        BY <2>1, SeqInSeq
    <2>4. Target \in Seq(names)
        BY <2>3, MountAssumption, Zenon
    <2>5. MountTable(mounts, names)
        <3>1. MountTable(mounts, STRING)
            BY DEF HostInv, MountsKept
        <3>. QED
            BY <2>3, <3>1, Zenon DEF MountTable
    <2>6. MountRecord(Target, mounts) # NoMount
        BY DEF HostInv, OpenedArchive
    <2>. QED
        BY <2>2, <2>4, <2>5, <2>6, RecordHasNoAlias
<1>. QED
    BY <1>1, HostInvariant, BindingIsOneInstantHolds, PTL DEF ArchiveIsBound
================================================================================
