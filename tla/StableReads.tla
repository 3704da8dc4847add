----------------------------- MODULE StableReads -----------------------------
(***************************************************************************)
(* How the validators read one file that somebody else may be changing.    *)
(* Each has its own copy of the same protocol: look at the path, open it   *)
(* without following links, compare what was opened with what was seen,    *)
(* read to the end, and compare again.  The copies differ in what they     *)
(* compare; a Profile names that, and the actions are the protocol.        *)
(*                                                                         *)
(* The file is two blocks, because a read of a file is not atomic with     *)
(* respect to a write of it.  Its path goes through a directory that may   *)
(* be moved away and replaced by another one or by a link to it: itself,   *)
(* which changes what fstat says of it, or by way of a directory above it, *)
(* which changes nothing that is looked at later.                          *)
(***************************************************************************)
EXTENDS Naturals, Sequences, FiniteSets

CONSTANTS
    Readers,        \* the readers at work, a subset of the names in Profile
    MaxEvents,      \* how often others touch the file, its directory or path
    FineClock       \* TRUE: no two changes carry the same time stamp

ASSUME ReadsAssumption ==
    MaxEvents \in Nat /\ FineClock \in BOOLEAN

VARIABLES
    node,           \* the inodes of the two files that may be at the path
    dir,            \* two directories: what each calls by the file's name
    parent,         \* which one the path goes through, and whether by a link
    clock,          \* the time stamp of the next change
    events,         \* how many changes were made
    reader, pc,     \* who reads, and the call it makes next
    obs,            \* what it observed so far
    named,          \* the contents the path named since the read began
    walked,         \* those it named by real directories since the second fstat
    held,           \* the contents of the opened file since it was opened
    touched,        \* what others changed since the read began
    broken          \* what was not as it should be between the two fstats

files == <<node, dir, parent, clock, events>>
reads == <<reader, pc, obs>>
seen == <<named, walked, held, touched, broken>>
readVars == <<files, reads, seen>>

File == {"first", "second"}
Directory == {"real", "other"}
Absent == "absent"

-----------------------------------------------------------------------------
(* What the readers compare *)

\* st_dev and st_ino; with size and modification time; with mode and links
\* as well; with the change time as well.
Identity(s) == <<s.ino>>
Short(s) == <<s.ino, s.size, s.mtime>>
Public(s) == <<s.ino, s.mode, s.nlink, s.size, s.mtime>>

State(s) == <<s.ino, s.mode, s.nlink, s.size, s.mtime, s.ctime>>
Same(view, s, t) ==
    CASE view = "nothing" -> TRUE
      [] view = "identity" -> Identity(s) = Identity(t)
      [] view = "short" -> Short(s) = Short(t)
      [] view = "public" -> Public(s) = Public(t)
      [] view = "state" -> State(s) = State(t)

\* looks: it looks at the path before the open; policy and policed: what it
\* demands of mode and links, and after which calls; walks: it opens every
\* directory without following links; opened, after, final: how it compares
\* the opened file with the path, with itself after the read, and with the
\* path again; parent: it holds the directory and compares it; rewalks: it
\* opens the path a second time; resolves: it refuses a link on the way.
ReleaseYaml ==
    [looks |-> TRUE, policy |-> "regular", policed |-> {}, walks |-> FALSE, opened |-> "short",
     after |-> "short", parent |-> FALSE, rewalks |-> FALSE, final |-> "short", resolves |-> TRUE]
ReviewArtifact == ReleaseYaml
AdminContract ==
    [looks |-> TRUE, policy |-> "private", policed |-> {"look", "fstat"}, walks |-> TRUE,
     opened |-> "identity", after |-> "state", parent |-> FALSE, rewalks |-> FALSE,
     final |-> "state", resolves |-> FALSE]
Kubeconfig ==
    [looks |-> TRUE, policy |-> "private", policed |-> {"look"}, walks |-> TRUE,
     opened |-> "state", after |-> "state", parent |-> TRUE, rewalks |-> FALSE,
     final |-> "state", resolves |-> TRUE]
TunnelToken == Kubeconfig
RuntimeEvidence ==
    [looks |-> TRUE, policy |-> "private", policed |-> {"after"}, walks |-> TRUE,
     opened |-> "state", after |-> "state", parent |-> TRUE, rewalks |-> TRUE,
     final |-> "state", resolves |-> TRUE]
HostContract ==
    [RuntimeEvidence EXCEPT !.opened = "identity", !.policed = {"look", "fstat"}]

HostBinding ==
    [looks |-> FALSE, policy |-> "private", policed |-> {"fstat"}, walks |-> FALSE,
     opened |-> "nothing", after |-> "state", parent |-> FALSE, rewalks |-> FALSE,
     final |-> "nothing", resolves |-> FALSE]
PublicFile ==
    [looks |-> TRUE, policy |-> "single", policed |-> {"look", "fstat"}, walks |-> FALSE,
     opened |-> "public", after |-> "public", parent |-> FALSE, rewalks |-> FALSE,
     final |-> "public", resolves |-> TRUE]
Template ==
    [looks |-> FALSE, policy |-> "single", policed |-> {"fstat"}, walks |-> FALSE,
     opened |-> "nothing", after |-> "nothing", parent |-> FALSE, rewalks |-> FALSE,
     final |-> "nothing", resolves |-> FALSE]

Profile ==
    [release |-> ReleaseYaml, artifact |-> ReviewArtifact, admin |-> AdminContract,
     kubeconfig |-> Kubeconfig, token |-> TunnelToken, evidence |-> RuntimeEvidence,
     contract |-> HostContract, binding |-> HostBinding, public |-> PublicFile,
     template |-> Template]
ASSUME ReadersAssumption == Readers \subseteq DOMAIN Profile
p == Profile[reader]

\* A mode of 0600 and one link; one link; any regular file.
Permitted(policy, s) ==
    /\ policy \in {"private", "single"} => s.nlink = 1
    /\ policy = "private" => s.mode = "private"
Allowed(call, s) == call \in p.policed => Permitted(p.policy, s)

-----------------------------------------------------------------------------
(* The file system, and what lstat, fstat and read return *)

Stat(f) ==
    [ino |-> f, mode |-> node[f].mode, nlink |-> node[f].nlink,
     size |-> Len(node[f].data), mtime |-> node[f].mtime, ctime |-> node[f].ctime]
DirStat(d) == [ino |-> d, stamp |-> dir[d].stamp]
Entry == dir[parent.ino].entry
Block(f, i) == IF i <= Len(node[f].data) THEN <<node[f].data[i]>> ELSE <<>>
Whole(v) == <<v, v>>

NothingSeen == [before |-> Absent, fd |-> Absent, pfd |-> Absent, opened |-> Absent,
                above |-> Absent, raw |-> <<>>, after |-> Absent]

ReadsInit ==
    /\ node = [f \in File |-> [data |-> Whole(0), mode |-> "private", mtime |-> 0, ctime |-> 0,
                               nlink |-> 1]]
    /\ dir = [d \in Directory |-> [entry |-> IF d = "real" THEN "first" ELSE "second", stamp |-> 0]]
    /\ parent = [ino |-> "real", link |-> FALSE]
    /\ clock = 0 /\ events = 0
    /\ reader \in Readers /\ pc = "look" /\ obs = NothingSeen
    /\ named = {Whole(0)} /\ walked = {} /\ held = {} /\ touched = {} /\ broken = {}

\* What the history variables add after a step.  Between its two fstats a
\* reader relies on the opened file being private, and in its directory;
\* afterwards on the path still leading there.
Between == {"first block", "second block", "after"}
Afterwards == {"entry", "rewalk", "final"}
Observed ==
    /\ named' = named \union
        (IF Entry' \in File THEN {node'[Entry'].data} ELSE {})
    /\ walked' = walked \union
        (IF pc' \in Afterwards /\ ~parent.link' /\ Entry' \in File THEN {node'[Entry'].data} ELSE {})
    /\ held' = IF obs'.fd \in File THEN held \union {node'[obs'.fd].data} ELSE {}
    /\ broken' = broken \union
        (IF pc' \notin Between THEN {} ELSE
            (IF Permitted("private", Stat(obs.fd)') THEN {} ELSE {"private"})
            \union (IF dir'[obs.pfd].entry = obs.fd THEN {} ELSE {"entry"}))

-----------------------------------------------------------------------------
(* A reader *)

Running == pc \notin {"accepted", "refused"}
Step(from, ok, to) ==
    /\ pc = from
    /\ pc' = IF ok THEN to ELSE "refused"
    /\ UNCHANGED <<files, reader, touched>>

Look ==
    LET visible == Entry \in File /\ (p.resolves => ~parent.link) IN
    /\ Step("look", p.looks => visible /\ Allowed("look", Stat(Entry)), "open")
    /\ obs' = IF p.looks /\ Entry \in File THEN [obs EXCEPT !.before = Stat(Entry)] ELSE obs

Open ==
    LET found == Entry \in File /\ (p.walks => ~parent.link) IN
    /\ Step("open", found, "fstat")
    /\ obs' = IF found THEN [obs EXCEPT !.fd = Entry, !.pfd = parent.ino] ELSE obs

Fstat ==
    LET s == Stat(obs.fd) IN
    /\ Step("fstat", Same(p.opened, obs.before, s) /\ Allowed("fstat", s), "first block")
    /\ obs' = [obs EXCEPT !.opened = s, !.above = DirStat(obs.pfd)]

ReadBlock ==
    /\ \/ Step("first block", TRUE, "second block")
          /\ obs' = [obs EXCEPT !.raw = Block(obs.fd, 1)]
       \/ Step("second block", TRUE, "after")
          /\ obs' = [obs EXCEPT !.raw = @ \o Block(obs.fd, 2)]

\* Mutant of After: every reader compares the directory of the path.
AfterAlwaysCompares ==
    LET s == Stat(obs.fd) IN
    /\ Step("after",
            Same(p.after, obs.opened, s) /\ Allowed("after", s) /\ obs.above = DirStat(obs.pfd),
            "entry")
    /\ obs' = [obs EXCEPT !.after = s]

After ==
    LET s == Stat(obs.fd) IN
    /\ Step("after",
            /\ Same(p.after, obs.opened, s)
            /\ p.after # "nothing" => s.size = Len(obs.raw)
            /\ Allowed("after", s)
            /\ p.parent => obs.above = DirStat(obs.pfd),
            "entry")
    /\ obs' = [obs EXCEPT !.after = s]

\* The file's entry in the directory that was held open.
HeldEntry ==
    /\ Step("entry",
            p.parent => /\ dir[obs.pfd].entry \in File
                        /\ State(Stat(dir[obs.pfd].entry)) = State(obs.after),
            "rewalk")
    /\ UNCHANGED obs

\* Mutant of Rewalk: the second walk follows links.
RewalkFollows ==
    /\ Step("rewalk", p.rewalks => Entry \in File /\ State(Stat(Entry)) = State(obs.after), "final")
    /\ UNCHANGED obs

Rewalk ==
    /\ Step("rewalk",
            p.rewalks => /\ ~parent.link /\ Entry \in File
                         /\ State(Stat(Entry)) = State(obs.after)
                         /\ DirStat(parent.ino) = obs.above,
            "final")
    /\ UNCHANGED obs

\* Mutant of Final: the path is not looked at again.
FinalIsBlind == Step("final", TRUE, "accepted") /\ UNCHANGED obs

Final ==
    /\ Step("final",
            p.final # "nothing" =>
                /\ Entry \in File /\ Same(p.final, obs.after, Stat(Entry))
                /\ p.resolves /\ ~p.rewalks => ~parent.link,
            "accepted")
    /\ UNCHANGED obs

Read == Look \/ Open \/ Fstat \/ ReadBlock \/ After \/ HeldEntry \/ Rewalk \/ Final

-----------------------------------------------------------------------------
(* Everybody else *)

Event(what) ==
    /\ Running /\ events < MaxEvents
    /\ events' = events + 1
    /\ clock' \in IF FineClock THEN {clock + 1} ELSE {clock, clock + 1}
    /\ touched' = touched \union {what}
    /\ UNCHANGED reads

\* A program rewrites the file in place, one block and then the other.
Rewrite(f) ==
    LET d == node[f].data IN
    /\ Event("content")
    /\ node' = [node EXCEPT ![f].data = IF d[1] = d[Len(d)] THEN <<events + 1>> \o Tail(d) ELSE Whole(d[1]),
                            ![f].mtime = clock', ![f].ctime = clock']
    /\ UNCHANGED <<dir, parent>>
Shorten(f) ==
    /\ Event("content")
    /\ node' = [node EXCEPT ![f].data = <<events + 1>>, ![f].mtime = clock', ![f].ctime = clock']
    /\ UNCHANGED <<dir, parent>>
\* A copy that preserves times sets the modification time back.
RestoreTime(f) ==
    /\ Event("times")
    /\ node' = [node EXCEPT ![f].mtime = 0, ![f].ctime = clock']
    /\ UNCHANGED <<dir, parent>>
ChangeMode(f) ==
    /\ Event("mode")
    /\ node' = [node EXCEPT ![f].mode = IF @ = "private" THEN "shared" ELSE "private",
                            ![f].ctime = clock']
    /\ UNCHANGED <<dir, parent>>
Replace ==
    /\ dir["real"].entry = "first" /\ dir["other"].entry = "second"
    /\ Event("path")
    /\ node' = [node EXCEPT !["first"].nlink = 0, !["first"].ctime = clock',
                            !["second"].ctime = clock']
    /\ dir' = [dir EXCEPT !["real"] = [entry |-> "second", stamp |-> clock'],
                          !["other"] = [entry |-> Absent, stamp |-> clock']]
    /\ UNCHANGED parent
\* The path leads through another directory, or through a link: the directory
\* of the file was renamed, which the kernel stamps, or one above it was.
Reroute ==
    /\ Event("path")
    /\ parent' \in [ino: Directory, link: BOOLEAN] \ {parent}
    /\ parent'.link => parent'.ino = "real"
    /\ UNCHANGED node
MoveParent ==
    /\ Reroute
    /\ dir' = [d \in Directory |-> [dir[d] EXCEPT !.stamp = clock']]
MoveAncestor == Reroute /\ UNCHANGED dir
\* Somebody creates or removes another file next to this one.
Sibling ==
    /\ Event("sibling")
    /\ dir' = [dir EXCEPT !["real"].stamp = clock']
    /\ UNCHANGED <<node, parent>>

Others ==
    \/ \E f \in File : Rewrite(f) \/ Shorten(f) \/ RestoreTime(f) \/ ChangeMode(f)
    \/ Replace \/ MoveParent \/ MoveAncestor \/ Sibling

ReadsNext == (Read \/ Others) /\ Observed
ReadsSpec == ReadsInit /\ [][ReadsNext]_readVars

-----------------------------------------------------------------------------
(* Properties *)

\* Every variable keeps its type, through every reader's calls and every
\* change others make to the file, its directory and its path.
ReadsTypeOK ==
    /\ node \in [File -> [data: UNION {[1..n -> 0..MaxEvents] : n \in 1..2},
                          mode: {"private", "shared"}, mtime: 0..MaxEvents, ctime: 0..MaxEvents,
                          nlink: 0..1]]
    /\ dir \in [Directory -> [entry: File \union {Absent}, stamp: 0..MaxEvents]]
    /\ parent \in [ino: Directory, link: BOOLEAN]
    /\ clock \in 0..MaxEvents /\ events \in 0..MaxEvents
    /\ reader \in Readers
    /\ pc \in {"look", "open", "fstat", "first block", "second block", "after", "entry",
               "rewalk", "final", "accepted", "refused"}
    /\ obs.raw \in UNION {[1..n -> 0..MaxEvents] : n \in 0..2}
    /\ touched \subseteq {"content", "times", "mode", "path", "sibling"}

\* Whether changes can escape a reader: it does not compare change times and
\* somebody set a modification time back.
TimesDeceive == p.after \in {"short", "public"} /\ "times" \in touched

\* The bytes a reader returns are one state the opened file was in, never a
\* mix of two, whatever was written while it read.  The reader of the
\* encryption template compares nothing after its read.
AcceptedIsWhole ==
    pc = "accepted" /\ p.after # "nothing" /\ ~TimesDeceive => obs.raw \in held

\* What is returned was at the path at some instant of the read, not only in
\* a file that had been there: the readers that look at the path twice.
AcceptedWasNamed ==
    pc = "accepted" /\ p.final # "nothing" /\ ~TimesDeceive => obs.raw \in named

\* What a reader returns is true of the file and of the path.
AcceptedIsTrue == AcceptedIsWhole /\ AcceptedWasNamed

\* The readers that hold the directory open return a file that was in it at
\* every instant between their two fstats; those that walk the path again
\* return one that the path named, by real directories, once it was read.  (It
\* need not have all the while: a directory further up may have been renamed
\* away and back, of which nothing that is compared tells.)
PathHeld ==
    pc = "accepted" => /\ p.parent => "entry" \notin broken
                       /\ p.rewalks => obs.raw \in walked

\* A reader that demands a private file returns one that was private at every
\* instant between its two fstats.
PrivateThroughout ==
    pc = "accepted" /\ p.policy = "private" => "private" \notin broken

\* What was checked before the read holds to its end.
HeldThroughout == PathHeld /\ PrivateThroughout

\* A refusal has a cause: the file, its times, its mode or its path was
\* touched, or, for the readers that compare the directory they hold, there
\* was a change next to the file.
RefusedForCause ==
    pc = "refused" => touched # {} /\ (touched = {"sibling"} => p.parent)

\* The docstring of _ancestor_state takes the refusal of a stable path because
\* a sibling process touched its directory for a defect that is mended.
SiblingsAreIgnored == pc = "refused" => touched # {"sibling"}
=============================================================================
