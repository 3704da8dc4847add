----------------------------- MODULE ProtectedHost -----------------------------
(***************************************************************************)
(* The live check of a protected host and the ceremony around it.  An      *)
(* operator derives the binding of the legacy archive (--emit-bindings),   *)
(* records it in the private contract, captures runtime evidence, records  *)
(* its digest, and runs --check-live, which asks systemd about the units,  *)
(* derives the binding again and validates the evidence.  All that is      *)
(* observed can change between two calls.  Reads of the contract and of    *)
(* the evidence are single steps: StableReads is about them.               *)
(***************************************************************************)
EXTENDS ArchiveMounts, Integers

CONSTANTS
    Name,           \* the entries of the archive's top level
    Target,         \* the path of the archive
    Mount,          \* the mounts there may be; the one at the root has id 1
    MaxAge,         \* how old evidence may be, in ticks
    MaxChanges      \* how often the host, or the clock, changes

ASSUME HostAssumption ==
    /\ MaxAge \in Nat /\ MaxChanges \in Nat
    /\ \E m \in Mount : m.id = 1 /\ m.point = <<>>
\* The mounts are those of mountinfo, without the parents they get when they
\* are mounted.
ASSUME MountAssumption ==
    /\ Target \in Seq(STRING)
    /\ \A m \in Mount : m.point \in Seq(STRING) /\ m.root \in Seq(STRING)
    /\ \A m, n \in Mount : m.id = n.id => m = n

VARIABLES
    contract,       \* the reviewed file on disk
    evidence,       \* the evidence file next to it
    unit,           \* a unit that must be active and one that must be retired
    archive,        \* the archive's directory and the entries in it
    mounts,         \* the mount table
    boot, now,      \* this boot, and the wall clock
    changes,        \* how many changes there were
    stage, mode,    \* the call the check makes next, and what it is run for
    have,           \* what it holds
    printed,        \* the binding that --emit-bindings printed, if it did
    snaps,          \* the states of the archive since it was opened
    disturbed       \* something changed since the check began

host == <<unit, archive, mounts, boot, now>>
ceremony == <<contract, evidence, printed>>
check == <<stage, mode, have>>
hostVars == <<host, ceremony, changes, check, snaps, disturbed>>

\* An entry that is not there; a digest that is not declared is 0, and a
\* binding that is not declared or not printed is the empty set.
Gone == MaxChanges + 1
UnitStates == {"active", "inactive", "lingering", "enabled"}
\* A retired unit is inactive, disabled or masked, and has no control group.
Exact(u, state) == state = IF u = "service" THEN "active" ELSE "inactive"

\* What the binding hashes: the directory, its mount, and every entry.
Inode == [place |-> archive.place, dev |-> Visible(Target, mounts).dev]
Fingerprint(root, m, entries) ==
    [ino |-> root.ino.place, stamp |-> root.stamp, mount |-> m.point, fs |-> m.fs, entries |-> entries]
RootStat == [ino |-> Inode, stamp |-> archive.stamp]
Snapshot == [stamp |-> archive.stamp, entry |-> archive.entry]

NothingHeld == [contract |-> {}, root |-> {}, mount |-> NoMount, todo |-> {},
                first |-> << >>, again |-> {}, started |-> 0, evidence |-> {}, began |-> 0]

Mounted(m, above) ==
    [id |-> m.id, parent |-> above, point |-> m.point, root |-> m.root, dev |-> m.dev, fs |-> m.fs]
RootMount == {Mounted(m, 0) : m \in {m \in Mount : m.id = 1}}

HostInit ==
    /\ contract = [present |-> TRUE, binding |-> {}, evidence |-> 0]
    /\ evidence = [version |-> 0, boot |-> 0, created |-> 0, present |-> TRUE]
    /\ unit = [u \in {"service", "legacy"} |-> IF u = "service" THEN "active" ELSE "inactive"]
    /\ archive = [place |-> "home", link |-> FALSE, stamp |-> 0, entry |-> [n \in Name |-> 0]]
    /\ mounts = RootMount
    /\ boot = 1 /\ now = 0 /\ changes = 0
    /\ stage = "idle" /\ mode = "live" /\ have = NothingHeld
    /\ printed = {} /\ snaps = {} /\ disturbed = FALSE

-----------------------------------------------------------------------------
(* The check *)

Goto(from, ok, to) ==
    /\ stage = from
    /\ stage' = IF ok THEN to ELSE "failed"
    /\ UNCHANGED <<host, ceremony, changes, mode, snaps, disturbed>>
Holding == UNCHANGED have

Begin ==
    /\ stage \in {"idle", "failed", "passed", "emitted"}
    /\ mode' \in {"live", "emit"}
    /\ stage' = "load" /\ have' = NothingHeld
    /\ snaps' = {} /\ disturbed' = FALSE
    /\ UNCHANGED <<host, ceremony, changes>>

\* Bindings may be missing only while they are derived, and must be then.
Load ==
    /\ Goto("load",
            IF mode = "emit" THEN contract.present /\ contract.binding = {}
            ELSE contract.evidence # 0 /\ (contract.present => contract.binding # {}),
            IF mode = "emit" THEN "root" ELSE "service")
    /\ have' = [have EXCEPT !.contract = contract]

ProbeUnit(u, next) == Goto(u, Exact(u, unit[u]), next) /\ Holding
ProbeUnits ==
    \/ ProbeUnit("service", "legacy")
    \/ ProbeUnit("legacy", IF have.contract.present THEN "root" ELSE "evidence")

\* archive_root_issues, and the component-wise open: no link on the way, one
\* durable mount, and the device that mount has.
OnMount(m) == m # NoMount /\ m.dev = Inode.dev
RootIssues ==
    /\ Goto("root", ~archive.link /\ OnMount(MountRecord(Target, mounts)), "open")
    /\ Holding
OpenArchive ==
    /\ stage = "open" /\ stage' = IF archive.link THEN "failed" ELSE "mount"
    /\ have' = [have EXCEPT !.root = RootStat]
    /\ snaps' = {Snapshot}
    /\ UNCHANGED <<host, ceremony, changes, mode, disturbed>>
MountBefore ==
    LET m == MountRecord(Target, mounts) IN
    /\ Goto("mount", m # NoMount /\ m.dev = have.root.ino.dev, "list")
    /\ have' = [have EXCEPT !.mount = m]

\* The top level is listed, every entry's metadata is taken, and then every
\* entry's a second time; the directory's own before and after.  The archive
\* was opened before, so what happens to its path does not matter here.
List ==
    LET names == {n \in Name : archive.entry[n] # Gone} IN
    /\ Goto("list", names # {}, "first")
    /\ have' = [have EXCEPT !.todo = names, !.again = names, !.started = archive.stamp]
StatEntry(n) ==
    /\ n \in have.todo
    /\ Goto("first", archive.entry[n] # Gone, IF have.todo = {n} THEN "again" ELSE "first")
    /\ have' = [have EXCEPT !.todo = @ \ {n},
                          !.first = [k \in DOMAIN @ \union {n} |->
                                        IF k = n THEN archive.entry[n] ELSE @[k]]]

StatAgain(n) ==
    /\ n \in have.again
    /\ Goto("again", archive.entry[n] = have.first[n], IF have.again = {n} THEN "listed" ELSE "again")
    /\ have' = [have EXCEPT !.again = @ \ {n}]
Listed == Goto("listed", archive.stamp = have.started, "mount again") /\ Holding

MountAfter == Goto("mount again", MountRecord(Target, mounts) = have.mount, "root again") /\ Holding
\* The held directory and its entry in the held parent, then a second walk.
RootAgain ==
    /\ Goto("root again", archive.stamp = have.root.stamp /\ archive.place = have.root.ino.place, "walk")
    /\ Holding
Walk ==
    /\ Goto("walk", ~archive.link /\ RootStat = have.root, "bound")
    /\ Holding

Binding == Fingerprint(have.root, have.mount, have.first)
Bound ==
    /\ stage = "bound" /\ mode = "live"
    /\ Goto("bound", {Binding} = have.contract.binding, "evidence")
    /\ Holding
Emit ==
    /\ stage = "bound" /\ mode = "emit"
    /\ stage' = "emitted" /\ printed' = {Binding}
    /\ UNCHANGED <<host, contract, evidence, changes, mode, have, snaps, disturbed>>

\* The clock is read first, then the evidence, then the boot identity.
ReadClock ==
    /\ Goto("evidence", TRUE, "read")
    /\ have' = [have EXCEPT !.began = now]
ReadEvidence ==
    /\ Goto("read", evidence.version = have.contract.evidence, "boot")
    /\ have' = [have EXCEPT !.evidence = evidence]

\* Mutant of Fresh: evidence of exactly the maximum age is refused.
FreshIsStrict(e, at) == e.created <= at /\ at - e.created < MaxAge

Fresh(e, at) == e.created <= at /\ at - e.created <= MaxAge
\* The age and the owner of the evidence file itself are left out.
Judge ==
    /\ Goto("boot",
            /\ Fresh(have.evidence, have.began)
            /\ have.evidence.boot = boot
            /\ have.evidence.present = have.contract.present,
            "passed")
    /\ Holding

Check ==
    \/ Begin \/ Load \/ ProbeUnits \/ RootIssues \/ OpenArchive \/ MountBefore \/ List
    \/ \E n \in Name : StatEntry(n) \/ StatAgain(n)
    \/ Listed \/ MountAfter \/ RootAgain \/ Walk \/ Bound \/ Emit \/ ReadClock \/ ReadEvidence \/ Judge

-----------------------------------------------------------------------------
(* The operator, and the host *)

\* The operator takes what was printed, and the digest of the evidence, over
\* into the contract, and removes a binding to derive it anew.
Edit(field, value) ==
    /\ contract' = [contract EXCEPT ![field] = value]
    /\ disturbed' = TRUE
    /\ UNCHANGED <<host, evidence, printed, changes, check, snaps>>
Record ==
    \/ printed # {} /\ contract.binding = {} /\ Edit("binding", printed)
    \/ contract.evidence # evidence.version /\ Edit("evidence", evidence.version)
    \/ contract.binding # {} /\ Edit("binding", {})

HostEvent ==
    /\ changes < MaxChanges /\ changes' = changes + 1
    /\ disturbed' = TRUE
    /\ UNCHANGED <<contract, printed>>
CaptureEvidence ==
    /\ HostEvent
    /\ evidence' = [version |-> changes', boot |-> boot, created |-> now, present |-> TRUE]
    /\ UNCHANGED <<host, check, snaps>>

Changes ==
    \/ /\ unit' \in [DOMAIN unit -> UnitStates]
       /\ Cardinality({u \in DOMAIN unit : unit'[u] # unit[u]}) = 1
       /\ UNCHANGED <<archive, mounts, now>>
    \/ /\ \E m \in Mount :
              /\ \A n \in mounts : n.id # m.id
              /\ mounts' = mounts \union {Mounted(m, Visible(m.point, mounts).id)}
       /\ UNCHANGED <<unit, archive, now>>
    \/ /\ \E m \in mounts :
              /\ m.parent # 0 /\ \A n \in mounts : n.parent # m.id
              /\ mounts' = mounts \ {m}
       /\ UNCHANGED <<unit, archive, now>>
    \/ /\ now' = now + 1
       /\ UNCHANGED <<unit, archive, mounts>>
    \/ /\ UNCHANGED <<unit, mounts, now>>
       /\ \/ \E n \in Name :
                \/ /\ archive.entry[n] # Gone
                   /\ archive' = [archive EXCEPT !.entry[n] = changes']
                \/ archive' = [archive EXCEPT !.stamp = changes',
                                   !.entry[n] = IF @ = Gone THEN changes' ELSE Gone]
          \/ archive' = [archive EXCEPT !.stamp = changes', !.link = ~@]
          \/ archive' = [archive EXCEPT !.stamp = changes',
                             !.place = IF @ = "home" THEN "other" ELSE "home"]
HostChange ==
    /\ HostEvent /\ Changes
    /\ snaps' = IF snaps = {} THEN {} ELSE snaps \union {Snapshot'}
    /\ UNCHANGED <<evidence, boot, check>>
Reboot ==
    /\ HostEvent
    /\ boot' = boot + 1 /\ mounts' = RootMount
    /\ stage' = "idle" /\ have' = NothingHeld /\ snaps' = {}
    /\ UNCHANGED <<evidence, unit, archive, now, mode>>

HostNext == Check \/ Record \/ CaptureEvidence \/ HostChange \/ Reboot
HostSpec == HostInit /\ [][HostNext]_hostVars

-----------------------------------------------------------------------------
(* Properties *)

\* The entries a binding is made of are the archive's at one instant, though
\* each was looked at on its own: the second look at every entry, and at the
\* directory, rules out a mixture of before and after a change.
BindingIsOneInstant ==
    stage = "bound" =>
        \E s \in snaps :
            /\ s.stamp = have.root.stamp
            /\ {n \in Name : s.entry[n] # Gone} = DOMAIN have.first
            /\ \A n \in DOMAIN have.first : s.entry[n] = have.first[n]

\* A mount table that is accepted shows no file of the archive at a path
\* outside it, whatever is mounted on what: as long as the record that was
\* accepted is of the mount through which the kernel sees the archive.
ArchiveHasNoAlias ==
    /\ stage = "list" /\ have.mount = MountRecord(Target, mounts)
    /\ Seen(Target, mounts) = {have.mount}
    => \A k \in 0..3 : \A path \in [1..k -> {"srv", "old", "mnt", "new"}] :
            ~Aliased(path, Target, mounts)

\* The docstring of _mount_record_from_records has it "reject every visible
\* archive alias".  It does not when a directory above the archive's mount was
\* mounted over: the record it selects is then not what the kernel sees.
EveryAliasIsRejected ==
    stage = "list" /\ have.mount = MountRecord(Target, mounts) =>
        \A k \in 0..3 : \A path \in [1..k -> {"srv", "old", "mnt", "new"}] :
            ~Aliased(path, Target, mounts)

\* A binding is of the archive itself, at one instant and by its one name.
ArchiveIsBound == BindingIsOneInstant /\ ArchiveHasNoAlias

\* What the check should find, all at once.
Right ==
    LET m == MountRecord(Target, mounts)
        present == {n \in Name : archive.entry[n] # Gone}
    IN  /\ unit["service"] = "active" /\ unit["legacy"] = "inactive"
        /\ ~archive.link /\ present # {} /\ OnMount(m)
        /\ contract.binding = {Fingerprint(RootStat, m, [n \in present |-> archive.entry[n]])}
        /\ contract.evidence = evidence.version
        /\ evidence.boot = boot /\ now - evidence.created \in 0..MaxAge
\* A check during which nothing changed passes exactly when the host, the
\* contract and the evidence belong together: a host that is as the ceremony
\* recorded it is never refused, and no other one passes.
UndisturbedVerdict ==
    ~disturbed /\ mode = "live" =>
        /\ stage = "failed" => ~Right
        /\ stage = "passed" => Right
=============================================================================
