----------------------------- MODULE ArchiveMounts -----------------------------
(***************************************************************************)
(* Which mount an archive directory lives on, and whether some other mount *)
(* shows the same files: validate_protected_host_contract.py decides it    *)
(* from one snapshot of the mount table.  A path is a sequence of names; a *)
(* mount is [id, parent, point, root, dev, fs], as a line of mountinfo;    *)
(* nothing here but the kernel asks for the parent.                        *)
(***************************************************************************)
EXTENDS Naturals, Sequences, FiniteSets, SequencesExt

NoMount == [id |-> 0]
Durable == {"ext4", "xfs", "btrfs"}

Within(path, point) == IsPrefix(point, path)
Beneath(path, point) == IsStrictPrefix(point, path)
Overlap(a, b) == Within(a, b) \/ Within(b, a)
Below(path, point) == SubSeq(path, Len(point) + 1, Len(path))
Deepest(ms) == CHOOSE m \in ms : \A n \in ms : Len(n.point) <= Len(m.point)

\* Mutant of MountRecord: only the mounts on the path are looked at.
NearestMount(target, mounts) ==
    LET m == Deepest({n \in mounts : Within(target, n.point)})
    IN  IF \E a \in mounts : Beneath(a.point, target) THEN NoMount ELSE m

\* The one mount that contains the target, if no mount is stacked on another
\* above or below it, none is below it, and none shows its files elsewhere.
MountRecord(target, mounts) ==
    LET relevant == {m \in mounts : Overlap(m.point, target)}
        containing == {m \in relevant : Within(target, m.point)}
        m == Deepest(containing)
        inner == m.root \o Below(target, m.point)
    IN  IF \/ \E a, b \in relevant : a.id # b.id /\ a.point = b.point
           \/ \E a \in relevant : Beneath(a.point, target)
           \/ containing = {}
           \/ m.fs \notin Durable
           \/ \E a \in mounts \ {m} : a.dev = m.dev /\ Overlap(a.root, inner)
        THEN NoMount
        ELSE m

-----------------------------------------------------------------------------
(* What a path means to the kernel, which walks it from the root and enters a *)
(* mount wherever one lies on the mount it is in: a later mount on a directory *)
(* above hides the mounts below it, though mountinfo lists them still.        *)

Root(mounts) == {m \in mounts : m.parent = 0 /\ m.point = << >>}
\* The first mount on the way down the path from within m.
Entered(m, path, mounts) ==
    LET upon == {n \in mounts : n.parent = m.id /\ Within(path, n.point)}
    IN  {n \in upon : \A o \in upon : Len(n.point) <= Len(o.point)}
\* Those a walk goes through: the least set that is closed under entering.
Passed(path, mounts) ==
    {m \in mounts : \A through \in SUBSET mounts :
        /\ Root(mounts) \subseteq through
        /\ \A n \in through : Entered(n, path, mounts) \subseteq through
        => m \in through}
\* The one that it ends in.
Seen(path, mounts) == {m \in Passed(path, mounts) : Entered(m, path, mounts) = {}}
Visible(path, mounts) == CHOOSE m \in Seen(path, mounts) : TRUE
Inner(m, path) == m.root \o Below(path, m.point)

\* A path outside the target's directory leads to the target's files.
Aliased(path, target, mounts) ==
    \E m \in Seen(path, mounts), t \in Seen(target, mounts) :
        ~Within(path, target) /\ m.dev = t.dev /\ Within(Inner(m, path), Inner(t, target))
=============================================================================
