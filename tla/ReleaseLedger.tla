---------------------------- MODULE ReleaseLedger ----------------------------
(***************************************************************************)
(* The platform ledger, as platform_release_contract.py derives it from a  *)
(* repository: main is one linear chain of trees, a commit is its position *)
(* in it, main[Floor] is the source of the migration-floor tag, and every  *)
(* later tag must bind the one changelog fragment added since the tag      *)
(* before it.  Everything here is a function of main and of the tags; the  *)
(* machines that change them are ReleasePublication and ReleaseRecovery.   *)
(***************************************************************************)
EXTENDS Naturals, Sequences, FiniteSets

CONSTANTS
    Path,       \* names a fragment under changelog.d may have
    Text,       \* fragment texts that validate_fragment_bytes accepts
    MaxVersion  \* bound: versions are 1 (the floor tag) .. MaxVersion

Floor     == 1
Version   == 1..MaxVersion
Generated == "VERSION or CHANGELOG.md"
Absent    == "absent"
Malformed == "malformed"   \* bytes validate_fragment_bytes refuses
Irregular == "irregular"   \* an entry that is not one regular 100644 blob

\* The release surface: the pathspec VERSION, CHANGELOG.md, changelog.d.
Surface == Path \cup {Generated}
Content == Text \cup {Absent, Malformed, Irregular}
Tree    == [Surface -> Content]

\* A tag ref: the commit it peels to, and whether its object carries exactly
\* the bot's metadata for that commit.  0 is "no such ref".
NoTag == [source |-> 0, exact |-> FALSE]

next_version(v) == v + 1

\* main is linear, so --is-ancestor is the order of positions, and every
\* range is one contiguous merge-free chain unless it is empty.
IsAncestor(a, b) == a <= b
LinearRange(base, head) == IsAncestor(base, head) /\ base # head

(***************************************************************************)
(* git diff --name-only over the release surface, by filter.               *)
(***************************************************************************)
Changed(main, base, head) ==
    {s \in Surface : main[base][s] # main[head][s]}
Added(main, base, head) ==
    {s \in Surface : main[base][s] = Absent /\ main[head][s] # Absent}
Modified(main, base, head) ==
    Changed(main, base, head) \ {s \in Surface : Absent \in {main[base][s], main[head][s]}}

FragmentAccepted(content) == content \in Text
RegularEntry(content)     == content # Irregular

\* _release_surface_intents raises nothing.
SurfaceIsReleasable(main, base, head) ==
    /\ LinearRange(base, head)
    /\ Generated \notin Changed(main, base, head)
    /\ Changed(main, base, head) = Added(main, base, head)
    /\ \A p \in Added(main, base, head) :
          RegularEntry(main[head][p]) /\ FragmentAccepted(main[head][p])

Intents(main, base, head) == Added(main, base, head)

BindsOneFragment(main, base, head) ==
    /\ SurfaceIsReleasable(main, base, head)
    /\ Cardinality(Intents(main, base, head)) = 1

(***************************************************************************)
(* _platform_tag_boundaries: every tag is exact, the floor is where it     *)
(* must be, versions have no gap, sources ascend, and each edge binds one  *)
(* fragment.                                                               *)
(***************************************************************************)
Tagged(tags) == {v \in DOMAIN tags : tags[v] # NoTag}

LedgerIsExact(main, tags) ==
    /\ \A v \in Tagged(tags) : tags[v].exact /\ tags[v].source \in DOMAIN main
    /\ tags[1].source = Floor
    /\ \A v \in Tagged(tags) \ {1} :
          /\ v - 1 \in Tagged(tags)
          /\ BindsOneFragment(main, tags[v - 1].source, tags[v].source)

Latest(tags) == CHOOSE v \in Tagged(tags) : \A w \in Tagged(tags) : w <= v

PointsAt(tags, commit) == {v \in Tagged(tags) : tags[v].source = commit}

(***************************************************************************)
(* validate_transition, which a pull request and a push to main must pass. *)
(***************************************************************************)
UnpublishedFragmentEdit(main, tags, base, head) ==
    /\ LinearRange(base, head)
    /\ LedgerIsExact(main, tags)
    /\ PointsAt(tags, base) = {} /\ PointsAt(tags, head) = {}
    /\ LET latest == tags[Latest(tags)].source IN
       /\ IsAncestor(latest, base)
       /\ BindsOneFragment(main, latest, base)
       /\ BindsOneFragment(main, latest, head)
       /\ Intents(main, latest, base) = Intents(main, latest, head)
       /\ Changed(main, base, head) = Intents(main, latest, base)
       /\ Modified(main, base, head) = Intents(main, latest, base)

TransitionIsValid(main, tags, base, head) ==
    \/ BindsOneFragment(main, base, head)
    \/ UnpublishedFragmentEdit(main, tags, base, head)

(***************************************************************************)
(* discover_transition_window.  "pending" is exit status 3, "deny" is 1.   *)
(***************************************************************************)
Denied == [verdict |-> "deny", base |-> 0, version |-> 0]
Pending == [verdict |-> "pending", base |-> 0, version |-> 0]
Ready(base, v) == [verdict |-> "ready", base |-> base, version |-> v]

ExistingEdge(tags, v) ==
    IF v = 1 THEN Denied ELSE Ready(tags[v - 1].source, v)

\* Mutant of NewEdge: an edge that skips the sources between is not pending.
NewEdgeSkips(main, latest, v, head) ==
    IF SurfaceIsReleasable(main, latest, head) /\ Cardinality(Intents(main, latest, head)) > 0
    THEN Ready(latest, next_version(v))
    ELSE Denied

NewEdge(main, latest, v, head) ==
    LET intents == Cardinality(Intents(main, latest, head)) IN
    IF ~SurfaceIsReleasable(main, latest, head) THEN Denied
    ELSE CASE intents = 0 -> Denied
           [] intents = 1 -> Ready(latest, next_version(v))
           [] intents > 1 -> Pending

Window(main, tags, head) ==
    IF ~LedgerIsExact(main, tags) THEN Denied
    ELSE IF PointsAt(tags, head) # {}
         THEN ExistingEdge(tags, CHOOSE v \in PointsAt(tags, head) : TRUE)
         ELSE IF \E v \in Tagged(tags) : IsAncestor(head, tags[v].source) THEN Denied
         ELSE NewEdge(main, tags[Latest(tags)].source, Latest(tags), head)

\* Mutant of Notes: the text is read from the tip of main.
NotesOfTip(main, tags, head, base, v) ==
    LET window == Window(main, tags, head)
        path   == CHOOSE p \in Path : p \in Intents(main, window.base, head)
    IN  IF window = Ready(base, v)
        THEN [source |-> head, version |-> v, path |-> path, text |-> main[Len(main)][path]]
        ELSE Denied

\* render_release_notes: the text of the edge's one fragment, and only for
\* the tag and the predecessor the window itself derives.
Notes(main, tags, head, base, v) ==
    LET window == Window(main, tags, head)
        path   == CHOOSE p \in Path : p \in Intents(main, window.base, head)
    IN  IF window = Ready(base, v)
        THEN [source |-> head, version |-> v, path |-> path, text |-> main[head][path]]
        ELSE Denied
=============================================================================
