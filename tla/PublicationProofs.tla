--------------------------- MODULE PublicationProofs ---------------------------
(***************************************************************************)
(* Proofs about Publication, for any trees and contents an author may have, *)
(* any merge of texts and any number of commits, edits during a gate and pushes around the     *)
(* hook.                                                                   *)
(*                                                                         *)
(* The argument: the past of a commit is the least set that has it and all  *)
(* parents (PastIsLeast), so new commits change no old one's (PastStays).   *)
(* Through the hook, what the range of a push leaves out is what its        *)
(* baseline holds, and that was published or is on main (NothingUnseen).    *)
(* The checks of one gate speak of one tree as long as it rests (Watched).  *)
(* A head GitHub merges was scanned from a commit of main, by a chain that  *)
(* holds main (Verifying): so the base of each replayed commit is where it  *)
(* is replayed (ReplayFollows), and squash and rebase land trees that were  *)
(* scanned, whatever the merge of two texts makes (MergeOfOneSide).         *)
(***************************************************************************)
EXTENDS Publication, FiniteSetTheorems, WellFoundedInduction, TLAPS

\* A commit: its parents are older.
CommitRecord == [parents : SUBSET Nat, tree : Trees, meta : Metadata]

Dag(cs) == cs \in Seq(CommitRecord) /\ \A c \in 1..Len(cs) : cs[c].parents \subseteq 1..(c - 1)

\* The places of the gate, from the first look at the tree to the last.
Looks == {"layout", "privacy files", "privacy index", "media", "secrets files",
          "secrets index", "history", "end"}
Gate  == Looks \cup {"upload"}

\* The commits and all references to them.
Referenced ==
  /\ Dag(commits) /\ Len(commits) \in 1..(MaxCommits + MaxOutgoing)
  /\ {tip, remote.main} \cup verified \cup published \cup calm \cup landed
       \subseteq 1..Len(commits)
  /\ Tree(tip) \in Trees /\ work \in Trees /\ index \in Trees
  /\ remote \in [main : Nat, branch : Nat] /\ remote.branch \in 0..Len(commits)
  /\ bypasses \in 0..MaxBypasses

\* A push: always of the branch to its own name.
PushRecord ==
  [pc : {"idle", "hook"} \cup Gate, remote : Nat, baseline : Nat,
   candidate : Nat, seen : SUBSET UNION Trees, edits : 0..MaxEdits]

\* The push under way is of the tip, from a baseline behind it.
Pushing ==
  /\ push \in PushRecord
  /\ push.remote \in 0..Len(commits) /\ push.baseline \in 0..Len(commits)
  /\ push.candidate \in 0..Len(commits)
  /\ push.pc # "idle" => push.candidate = tip
  /\ push.pc \in {"idle", "hook"} => push.edits = 0
  /\ push.pc \in Gate =>
        /\ push.baseline \in Past(tip)
        /\ IF push.remote = Absent THEN push.baseline \in Past(remote.main)
           ELSE push.baseline = push.remote

\* What the history scan says of a range.
Scanned(base, head) ==
  \A c \in Past(head) \ Past(base) : TreeIsClean(Tree(c)) /\ commits[c].meta = "plain"

ScannedInPush == push.pc \in {"end", "upload"} => Scanned(push.baseline, tip)

\* What the checks so far have shown of a tree that has rested since the hook.
Shown(t) ==
  /\ push.pc # "layout" => check_layout(t)
  /\ push.pc \in {"privacy index", "secrets index"} => push.seen = t
  /\ push.pc \notin {"layout", "privacy files", "privacy index"} => check_privacy(t, t)
  /\ push.pc \in {"secrets files", "secrets index", "history", "end", "upload"} => check_media(t)
  /\ push.pc \in {"history", "end", "upload"} => check_secrets(t, t)

\* One edit is seen at the end, as the tree and the index are compared again.
Watched ==
  /\ push.pc \in Looks =>
       /\ push.edits = 0 => work = Tree(tip) /\ index = Tree(tip)
       /\ push.edits = 1 => work # Tree(tip) \/ index # Tree(tip)
  /\ push.pc = "upload" => push.edits # 1
  /\ push.pc \in Gate /\ push.edits = 0 => Shown(Tree(tip))

\* What the branch of the remote holds was published or is on main.
NothingUnseen ==
  bypasses = 0 /\ remote.branch # Absent =>
    Past(remote.branch) \subseteq published \cup Past(remote.main)

\* The check under way joins its head with what was main, and so did those that
\* succeeded; a range that passed has no merges.
Passed(base, head) ==
  /\ Cardinality(Past(head) \ Past(base)) <= MaxOutgoing
  /\ \A c \in Past(head) \ Past(base) :
        TreeIsClean(Tree(c)) /\ \E p \in Past(head) : commits[c].parents = {p}
  /\ base \in Past(head) => TreeIsLawful(Tree(head))

Verifying ==
  /\ ci \in [head : Nat, base : Nat]
  /\ ci # NoCheck => ci.head \in 1..Len(commits) /\ ci.base \in Past(remote.main)
  /\ \A h \in verified : \E base \in Past(remote.main) : Passed(base, h)

PublicationInv ==
  /\ Referenced /\ Pushing /\ ScannedInPush /\ Watched /\ NothingUnseen /\ Verifying
  /\ PublishedIsClean /\ OneEditHidesNothing /\ MainIsClean
USE DEF PushRecord

--------------------------------------------------------------------------------
\* A set of natural numbers that is not empty has a least element.
LEMMA LeastNumber ==
  ASSUME NEW S \in SUBSET Nat, S # {}
  PROVE  \E n \in S : \A m \in S : n <= m
<1> DEFINE R == OpToRel(<, Nat)
<1>1. IsWellFoundedOn(R, Nat)
  BY NatLessThanWellFounded
<1>2. \E n \in S : \A m \in S : ~(<<m, n>> \in R)
  <2> HIDE DEF R
  <2>1. QED
    BY <1>1, WFMin, Zenon
<1>3. \A m, n \in Nat : <<m, n>> \in R <=> m < n
  BY DEF OpToRel
<1> HIDE DEF R
<1>4. \A m, n \in Nat : ~(<<m, n>> \in R) => n <= m
  BY <1>3
<1>5. QED
  BY <1>2, <1>4

\* The commits of a repository, numbered in the order they were made.
LEMMA DagFacts ==
  ASSUME NEW cs, Dag(cs)
  PROVE  /\ Len(cs) \in Nat /\ DOMAIN cs = 1..Len(cs)
         /\ \A c \in 1..Len(cs) : cs[c] \in CommitRecord /\ cs[c].parents \subseteq 1..(c - 1)
BY DEF Dag

\* Commits with all their parents.
Closed(cs, X) == X \subseteq 1..Len(cs) /\ \A c \in X : cs[c].parents \subseteq X

\* The definition by recursion has a solution, so the ancestors are one.
LEMMA AncestorsRecur ==
  ASSUME NEW cs, Dag(cs)
  PROVE  \A c \in 1..Len(cs) :
           Ancestors(cs)[c] = {c} \cup UNION {Ancestors(cs)[p] : p \in cs[c].parents}
<1> DEFINE N == 1..Len(cs)
           least(c) == {x \in N : \A X \in SUBSET N : Closed(cs, X) /\ c \in X => x \in X}
           f == [c \in N |-> least(c)]
<1>1. DOMAIN cs = N /\ \A c \in N : cs[c].parents \subseteq N
  <2>1. \A c \in N : 1..(c - 1) \subseteq N
    BY DagFacts
  <2>2. QED
    BY <2>1, DagFacts
<1>2. ASSUME NEW c \in N
      PROVE  Closed(cs, least(c)) /\ c \in least(c)
  BY <1>1 DEF Closed
<1>3. ASSUME NEW c \in N
      PROVE  least(c) = {c} \cup UNION {least(p) : p \in cs[c].parents}
  <2> DEFINE X == {c} \cup UNION {least(p) : p \in cs[c].parents}
  <2>1. Closed(cs, X)
    <3>1. X \subseteq N
      OBVIOUS
    <3>2. ASSUME NEW x \in X
          PROVE  cs[x].parents \subseteq X
      <4>1. CASE x = c
        BY <1>1, <1>2, <4>1
      <4>2. ASSUME NEW p \in cs[c].parents, x \in least(p)
            PROVE  cs[x].parents \subseteq X
        <5>1. p \in N
          BY <1>1
        <5>2. cs[x].parents \subseteq least(p)
          BY <1>2, <4>2, <5>1 DEF Closed
        <5>3. least(p) \subseteq X
          OBVIOUS
        <5> HIDE DEF X, least
        <5>4. QED
          BY <5>2, <5>3
      <4>3. QED
        BY <4>1, <4>2
    <3>3. QED
      BY <3>1, <3>2 DEF Closed
  <2>2. least(c) \subseteq X
    BY <2>1 DEF Closed
  <2>3. X \subseteq least(c)
    <3>1. ASSUME NEW p \in cs[c].parents
          PROVE  least(p) \subseteq least(c)
      <4>1. \A Y : Closed(cs, Y) /\ c \in Y => p \in Y
        BY DEF Closed
      <4>2. QED
        BY <4>1
    <3>2. QED
      BY <1>2, <3>1
  <2>4. QED
    BY <2>2, <2>3
<1>4. f = [c \in N |-> {c} \cup UNION {f[p] : p \in cs[c].parents}]
  <2>1. \A c \in N : f[c] = least(c)
    OBVIOUS
  <2> HIDE DEF least
  <2>2. ASSUME NEW c \in N
        PROVE  f[c] = {c} \cup UNION {f[p] : p \in cs[c].parents}
    <3>1. \A p \in cs[c].parents : f[p] = least(p)
      BY <1>1, <2>1
    <3>2. UNION {f[p] : p \in cs[c].parents} = UNION {least(p) : p \in cs[c].parents}
      BY <3>1
    <3>3. QED
      BY <1>3, <2>1, <3>2
  <2>3. f = [c \in N |-> f[c]]
    OBVIOUS
  <2> HIDE DEF f
  <2>4. [c \in N |-> f[c]] = [c \in N |-> {c} \cup UNION {f[p] : p \in cs[c].parents}]
    BY <2>2
  <2>5. QED
    BY <2>3, <2>4
<1>5. Ancestors(cs) =
        CHOOSE g : g = [c \in N |-> {c} \cup UNION {g[p] : p \in cs[c].parents}]
  BY <1>1 DEF Ancestors
<1> HIDE DEF f
<1> DEFINE Solves(g) == g = [c \in N |-> {c} \cup UNION {g[p] : p \in cs[c].parents}]
<1>6. Ancestors(cs) = [c \in N |-> {c} \cup UNION {Ancestors(cs)[p] : p \in cs[c].parents}]
  <2>1. Solves(f)
    BY <1>4
  <2>2. Ancestors(cs) = CHOOSE g : Solves(g)
    BY <1>5
  <2> HIDE DEF Solves
  <2>3. Solves(Ancestors(cs))
    BY <2>1, <2>2
  <2>4. QED
    BY <2>3 DEF Solves
<1>7. QED
  BY <1>6

\* The same of single commits.
LEMMA AncestorsOfChild ==
  ASSUME NEW cs, Dag(cs), NEW c \in 1..Len(cs)
  PROVE  \A x : x \in Ancestors(cs)[c] <=>
               x = c \/ \E p \in cs[c].parents : x \in Ancestors(cs)[p]
BY AncestorsRecur

\* The past of a commit is the least set of commits that has it and all parents.
LEMMA PastIsLeast ==
  ASSUME NEW cs, Dag(cs), NEW c \in 1..Len(cs)
  PROVE  /\ c \in Ancestors(cs)[c] /\ Closed(cs, Ancestors(cs)[c])
         /\ Ancestors(cs)[c] \subseteq 1..c
         /\ \A X : Closed(cs, X) /\ c \in X => Ancestors(cs)[c] \subseteq X
<1> DEFINE N == 1..Len(cs)
           A(d) == Ancestors(cs)[d]
<1>1. \A d \in N : A(d) = {d} \cup UNION {A(p) : p \in cs[d].parents}
  BY AncestorsRecur
<1>2. \A d \in N : d \in Nat /\ \A p \in cs[d].parents : p \in N /\ p < d
  <2>1. \A d \in N : \A p \in 1..(d - 1) : p \in N /\ p < d /\ d \in Nat
    BY DagFacts
  <2>2. QED
    BY <2>1, DagFacts
<1> HIDE DEF A
<1>3. ASSUME NEW d \in N
      PROVE  A(d) \subseteq 1..d /\ \A x \in A(d) : cs[x].parents \subseteq A(d)
  <2> DEFINE good(e) == A(e) \subseteq 1..e /\ \A x \in A(e) : cs[x].parents \subseteq A(e)
             bad == {e \in N : ~good(e)}
  <2>1. ASSUME bad # {}
        PROVE  FALSE
    <3>1. bad \in SUBSET Nat
      BY <1>2
    <3>2. PICK e \in bad : \A m \in bad : e <= m
      BY <2>1, <3>1, LeastNumber
    <3>3. ASSUME NEW p \in cs[e].parents
          PROVE  good(p) /\ p \in N /\ p < e
      BY <1>2, <3>2, <3>3
    <3>4. A(e) = {e} \cup UNION {A(p) : p \in cs[e].parents}
      BY <1>1
    <3>5. A(e) \subseteq 1..e
      <4>1. \A p \in cs[e].parents : A(p) \subseteq 1..e
        <5> TAKE p \in cs[e].parents
        <5>1. A(p) \subseteq 1..p /\ 1..p \subseteq 1..e
          BY <1>2, <3>3
        <5>2. QED
          BY <5>1
      <4>2. e \in 1..e
        BY <1>2
      <4>3. QED
        BY <3>4, <4>1, <4>2
    <3>6. ASSUME NEW x \in A(e)
          PROVE  cs[x].parents \subseteq A(e)
      <4>1. CASE x = e
        <5>1. \A p \in cs[e].parents : p \in A(p)
          BY <1>1, <3>3
        <5>2. QED
          BY <3>4, <4>1, <5>1
      <4>2. ASSUME NEW p \in cs[e].parents, x \in A(p)
            PROVE  cs[x].parents \subseteq A(e)
        BY <3>3, <3>4, <4>2
      <4>3. QED
        BY <3>4, <4>1, <4>2
    <3>7. QED
      BY <3>2, <3>5, <3>6
  <2>2. QED
    BY <2>1
<1>4. ASSUME NEW X, Closed(cs, X), NEW d \in X
      PROVE  A(d) \subseteq X
  <2> DEFINE bad == {e \in X : ~(A(e) \subseteq X)}
  <2>1. X \subseteq N /\ \A e \in X : cs[e].parents \subseteq X
    BY <1>4 DEF Closed
  <2>2. ASSUME bad # {}
        PROVE  FALSE
    <3>1. bad \in SUBSET Nat
      BY <1>2, <2>1
    <3>2. PICK e \in bad : \A m \in bad : e <= m
      BY <2>2, <3>1, LeastNumber
    <3>3. \A p \in cs[e].parents : A(p) \subseteq X
      <4> TAKE p \in cs[e].parents
      <4>1. p \in X /\ p < e /\ p \in Nat /\ e \in Nat
        BY <1>2, <2>1
      <4>2. QED
        BY <3>2, <4>1
    <3>4. A(e) = {e} \cup UNION {A(p) : p \in cs[e].parents}
      BY <1>1, <2>1
    <3>5. QED
      BY <3>2, <3>3, <3>4
  <2>3. QED
    BY <2>2
<1>5. c \in A(c) /\ A(c) \subseteq 1..c /\ \A x \in A(c) : cs[x].parents \subseteq A(c)
  BY <1>1, <1>3
<1>6. 1..c \subseteq 1..Len(cs)
  BY DagFacts
<1>7. QED
  BY <1>4, <1>5, <1>6 DEF Closed, A

\* Ancestors of an ancestor are ancestors.
LEMMA PastIsTransitive ==
  ASSUME NEW cs, Dag(cs), NEW c \in 1..Len(cs), NEW d \in Ancestors(cs)[c]
  PROVE  d \in 1..Len(cs) /\ Ancestors(cs)[d] \subseteq Ancestors(cs)[c]
<1>1. Closed(cs, Ancestors(cs)[c])
  BY PastIsLeast
<1>2. d \in 1..Len(cs)
  BY <1>1 DEF Closed
<1>3. QED
  BY <1>1, <1>2, PastIsLeast

\* New commits leave the past of the old ones as it is.
LEMMA PastStays ==
  ASSUME NEW cs, NEW ds, Dag(cs), Dag(ds), Len(cs) <= Len(ds),
         \A c \in 1..Len(cs) : ds[c] = cs[c],
         NEW c \in 1..Len(cs)
  PROVE  Ancestors(ds)[c] = Ancestors(cs)[c]
<1>1. c \in 1..Len(ds) /\ 1..Len(cs) \subseteq 1..Len(ds)
  BY DagFacts
<1>2. /\ c \in Ancestors(cs)[c] /\ Closed(cs, Ancestors(cs)[c])
      /\ \A X : Closed(cs, X) /\ c \in X => Ancestors(cs)[c] \subseteq X
  BY PastIsLeast
<1>3. /\ c \in Ancestors(ds)[c] /\ Closed(ds, Ancestors(ds)[c])
      /\ \A X : Closed(ds, X) /\ c \in X => Ancestors(ds)[c] \subseteq X
  BY <1>1, PastIsLeast
<1>4. Closed(ds, Ancestors(cs)[c])
  BY <1>1, <1>2 DEF Closed
<1>5. Ancestors(ds)[c] \subseteq Ancestors(cs)[c]
  BY <1>2, <1>3, <1>4
<1>6. Closed(cs, Ancestors(ds)[c])
  BY <1>2, <1>3, <1>5 DEF Closed
<1>7. QED
  BY <1>2, <1>3, <1>5, <1>6

--------------------------------------------------------------------------------
\* A tree without a finding is clean: all of it is read, as none of its entries is
\* a submodule or too large.
\* (validate_publication_history.py, _parse_tree and validate)
LEMMA NoFindingIsClean ==
  ASSUME NEW t \in SUBSET UNION Trees, ~TreeFinding(t)
  PROVE  TreeIsClean(t)
<1>1. \A f \in t : f.size \in Nat
  BY TreesAssumption DEF File
<1>2. MaxBlob \in Nat
  BY CeilingsAssumption
<1>3. /\ ~_parse_tree(t).found
      /\ ~\E f \in _parse_tree(t).entries : ContentFinding(f)
      /\ ~(AssetTotal(_parse_tree(t).entries) > MaxAssetTree)
  BY DEF TreeFinding
<1>4. /\ ~CaseCollision(t) /\ \A f \in t : ~EntryFinding(f)
      /\ ~(SizeOf({f \in t : f.mode # "submodule"}) > MaxTree)
  BY <1>3 DEF _parse_tree
<1>5. \A f \in t : f.mode = "regular" /\ f.size <= MaxBlob
  BY <1>1, <1>2, <1>4 DEF EntryFinding
<1>6. {f \in t : f.mode # "submodule"} = t
  BY <1>5
<1>7. _parse_tree(t).entries = t
  <2>1. _parse_tree(t).entries = {f \in t : IsRead(f)}
    BY DEF _parse_tree
  <2>2. QED
    BY <1>5, <2>1 DEF IsRead
<1>8. \A f \in t : FileIsClean(f)
  BY <1>3, <1>4, <1>7 DEF FileIsClean
<1>9. ~(SizeOf(t) > MaxTree)
  BY <1>4, <1>6, Zenon
<1>10. ~(AssetTotal(t) > MaxAssetTree)
  BY <1>3, <1>7, Zenon
<1>11. QED
  BY <1>4, <1>8, <1>9, <1>10 DEF TreeIsClean

\* A range that passes has no more commits than the ceiling, each of them clean.
\* (validate_publication_history.py, validate)
LEMMA ValidatedRange ==
  ASSUME NEW cs, NEW base, NEW head, validate(cs, base, head), Dag(cs),
         head \in 1..Len(cs)
  PROVE  LET range == Ancestors(cs)[head] \ Ancestors(cs)[base] IN
         /\ Cardinality(range) <= MaxOutgoing
         /\ \A c \in range : TreeIsClean(cs[c].tree) /\ cs[c].meta = "plain"
<1> DEFINE range == Ancestors(cs)[head] \ Ancestors(cs)[base]
<1>1. _outgoing_commits(cs, base, head) = range
  BY DEF _outgoing_commits
<1>2. /\ Cardinality(range) <= MaxOutgoing
      /\ \A c \in range : cs[c].meta # "malformed"
      /\ ~Findings(cs, range)
  BY <1>1 DEF validate, _commit_metadata
<1>3. range \subseteq 1..Len(cs)
  BY PastIsLeast DEF Closed
<1> HIDE DEF range
<1>4. ASSUME NEW c \in range
      PROVE  TreeIsClean(cs[c].tree) /\ cs[c].meta = "plain"
  <2>1. cs[c].meta # "telling" /\ ~TreeFinding(cs[c].tree)
    BY <1>2 DEF Findings, _commit_metadata
  <2>2. cs[c] \in CommitRecord
    BY <1>3, DagFacts
  <2>3. cs[c].meta \in {"plain", "telling", "malformed"} /\ cs[c].tree \in SUBSET UNION Trees
    BY <2>2 DEF CommitRecord, Metadata
  <2>4. QED
    BY <1>2, <2>1, <2>3, NoFindingIsClean
<1>5. QED
  BY <1>2, <1>4 DEF range

\* The commits of a reachable state, as numbers.
LEMMA PastOfReference ==
  ASSUME Referenced, NEW c \in 1..Len(commits)
  PROVE  /\ c \in Past(c) /\ Past(c) \subseteq 1..c /\ Past(c) \subseteq 1..Len(commits)
         /\ \A d \in Past(c) : Past(d) \subseteq Past(c)
<1>1. Dag(commits)
  BY DEF Referenced
<1>2. QED
  BY <1>1, PastIsLeast, PastIsTransitive DEF Past, Closed

--------------------------------------------------------------------------------
\* Steps that make no commit and leave main and the checks leave their verdicts.
LEMMA VerdictsStay ==
  ASSUME Verifying, commits' = commits, remote'.main = remote.main, ci' = ci,
         verified' = verified
  PROVE  Verifying'
<1>1. \A base, head : Passed(base, head)' <=> Passed(base, head)
  BY DEF Passed, Past, Tree
<1>2. Past(remote.main)' = Past(remote.main)
  BY DEF Past
<1>3. QED
  BY <1>1, <1>2 DEF Verifying

\* Steps of the hook and of the gate touch the push alone.
LEMMA PushAlone ==
  ASSUME PublicationInv, UNCHANGED <<local, remote, ci, verified, bypasses, history>>,
         Pushing', ScannedInPush', Watched'
  PROVE  PublicationInv'
<1>1. /\ commits' = commits /\ tip' = tip /\ work' = work /\ index' = index
      /\ remote' = remote /\ ci' = ci /\ verified' = verified /\ bypasses' = bypasses
      /\ published' = published /\ calm' = calm /\ landed' = landed
  BY DEF local, history
<1>2. Referenced'
  BY <1>1 DEF PublicationInv, Referenced, Tree
<1>3. NothingUnseen'
  BY <1>1 DEF PublicationInv, NothingUnseen, Past
<1>4. Verifying'
  BY <1>1, VerdictsStay DEF PublicationInv
<1>5. PublishedIsClean' /\ OneEditHidesNothing'
  BY <1>1 DEF PublicationInv, PublishedIsClean, OneEditHidesNothing, Tree
<1>6. MainIsClean'
  BY <1>1 DEF PublicationInv, MainIsClean, Past, Tree
<1>7. QED
  BY <1>2, <1>3, <1>4, <1>5, <1>6 DEF PublicationInv

\* No push is under way.
LEMMA NoPushIsRight ==
  ASSUME Referenced', push' = NoPush
  PROVE  Pushing' /\ ScannedInPush' /\ Watched'
<1>1. /\ push'.pc = "idle" /\ push'.remote = 0 /\ push'.baseline = 0
      /\ push'.candidate = 0 /\ push'.seen = {} /\ push'.edits = 0
  BY DEF NoPush, Absent
<1>2. push' \in PushRecord
  <2>1. 0 \in 0..MaxEdits /\ {} \in SUBSET UNION Trees
    BY BoundsAssumption
  <2>2. QED
    BY <2>1 DEF NoPush, Absent
<1>3. 0 \in 0..Len(commits')
  BY DEF Referenced
<1>4. Pushing'
  BY <1>1, <1>2, <1>3 DEF Pushing, Gate, Looks
<1>5. ScannedInPush' /\ Watched'
  BY <1>1 DEF ScannedInPush, Watched, Gate, Looks
<1>6. QED
  BY <1>4, <1>5

\* A check that fails ends the push; one that passes leads to the next.
LEMMA GateGoesOn ==
  ASSUME PublicationInv, NEW ok, NEW next \in Gate, Proceed(ok, next), push.pc \in Gate,
         ok => /\ next \in {"end", "upload"} => Scanned(push.baseline, tip)
               /\ next \in Looks => push.pc \in Looks
               /\ next = "upload" => push.edits # 1
               /\ push.edits = 0 => \A t : t = Tree(tip) /\ Shown(t) =>
                    /\ next # "layout" => check_layout(t)
                    /\ next \notin {"privacy index", "secrets index"}
                    /\ next \notin {"layout", "privacy files", "privacy index"} => check_privacy(t, t)
                    /\ next \in {"secrets files", "secrets index", "history", "end", "upload"}
                          => check_media(t)
                    /\ next \in {"history", "end", "upload"} => check_secrets(t, t)
  PROVE  PublicationInv'
<1>1. /\ UNCHANGED <<local, remote, ci, verified, bypasses, history>>
      /\ push' = IF ok THEN [push EXCEPT !.pc = next] ELSE NoPush
  BY DEF Proceed
<1>2. /\ commits' = commits /\ tip' = tip /\ work' = work /\ index' = index /\ remote' = remote
  BY <1>1 DEF local
<1>3. Referenced'
  BY <1>1, <1>2 DEF PublicationInv, Referenced, Tree, history
<1>4. CASE ~ok
  BY <1>1, <1>3, <1>4, NoPushIsRight, PushAlone
<1>5. CASE ok
  <2>1. push' = [push EXCEPT !.pc = next]
    BY <1>1, <1>5
  <2>2. push \in PushRecord
    BY DEF PublicationInv, Pushing
  <2>3. /\ push'.pc = next /\ push'.remote = push.remote
        /\ push'.baseline = push.baseline /\ push'.candidate = push.candidate
        /\ push'.seen = push.seen /\ push'.edits = push.edits
    BY <2>1, <2>2
  <2>4. push' \in PushRecord
    BY <2>1, <2>2
  <2>5. next # "idle" /\ next # "hook" /\ push.pc # "idle"
    BY DEF Gate, Looks
  <2>6. Pushing'
    BY <1>2, <2>3, <2>4, <2>5 DEF PublicationInv, Pushing, Past
  <2>7. ScannedInPush'
    BY <1>2, <1>5, <2>3 DEF ScannedInPush, Scanned, Past, Tree
  <2>8. Watched'
    <3>1. push'.pc \in Looks =>
            /\ push'.edits = 0 => work' = Tree(tip)' /\ index' = Tree(tip)'
            /\ push'.edits = 1 => work' # Tree(tip)' \/ index' # Tree(tip)'
      BY <1>2, <1>5, <2>3 DEF PublicationInv, Watched, Tree
    <3>2. push'.pc = "upload" => push'.edits # 1
      BY <1>5, <2>3
    <3>3. ASSUME push'.edits = 0
          PROVE  Shown(Tree(tip))'
      <4>1. Shown(Tree(tip))
        BY <2>3, <3>3 DEF PublicationInv, Watched
      <4>2. PICK t : t = Tree(tip)
        OBVIOUS
      <4>3. Tree(tip)' = t
        BY <1>2, <4>2 DEF Tree
      <4>4. /\ next # "layout" => check_layout(t)
            /\ next \notin {"privacy index", "secrets index"}
            /\ next \notin {"layout", "privacy files", "privacy index"} => check_privacy(t, t)
            /\ next \in {"secrets files", "secrets index", "history", "end", "upload"}
                          => check_media(t)
            /\ next \in {"history", "end", "upload"} => check_secrets(t, t)
        BY <1>5, <2>3, <3>3, <4>1, <4>2
      <4>5. QED
        BY <2>3, <4>3, <4>4 DEF Shown
    <3>4. QED
      BY <3>1, <3>2, <3>3 DEF Watched
  <2>9. QED
    BY <1>1, <2>6, <2>7, <2>8, PushAlone
<1>6. QED
  BY <1>4, <1>5

\* What a gate that has seen no edit knows (validate_repository.py, main).
LEMMA AtRestInGate ==
  ASSUME PublicationInv, push.pc \in Looks, push.edits = 0
  PROVE  work = Tree(tip) /\ index = Tree(tip) /\ Shown(Tree(tip))
BY DEF PublicationInv, Watched, Gate

\* The checks that compute a verdict, one after the other.
LEMMA ChecksGoOn ==
  ASSUME PublicationInv,
         Layout \/ PrivacyIndex \/ Media \/ SecretsIndex \/ History \/ GateEnd
  PROVE  PublicationInv'
<1>1. CASE Layout
  <2>1. push.pc = "layout" /\ Proceed(check_layout(work), "privacy files")
    BY <1>1 DEF Layout
  <2>2. push.pc \in Looks /\ push.pc \in Gate /\ "privacy files" \in Gate
    BY <2>1 DEF Looks, Gate
  <2>3. ASSUME check_layout(work), push.edits = 0, NEW t, t = Tree(tip)
        PROVE  check_layout(t)
    BY <2>2, <2>3, AtRestInGate
  <2>4. QED
    BY <2>1, <2>2, <2>3, GateGoesOn
<1>2. CASE PrivacyIndex
  <2>1. push.pc = "privacy index" /\ Proceed(check_privacy(push.seen, index), "media")
    BY <1>2 DEF PrivacyIndex
  <2>2. push.pc \in Looks /\ push.pc \in Gate /\ "media" \in Gate
    BY <2>1 DEF Looks, Gate
  <2>3. ASSUME check_privacy(push.seen, index), push.edits = 0, NEW t, t = Tree(tip), Shown(t)
        PROVE  check_layout(t) /\ check_privacy(t, t)
    <3>1. push.seen = t /\ check_layout(t)
      BY <2>1, <2>3 DEF Shown
    <3>2. index = t
      BY <2>2, <2>3, AtRestInGate
    <3>3. QED
      BY <2>3, <3>1, <3>2
  <2>4. QED
    BY <2>1, <2>2, <2>3, GateGoesOn
<1>3. CASE Media
  <2>1. push.pc = "media" /\ Proceed(check_media(work), "secrets files")
    BY <1>3 DEF Media
  <2>2. push.pc \in Looks /\ push.pc \in Gate /\ "secrets files" \in Gate
    BY <2>1 DEF Looks, Gate
  <2>3. ASSUME check_media(work), push.edits = 0, NEW t, t = Tree(tip), Shown(t)
        PROVE  check_layout(t) /\ check_privacy(t, t) /\ check_media(t)
    <3>1. check_layout(t) /\ check_privacy(t, t)
      BY <2>1, <2>3 DEF Shown
    <3>2. work = t
      BY <2>2, <2>3, AtRestInGate
    <3>3. QED
      BY <2>3, <3>1, <3>2
  <2>4. QED
    BY <2>1, <2>2, <2>3, GateGoesOn
<1>4. CASE SecretsIndex
  <2>1. push.pc = "secrets index" /\ Proceed(check_secrets(push.seen, index), "history")
    BY <1>4 DEF SecretsIndex
  <2>2. push.pc \in Looks /\ push.pc \in Gate /\ "history" \in Gate
    BY <2>1 DEF Looks, Gate
  <2>3. ASSUME check_secrets(push.seen, index), push.edits = 0, NEW t, t = Tree(tip), Shown(t)
        PROVE  check_layout(t) /\ check_privacy(t, t) /\ check_media(t) /\ check_secrets(t, t)
    <3>1. push.seen = t /\ check_layout(t) /\ check_privacy(t, t) /\ check_media(t)
      BY <2>1, <2>3 DEF Shown
    <3>2. index = t
      BY <2>2, <2>3, AtRestInGate
    <3>3. QED
      BY <2>3, <3>1, <3>2
  <2>4. QED
    BY <2>1, <2>2, <2>3, GateGoesOn
<1>5. CASE History
  <2>1. push.pc = "history" /\ Proceed(PassesForPush(commits, push.baseline, push.candidate), "end")
    BY <1>5 DEF History
  <2>2. push.pc \in Looks /\ push.pc \in Gate /\ "end" \in Gate
    BY <2>1 DEF Looks, Gate
  <2>3. ASSUME PassesForPush(commits, push.baseline, push.candidate)
        PROVE  Scanned(push.baseline, tip)
    <3>1. push.candidate = tip
      BY <2>1 DEF PublicationInv, Pushing
    <3>2. Dag(commits) /\ tip \in 1..Len(commits)
      BY DEF PublicationInv, Referenced
    <3>3. validate(commits, push.baseline, tip)
      BY <2>3, <3>1 DEF PassesForPush
    <3>4. QED
      BY <3>2, <3>3, ValidatedRange DEF Scanned, Past, Tree
  <2>4. ASSUME NEW t, Shown(t)
        PROVE  check_layout(t) /\ check_privacy(t, t) /\ check_media(t) /\ check_secrets(t, t)
    BY <2>1, <2>4 DEF Shown
  <2>5. QED
    BY <2>1, <2>2, <2>3, <2>4, GateGoesOn
<1>6. CASE GateEnd
  <2>1. push.pc = "end" /\ Proceed(Clean, "upload")
    BY <1>6 DEF GateEnd
  <2>2. push.pc \in Looks /\ push.pc \in Gate /\ "upload" \in Gate /\ "upload" \notin Looks
    BY <2>1 DEF Looks, Gate
  <2>3. ASSUME Clean
        PROVE  push.edits # 1
    <3>1. push.candidate = tip
      BY <2>1 DEF PublicationInv, Pushing
    <3>2. work = Tree(tip) /\ index = Tree(tip)
      BY <2>3, <3>1 DEF Clean
    <3>3. QED
      BY <2>2, <3>2 DEF PublicationInv, Watched
  <2>4. ASSUME NEW t, Shown(t)
        PROVE  check_layout(t) /\ check_privacy(t, t) /\ check_media(t) /\ check_secrets(t, t)
    BY <2>1, <2>4 DEF Shown
  <2>5. Scanned(push.baseline, tip)
    BY <2>1 DEF PublicationInv, ScannedInPush
  <2>6. QED
    BY <2>1, <2>2, <2>3, <2>4, <2>5, GateGoesOn
<1>7. QED
  BY <1>1, <1>2, <1>3, <1>4, <1>5, <1>6

\* The looks of check_privacy and check_secrets at the files.
LEMMA LooksGoOn ==
  ASSUME PublicationInv, PrivacyFiles \/ SecretsFiles
  PROVE  PublicationInv'
<1>1. PICK pc \in {"privacy files", "secrets files"},
           next \in {"privacy index", "secrets index"} :
        /\ Look(pc, next)
        /\ pc = "privacy files" => next = "privacy index"
        /\ pc = "secrets files" => next = "secrets index"
  BY DEF PrivacyFiles, SecretsFiles
<1>2. /\ UNCHANGED <<local, remote, ci, verified, bypasses, history>>
      /\ push.pc = pc /\ push' = [push EXCEPT !.pc = next, !.seen = work]
  BY <1>1 DEF Look
<1>3. /\ commits' = commits /\ tip' = tip /\ work' = work /\ index' = index /\ remote' = remote
  BY <1>2 DEF local
<1>4. push \in PushRecord
  BY DEF PublicationInv, Pushing
<1>5. work \in SUBSET UNION Trees
  BY DEF PublicationInv, Referenced
<1>6. /\ push'.pc = next /\ push'.remote = push.remote
      /\ push'.baseline = push.baseline /\ push'.candidate = push.candidate
      /\ push'.seen = work /\ push'.edits = push.edits
  BY <1>2, <1>4
<1>7. next \in Gate /\ next \in Looks /\ pc \in Gate /\ pc \in Looks
      /\ next \notin {"idle", "hook", "end", "upload"} /\ pc \notin {"idle", "hook"}
  BY DEF Gate, Looks
<1>8. push' \in PushRecord
  BY <1>2, <1>4, <1>5, <1>7
<1>9. Pushing'
  BY <1>2, <1>3, <1>6, <1>7, <1>8 DEF PublicationInv, Pushing, Past
<1>10. ScannedInPush'
  BY <1>6, <1>7 DEF ScannedInPush
<1>11. Watched'
  <2>1. push'.pc \in Looks =>
            /\ push'.edits = 0 => work' = Tree(tip)' /\ index' = Tree(tip)'
            /\ push'.edits = 1 => work' # Tree(tip)' \/ index' # Tree(tip)'
    BY <1>2, <1>3, <1>6, <1>7 DEF PublicationInv, Watched, Tree
  <2>2. ASSUME push'.edits = 0
        PROVE  Shown(Tree(tip))'
    <3>1. work = Tree(tip) /\ Shown(Tree(tip))
      BY <1>2, <1>6, <1>7, <2>2, AtRestInGate
    <3>2. PICK t : t = Tree(tip)
      OBVIOUS
    <3>3. Tree(tip)' = t
      BY <1>3, <3>2 DEF Tree
    <3>4. /\ next # "layout" => check_layout(t)
          /\ next \in {"privacy index", "secrets index"} => push'.seen = t
          /\ next \notin {"layout", "privacy files", "privacy index"} => check_privacy(t, t)
          /\ next \in {"secrets files", "secrets index", "history", "end", "upload"} => check_media(t)
          /\ next \in {"history", "end", "upload"} => check_secrets(t, t)
      BY <1>1, <1>2, <1>6, <3>1, <3>2 DEF Shown
    <3>5. QED
      BY <1>6, <3>3, <3>4 DEF Shown
  <2>3. QED
    BY <1>6, <1>7, <2>1, <2>2 DEF Watched
<1>12. QED
  BY <1>2, <1>9, <1>10, <1>11, PushAlone

\* The push begins, and the hook finds the tree clean (.githooks/pre-push).
LEMMA PushBegins ==
  ASSUME PublicationInv, (\E spec \in Specs, asks \in BOOLEAN : PushBegin(spec, asks)) \/ Hook
  PROVE  PublicationInv'
<1>1. ASSUME NEW spec \in Specs, NEW asks \in BOOLEAN, PushBegin(spec, asks)
      PROVE  PublicationInv'
  <2>1. UNCHANGED <<local, remote, ci, verified, bypasses, history>>
    BY <1>1 DEF PushBegin
  <2>4. push' = [pc |-> "hook", remote |-> remote.branch, baseline |-> Absent,
                 candidate |-> tip, seen |-> {}, edits |-> 0]
    BY <1>1 DEF PushBegin, NoPush
  <2>5. /\ push'.pc = "hook" /\ push'.remote = remote.branch /\ push'.baseline = 0
        /\ push'.candidate = tip /\ push'.edits = 0
    BY <2>4 DEF Absent
  <2>6. /\ remote.branch \in 0..Len(commits) /\ tip \in 1..Len(commits)
        /\ 1..Len(commits) \subseteq 0..Len(commits) /\ 0..Len(commits) \subseteq Nat
        /\ 0 \in 0..MaxEdits /\ 0 \in 0..Len(commits)
    BY BoundsAssumption DEF PublicationInv, Referenced
  <2>7. /\ push'.remote \in 0..Len(commits') /\ push'.baseline \in 0..Len(commits')
        /\ push'.candidate \in 0..Len(commits') /\ tip' = tip /\ commits' = commits
    BY <2>1, <2>5, <2>6 DEF local
  <2>8. push' \in PushRecord
    BY <2>4, <2>6 DEF Absent
  <2>9. Pushing'
    BY <2>5, <2>7, <2>8 DEF Pushing, Gate, Looks
  <2>10. ScannedInPush' /\ Watched'
    BY <2>5 DEF ScannedInPush, Watched, Gate, Looks
  <2>11. QED
    BY <2>1, <2>9, <2>10, PushAlone
<1>2. CASE Hook
  <2>1. PICK base \in Baselines :
          /\ push' = IF base # push.candidate /\ base \in Past(push.candidate) /\ Clean
                     THEN [push EXCEPT !.pc = "layout", !.baseline = base]
                     ELSE NoPush
          /\ UNCHANGED <<local, remote, ci, verified, bypasses, history>>
    BY <1>2 DEF Hook
  <2>2. push.pc = "hook" /\ push.candidate = tip /\ push.edits = 0
    BY <1>2 DEF Hook, PublicationInv, Pushing
  <2>3. commits' = commits /\ tip' = tip /\ work' = work /\ index' = index /\ remote' = remote
    BY <2>1 DEF local
  <2>4. CASE push' = NoPush
    <3>1. Referenced'
      BY <2>1, <2>3 DEF PublicationInv, Referenced, Tree, history
    <3>2. QED
      BY <2>1, <2>4, <3>1, NoPushIsRight, PushAlone
  <2>5. CASE /\ base \in Past(tip) /\ Clean
             /\ push' = [push EXCEPT !.pc = "layout", !.baseline = base]
    <3>1. push \in PushRecord
      BY DEF PublicationInv, Pushing
    <3>2. base \in 1..Len(commits) /\ base \in Nat /\ base \in 0..Len(commits)
      <4>1. tip \in 1..Len(commits)
        BY DEF PublicationInv, Referenced
      <4>2. base \in 1..Len(commits)
        BY <2>5, <4>1, PastOfReference DEF PublicationInv
      <4>3. QED
        BY <4>2 DEF PublicationInv, Referenced
    <3>3. /\ push'.pc = "layout" /\ push'.remote = push.remote
          /\ push'.baseline = base /\ push'.candidate = tip /\ push'.edits = 0
      BY <2>2, <2>5, <3>1
    <3>4. push' \in PushRecord
      BY <2>5, <3>1, <3>2 DEF Gate, Looks
    <3>5. IF push.remote = Absent THEN base \in Past(remote.main) ELSE base = push.remote
      <4>1. remote.main \in Past(remote.main)
        <5>1. remote.main \in 1..Len(commits)
          BY DEF PublicationInv, Referenced
        <5>2. QED
          BY <5>1, PastOfReference DEF PublicationInv
      <4>2. QED
        BY <2>1, <4>1 DEF Baselines
    <3>6. Pushing'
      BY <2>3, <2>5, <3>2, <3>3, <3>4, <3>5 DEF PublicationInv, Pushing, Past
    <3>7. ScannedInPush'
      BY <3>3 DEF ScannedInPush
    <3>8. work' = Tree(tip)' /\ index' = Tree(tip)'
      BY <2>2, <2>3, <2>5 DEF Clean, Tree
    <3>9. Shown(Tree(tip))'
      BY <3>3 DEF Shown
    <3>10. Watched'
      BY <3>3, <3>8, <3>9 DEF Watched
    <3>11. QED
      BY <2>1, <3>6, <3>7, <3>10, PushAlone
  <2>6. QED
    BY <2>1, <2>2, <2>4, <2>5
<1>3. QED
  BY <1>1, <1>2

--------------------------------------------------------------------------------
\* The author edits the tree or the index while the gate looks, or restores both
\* when no push is under way (pre-push-security.sh; validate_repository.py, main).
LEMMA EditsAreCounted ==
  ASSUME PublicationInv,
         \/ \E tree \in Trees, where \in {"work", "index"} : Edit(tree, where)
         \/ Restore
  PROVE  PublicationInv'
<1>1. /\ UNCHANGED <<commits, tip, remote, ci, verified, bypasses, history>>
      /\ work' \in Trees /\ index' \in Trees
  BY DEF Edit, Restore, PublicationInv, Referenced
<1>2. Referenced'
  BY <1>1 DEF PublicationInv, Referenced, Tree, history
<1>3. NothingUnseen'
  BY <1>1 DEF PublicationInv, NothingUnseen, Past, history
<1>4. Verifying'
  BY <1>1, VerdictsStay DEF PublicationInv
<1>5. PublishedIsClean' /\ OneEditHidesNothing'
  BY <1>1 DEF PublicationInv, PublishedIsClean, OneEditHidesNothing, Tree, history
<1>6. MainIsClean'
  BY <1>1 DEF PublicationInv, MainIsClean, Past, Tree, history
<1>7. push \in PushRecord
  BY DEF PublicationInv, Pushing
<1>8. ASSUME NEW tree \in Trees, NEW where \in {"work", "index"}, Edit(tree, where)
      PROVE  Pushing' /\ ScannedInPush' /\ Watched'
  <2>1. /\ push.pc \notin {"idle", "hook", "upload"} /\ push.edits < MaxEdits
        /\ <<work', index'>> # <<work, index>>
        /\ push' = [push EXCEPT !.edits = @ + 1]
    BY <1>8 DEF Edit
  <2>2. MaxEdits \in Nat /\ push.edits \in 0..MaxEdits
    BY <1>7, BoundsAssumption
  <2>3. push.edits + 1 \in 0..MaxEdits /\ push.edits + 1 # 0 /\ push.edits \in Nat
    BY <2>1, <2>2
  <2>4. /\ push'.pc = push.pc /\ push'.remote = push.remote
        /\ push'.baseline = push.baseline /\ push'.candidate = push.candidate
        /\ push'.edits = push.edits + 1
    BY <1>7, <2>1
  <2>5. push' \in PushRecord
    BY <1>7, <2>1, <2>3
  <2>6. Pushing'
    BY <1>1, <2>1, <2>4, <2>5 DEF PublicationInv, Pushing, Past
  <2>7. ScannedInPush'
    BY <1>1, <2>4 DEF PublicationInv, ScannedInPush, Scanned, Past, Tree
  <2>8. push.pc \in Looks
    BY <1>7, <2>1 DEF Gate
  <2>9. ASSUME push'.edits = 1
        PROVE  work' # Tree(tip)' \/ index' # Tree(tip)'
    <3>1. push.edits = 0
      BY <2>3, <2>4, <2>9
    <3>2. work = Tree(tip) /\ index = Tree(tip)
      BY <2>8, <3>1, AtRestInGate
    <3>3. Tree(tip)' = Tree(tip)
      BY <1>1 DEF Tree
    <3>4. QED
      BY <2>1, <3>2, <3>3
  <2>10. Watched'
    BY <2>1, <2>3, <2>4, <2>9 DEF Watched
  <2>11. QED
    BY <2>6, <2>7, <2>10
<1>9. ASSUME Restore
      PROVE  Pushing' /\ ScannedInPush' /\ Watched'
  <2>1. push.pc = "idle" /\ push' = push
    BY <1>9 DEF Restore
  <2>2. Pushing'
    BY <1>1, <2>1 DEF PublicationInv, Pushing, Past
  <2>3. ScannedInPush' /\ Watched'
    BY <2>1 DEF ScannedInPush, Watched, Gate, Looks
  <2>4. QED
    BY <2>2, <2>3
<1>10. Pushing' /\ ScannedInPush' /\ Watched'
  BY <1>8, <1>9
<1>11. QED
  BY <1>2, <1>3, <1>4, <1>5, <1>6, <1>10 DEF PublicationInv

--------------------------------------------------------------------------------
\* Every commit an upload brings was scanned, or was published before: the range
\* leaves out only what the baseline holds, and the remote takes the upload only
\* while its branch is the one the baseline was taken from.
\* (.githooks/pre-push; validate_publication_history.py, main)
LEMMA UploadBringsScanned ==
  ASSUME PublicationInv, push.pc = "upload", remote.branch = push.remote, bypasses = 0,
         NEW c \in Past(tip) \ Past(remote.main)
  PROVE  c \in published \/ (TreeIsClean(Tree(c)) /\ commits[c].meta = "plain")
<1>1. /\ push.baseline \in Past(tip)
      /\ IF push.remote = Absent THEN push.baseline \in Past(remote.main)
         ELSE push.baseline = push.remote
  BY DEF PublicationInv, Pushing, Gate
<1>2. Scanned(push.baseline, tip)
  BY DEF PublicationInv, ScannedInPush
<1>3. CASE c \in Past(push.baseline)
  <2>1. CASE push.remote = Absent
    <3>1. remote.main \in 1..Len(commits)
      BY DEF PublicationInv, Referenced
    <3>2. Past(push.baseline) \subseteq Past(remote.main)
      BY <1>1, <2>1, <3>1, PastOfReference DEF PublicationInv
    <3>3. QED
      BY <1>3, <3>2
  <2>2. CASE push.remote # Absent
    <3>1. Past(remote.branch) \subseteq published \cup Past(remote.main)
      BY <2>2 DEF PublicationInv, NothingUnseen
    <3>2. QED
      BY <1>1, <1>3, <2>2, <3>1
  <2>3. QED
    BY <2>1, <2>2
<1>4. CASE c \notin Past(push.baseline)
  BY <1>2, <1>4 DEF Scanned
<1>5. QED
  BY <1>3, <1>4

\* The upload: a compare-and-swap of the branch against what was advertised.
LEMMA UploadIsRight ==
  ASSUME PublicationInv, Upload
  PROVE  PublicationInv'
<1>1. /\ push.pc = "upload" /\ push' = NoPush /\ commits' = commits /\ tip' = tip
      /\ work' = work /\ index' = index /\ ci' = ci /\ verified' = verified
      /\ bypasses' = bypasses /\ landed' = landed
  BY DEF Upload, local
<1>2. push.candidate = tip /\ push.edits # 1 /\ push.edits \in Nat
  <2>1. MaxEdits \in Nat
    BY BoundsAssumption
  <2>2. QED
    BY <1>1, <2>1 DEF PublicationInv, Pushing, Watched
<1>3. /\ remote \in [main : Nat, branch : Nat] /\ remote.main \in 1..Len(commits)
      /\ tip \in 1..Len(commits)
  BY DEF PublicationInv, Referenced
<1>4. Past(tip) \subseteq 1..Len(commits)
  BY <1>3, PastOfReference DEF PublicationInv
<1>5. \/ /\ remote.branch = push.remote
         /\ remote' = [remote EXCEPT !.branch = tip]
         /\ published' = published \cup (Past(tip) \ Past(remote.main))
         /\ calm' = IF push.edits <= 1 THEN calm \cup {tip} ELSE calm
      \/ UNCHANGED <<remote, published, calm>>
  BY <1>2 DEF Upload
<1>6. remote'.main = remote.main /\ remote' \in [main : Nat, branch : Nat]
      /\ remote'.branch \in 0..Len(commits)
  <2>1. tip \in Nat /\ tip \in 0..Len(commits) /\ remote.branch \in 0..Len(commits)
    BY DEF PublicationInv, Referenced
  <2>2. QED
    BY <1>3, <1>5, <2>1
<1>7. published' \subseteq 1..Len(commits) /\ calm' \subseteq 1..Len(commits)
      /\ landed \subseteq 1..Len(commits) /\ verified \subseteq 1..Len(commits)
  BY <1>3, <1>4, <1>5 DEF PublicationInv, Referenced
<1>8. Referenced'
  <2>1. {tip', remote'.main} \cup verified' \cup published' \cup calm' \cup landed'
          \subseteq 1..Len(commits')
    BY <1>1, <1>3, <1>6, <1>7
  <2>2. QED
    BY <1>1, <1>6, <2>1 DEF PublicationInv, Referenced, Tree
<1>9. Pushing' /\ ScannedInPush' /\ Watched'
  BY <1>1, <1>8, NoPushIsRight
<1>10. \A c : Past(c)' = Past(c) /\ Tree(c)' = Tree(c)
  BY <1>1 DEF Past, Tree
<1>11. NothingUnseen'
  BY <1>1, <1>3, <1>5, <1>6, <1>10 DEF PublicationInv, NothingUnseen
<1>12. Verifying'
  BY <1>1, <1>6, VerdictsStay DEF PublicationInv
<1>13. PublishedIsClean'
  <2>1. ASSUME bypasses = 0, NEW c \in published'
        PROVE  TreeIsClean(Tree(c)) /\ commits[c].meta = "plain"
    <3>1. \A d \in published : TreeIsClean(Tree(d)) /\ commits[d].meta = "plain"
      BY <2>1 DEF PublicationInv, PublishedIsClean
    <3>2. CASE c \in published
      BY <3>1, <3>2
    <3>3. CASE remote.branch = push.remote /\ c \in Past(tip) \ Past(remote.main)
      BY <1>1, <2>1, <3>1, <3>3, UploadBringsScanned
    <3>4. QED
      BY <1>5, <2>1, <3>2, <3>3
  <2>2. QED
    BY <1>1, <2>1 DEF PublishedIsClean, Tree
<1>14. OneEditHidesNothing'
  <2>1. ASSUME push.edits <= 1
        PROVE  TreeIsLawful(Tree(tip))
    <3>1. push.edits = 0
      BY <1>2, <2>1
    <3>2. Shown(Tree(tip))
      BY <1>1, <3>1 DEF PublicationInv, Watched, Gate
    <3>3. QED
      BY <1>1, <3>2 DEF Shown, TreeIsLawful
  <2>2. \A c \in calm : TreeIsLawful(Tree(c))
    BY DEF PublicationInv, OneEditHidesNothing
  <2>3. \A c \in calm' : TreeIsLawful(Tree(c))
    BY <1>5, <2>1, <2>2
  <2>4. QED
    BY <1>1, <2>3 DEF OneEditHidesNothing, Tree
<1>15. MainIsClean'
  BY <1>1, <1>6 DEF PublicationInv, MainIsClean, Past, Tree
<1>16. QED
  BY <1>8, <1>9, <1>11, <1>12, <1>13, <1>14, <1>15 DEF PublicationInv

\* After an upload around the hook nothing is promised of what was published.
LEMMA BypassIsRight ==
  ASSUME PublicationInv, Bypass
  PROVE  PublicationInv'
<1>1. /\ push.pc = "idle" /\ bypasses < MaxBypasses
      /\ remote' = [remote EXCEPT !.branch = tip]
      /\ published' = published \cup (Past(tip) \ Past(remote.main))
      /\ bypasses' = bypasses + 1
      /\ push' = push /\ commits' = commits /\ tip' = tip
      /\ work' = work /\ index' = index /\ ci' = ci /\ verified' = verified
      /\ calm' = calm /\ landed' = landed
  BY DEF Bypass, local
<1>2. /\ remote \in [main : Nat, branch : Nat] /\ remote.main \in 1..Len(commits)
      /\ tip \in 1..Len(commits)
  BY DEF PublicationInv, Referenced
<1>3. Past(tip) \subseteq 1..Len(commits)
  BY <1>2, PastOfReference DEF PublicationInv
<1>4. remote'.main = remote.main /\ remote' \in [main : Nat, branch : Nat] /\ remote'.branch = tip
  BY <1>1, <1>2
<1>5. bypasses' \in 0..MaxBypasses /\ bypasses' # 0
  <2>1. MaxBypasses \in Nat /\ bypasses \in 0..MaxBypasses
    BY BoundsAssumption DEF PublicationInv, Referenced
  <2>2. QED
    BY <1>1, <2>1
<1>6. Referenced'
  <2>1. /\ published' \subseteq 1..Len(commits) /\ calm \subseteq 1..Len(commits)
        /\ landed \subseteq 1..Len(commits) /\ verified \subseteq 1..Len(commits)
    BY <1>1, <1>3 DEF PublicationInv, Referenced
  <2>2. {tip', remote'.main} \cup verified' \cup published' \cup calm' \cup landed'
          \subseteq 1..Len(commits')
    BY <1>1, <1>2, <1>4, <2>1
  <2>3. remote'.branch \in 0..Len(commits')
    BY <1>1, <1>2, <1>4
  <2>4. QED
    BY <1>1, <1>4, <1>5, <2>2, <2>3 DEF PublicationInv, Referenced, Tree
<1>7. Pushing' /\ ScannedInPush' /\ Watched'
  <2>1. Pushing'
    BY <1>1 DEF PublicationInv, Pushing, Gate, Looks
  <2>2. ScannedInPush' /\ Watched'
    BY <1>1 DEF ScannedInPush, Watched, Gate, Looks
  <2>3. QED
    BY <2>1, <2>2
<1>8. NothingUnseen' /\ PublishedIsClean'
  BY <1>5 DEF NothingUnseen, PublishedIsClean
<1>9. Verifying'
  BY <1>1, <1>4, VerdictsStay DEF PublicationInv
<1>10. OneEditHidesNothing'
  BY <1>1 DEF PublicationInv, OneEditHidesNothing, Tree
<1>11. MainIsClean'
  BY <1>1, <1>4 DEF PublicationInv, MainIsClean, Past, Tree
<1>12. QED
  BY <1>6, <1>7, <1>8, <1>9, <1>10, <1>11 DEF PublicationInv

--------------------------------------------------------------------------------
\* Where one side changed nothing, a merge is the other side, whatever the merge of
\* two texts makes (git merge).
LEMMA MergeOfOneSide ==
  ASSUME NEW from, NEW to
  PROVE  Merge(from, from, to) = to
<1>1. \A p : Settled(At(from, p), At(from, p), At(to, p)) = At(to, p)
  BY DEF Settled
<1>2. \A x : x \in Merge(from, from, to) <=>
              \E p \in Paths({from, from, to}) : x \in At(to, p)
  BY <1>1 DEF Merge
<1>3. \A x \in to : x \in At(to, Path(x)) /\ Path(x) \in Paths({from, from, to})
  BY DEF At, Paths
<1>4. \A x, p : x \in At(to, p) => x \in to
  BY DEF At
<1>5. \A x : x \in Merge(from, from, to) <=> x \in to
  BY <1>2, <1>3, <1>4
<1>6. QED
  BY <1>5

\* A head that holds the base merges to its own tree.
\* (verify-pull-request-merge-base.sh: the merge commit joins the base with the head)
LEMMA HeadHoldsBase ==
  ASSUME Referenced, NEW head \in 1..Len(commits), NEW base \in Past(head)
  PROVE  MergedTree(base, head) = Tree(head)
<1>1. base \in 1..Len(commits) /\ base \in Past(base) /\ Past(base) \subseteq 1..base
  BY PastOfReference
<1>2. base \in Nat /\ \A d \in 1..base : base >= d
  BY <1>1, DagFacts DEF Referenced
<1>3. MergeBase(base, head) = base
  <2> DEFINE S == Past(base) \cap Past(head)
             greatest(x) == x \in S /\ \A y \in S : x >= y
  <2>1. greatest(base)
    BY <1>1, <1>2
  <2>2. MergeBase(base, head) = CHOOSE x \in S : \A y \in S : x >= y
    BY DEF MergeBase, Max
  <2>3. MergeBase(base, head) \in S /\ \A y \in S : MergeBase(base, head) >= y
    BY <2>1, <2>2, Zenon
  <2>4. MergeBase(base, head) >= base /\ MergeBase(base, head) \in 1..base
    BY <1>1, <2>1, <2>3
  <2>5. QED
    BY <1>2, <2>4
<1>4. MergedTree(base, head) = Merge(Tree(base), Tree(base), Tree(head))
  BY <1>3 DEF MergedTree
<1>5. QED
  BY <1>4, MergeOfOneSide

\* Steps of the check touch the check alone.
LEMMA CheckAlone ==
  ASSUME PublicationInv, UNCHANGED <<local, remote, push, bypasses, history>>,
         verified' \subseteq 1..Len(commits), Verifying'
  PROVE  PublicationInv'
<1>1. /\ commits' = commits /\ tip' = tip /\ work' = work /\ index' = index
      /\ remote' = remote /\ push' = push /\ bypasses' = bypasses
      /\ published' = published /\ calm' = calm /\ landed' = landed
  BY DEF local, history
<1>2. Referenced'
  <2>1. {tip', remote'.main} \cup verified' \cup published' \cup calm' \cup landed'
          \subseteq 1..Len(commits')
    BY <1>1 DEF PublicationInv, Referenced
  <2>2. QED
    BY <1>1, <2>1 DEF PublicationInv, Referenced, Tree
<1>3. Pushing'
  BY <1>1 DEF PublicationInv, Pushing, Past
<1>4. ScannedInPush'
  BY <1>1 DEF PublicationInv, ScannedInPush, Scanned, Past, Tree
<1>5. Watched'
  <2>1. Tree(tip)' = Tree(tip)
    BY <1>1 DEF Tree
  <2>2. QED
    BY <1>1, <2>1 DEF PublicationInv, Watched, Shown
<1>6. NothingUnseen'
  BY <1>1 DEF PublicationInv, NothingUnseen, Past
<1>7. PublishedIsClean' /\ OneEditHidesNothing'
  BY <1>1 DEF PublicationInv, PublishedIsClean, OneEditHidesNothing, Tree
<1>8. MainIsClean'
  BY <1>1 DEF PublicationInv, MainIsClean, Past, Tree
<1>9. QED
  BY <1>2, <1>3, <1>4, <1>5, <1>6, <1>7, <1>8 DEF PublicationInv

\* The pull-request check takes the live base, scans from it to the head, looks at
\* the merge of the two, and wants a chain from the base of the event.
\* (pull-request.yml; validate_publication_history.py, main;
\* platform_release_contract.py, _linear_commits)
LEMMA CheckIsRight ==
  ASSUME PublicationInv, CheckBegin \/ CheckEnd
  PROVE  PublicationInv'
<1>1. CASE CheckBegin
  <2>1. /\ remote.branch # 0 /\ ci' = [head |-> remote.branch, base |-> remote.main]
        /\ UNCHANGED <<local, remote, push, bypasses, history>> /\ verified' = verified
    BY <1>1 DEF CheckBegin, Absent
  <2>2. commits' = commits /\ remote' = remote
    BY <2>1 DEF local
  <2>3. /\ remote.branch \in 1..Len(commits) /\ remote.main \in 1..Len(commits)
        /\ remote.branch \in Nat /\ remote.main \in Nat
    BY <2>1 DEF PublicationInv, Referenced
  <2>4. remote.main \in Past(remote.main)
    BY <2>3, PastOfReference DEF PublicationInv
  <2>5. /\ ci' \in [head : Nat, base : Nat] /\ ci'.head \in 1..Len(commits)
        /\ ci'.base \in Past(remote.main)
    BY <2>1, <2>3, <2>4
  <2>6. Verifying'
    BY <2>1, <2>2, <2>5 DEF PublicationInv, Verifying, Passed, Past, Tree
  <2>7. verified' \subseteq 1..Len(commits)
    BY <2>1 DEF PublicationInv, Referenced
  <2>8. QED
    BY <2>1, <2>6, <2>7, CheckAlone
<1>2. CASE CheckEnd
  <2>1. /\ ci # NoCheck /\ ci' = NoCheck
        /\ UNCHANGED <<local, remote, push, bypasses, history>>
    BY <1>2 DEF CheckEnd
  <2>0. PICK event \in landed :
          verified' = IF CheckPasses(event) THEN verified \cup {ci.head} ELSE verified
    BY <1>2 DEF CheckEnd
  <2>2. commits' = commits /\ remote' = remote
    BY <2>1 DEF local
  <2>3. ci.head \in 1..Len(commits) /\ ci.base \in Past(remote.main)
    BY <2>1 DEF PublicationInv, Verifying
  <2>4. verified' \subseteq 1..Len(commits)
    BY <2>0, <2>3 DEF PublicationInv, Referenced
  <2>5. ASSUME CheckPasses(event)
        PROVE  Passed(ci.base, ci.head)
    <3>1. /\ validate(commits, ci.base, ci.head)
          /\ TreeIsLawful(MergedTree(ci.base, ci.head))
      BY <2>5 DEF CheckPasses, PassesForPullRequest
    <3>2. Dag(commits)
      BY DEF PublicationInv, Referenced
    <3>3. /\ Cardinality(Past(ci.head) \ Past(ci.base)) <= MaxOutgoing
          /\ \A c \in Past(ci.head) \ Past(ci.base) : TreeIsClean(Tree(c))
      BY <2>3, <3>1, <3>2, ValidatedRange DEF Past, Tree
    <3>4. ci.base \in Past(ci.head) => TreeIsLawful(Tree(ci.head))
      BY <2>3, <3>1, HeadHoldsBase DEF PublicationInv
    <3>5. event \in Past(ci.base) /\ _linear_commits(event, ci.head)
      BY <2>5 DEF CheckPasses
    <3>6. ci.base \in 1..Len(commits)
      <4>1. remote.main \in 1..Len(commits)
        BY DEF PublicationInv, Referenced
      <4>2. QED
        BY <2>3, <4>1, PastOfReference DEF PublicationInv
    <3>7. Past(event) \subseteq Past(ci.base)
      BY <3>5, <3>6, PastOfReference DEF PublicationInv
    <3>8. \A c \in Past(ci.head) \ Past(event) : \E p \in Past(ci.head) : commits[c].parents = {p}
      BY <3>5 DEF _linear_commits, _outgoing_commits, Past
    <3>9. QED
      BY <3>3, <3>4, <3>7, <3>8 DEF Passed
  <2>6. \A h \in verified' : \E base \in Past(remote.main) : Passed(base, h)
    BY <2>0, <2>3, <2>5 DEF PublicationInv, Verifying
  <2>7. Verifying'
    <3>1. ci' \in [head : Nat, base : Nat]
      BY <2>1 DEF NoCheck, Absent
    <3>2. QED
      BY <2>1, <2>2, <2>6, <3>1 DEF Verifying, Passed, Past, Tree
  <2>8. QED
    BY <2>1, <2>4, <2>7, CheckAlone
<1>3. QED
  BY <1>1, <1>2

--------------------------------------------------------------------------------
\* Steps that make commits leave the old ones as they are.
Extended ==
  /\ Dag(commits') /\ Len(commits) <= Len(commits')
  /\ Len(commits') <= MaxCommits + MaxOutgoing
  /\ \A c \in 1..Len(commits) : commits'[c] = commits[c]

\* The past of an old commit is what it was.
LEMMA OldCommitsStay ==
  ASSUME Referenced, Extended
  PROVE  /\ 1..Len(commits) \subseteq 1..Len(commits')
         /\ 0..Len(commits) \subseteq 0..Len(commits')
         /\ \A c \in 1..Len(commits) :
              Ancestors(commits')[c] = Past(c) /\ commits'[c] = commits[c]
<1>1. Dag(commits) /\ Dag(commits') /\ Len(commits) <= Len(commits')
  BY DEF Referenced, Extended
<1>2. Len(commits) \in Nat /\ Len(commits') \in Nat
  BY <1>1, DagFacts
<1>3. ASSUME NEW c \in 1..Len(commits)
      PROVE  Ancestors(commits')[c] = Past(c)
  <2>1. \A d \in 1..Len(commits) : commits'[d] = commits[d]
    BY DEF Extended
  <2>2. QED
    BY <1>1, <2>1, PastStays DEF Past
<1>4. QED
  BY <1>1, <1>2, <1>3 DEF Extended

\* What such a step must show: what main holds and what landed, and that the author
\* moves the branch only between two pushes.
LEMMA ExtensionIsRight ==
  ASSUME PublicationInv, Extended,
         push' = push, ci' = ci, verified' = verified, bypasses' = bypasses,
         published' = published, calm' = calm,
         remote' \in [main : 1..Len(commits'), branch : {Absent, remote.branch}],
         remote.main \in Ancestors(commits')[remote'.main],
         \A c \in Ancestors(commits')[remote'.main] \ Past(remote.main) :
           TreeIsClean(commits'[c].tree),
         landed' \subseteq 1..Len(commits'),
         \A c \in landed' \ landed : TreeIsLawful(commits'[c].tree),
         tip' \in 1..Len(commits'), commits'[tip'].tree \in Trees,
         work' \in Trees, index' \in Trees,
         push.pc = "idle" \/ UNCHANGED <<tip, work, index>>
  PROVE  PublicationInv'
<1>1. Referenced /\ Dag(commits')
  BY DEF PublicationInv, Extended
<1>2. /\ 1..Len(commits) \subseteq 1..Len(commits')
      /\ 0..Len(commits) \subseteq 0..Len(commits')
      /\ \A c \in 1..Len(commits) : Ancestors(commits')[c] = Past(c) /\ commits'[c] = commits[c]
  BY <1>1, OldCommitsStay
<1>3. /\ {tip, remote.main} \cup verified \cup published \cup calm \cup landed
           \subseteq 1..Len(commits)
      /\ remote.branch \in 0..Len(commits)
  BY <1>1 DEF Referenced
<1>4. /\ remote'.main \in 1..Len(commits') /\ remote'.branch \in {Absent, remote.branch}
      /\ Past(remote.main) \subseteq Ancestors(commits')[remote'.main]
      /\ Past(remote.main) \subseteq 1..Len(commits)
  <2>1. remote'.main \in 1..Len(commits') /\ remote'.branch \in {Absent, remote.branch}
    OBVIOUS
  <2>2. Ancestors(commits')[remote.main] \subseteq Ancestors(commits')[remote'.main]
    BY <1>1, <2>1, PastIsTransitive
  <2>3. Past(remote.main) \subseteq 1..Len(commits)
    BY <1>1, <1>3, PastOfReference
  <2>4. QED
    BY <1>2, <1>3, <2>1, <2>2, <2>3
<1>5. Referenced'
  <2>1. Len(commits') \in 1..(MaxCommits + MaxOutgoing)
    <3>1. MaxCommits \in Nat /\ MaxOutgoing \in Nat
      BY BoundsAssumption, CeilingsAssumption
    <3>2. Len(commits) >= 1 /\ Len(commits) \in Nat /\ Len(commits') \in Nat
      BY <1>1, DagFacts DEF Referenced
    <3>3. QED
      BY <3>1, <3>2 DEF Extended
  <2>2. {tip', remote'.main} \cup verified' \cup published' \cup calm' \cup landed'
          \subseteq 1..Len(commits')
    <3>1. verified' \subseteq 1..Len(commits') /\ published' \subseteq 1..Len(commits')
          /\ calm' \subseteq 1..Len(commits')
      BY <1>2, <1>3
    <3>2. QED
      BY <1>4, <3>1
  <2>3. remote'.branch \in 0..Len(commits') /\ remote'.branch \in Nat
    <3>1. 0 \in 0..Len(commits') /\ 0..Len(commits') \subseteq Nat
      BY <1>1, DagFacts
    <3>2. QED
      BY <1>2, <1>3, <1>4, <3>1 DEF Absent
  <2>4. remote' \in [main : Nat, branch : Nat]
    BY <1>4, <2>3
  <2>5. bypasses' \in 0..MaxBypasses
    BY <1>1 DEF Referenced
  <2>6. QED
    BY <1>1, <2>1, <2>2, <2>3, <2>4, <2>5 DEF Referenced, Tree
<1>6. ASSUME push.pc = "idle"
      PROVE  Pushing' /\ ScannedInPush' /\ Watched'
  <2>1. Pushing'
    BY <1>2, <1>6 DEF PublicationInv, Pushing, Gate, Looks
  <2>2. ScannedInPush' /\ Watched'
    BY <1>6 DEF ScannedInPush, Watched, Gate, Looks
  <2>3. QED
    BY <2>1, <2>2
<1>7. ASSUME UNCHANGED <<tip, work, index>>
      PROVE  Pushing' /\ ScannedInPush' /\ Watched'
  <2>1. Ancestors(commits')[tip'] = Past(tip) /\ commits'[tip'] = commits[tip]
    BY <1>2, <1>3, <1>7
  <2>2. Pushing'
    <3>1. /\ push.remote \in 0..Len(commits') /\ push.baseline \in 0..Len(commits')
          /\ push.candidate \in 0..Len(commits')
      BY <1>2 DEF PublicationInv, Pushing
    <3>2. push.pc \in Gate =>
            /\ push.baseline \in Ancestors(commits')[tip']
            /\ IF push.remote = Absent THEN push.baseline \in Ancestors(commits')[remote'.main]
               ELSE push.baseline = push.remote
      BY <1>4, <2>1 DEF PublicationInv, Pushing
    <3>3. QED
      BY <1>7, <3>1, <3>2 DEF PublicationInv, Pushing, Past
  <2>3. ScannedInPush'
    <3>1. ASSUME push.pc \in {"end", "upload"},
                 NEW c \in Ancestors(commits')[tip'] \ Ancestors(commits')[push.baseline]
          PROVE  TreeIsClean(commits'[c].tree) /\ commits'[c].meta = "plain"
      <4>1. push.baseline \in Past(tip) /\ Past(tip) \subseteq 1..Len(commits)
        <5>1. push.pc \in Gate
          BY <3>1 DEF Gate, Looks
        <5>2. QED
          BY <1>1, <1>3, <5>1, PastOfReference DEF PublicationInv, Pushing
      <4>2. c \in Past(tip) \ Past(push.baseline)
        BY <1>2, <2>1, <3>1, <4>1
      <4>3. commits'[c] = commits[c]
        BY <1>2, <4>1, <4>2
      <4>4. QED
        BY <3>1, <4>2, <4>3 DEF PublicationInv, ScannedInPush, Scanned, Tree
    <3>2. QED
      BY <3>1 DEF ScannedInPush, Scanned, Past, Tree
  <2>4. Watched'
    <3>1. Tree(tip)' = Tree(tip)
      BY <2>1 DEF Tree
    <3>2. QED
      BY <1>7, <3>1 DEF PublicationInv, Watched, Shown
  <2>5. QED
    BY <2>2, <2>3, <2>4
<1>8. NothingUnseen'
  <2>1. ASSUME bypasses = 0, remote'.branch # Absent
        PROVE  Ancestors(commits')[remote'.branch] \subseteq published \cup Ancestors(commits')[remote'.main]
    <3>1. remote'.branch = remote.branch /\ remote.branch \in 1..Len(commits)
      BY <1>3, <1>4, <2>1 DEF Absent
    <3>2. Ancestors(commits')[remote'.branch] = Past(remote.branch)
      BY <1>2, <3>1
    <3>3. Past(remote.branch) \subseteq published \cup Past(remote.main)
      BY <2>1, <3>1 DEF PublicationInv, NothingUnseen
    <3>4. QED
      BY <1>4, <3>2, <3>3
  <2>2. QED
    BY <2>1 DEF NothingUnseen, Past
<1>9. Verifying'
  <2>1. ASSUME NEW base \in Past(remote.main), NEW h \in 1..Len(commits), Passed(base, h)
        PROVE  /\ Cardinality(Ancestors(commits')[h] \ Ancestors(commits')[base]) <= MaxOutgoing
               /\ \A c \in Ancestors(commits')[h] \ Ancestors(commits')[base] :
                    /\ TreeIsClean(commits'[c].tree)
                    /\ \E p \in Ancestors(commits')[h] : commits'[c].parents = {p}
               /\ base \in Ancestors(commits')[h] => TreeIsLawful(commits'[h].tree)
    <3>1. Ancestors(commits')[h] = Past(h) /\ Ancestors(commits')[base] = Past(base)
          /\ commits'[h] = commits[h]
      BY <1>2, <1>4
    <3>2. Past(h) \subseteq 1..Len(commits)
      BY <1>1, PastOfReference
    <3>3. QED
      BY <1>2, <2>1, <3>1, <3>2 DEF Passed, Tree
  <2>2. ASSUME NEW h \in verified
        PROVE  \E base \in Ancestors(commits')[remote'.main] :
               /\ Cardinality(Ancestors(commits')[h] \ Ancestors(commits')[base]) <= MaxOutgoing
               /\ \A c \in Ancestors(commits')[h] \ Ancestors(commits')[base] :
                    /\ TreeIsClean(commits'[c].tree)
                    /\ \E p \in Ancestors(commits')[h] : commits'[c].parents = {p}
               /\ base \in Ancestors(commits')[h] => TreeIsLawful(commits'[h].tree)
    <3>1. PICK base \in Past(remote.main) : Passed(base, h)
      BY DEF PublicationInv, Verifying
    <3>2. h \in 1..Len(commits) /\ base \in Ancestors(commits')[remote'.main]
      BY <1>3, <1>4
    <3>3. QED
      BY <2>1, <3>1, <3>2
  <2>3. ci # NoCheck => ci.head \in 1..Len(commits') /\ ci.base \in Ancestors(commits')[remote'.main]
    BY <1>2, <1>4 DEF PublicationInv, Verifying
  <2>4. QED
    BY <2>2, <2>3 DEF PublicationInv, Verifying, Passed, Past, Tree
<1>10. PublishedIsClean' /\ OneEditHidesNothing'
  <2>1. \A c \in published \cup calm : commits'[c] = commits[c]
    BY <1>2, <1>3
  <2>2. QED
    BY <2>1 DEF PublicationInv, PublishedIsClean, OneEditHidesNothing, Tree
<1>11. \A c \in Ancestors(commits')[remote'.main] : TreeIsClean(commits'[c].tree)
  <2>1. ASSUME NEW c \in Past(remote.main)
        PROVE  TreeIsClean(commits'[c].tree)
    <3>1. commits'[c] = commits[c]
      BY <1>2, <1>4
    <3>2. QED
      BY <3>1 DEF PublicationInv, MainIsClean, Tree
  <2>2. QED
    BY <2>1
<1>12. \A c \in landed' : TreeIsLawful(commits'[c].tree)
  <2>1. ASSUME NEW c \in landed
        PROVE  TreeIsLawful(commits'[c].tree)
    <3>1. commits'[c] = commits[c]
      BY <1>2, <1>3
    <3>2. QED
      BY <3>1 DEF PublicationInv, MainIsClean, Tree
  <2>2. QED
    BY <2>1
<1>13. MainIsClean'
  BY <1>11, <1>12 DEF MainIsClean, Past, Tree
<1>15. Pushing' /\ ScannedInPush' /\ Watched'
  BY <1>6, <1>7
<1>16. QED
  BY <1>5, <1>8, <1>9, <1>10, <1>13, <1>15 DEF PublicationInv

--------------------------------------------------------------------------------
\* One new commit holds itself and the past of its parents.
LEMMA OneNewCommit ==
  ASSUME Referenced, NEW r \in CommitRecord, r.parents \subseteq 1..Len(commits),
         commits' = Append(commits, r), Len(commits) < MaxCommits + MaxOutgoing
  PROVE  /\ Extended /\ New \in 1..Len(commits') /\ commits'[New] = r
         /\ Ancestors(commits')[New] = {New} \cup UNION {Past(p) : p \in r.parents}
<1>1. Dag(commits) /\ Len(commits) \in Nat /\ MaxCommits \in Nat /\ MaxOutgoing \in Nat
  BY DagFacts, BoundsAssumption, CeilingsAssumption DEF Referenced
<1>2. commits \in Seq(CommitRecord) /\ \A c \in 1..Len(commits) : commits[c].parents \subseteq 1..(c - 1)
  BY <1>1 DEF Dag
<1>3. /\ commits' \in Seq(CommitRecord) /\ Len(commits') = Len(commits) + 1
      /\ \A c \in 1..Len(commits) : commits'[c] = commits[c]
      /\ commits'[Len(commits) + 1] = r
  BY <1>1, <1>2
<1>4. Len(commits) + 1 - 1 = Len(commits) /\ Len(commits) + 1 \in 1..(Len(commits) + 1)
      /\ \A c \in 1..(Len(commits) + 1) : c \in 1..Len(commits) \/ c = Len(commits) + 1
  BY <1>1
<1>5. Dag(commits')
  <2>1. ASSUME NEW c \in 1..(Len(commits) + 1)
        PROVE  commits'[c].parents \subseteq 1..(c - 1)
    BY <1>2, <1>3, <1>4
  <2>2. QED
    BY <1>3, <2>1 DEF Dag
<1>6. Extended
  BY <1>1, <1>3, <1>5 DEF Extended
<1>7. \A x : x \in Ancestors(commits')[New] <=>
              x = New \/ \E p \in r.parents : x \in Ancestors(commits')[p]
  <2>1. New \in 1..Len(commits') /\ commits'[New] = r
    BY <1>3, <1>4 DEF New
  <2>2. QED
    BY <1>5, <2>1, AncestorsOfChild
<1>8. \A p \in r.parents : Ancestors(commits')[p] = Past(p)
  BY <1>6, OldCommitsStay
<1>9. \A x : x \in Ancestors(commits')[New] <=>
              x \in {New} \cup UNION {Past(p) : p \in r.parents}
  BY <1>7, <1>8
<1>10. New \in 1..Len(commits') /\ commits'[New] = r
  BY <1>3, <1>4 DEF New
<1>11. Ancestors(commits')[New] = {New} \cup UNION {Past(p) : p \in r.parents}
  BY <1>9, Zenon
<1>12. QED
  BY <1>6, <1>10, <1>11

\* The author commits, or merges main into the branch.
LEMMA CommitsAreRight ==
  ASSUME PublicationInv,
         (\E content \in Contents : CommitWork(content)) \/ (\E tree \in Trees : MergeMain(tree))
  PROVE  PublicationInv'
<1>1. Referenced /\ tip \in 1..Len(commits) /\ remote.main \in 1..Len(commits)
      /\ landed \subseteq 1..Len(commits) /\ remote \in [main : Nat, branch : Nat]
  BY DEF PublicationInv, Referenced
<1>2. PICK parents \in SUBSET (1..Len(commits)), tree \in Trees, meta \in Metadata :
        Commit(parents, tree, meta)
  <2>1. {tip} \in SUBSET (1..Len(commits)) /\ {tip, remote.main} \in SUBSET (1..Len(commits))
        /\ "plain" \in Metadata
    BY <1>1 DEF Metadata
  <2>2. ASSUME NEW content \in Contents, CommitWork(content)
        PROVE  \E parents \in SUBSET (1..Len(commits)), tree \in Trees, meta \in Metadata :
                 Commit(parents, tree, meta)
    <3>1. content.tree \in Trees /\ content.meta \in Metadata
      BY TreesAssumption
    <3>2. Commit({tip}, content.tree, content.meta)
      BY <2>2 DEF CommitWork
    <3>3. QED
      BY <2>1, <3>1, <3>2
  <2>3. ASSUME NEW tree \in Trees, MergeMain(tree)
        PROVE  \E parents \in SUBSET (1..Len(commits)), t \in Trees, meta \in Metadata :
                 Commit(parents, t, meta)
    <3>1. Commit({tip, remote.main}, tree, "plain")
      BY <2>3 DEF MergeMain
    <3>2. QED
      BY <2>1, <3>1
  <2>4. QED
    BY <2>2, <2>3
<1> DEFINE r == [parents |-> parents, tree |-> tree, meta |-> meta]
<1>3. /\ push.pc = "idle" /\ Len(commits) < MaxCommits /\ commits' = Append(commits, r)
      /\ tip' = New /\ work' = tree /\ index' = tree
      /\ UNCHANGED <<remote, push, ci, verified, bypasses, published, calm, landed>>
  BY <1>2 DEF Commit, history
<1>4. r \in CommitRecord /\ r.parents \subseteq 1..Len(commits) /\ r.tree = tree
  <2>1. 1..Len(commits) \subseteq Nat
    BY <1>1, DagFacts DEF Referenced
  <2>2. QED
    BY <2>1 DEF CommitRecord
<1>5. Len(commits) < MaxCommits + MaxOutgoing
  <2>1. Len(commits) \in Nat /\ MaxCommits \in Nat /\ MaxOutgoing \in Nat
    BY <1>1, DagFacts, BoundsAssumption, CeilingsAssumption DEF Referenced
  <2>2. QED
    BY <1>3, <2>1
<1> HIDE DEF r
<1>6. Extended /\ New \in 1..Len(commits') /\ commits'[New] = r
  BY <1>1, <1>3, <1>4, <1>5, OneNewCommit
<1>7. /\ 1..Len(commits) \subseteq 1..Len(commits')
      /\ Ancestors(commits')[remote.main] = Past(remote.main)
  BY <1>1, <1>6, OldCommitsStay
<1>8. remote.main \in Past(remote.main)
  BY <1>1, PastOfReference
<1>9. remote' \in [main : 1..Len(commits'), branch : {Absent, remote.branch}]
  BY <1>1, <1>3, <1>7
<1>10. remote.main \in Ancestors(commits')[remote'.main]
       /\ Ancestors(commits')[remote'.main] \ Past(remote.main) = {}
  BY <1>3, <1>7, <1>8
<1>11. landed' \subseteq 1..Len(commits') /\ landed' \ landed = {}
  BY <1>1, <1>3, <1>7
<1>12. /\ tip' \in 1..Len(commits') /\ commits'[tip'].tree \in Trees
       /\ work' \in Trees /\ index' \in Trees
  BY <1>3, <1>4, <1>6
<1>13. QED
  BY <1>3, <1>6, <1>9, <1>10, <1>11, <1>12, ExtensionIsRight

\* One new commit on main, clean and lawful: what squash and other authors make.
LEMMA OneCommitOnMain ==
  ASSUME PublicationInv, NEW t \in Trees, TreeIsClean(t), TreeIsLawful(t),
         commits' = Append(commits, [parents |-> {remote.main}, tree |-> t, meta |-> "plain"]),
         Len(commits) < MaxCommits + MaxOutgoing,
         remote' \in [main : {New}, branch : {Absent, remote.branch}],
         landed' = landed \cup {New},
         UNCHANGED <<tip, work, index, push, ci, verified, bypasses, published, calm>>
  PROVE  PublicationInv'
<1> DEFINE r == [parents |-> {remote.main}, tree |-> t, meta |-> "plain"]
<1>1. Referenced /\ tip \in 1..Len(commits) /\ remote.main \in 1..Len(commits)
      /\ landed \subseteq 1..Len(commits) /\ Tree(tip) \in Trees /\ work \in Trees /\ index \in Trees
  BY DEF PublicationInv, Referenced
<1>2. r \in CommitRecord /\ r.parents = {remote.main} /\ r.tree = t
  <2>1. {remote.main} \in SUBSET Nat
    BY <1>1, DagFacts DEF Referenced
  <2>2. QED
    BY <2>1 DEF CommitRecord, Metadata
<1>3. commits' = Append(commits, r)
  OBVIOUS
<1> HIDE DEF r
<1>4. /\ Extended /\ New \in 1..Len(commits') /\ commits'[New] = r
      /\ Ancestors(commits')[New] = {New} \cup UNION {Past(p) : p \in r.parents}
  BY <1>1, <1>2, <1>3, OneNewCommit
<1>5. Ancestors(commits')[New] = {New} \cup Past(remote.main)
  BY <1>2, <1>4
<1>6. 1..Len(commits) \subseteq 1..Len(commits') /\ commits'[tip] = commits[tip]
  BY <1>1, <1>4, OldCommitsStay
<1>7. /\ remote' \in [main : 1..Len(commits'), branch : {Absent, remote.branch}]
      /\ remote'.main = New
  BY <1>4
<1>8. remote.main \in Past(remote.main)
  BY <1>1, PastOfReference
<1>9. \A c \in Ancestors(commits')[remote'.main] \ Past(remote.main) :
        TreeIsClean(commits'[c].tree)
  BY <1>2, <1>4, <1>5, <1>7
<1>10. remote.main \in Ancestors(commits')[remote'.main]
  BY <1>5, <1>7, <1>8
<1>11. landed' \subseteq 1..Len(commits')
       /\ \A c \in landed' \ landed : TreeIsLawful(commits'[c].tree)
  BY <1>1, <1>2, <1>4, <1>6
<1>12. /\ tip' \in 1..Len(commits') /\ commits'[tip'].tree \in Trees
       /\ work' \in Trees /\ index' \in Trees
  BY <1>1, <1>6 DEF Tree
<1>13. QED
  BY <1>4, <1>7, <1>9, <1>10, <1>11, <1>12, ExtensionIsRight

\* A fresh branch is of what main holds (git switch).
LEMMA FreshBranchIsRight ==
  ASSUME PublicationInv, FreshBranch
  PROVE  PublicationInv'
<1>1. /\ push.pc = "idle" /\ tip' = remote.main
      /\ work' = Tree(remote.main) /\ index' = Tree(remote.main)
      /\ remote' = [remote EXCEPT !.branch = Absent]
      /\ UNCHANGED <<commits, push, ci, verified, bypasses, published, calm, landed>>
  BY DEF FreshBranch, history
<1>2. /\ Referenced /\ Dag(commits) /\ Len(commits) \in 1..(MaxCommits + MaxOutgoing)
      /\ remote.main \in 1..Len(commits) /\ remote \in [main : Nat, branch : Nat]
      /\ landed \subseteq 1..Len(commits)
  BY DEF PublicationInv, Referenced
<1>3. Extended
  <2>1. MaxCommits \in Nat /\ MaxOutgoing \in Nat
    BY BoundsAssumption, CeilingsAssumption
  <2>2. QED
    BY <1>1, <1>2, <2>1 DEF Extended
<1>4. commits'[remote.main].tree \in Trees /\ Tree(remote.main) \in Trees
  BY <1>1, <1>2, DagFacts DEF CommitRecord, Tree
<1>5. remote'.main = remote.main /\ remote' \in [main : 1..Len(commits'), branch : {Absent, remote.branch}]
  BY <1>1, <1>2
<1>6. /\ remote.main \in Ancestors(commits')[remote'.main]
      /\ Ancestors(commits')[remote'.main] \ Past(remote.main) = {}
  BY <1>1, <1>2, <1>5, PastOfReference DEF Past
<1>7. landed' \subseteq 1..Len(commits') /\ landed' \ landed = {} /\ tip' \in 1..Len(commits')
  BY <1>1, <1>2
<1>8. QED
  BY <1>1, <1>3, <1>4, <1>5, <1>6, <1>7, ExtensionIsRight

\* The head GitHub merges was scanned from a commit of main it holds.
\* (the strict required check of the repository settings; pull-request.yml)
LEMMA MergeableIsScanned ==
  ASSUME PublicationInv, Mergeable
  PROVE  /\ remote.branch \in 1..Len(commits) /\ remote.main \in 1..Len(commits)
         /\ remote.main \in Past(remote.branch)
         /\ TreeIsClean(Tree(remote.branch)) /\ TreeIsLawful(Tree(remote.branch))
         /\ \E base \in Past(remote.main) : Passed(base, remote.branch)
<1>1. /\ Referenced /\ remote.branch \in verified /\ remote.main \in Past(remote.branch)
      /\ remote.main # remote.branch
  BY DEF PublicationInv, Mergeable
<1>2. remote.branch \in 1..Len(commits) /\ remote.main \in 1..Len(commits)
  BY <1>1 DEF Referenced
<1>3. PICK base \in Past(remote.main) : Passed(base, remote.branch)
  BY <1>1 DEF PublicationInv, Verifying
<1>4. base \in Past(remote.branch)
  BY <1>1, <1>2, PastOfReference
<1>5. remote.branch \in Past(remote.branch) \ Past(base)
  <2>1. base \in 1..remote.main /\ remote.main \in 1..remote.branch
    BY <1>1, <1>2, PastOfReference
  <2>2. remote.branch \in Nat /\ remote.main \in Nat
    BY <1>1, <1>2, DagFacts DEF Referenced
  <2>3. remote.branch \notin 1..base
    BY <1>1, <2>1, <2>2
  <2>4. base \in 1..Len(commits)
    BY <1>1, <1>2, PastOfReference
  <2>5. QED
    BY <1>1, <1>2, <2>3, <2>4, PastOfReference
<1>6. QED
  BY <1>1, <1>2, <1>3, <1>4, <1>5 DEF Passed

\* Squash lands the tree of the head.
LEMMA SquashIsRight ==
  ASSUME PublicationInv, Squash
  PROVE  PublicationInv'
<1>1. /\ Referenced /\ remote.branch \in 1..Len(commits) /\ remote.main \in 1..Len(commits)
      /\ remote.main \in Past(remote.branch)
      /\ TreeIsClean(Tree(remote.branch)) /\ TreeIsLawful(Tree(remote.branch))
  BY MergeableIsScanned DEF Squash, PublicationInv
<1>2. MergedTree(remote.main, remote.branch) = Tree(remote.branch)
  BY <1>1, HeadHoldsBase
<1>3. Tree(remote.branch) \in Trees
  BY <1>1, DagFacts DEF Referenced, Tree, CommitRecord
<1>4. commits' = Append(commits, [parents |-> {remote.main}, tree |-> Tree(remote.branch),
                                  meta |-> "plain"])
  BY <1>2 DEF Squash
<1>5. Len(commits) < MaxCommits + MaxOutgoing
  <2>1. Len(commits) \in Nat /\ MaxCommits \in Nat /\ MaxOutgoing \in Nat \ {0}
    BY <1>1, DagFacts, BoundsAssumption, CeilingsAssumption DEF Referenced
  <2>2. QED
    BY <2>1 DEF Squash
<1>6. /\ remote' \in [main : {New}, branch : {Absent, remote.branch}]
      /\ landed' = landed \cup {New}
      /\ UNCHANGED <<tip, work, index, push, ci, verified, bypasses, published, calm>>
  BY DEF Squash
<1>7. QED
  BY <1>1, <1>3, <1>4, <1>5, <1>6, OneCommitOnMain

\* So does another author's pull request.
LEMMA OtherMergeIsRight ==
  ASSUME PublicationInv, NEW tree \in Trees, OtherMerge(tree)
  PROVE  PublicationInv'
<1>1. tree \in SUBSET UNION Trees
  OBVIOUS
<1>2. TreeIsClean(tree) /\ TreeIsLawful(tree)
  BY <1>1, NoFindingIsClean DEF OtherMerge
<1>3. Len(commits) < MaxCommits + MaxOutgoing
  <2>1. Len(commits) \in Nat /\ MaxCommits \in Nat /\ MaxOutgoing \in Nat
    BY DagFacts, BoundsAssumption, CeilingsAssumption DEF PublicationInv, Referenced
  <2>2. QED
    BY <2>1 DEF OtherMerge
<1>4. remote' \in [main : {New}, branch : {Absent, remote.branch}]
  BY DEF OtherMerge, PublicationInv, Referenced
<1>5. /\ commits' = Append(commits, [parents |-> {remote.main}, tree |-> tree, meta |-> "plain"])
      /\ landed' = landed \cup {New}
      /\ UNCHANGED <<tip, work, index, push, ci, verified, bypasses, published, calm>>
  BY DEF OtherMerge
<1>6. QED
  BY <1>2, <1>3, <1>4, <1>5, OneCommitOnMain

--------------------------------------------------------------------------------
\* The commits of a set that are older than one.
Older(S, d) == {e \in S : e < d}

\* A rebase replays the commits of the range one by one, the oldest first: for every
\* rank below their number there is a commit of that rank.
LEMMA EveryRankIsTaken ==
  ASSUME NEW n \in Nat, NEW S \in SUBSET (1..n), NEW j \in Nat, j < Cardinality(S)
  PROVE  \E d \in S : Cardinality(Older(S, d)) = j
<1> DEFINE below(m) == {e \in S : e < m}
           more == {m \in Nat : Cardinality(below(m)) > j}
<1>0. \A e \in S : e \in Nat /\ 0 < e /\ e < n + 1
  <2>1. \A e \in 1..n : e \in Nat /\ 0 < e /\ e < n + 1
    OBVIOUS
  <2>2. QED
    BY <2>1
<1>1. IsFiniteSet(S)
  BY FS_Interval, FS_Subset, 1 \in Int, n \in Int
<1>2. \A m : IsFiniteSet(below(m)) /\ Cardinality(below(m)) \in Nat
  BY <1>1, FS_Subset, FS_CardinalityType
<1>3. n + 1 \in more
  <2>1. below(n + 1) = S
    BY <1>0
  <2>2. Cardinality(below(n + 1)) > j
    <3>1. Cardinality(S) \in Nat
      BY <1>1, FS_CardinalityType
    <3>2. Cardinality(S) > j
      BY <3>1
    <3>3. QED
      BY <2>1, <3>2
  <2> HIDE DEF below
  <2>3. QED
    BY <2>2
<1>4. PICK m \in more : \A k \in more : m <= k
  BY <1>3, LeastNumber
<1>5. m # 0
  <2>1. below(0) = {}
    <3>1. \A e \in S : ~(e < 0)
      BY <1>0
    <3>2. QED
      BY <3>1
  <2>2. Cardinality({}) = 0
    BY FS_EmptySet
  <2>3. 0 \notin more
    BY <2>1, <2>2
  <2>4. QED
    BY <1>4, <2>3
<1>6. m - 1 \in Nat /\ m - 1 \notin more
  BY <1>4, <1>5
<1>7. \A e \in S : e < m <=> e < m - 1 \/ e = m - 1
  BY <1>0, <1>4, <1>5
<1>8. m - 1 \in S
  <2>1. ASSUME m - 1 \notin S
        PROVE  below(m) = below(m - 1)
    BY <1>7, <2>1
  <2>2. QED
    BY <1>4, <1>6, <2>1
<1>9. below(m) = below(m - 1) \cup {m - 1} /\ m - 1 \notin below(m - 1)
  <2>1. ~(m - 1 < m - 1)
    BY <1>6
  <2>2. QED
    BY <1>7, <1>8, <2>1
<1>10. Cardinality(below(m)) = Cardinality(below(m - 1)) + 1
  BY <1>2, <1>9, FS_AddElement
<1>11. Cardinality(below(m)) > j /\ ~(Cardinality(below(m - 1)) > j)
  BY <1>4, <1>6
<1>12. Cardinality(below(m - 1)) = j
  BY <1>2, <1>10, <1>11
<1>13. Older(S, m - 1) = below(m - 1)
  BY DEF Older
<1>14. QED
  BY <1>8, <1>12, <1>13

\* Of two commits of a set, the younger one has more older ones.
LEMMA RankIsUnique ==
  ASSUME NEW n \in Nat, NEW S \in SUBSET (1..n), NEW d \in S, NEW e \in S,
         Cardinality(Older(S, d)) = Cardinality(Older(S, e))
  PROVE  d = e
<1>1. IsFiniteSet(S)
  BY FS_Interval, FS_Subset, 1 \in Int, n \in Int
<1>2. \A x \in S : x \in Nat
  OBVIOUS
<1>3. ASSUME NEW x \in S, NEW y \in S, x < y
      PROVE  Cardinality(Older(S, x)) # Cardinality(Older(S, y))
  <2>1. Older(S, x) \in SUBSET Older(S, y) /\ Older(S, y) \in SUBSET S
    <3>1. \A z \in S : z < x => z < y
      BY <1>2, <1>3
    <3>2. QED
      BY <3>1 DEF Older
  <2>2. x \in Older(S, y) /\ x \notin Older(S, x)
    BY <1>2, <1>3 DEF Older
  <2>3. IsFiniteSet(Older(S, y))
    BY <1>1, <2>1, FS_Subset
  <2>4. QED
    BY <2>1, <2>2, <2>3, FS_Subset
<1>4. d < e \/ e < d \/ d = e
  BY <1>2
<1>5. QED
  BY <1>3, <1>4

\* The commits a rebase replays are all of the range, they were scanned, and there are
\* no more than the ceiling (platform_release_contract.py, _linear_commits).
LEMMA ReplayedAreScanned ==
  ASSUME PublicationInv, Mergeable
  PROVE  /\ Replayed = Past(remote.branch) \ Past(remote.main)
         /\ Replayed \subseteq 1..Len(commits) /\ IsFiniteSet(Replayed)
         /\ Cardinality(Replayed) \in Nat /\ Cardinality(Replayed) <= MaxOutgoing
         /\ \A c \in Replayed :
              TreeIsClean(Tree(c)) /\ \E p \in Past(remote.branch) : commits[c].parents = {p}
<1>1. /\ Referenced /\ remote.branch \in 1..Len(commits) /\ remote.main \in 1..Len(commits)
      /\ \E base \in Past(remote.main) : Passed(base, remote.branch)
  BY MergeableIsScanned DEF PublicationInv
<1>2. PICK base \in Past(remote.main) : Passed(base, remote.branch)
  BY <1>1
<1>3. Past(base) \subseteq Past(remote.main) /\ Past(remote.branch) \subseteq 1..Len(commits)
  BY <1>1, PastOfReference
<1> DEFINE range == Past(remote.branch) \ Past(base)
<1>4. Replayed = {c \in Past(remote.branch) \ Past(remote.main) : Cardinality(commits[c].parents) = 1}
  BY DEF Replayed, _outgoing_commits, Past
<1>5. /\ Cardinality(range) <= MaxOutgoing
      /\ \A c \in range :
           TreeIsClean(Tree(c)) /\ \E p \in Past(remote.branch) : commits[c].parents = {p}
  BY <1>2 DEF Passed
<1>6. \A c \in range : Cardinality(commits[c].parents) = 1
  BY <1>5, FS_Singleton
<1>7. Replayed = Past(remote.branch) \ Past(remote.main) /\ Replayed \subseteq range
  BY <1>3, <1>4, <1>6
<1>8. IsFiniteSet(range)
  <2>1. Len(commits) \in Nat
    BY <1>1, DagFacts DEF Referenced
  <2>2. IsFiniteSet(1..Len(commits))
    BY <2>1, FS_Interval, 1 \in Int, Len(commits) \in Int
  <2>3. QED
    BY <1>3, <2>2, FS_Subset
<1>9. /\ IsFiniteSet(Replayed) /\ Cardinality(Replayed) \in Nat /\ Cardinality(range) \in Nat
      /\ Cardinality(Replayed) <= Cardinality(range)
  BY <1>7, <1>8, FS_Subset, FS_CardinalityType
<1>10. MaxOutgoing \in Nat
  BY CeilingsAssumption
<1>11. QED
  BY <1>3, <1>5, <1>7, <1>9, <1>10

\* The range is a chain: what is older than one of its commits is no younger than that
\* commit's parent, and the parent of the first is main.
\* (platform_release_contract.py, _linear_commits: one contiguous chain)
LEMMA RangeIsChain ==
  ASSUME PublicationInv, Mergeable, NEW c \in Replayed,
         NEW p \in Past(remote.branch), commits[c].parents = {p}
  PROVE  /\ p < c /\ c \in Nat /\ p \in Nat
         /\ p \in Replayed => Older(Replayed, c) = Older(Replayed, p) \cup {p}
         /\ p \notin Replayed => p = remote.main /\ Older(Replayed, c) = {}
<1> DEFINE head == remote.branch
           main == remote.main
<1>1. /\ Referenced /\ Dag(commits) /\ head \in 1..Len(commits) /\ main \in 1..Len(commits)
      /\ main \in Past(head)
  BY MergeableIsScanned DEF PublicationInv, Referenced
<1>2. /\ Replayed = Past(head) \ Past(main) /\ Replayed \subseteq 1..Len(commits)
      /\ \A x \in Replayed : \E q \in Past(head) : commits[x].parents = {q}
  BY ReplayedAreScanned
<1>3. /\ c \in 1..Len(commits) /\ p \in 1..Len(commits) /\ p \in 1..(c - 1)
      /\ Past(head) \subseteq 1..Len(commits)
  <2>1. c \in 1..Len(commits)
    BY <1>2
  <2>2. commits[c].parents \subseteq 1..(c - 1)
    BY <1>1, <2>1, DagFacts
  <2>3. QED
    BY <1>1, <2>1, <2>2, PastOfReference
<1>4. /\ p < c /\ c \in Nat /\ p \in Nat
      /\ \A x \in 1..Len(commits) : x \in Nat
  BY <1>3
<1>5. \A x \in 1..Len(commits) : \A y : y \in Past(x) <=> y = x \/ \E q \in commits[x].parents : y \in Past(q)
  BY <1>1, AncestorsOfChild DEF Past
<1> DEFINE Y == {x \in Past(head) : x \in Past(c) \/ c \in Past(x)}
<1>6. Past(head) \subseteq Y
  <2>1. Past(c) \subseteq Past(head) /\ c \in Past(c) /\ c \in Past(head)
    BY <1>1, <1>2, PastOfReference
  <2>2. head \in Y
    BY <1>1, <2>1, PastOfReference
  <2>3. ASSUME NEW x \in Y
        PROVE  commits[x].parents \subseteq Y
    <3>1. x \in 1..Len(commits) /\ x \in Past(head)
      BY <1>3
    <3>2. commits[x].parents \subseteq Past(head)
      BY <1>1, <3>1, PastIsLeast DEF Past, Closed
    <3>3. CASE x \in Past(c)
      <4>1. commits[x].parents \subseteq Past(c)
        BY <1>1, <1>3, <3>3, PastIsLeast DEF Past, Closed
      <4>2. QED
        BY <3>2, <4>1
    <3>4. CASE c \in Past(x) /\ x # c
      <4>1. x \notin Past(main)
        <5>1. ASSUME x \in Past(main)
              PROVE  c \in Past(main)
          BY <1>1, <3>4, <5>1, PastOfReference
        <5>2. QED
          BY <1>2, <5>1
      <4>2. PICK q \in Past(head) : commits[x].parents = {q}
        BY <1>2, <3>1, <4>1
      <4>3. c \in Past(q)
        BY <1>5, <3>1, <3>4, <4>2
      <4>4. QED
        BY <4>2, <4>3
    <3>5. QED
      BY <2>1, <3>3, <3>4
  <2>4. Closed(commits, Y)
    <3>1. Y \subseteq 1..Len(commits)
      BY <1>3
    <3> HIDE DEF Y
    <3>2. QED
      BY <2>3, <3>1 DEF Closed
  <2> HIDE DEF Y
  <2>5. QED
    BY <1>1, <2>2, <2>4, PastIsLeast DEF Past
<1>7. ASSUME NEW d \in Past(head), d # c, c \notin Past(d)
      PROVE  d \in Past(p)
  <2>1. d \in Past(c)
    BY <1>6, <1>7
  <2>2. QED
    BY <1>3, <1>5, <1>7, <2>1
<1>8. ASSUME NEW d \in Replayed, d < c
      PROVE  d \in Past(p) /\ d <= p
  <2>1. d \in 1..Len(commits) /\ d \in Past(head)
    BY <1>2
  <2>2. Past(d) \subseteq 1..d
    BY <1>1, <2>1, PastOfReference
  <2>3. c \notin Past(d) /\ d # c
    BY <1>4, <1>8, <2>1, <2>2
  <2>4. d \in Past(p)
    BY <1>7, <2>1, <2>3
  <2>5. Past(p) \subseteq 1..p
    BY <1>1, <1>3, PastOfReference
  <2>6. QED
    BY <2>4, <2>5
<1>9. ASSUME p \in Replayed
      PROVE  Older(Replayed, c) = Older(Replayed, p) \cup {p}
  <2>1. \A d \in Replayed : d \in Nat
    BY <1>2, <1>4
  <2>2. \A d \in Replayed : d < c <=> d < p \/ d = p
    BY <1>4, <1>8, <2>1
  <2>3. QED
    BY <1>9, <2>2 DEF Older
<1>10. ASSUME p \notin Replayed
       PROVE  p = main /\ Older(Replayed, c) = {}
  <2>1. p \in Past(main) /\ Past(p) \subseteq Past(main)
    BY <1>1, <1>2, <1>10, PastOfReference
  <2>2. Older(Replayed, c) = {}
    BY <1>2, <1>8, <2>1 DEF Older
  <2>3. main # c /\ c \notin Past(main)
    BY <1>1, <1>2, PastOfReference
  <2>4. main \in Past(p)
    BY <1>1, <1>7, <2>3
  <2>5. Past(p) \subseteq 1..p /\ Past(main) \subseteq 1..main
    BY <1>1, <1>3, PastOfReference
  <2>6. main \in 1..p /\ p \in 1..main
    BY <2>1, <2>4, <2>5
  <2>7. main \in Nat
    BY <1>1, <1>4
  <2>8. QED
    BY <1>4, <2>2, <2>6, <2>7
<1>11. QED
  BY <1>4, <1>9, <1>10

\* For every number there is a commit to replay, with as many before it.
LEMMA NthIsReplayed ==
  ASSUME PublicationInv, Mergeable, NEW k \in 1..Cardinality(Replayed)
  PROVE  Nth(k) \in Replayed /\ Cardinality(Older(Replayed, Nth(k))) = k - 1
<1>1. /\ Replayed \in SUBSET (1..Len(commits)) /\ Cardinality(Replayed) \in Nat
      /\ Len(commits) \in Nat
  BY ReplayedAreScanned, DagFacts DEF PublicationInv, Referenced
<1>2. k - 1 \in Nat /\ k - 1 < Cardinality(Replayed)
  BY <1>1
<1>3. \E d \in Replayed : Cardinality(Older(Replayed, d)) = k - 1
  BY <1>1, <1>2, EveryRankIsTaken
<1>4. Nth(k) = CHOOSE d \in Replayed : Cardinality(Older(Replayed, d)) = k - 1
  BY DEF Nth, Older
<1>5. QED
  BY <1>3, <1>4

\* Each commit is replayed where its parent stands: on main, or on the last one.
LEMMA ReplayFollows ==
  ASSUME PublicationInv, Mergeable, NEW k \in 1..Cardinality(Replayed)
  PROVE  Before(k) = IF k = 1 THEN Tree(remote.main) ELSE Tree(Nth(k - 1))
<1>1. /\ Replayed \in SUBSET (1..Len(commits)) /\ IsFiniteSet(Replayed)
      /\ Cardinality(Replayed) \in Nat /\ Len(commits) \in Nat
      /\ \A c \in Replayed : \E p \in Past(remote.branch) : commits[c].parents = {p}
  BY ReplayedAreScanned, DagFacts DEF PublicationInv, Referenced
<1>2. PICK c : c = Nth(k)
  OBVIOUS
<1>3. c \in Replayed /\ Cardinality(Older(Replayed, c)) = k - 1
  BY <1>2, NthIsReplayed
<1>4. PICK p \in Past(remote.branch) : commits[c].parents = {p}
  BY <1>1, <1>3
<1>5. Before(k) = Tree(p)
  BY <1>2, <1>4 DEF Before
<1>6. k \in Nat /\ k - 1 \in Nat
  BY <1>1
<1>7. CASE p \in Replayed
  <2>1. Older(Replayed, c) = Older(Replayed, p) \cup {p} /\ p \in Nat
    BY <1>3, <1>4, <1>7, RangeIsChain
  <2>2. IsFiniteSet(Older(Replayed, p)) /\ Cardinality(Older(Replayed, p)) \in Nat
    BY <1>1, FS_Subset, FS_CardinalityType DEF Older
  <2>3. p \notin Older(Replayed, p)
    BY <2>1 DEF Older
  <2>4. k - 1 = Cardinality(Older(Replayed, p)) + 1
    BY <1>3, <2>1, <2>2, <2>3, FS_AddElement
  <2>5. k - 1 \in 1..Cardinality(Replayed) /\ k # 1 /\ Cardinality(Older(Replayed, p)) = k - 1 - 1
    BY <1>1, <1>6, <2>2, <2>4
  <2>6. Nth(k - 1) \in Replayed /\ Cardinality(Older(Replayed, Nth(k - 1))) = k - 1 - 1
    BY <2>5, NthIsReplayed
  <2>7. p = Nth(k - 1)
    BY <1>1, <1>7, <2>5, <2>6, RankIsUnique
  <2>8. QED
    BY <1>5, <2>5, <2>7
<1>8. CASE p \notin Replayed
  <2>1. p = remote.main /\ Older(Replayed, c) = {}
    BY <1>3, <1>4, <1>8, RangeIsChain
  <2>2. k - 1 = 0
    BY <1>3, <2>1, FS_EmptySet
  <2>3. k = 1
    BY <1>6, <2>2
  <2>4. QED
    BY <1>5, <2>1, <2>3
<1>9. QED
  BY <1>7, <1>8

\* So the trees of a rebase are the ones of the commits it replays: it replays each
\* change on the tree the change was made on.
LEMMA ReplayedTreesStand ==
  ASSUME PublicationInv, Mergeable
  PROVE  \A k \in 1..Cardinality(Replayed) : Onto[k] = Tree(Nth(k))
<1> DEFINE N == Cardinality(Replayed)
           start == Tree(remote.main)
           to(k) == Tree(Nth(k))
           step(g, k) == IF k = 0 THEN start ELSE Merge(Before(k), g[k - 1], to(k))
           Solves(g) == g = [k \in 0..N |-> step(g, k)]
           f == [k \in 0..N |-> IF k = 0 THEN start ELSE to(k)]
<1>1. Onto = CHOOSE g : Solves(g)
  BY DEF Onto
<1>2. N \in Nat
  BY ReplayedAreScanned
<1>3. \A k \in 1..N : Before(k) = IF k = 1 THEN start ELSE to(k - 1)
  BY ReplayFollows
<1> HIDE DEF N, start, to
<1>4. \A k \in 1..N : f[k - 1] = Before(k) /\ f[k] = to(k)
  BY <1>2, <1>3
<1>5. ASSUME NEW k \in 0..N
      PROVE  f[k] = step(f, k)
  <2>1. CASE k = 0
    BY <2>1
  <2>2. CASE k # 0
    <3>1. k \in 1..N
      BY <1>2, <2>2
    <3>2. f[k - 1] = Before(k) /\ f[k] = to(k)
      BY <1>4, <3>1
    <3> HIDE DEF f
    <3>3. QED
      BY <2>2, <3>2, MergeOfOneSide
  <2>3. QED
    BY <2>1, <2>2
<1>6. Solves(f)
  <2>1. f = [k \in 0..N |-> f[k]]
    OBVIOUS
  <2> HIDE DEF f, step
  <2>2. QED
    BY <1>5, <2>1
<1>7. Solves(Onto)
  <2> HIDE DEF f, Solves
  <2>1. QED
    BY <1>1, <1>6
<1>8. \A k \in 0..N : Onto[k] = step(Onto, k)
  <2> HIDE DEF step
  <2>1. PICK g : g = Onto
    OBVIOUS
  <2>2. g = [k \in 0..N |-> step(g, k)]
    BY <1>7, <2>1
  <2>3. \A k \in 0..N : g[k] = step(g, k)
    BY <2>2
  <2>4. QED
    BY <2>1, <2>3
<1> DEFINE bad == {k \in 0..N : Onto[k] # f[k]}
<1>9. ASSUME bad # {}
      PROVE  FALSE
  <2>1. bad \in SUBSET Nat
    BY <1>2
  <2>2. PICK k \in bad : \A j \in bad : k <= j
    BY <1>9, <2>1, LeastNumber
  <2>3. k \in 0..N /\ Onto[k] # f[k]
    BY <2>2
  <2>4. k # 0
    BY <1>5, <1>8, <2>3
  <2>5. k - 1 \in 0..N /\ ~(k <= k - 1)
    BY <1>2, <2>3, <2>4
  <2>6. Onto[k - 1] = f[k - 1]
    BY <2>2, <2>5
  <2>7. step(Onto, k) = step(f, k)
    BY <2>6
  <2>8. QED
    BY <1>5, <1>8, <2>3, <2>7
<1>10. \A k \in 1..N : k \in 0..N
  BY <1>2
<1>11. QED
  BY <1>4, <1>9, <1>10 DEF N, to

\* The last commit a rebase replays is the head.
LEMMA HeadIsLast ==
  ASSUME PublicationInv, Mergeable, Replayed # {}
  PROVE  Nth(Cardinality(Replayed)) = remote.branch
<1> DEFINE n == Cardinality(Replayed)
<1>1. /\ Replayed = Past(remote.branch) \ Past(remote.main)
      /\ Replayed \in SUBSET (1..Len(commits)) /\ IsFiniteSet(Replayed)
      /\ n \in Nat /\ Len(commits) \in Nat
  BY ReplayedAreScanned, DagFacts DEF PublicationInv, Referenced
<1>2. /\ Referenced /\ remote.branch \in 1..Len(commits) /\ remote.main \in 1..Len(commits)
      /\ remote.main \in Past(remote.branch) /\ remote.main # remote.branch
  BY MergeableIsScanned DEF PublicationInv, Mergeable
<1>3. /\ remote.branch \in Past(remote.branch) /\ Past(remote.branch) \subseteq 1..remote.branch
      /\ Past(remote.main) \subseteq 1..remote.main
  BY <1>2, PastOfReference
<1>4. remote.branch \in Replayed
  <2>1. remote.main \in 1..remote.branch /\ remote.branch \in Nat /\ remote.main \in Nat
    BY <1>1, <1>2, <1>3
  <2>2. remote.branch \notin 1..remote.main
    BY <1>2, <2>1
  <2>3. QED
    BY <1>1, <1>3, <2>2
<1>5. Older(Replayed, remote.branch) = Replayed \ {remote.branch}
  <2>1. \A d \in Replayed : d \in 1..remote.branch
    BY <1>1, <1>3
  <2>2. remote.branch \in Nat
    BY <1>1, <1>2
  <2>3. \A d \in Replayed : d < remote.branch <=> d # remote.branch
    BY <2>1, <2>2
  <2>4. QED
    BY <2>3 DEF Older
<1>6. Cardinality(Older(Replayed, remote.branch)) = n - 1
  <2>1. Cardinality(Replayed \ {remote.branch}) = n - 1
    BY <1>1, <1>4, FS_RemoveElement
  <2>2. QED
    BY <1>5, <2>1
<1>7. n \in 1..n
  <2>1. n # 0
    BY <1>1, <1>4, FS_EmptySet
  <2>2. QED
    BY <1>1, <2>1
<1>8. Nth(n) \in Replayed /\ Cardinality(Older(Replayed, Nth(n))) = n - 1
  BY <1>7, NthIsReplayed
<1>9. QED
  BY <1>1, <1>4, <1>6, <1>8, RankIsUnique

\* One sequence after another.
LEMMA Concatenation ==
  ASSUME NEW S, NEW s \in Seq(S), NEW t \in Seq(S)
  PROVE  /\ s \o t \in Seq(S) /\ Len(s \o t) = Len(s) + Len(t)
         /\ \A c \in 1..(Len(s) + Len(t)) :
              (s \o t)[c] = IF c <= Len(s) THEN s[c] ELSE t[c - Len(s)]
OBVIOUS

\* A chain of new commits on main holds itself and what main held.
LEMMA ChainOnMain ==
  ASSUME PublicationInv, NEW n \in Nat \ {0}, n <= MaxOutgoing, Len(commits) <= MaxCommits,
         NEW s \in [1..n -> CommitRecord],
         \A k \in 1..n : s[k].parents = {IF k = 1 THEN remote.main ELSE Len(commits) + k - 1},
         commits' = commits \o s
  PROVE  /\ Extended /\ Len(commits) + n \in 1..Len(commits')
         /\ commits'[Len(commits) + n] = s[n]
         /\ remote.main \in Ancestors(commits')[Len(commits) + n]
         /\ \A c \in Ancestors(commits')[Len(commits) + n] \ Past(remote.main) :
              \E k \in 1..n : commits'[c] = s[k]
<1> DEFINE L == Len(commits)
<1>1. /\ Referenced /\ Dag(commits) /\ L \in Nat /\ MaxCommits \in Nat /\ MaxOutgoing \in Nat
      /\ remote.main \in 1..L
  BY DagFacts, BoundsAssumption, CeilingsAssumption DEF PublicationInv, Referenced
<1>2. commits \in Seq(CommitRecord) /\ \A c \in 1..L : commits[c].parents \subseteq 1..(c - 1)
  BY <1>1 DEF Dag
<1>3. s \in Seq(CommitRecord) /\ Len(s) = n
  OBVIOUS
<1>4. /\ commits' \in Seq(CommitRecord) /\ Len(commits') = L + n
      /\ \A c \in 1..L : commits'[c] = commits[c]
      /\ \A c \in (L + 1)..(L + n) : commits'[c] = s[c - L]
  <2>1. commits' \in Seq(CommitRecord) /\ Len(commits') = L + n
    <3>1. commits \o s \in Seq(CommitRecord) /\ Len(commits \o s) = Len(commits) + Len(s)
      <4>1. commits \in Seq(CommitRecord) /\ s \in Seq(CommitRecord)
        BY <1>2, <1>3
      <4> HIDE DEF L
      <4>2. QED
        BY ONLY <4>1, Concatenation
    <3>2. QED
      BY <1>3, <3>1
  <2>2. \A c \in 1..(L + n) : commits'[c] = IF c <= L THEN commits[c] ELSE s[c - L]
    BY <1>2, <1>3, Concatenation
  <2>3. QED
    BY <1>1, <2>1, <2>2
<1> HIDE DEF L
<1>5. ASSUME NEW c \in (L + 1)..(L + n)
      PROVE  /\ c - L \in 1..n /\ c \in 1..(L + n)
             /\ commits'[c].parents = {IF c = L + 1 THEN remote.main ELSE c - 1}
  <2>1. c - L \in 1..n /\ c \in 1..(L + n) /\ (c - L = 1 <=> c = L + 1) /\ L + (c - L) - 1 = c - 1
    BY <1>1
  <2>2. commits'[c].parents = {IF c - L = 1 THEN remote.main ELSE L + (c - L) - 1}
    BY <1>4, <2>1 DEF L
  <2>3. QED
    BY <2>1, <2>2
<1>6. \A c \in 1..(L + n) : c \in 1..L \/ c \in (L + 1)..(L + n)
  BY <1>1
<1>7. Dag(commits')
  <2>1. ASSUME NEW c \in 1..(L + n)
        PROVE  commits'[c].parents \subseteq 1..(c - 1)
    <3>1. CASE c \in 1..L
      BY <1>2, <1>4, <3>1
    <3>2. CASE c \in (L + 1)..(L + n)
      <4>1. (IF c = L + 1 THEN remote.main ELSE c - 1) \in 1..(c - 1)
        BY <1>1, <3>2
      <4>2. PICK p : p = IF c = L + 1 THEN remote.main ELSE c - 1
        OBVIOUS
      <4>3. commits'[c].parents = {p}
        BY <1>5, <3>2, <4>2
      <4>4. QED
        BY <4>1, <4>2, <4>3
    <3>3. QED
      BY <1>6, <3>1, <3>2
  <2>2. QED
    BY <1>4, <2>1 DEF Dag
<1>8. Extended
  <2>1. L <= Len(commits') /\ Len(commits') <= MaxCommits + MaxOutgoing
    BY <1>1, <1>4 DEF L
  <2>2. QED
    BY <1>4, <1>7, <2>1 DEF Extended, L
<1>9. L + n \in 1..Len(commits') /\ L + n \in (L + 1)..(L + n)
  BY <1>1, <1>4
<1>10. ASSUME NEW c \in (L + 1)..(L + n)
       PROVE  remote.main \in Ancestors(commits')[c]
  <2> DEFINE bad == {d \in (L + 1)..(L + n) : remote.main \notin Ancestors(commits')[d]}
  <2>1. ASSUME bad # {}
        PROVE  FALSE
    <3>1. bad \in SUBSET Nat
      BY <1>1
    <3>2. PICK d \in bad : \A e \in bad : d <= e
      BY <2>1, <3>1, LeastNumber
    <3>3. d \in 1..Len(commits') /\ remote.main \in 1..Len(commits')
      BY <1>1, <1>4, <3>2
    <3>4. \A x : x \in Ancestors(commits')[d] <=>
                   x = d \/ \E p \in commits'[d].parents : x \in Ancestors(commits')[p]
      BY <1>7, <3>3, AncestorsOfChild
    <3>5. CASE d = L + 1
      <4>1. remote.main \in Ancestors(commits')[remote.main]
        BY <1>7, <3>3, PastIsLeast
      <4>2. commits'[d].parents = {remote.main}
        BY <1>5, <3>2, <3>5
      <4>3. QED
        BY <3>2, <3>4, <4>1, <4>2
    <3>6. CASE d # L + 1
      <4>1. d - 1 \in (L + 1)..(L + n) /\ ~(d <= d - 1)
        BY <1>1, <3>2, <3>6
      <4>2. remote.main \in Ancestors(commits')[d - 1]
        BY <3>2, <4>1
      <4>3. commits'[d].parents = {d - 1}
        BY <1>5, <3>2, <3>6
      <4>4. QED
        BY <3>2, <3>4, <4>2, <4>3
    <3>7. QED
      BY <3>5, <3>6
  <2>2. QED
    BY <2>1
<1>11. Ancestors(commits')[L + n] \subseteq Past(remote.main) \cup (L + 1)..(L + n)
  <2> DEFINE X == Past(remote.main) \cup (L + 1)..(L + n)
  <2>1. /\ Past(remote.main) \subseteq 1..L /\ remote.main \in Past(remote.main)
        /\ \A c \in Past(remote.main) : commits[c].parents \subseteq Past(remote.main)
    BY <1>1, PastIsLeast DEF Past, Closed, L
  <2>2. X \subseteq 1..Len(commits')
    BY <1>1, <1>4, <2>1
  <2>3. ASSUME NEW c \in X
        PROVE  commits'[c].parents \subseteq X
    <3>1. CASE c \in Past(remote.main)
      BY <1>4, <2>1, <3>1
    <3>2. CASE c \in (L + 1)..(L + n)
      <4>1. (IF c = L + 1 THEN remote.main ELSE c - 1) \in X
        <5>1. CASE c = L + 1
          BY <2>1, <5>1
        <5>2. CASE c # L + 1
          <6>1. c - 1 \in (L + 1)..(L + n)
            BY <1>1, <3>2, <5>2
          <6>2. QED
            BY <5>2, <6>1
        <5>3. QED
          BY <5>1, <5>2
      <4>2. PICK p : p = IF c = L + 1 THEN remote.main ELSE c - 1
        OBVIOUS
      <4>3. commits'[c].parents = {p}
        BY <1>5, <3>2, <4>2
      <4> HIDE DEF X
      <4>4. QED
        BY <4>1, <4>2, <4>3
    <3>3. QED
      BY <3>1, <3>2
  <2>4. Closed(commits', X)
    BY <2>2, <2>3 DEF Closed
  <2>5. PICK last : last = L + n
    OBVIOUS
  <2>6. last \in X /\ last \in 1..Len(commits')
    BY <1>9, <2>5
  <2> HIDE DEF X
  <2>7. Ancestors(commits')[last] \subseteq X
    BY <1>7, <2>4, <2>6, PastIsLeast
  <2>8. QED
    BY <2>5, <2>7 DEF X
<1>12. ASSUME NEW c \in Ancestors(commits')[L + n] \ Past(remote.main)
       PROVE  \E k \in 1..n : commits'[c] = s[k]
  <2>1. c \in (L + 1)..(L + n)
    BY <1>11
  <2>2. c - L \in 1..n
    BY <1>5, <2>1
  <2>3. QED
    BY <1>4, <2>1, <2>2
<1>13. commits'[L + n] = s[n]
  <2>1. L + n - L = n
    BY <1>1
  <2>2. QED
    BY <1>4, <1>9, <2>1
<1>14. QED
  BY <1>8, <1>9, <1>10, <1>12, <1>13 DEF L

\* A rebase brings to main the trees that were scanned, the head's last.
LEMMA RebaseIsRight ==
  ASSUME PublicationInv, Rebase
  PROVE  PublicationInv'
<1> DEFINE n == Cardinality(Replayed)
           Parent(k) == IF k = 1 THEN remote.main ELSE Len(commits) + k - 1
           s == [k \in 1..n |-> [parents |-> {Parent(k)}, tree |-> Onto[k], meta |-> "plain"]]
<1>1. /\ Mergeable /\ Replayed # {} /\ Len(commits) <= MaxCommits
      /\ commits' = commits \o s
      /\ remote' = [remote EXCEPT !.main = Len(commits) + n]
      /\ landed' = landed \cup {Len(commits) + n}
      /\ UNCHANGED <<tip, work, index, push, ci, verified, bypasses, published, calm>>
  BY DEF Rebase
<1>2. /\ Replayed \subseteq 1..Len(commits) /\ n \in Nat /\ n <= MaxOutgoing
  BY <1>1, ReplayedAreScanned
<1>3. /\ Referenced /\ Len(commits) \in Nat /\ remote.main \in 1..Len(commits)
      /\ tip \in 1..Len(commits) /\ landed \subseteq 1..Len(commits)
      /\ Tree(tip) \in Trees /\ work \in Trees /\ index \in Trees
      /\ remote \in [main : Nat, branch : Nat]
  BY DagFacts DEF PublicationInv, Referenced
<1>4. n # 0
  <2>1. IsFiniteSet(1..Len(commits))
    BY <1>3, FS_Interval, 1 \in Int, Len(commits) \in Int
  <2>2. IsFiniteSet(Replayed)
    BY <1>2, <2>1, FS_Subset
  <2>3. QED
    BY <1>1, <2>2, FS_EmptySet
<1>5. /\ \A k \in 1..n : Onto[k] \in Trees /\ TreeIsClean(Onto[k])
      /\ TreeIsLawful(Onto[n])
  <2>1. \A c \in Replayed : Tree(c) \in Trees /\ TreeIsClean(Tree(c))
    BY <1>1, <1>2, <1>3, ReplayedAreScanned, DagFacts DEF Referenced, Tree, CommitRecord
  <2>2. \A k \in 1..n : Nth(k) \in Replayed /\ Onto[k] = Tree(Nth(k))
    BY <1>1, NthIsReplayed, ReplayedTreesStand
  <2>3. n \in 1..n /\ Nth(n) = remote.branch /\ TreeIsLawful(Tree(remote.branch))
    BY <1>1, <1>2, <1>4, HeadIsLast, MergeableIsScanned
  <2> HIDE DEF n
  <2>4. QED
    BY <2>1, <2>2, <2>3
<1>6. \A k \in 1..n : Parent(k) \in Nat
  BY <1>2, <1>3
<1>7. /\ s \in [1..n -> CommitRecord]
      /\ \A k \in 1..n : s[k].parents = {Parent(k)} /\ s[k].tree = Onto[k]
  <2> HIDE DEF n, Parent
  <2>1. \A k \in 1..n : [parents |-> {Parent(k)}, tree |-> Onto[k], meta |-> "plain"] \in CommitRecord
    BY <1>5, <1>6 DEF CommitRecord, Metadata
  <2>2. QED
    BY <2>1
<1> HIDE DEF s, n
<1>8. /\ Extended /\ Len(commits) + n \in 1..Len(commits')
      /\ commits'[Len(commits) + n] = s[n]
      /\ remote.main \in Ancestors(commits')[Len(commits) + n]
      /\ \A c \in Ancestors(commits')[Len(commits) + n] \ Past(remote.main) :
           \E k \in 1..n : commits'[c] = s[k]
  <2>1. \A k \in 1..n : s[k].parents = {IF k = 1 THEN remote.main ELSE Len(commits) + k - 1}
    BY <1>7
  <2>2. n \in Nat \ {0} /\ s \in [1..n -> CommitRecord]
    BY <1>2, <1>4, <1>7
  <2>3. QED
    BY <1>1, <1>2, <2>1, <2>2, ChainOnMain
<1>9. remote'.main = Len(commits) + n
      /\ remote' \in [main : 1..Len(commits'), branch : {Absent, remote.branch}]
  BY <1>1, <1>3, <1>8
<1>10. \A c \in Ancestors(commits')[remote'.main] \ Past(remote.main) :
         TreeIsClean(commits'[c].tree)
  BY <1>5, <1>7, <1>8, <1>9
<1>11. 1..Len(commits) \subseteq 1..Len(commits') /\ commits'[tip] = commits[tip]
  BY <1>3, <1>8, OldCommitsStay
<1>12. landed' \subseteq 1..Len(commits') /\ \A c \in landed' \ landed : TreeIsLawful(commits'[c].tree)
  <2>1. n \in 1..n
    BY <1>2, <1>4
  <2>2. TreeIsLawful(commits'[Len(commits) + n].tree)
    BY <1>5, <1>7, <1>8, <2>1
  <2>3. QED
    BY <1>1, <1>3, <1>8, <1>11, <2>2
<1>13. /\ tip' \in 1..Len(commits') /\ commits'[tip'].tree \in Trees
       /\ work' \in Trees /\ index' \in Trees
  BY <1>1, <1>3, <1>11 DEF Tree
<1>14. QED
  BY <1>1, <1>8, <1>9, <1>10, <1>12, <1>13, ExtensionIsRight

--------------------------------------------------------------------------------
\* The repository begins with one commit.
LEMMA FirstCommit ==
  ASSUME Init
  PROVE  /\ Dag(commits) /\ Len(commits) = 1 /\ commits[1].tree = First /\ commits[1].meta = "plain"
         /\ Past(1) = {1}
<1>1. /\ commits = <<[parents |-> {}, tree |-> First, meta |-> "plain"]>>
  BY DEF Init
<1>2. [parents |-> {}, tree |-> First, meta |-> "plain"] \in CommitRecord
  BY TreesAssumption DEF CommitRecord, Metadata
<1>3. /\ commits \in Seq(CommitRecord) /\ Len(commits) = 1 /\ commits[1].parents = {}
      /\ commits[1].tree = First /\ commits[1].meta = "plain"
  BY <1>1, <1>2
<1>4. \A c \in 1..1 : c = 1
  OBVIOUS
<1>5. Dag(commits)
  BY <1>3, <1>4 DEF Dag
<1>6. 1 \in Past(1) /\ Past(1) \subseteq 1..1
  BY <1>3, <1>5, PastIsLeast DEF Past
<1>7. QED
  BY <1>3, <1>4, <1>5, <1>6

\* The invariant holds in the first state, and every step preserves it.
LEMMA PublicationStarts ==
  ASSUME Init
  PROVE  PublicationInv
<1>1. /\ tip = 1 /\ work = First /\ index = First /\ remote = [main |-> 1, branch |-> 0]
      /\ push = NoPush /\ ci = NoCheck /\ verified = {} /\ bypasses = 0
      /\ published = {} /\ calm = {} /\ landed = {1}
  BY DEF Init, Absent
<1>2. /\ Dag(commits) /\ Len(commits) = 1 /\ commits[1].tree = First /\ Past(1) = {1}
  BY FirstCommit
<1>3. First \in Trees /\ TreeIsClean(First) /\ TreeIsLawful(First)
      /\ MaxCommits \in Nat /\ MaxOutgoing \in Nat \ {0} /\ MaxBypasses \in Nat
      /\ MaxEdits \in Nat
  BY TreesAssumption, BoundsAssumption, CeilingsAssumption
<1>4. Referenced
  <2>1. 1 \in 1..(MaxCommits + MaxOutgoing) /\ 0 \in 0..MaxBypasses /\ 0 \in 0..1 /\ 1 \in 1..1
    BY <1>3
  <2>2. QED
    BY <1>1, <1>2, <1>3, <2>1 DEF Referenced, Tree
<1>5. Pushing
  <2>1. 0 \in 0..1 /\ 0 \in 0..MaxEdits /\ {} \in SUBSET UNION Trees
    BY <1>3
  <2>2. QED
    BY <1>1, <1>2, <2>1 DEF Pushing, NoPush, Absent, Gate, Looks
<1>6. ScannedInPush /\ Watched
  BY <1>1 DEF ScannedInPush, Watched, NoPush, Gate, Looks
<1>7. NothingUnseen /\ PublishedIsClean /\ OneEditHidesNothing
  BY <1>1 DEF NothingUnseen, PublishedIsClean, OneEditHidesNothing, Absent
<1>8. Verifying
  BY <1>1 DEF Verifying, NoCheck, Absent
<1>9. MainIsClean
  BY <1>1, <1>2, <1>3 DEF MainIsClean, Tree
<1>10. QED
  BY <1>4, <1>5, <1>6, <1>7, <1>8, <1>9 DEF PublicationInv

LEMMA PublicationSteps ==
  ASSUME PublicationInv, [Next]_vars
  PROVE  PublicationInv'
<1>1. CASE \/ \E content \in Contents : CommitWork(content)
           \/ \E tree \in Trees : MergeMain(tree)
  BY <1>1, CommitsAreRight
<1>14. CASE FreshBranch
  BY <1>14, FreshBranchIsRight
<1>2. CASE \E tree \in Trees : OtherMerge(tree)
  BY <1>2, OtherMergeIsRight
<1>3. CASE \/ \E tree \in Trees, where \in {"work", "index"} : Edit(tree, where)
           \/ Restore
  BY <1>3, EditsAreCounted
<1>4. CASE (\E spec \in Specs, asks \in BOOLEAN : PushBegin(spec, asks)) \/ Hook
  BY <1>4, PushBegins
<1>5. CASE Layout \/ PrivacyIndex \/ Media \/ SecretsIndex \/ History \/ GateEnd
  BY <1>5, ChecksGoOn
<1>6. CASE PrivacyFiles \/ SecretsFiles
  BY <1>6, LooksGoOn
<1>7. CASE Upload
  BY <1>7, UploadIsRight
<1>8. CASE Bypass
  BY <1>8, BypassIsRight
<1>9. CASE CheckBegin \/ CheckEnd
  BY <1>9, CheckIsRight
<1>10. CASE Squash
  BY <1>10, SquashIsRight
<1>11. CASE Rebase
  BY <1>11, RebaseIsRight
<1>12. CASE UNCHANGED vars
  <2>1. UNCHANGED <<local, remote, ci, verified, bypasses, history>> /\ push' = push
    BY <1>12 DEF vars, local, history
  <2>2. commits' = commits /\ tip' = tip /\ work' = work /\ index' = index /\ remote' = remote
    BY <2>1 DEF local
  <2>3. Pushing'
    BY <2>1, <2>2 DEF PublicationInv, Pushing, Past
  <2>4. ScannedInPush'
    BY <2>1, <2>2 DEF PublicationInv, ScannedInPush, Scanned, Past, Tree
  <2>5. Watched'
    <3>1. Tree(tip)' = Tree(tip)
      BY <2>2 DEF Tree
    <3>2. QED
      BY <2>1, <2>2, <3>1 DEF PublicationInv, Watched, Shown
  <2>6. QED
    BY <2>1, <2>3, <2>4, <2>5, PushAlone
<1>13. QED
  BY <1>1, <1>2, <1>3, <1>4, <1>5, <1>6, <1>7, <1>8, <1>9, <1>10, <1>11, <1>12, <1>14 DEF Next

\* The invariant of publication: what the gate and the check have shown so far, and
\* what the remote's branch may hold that no push of the gate has brought.
\* (.githooks/pre-push; pre-push-security.sh; pull-request.yml)
THEOREM PublicationInvariant == Spec => []PublicationInv
<1>1. Init => PublicationInv
  BY PublicationStarts
<1>2. PublicationInv /\ [Next]_vars => PublicationInv'
  BY PublicationSteps
<1>3. QED
  BY <1>1, <1>2, PTL DEF Spec

\* Every reference is to a commit that exists, and counters keep their bounds.
\* (the refs of the repository and of the remote; .githooks/pre-push)
THEOREM PublicationTypeCorrect == Spec => []TypeOK
<1>1. PublicationInv => TypeOK
  <2> SUFFICES ASSUME PublicationInv
               PROVE  TypeOK
    OBVIOUS
  <2>1. /\ Dag(commits) /\ DOMAIN commits = 1..Len(commits) /\ Len(commits) \in Nat
        /\ Len(commits) <= MaxCommits + MaxOutgoing
    <3>1. Dag(commits) /\ Len(commits) \in 1..(MaxCommits + MaxOutgoing)
      BY DEF PublicationInv, Referenced
    <3>2. MaxCommits \in Nat /\ MaxOutgoing \in Nat
      BY BoundsAssumption, CeilingsAssumption
    <3>3. QED
      BY <3>1, <3>2, DagFacts
  <2>2. 1..Len(commits) \subseteq 1..(MaxCommits + MaxOutgoing)
    <3>1. MaxCommits \in Nat /\ MaxOutgoing \in Nat
      BY BoundsAssumption, CeilingsAssumption
    <3>2. QED
      BY <2>1, <3>1
  <2>3. \A c \in 1..Len(commits) :
          /\ commits[c].parents \subseteq 1..(c - 1)
          /\ commits[c].tree \in Trees
          /\ commits[c].meta \in Metadata
    BY <2>1, DagFacts DEF CommitRecord
  <2>4. /\ {tip} \cup verified \cup published \cup calm \cup landed \subseteq 1..Len(commits)
        /\ work \in Trees /\ index \in Trees
        /\ remote.main \in 1..Len(commits) /\ remote.branch \in 0..Len(commits)
        /\ bypasses \in 0..MaxBypasses
    BY DEF PublicationInv, Referenced
  <2>5. /\ push.remote \in 0..Len(commits) /\ push.baseline \in 0..Len(commits)
        /\ push.candidate \in 0..Len(commits) /\ push.edits \in 0..MaxEdits
    BY DEF PublicationInv, Pushing
  <2>6. ci.head \in 0..Len(commits) /\ ci.base \in 0..Len(commits)
    <3>1. CASE ci = NoCheck
      BY <2>1, <3>1 DEF NoCheck, Absent
    <3>2. CASE ci # NoCheck
      <4>1. ci.head \in 1..Len(commits) /\ ci.base \in Past(remote.main)
        BY <3>2 DEF PublicationInv, Verifying
      <4>2. Past(remote.main) \subseteq 1..Len(commits)
        BY <2>4, PastOfReference DEF PublicationInv
      <4>3. 1..Len(commits) \subseteq 0..Len(commits)
        BY <2>1
      <4>4. QED
        BY <4>1, <4>2, <4>3
    <3>3. QED
      BY <3>1, <3>2
  <2>7. \A c \in 0..Len(commits) : c \in 1..Len(commits) \cup {Absent}
    BY <2>1 DEF Absent
  <2>8. QED
    BY <2>1, <2>2, <2>3, <2>4, <2>5, <2>6, <2>7 DEF TypeOK
<1>2. QED
  BY <1>1, PublicationInvariant, PTL

\* While every push goes through the hook, the tree and the metadata of every commit
\* a push brought are clean, whatever the remote and the author did meanwhile.
\* (validate_publication_history.py, validate; .githooks/pre-push)
THEOREM PublishedAreClean == Spec => []PublishedIsClean
<1>1. PublicationInv => PublishedIsClean
  BY DEF PublicationInv
<1>2. QED
  BY <1>1, PublicationInvariant, PTL

\* One edit of the tree or of the index while the gate looks hides nothing from it.
\* (pre-push-security.sh; validate_repository.py, main)
THEOREM OneEditIsSeen == Spec => []OneEditHidesNothing
<1>1. PublicationInv => OneEditHidesNothing
  BY DEF PublicationInv
<1>2. QED
  BY <1>1, PublicationInvariant, PTL

\* Every commit on main has a clean tree and every tip main has had is lawful,
\* although a branch may be pushed around the hook and main moves during a check:
\* what squash and rebase land was scanned, for any merge of two texts.
\* (validate_publication_history.py, main; platform_release_contract.py,
\* _linear_commits; verify-pull-request-merge-base.sh)
THEOREM MainStaysClean == Spec => []MainIsClean
<1>1. PublicationInv => MainIsClean
  BY DEF PublicationInv
<1>2. QED
  BY <1>1, PublicationInvariant, PTL
================================================================================
