----------------------------- MODULE Publication -----------------------------
(***************************************************************************)
(* From a local commit to main: the pre-push hook and its gate, the upload,*)
(* the check of the pull request and the merge.  One author works on one   *)
(* branch, may edit the tree while the gate runs and may push around the   *)
(* hook; other pull requests move main meanwhile.                          *)
(*                                                                         *)
(* External: git (ancestry, the three-way merge of two trees with its merge*)
(* of texts inside a file, the compare-and-swap of an upload) and GitHub   *)
(* (the strict required check, squash and rebase).  One work branch stands *)
(* at a time: a fresh one takes the place of the last.                     *)
(***************************************************************************)
EXTENDS PublishedTree, PrFlow

CONSTANTS
    Trees,        \* the trees an author may have in the working tree
    First,        \* the tree main starts with
    Contents,     \* what an author commits: [tree, meta]
    TextMerge(_, _, _), \* what git makes of two changes of one file, {} if they overlap
    Branch,       \* the name of the work branch
    MaxCommits,   \* bound: commits
    MaxEdits,     \* bound: edits while one gate runs
    MaxBypasses   \* bound: uploads around the hook

\* A path, spelling included.
Path(f) == <<f.name, f.upper>>

FileIsClean(f) == ~EntryFinding(f) /\ ~ContentFinding(f)
TreeIsClean(t) == /\ \A f \in t : FileIsClean(f)
                  /\ ~CaseCollision(t) /\ ~(SizeOf(t) > MaxTree)
                  /\ ~(AssetTotal(t) > MaxAssetTree)

ASSUME BoundsAssumption == {MaxCommits, MaxEdits, MaxBypasses} \subseteq Nat
ASSUME TreesAssumption ==
    /\ UNION Trees \subseteq File
    /\ \A tree \in Trees : \A f, g \in tree : f # g => Path(f) # Path(g)
    /\ First \in Trees /\ TreeIsClean(First) /\ TreeIsLawful(First)
    /\ \A content \in Contents : content.tree \in Trees /\ content.meta \in Metadata

VARIABLES
    commits,     \* every commit made
    tip,         \* the local work branch, which is HEAD
    work, index, \* the working tree and the index
    remote,      \* the remote's refs; Absent for a branch it does not have
    push,        \* the push under way
    ci,          \* the pull-request check under way
    verified,    \* heads with a successful required check
    bypasses,    \* uploads around the hook so far
    published,   \* history: every commit a push brought to the remote
    calm,        \* history: tips the gate let out over at most one edit
    landed       \* history: the tips main has had

vars == <<commits, tip, work, index, remote, push, ci, verified, bypasses,
          published, calm, landed>>
local == <<commits, tip, work, index>>
history == <<published, calm, landed>>

Absent   == 0
Main     == [first |-> <<"main">>, rest |-> "no slash", safe |-> TRUE]
NoPush   == [pc |-> "idle", remote |-> Absent, baseline |-> Absent, candidate |-> Absent,
             seen |-> {}, edits |-> 0]
NoCheck  == [head |-> Absent, base |-> Absent]

Past(c)  == Ancestors(commits)[c]
Tree(c)  == commits[c].tree
New      == Len(commits) + 1

TypeOK ==
    /\ DOMAIN commits \subseteq 1..(MaxCommits + MaxOutgoing)
    /\ \A c \in DOMAIN commits :
          /\ commits[c].parents \subseteq 1..(c - 1)
          /\ commits[c].tree \in Trees
          /\ commits[c].meta \in Metadata
    /\ {tip} \cup verified \cup published \cup calm \cup landed \subseteq DOMAIN commits
    /\ work \in Trees /\ index \in Trees
    /\ remote.main \in DOMAIN commits
    /\ {remote.branch, push.remote, push.baseline, push.candidate, ci.head, ci.base}
          \subseteq DOMAIN commits \cup {Absent}
    /\ push.edits \in 0..MaxEdits /\ bypasses \in 0..MaxBypasses

Init ==
    /\ commits = <<[parents |-> {}, tree |-> First, meta |-> "plain"]>>
    /\ tip = 1 /\ work = First /\ index = First
    /\ remote = [main |-> 1, branch |-> Absent]
    /\ push = NoPush /\ ci = NoCheck /\ verified = {} /\ bypasses = 0
    /\ published = {} /\ calm = {} /\ landed = {1}

(***************************************************************************)
(* The author.                                                             *)
(***************************************************************************)
Commit(parents, tree, meta) ==
    /\ push.pc = "idle" /\ Len(commits) < MaxCommits
    /\ commits' = Append(commits, [parents |-> parents, tree |-> tree, meta |-> meta])
    /\ tip' = New /\ work' = tree /\ index' = tree
    /\ UNCHANGED <<remote, push, ci, verified, bypasses, history>>

CommitWork(content) == Commit({tip}, content.tree, content.meta)

MergeMain(tree) ==
    /\ remote.main \notin Past(tip)
    /\ Commit({tip, remote.main}, tree, "plain")

\* A fresh branch from main, which the remote does not have.
FreshBranch ==
    /\ push.pc = "idle" /\ remote.main \notin Past(tip)
    /\ tip' = remote.main /\ work' = Tree(remote.main) /\ index' = work'
    /\ remote' = [remote EXCEPT !.branch = Absent]
    /\ UNCHANGED <<commits, push, ci, verified, bypasses, history>>

\* An edit outside the gate changes nothing that is pushed.
Edit(tree, where) ==
    /\ push.pc \notin {"idle", "hook", "upload"} /\ push.edits < MaxEdits
    /\ work'  = IF where = "work"  THEN tree ELSE work
    /\ index' = IF where = "index" THEN tree ELSE index
    /\ <<work', index'>> # <<work, index>>
    /\ push' = [push EXCEPT !.edits = @ + 1]
    /\ UNCHANGED <<commits, tip, remote, ci, verified, bypasses, history>>

Restore ==
    /\ push.pc = "idle"
    /\ <<work, index>> # <<Tree(tip), Tree(tip)>>
    /\ work' = Tree(tip) /\ index' = Tree(tip)
    /\ UNCHANGED <<commits, tip, remote, push, ci, verified, bypasses, history>>

(***************************************************************************)
(* The push and its hook.  The upload sends what the remote advertised when*)
(* the connection was made; the baseline of a first push is main as a      *)
(* second connection finds it.                                             *)
(***************************************************************************)
Specs == {Refspec(Branch, Branch), Refspec(Main, Main), Refspec(Branch, Main),
          [Refspec(Branch, Branch) EXCEPT !.forced = TRUE]}

\* An agent asks validate_pr_flow first.  The hook takes one branch, pushed to its
\* own name; the local main is the remote's, so there is nothing of it to push.
PushBegin(spec, asks) ==
    /\ push.pc = "idle" /\ remote.branch # tip
    /\ asks => /\ operation_denial("push-work-branch") = None
               /\ refspec_denial(spec, Branch) = None
    /\ ~spec.deletes /\ spec.kind = "branch" /\ spec.source = spec.destination
    /\ spec.source # Main
    /\ push' = [NoPush EXCEPT !.pc = "hook", !.candidate = tip, !.remote = remote.branch]
    /\ UNCHANGED <<local, remote, ci, verified, bypasses, history>>

Baselines == IF push.remote # Absent THEN {push.remote} ELSE {remote.main}

Clean == work = Tree(push.candidate) /\ index = Tree(push.candidate) /\ tip = push.candidate

Proceed(ok, next) ==
    /\ push' = IF ok THEN [push EXCEPT !.pc = next] ELSE NoPush
    /\ UNCHANGED <<local, remote, ci, verified, bypasses, history>>

Hook ==
    /\ push.pc = "hook"
    /\ \E base \in Baselines :
          /\ push' = IF /\ base # push.candidate /\ base \in Past(push.candidate)
                        /\ Clean
                     THEN [push EXCEPT !.pc = "layout", !.baseline = base]
                     ELSE NoPush
          /\ UNCHANGED <<local, remote, ci, verified, bypasses, history>>

(***************************************************************************)
(* validate_repository all: each check lists and reads the files for       *)
(* itself, and two of them read the index after the files.                 *)
(***************************************************************************)
Layout == push.pc = "layout" /\ Proceed(check_layout(work), "privacy files")

Look(pc, next) ==
    /\ push.pc = pc
    /\ push' = [push EXCEPT !.pc = next, !.seen = work]
    /\ UNCHANGED <<local, remote, ci, verified, bypasses, history>>

PrivacyFiles == Look("privacy files", "privacy index")
PrivacyIndex == push.pc = "privacy index" /\ Proceed(check_privacy(push.seen, index), "media")
Media        == push.pc = "media" /\ Proceed(check_media(work), "secrets files")
SecretsFiles == Look("secrets files", "secrets index")
SecretsIndex == push.pc = "secrets index" /\ Proceed(check_secrets(push.seen, index), "history")

History ==
    /\ push.pc = "history"
    /\ Proceed(PassesForPush(commits, push.baseline, push.candidate), "end")

\* Mutant of GateEnd: the tree is not compared again.
GateEndsBlind == push.pc = "end" /\ Proceed(TRUE, "upload")

GateEnd == push.pc = "end" /\ Proceed(Clean, "upload")

Upload ==
    /\ push.pc = "upload"
    /\ IF remote.branch = push.remote
       THEN /\ remote' = [remote EXCEPT !.branch = push.candidate]
            /\ published' = published \cup (Past(push.candidate) \ Past(remote.main))
            /\ calm' = IF push.edits <= 1 THEN calm \cup {push.candidate} ELSE calm
       ELSE UNCHANGED <<remote, published, calm>>
    /\ push' = NoPush
    /\ UNCHANGED <<local, ci, verified, bypasses, landed>>

\* git push --no-verify, from this clone or from another.
Bypass ==
    /\ push.pc = "idle" /\ bypasses < MaxBypasses /\ remote.branch # tip
    /\ remote' = [remote EXCEPT !.branch = tip]
    /\ published' = published \cup (Past(tip) \ Past(remote.main))
    /\ bypasses' = bypasses + 1
    /\ UNCHANGED <<local, push, ci, verified, calm, landed>>

(***************************************************************************)
(* The merge of two trees from a common one, path by path: a version only  *)
(* one side changed stands, and of two changes git merges the texts.       *)
(***************************************************************************)
At(tree, path) == {f \in tree : Path(f) = path}
Paths(trees)   == {Path(f) : f \in UNION trees}

Settled(from, ours, theirs) ==
    IF ours \in {from, theirs} THEN theirs
    ELSE IF theirs = from THEN ours
    ELSE TextMerge(from, ours, theirs)

Merge(from, ours, theirs) ==
    UNION {Settled(At(from, p), At(ours, p), At(theirs, p)) : p \in Paths({from, ours, theirs})}

Conflicts(from, ours, theirs) ==
    \E p \in Paths({from, ours, theirs}) :
        /\ Cardinality({At(from, p), At(ours, p), At(theirs, p)}) = 3
        /\ TextMerge(At(from, p), At(ours, p), At(theirs, p)) = {}

MergeBase(a, b) == Max(Past(a) \cap Past(b))
MergedTree(base, head) == Merge(Tree(MergeBase(base, head)), Tree(base), Tree(head))

(***************************************************************************)
(* The pull-request check.  The release transition wants the range from the*)
(* event's base, a tip main had when the pull request was opened, to be a  *)
(* chain without merges; the merge commit must join the live base tip with *)
(* the head, and the range scanned is the one it proves.                   *)
(***************************************************************************)
CheckBegin ==
    /\ ci = NoCheck /\ remote.branch \notin verified \cup {Absent, remote.main}
    /\ ~Conflicts(Tree(MergeBase(remote.main, remote.branch)),
                  Tree(remote.main), Tree(remote.branch))
    /\ ci' = [head |-> remote.branch, base |-> remote.main]
    /\ UNCHANGED <<local, remote, push, verified, bypasses, history>>

\* Mutant of _linear_commits: merges of main into the branch will do.
DescendsFrom(base, head) == base # head /\ base \in Past(head)

_linear_commits(base, head) ==
    /\ base # head /\ base \in Past(head)
    /\ \A c \in _outgoing_commits(commits, base, head) :
          \E previous \in Past(head) : commits[c].parents = {previous}

CheckPasses(event) ==
    /\ _linear_commits(event, ci.head)
    /\ event \in Past(ci.base)
    /\ PassesForPullRequest(commits, ci.base, ci.head)
    /\ TreeIsLawful(MergedTree(ci.base, ci.head))

CheckEnd ==
    /\ ci # NoCheck
    /\ \E event \in landed :
          verified' = IF CheckPasses(event) THEN verified \cup {ci.head} ELSE verified
    /\ ci' = NoCheck
    /\ UNCHANGED <<local, remote, push, bypasses, history>>

(***************************************************************************)
(* GitHub's merge: the required check succeeded at the head and, the policy*)
(* being strict, the head holds main.  Squash and rebase make new commits. *)
(***************************************************************************)
Mergeable ==
    /\ remote.branch \in verified
    /\ remote.main \in Past(remote.branch) \ {remote.branch}

Squash ==
    /\ Mergeable /\ Len(commits) <= MaxCommits
    /\ commits' = Append(commits, [parents |-> {remote.main},
                                   tree |-> MergedTree(remote.main, remote.branch),
                                   meta |-> "plain"])
    /\ \E branch \in {Absent, remote.branch} : remote' = [main |-> New, branch |-> branch]
    /\ landed' = landed \cup {New}
    /\ UNCHANGED <<tip, work, index, push, ci, verified, bypasses, published, calm>>

\* The commits a rebase replays, oldest first; merge commits fall away.
Replayed == {c \in _outgoing_commits(commits, remote.main, remote.branch) :
                Cardinality(commits[c].parents) = 1}

\* The k-th of them, and the tree once it is replayed.
Nth(k) == CHOOSE d \in Replayed : Cardinality({e \in Replayed : e < d}) = k - 1
Before(k) == Tree(CHOOSE p \in commits[Nth(k)].parents : TRUE)
Onto[k \in 0..Cardinality(Replayed)] ==
    IF k = 0 THEN Tree(remote.main) ELSE Merge(Before(k), Onto[k - 1], Tree(Nth(k)))

Rebase ==
    /\ Mergeable /\ Replayed # {} /\ Len(commits) <= MaxCommits
    /\ LET Last == Cardinality(Replayed)
           Parent(k) == IF k = 1 THEN remote.main ELSE Len(commits) + k - 1
       IN  /\ \A k \in 1..Last : ~Conflicts(Before(k), Onto[k - 1], Tree(Nth(k)))
           /\ commits' = commits \o [k \in 1..Last |->
                              [parents |-> {Parent(k)}, tree |-> Onto[k], meta |-> "plain"]]
           /\ remote' = [remote EXCEPT !.main = Len(commits) + Last]
           /\ landed' = landed \cup {Len(commits) + Last}
    /\ UNCHANGED <<tip, work, index, push, ci, verified, bypasses, published, calm>>

\* Another author's pull request, of one commit on main, through the same check.
OtherMerge(tree) ==
    /\ Len(commits) < MaxCommits /\ tree # Tree(remote.main)
    /\ _read_blobs(_parse_tree(tree).entries) /\ ~TreeFinding(tree) /\ TreeIsLawful(tree)
    /\ commits' = Append(commits, [parents |-> {remote.main}, tree |-> tree, meta |-> "plain"])
    /\ remote' = [remote EXCEPT !.main = New]
    /\ landed' = landed \cup {New}
    /\ UNCHANGED <<tip, work, index, push, ci, verified, bypasses, published, calm>>

Next ==
    \/ \E content \in Contents : CommitWork(content)
    \/ \E tree \in Trees : MergeMain(tree) \/ OtherMerge(tree)
    \/ \E tree \in Trees, where \in {"work", "index"} : Edit(tree, where)
    \/ Restore \/ FreshBranch
    \/ \E spec \in Specs, asks \in BOOLEAN : PushBegin(spec, asks)
    \/ Hook \/ Layout \/ PrivacyFiles \/ PrivacyIndex \/ Media
    \/ SecretsFiles \/ SecretsIndex \/ History \/ GateEnd
    \/ Upload \/ Bypass
    \/ CheckBegin \/ CheckEnd \/ Squash \/ Rebase

Spec == Init /\ [][Next]_vars

(***************************************************************************)
(* Properties.                                                             *)
(***************************************************************************)
\* While every push goes through the hook, the tree and the metadata of every
\* commit a push ever brings are clean, the ones whose content a later
\* commit removed included: whatever moved on the remote during the hook, and
\* whatever was edited locally, the ranges scanned leave no commit out.
\* (validate_publication_history.py, validate; .githooks/pre-push)
PublishedIsClean ==
    bypasses = 0 =>
        \A c \in published : TreeIsClean(Tree(c)) /\ commits[c].meta = "plain"

\* A tip let out by the gate satisfies the rules of the working tree even when
\* the tree or the index changed once while the gate looked at them.
\* (pre-push-security.sh; validate_repository.py, main)
OneEditHidesNothing == \A c \in calm : TreeIsLawful(Tree(c))

\* Every commit on main has a clean tree, the ones inside a landed range included,
\* and each tip main has had is lawful as a whole: although a branch may be pushed
\* around the hook and main moves during a check, neither a squash nor a rebase
\* makes a tree that was not scanned, no two changes lawful alone collide or pass a
\* ceiling together, and no two texts are joined unseen.
\* (validate_publication_history.py, main; platform_release_contract.py,
\* _linear_commits; verify-pull-request-merge-base.sh)
MainIsClean ==
    /\ \A c \in Past(remote.main) : TreeIsClean(Tree(c))
    /\ \A c \in landed : TreeIsLawful(Tree(c))
=============================================================================
