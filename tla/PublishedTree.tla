---------------------------- MODULE PublishedTree ----------------------------
(***************************************************************************)
(* The two scanners between a commit and the public: the history validator *)
(* walks every commit of a range, the repository validator looks at the    *)
(* working tree and at the index.  Files are abstracted to what a rule can *)
(* tell apart: a folded name and its spelling, the class of the path, the  *)
(* suffix, the Git mode, the blob, its size in blocks and the marks a      *)
(* detector would find in its bytes.                                       *)
(***************************************************************************)
EXTENDS Naturals, FiniteSets, FiniteSetsExt

CONSTANTS
    MaxOutgoing,     \* commits of one range
    MaxBlob,         \* blocks of one blob
    MaxTree,         \* blocks of one tree
    MaxUnique,       \* blocks of the distinct blobs of a range
    MaxAsset,        \* blocks of one asset
    MaxAssetTree     \* blocks of the assets of a tree

ASSUME CeilingsAssumption ==
    {MaxOutgoing, MaxBlob, MaxTree, MaxUnique, MaxAsset, MaxAssetTree} \subseteq Nat \ {0}

\* Marks either scanner refuses, and those only one of them does.
Signatures == {"credential", "private key", "token"}
Identities == {"workstation", "host address", "uuid", "email", "identifier"}
Marks == Signatures \cup Identities
            \cup {"plaintext key", "gitleaks allow", "noreply email", "test address",
                  "secret document", "archive", "binary", "encoded", "scrambled",
                  "media bytes", "badge text", "data uri"}
Places == {"source", "test", "manifest", "fixture manifest", "pinned example", "badge",
           "asset", "local", "dist", "old dist", "layout", "sops", "unsafe"}

File == [name : Nat, upper : BOOLEAN, place : Places, suffix : {"text", "media", "other"},
         mode : {"regular", "link", "submodule"}, oid : Nat, size : Nat, marks : SUBSET Marks]

SizeOf(fs) == MapThenSumSet(LAMBDA f : f.size, fs)

(***************************************************************************)
(* The rules of validate_publication_history.                              *)
(***************************************************************************)
_path_findings(f) == f.place \in {"unsafe", "local", "dist", "layout", "sops"}

_is_test_path(f) == f.place = "test"

\* An address of the test networks is synthetic in a test and a host elsewhere.
_allowed_ipv4(f) ==
    /\ "host address" \notin f.marks
    /\ "test address" \in f.marks => _is_test_path(f)

\* Detectors whose patterns are one mark here.
_contains_plaintext_encryption_configuration(f) == "plaintext key" \in f.marks
_contains_secret_document(f) == "secret document" \in f.marks
_has_media_magic(f) == "media bytes" \in f.marks

_text_findings(f) ==
    \/ f.marks \cap (Signatures \cup (Identities \ {"host address"})) # {}
    \/ _contains_plaintext_encryption_configuration(f)
    \/ ~_allowed_ipv4(f)

_media_magic_matches(f) == f.suffix = "media" /\ _has_media_magic(f)

_opaque_artifact_finding(f) ==
    \/ f.marks \cap {"archive", "encoded"} # {}
    \/ f.marks \cap {"binary", "scrambled"} # {} /\ ~_media_magic_matches(f)

IsMedia(f) == f.suffix = "media" \/ _has_media_magic(f)
_asset_scope(f) == f.place = "asset"

_approved_badge_violation(f) == "badge text" \notin f.marks

MediaFinding(f) ==
    /\ IsMedia(f)
    /\ IF f.place = "badge" THEN _approved_badge_violation(f)
       ELSE _asset_scope(f) => f.size > MaxAsset

EmbeddedMedia(f) == f.suffix = "text" /\ "data uri" \in f.marks

\* One example of a Secret is pinned by its path and by its bytes.
PinnedOid == 0
_is_pinned_structural_secret_example(f) == f.place = "pinned example" /\ f.oid = PinnedOid
InManifests(f) == f.place \in {"manifest", "fixture manifest", "pinned example"}

SecretFinding(f) ==
    /\ InManifests(f) /\ _contains_secret_document(f)
    /\ ~_is_pinned_structural_secret_example(f)

\* What one entry contributes, from the listing and from its bytes.
EntryFinding(f) == _path_findings(f) \/ f.mode # "regular" \/ f.size > MaxBlob
IsRead(f)       == f.mode # "submodule" /\ f.size <= MaxBlob
ContentFinding(f) ==
    \/ _text_findings(f) \/ _opaque_artifact_finding(f)
    \/ MediaFinding(f) \/ EmbeddedMedia(f) \/ SecretFinding(f)

CaseCollision(tree) == \E f, g \in tree : f # g /\ f.name = g.name

\* _parse_tree: findings of the listing, and the entries whose bytes are read.
_parse_tree(tree) ==
    [found   |-> \/ CaseCollision(tree)
                 \/ \E f \in tree : EntryFinding(f)
                 \/ SizeOf({f \in tree : f.mode # "submodule"}) > MaxTree,
     entries |-> {f \in tree : IsRead(f)}]

AssetTotal(tree) == SizeOf({f \in tree : IsMedia(f) /\ _asset_scope(f) /\ f.place # "badge"})

\* The author, the message and every header of a commit object.
Metadata == {"plain", "telling", "malformed"}

(***************************************************************************)
(* Commits: number -> [parents, tree, meta]; a parent has a lower number.  *)
(***************************************************************************)
Ancestors(commits) ==
    LET reach[c \in DOMAIN commits] ==
            {c} \cup UNION {reach[p] : p \in commits[c].parents}
    IN  reach

\* Mutant of _outgoing_commits: the candidate alone is looked at.
CandidateOnly(commits, base, candidate) == {candidate}

\* git rev-list base..candidate
_outgoing_commits(commits, base, candidate) ==
    Ancestors(commits)[candidate] \ Ancestors(commits)[base]

_commit_metadata(c) == c.meta

\* Each blob is fetched once, however many paths and commits name it.
_read_blobs(entries) ==
    SizeOf({[size |-> f.size, oid |-> f.oid] : f \in entries}) <= MaxUnique

\* What the tree of one commit contributes.
TreeFinding(tree) ==
    LET parsed == _parse_tree(tree) IN
    \/ parsed.found
    \/ \E f \in parsed.entries : ContentFinding(f)
    \/ AssetTotal(parsed.entries) > MaxAssetTree

Findings(commits, range) ==
    \E c \in range : _commit_metadata(commits[c]) = "telling" \/ TreeFinding(commits[c].tree)

validate(commits, base, candidate) ==
    LET range   == _outgoing_commits(commits, base, candidate)
        entries == UNION {_parse_tree(commits[c].tree).entries : c \in range}
    IN  /\ range # {} /\ Cardinality(range) <= MaxOutgoing
        /\ \A c \in range : _commit_metadata(commits[c]) # "malformed"
        /\ _read_blobs(entries)
        /\ ~Findings(commits, range)

\* main: a push needs a baseline behind the candidate, a pull request a common past.
PassesForPush(commits, base, candidate) ==
    /\ base # candidate
    /\ base \in Ancestors(commits)[candidate]
    /\ validate(commits, base, candidate)

PassesForPullRequest(commits, base, candidate) ==
    /\ base # candidate
    /\ Ancestors(commits)[base] \cap Ancestors(commits)[candidate] # {}
    /\ validate(commits, base, candidate)

(***************************************************************************)
(* The rules of validate_repository, each over the files one look returned.*)
(***************************************************************************)
\* The code lists the index and the untracked files, so it refuses more.
check_layout(fs) == ~\E f \in fs : f.place \in {"local", "dist", "old dist", "layout"}

\* files(): paths below a local-only directory are not opened, and a link or
\* a file above the ceiling is unsafe.
Skipped(f)     == f.place \in {"local", "dist", "old dist"}
files(fs)      == {f \in fs : ~Skipped(f) /\ f.mode # "submodule"}
FilesAreSafe(fs) == \A f \in files(fs) : f.mode = "regular" /\ f.size <= MaxBlob

\* The index is listed with its modes, and read whole or not at all.
_git_index_text_documents(fs) == {f \in fs : f.mode = "regular" /\ f.size <= MaxBlob}
IndexIsSafe(fs) ==
    /\ \A f \in fs : f.mode = "regular" /\ f.size <= MaxBlob
    /\ SizeOf(fs) <= MaxTree

allowed_ipv4(f) ==
    /\ "host address" \notin f.marks
    /\ "test address" \in f.marks => f.place = "test"

contains_plaintext_encryption_configuration(f) == "plaintext key" \in f.marks

TellsSecret(f) ==
    \/ f.marks \cap (Signatures \cup {"gitleaks allow"}) # {}
    \/ contains_plaintext_encryption_configuration(f)
    \/ f.place = "manifest" /\ _contains_secret_document(f)

TellsIdentity(f) ==
    \/ f.marks \cap ((Identities \ {"host address"}) \cup {"noreply email"}) # {}
    \/ ~allowed_ipv4(f)

check_secrets(work, index) ==
    /\ FilesAreSafe(work) /\ IndexIsSafe(index)
    /\ ~\E f \in files(work) \cup _git_index_text_documents(index) : TellsSecret(f)

check_privacy(work, index) ==
    /\ FilesAreSafe(work) /\ IndexIsSafe(index)
    /\ ~\E f \in files(work) \cup _git_index_text_documents(index) : TellsIdentity(f)

approved_badge_errors(f) == "badge text" \notin f.marks

\* The platform repository has no asset tree: media is the badge or an error.
check_media(work) ==
    /\ FilesAreSafe(work)
    /\ ~\E f \in files(work) :
          \/ "archive" \in f.marks
          \/ IsMedia(f) /\ (f.place # "badge" \/ approved_badge_errors(f))
          \/ EmbeddedMedia(f)
    /\ SizeOf(files(work)) <= MaxTree

\* The verdict on a tree that is at once the working tree, the index and HEAD.
TreeIsLawful(tree) ==
    check_layout(tree) /\ check_privacy(tree, tree) /\ check_media(tree)
        /\ check_secrets(tree, tree)

=============================================================================
