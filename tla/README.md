# A verification of website-infrastructure

TLA+ models of the stateful parts of this repository, their TLC runs and their
TLAPS proofs. The repository runs a single-owner Kubernetes platform on a
Raspberry Pi: bash and Python tools that change one remote host, a cluster and
a release ledger, and gates that decide what may be published, merged or
released. The first promise is that an interruption anywhere can be recovered
from, the second that a verdict is true of what it was given on, although that
is read piece by piece while others change it. The models are about both.

## The system

| Component | State it keeps | Operations | Hard behaviour |
|---|---|---|---|
| Result documents (`ig_immutable_document`, `atomic_receipt`) | a name, its temporary, the inode behind them | write, sync, link, sync, unlink, sync; retry; discard | kill or power loss between any two calls |
| Ingress guard loader (`load-ingress-guard.sh`, guard unit) | nftables table, load journal, load receipts, unit state | classify, apply, verify, publish, roll back | interrupted loads, foreign tables, recovery at the same time |
| Ingress guard transactions (`install-`, `retrofit-`, `recover-ingress-guard.sh`) | journal, receipts, managed files, systemd, kubelet, lock | offline install, retrofit, closure after a reboot, recovery | lock released to the loader, kills, reboots, several shells |
| Ingress guard custody (`custody-ingress-guard.sh`) | custody directory, receipt | stage, verify, launch | crash between rename and receipt |
| Host prerequisites (`bootstrap/pi/host-prerequisites`) | three files, modules, sysctls, swap, pending and active records, backups | apply, ERR-trap rollback, rollback, verify | reboot in the middle, sysctls that exist only after modprobe |
| Etcd snapshots (`etcd-snapshot.sh`, timer) | snapshots and partials in a directory, lock | save, verify, rename, retain 14 | kills, clock steps, overlapping runs |
| Platform releases (`publish-platform-release.sh`, wait, contract, epochs) | tags, drafts, releases, run records | wait for predecessor, tag, draft, upload, publish, read back | racing sources, kills, reruns, edits of pending fragments |
| Release recovery (`platform_release_recovery.py`) | the same, and a frozen backlog | prepare, verify, publish one edge | main moves, other publishers, kills |
| Settings proof (`observe_live_settings`) | nine responses | read, validate, emit a receipt | settings change between reads |
| Ready check (`ready_check.py`) | five responses | read, decide | pushes, reruns, objections between reads |
| Private input readers (ten validators) | one open file | look, open, fstat, read, compare again | rewrites, replacements, restored times |
| Protected host contract | contract, evidence, archive, mount table, units | emit binding, check | changes between looks, reboots, aliases |
| Publication gate (hook, history validator, pull-request check) | commits, index, working tree, remote refs | scan, push, check, merge | moving remote, edits during the gate, stale checks |
| Application release gate (`release-gate.sh`, `validate_repository.py`) | the release tree in Git | classify, check, render | edits between reads, sequences of pull requests |
| Cloudflared host binary | one binary, its backup | install, roll back | destination drift |
| Kubernetes host installation, control plane, encryption at rest | packages, sshd drop-ins, kubeadm output | provision once | partial runs |
| Flux controllers install (`install-flux-controllers.sh`) | objects of one attempt in the API server, ledger | create by phase, harvest, preconditioned delete | lost responses, concurrent owners, signals |
| Other validators, probes, CI, policies, manifests | none that outlives a run | read-only checks | none |

Interactions. The loader is a systemd unit that kubelet requires through a
drop-in; the installing script starts it, waits for it, and shares with it the
global lock, so it must let go of the lock meanwhile. Recovery works on the
transaction journal *and* on the loader's journal and table. All of them write
their results through the immutable-document protocol. Host prerequisites and
etcd snapshots have locks and records of their own and share nothing with the
guard. A pull request passes the publication gate and the release gate, and the
ready check reads what they and the reviewers left on GitHub; its merge starts
CI, CI starts a publisher, publishers of different sources meet in the tag
ledger, and a recovery dispatch runs the same publisher over older edges. The
settings proof is a precondition of every publication. The readers of private
inputs are what the host contract, the release state and the guard's validators
begin with.

What makes each correct: a document is complete or absent and never changes; a
closed journal has the receipt it names, a rollback receipt and a PASS receipt
exclude each other, and the host is what the receipt says; the unit is active
only with its table loaded; a host with changed prerequisites has a record from
which it can be restored; retention removes only what is beyond the newest;
releases are one append-only history in which every edge is proven; a verdict
over several reads was true at one moment; nothing private reaches the remote
through the hook, or main at all; main never runs a release by itself.

`PROJECT.json` lists every component with its sources and the reason where one
is not modelled, the hazards with the line where each bites, and the source
lines every definition translates.

## The modules

| Module | Models | State and actions |
|---|---|---|
| `WriteOnce` | what a result document promises | `value`, `settled`; `Publish`, `Settle`, `Lose` |
| `ImmutableDocument` | `ig_immutable_document` (transaction-lib.sh), also `atomic_receipt` | `listing` and `disk` are the directory as seen and the states a power loss may return to; `syscall` is the next call, one action for each; `Kill`, `PowerLoss`. Implements `WriteOnce` (`IsWriteOnce`) |
| `GuardLoader` | the loader, its EXIT trap, and recovery's work on the load journal | `pc`, `shell` are the loader's variables; `rpc` the recovery; one action per call that changes or classifies state; `Fail`, `Kill`, `Reboot`, `Tamper` |
| `GuardTransaction` | install, retrofit, closure, recovery | a script is a sequence of instructions (`Program`), a shell its position and `IG_*` variables; the loader and each document write are one step, which the two modules above justify |
| `HostPrerequisites` | apply, its ERR trap, rollback, post-apply verification | as above, over files, modules, two groups of sysctls and swap |
| `EtcdSnapshot` | `etcd-snapshot.sh --apply` | `files`, `partials` and the last committed `disk`; one action per command |
| `ReleaseHistory` | what platform releases promise | `chain`, `history`; `Grow`, and a release of the next source |
| `ReleaseLedger` | the tag ledger of `platform_release_contract.py` | functions of main and the tags: the window of a source, its fragment, its notes |
| `ReleaseEpochs` | `platform_release_epoch.py` | functions of a version: names, identities, executors |
| `ReleaseRecords` | release, draft, asset and run records and their verdicts | functions of what GitHub returns |
| `ReleasePublication` | platform-release.yml, the predecessor wait, the publisher; pull requests and push CI around them | `main`, `tags`, `releases`, `setting`, run `records`; `run` is each publisher's place in the script; one action per read or write of GitHub; `Kill`, `Rerun`, `Timeout`, `ToggleSetting`, `OwnerDraft`. Implements `ReleaseHistory` |
| `ReleaseRecovery` | the recovery workflow around the same publisher | extends `ReleasePublication` with dispatches: `StartDispatch`, `Begin`, `Prepare`, `Verify`, `Reverify` |
| `RepositorySettings` | `observe_live_settings` and the validators of its receipt | `settings` live, `responses` so far; one `Get` for each endpoint |
| `ReadyCheck` | `ready_check.py`, what it takes of `validate_review_receipt.py` | `pull`, `behind`, `runs`, `comments` live, `read` so far; one `ReadyGet` for each request |
| `StableReads` | the ten readers of a file that others may change | a reader is a `Profile` of what it compares; one action per system call; others write, restore times, change modes, replace, move |
| `ArchiveMounts` | the mount table checks of the protected host | functions of a mount table, against path resolution |
| `ProtectedHost` | `--emit-bindings` and `--check-live` | `stage` of the check, `have` so far; one action per look; the host changes between them |
| `PublishedTree` | the history validator and the repository validator | functions of a range of commits, of a tree and of the index |
| `PrFlow` | `validate_pr_flow.py` | functions of a branch name and a refspec |
| `Publication` | pre-push hook, gate, upload, pull-request check, merges | commits and refs, `push` and `ci` are the hook and the check at work |
| `ReleaseActivation` | the classifier and the checks over the release tree, `release-gate.sh`, the pull-request lane | `work` and `main` are trees, `seen` what the local gate has read |
| `FileProofs` (documents, readers, protected host), `GuardLoaderProofs`, `GuardTransactionProofs`, `HostPrerequisitesProofs`, `EtcdSnapshotProofs`, `PublicationProofs`, `GateProofs` (release tree, settings, ready check), `ReleaseProofs` | | theorems |
| `MC...` | | instances for TLC |

A receipt in `GuardLoader` has the four states `ImmutableDocument` leaves at a
path (absent, temp, linked, published). The reads of the contract and of the
evidence are single steps in `ProtectedHost` because `StableReads` is about
them. `ReleaseRecovery` adds its jobs to the publisher's actions, so the code
both share is modelled once. A definition called a "mutant" in its comment is a
plausible mistake in the definition it stands before; nothing refers to it, and
replacing the definition by it must break a property.

Two modules that share no state are sometimes checked in one instance as a
sum, in which a behaviour follows one of them while the other stays at its
beginning: the two commands that judge GitHub (`MCGitHubReads`), the file
readers and the host check (`MCPrivateInputs`).

## The runs

| Run | Question | Result |
|---|---|---|
| `MCImmutableDocument` | interrupted writes and retries | `LeftoversAreSafe` and the refinement `IsWriteOnce` hold |
| `MCGuardLoader` | do table, unit, journal and receipts agree; does the guard load in the end? | `ReceiptsAgree`, `TableAgrees`, `ClosedIsFinal`, `GuardLoads` hold |
| `MCGuardTransaction` | both modes, any prestate; one shell with three mishaps, or two shells with one | prestate and kubelet are safe in both cases; with one shell what a closed transaction claims holds and `TransactionEnds` |
| `MCGuardTransactionPass` | can a rolled-back attempt get a PASS receipt? | yes, when another shell recovers it while the lock is released (violation) |
| `MCHostPrerequisites` | two shells, two transactions, two mishaps | records, captured sysctls and `PendingEnds` hold |
| `MCEtcdSnapshot` | timer and operator, two mishaps, moving clock | retention is right, and an undisturbed run passes (`UndisturbedRunsPass`) unless its name is taken or a kill left a partial |
| `MCReleasePublication` | publishers racing, killed and rerun while main grows and a fragment is edited | one proven ledger that implements `ReleaseHistory`; attempts end; undisturbed sources are released |
| `MCReleaseRecovery` | dispatches over a backlog of two edges, two moves of main, one kill | the oldest edge first, executors ascend, an undisturbed dispatch releases its edge |
| `MCGitHubReads` | settings and pull requests that change between the reads | exact at rest, safe against one change; no objection is overtaken |
| `MCPrivateInputs` | ten readers and the host check against changing files, mounts and boots | what is accepted was so, refusals have causes, the binding is of the archive at one instant |
| `MCPublication` | the way of a commit to main, around the hook and with texts that git merges | clean through the hook, every commit of main clean |
| `MCReleaseActivation` | edits, gates and merges of the release tree | main stays inert and bound to its evidence; verdicts are earned |

Bounds, and why they are enough:

- `ImmutableDocument`: two payloads (a retry with the same fields, one with
  others) and three inodes (published, left over, being written). Kills and
  power losses are not bounded. The proofs cover the rest.
- `GuardLoader`: four attempts and three mishaps: an interrupted load, an
  interrupted rollback of it, and one failure in the load that follows. Each
  mishap can be followed by a load of its own. `Foreign = TRUE` adds another
  nftables client. The safety properties are proved for all bounds.
- `GuardTransaction`: two attempts, as what one leaves is all the next can see.
  Three mishaps fit a failure, an interrupted recovery and a reboot.
  One run has behaviours with one shell (`Alone`) and with two, as Init chooses;
  the second may fail only once (`MaxSharedMishaps`), enough for a refused
  recovery, a lock that is not had back in time and a kill. `PassIsBinding`,
  `ClosedIsFinal` and `TransactionEnds` are stated for one shell: a recovery by
  the other in the window in which the lock is free breaks them, which is the
  subject of `MCGuardTransactionPass` (no mishap at all), and two shells that
  recover in turn can keep the lock from the loader. The safety properties are
  proved for all bounds.
- `HostPrerequisites`: two transactions and two shells for the stale reference;
  two mishaps for a failure followed by a reboot, or a kill of the rollback.
  The safety properties are proved for all bounds.
- `EtcdSnapshot`: `Keep = 2` stands for 14, with five clock values there is
  room for two snapshots beyond it; two mishaps leave two surplus snapshots or a
  partial and a clock step. The properties are proved for all bounds.
- `ReleasePublication`: `MaxMain = 3` and `MaxVersion = 3`: the migration floor
  and two sources, the least that race for a version and wait for each other;
  two fragments with two texts each, so that one can be edited; two attempts of
  a run; one disturbance of five kinds, at any moment. Editing a fragment,
  merging and delivering an event late are not disturbances and not bounded.
  The safety properties and the steps of the refinement are proved for all bounds.
- `ReleaseRecovery`: the floor, two frozen sources, the repair and one more
  source (`MaxMain = 5`), two dispatches, one kill. The safety properties are
  proved for all bounds and every backlog that `FrozenAssumption` describes.
- `GitHubReads`: three changes of the settings and two of the pull request: the
  properties speak of one change during the reads, the others come before and
  make the state it starts from. Two heads, two bodies, a page of three check
  runs.
- `PrivateInputs`: three changes during a read of two blocks (a rewrite, a
  restored time and a replacement, in any order); two entries in the archive,
  nine mounts that alias it, hide it or do neither; paths of up to three names. The properties
  are proved for all bounds and paths.
- `Publication`: four commits, one edit during the gate, one push around the
  hook; eight files, chosen so that every rule that needs two files or two
  commits is met: three versions of one text, two of which git joins to a text
  that no scan would let pass, two spellings of another name, one blob at two
  paths, a path and a message that only history can hold, trees and totals at
  their ceilings.
- `ReleaseActivation`: four edits: two connectors and a release can be changed,
  and one edit is left for the gate under way. Everything the run checks is
  proved for all bounds, from two connectors on (the code has three).
- `CHECK_DEADLOCK FALSE` where attempts, commits or changes run out: then the
  model has nothing more to begin, as an idle host or a quiet repository.

Fairness. `GuardLoader` assumes that a started loader runs on (systemd), that a
started recovery does, and that the unit is started again: boots and kubelet's
requirement do so. `GuardTransaction` and `HostPrerequisites` assume that
scripts run on and that the operator repeats the recovery of an open
transaction, which is the instruction their failure messages print.
`ReleasePublication` and `ReleaseRecovery` assume one thing of GitHub Actions:
while some job can go on, some job does (`WF_vars(Platform)`); that one of
them always does is enough because every attempt is finite. People owe nothing:
merges, reruns, toggles and dispatches are never fair. Mishaps are bounded and
never fair: liveness says what happens once they stop. The other models state
no liveness: their programs only read, and end by their shape.

The liveness properties name the states in which the code really stops, rather
than assuming them away: a half-published PASS receipt or a foreign table for
`GuardLoads`; a failed unit, a kubelet started under an offline transaction, or no unit file
for the recovery to disable, for `TransactionEnds`; a module or a swap that a reboot changed for
`PendingEnds`; a fragment edited while its source waits, or a run that was bound to
a newer main, for `UndisturbedIsReleased`; a draft that already holds an asset,
or main moving during the dispatch, for `DispatchRecovers`.

Further statements of the repository that the code does not keep were met while
modelling. Their counterexamples are kept as instances that are not part of the
routine runs; each is violated:

| Instance | Statement | What happens |
|---|---|---|
| `MCImmutableDocumentAck` (`AckedDurable`) | operations.md:57-58, a receipt "is made durable" | a call is killed after the link, the next after its unlink; a third finds the destination and returns success without a sync, so a power loss can lose what it acknowledged |
| `MCGuardLoaderRefuted` (`LoaderReconciles`) | operations.md:240-245, recovery "reconciles the exact immutable result" | a PASS receipt with two links is refused by the loader's own check at every start |
| `MCGuardLoaderRefuted` (`FailedLoadLeavesNoTable`; TLC's `-continue` reports both) | load-ingress-guard.sh:260-261, any failure "deletes the exact owned table" | `rollback_running` of an earlier rollback makes the trap return at once |
| `MCGuardTransactionFailed` (`FailureRollsBack`) | operations.md:166, any ordinary failure "enters the same recovery transaction" | recovery requires a unit inactive that stays failed |
| `MCGuardTransactionFailed` (`EarlyFailureRollsBack`; TLC's `-continue` reports both) | the same sentence | an install dies before it has written the unit file, or a recovery after it removed it; `systemctl disable` of a unit without a file fails, and every recovery dies at recover-ingress-guard.sh:248-251 (the `systemctl` of the tests always disables) |
| `MCPrivateInputs` with `EveryAliasIsRejected` as its invariant | validate_protected_host_contract.py:748, "reject every visible archive alias" | a directory above the archive's mount is mounted over; the code selects the deepest record, the kernel resolves to the later one, and another path leads to what it shows |
| `MCHostPrerequisitesNatural` (`NaturalValuesRemain`) | lib.sh:818, "their natural loaded values remain until reboot" | a reboot between install and capture has loaded the new values |
| `MCGitHubReadsOneMoment` (`ReceiptIsLiveState`) | platform_release_contract.py:1977, a receipt "only for exact live state" | two changes between the reads make a receipt of a state that never was |
| `MCGitHubReadsOneMoment` (`VerdictIsOneMoment`; TLC's `-continue` reports both) | ready_check.py:9, "What it proves is exactly" | three changes between the reads make one of a moment that never was |
| `MCReleaseActivationEvidence` (`EvidenceIsBound`) | validate_repository.py:2652-2657, an edited evidence document must not pass the gate | once both connectors are configured the plan is a transition with nothing active, which returns before the capacity checks |

`RolledBackIsPrestate` and `KubeletGuarded` hold across the race of
`MCGuardTransactionPass`: `MCGuardTransaction` has it with one mishap.

Facts left as remarks: a snapshot run ended by SIGKILL or a power loss leaves
its partial, after which every later run refuses the directory, and one
interrupted after its rename leaves the promoted snapshot, both against
`docs/assurance/phase-e-recovery-validation.md:32-34`; a dispatch killed after
its first asset upload leaves a draft every later dispatch refuses, and main
moving between the last boundary and the publish request leaves a published
release whose publisher failed; main moving before the event of a source is
delivered makes that source's run refuse it; with the modification time put
back, the readers that do not compare change times accept a torn file
(`TimesDeceive`); a directory above that of the file may be moved away and back
between a reader's two fstats, which changes nothing that is compared, so the
path is vouched for only by the walk that comes after them (`PathHeld`); the clock of a file system may stamp two changes alike, and
`FineClock = FALSE` then breaks `AcceptedIsTrue`; a rebase merge replays trees
onto another base, and git may join two texts to one that nobody scanned: what
keeps main clean is that the release transition wants a range without merges
(`_linear_commits`, and github-controls.md:87-88), so each commit is replayed on
the tree it was made on; with merges of main allowed in a branch (the mutant
`DescendsFrom`), `MainIsClean` is violated;
the release lane of the activation gate cannot be reached, as the parent loader
always answers suspended and the bootstrap check requires the sentinel that the
release check refuses.

## The proofs

`FileProofs`, the documents: for any payloads, files, kills and power losses,
`TypeOK`, `LeftoversAreSafe` and the refinement of `WriteOnce`.
None is inductive. `DocumentInv` adds which names exist at each step of a
call (`Control`), that every state the directory may fall back to names the
running system's destination or none, always with complete and synced content
(`DiskStates`), and that a settled name is in each of them (`Settled`). The
refinement follows step by step from `DocumentInv`: `Link` publishes, the directory
syncs settle, `PowerLoss` loses what is not settled, all else stutters.

`GuardLoaderProofs`: for any attempts and mishaps, `TypeOK`, `ClosedIsFinal` and
the invariants that make up `ReceiptsAgree` and `TableAgrees`. `IInv` is built
along one argument: the lock
separates loader and recovery (`Locking`), so the attempt a loader works on is
the journal's (`Current`); a PASS receipt is visible only under a commit intent,
and from there every path reconciles it (`PassPath`); receipts are written before
the phase that names them (`ReceiptFirst`); the table is live only between an
apply intent and a proven absence (`TablePath`); a closed attempt is closed again
only the same way (`FinalPath`, for `ClosedIsFinal`). `StepInv` has one step for
each action and under it one for each conjunct.

`GuardTransactionProofs`: for any shells, attempts and mishaps, `TypeOK`,
`RolledBackIsPrestate` and `KubeletGuarded`; with one shell `PassIsBinding` and
`ClosedIsFinal`. A script works only under the lock except while it waits for the
loader (`Holding`), and the journal it read is the journal on disk until it comes
back (`Current`, `Phased`). What makes a rollback to the recorded prestate right
after any sequence of transactions is `Rooted`: a transaction starts where nothing
is recorded or the last one was closed, so one prestate stands behind all of them,
nothing of it is ever taken away, and `Undone` says what of the rest a recovery
has removed at each instruction, up to `Restored`. `Verifying` and `Dependent` are
the same bookkeeping for kubelet: after the guard was verified, no instruction of
the script undoes it. With two shells a recovery can overtake a script that waits
for the loader, so the second part assumes `Solo`: the journal is then known
across the wait too (`Own`), an attempt's receipts follow its phases (`Drawn`,
`Claimed`, `Recording`), a PASS is published only by a script that found the guard
in place (`Laid`) and nothing takes it away (`Keeping`). `Alone`, which is stated
with a cardinality, is shown to be `Solo`.

`HostPrerequisitesProofs`: for any shells, attempts and mishaps, `TypeOK`,
`RecordsHold` and `BridgeRestored`. Apply starts only where nothing is recorded,
and there the host is the one that was found; hence every backup is of that host,
and a rollback restores it even when it is the stale request of a transaction that
is long over (`OneOriginal`). `BridgeRestored` has no such fixed value to rest on,
as a boot changes the net.bridge sysctls and a transaction may not have captured
them: `Bridged` says that the transactions that still matter in a boot (recorded,
begun in it, or held by a shell, a request without the lock included) agree about
them.

`EtcdSnapshotProofs`: for any retention, processes, clock and number of mishaps,
`TypeOK` and the properties of `MCEtcdSnapshot`. The properties speak of
single moments or steps; that they hold rests on a listing made several steps
before a removal. `IInv` says that the lock leaves one run at a time (`Holding`),
where the one partial may come from (`OnePartial`, `Owned`), and what the listing
of the running process is worth (`Pruning`): every listed snapshot is there and
has `Keep` later ones, the rest are at least one and at most `Keep`. `RunsPass` goes
through the places at which a run can end without a mishap of that step: without
a kill a partial is always that of the running process (`Owned`), so only a kill
can make the first check fail. Removing the
newest of the list preserves it (`LaterAfterRemoval`): the snapshots later than
the one removed stay, and are later than every older one too.

`FileProofs`, the readers: for any of them and any number of changes,
`ReadsTypeOK` and `RefusedForCause`; on a file system that stamps no two changes
alike (`FineClock`) also `AcceptedIsTrue` and `HeldThroughout`. What the ten
profiles have in common, and the properties rest on, is `Sound`
(`ProfilesAreSound`): whoever compares at all compares as much after the read
as on its way there. No stamp is ahead of the clock (`TimesPast`), so the next
change gets a new one, and a state that was seen is still the file's
while one of its stamps is (`Kept`): the bytes read follow the states compared
(`BytesKept`), and what went wrong at the path meanwhile is still there to be
seen (`BreachShows`, `NotBroken`). `RefusedForCause` needs no clock: `CalmFiles`
and `CalmReader` follow a file that nobody touches through each profile.

`FileProofs`, the protected host: for any archive, mounts and number of
changes, `ArchiveIsBound` and `UndisturbedVerdict`. The witness of
`BindingIsOneInstant` is the state in which the second look at the entries began:
`Instant` says that an entry that is as it was seen has not changed since, nor
has the directory's list while its stamp is the same. That an accepted mount
table shows the archive at no other path, if the kernel resolves the archive to
the mount of the accepted record, is proved of every path and every table
(`RecordHasNoAlias`, `NoOtherName`), from lemmas about prefixes of paths: a walk
ends in a mount that lies on the path (`SeenContains`). `Found` is what a check must hold at each stage if nothing has changed
since it began; there each call fails exactly when the host is not right.

`GateProofs`, the release gates: for any connectors, namespaces, evidence and
number of edits, `MainStaysInert` and `ScaffoldBindsEvidence`. A tree reaches main only
through the pull request's checks, which read one commit (`CommitReads`); a plan
that is not unsafe is of a suspended release with closed inventory whose
connectors are configured together (`SafePlanIsInert`), a scaffold's plan passes
only with bound evidence (`PassingPlan`), and so does every accepted tree
(`AcceptedIsInert`). What the checks say of a tree is thereby proved of every
sequence of merges.

The same module proves `VerdictIsEarned`, of the local gate as it reads a tree
that moves. The checks of one commit accept exactly the trees that are `Fit`,
a definition that calls none of them (`SoundIsFit`). `EarnedInv` says what has
been shown on the way to each read (`Shown`): over a resting tree, of that tree;
after one edit, of it or the tree before (`ShownOfMore`). An edit changes one
part of the tree (`OnePart`), so of the trees the gate read its parts from, one
has all of them (`PassedIsFit`). That needs two connectors: of a single one an
edit turns "all configured" into "none configured", the activation check reads
the tree before it, the renderer the tree after it, and a tree whose evidence was
never bound passes as a scaffold. TLC shows it for one connector. `Typed` gives `TypeOK`.

`GateProofs`, the repository settings: for any number of changes,
`SettingsTypeOK` and `ReceiptIsEarned`. What the nine endpoints answer is a
function of the settings and, for a ruleset's record, of the summaries already
received (`ResponseOf`). `AtRest` and `AfterOne` say which settings gave the
answers so far: the present ones, or after one change the old ones up to some
point and the present ones since (`Accounts`). What the validators accept is
reduced to the documented controls and the documented rulesets under the
selected ids (`BuildMeans`), and nine answers of one world pass exactly when it
is `Exact` (`OneWorldVerdict`). A change of any other control shows in one
answer only, so all nine are of the old world or of the new one
(`OneChangeVerdict`). A ruleset is read twice. If its summary is old and its
record new, it was edited in place, as a new one has a new id; then the record
that passed is of the ruleset that has taken its place, and the new settings are
exact whatever the summary said (`MixedVerdict`).

`GateProofs`, the ready check: for any heads, descriptions, required checks and
number of changes, `ReadyTypeOK`, `EligibleIsEarned` and `NoStandingObjection`.
The decision on four answers is the documented rule on them
(`DecisionIsTheRule`, where the counts of check runs become "exactly one run,
and that a success of its own app"). Each thing is read once. Hence after one
change some world explains all answers and agrees with the present on what is
still to be read (`Explains`, `OneChange`): the one before the change or the one
after it, each recorded if it was eligible. `NoStandingObjection` needs no bound
on the changes: the comments are the last read, and the verdict is given in
that step.

`ReleaseProofs`: for any commits, attempts, dispatches and disturbances, and
both for the publishers alone (`Spec`) and with the recovery beside them
(`RecoverySpec`): `TypeOK`, `LedgerIsProven`, `OneRecordPerSource` and
`SuccessIsReleased`; of the recovery `SelectionStaysOldest` and
`ExecutorsAscend`; the refinement of `ReleaseHistory` (`HistoryIsRefined` where
main starts as one commit, its steps from any backlog); and `Evolves`: no step
takes back a commit, a tag, a CI success, a completed attempt or a published
release. One invariant, `Inv`, carries all of them. Every property speaks of
records that several runs write, and what a run checked is a request old when
it writes; so `RunOK` says what still holds at each place of the script: a
bound run's edge lies in the ledger of now (`EdgeOK`), its notes are that
edge's (`NotesOK`), one that is about to create a draft has none yet
(`FreshOK`), one that holds a draft holds the record it last wrote (`HoldOK`),
a dispatch's edge is still the oldest (`SelectedOK`).

The argument runs in two parts. Every step only adds (`Evolves`), so what was
proven once stays proven (`OwedStays`, `ProvenStays`, `ReleasedStays`), and all that
a step must establish is what it adds (`StepKind` reduces the thirty-odd
actions to ten kinds). Two runs never work on one edge: ordinary runs have a
source each (`EdgeOK`), and the group admits one dispatch (`GroupInv`). What a
publication adds stands over its boundary (`BoundaryProves`): the tag is exact
and the predecessor released, and because released versions are always a
prefix (`PrefixInv`, which is `PublishedInv` closed downwards), all before it
are. An attempt that succeeds is what makes a version released, one at a time
(`PrefixGrowsByOne`), and that is the step of `ReleaseHistory`. The executors
ascend because a dispatch publishes only while its executor is the tip of main,
which never goes back.

`PublicationProofs`: for any trees and contents, commits, edits and pushes
around the hook, `TypeOK`, `PublishedIsClean`, `OneEditHidesNothing` and
`MainIsClean`. The past of a commit is the least set that has it and all parents
(`PastIsLeast`, from the recursive function that computes it), so a new commit
changes no old one's past (`PastStays`), and what is known of commits stays known
while any others are made (`ExtensionIsRight`). `PublicationInv` says three things
that no single step does:

- what a push leaves out of its range was published or is on main
  (`NothingUnseen`), because the baseline is either what the remote's branch
  held when the push began, and the upload is refused when that has moved, or a
  commit of main, which only grows (`UploadBringsScanned`);
- the looks of one gate speak of one tree as long as no edit was made, and after
  one edit the tree or the index differs from the tip, which the comparison at
  the end sees (`Watched`);
- a head that passed was scanned, without merges in its range, from a commit
  that is on main (`Verifying`). If that commit is not the present main, GitHub's
  strict policy still asks the head to hold main, and the head's range since the
  older commit is the larger one (`MergeableIsScanned`).

So a head that is merged holds main. Of the three versions of each path that
git then compares two are the same, and the merge takes the third, whatever
`TextMerge` is (`MergeOfOneSide`). A squash lands the head's own tree
(`HeadHoldsBase`). A rebase replays a chain that begins at main (`RangeIsChain`:
a range without merges whose every parent is in the head's past): the parent of
each commit is the one replayed before it (`ReplayFollows`), by induction each
lands with the tree it was scanned with (`ReplayedTreesStand`), and the last is
the head's (`HeadIsLast`).

Assumptions are those on the constants (`None` is not an attempt, an inode, a
payload, a process, a shell, a name, a journal or a backup; the shells are
finitely many; `Keep` is at least one; the epochs follow one another and the
backlog is a chain of one-fragment edges from the floor that have landed, which
is what the frozen policy in `platform_release_epoch.py` records; there are two connectors; the required
checks are finitely many; a reader has a profile; mounts are finitely many, with ids of their own and sequences of names
as paths; a tree has one file at each path, what an author commits is one of the trees, and main starts with a lawful one;
bounds are natural numbers), stated in the modules and evaluated by TLC. Every conjunct of an
inductive invariant was checked by TLC on an instance before it was proved.

Only model-checked: every liveness property (`GuardLoads`, `TransactionEnds`,
`PendingEnds`, `AttemptsEnd`, `UndisturbedIsReleased`, `DispatchRecovers`), as the
proof system has no rules for liveness under fairness or `ENABLED`. That
`GuardTransaction` may treat the loader and a document write as one step is
argued from what the two modules promise, and not proved. Type invariants say
nothing about the code beyond what the other properties rest on; where one is
missing from a configuration it is proved.

## Not modelled

- `--check` and `--verify` modes, which change nothing; formats, hashes, owners
  and modes of files, which the scripts compare with values that do not change
  during a run; the packet semantics of the guard's rules; half-written targets
  of `install(1)`.
- Releases: the publisher paths of the first three epochs, whose edges are the
  frozen ledger the model begins with; the two edges the scripts name as burned
  or legacy; the receipt of app provisioning; the command-line parsers. A
  recovery dispatch is never rerun: its jobs require attempt 1.
- GitHub: a listing of several pages is one read; search indexes and caches are
  taken to be current.
- Release gate: the live probes behind the release lane, which no tree reaches;
  of `validate_repository.py all` only the checks that decide about the
  release, the capacity evidence, the layout, secrets, privacy and media.
- The host check: the owner and the age of the evidence file itself, which can
  only refuse; a contract that says it is absent; which of several mounts
  `findmnt` itself selects. Host
  prerequisites: the pending record is made in one step, where the script
  creates the file and then writes the name in it.
- Publication: one work branch at a time, and GitHub's update of a branch that
  the owner may ask for; renames are a removal and an addition; of the release
  transition only the merge-free range; the layout check judges the working
  tree, where the code lists the index and untracked files and so refuses more.
- gitleaks is external and taken to find nothing the two scanners miss.
- The components without a module are listed in `PROJECT.json` with the reason.

## The plan

Done, in order of what an error would cost: documents, loader, transactions, host
prerequisites, snapshots; releases, their recovery and history; the gates and the
commands that judge by several reads; proofs of every safety property the runs
check. Next:

1. `FluxInstall`: the attempt-bound create transaction, its harvested ledger and
   preconditioned rollback against an API server with lost responses, concurrent
   owners and a second signal. Properties: no foreign object is ever deleted; a
   failed transaction that reports completion left nothing of its own; a lost
   create is found again. With an abstract ledger that it implements.
2. `GuardCustody`: the staged copy, its rename and receipt; half-written files.
3. The protected host together with the readers of its inputs, as one
   composition instead of a sum.
