------------------------------ MODULE GuardLoader ------------------------------
(***************************************************************************)
(* The boot-time loader of the SSH-only ingress guard                       *)
(* (load-ingress-guard.sh) with the load-journal routines of                *)
(* transaction-lib.sh that transaction recovery runs against the same       *)
(* journal, receipts and nftables table.                                    *)
(*                                                                         *)
(* Processes: the loader, started by systemd as the guard unit; one         *)
(* recovery process, which takes the same global lock, stops the unit,      *)
(* deletes the owned table and closes the load journal.  Environment: a     *)
(* signal or a failing command (Fail), SIGKILL (Kill), a reboot or power    *)
(* loss (Reboot), another program changing the table (Tamper).  All of      *)
(* these, and the recovery runs, are counted by `mishaps` and bounded by    *)
(* MaxMishaps.                                                             *)
(*                                                                         *)
(* Abstractions.  A receipt is one of the states ImmutableDocument leaves   *)
(* it in; the receipt hash in the journal stands for that document and is   *)
(* not kept apart.  A journal write (temporary, sync, rename, sync) is one  *)
(* step; its first sync flushes the whole file system, so a published       *)
(* receipt that the journal names is never lost.  The boot binding is       *)
(* carried but never compared by this code, so it is left out, and so are   *)
(* the checks of the loader's own files.                                   *)
(***************************************************************************)
EXTENDS Naturals, FiniteSets

CONSTANTS
  Attempts,     \* the attempt ids (random UUIDs) the loader may draw
  None,         \* no journal, no attempt, no lock holder
  MaxMishaps,   \* bound on failures, kills, reboots, changes and recoveries
  Foreign       \* whether another program may change the owned table

ASSUME AttemptAssumption == None \notin Attempts
ASSUME MishapAssumption == MaxMishaps \in Nat
ASSUME ForeignAssumption == Foreign \in BOOLEAN

VARIABLES
  table,        \* the owned nftables table, as the model validator classifies it
  unit,         \* ActiveState of the guard unit
  lock,         \* holder of global.lock
  journal,      \* load-journal.v2
  receipts,     \* load.<attempt>.<result>.receipt.v2
  used,         \* attempt ids drawn so far
  pc,           \* next step of the loader, "off" when it does not run
  context,      \* part of the loader script that runs: resume, run or exit
  attempt,      \* load_attempt_id
  phase,        \* load_phase, the loader's own copy of the journal phase
  created,      \* table_created_in_memory
  rolling,      \* rollback_running
  result,       \* the receipt the loader is writing
  rpc,          \* next step of the recovery process
  mishaps       \* failures so far

disk == <<journal, receipts, used>>
shell == <<context, attempt, phase, created, rolling, result>>
vars == <<table, unit, lock, disk, pc, shell, rpc, mishaps>>

Results == {"pass", "rollback-verified", "recovery-required"}
ClosedPhases == {"committed", "rolled-back", "recovery-required"}
OpenPhases == {"prepared", "apply-intent", "applied", "commit-intent", "rollback-intent"}
Phases == ClosedPhases \union OpenPhases
Journals == [phase : Phases, attempt : Attempts]

ASSUME NoneAssumption == None \notin {"loader", "recovery"} \union Journals

\* The phase recorded once a result's receipt is published.
PhaseOf(r) == CASE r = "pass" -> "committed"
                [] r = "rollback-verified" -> "rolled-back"
                [] r = "recovery-required" -> "recovery-required"

ResultOf(p) == CASE p = "committed" -> "pass"
                 [] p = "rolled-back" -> "rollback-verified"
                 [] p = "recovery-required" -> "recovery-required"

\* What ImmutableDocument may leave at a receipt's path: nothing, only the
\* temporary, both names of one file, or the published document.
DocStates == {"absent", "temp", "linked", "published"}

Receipt(a, r) == receipts[<<a, r>>]
Visible(a, r) == Receipt(a, r) \in {"linked", "published"}

\* One step of a call of ig_immutable_document: it restarts from a leftover
\* temporary and only unlinks the temporary of a linked document.
NextDoc(s) == CASE s = "absent" -> "temp" [] s = "temp" -> "linked" [] OTHER -> "published"

Advance(a, r) == receipts' = [receipts EXCEPT ![<<a, r>>] = NextDoc(@)]

\* ig_discard_unpublished_document_temp on the PASS receipt of attempt a.
DiscardPassTemp(a) ==
  receipts' = [receipts EXCEPT ![<<a, "pass">>] = IF @ = "temp" THEN "absent" ELSE @]

Record(p, a) == journal' = [phase |-> p, attempt |-> a]

Mishap == mishaps < MaxMishaps /\ mishaps' = mishaps + 1

--------------------------------------------------------------------------------
LoaderSteps == {"off", "lock", "resume", "capture", "prepare", "intent", "apply",
                "applied", "verify", "commit", "publish", "close", "rollback",
                "delete", "exit"}
RecoverySteps == {"idle", "reconcile", "publish pass", "record pass", "stop",
                  "table", "close", "publish rollback", "record rollback"}

Reset ==
  /\ context' = "resume"
  /\ attempt' = None
  /\ phase' = "none"
  /\ created' = "no"
  /\ rolling' = "no"
  /\ result' = "pass"

Init ==
  /\ table = "absent"
  /\ unit = "inactive"
  /\ lock = None
  /\ journal = None
  /\ receipts = [d \in Attempts \X Results |-> "absent"]
  /\ used = {}
  /\ pc = "off"
  /\ context = "resume" /\ attempt = None /\ phase = "none"
  /\ created = "no" /\ rolling = "no" /\ result = "pass"
  /\ rpc = "idle"
  /\ mishaps = 0

--------------------------------------------------------------------------------
\* The loader.

\* systemctl start, or the boot transaction.
Start ==
  /\ unit \in {"inactive", "failed"}
  /\ unit' = "activating"
  /\ pc' = "lock"
  /\ UNCHANGED <<table, lock, disk, shell, rpc, mishaps>>

\* systemctl stop: the unit has no ExecStop, the table stays.
Stop ==
  /\ unit = "active"
  /\ unit' = "inactive"
  /\ UNCHANGED <<table, lock, disk, pc, shell, rpc, mishaps>>

\* The process exits: its lock goes with its file descriptor.
End(state) ==
  /\ pc' = "off"
  /\ unit' = state
  /\ lock' = IF lock = "loader" THEN None ELSE lock
  /\ Reset

\* ig_die, or errexit, in the main script: the EXIT trap runs.
Die ==
  /\ pc' = "exit"
  /\ context' = "exit"
  /\ UNCHANGED <<attempt, phase, created, rolling, result>>

Lock ==
  /\ pc = "lock"
  /\ lock = None
  /\ lock' = "loader"
  /\ IF journal = None
       THEN pc' = "capture" /\ UNCHANGED shell
       ELSE /\ pc' = "resume"
            /\ attempt' = journal.attempt
            /\ UNCHANGED <<context, phase, created, rolling, result>>
  /\ UNCHANGED <<table, unit, disk, rpc, mishaps>>

\* flock -w 30 runs out.
LockHeld ==
  /\ pc = "lock"
  /\ lock # None
  /\ End("failed")
  /\ UNCHANGED <<table, disk, rpc, mishaps>>

\* Mutant of ResumeClosed: a prepared attempt is not recognised.
ResumeOnlyClosed ==
  /\ pc = "resume"
  /\ journal.phase \in {"committed", "rolled-back"}
  /\ Receipt(attempt, ResultOf(journal.phase)) = "published"
  /\ pc' = "capture"
  /\ UNCHANGED <<table, unit, lock, disk, shell, rpc, mishaps>>

\* A closed journal must have its receipt; an attempt that was only prepared
\* changed nothing.
ResumeClosed ==
  /\ pc = "resume"
  /\ \/ journal.phase = "prepared"
     \/ /\ journal.phase \in {"committed", "rolled-back"}
        /\ Receipt(attempt, ResultOf(journal.phase)) = "published"
  /\ pc' = "capture"
  /\ UNCHANGED <<table, unit, lock, disk, shell, rpc, mishaps>>

\* A PASS receipt is published: finish the commit, unless its temporary is
\* still linked (ig_assert_root_file wants one link).
ResumePublished ==
  /\ pc = "resume"
  /\ journal.phase = "commit-intent"
  /\ Visible(attempt, "pass")
  /\ IF Receipt(attempt, "pass") = "published"
       THEN /\ pc' = "publish"
            /\ result' = "pass"
            /\ UNCHANGED <<context, attempt, phase, created, rolling>>
       ELSE Die
  /\ UNCHANGED <<table, unit, lock, disk, rpc, mishaps>>

\* An open attempt without a PASS receipt: close it when the table is absent,
\* roll it back when the table is exactly ours, refuse a foreign one.
ResumeOpen ==
  /\ pc = "resume"
  /\ \/ journal.phase \in {"apply-intent", "applied", "rollback-intent", "recovery-required"}
     \/ journal.phase = "commit-intent" /\ ~Visible(attempt, "pass")
  /\ \/ /\ table = "absent"
        /\ pc' = "publish"
        /\ result' = "rollback-verified"
        /\ UNCHANGED <<context, attempt, phase, created, rolling>>
     \/ /\ table = "live"
        /\ pc' = "rollback"
        /\ created' = "yes"
        /\ UNCHANGED <<context, attempt, phase, rolling, result>>
     \/ table = "foreign" /\ Die
  /\ IF journal.phase = "commit-intent"
       THEN DiscardPassTemp(attempt) /\ UNCHANGED <<journal, used>>
       ELSE UNCHANGED disk
  /\ UNCHANGED <<table, unit, lock, rpc, mishaps>>

\* load_receipt_write: done when the document is published.
Publish ==
  /\ pc = "publish"
  /\ IF Receipt(attempt, result) = "published"
       THEN pc' = "close" /\ UNCHANGED receipts
       ELSE Advance(attempt, result) /\ UNCHANGED pc
  /\ UNCHANGED <<table, unit, lock, journal, used, shell, rpc, mishaps>>

\* load_journal_write of the closed phase, and what follows it in the script.
Close ==
  /\ pc = "close"
  /\ Record(PhaseOf(result), attempt)
  /\ CASE context = "resume" /\ result # "recovery-required" ->
            /\ pc' = "capture"
            /\ created' = "no"
            /\ phase' = PhaseOf(result)
            /\ UNCHANGED <<unit, lock, context, attempt, rolling, result>>
       [] context = "resume" /\ result = "recovery-required" ->
            Die /\ UNCHANGED <<unit, lock>>
       [] OTHER -> End(IF result = "pass" THEN "active" ELSE "failed")
  /\ UNCHANGED <<table, receipts, used, rpc, mishaps>>

\* The state before a new attempt: an exact live table is a finished load.
Capture ==
  /\ pc = "capture"
  /\ \/ table = "absent" /\ pc' = "prepare" /\ UNCHANGED <<unit, lock, shell>>
     \/ table = "live" /\ End("active")
     \/ table = "foreign" /\ Die /\ UNCHANGED <<unit, lock>>
  /\ UNCHANGED <<table, disk, rpc, mishaps>>

\* Mutants of Prepare: the apply intent is not recorded; a resumed attempt id
\* is used again.
PrepareWithoutIntent ==
  /\ pc = "prepare"
  /\ \E a \in Attempts \ used :
       /\ attempt' = a
       /\ used' = used \union {a}
       /\ Record("prepared", a)
  /\ phase' = "prepared"
  /\ context' = "run"
  /\ pc' = "apply"
  /\ UNCHANGED <<table, unit, lock, receipts, created, rolling, result, rpc, mishaps>>

PrepareSameAttempt ==
  /\ pc = "prepare"
  /\ \E a \in (IF attempt = None THEN Attempts \ used ELSE {attempt}) :
       /\ attempt' = a
       /\ used' = used \union {a}
       /\ Record("prepared", a)
  /\ phase' = "prepared"
  /\ context' = "run"
  /\ pc' = "intent"
  /\ UNCHANGED <<table, unit, lock, receipts, created, rolling, result, rpc, mishaps>>

Prepare ==
  /\ pc = "prepare"
  /\ \E a \in Attempts \ used :
       /\ attempt' = a
       /\ used' = used \union {a}
       /\ Record("prepared", a)
  /\ phase' = "prepared"
  /\ context' = "run"
  /\ pc' = "intent"
  /\ UNCHANGED <<table, unit, lock, receipts, created, rolling, result, rpc, mishaps>>

\* A journal write between two steps of the new attempt.
Write(from, p, to) ==
  /\ pc = from
  /\ Record(p, attempt)
  /\ phase' = p
  /\ pc' = to
  /\ UNCHANGED <<receipts, used, context, attempt, created, rolling>>

\* The rules rendered and nft -c accepted them.
Intent ==
  /\ Write("intent", "apply-intent", "apply")
  /\ UNCHANGED <<table, unit, lock, result, rpc, mishaps>>

\* nft -f is one kernel transaction.
Apply ==
  /\ pc = "apply"
  /\ table' = IF table = "absent" THEN "live" ELSE "foreign"
  /\ created' = "yes"
  /\ pc' = "applied"
  /\ UNCHANGED <<unit, lock, disk, context, attempt, phase, rolling, result, rpc, mishaps>>

\* nft -f reports failure, before or after the kernel applied the rules.
ApplyFails ==
  /\ Mishap
  /\ pc = "apply"
  /\ table' \in {table, IF table = "absent" THEN "live" ELSE "foreign"}
  /\ Die
  /\ UNCHANGED <<unit, lock, disk, rpc>>

Applied ==
  /\ Write("applied", "applied", "verify")
  /\ UNCHANGED <<table, unit, lock, result, rpc, mishaps>>

VerifyLive ==
  /\ pc = "verify"
  /\ IF table = "live" THEN pc' = "commit" /\ UNCHANGED shell ELSE Die
  /\ UNCHANGED <<table, unit, lock, disk, rpc, mishaps>>

\* Signals are ignored from here to the end of the script.
Commit ==
  /\ Write("commit", "commit-intent", "publish")
  /\ result' = "pass"
  /\ UNCHANGED <<table, unit, lock, rpc, mishaps>>

--------------------------------------------------------------------------------
\* on_exit after a failure, and rollback_load.

\* Never roll back beneath a published PASS: reconcile it, or leave it.
ExitPublished ==
  /\ pc = "exit"
  /\ phase = "commit-intent"
  /\ Visible(attempt, "pass")
  /\ IF Receipt(attempt, "pass") = "published"
       THEN /\ pc' = "publish"
            /\ result' = "pass"
            /\ created' = "no"
            /\ UNCHANGED <<unit, lock, context, attempt, phase, rolling>>
       ELSE End("failed")
  /\ UNCHANGED <<table, disk, rpc, mishaps>>

\* Mutant of ExitUnpublished: the rollback does not look for a published PASS.
ExitUnchecked ==
  /\ pc = "exit"
  /\ IF (created = "yes" \/ phase \in OpenPhases) /\ rolling = "no"
       THEN pc' = "rollback" /\ UNCHANGED <<unit, lock, shell>>
       ELSE End("failed")
  /\ UNCHANGED <<table, disk, rpc, mishaps>>

\* rollback_load runs at most once per process: rollback_running is never
\* cleared, also not after the rollback of an interrupted earlier attempt.
ExitUnpublished ==
  /\ pc = "exit"
  /\ ~(phase = "commit-intent" /\ Visible(attempt, "pass"))
  /\ IF (created = "yes" \/ phase \in OpenPhases) /\ rolling = "no"
       THEN pc' = "rollback" /\ UNCHANGED <<unit, lock, shell>>
       ELSE End("failed")
  /\ IF phase = "commit-intent"
       THEN DiscardPassTemp(attempt) /\ UNCHANGED <<journal, used>>
       ELSE UNCHANGED disk
  /\ UNCHANGED <<table, rpc, mishaps>>

Rollback ==
  /\ pc = "rollback"
  /\ rolling' = "yes"
  /\ Record("rollback-intent", attempt)
  /\ phase' = "rollback-intent"
  /\ pc' = "delete"
  /\ UNCHANGED <<table, unit, lock, receipts, used, context, attempt, created, result, rpc, mishaps>>

\* With the in-memory flag the table is deleted by name; without it only an
\* exact table is.  Absence is proved either way before it is recorded.
Delete ==
  /\ pc = "delete"
  /\ LET gone == IF created = "yes" THEN table # "absent" ELSE table # "foreign"
     IN  /\ table' = IF gone THEN "absent" ELSE table
         /\ result' = IF gone THEN "rollback-verified" ELSE "recovery-required"
  /\ pc' = "publish"
  /\ UNCHANGED <<unit, lock, disk, context, attempt, phase, created, rolling, rpc, mishaps>>

\* nft delete, or the capture that proves absence, fails.
DeleteFails ==
  /\ Mishap
  /\ pc = "delete"
  /\ table' \in {table, "absent"}
  /\ result' = "recovery-required"
  /\ pc' = "publish"
  /\ UNCHANGED <<unit, lock, disk, context, attempt, phase, created, rolling, rpc>>

--------------------------------------------------------------------------------
\* Failures of the loader.

\* The journal phase that the step `pc` writes.
Writing == {"intent", "applied", "commit", "close", "rollback"}
Written == CASE pc = "intent" -> "apply-intent"
             [] pc = "applied" -> "applied"
             [] pc = "commit" -> "commit-intent"
             [] pc = "close" -> PhaseOf(result)
             [] pc = "rollback" -> "rollback-intent"

\* A signal, or a failing command; signals are ignored while a commit is being
\* published, a failing write is not.  A journal write whose last sync fails
\* has taken effect on disk but not in load_phase.  A failure inside the EXIT
\* trap ends the process.
Fail ==
  /\ Mishap
  /\ pc \in LoaderSteps \ {"off", "exit", "delete"}
  /\ \/ UNCHANGED journal
     \/ pc \in Writing /\ Record(Written, attempt)
  /\ IF context = "exit"
       THEN End("failed")
       ELSE /\ pc' = "exit"
            /\ context' = "exit"
            /\ rolling' = IF pc = "rollback" THEN "yes" ELSE rolling
            /\ UNCHANGED <<unit, lock, attempt, phase, created, result>>
  /\ UNCHANGED <<table, receipts, used, rpc>>

\* SIGKILL, at the latest when TimeoutStartSec runs out.
Kill ==
  /\ Mishap
  /\ pc # "off"
  /\ End("failed")
  /\ UNCHANGED <<table, disk, rpc>>

\* A document whose link was not synced may be gone after a power loss.
Surviving(s) == CASE s = "linked" -> {"absent", "temp", "linked"}
                  [] s = "temp" -> {"absent", "temp"}
Unsettled == {d \in Attempts \X Results : receipts[d] \in {"temp", "linked"}}

\* Reboot or power loss: kernel state and processes are gone.
Reboot ==
  /\ Mishap
  /\ table' = "absent"
  /\ unit' = "inactive"
  /\ lock' = None
  /\ \E found \in [Unsettled -> DocStates] :
       /\ \A d \in Unsettled : found[d] \in Surviving(receipts[d])
       /\ receipts' = [d \in Attempts \X Results |->
                         IF d \in Unsettled THEN found[d] ELSE receipts[d]]
  /\ pc' = "off"
  /\ Reset
  /\ rpc' = "idle"
  /\ UNCHANGED <<journal, used>>

\* Another program replaces the owned table.
Tamper ==
  /\ Foreign
  /\ Mishap
  /\ table' = "foreign"
  /\ UNCHANGED <<unit, lock, disk, pc, shell, rpc>>

--------------------------------------------------------------------------------
\* The recovery process, as far as it touches the loader's state.

RecoverLock ==
  /\ Mishap
  /\ rpc = "idle"
  /\ lock = None
  /\ lock' = "recovery"
  /\ rpc' = "reconcile"
  /\ UNCHANGED <<table, unit, disk, pc, shell>>

\* The process may stop after any of its steps: nothing to do, a failed check
\* of its own journal, a signal or a kill.
RecoverLeave ==
  /\ rpc # "idle"
  /\ rpc' = "idle"
  /\ lock' = None
  /\ UNCHANGED <<table, unit, disk, pc, shell, mishaps>>

ClosedReceiptValid ==
  /\ journal.phase \in ClosedPhases
  /\ Receipt(journal.attempt, ResultOf(journal.phase)) = "published"

\* ig_reconcile_published_load_commit
RecoverReconcile ==
  /\ rpc = "reconcile"
  /\ \/ /\ journal # None
        /\ journal.phase = "commit-intent" /\ Visible(journal.attempt, "pass")
        /\ rpc' = "publish pass"
     \/ /\ IF journal = None THEN TRUE
           ELSE \/ ClosedReceiptValid
                \/ /\ journal.phase \in OpenPhases
                   /\ ~(journal.phase = "commit-intent" /\ Visible(journal.attempt, "pass"))
        /\ rpc' = "stop"
  /\ UNCHANGED <<table, unit, lock, disk, pc, shell, mishaps>>

\* A receipt and a journal record written by the recovery process.
RecoverPublish(here, r, there) ==
  /\ rpc = here
  /\ IF Receipt(journal.attempt, r) = "published"
       THEN rpc' = there /\ UNCHANGED receipts
       ELSE Advance(journal.attempt, r) /\ UNCHANGED rpc
  /\ UNCHANGED <<table, unit, lock, journal, used, pc, shell, mishaps>>

RecoverRecord(here, r, there) ==
  /\ rpc = here
  /\ Record(PhaseOf(r), journal.attempt)
  /\ rpc' = there
  /\ UNCHANGED <<table, unit, lock, receipts, used, pc, shell, mishaps>>

\* systemctl stop: a loader that waits for the lock is terminated.
RecoverStop ==
  /\ rpc = "stop"
  /\ rpc' = "table"
  /\ IF pc # "off"
       THEN End("failed")
       ELSE /\ unit' = IF unit = "active" THEN "inactive" ELSE unit
            /\ UNCHANGED <<pc, lock, shell>>
  /\ UNCHANGED <<table, disk, mishaps>>

\* Only an exact table is deleted.
RecoverTable ==
  /\ rpc = "table"
  /\ table # "foreign"
  /\ table' = "absent"
  /\ rpc' = "close"
  /\ UNCHANGED <<unit, lock, disk, pc, shell, mishaps>>

\* ig_close_load_journal_after_absence
RecoverClose ==
  /\ rpc = "close"
  /\ \/ /\ IF journal = None THEN TRUE ELSE ClosedReceiptValid
        /\ rpc' = "idle"
        /\ lock' = None
        /\ UNCHANGED receipts
     \/ /\ journal # None
        /\ journal.phase \in OpenPhases
        /\ ~(journal.phase = "commit-intent" /\ Visible(journal.attempt, "pass"))
        /\ IF journal.phase = "commit-intent"
             THEN DiscardPassTemp(journal.attempt)
             ELSE UNCHANGED receipts
        /\ rpc' = "publish rollback"
        /\ UNCHANGED lock
  /\ UNCHANGED <<table, unit, journal, used, pc, shell, mishaps>>

--------------------------------------------------------------------------------
Loader ==
  \/ Lock \/ LockHeld \/ ResumeClosed \/ ResumePublished \/ ResumeOpen
  \/ Publish \/ Close \/ Capture \/ Prepare \/ Intent \/ Apply
  \/ Applied \/ VerifyLive \/ Commit \/ ExitPublished \/ ExitUnpublished
  \/ Rollback \/ Delete

Recovery ==
  \/ RecoverReconcile
  \/ RecoverPublish("publish pass", "pass", "record pass")
  \/ RecoverRecord("record pass", "pass", "stop")
  \/ RecoverStop \/ RecoverTable \/ RecoverClose
  \/ RecoverPublish("publish rollback", "rollback-verified", "record rollback")
  \/ RecoverRecord("record rollback", "rollback-verified", "close")
  \/ RecoverLeave

Failures == ApplyFails \/ DeleteFails \/ Fail \/ Kill \/ Reboot \/ Tamper

Next == Start \/ Stop \/ Loader \/ RecoverLock \/ Recovery \/ Failures

Spec == Init /\ [][Next]_vars

\* The unit is started again (the boot transaction, or the operator), a loader
\* that runs proceeds, and a recovery that runs comes to an end.
FairSpec == Spec /\ WF_vars(Start) /\ WF_vars(Loader) /\ WF_vars(Recovery)

--------------------------------------------------------------------------------
\* Every variable has its type.
TypeOK ==
  /\ table \in {"absent", "live", "foreign"}
  /\ unit \in {"inactive", "activating", "active", "failed"}
  /\ lock \in {None, "loader", "recovery"}
  /\ journal \in Journals \union {None}
  /\ receipts \in [Attempts \X Results -> DocStates]
  /\ used \in SUBSET Attempts
  /\ pc \in LoaderSteps
  /\ context \in {"resume", "run", "exit"}
  /\ attempt \in Attempts \union {None}
  /\ phase \in Phases \union {"none"}
  /\ created \in {"yes", "no"} /\ rolling \in {"yes", "no"}
  /\ result \in Results
  /\ rpc \in RecoverySteps
  /\ mishaps \in 0..MaxMishaps

\* "Never roll back beneath a published immutable PASS record": no attempt has
\* both a visible PASS receipt and a visible verified-rollback receipt, however
\* loader, recovery, kills and reboots interleave.
NoPassBeneathRollback ==
  \A a \in Attempts : ~(Visible(a, "pass") /\ Visible(a, "rollback-verified"))

\* A journal is closed only once the receipt it names is published.
ClosedHasReceipt ==
  journal # None /\ journal.phase \in ClosedPhases =>
    Receipt(journal.attempt, ResultOf(journal.phase)) = "published"

\* The guard unit, which kubelet requires, is active only while the guard is
\* loaded: neither a reconciled commit, nor an exact earlier table, nor a
\* recovery that stops the unit leaves it active without the table.
ActiveMeansLoaded ==
  unit = "active" => table = "live" \/ (Foreign /\ table = "foreign")

\* "An exact model following absent prestate can be removed": a live table is
\* always covered by a journal that says an apply may have happened.
OwnedTableIsJournaled ==
  table = "live" => journal # None /\ journal.phase \notin {"prepared", "rolled-back"}

\* Receipts and journal tell one story of every attempt, whichever of the two
\* was written last before a kill or a reboot.
ReceiptsAgree == NoPassBeneathRollback /\ ClosedHasReceipt

\* The kernel's table agrees with what systemd and the journal say of it, though
\* neither is written in one step with nft.
TableAgrees == ActiveMeansLoaded /\ OwnedTableIsJournaled

\* A committed or rolled-back attempt is never given another phase.
ClosedIsFinal ==
  [][journal # None /\ journal.phase \in {"committed", "rolled-back"}
       /\ journal'.attempt = journal.attempt
     => journal' = journal]_vars

Open == journal # None /\ journal.phase \in OpenPhases

\* A published PASS whose temporary is still linked: the loader refuses it
\* (LOAD_RECEIPT_INVALID) until transaction recovery reconciles it.
HalfPublished ==
  Open /\ journal.phase = "commit-intent" /\ Receipt(journal.attempt, "pass") = "linked"

\* The guard, which kubelet requires, is loaded in the end: whatever was killed,
\* failed or rolled back, starting the unit again loads it, unless the table is
\* foreign or a PASS receipt is half published.
GuardLoads ==
  []<>(unit = "active" \/ table = "foreign" \/ HalfPublished)

\* operations.md: "recovery either rolls back before publication or reconciles
\* the exact immutable result before claiming closure".  Read of the loader,
\* which completes an interrupted load at boot: every open journal is closed.
LoaderReconciles == Open ~> ~Open

\* operations.md: a capture, verification, receipt or journal failure after
\* nft -f succeeded deletes the owned table and proves its absence.
FailedLoadLeavesNoTable ==
  [][created = "yes" /\ phase \in {"apply-intent", "applied", "commit-intent"}
       /\ ExitUnpublished /\ pc' = "off"
     => table' # "live"]_vars
================================================================================
