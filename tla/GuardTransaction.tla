---------------------------- MODULE GuardTransaction ----------------------------
(***************************************************************************)
(* The guarded-host transaction: install-ingress-guard.sh (offline mode),    *)
(* retrofit-ingress-guard.sh (activation and closure after a reboot) and    *)
(* recover-ingress-guard.sh, run by several operator shells over one        *)
(* journal, one set of installed files, systemd and one global lock.        *)
(*                                                                         *)
(* Each script is a program: a sequence of instructions, one per call that  *)
(* changes or checks shared state, in the order of the source.  The shell   *)
(* that runs it keeps the IG_* variables it read or chose.                  *)
(*                                                                         *)
(* Abstractions.  The thirteen managed files are three groups: support      *)
(* (contract, validators, libraries, executables), the guard unit and the   *)
(* kubelet drop-in; directories follow the files.  A run of the loader is   *)
(* one step (GuardLoader has its detail, and shows that the unit is active  *)
(* only with the table loaded); so is a journal or receipt write            *)
(* (ImmutableDocument).  Source, custody and host bindings, which recovery  *)
(* only compares, do not change.  Cluster health is a check that can fail.  *)
(***************************************************************************)
EXTENDS Naturals, Sequences, FiniteSets

CONSTANTS
  Shells,       \* operator shells
  Attempts,     \* transaction attempt ids
  None,         \* no journal, no lock holder, no attempt
  MaxMishaps,   \* bound on failures, kills, reboots and kubelet starts
  MaxSharedMishaps    \* the same bound when more than one shell is used

ASSUME ShellAssumption == None \notin Shells /\ IsFiniteSet(Shells)
ASSUME AttemptAssumption == None \notin Attempts
ASSUME MishapAssumption == MaxMishaps \in Nat /\ MaxSharedMishaps \in 0..MaxMishaps

VARIABLES
  files,        \* installed groups of managed files
  loaded,       \* units and drop-ins systemd has loaded
  enabled,      \* whether the guard unit is enabled
  unit,         \* ActiveState of the guard unit
  table,        \* whether the owned nftables table is live
  kubelet,      \* whether kubelet is active
  boot,         \* the boot id, as a number
  lock,         \* holder of global.lock
  journal,      \* journal.v2
  receipts,     \* published receipts, by attempt and result
  used,         \* attempt ids drawn
  sh,           \* per shell: the program, its next instruction, IG_* variables
  mishaps       \* failures so far

host == <<files, loaded, enabled, unit, table, kubelet, boot>>
records == <<journal, receipts, used>>
vars == <<host, lock, records, sh, mishaps>>

Files == {"support", "unit", "dropin"}
Modes == {"offline", "retrofit"}
Phases == {"prepared", "artifacts-installed", "guard-start-intent", "guard-active",
           "dropin-installed", "kubelet-restart-intent", "awaiting-reboot-intent",
           "awaiting-reboot", "commit-intent", "committed", "rollback-intent",
           "rolled-back", "recovery-required"}
Results == {"pass", "pending-reboot", "rollback-verified", "recovery-required"}

\* The journal of a transaction.
Transactions ==
  [mode : Modes, phase : Phases, attempt : Attempts, boot : 0..MaxMishaps,
   files : SUBSET Files, enabled : BOOLEAN, kubelet : BOOLEAN]

ASSUME NoneAssumption == None \notin Transactions

\* The instructions of the scripts: what is done, and to what.
Install == <<<<"install", "support">>, <<"install", "unit">>>>
Start == <<<<"journal", "artifacts-installed">>, <<"reload", "units">>,
           <<"enable", "guard">>, <<"journal", "guard-start-intent">>,
           <<"start", "guard">>, <<"release", "lock">>, <<"start", "guard">>,
           <<"await", "guard">>, <<"retake", "lock">>>>
Commit == <<<<"journal", "commit-intent">>, <<"receipt", "pass">>,
            <<"journal", "committed">>, <<"end", "script">>>>

Program ==
  [offline |-> Install \o <<<<"install", "dropin">>>> \o Start
       \o <<<<"journal", "guard-active">>, <<"verify", "all">>>> \o Commit,
   retrofit |-> Install \o Start
       \o <<<<"verify", "guard">>, <<"journal", "guard-active">>,
            <<"install", "dropin">>, <<"reload", "units">>, <<"verify", "dependency">>,
            <<"journal", "dropin-installed">>, <<"journal", "kubelet-restart-intent">>,
            <<"restart", "kubelet">>, <<"verify", "all">>,
            <<"journal", "awaiting-reboot-intent">>, <<"receipt", "pending-reboot">>,
            <<"journal", "awaiting-reboot">>, <<"end", "script">>>>,
   close |-> <<<<"verify", "closure">>>> \o Commit,
   recover |-> <<<<"journal", "rollback-intent">>, <<"remove", "dropin">>,
                 <<"reload", "units">>, <<"restore", "kubelet">>, <<"stop", "guard">>,
                 <<"delete", "table">>, <<"disable", "guard">>, <<"remove", "unit">>,
                 <<"remove", "support">>, <<"reload", "units">>,
                 <<"verify", "prestate">>, <<"receipt", "rollback-verified">>,
                 <<"journal", "rolled-back">>, <<"end", "script">>>>]

Idle == [prog |-> "idle", at |-> 0, tx |-> None]
Absent == [prog |-> "absent", at |-> 0, tx |-> None]    \* a shell nobody opens

\* The operators use one shell throughout.
Alone == Cardinality({p \in Shells : sh[p] # Absent}) = 1

Runs(p, instruction) ==
  /\ sh[p].prog \in DOMAIN Program
  /\ Program[sh[p].prog][sh[p].at] = instruction

Mishap ==
  /\ mishaps < IF Alone THEN MaxMishaps ELSE MaxSharedMishaps
  /\ mishaps' = mishaps + 1

\* A prestate is what some transaction left, as the files are installed in this
\* order and removed in the reverse one; only a unit that is there is enabled, and a
\* kubelet that requires the guard does not run without it.
Init ==
  /\ files \in {{}, {"support"}, {"support", "unit"}, Files}
  /\ loaded = files \ {"support"}
  /\ enabled \in BOOLEAN /\ (enabled => "unit" \in files)
  /\ unit = "inactive" /\ table = FALSE
  /\ kubelet \in BOOLEAN /\ ("dropin" \in files => ~kubelet)
  /\ boot = 0
  /\ lock = None
  /\ journal = None /\ receipts = {} /\ used = {}
  /\ \E opened \in {{CHOOSE p \in Shells : TRUE}, Shells} :
       sh = [p \in Shells |-> IF p \in opened THEN Idle ELSE Absent]
  /\ mishaps = 0

--------------------------------------------------------------------------------
\* Control: the next instruction, the end of a script, and its EXIT trap.

Advance(p) == sh' = [sh EXCEPT ![p].at = @ + 1]

\* Mutant of Release: the lock is never given back.
ReleaseNothing(p) == UNCHANGED lock

Release(p) == lock' = IF lock = p THEN None ELSE lock

Leave(p) == sh' = [sh EXCEPT ![p] = Idle] /\ Release(p)

Record(tx) == journal' = tx
Publish(p, r) == receipts' = receipts \union {<<sh[p].tx.attempt, r>>}

\* on_exit after a failure.  A mutating script drops its lock and then runs the
\* recovery; a recovery that has recorded its intent records that it failed.
Abort(p) ==
  IF sh[p].prog = "recover"
    THEN /\ Leave(p)
         /\ UNCHANGED used
         /\ IF sh[p].at > 1
              THEN /\ Publish(p, "recovery-required")
                   /\ Record([sh[p].tx EXCEPT !.phase = "recovery-required"])
              ELSE UNCHANGED <<journal, receipts>>
    ELSE /\ sh' = [sh EXCEPT ![p] =
                     IF @.prog = "close" /\ @.at = 1 THEN Idle
                     ELSE [prog |-> "automatic", at |-> 0, tx |-> None]]
         /\ Release(p)
         /\ UNCHANGED records

\* A check: the script goes on, or dies.
Check(p, ok) ==
  IF ok THEN Advance(p) /\ UNCHANGED <<lock, records>> ELSE Abort(p)

--------------------------------------------------------------------------------
\* How a script starts, always under the lock (flock -n).

\* install and retrofit: the checks of the prestate and the prepared journal.
Begin(p, mode) ==
  /\ sh[p] = Idle
  /\ lock = None
  /\ IF journal = None THEN TRUE
     ELSE /\ journal.phase = "rolled-back"
          /\ <<journal.attempt, "rollback-verified">> \in receipts
  /\ kubelet = (mode = "retrofit")
  /\ ~table
  /\ unit = "inactive" /\ ("unit" \in files <=> "unit" \in loaded)
  /\ "dropin" \in loaded => "dropin" \in files
  /\ mode = "retrofit" => ~enabled /\ files \subseteq {"support"}
  /\ \E a \in Attempts \ used :
       LET tx == [mode |-> mode, phase |-> "prepared", attempt |-> a, boot |-> boot,
                  files |-> files, enabled |-> enabled, kubelet |-> kubelet]
       IN  /\ used' = used \union {a}
           /\ Record(tx)
           /\ sh' = [sh EXCEPT ![p] = [prog |-> mode, at |-> 1, tx |-> tx]]
  /\ lock' = p
  /\ UNCHANGED <<host, receipts, mishaps>>

\* Mutant of Close: the boot id is not compared.
CloseInSameBoot(p) ==
  /\ sh[p] = Idle
  /\ lock = None
  /\ journal # None
  /\ journal.phase = "awaiting-reboot"
  /\ lock' = p
  /\ sh' = [sh EXCEPT ![p] = [prog |-> "close", at |-> 1, tx |-> journal]]
  /\ UNCHANGED <<host, records, mishaps>>

\* retrofit --close-after-reboot, up to its checks of the running system.
Close(p) ==
  /\ sh[p] = Idle
  /\ lock = None
  /\ journal # None
  /\ journal.phase = "awaiting-reboot"
  /\ boot # journal.boot
  /\ lock' = p
  /\ sh' = [sh EXCEPT ![p] = [prog |-> "close", at |-> 1, tx |-> journal]]
  /\ UNCHANGED <<host, records, mishaps>>

\* Mutant of Closed: recovery takes only a committed transaction for closed.
ClosedOnlyCommitted == journal.phase = "committed"

Has(r) == <<journal.attempt, r>> \in receipts
Closed == journal.phase \in {"committed", "rolled-back"}

Open == journal # None /\ journal.phase \notin {"committed", "rolled-back", "awaiting-reboot"}

\* A published result whose journal update was lost is finished; a closed
\* transaction is left alone; anything else is rolled back.
Recover(p) ==
  /\ sh[p].prog \in {"idle", "automatic"}
  /\ lock = None
  /\ journal # None
  /\ CASE journal.phase = "commit-intent" /\ Has("pass") ->
            /\ Record([journal EXCEPT !.phase = "committed"])
            /\ sh' = [sh EXCEPT ![p] = Idle] /\ UNCHANGED lock
       [] journal.phase = "awaiting-reboot-intent" /\ Has("pending-reboot") ->
            /\ Record([journal EXCEPT !.phase = "awaiting-reboot"])
            /\ sh' = [sh EXCEPT ![p] = Idle] /\ UNCHANGED lock
       [] Closed ->
            /\ sh' = [sh EXCEPT ![p] = Idle] /\ UNCHANGED <<lock, journal>>
       [] OTHER ->
            /\ sh' = [sh EXCEPT ![p] = [prog |-> "recover", at |-> 1, tx |-> journal]]
            /\ lock' = p
            /\ UNCHANGED journal
  /\ UNCHANGED <<host, receipts, used, mishaps>>

\* The recovery a failed script starts finds the lock taken.
RecoverRefused(p) ==
  /\ sh[p].prog = "automatic"
  /\ lock # None
  /\ Leave(p)
  /\ UNCHANGED <<host, records, mishaps>>

--------------------------------------------------------------------------------
\* The instructions.

\* ig_journal_write, over whatever journal is there.
WriteJournal(p, phase) ==
  /\ Runs(p, <<"journal", phase>>)
  /\ Record([sh[p].tx EXCEPT !.phase = phase])
  /\ sh' = [sh EXCEPT ![p] = [prog |-> @.prog, at |-> @.at + 1, tx |-> journal']]
  /\ UNCHANGED <<host, lock, receipts, used, mishaps>>

WriteReceipt(p, r) ==
  /\ Runs(p, <<"receipt", r>>)
  /\ Publish(p, r)
  /\ Advance(p)
  /\ UNCHANGED <<host, lock, journal, used, mishaps>>

Done(p) ==
  /\ Runs(p, <<"end", "script">>)
  /\ Leave(p)
  /\ UNCHANGED <<host, records, mishaps>>

\* ig_install_exact and ig_remove_if_created.
InstallFile(p, f) ==
  /\ Runs(p, <<"install", f>>)
  /\ files' = files \union {f}
  /\ Advance(p)
  /\ UNCHANGED <<loaded, enabled, unit, table, kubelet, boot, lock, records, mishaps>>

\* Mutant of RemoveFile: files that were there before are removed too.
RemoveAlways(p, f) ==
  /\ Runs(p, <<"remove", f>>)
  /\ files' = files \ {f}
  /\ Advance(p)
  /\ UNCHANGED <<loaded, enabled, unit, table, kubelet, boot, lock, records, mishaps>>

RemoveFile(p, f) ==
  /\ Runs(p, <<"remove", f>>)
  /\ files' = IF f \in sh[p].tx.files THEN files ELSE files \ {f}
  /\ Advance(p)
  /\ UNCHANGED <<loaded, enabled, unit, table, kubelet, boot, lock, records, mishaps>>

Reload(p) ==
  /\ Runs(p, <<"reload", "units">>)
  /\ loaded' = files \ {"support"}
  /\ Advance(p)
  /\ UNCHANGED <<files, enabled, unit, table, kubelet, boot, lock, records, mishaps>>

Enable(p) ==
  /\ Runs(p, <<"enable", "guard">>)
  /\ enabled' = TRUE
  /\ Advance(p)
  /\ UNCHANGED <<files, loaded, unit, table, kubelet, boot, lock, records, mishaps>>

\* systemctl disable, of a unit that was not enabled before: it fails where there
\* is no unit file.
Disable(p) ==
  /\ Runs(p, <<"disable", "guard">>)
  /\ LET works == sh[p].tx.enabled \/ "unit" \in files
     IN  /\ enabled' = IF works THEN enabled /\ sh[p].tx.enabled ELSE enabled
         /\ Check(p, works)
  /\ UNCHANGED <<files, loaded, unit, table, kubelet, boot, mishaps>>

\* systemctl start, queued under the lock and repeated without it to wait.
StartGuard(p) ==
  /\ Runs(p, <<"start", "guard">>)
  /\ unit' = IF "unit" \in loaded /\ unit \in {"inactive", "failed"} THEN "activating" ELSE unit
  /\ Check(p, "unit" \in loaded)
  /\ UNCHANGED <<files, loaded, enabled, table, kubelet, boot, mishaps>>

ReleaseLock(p) ==
  /\ Runs(p, <<"release", "lock">>)
  /\ Release(p)
  /\ Advance(p)
  /\ UNCHANGED <<host, records, mishaps>>

AwaitGuard(p) ==
  /\ Runs(p, <<"await", "guard">>)
  /\ unit # "activating"
  /\ Check(p, unit = "active")
  /\ UNCHANGED <<host, mishaps>>

\* flock -w 30: the journal is not read again.
Relock(p) ==
  /\ Runs(p, <<"retake", "lock">>)
  /\ lock = None
  /\ lock' = p
  /\ Advance(p)
  /\ UNCHANGED <<host, records, mishaps>>

RelockTimesOut(p) ==
  /\ Mishap
  /\ Runs(p, <<"retake", "lock">>)
  /\ lock # None
  /\ Abort(p)
  /\ UNCHANGED host

GuardVerified == enabled /\ unit = "active" /\ table
Verified == GuardVerified /\ "dropin" \in loaded

VerifyHost(p) ==
  /\ \/ Runs(p, <<"verify", "guard">>) /\ Check(p, GuardVerified)
     \/ Runs(p, <<"verify", "dependency">>) /\ Check(p, "dropin" \in loaded)
     \/ Runs(p, <<"verify", "all">>) /\ Check(p, Verified)
     \/ Runs(p, <<"verify", "closure">>) /\ Check(p, kubelet /\ Verified /\ files = Files)
  /\ UNCHANGED <<host, mishaps>>

\* Mutant of MayStartKubelet: the drop-in only orders kubelet after the guard.
MayStartAlways == TRUE

\* kubelet requires the guard once the drop-in is loaded.
MayStartKubelet == "dropin" \in loaded => unit = "active"

RestartKubelet(p) ==
  /\ Runs(p, <<"restart", "kubelet">>)
  /\ kubelet' = (kubelet \/ MayStartKubelet)
  /\ Check(p, MayStartKubelet)
  /\ UNCHANGED <<files, loaded, enabled, unit, table, boot, mishaps>>

\* Only a kubelet that was active is started again; one that started during an
\* offline transaction is not stopped.
RestoreKubelet(p) ==
  /\ Runs(p, <<"restore", "kubelet">>)
  /\ kubelet' = (kubelet \/ (sh[p].tx.kubelet /\ MayStartKubelet))
  /\ Check(p, sh[p].tx.kubelet = kubelet')
  /\ UNCHANGED <<files, loaded, enabled, unit, table, boot, mishaps>>

\* Stopping the guard stops a kubelet that requires it, and does not clear a
\* failed state.
StopGuard(p) ==
  /\ Runs(p, <<"stop", "guard">>)
  /\ LET stops == "unit" \in loaded /\ unit \in {"active", "activating"}
     IN  /\ unit' = IF ~stops THEN unit ELSE IF unit = "active" THEN "inactive" ELSE "failed"
         /\ kubelet' = (kubelet /\ ~(stops /\ "dropin" \in loaded))
  /\ Check(p, sh[p].tx.kubelet => kubelet')
  /\ UNCHANGED <<files, loaded, enabled, table, boot, mishaps>>

DeleteTable(p) ==
  /\ Runs(p, <<"delete", "table">>)
  /\ table' = FALSE
  /\ Advance(p)
  /\ UNCHANGED <<files, loaded, enabled, unit, kubelet, boot, lock, records, mishaps>>

VerifyPrestate(p) ==
  /\ Runs(p, <<"verify", "prestate">>)
  /\ Check(p, /\ kubelet = sh[p].tx.kubelet
              /\ enabled = sh[p].tx.enabled
              /\ unit = "inactive"
              /\ loaded = sh[p].tx.files \ {"support"})
  /\ UNCHANGED <<host, mishaps>>

--------------------------------------------------------------------------------
\* systemd, the loader and the environment.

\* The loader takes the lock for itself; without its files it fails.
Load ==
  /\ unit = "activating"
  /\ lock = None
  /\ unit' = IF "support" \in files THEN "active" ELSE "failed"
  /\ table' = (table \/ "support" \in files)
  /\ UNCHANGED <<files, loaded, enabled, kubelet, boot, lock, records, sh, mishaps>>

\* It fails, is killed with its table loaded, or times out.
LoadFails ==
  /\ Mishap
  /\ unit = "activating"
  /\ unit' = "failed"
  /\ table' \in (IF lock = None THEN {FALSE, table \/ "support" \in files} ELSE {table})
  /\ UNCHANGED <<files, loaded, enabled, kubelet, boot, lock, records, sh>>

\* kubelet is started by the operator or the boot.  If it requires the guard, the
\* guard is started first, and kubelet follows once it is up.
StartKubelet ==
  /\ Mishap
  /\ ~kubelet
  /\ IF MayStartKubelet
       THEN kubelet' = TRUE /\ UNCHANGED unit
       ELSE /\ "unit" \in loaded /\ unit \in {"inactive", "failed"}
            /\ unit' = "activating" /\ UNCHANGED kubelet
  /\ UNCHANGED <<files, loaded, enabled, table, boot, lock, records, sh>>

\* A signal or a failing command; a journal write may take effect and still
\* fail its last sync.
Fail(p) ==
  /\ Mishap
  /\ sh[p].prog \in DOMAIN Program
  /\ ~Runs(p, <<"end", "script">>)
  /\ \/ Abort(p)
     \/ \E phase \in Phases :
          /\ Runs(p, <<"journal", phase>>)
          /\ sh[p].prog # "recover"
          /\ Record([sh[p].tx EXCEPT !.phase = phase])
          /\ sh' = [sh EXCEPT ![p] = [prog |-> "automatic", at |-> 0, tx |-> None]]
          /\ Release(p)
          /\ UNCHANGED <<receipts, used>>
  /\ UNCHANGED host

Kill(p) ==
  /\ Mishap
  /\ sh[p] \notin {Idle, Absent}
  /\ Leave(p)
  /\ UNCHANGED <<host, records>>

\* The guard unit is started by the boot when it is enabled, kubelet by
\* StartKubelet.
Reboot ==
  /\ Mishap
  /\ boot' = boot + 1
  /\ loaded' = files \ {"support"}
  /\ unit' = IF enabled /\ "unit" \in files THEN "activating" ELSE "inactive"
  /\ table' = FALSE
  /\ kubelet' = FALSE
  /\ lock' = None
  /\ sh' = [p \in Shells |-> IF sh[p] = Absent THEN Absent ELSE Idle]
  /\ UNCHANGED <<files, enabled, records>>

Script(p) ==
  \/ \E phase \in Phases : WriteJournal(p, phase)
  \/ \E r \in Results : WriteReceipt(p, r)
  \/ \E f \in Files : InstallFile(p, f) \/ RemoveFile(p, f)
  \/ Reload(p) \/ Enable(p) \/ Disable(p) \/ StartGuard(p) \/ ReleaseLock(p)
  \/ AwaitGuard(p) \/ Relock(p) \/ VerifyHost(p) \/ RestartKubelet(p)
  \/ RestoreKubelet(p) \/ StopGuard(p) \/ DeleteTable(p) \/ VerifyPrestate(p)
  \/ Done(p)
  \/ sh[p].prog = "automatic" /\ Recover(p)
  \/ RecoverRefused(p)

Next ==
  \/ \E p \in Shells :
       \/ \E mode \in Modes : Begin(p, mode)
       \/ Close(p) \/ Recover(p) \/ Script(p)
       \/ RelockTimesOut(p) \/ Fail(p) \/ Kill(p)
  \/ Load \/ LoadFails \/ StartKubelet \/ Reboot

Spec == Init /\ [][Next]_vars

\* Scripts and the loader run on, and the operator runs the recovery again as
\* long as a transaction is open.
FairSpec ==
  /\ Spec
  /\ WF_vars(Load)
  /\ \A p \in Shells : WF_vars(Script(p)) /\ WF_vars(Recover(p) /\ Open)

--------------------------------------------------------------------------------
\* Every variable has its type.
TypeOK ==
  /\ files \in SUBSET Files
  /\ loaded \in SUBSET {"unit", "dropin"}
  /\ unit \in {"inactive", "activating", "active", "failed"}
  /\ enabled \in BOOLEAN /\ table \in BOOLEAN /\ kubelet \in BOOLEAN
  /\ boot \in 0..MaxMishaps
  /\ lock \in Shells \union {None}
  /\ journal \in Transactions \union {None}
  /\ receipts \in SUBSET (Attempts \X Results)
  /\ used \in SUBSET Attempts
  /\ sh \in [Shells -> [prog : {"idle", "absent", "automatic"} \union DOMAIN Program,
                       at : 0..24, tx : Transactions \union {None}]]
  /\ mishaps \in 0..MaxMishaps

\* "Never roll back beneath a durable PASS claim": no attempt has both a PASS
\* and a verified-rollback receipt.
NoPassBeneathRollback ==
  \A a \in Attempts : ~({<<a, "pass">>, <<a, "rollback-verified">>} \subseteq receipts)

\* "exact-prestate-restored": while a rolled-back transaction is the journal,
\* the managed files, systemd's view of them and the enablement are the recorded
\* prestate, and the table is loaded only by a guard unit that was there before.
RolledBackIsPrestate ==
  journal # None /\ journal.phase = "rolled-back" =>
    /\ files = journal.files
    /\ loaded = files \ {"support"}
    /\ enabled = journal.enabled
    /\ table => "unit" \in files
    /\ <<journal.attempt, "rollback-verified">> \in receipts

\* A PASS receipt means a guard that a reboot keeps: every file installed, the
\* unit enabled, the drop-in in force, and for a retrofit seen in a later boot.
PassIsPersistent ==
  journal # None /\ <<journal.attempt, "pass">> \in receipts =>
    /\ files = Files /\ enabled /\ "dropin" \in loaded
    /\ journal.mode = "retrofit" => boot # journal.boot

\* What a PASS receipt claims is final when one shell is used: never rolled back,
\* and kept by a reboot.  A second shell that recovers while the lock is handed to
\* the loader breaks both.
PassIsBinding == Alone => NoPassBeneathRollback /\ PassIsPersistent

\* "The currently running kubelet is never stopped behind an absent or
\* unverified table": in a retrofit, and after any commit, a kubelet that
\* depends on the guard runs only with the table loaded.
KubeletGuarded ==
  /\ journal # None
  /\ journal.mode = "retrofit" \/ journal.phase = "committed"
  /\ kubelet /\ "dropin" \in loaded
  => table

\* A closed transaction stays closed when one shell is used: no script writes its
\* journal again.
ClosedIsFinal ==
  [][Alone /\ journal # None /\ journal.phase \in {"committed", "rolled-back"}
       /\ journal'.attempt = journal.attempt
     => journal' = journal]_vars

\* A recovery has failed, and no unit file is there to disable: the install died
\* before it wrote the file, or a recovery died after it removed it.
NothingToDisable ==
  journal.phase = "recovery-required" /\ "unit" \notin files /\ ~journal.enabled

\* Every transaction ends: committed, rolled back or pending its reboot, unless
\* the guard unit is left failed, kubelet was started under an offline one, or
\* the recovery finds no unit file to disable.  Two shells that recover in turn
\* can keep the lock from the loader.
TransactionEnds ==
  Alone /\ Open ~> \/ ~Open
                   \/ unit = "failed"
                   \/ journal.mode = "offline" /\ kubelet
                   \/ NothingToDisable

\* operations.md: "Any ordinary failure or catchable signal enters the same
\* recovery transaction", which ends in a verified rollback, also when the
\* failure left the guard unit failed and the host did not reboot.
FailureRollsBack ==
  (Open /\ unit = "failed" /\ boot = journal.boot) ~> ~Open

\* The same sentence, of a failure before the guard unit was installed.
EarlyFailureRollsBack ==
  (Open /\ "unit" \notin files /\ \E p \in Shells : sh[p].prog = "automatic") ~> ~Open
================================================================================
