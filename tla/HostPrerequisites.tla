--------------------------- MODULE HostPrerequisites ---------------------------
(***************************************************************************)
(* The kubeadm host prerequisites under bootstrap/pi/host-prerequisites:     *)
(* apply-host-prerequisites.sh, its ERR trap, and                            *)
(* rollback-host-prerequisites.sh, run by several operator shells over three *)
(* managed files, the kernel modules, the runtime sysctls and the swap.     *)
(*                                                                         *)
(* Abstractions.  A managed file has the desired contents or the contents   *)
(* the host had before; "fstab" has the desired contents when no swap is    *)
(* declared in it.  The sysctls are two groups: the plain ones, and the     *)
(* net.bridge ones, which exist only while br_netfilter is loaded.  A plan  *)
(* is approved for the host it describes, and apply compares the two, so a  *)
(* plan is the state of the host.  A signal does not run the ERR trap: it   *)
(* is a kill.  The backup of a transaction is complete before the pending   *)
(* record names it.                                                        *)
(***************************************************************************)
EXTENDS Naturals, Sequences

CONSTANTS
  Shells,       \* operator shells
  Attempts,     \* transaction ids
  None,         \* no transaction, no lock holder, no backup
  MaxMishaps    \* bound on failures, kills and reboots

ASSUME ShellAssumption == None \notin Shells
ASSUME AttemptAssumption == None \notin Attempts
ASSUME MishapAssumption == MaxMishaps \in Nat

VARIABLES
  files,        \* the managed files with desired contents
  modules,      \* whether the required modules are loaded
  plain,        \* the plain sysctls
  bridge,       \* the net.bridge sysctls
  swap,         \* whether the swap of fstab is active
  boot,         \* the boot id, as a number
  lock,         \* holder of the operation lock
  pending,      \* the pending record
  active,       \* the active state
  backup,       \* the transaction directories
  run,          \* per shell: its program and its variables
  original,     \* the host as it was found (history)
  mishaps

host == <<files, modules, plain, bridge, swap>>
records == <<pending, active, backup>>
vars == <<host, boot, lock, records, run, original, mishaps>>

Files == {"modules", "sysctl", "fstab"}
Bridge == {"unavailable", "natural", "desired"}

Program ==
  [apply |-> <<<<"record", "pending">>, <<"install", "modules">>, <<"install", "sysctl">>,
       <<"modprobe", "modules">>, <<"capture", "bridge">>, <<"load", "plain">>,
       <<"load", "bridge">>, <<"install", "fstab">>, <<"swap", "off">>,
       <<"verify", "desired">>, <<"record", "active">>, <<"clear", "pending">>,
       <<"verify", "active">>>>,
   restore |-> <<<<"check", "ready">>, <<"restore", "modules">>, <<"restore", "sysctl">>,
       <<"restore", "fstab">>, <<"write", "plain">>, <<"write", "bridge">>, <<"swap", "on">>,
       <<"verify", "restored">>, <<"remove", "active">>, <<"remove", "pending">>>>]

Idle == [prog |-> "idle", at |-> 0, tx |-> None, failures |-> FALSE]

\* What a transaction backs up of the host, and captures later.
Backups ==
  [files : SUBSET Files, plain : {"old", "desired"}, bridge : Bridge, late : Bridge,
   swap : BOOLEAN, boot : 0..MaxMishaps]

ASSUME NoneAssumption == None \notin Backups

\* What the boot makes of the files.
Plain(f) == IF "sysctl" \in f THEN "desired" ELSE "old"
Bridges(f) == IF "modules" \notin f THEN "unavailable"
              ELSE IF "sysctl" \in f THEN "desired" ELSE "natural"

Init ==
  /\ files \in SUBSET Files
  /\ modules = ("modules" \in files)
  /\ plain = Plain(files) /\ bridge = Bridges(files)
  /\ swap \in {FALSE, "fstab" \notin files}
  /\ boot = 0
  /\ lock = None
  /\ pending = None /\ active = None
  /\ backup = [a \in Attempts |-> None]
  /\ run = [p \in Shells |-> Idle]
  /\ original = [files |-> files, swap |-> swap]
  /\ mishaps = 0

--------------------------------------------------------------------------------
Runs(p, instruction) ==
  /\ run[p].prog \in DOMAIN Program
  /\ Program[run[p].prog][run[p].at] = instruction

\* The next instruction, with what failed so far.
Proceed(p, failed) ==
  run' = [run EXCEPT ![p] = [prog |-> @.prog, at |-> @.at + 1, tx |-> @.tx,
                             failures |-> @.failures \/ failed]]

Advance(p) == Proceed(p, FALSE)
Restore(p, tx) ==
  run' = [run EXCEPT ![p] = [prog |-> "restore", at |-> 1, tx |-> tx, failures |-> FALSE]]

Exit(p) ==
  /\ run' = [run EXCEPT ![p] = Idle]
  /\ lock' = IF lock = p THEN None ELSE lock

\* What every step leaves alone; the rest of the host.
Steady == UNCHANGED <<boot, original, mishaps>>
Mishap == mishaps < MaxMishaps /\ mishaps' = mishaps + 1

Tx(p) == backup[run[p].tx]

--------------------------------------------------------------------------------
\* apply-host-prerequisites.sh

\* Mutant of Begin: an active transaction is not looked for.
BeginOverActive(p) ==
  /\ run[p] = Idle
  /\ lock = None
  /\ pending = None
  /\ \E a \in Attempts :
       /\ backup[a] = None
       /\ backup' = [backup EXCEPT ![a] =
            [files |-> files, plain |-> plain, bridge |-> bridge, late |-> "unavailable",
             swap |-> swap, boot |-> boot]]
       /\ run' = [run EXCEPT ![p] = [prog |-> "apply", at |-> 1, tx |-> a, failures |-> FALSE]]
  /\ lock' = p
  /\ Steady /\ UNCHANGED <<host, pending, active>>

\* The lock, the plan, no transaction, and the backup of the host.
Begin(p) ==
  /\ run[p] = Idle
  /\ lock = None
  /\ active = None /\ pending = None
  /\ \E a \in Attempts :
       /\ backup[a] = None
       /\ backup' = [backup EXCEPT ![a] =
            [files |-> files, plain |-> plain, bridge |-> bridge, late |-> "unavailable",
             swap |-> swap, boot |-> boot]]
       /\ run' = [run EXCEPT ![p] = [prog |-> "apply", at |-> 1, tx |-> a, failures |-> FALSE]]
  /\ lock' = p
  /\ Steady /\ UNCHANGED <<host, pending, active>>

\* The shell creates the file and then writes the name: one step here.
WritePending(p) ==
  /\ Runs(p, <<"record", "pending">>)
  /\ pending' = run[p].tx
  /\ Advance(p)
  /\ Steady /\ UNCHANGED <<host, lock, active, backup>>

\* fstab is replaced only to disable a swap declared in it.
Install(p, f) ==
  /\ Runs(p, <<"install", f>>)
  /\ files' = files \union {f}
  /\ Advance(p)
  /\ Steady /\ UNCHANGED <<modules, plain, bridge, swap, lock, records>>

Modprobe(p) ==
  /\ Runs(p, <<"modprobe", "modules">>)
  /\ modules' = TRUE
  /\ bridge' = IF bridge = "unavailable" THEN "natural" ELSE bridge
  /\ Advance(p)
  /\ Steady /\ UNCHANGED <<files, plain, swap, lock, records>>

\* Mutant of Capture: nothing is captured.
CaptureNothing(p) ==
  /\ Runs(p, <<"capture", "bridge">>)
  /\ Advance(p)
  /\ Steady /\ UNCHANGED <<host, lock, records>>

\* The values the module brought, for sysctls the plan could not observe.  A
\* capture the manifest does not name yet is as good as one it names.
Capture(p) ==
  /\ Runs(p, <<"capture", "bridge">>)
  /\ backup' = IF Tx(p).bridge = "unavailable"
                 THEN [backup EXCEPT ![run[p].tx].late = bridge]
                 ELSE backup
  /\ Advance(p)
  /\ Steady /\ UNCHANGED <<host, lock, pending, active>>

\* sysctl -p, key by key.
Load(p) ==
  /\ \/ Runs(p, <<"load", "plain">>) /\ plain' = "desired" /\ UNCHANGED bridge
     \/ Runs(p, <<"load", "bridge">>) /\ bridge' = "desired" /\ UNCHANGED plain
  /\ Advance(p)
  /\ Steady /\ UNCHANGED <<files, modules, swap, lock, records>>

SwapOff(p) ==
  /\ Runs(p, <<"swap", "off">>)
  /\ swap' = FALSE
  /\ Advance(p)
  /\ Steady /\ UNCHANGED <<files, modules, plain, bridge, lock, records>>

\* verify_desired_host_contract
Desired ==
  /\ files = Files /\ modules
  /\ plain = "desired" /\ bridge = "desired"
  /\ ~swap

\* verify-host-prerequisites.sh --post-apply
PostApply(p) ==
  active = run[p].tx /\ pending = None /\ boot = Tx(p).boot /\ Desired

Verify(p) ==
  /\ Runs(p, <<"verify", "desired">>)
  /\ IF Desired THEN Advance(p) ELSE Restore(p, run[p].tx)
  /\ Steady /\ UNCHANGED <<host, lock, records>>

Activate(p) ==
  /\ Runs(p, <<"record", "active">>)
  /\ active' = run[p].tx
  /\ Advance(p)
  /\ Steady /\ UNCHANGED <<host, lock, pending, backup>>

Clear(p) ==
  /\ Runs(p, <<"clear", "pending">>)
  /\ pending' = None
  /\ Advance(p)
  /\ Steady /\ UNCHANGED <<host, lock, active, backup>>

VerifyActive(p) ==
  /\ Runs(p, <<"verify", "active">>)
  /\ IF PostApply(p) THEN Exit(p) ELSE Restore(p, run[p].tx) /\ UNCHANGED lock
  /\ Steady /\ UNCHANGED <<host, records>>

--------------------------------------------------------------------------------
\* rollback-host-prerequisites.sh and restore_transaction

\* check_transaction_rollback_ready: no drift, and no swap but the recorded one.
Ready(a) == backup[a].files \subseteq files /\ (swap => backup[a].swap)

\* Mutant of Referenced: an active state beside the pending record is refused.
ReferencedAlone(a) ==
  a # None /\ IF pending # None THEN a = pending /\ active = None ELSE a = active

Referenced(a) ==
  a # None /\ IF pending # None THEN a = pending /\ active \in {None, a} ELSE a = active

\* Up to the lock: the reference is checked before it.
Request(p) ==
  /\ run[p] = Idle
  /\ \E a \in Attempts :
       /\ Referenced(a) /\ Ready(a)
       /\ run' = [run EXCEPT ![p] = [prog |-> "request", at |-> 0, tx |-> a, failures |-> FALSE]]
  /\ Steady /\ UNCHANGED <<host, lock, records>>

\* flock -n
Lock(p) ==
  /\ run[p].prog = "request"
  /\ IF lock = None THEN lock' = p /\ Restore(p, run[p].tx) ELSE Exit(p)
  /\ Steady /\ UNCHANGED <<host, records>>

CheckReady(p) ==
  /\ Runs(p, <<"check", "ready">>)
  /\ IF Ready(run[p].tx) THEN Advance(p) /\ UNCHANGED lock ELSE Exit(p)
  /\ Steady /\ UNCHANGED <<host, records>>

RestoreFile(p, f) ==
  /\ Runs(p, <<"restore", f>>)
  /\ files' = IF f \in Tx(p).files THEN files \union {f} ELSE files \ {f}
  /\ Advance(p)
  /\ Steady /\ UNCHANGED <<modules, plain, bridge, swap, lock, records>>

Write(p) ==
  /\ Runs(p, <<"write", "plain">>)
  /\ plain' = Tx(p).plain
  /\ Advance(p)
  /\ Steady /\ UNCHANGED <<files, modules, bridge, swap, lock, records>>

\* transaction_old_sysctl_value: what was recorded of the net.bridge sysctls.
OldBridge(a) ==
  IF backup[a].bridge # "unavailable" THEN backup[a].bridge ELSE backup[a].late

\* A value that was never recorded is left alone; one that cannot be written is
\* a failure.
WriteBridge(p) ==
  /\ Runs(p, <<"write", "bridge">>)
  /\ LET old == OldBridge(run[p].tx)
         fails == old # "unavailable" /\ bridge = "unavailable"
     IN  /\ bridge' = IF old = "unavailable" \/ fails THEN bridge ELSE old
         /\ Proceed(p, fails)
  /\ Steady /\ UNCHANGED <<files, modules, plain, swap, lock, records>>

SwapOn(p) ==
  /\ Runs(p, <<"swap", "on">>)
  /\ swap' = (swap \/ Tx(p).swap)
  /\ Advance(p)
  /\ Steady /\ UNCHANGED <<files, modules, plain, bridge, lock, records>>

Restored(p) ==
  /\ ~run[p].failures
  /\ files = Tx(p).files
  /\ swap = Tx(p).swap
  /\ plain = Tx(p).plain
  /\ OldBridge(run[p].tx) \in {"unavailable", bridge}

VerifyRestored(p) ==
  /\ Runs(p, <<"verify", "restored">>)
  /\ IF Restored(p) THEN Advance(p) /\ UNCHANGED lock ELSE Exit(p)
  /\ Steady /\ UNCHANGED <<host, records>>

RemoveActive(p) ==
  /\ Runs(p, <<"remove", "active">>)
  /\ active' = IF active = run[p].tx THEN None ELSE active
  /\ Advance(p)
  /\ Steady /\ UNCHANGED <<host, lock, pending, backup>>

RemovePending(p) ==
  /\ Runs(p, <<"remove", "pending">>)
  /\ pending' = IF pending = run[p].tx THEN None ELSE pending
  /\ Exit(p)
  /\ Steady /\ UNCHANGED <<host, active, backup>>

--------------------------------------------------------------------------------
\* Failures.

\* A failing command: under apply the ERR trap restores, once it is installed; a
\* restore counts it and goes on, or stops where it only keeps its records.
Fail(p) ==
  /\ Mishap
  /\ run[p].prog \in DOMAIN Program
  /\ IF run[p].prog = "apply" /\ run[p].at > 1
       THEN Restore(p, run[p].tx) /\ UNCHANGED lock
     ELSE IF run[p].prog = "restore" /\ run[p].at \in 2..7
       THEN Proceed(p, TRUE) /\ UNCHANGED lock
     ELSE Exit(p)
  /\ UNCHANGED <<host, boot, records, original>>

Kill(p) ==
  /\ Mishap
  /\ run[p] # Idle
  /\ Exit(p)
  /\ UNCHANGED <<host, boot, records, original>>

Reboot ==
  /\ Mishap
  /\ boot' = boot + 1
  /\ modules' = ("modules" \in files)
  /\ plain' = Plain(files) /\ bridge' = Bridges(files)
  /\ swap' = ("fstab" \notin files)
  /\ lock' = None
  /\ run' = [p \in Shells |-> Idle]
  /\ UNCHANGED <<files, records, original>>

Apply(p) ==
  \/ WritePending(p) \/ \E f \in Files : Install(p, f)
  \/ Modprobe(p) \/ Capture(p) \/ Load(p) \/ SwapOff(p)
  \/ Verify(p) \/ Activate(p) \/ Clear(p) \/ VerifyActive(p)

Rollback(p) ==
  \/ Lock(p) \/ CheckReady(p) \/ \E f \in Files : RestoreFile(p, f)
  \/ Write(p) \/ WriteBridge(p) \/ SwapOn(p)
  \/ VerifyRestored(p) \/ RemoveActive(p) \/ RemovePending(p)

Next ==
  \/ \E p \in Shells :
       Begin(p) \/ Request(p) \/ Apply(p) \/ Rollback(p) \/ Fail(p) \/ Kill(p)
  \/ Reboot

Spec == Init /\ [][Next]_vars

\* Scripts run on, and the operator asks for the rollback of a pending
\* transaction again.
FairSpec ==
  /\ Spec
  /\ \A p \in Shells :
       WF_vars(Apply(p) \/ Rollback(p)) /\ WF_vars(pending # None /\ lock = None /\ Request(p))

--------------------------------------------------------------------------------
\* Every variable has its type.
TypeOK ==
  /\ files \in SUBSET Files
  /\ modules \in BOOLEAN /\ swap \in BOOLEAN
  /\ plain \in {"old", "desired"} /\ bridge \in Bridge
  /\ boot \in 0..MaxMishaps
  /\ lock \in Shells \union {None}
  /\ pending \in Attempts \union {None} /\ active \in Attempts \union {None}
  /\ backup \in [Attempts -> Backups \union {None}]
  /\ run \in [Shells -> [prog : {"idle", "apply", "request", "restore"}, at : 0..13,
                         tx : Attempts \union {None}, failures : BOOLEAN]]
  /\ original \in [files : SUBSET Files, swap : BOOLEAN]
  /\ mishaps \in 0..MaxMishaps

\* A host that differs from the one that was found has a record to roll back
\* from: whatever stops apply or a rollback, its files, plain sysctls and swap
\* are the original ones once neither a pending nor an active transaction is left.
ChangesAreRecorded ==
  pending = None /\ active = None =>
    /\ files = original.files
    /\ plain = Plain(original.files)
    /\ original.swap => swap

\* A pending and an active record name one transaction: neither is overwritten.
OneTransaction == pending # None /\ active # None => pending = active

\* The two records together cover every change, wherever apply or a rollback of
\* either shell stops.
RecordsHold == ChangesAreRecorded /\ OneTransaction

\* operations.md: "rollback never guesses a kernel default".  A rollback that
\* ends in the boot of its apply, with no other transaction recorded, leaves the
\* net.bridge sysctls as they were, or as the module brought them.
BridgeRestored ==
  \A p \in Shells :
    /\ Runs(p, <<"remove", "pending">>)
    /\ boot = Tx(p).boot
    /\ active = None /\ pending \in {None, run[p].tx}
    => bridge \in {Tx(p).bridge, "natural"}

\* The same for a rollback in any boot of a host without the sysctl file, which
\* prints "their natural loaded values remain until reboot".
NaturalValuesRemain ==
  \A p \in Shells :
    Runs(p, <<"remove", "pending">>) /\ "sysctl" \notin Tx(p).files
    => bridge \in {Tx(p).bridge, "natural"}

\* A pending transaction does not stay pending while its rollback is asked for,
\* unless a reboot took away the module whose sysctls it recorded, or brought
\* back a swap that was declared and off.
PendingEnds ==
  pending # None ~>
    \/ pending = None
    \/ OldBridge(pending) # "unavailable" /\ bridge = "unavailable"
    \/ swap /\ ~backup[pending].swap
================================================================================
