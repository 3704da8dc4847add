------------------------------ MODULE EtcdSnapshot ------------------------------
(***************************************************************************)
(* bootstrap/pi/etcd-snapshot.sh --apply, run by the six-hour timer and by   *)
(* operators over one snapshot directory, under a non-blocking lock.        *)
(*                                                                         *)
(* A snapshot is its name, the second of the clock at which its run chose   *)
(* it: names sort as numbers do.  A partial is named after the snapshot and *)
(* the process.  The script does not sync the directory: the kernel commits *)
(* it at some moment, and a power loss returns to what was committed.       *)
(* Owners, modes and the directory's mount, which every run checks first,   *)
(* do not change; --check changes nothing and is left out.                 *)
(***************************************************************************)
EXTENDS Naturals, FiniteSets

CONSTANTS
  Procs,       \* the timer's service and operators
  None,        \* no lock holder, no name
  Keep,        \* snapshots retained: 14 in the source
  MaxTime,     \* bound on the clock
  MaxMishaps   \* bound on failures, signals, kills, power losses and clock steps

ASSUME ProcAssumption == None \notin Procs
ASSUME NameAssumption == None \notin Nat
ASSUME KeepAssumption == Keep \in Nat \ {0}
ASSUME BoundAssumption == MaxTime \in Nat /\ MaxMishaps \in Nat

VARIABLES
  files,       \* the snapshots in the directory
  partials,    \* the partials in it, as <<snapshot, process>>
  disk,        \* the contents last committed, as <<files, partials>>
  now,         \* the clock
  lock,        \* holder of website-infrastructure-etcd-snapshot.lock
  run,         \* per process: the next step, the name chosen, the files to remove
  latest,      \* the last snapshot put in place, until a power loss
  mishaps,     \* failures of all kinds so far
  kills        \* of these, kills and power losses

dir == <<files, partials, disk>>
vars == <<dir, now, lock, run, latest, mishaps, kills>>

Times == 0..MaxTime
Steps == {"idle", "validate", "name", "save", "verify", "promote", "final",
          "list", "remove", "recheck"}
Idle == [at |-> "idle", name |-> None, victims |-> {}]

Fault(k) == mishaps < MaxMishaps /\ mishaps' = mishaps + 1 /\ kills' = kills + k
Failure == Fault(0)
Killing == Fault(1)

Init ==
  /\ files = {} /\ partials = {} /\ disk = <<{}, {}>>
  /\ now = 0
  /\ lock = None
  /\ run = [p \in Procs |-> Idle]
  /\ latest = None
  /\ mishaps = 0 /\ kills = 0

--------------------------------------------------------------------------------
At(p, step) == run[p].at = step
Goto(p, step) == run' = [run EXCEPT ![p].at = step]

\* The process ends; the lock goes with it.
Exit(p) ==
  /\ run' = [run EXCEPT ![p] = Idle]
  /\ lock' = IF lock = p THEN None ELSE lock

\* The EXIT trap.
Cleanup(p) == partials' = partials \ {<<run[p].name, p>>}

Die(p) == Exit(p) /\ Cleanup(p) /\ UNCHANGED <<files, disk>>

\* Mutant of Begin: flock is taken for granted.
BeginUnlocked(p) ==
  /\ At(p, "idle")
  /\ lock' = p
  /\ Goto(p, "validate")
  /\ UNCHANGED <<dir, now, latest, mishaps, kills>>

Begin(p) ==
  /\ At(p, "idle")
  /\ lock = None
  /\ lock' = p
  /\ Goto(p, "validate")
  /\ UNCHANGED <<dir, now, latest, mishaps, kills>>

\* validate_snapshot_files no: nothing but complete snapshots.
Validate(p) ==
  /\ At(p, "validate")
  /\ IF partials = {} THEN Goto(p, "name") /\ UNCHANGED <<lock, dir>> ELSE Die(p)
  /\ UNCHANGED <<now, latest, mishaps, kills>>

Name(p) ==
  /\ At(p, "name")
  /\ IF now \in files
       THEN Die(p)
       ELSE run' = [run EXCEPT ![p].at = "save", ![p].name = now] /\ UNCHANGED <<lock, dir>>
  /\ UNCHANGED <<now, latest, mishaps, kills>>

Save(p) ==
  /\ At(p, "save")
  /\ partials' = partials \union {<<run[p].name, p>>}
  /\ Goto(p, "verify")
  /\ UNCHANGED <<files, disk, now, lock, latest, mishaps, kills>>

Verify(p) ==
  /\ At(p, "verify")
  /\ Goto(p, "promote")
  /\ UNCHANGED <<dir, now, lock, latest, mishaps, kills>>

Promote(p) ==
  /\ At(p, "promote")
  /\ files' = files \union {run[p].name}
  /\ partials' = partials \ {<<run[p].name, p>>}
  /\ latest' = run[p].name
  /\ Goto(p, "final")
  /\ UNCHANGED <<disk, now, lock, mishaps, kills>>

\* The second etcdutl status passes.
Final(p) ==
  /\ At(p, "final")
  /\ Goto(p, "list")
  /\ UNCHANGED <<dir, now, lock, latest, mishaps, kills>>

\* It fails: the snapshot is removed and the run dies.
FinalFails(p) ==
  /\ Failure
  /\ At(p, "final")
  /\ files' = files \ {run[p].name}
  /\ latest' = None
  /\ Exit(p)
  /\ UNCHANGED <<partials, disk, now>>

\* Mutants of Beyond: sort without -r; index = 13.
BeyondOldest == {n \in files : Cardinality({m \in files : m < n}) >= Keep}
BeyondOffByOne == {n \in files : Cardinality({m \in files : m > n}) >= Keep - 1}

\* The names after the first Keep, newest name first.
Beyond == {n \in files : Cardinality({m \in files : m > n}) >= Keep}

List(p) ==
  /\ At(p, "list")
  /\ run' = [run EXCEPT ![p].at = "remove", ![p].victims = Beyond]
  /\ UNCHANGED <<dir, now, lock, latest, mishaps, kills>>

\* One rm per victim, newest name first; a victim that is gone ends the run.
Remove(p) ==
  /\ At(p, "remove")
  /\ \E n \in run[p].victims :
       /\ \A m \in run[p].victims : m <= n
       /\ IF n \in files
            THEN /\ files' = files \ {n}
                 /\ run' = [run EXCEPT ![p].victims = @ \ {n}]
                 /\ UNCHANGED <<lock, partials, disk>>
            ELSE Die(p)
  /\ UNCHANGED <<now, latest, mishaps, kills>>

Removed(p) ==
  /\ At(p, "remove")
  /\ run[p].victims = {}
  /\ Goto(p, "recheck")
  /\ UNCHANGED <<dir, now, lock, latest, mishaps, kills>>

\* validate_snapshot_files yes
Retained == partials = {} /\ Cardinality(files) \in 1..Keep

\* The run ends with its PASS line, or dies.
Recheck(p) ==
  /\ At(p, "recheck")
  /\ IF Retained THEN Exit(p) /\ UNCHANGED dir ELSE Die(p)
  /\ UNCHANGED <<now, latest, mishaps, kills>>

--------------------------------------------------------------------------------
\* The environment.

\* A command fails or a signal arrives: the EXIT trap runs.
Fail(p) ==
  /\ Failure
  /\ ~At(p, "idle")
  /\ Die(p)
  /\ UNCHANGED <<now, latest>>

\* SIGKILL, also while etcdctl is still saving.
Kill(p) ==
  /\ Killing
  /\ ~At(p, "idle")
  /\ Exit(p)
  /\ IF At(p, "save")
       THEN partials' \in {partials, partials \union {<<run[p].name, p>>}}
       ELSE UNCHANGED partials
  /\ UNCHANGED <<files, disk, now, latest>>

PowerLoss ==
  /\ Killing
  /\ files' = disk[1] /\ partials' = disk[2]
  /\ lock' = None
  /\ run' = [p \in Procs |-> Idle]
  /\ latest' = None
  /\ UNCHANGED <<disk, now>>

Commit ==
  /\ disk' = <<files, partials>>
  /\ UNCHANGED <<files, partials, now, lock, run, latest, mishaps, kills>>

Tick ==
  /\ now < MaxTime
  /\ now' = now + 1
  /\ UNCHANGED <<dir, lock, run, latest, mishaps, kills>>

ClockBack ==
  /\ Failure
  /\ now' \in 0..now /\ now' # now
  /\ UNCHANGED <<dir, lock, run, latest>>

Apply(p) ==
  \/ Begin(p) \/ Validate(p) \/ Name(p) \/ Save(p) \/ Verify(p) \/ Promote(p)
  \/ Final(p) \/ FinalFails(p) \/ List(p) \/ Remove(p) \/ Removed(p) \/ Recheck(p)

Next ==
  \/ \E p \in Procs : Apply(p) \/ Fail(p) \/ Kill(p)
  \/ PowerLoss \/ Commit \/ Tick \/ ClockBack

Spec == Init /\ [][Next]_vars

--------------------------------------------------------------------------------
Contents == (SUBSET Times) \X SUBSET (Times \X Procs)

\* Every variable has its type.
TypeOK ==
  /\ <<files, partials>> \in Contents
  /\ disk \in Contents
  /\ now \in Times
  /\ lock \in Procs \union {None}
  /\ run \in [Procs -> [at : Steps, name : Times \union {None}, victims : SUBSET Times]]
  /\ latest \in Times \union {None}
  /\ mishaps \in 0..MaxMishaps /\ kills \in 0..mishaps

\* "Deletes at most the oldest beyond 14": whatever runs were interrupted before
\* it, retention leaves the Keep newest names (a run may also remove its own
\* snapshot, and a power loss return to an earlier directory).
RetentionSparesNewest ==
  [][\A n \in files \ files' :
       \/ Cardinality({m \in files' : m > n}) >= Keep
       \/ \E p \in Procs : At(p, "final") /\ run[p].name = n
       \/ PowerLoss]_vars

\* The last snapshot put in place is in the directory, unless as many as are
\* retained have later names: a clock that went back is what it takes to lose it.
LatestRetained ==
  latest # None =>
    latest \in files \/ Cardinality({n \in files : n > latest}) >= Keep

\* However many interrupted runs left snapshots behind, the retention of a later
\* run succeeds: its last check cannot fail.
RetentionSucceeds == \A p \in Procs : At(p, "recheck") => Retained

\* A partial outlives its run only after a kill or a power loss, and the lock and
\* the check that starts every run keep it the only one.
PartialsCleaned ==
  /\ Cardinality(partials) <= 1
  /\ kills = 0 => \A d \in partials : lock = d[2] /\ run[d[2]].name = d[1]

\* A run that nothing disturbs ends with its PASS line, whatever failed runs left
\* behind, unless its second already named a snapshot (etcd-snapshot.sh:203).  After
\* a SIGKILL or a power loss it may also find the partial that the EXIT trap did not
\* remove, and then it dies at its first check, as every later run does
\* (etcd-snapshot.sh:146).
UndisturbedRunsPass ==
  [][\A p \in Procs :
       ~At(p, "idle") /\ At(p, "idle")' /\ mishaps' = mishaps =>
         \/ At(p, "recheck") /\ Retained
         \/ At(p, "name") /\ now \in files
         \/ At(p, "validate") /\ partials # {} /\ kills # 0]_vars
================================================================================
