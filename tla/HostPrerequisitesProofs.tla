------------------------ MODULE HostPrerequisitesProofs ------------------------
(***************************************************************************)
(* Proofs about HostPrerequisites, for any shells, attempts and mishaps.    *)
(*                                                                         *)
(* The argument.  A script works only under the lock (Placed), and the      *)
(* records name one transaction (Named).  A transaction starts only where   *)
(* nothing is recorded, and there the host is the one that was found; so    *)
(* every transaction backs up that same host, and a rollback of any of      *)
(* them, even of one that is long over, restores it (OneOriginal).          *)
(*                                                                         *)
(* The net.bridge sysctls have no such fixed value: a boot changes them, and *)
(* a transaction may have captured them or not.  Instead the transactions   *)
(* that still matter in a boot agree about them (Bridged): where one knows  *)
(* the value, no other expects a different one, and a recorded transaction  *)
(* that does not know it yet is the only one that could.                    *)
(***************************************************************************)
EXTENDS HostPrerequisites, TLAPS

At(p, s, n) == run[p].prog = s /\ run[p].at = n
From(p, s, n) == run[p].prog = s /\ run[p].at >= n
Working(p) == run[p].prog \in {"apply", "restore"}

Recorded(a) == a # None /\ a \in {pending, active}
Quiet == pending = None /\ active = None

\* A shell at work holds the lock, and has a transaction that was backed up.
Placed ==
  \A p \in Shells :
    /\ run[p].prog = "idle" => run[p] = Idle
    /\ run[p].prog # "idle" => run[p].tx \in Attempts /\ backup[run[p].tx] # None
    /\ run[p].prog = "apply" => run[p].at \in 1..13
    /\ run[p].prog = "restore" => run[p].at \in 1..10
    /\ Working(p) <=> lock = p

\* A record names one transaction, which was backed up.
Named ==
  /\ OneTransaction
  /\ \A a \in Attempts : Recorded(a) => backup[a] # None

\* What apply has recorded when it comes to an instruction.
Applying ==
  \A p \in Shells :
    /\ run[p].prog = "apply" => Tx(p).boot = boot
    /\ At(p, "apply", 1) => Quiet /\ Tx(p).bridge = bridge
    /\ run[p].prog = "apply" /\ run[p].at \in 2..12 => pending = run[p].tx
    /\ From(p, "apply", 12) => active = run[p].tx
    /\ run[p].prog = "apply" /\ run[p].at <= 5 => Tx(p).late = "unavailable"
    /\ At(p, "apply", 5) => bridge # "unavailable"
    /\ From(p, "apply", 6) => OldBridge(run[p].tx) # "unavailable"

\* The files, the plain sysctls and the swap the host was found with.
Untouched(f, pl, s) ==
  f = original.files /\ pl = Plain(original.files) /\ (original.swap => s)

\* Every transaction backs up the same host: it starts from an untouched one.
OneOriginal ==
  /\ Quiet => Untouched(files, plain, swap)
  /\ \A a \in Attempts : backup[a] # None =>
       /\ Untouched(backup[a].files, backup[a].plain, backup[a].swap)
       /\ backup[a].boot <= boot
       /\ \/ backup[a].late = "unavailable"
          \/ backup[a].bridge = "unavailable" /\ backup[a].late = "natural"
  /\ \A p \in Shells : From(p, "restore", 9) =>
       /\ Untouched(files, plain, swap)
       /\ OldBridge(run[p].tx) \in {"unavailable", bridge}

\* A transaction that matters in this boot: recorded, of this boot, or what a
\* shell is at, a request that waits for the lock included.
Live(a) ==
  /\ backup[a] # None
  /\ \/ Recorded(a)
     \/ backup[a].boot = boot
     \/ \E p \in Shells : run[p].tx = a

Known(a) == OldBridge(a) # "unavailable"

\* The net.bridge sysctls a transaction was started on.
Base(a) == IF Known(a) THEN {OldBridge(a)}
           ELSE IF backup[a].boot = boot THEN {"unavailable", "natural"}
           ELSE Bridge

\* Live transactions agree about those sysctls, and they are so when nothing is
\* recorded, or when the recorded transaction has not captured them.
Bridged ==
  /\ \A a, c \in Attempts : Live(a) /\ Live(c) /\ Known(a) => OldBridge(a) \in Base(c)
  /\ Quiet => \A a \in Attempts : Live(a) => bridge \in Base(a)
  /\ \A a \in Attempts : Recorded(a) /\ ~Known(a) =>
       \A c \in Attempts : Live(c) => ~Known(c) /\ bridge \in Base(c)

\* Each boot is a mishap.
Counted == boot <= mishaps

\* No swap is active on the host it was found with but one that fstab declares.
Declared == original.swap => "fstab" \notin original.files

IInv == /\ TypeOK /\ Counted /\ Declared /\ Placed /\ Named /\ Applying /\ OneOriginal /\ Bridged

--------------------------------------------------------------------------------
\* apply-host-prerequisites.sh, instruction by instruction.
LEMMA ApplyProgram ==
  ASSUME NEW n \in 1..13, NEW x, NEW y, Program["apply"][n] = <<x, y>>
  PROVE
   \/ n = 1 /\ x = "record" /\ y = "pending"
   \/ n = 2 /\ x = "install" /\ y = "modules"
   \/ n = 3 /\ x = "install" /\ y = "sysctl"
   \/ n = 4 /\ x = "modprobe" /\ y = "modules"
   \/ n = 5 /\ x = "capture" /\ y = "bridge"
   \/ n = 6 /\ x = "load" /\ y = "plain"
   \/ n = 7 /\ x = "load" /\ y = "bridge"
   \/ n = 8 /\ x = "install" /\ y = "fstab"
   \/ n = 9 /\ x = "swap" /\ y = "off"
   \/ n = 10 /\ x = "verify" /\ y = "desired"
   \/ n = 11 /\ x = "record" /\ y = "active"
   \/ n = 12 /\ x = "clear" /\ y = "pending"
   \/ n = 13 /\ x = "verify" /\ y = "active"
BY DEF Program

\* restore_transaction and the records of a rollback, instruction by instruction.
LEMMA RestoreProgram ==
  ASSUME NEW n \in 1..10, NEW x, NEW y, Program["restore"][n] = <<x, y>>
  PROVE
   \/ n = 1 /\ x = "check" /\ y = "ready"
   \/ n = 2 /\ x = "restore" /\ y = "modules"
   \/ n = 3 /\ x = "restore" /\ y = "sysctl"
   \/ n = 4 /\ x = "restore" /\ y = "fstab"
   \/ n = 5 /\ x = "write" /\ y = "plain"
   \/ n = 6 /\ x = "write" /\ y = "bridge"
   \/ n = 7 /\ x = "swap" /\ y = "on"
   \/ n = 8 /\ x = "verify" /\ y = "restored"
   \/ n = 9 /\ x = "remove" /\ y = "active"
   \/ n = 10 /\ x = "remove" /\ y = "pending"
BY DEF Program

\* Where a shell is that runs an instruction.
LEMMA Places ==
  ASSUME NEW p \in Shells, NEW x, NEW y, TypeOK, Placed, Runs(p, <<x, y>>)
  PROVE
   /\ Working(p) /\ run[p].tx \in Attempts /\ backup[run[p].tx] # None
   /\ \/ x = "record" /\ y = "pending" /\ At(p, "apply", 1)
      \/ x = "install" /\ At(p, "apply", 2)
      \/ x = "install" /\ At(p, "apply", 3)
      \/ x = "modprobe" /\ At(p, "apply", 4)
      \/ x = "capture" /\ At(p, "apply", 5)
      \/ x = "load" /\ y = "plain" /\ At(p, "apply", 6)
      \/ x = "load" /\ y = "bridge" /\ At(p, "apply", 7)
      \/ x = "install" /\ At(p, "apply", 8)
      \/ x = "swap" /\ y = "off" /\ At(p, "apply", 9)
      \/ x = "verify" /\ y = "desired" /\ At(p, "apply", 10)
      \/ x = "record" /\ y = "active" /\ At(p, "apply", 11)
      \/ x = "clear" /\ At(p, "apply", 12)
      \/ x = "verify" /\ y = "active" /\ At(p, "apply", 13)
      \/ x = "check" /\ At(p, "restore", 1)
      \/ x = "restore" /\ run[p].prog = "restore" /\ run[p].at \in 2..4
      \/ x = "write" /\ y = "plain" /\ At(p, "restore", 5)
      \/ x = "write" /\ y = "bridge" /\ At(p, "restore", 6)
      \/ x = "swap" /\ y = "on" /\ At(p, "restore", 7)
      \/ x = "verify" /\ y = "restored" /\ At(p, "restore", 8)
      \/ x = "remove" /\ y = "active" /\ At(p, "restore", 9)
      \/ x = "remove" /\ y = "pending" /\ At(p, "restore", 10)
<1>1. run[p].prog \in {"apply", "restore"}
  BY DEF Runs, Program
<1>2. Program[run[p].prog][run[p].at] = <<x, y>>
  BY DEF Runs
<1>3. Working(p) /\ run[p].tx \in Attempts /\ backup[run[p].tx] # None
  BY <1>1 DEF Placed, Working
<1>4. CASE run[p].prog = "apply"
  <2>1. run[p].at \in 1..13 /\ Program["apply"][run[p].at] = <<x, y>>
    BY <1>2, <1>4 DEF Placed
  <2> QED BY <1>3, <1>4, <2>1, ApplyProgram DEF At
<1>5. CASE run[p].prog = "restore"
  <2>1. run[p].at \in 1..10 /\ Program["restore"][run[p].at] = <<x, y>>
    BY <1>2, <1>5 DEF Placed
  <2> QED BY <1>3, <1>5, <2>1, RestoreProgram DEF At
<1> QED BY <1>1, <1>4, <1>5

\* The set of the values of run.
Runners == [prog : {"idle", "apply", "request", "restore"}, at : 0..13,
            tx : Attempts \union {None}, failures : BOOLEAN]

--------------------------------------------------------------------------------
\* A script at work is the only one, and its transaction was backed up.
LEMMA Alone ==
  ASSUME IInv, NEW p \in Shells, Working(p)
  PROVE  /\ lock = p /\ run[p].tx \in Attempts /\ run[p].tx # None
         /\ backup[run[p].tx] # None /\ backup[run[p].tx] \in Backups
         /\ \A q \in Shells : q # p => ~Working(q)
         /\ Live(run[p].tx)
<1>1. lock = p /\ \A q \in Shells : q # p => ~Working(q)
  BY DEF IInv, Placed
<1>2. run[p].tx \in Attempts /\ backup[run[p].tx] # None
  BY DEF IInv, Placed, Working
<1>3. run[p].tx # None
  BY <1>2, AttemptAssumption
<1>4. backup[run[p].tx] \in Backups
  BY <1>2 DEF IInv, TypeOK
<1>5. Live(run[p].tx)
  BY <1>2 DEF Live
<1> QED BY <1>1, <1>2, <1>3, <1>4, <1>5

\* The shells' part of a step of p.
LEMMA ProceedControl ==
  ASSUME IInv, NEW p \in Shells, Working(p), NEW fl \in BOOLEAN, Proceed(p, fl),
         ~At(p, "apply", 13), ~At(p, "restore", 10), UNCHANGED lock,
         \A a \in Attempts : backup[a] # None => backup'[a] # None
  PROVE  /\ run' \in [Shells -> Runners]
         /\ Placed'
         /\ run'[p].prog = run[p].prog /\ run'[p].at = run[p].at + 1
         /\ run'[p].tx = run[p].tx
         /\ \A q \in Shells : q # p => run'[q] = run[q]
         /\ \A q \in Shells : run'[q].tx = run[q].tx
<1>1. run \in [Shells -> Runners]
  BY DEF IInv, TypeOK, Runners
<1>2. run' = [run EXCEPT ![p] = [prog |-> run[p].prog, at |-> run[p].at + 1,
                                 tx |-> run[p].tx, failures |-> run[p].failures \/ fl]]
  BY Zenon DEF Proceed
<1>3. run[p].at + 1 \in 0..13
  BY <1>1 DEF IInv, Placed, Working, At, Runners
<1>4. [prog |-> run[p].prog, at |-> run[p].at + 1, tx |-> run[p].tx,
       failures |-> run[p].failures \/ fl] \in Runners
  <2>1. run[p].failures \/ fl \in BOOLEAN
    BY <1>1, Zenon
  <2>2. run[p] \in Runners
    BY <1>1
  <2> QED BY <1>3, <2>1, <2>2 DEF Runners
<1>5. run' \in [Shells -> Runners]
  BY <1>1, <1>2, <1>4, Zenon
<1>6. /\ run'[p].prog = run[p].prog /\ run'[p].at = run[p].at + 1 /\ run'[p].tx = run[p].tx
      /\ \A q \in Shells : q # p => run'[q] = run[q]
  BY <1>1, <1>2
<1>7. Placed'
  BY <1>6 DEF IInv, Placed, Working, At
<1> QED BY <1>5, <1>6, <1>7

\* The same for a rollback that starts: of what p is at, or requested.
LEMMA RestoreControl ==
  ASSUME IInv, NEW p \in Shells, Restore(p, run[p].tx), lock' = p,
         run[p].tx \in Attempts, backup[run[p].tx] # None, lock \in {None, p},
         UNCHANGED backup
  PROVE  /\ run' \in [Shells -> Runners]
         /\ Placed'
         /\ run'[p].prog = "restore" /\ run'[p].at = 1 /\ run'[p].tx = run[p].tx
         /\ \A q \in Shells : q # p => run'[q] = run[q]
<1>1. run \in [Shells -> Runners]
  BY DEF IInv, TypeOK, Runners
<1>2. run' = [run EXCEPT ![p] = [prog |-> "restore", at |-> 1, tx |-> run[p].tx,
                                 failures |-> FALSE]]
  BY Zenon DEF Restore
<1>3. [prog |-> "restore", at |-> 1, tx |-> run[p].tx, failures |-> FALSE] \in Runners
  BY DEF Runners
<1>4. run' \in [Shells -> Runners]
  BY <1>1, <1>2, <1>3, Zenon
<1>5. /\ run'[p].prog = "restore" /\ run'[p].at = 1 /\ run'[p].tx = run[p].tx
      /\ \A q \in Shells : q # p => run'[q] = run[q]
  BY <1>1, <1>2
<1>6. Placed'
  BY <1>5, ShellAssumption DEF IInv, Placed, Working
<1> QED BY <1>4, <1>5, <1>6

\* The same for a script that ends, whatever ends it.
LEMMA ExitControl ==
  ASSUME IInv, NEW p \in Shells, Exit(p),
         \A a \in Attempts : backup[a] # None => backup'[a] # None
  PROVE  /\ run' \in [Shells -> Runners] /\ lock' \in Shells \union {None}
         /\ Placed'
         /\ run'[p] = Idle
         /\ \A q \in Shells : q # p => run'[q] = run[q]
<1>1. run \in [Shells -> Runners]
  BY DEF IInv, TypeOK, Runners
<1>2. run' = [run EXCEPT ![p] = Idle] /\ lock' = IF lock = p THEN None ELSE lock
  BY Zenon DEF Exit
<1>3. Idle \in Runners
  BY DEF Runners, Idle
<1>4. run' \in [Shells -> Runners]
  BY <1>1, <1>2, <1>3, Zenon
<1>5. run'[p] = Idle /\ \A q \in Shells : q # p => run'[q] = run[q]
  BY <1>1, <1>2
<1>6. lock' \in Shells \union {None}
  BY <1>2 DEF IInv, TypeOK
<1>7. run'[p].prog = "idle"
  BY <1>5 DEF Idle
<1>8. \A q \in Shells : Working(q)' <=> lock' = q
  BY <1>2, <1>5, <1>7, ShellAssumption DEF IInv, Placed, Working
<1>9. Placed'
  BY <1>5, <1>7, <1>8 DEF IInv, Placed
<1> QED BY <1>4, <1>5, <1>6, <1>9

\* No transaction comes alive by a step that starts none.
LEMMA LiveSteady ==
  ASSUME UNCHANGED <<backup, boot>>,
         \A q \in Shells : run'[q].tx \in {run[q].tx, None} \/ Recorded(run'[q].tx),
         \A a \in Attempts : Recorded(a)' => Live(a)
  PROVE  \A a \in Attempts : Live(a)' => Live(a)
BY AttemptAssumption DEF Live, Recorded

\* What is left to show of Bridged for a step that keeps the backups.
LEMMA BridgedStep ==
  ASSUME Bridged, UNCHANGED <<backup, boot>>,
         \A a \in Attempts : Live(a)' => Live(a),
         Quiet' => \A a \in Attempts : Live(a) => bridge' \in Base(a),
         \A a \in Attempts : Recorded(a)' /\ ~Known(a) =>
           \A c \in Attempts : Live(c) => ~Known(c) /\ bridge' \in Base(c)
  PROVE  Bridged'
<1>1. \A a \in Attempts : (Known(a)' <=> Known(a)) /\ OldBridge(a)' = OldBridge(a)
                          /\ Base(a)' = Base(a)
  BY DEF Known, OldBridge, Base
<1>2. ASSUME NEW a \in Attempts, NEW c \in Attempts, Live(a)', Live(c)', Known(a)'
      PROVE  OldBridge(a)' \in Base(c)'
  BY <1>1, <1>2, Zenon DEF Bridged
<1>3. ASSUME Quiet', NEW a \in Attempts, Live(a)'
      PROVE  bridge' \in Base(a)'
  BY <1>1, <1>3, Zenon
<1>4. ASSUME NEW a \in Attempts, Recorded(a)', ~Known(a)', NEW c \in Attempts, Live(c)'
      PROVE  ~Known(c)' /\ bridge' \in Base(c)'
  BY <1>1, <1>4, Zenon
<1> QED BY <1>2, <1>3, <1>4, Zenon DEF Bridged

\* A step of p that changes only what p is at: to less.
LEMMA Withdrawn ==
  ASSUME IInv, NEW p \in Shells, UNCHANGED <<host, boot, records, original>>,
         \A q \in Shells : q # p => run'[q] = run[q],
         run'[p].tx \in {run[p].tx, None} \/ Recorded(run'[p].tx),
         run'[p].prog # "apply", ~From(p, "restore", 9)'
  PROVE  (Named /\ Applying /\ OneOriginal /\ Bridged)'
<1> USE DEF host, records
<1>1. Named'
  BY DEF IInv, Named, OneTransaction, Recorded
<1>2. Applying'
  BY DEF IInv, Applying, At, From, Tx, OldBridge, Quiet
<1>3. OneOriginal'
  BY DEF IInv, OneOriginal, Quiet, Untouched, From, OldBridge
<1>4. \A a \in Attempts : Live(a)' => Live(a)
  <2>1. \A q \in Shells : run'[q].tx \in {run[q].tx, None} \/ Recorded(run'[q].tx)
    OBVIOUS
  <2>2. \A a \in Attempts : Recorded(a)' => Live(a)
    BY DEF Recorded, Live, IInv, Named
  <2> QED BY <2>1, <2>2, LiveSteady, Zenon
<1>5. Bridged'
  <2>1. Bridged /\ UNCHANGED <<backup, boot, bridge, pending, active>>
    BY DEF IInv
  <2> QED BY <2>1, <1>4, BridgedStep, Zenon DEF Bridged, Quiet, Recorded
<1> QED BY <1>1, <1>2, <1>3, <1>5

\* The types of the host.
HostOK == /\ files \in SUBSET Files /\ modules \in BOOLEAN /\ swap \in BOOLEAN
          /\ plain \in {"old", "desired"} /\ bridge \in Bridge

\* The types of a step that keeps the records.
LEMMA TypeStep ==
  ASSUME IInv, HostOK', run' \in [Shells -> Runners], lock' \in Shells \union {None},
         UNCHANGED <<boot, records, original>>, mishaps' \in mishaps..MaxMishaps
  PROVE  TypeOK' /\ Counted' /\ Declared'
<1>1. UNCHANGED <<boot, pending, active, backup, original>>
  BY DEF records
<1>2. Counted' /\ mishaps' \in 0..MaxMishaps
  BY <1>1, MishapAssumption DEF IInv, Counted, TypeOK
<1>3. TypeOK'
  BY <1>1, <1>2, Zenon DEF IInv, TypeOK, HostOK, Runners
<1>4. Declared'
  BY <1>1 DEF IInv, Declared
<1> QED BY <1>2, <1>3, <1>4

\* The types of a step that writes or removes a record.
LEMMA TypeRecords ==
  ASSUME IInv, HostOK', run' \in [Shells -> Runners], lock' \in Shells \union {None},
         pending' \in Attempts \union {None}, active' \in Attempts \union {None},
         UNCHANGED <<boot, backup, original, mishaps>>
  PROVE  TypeOK' /\ Counted' /\ Declared'
<1>1. Counted' /\ mishaps' \in 0..MaxMishaps /\ boot' \in 0..MaxMishaps
  BY DEF IInv, Counted, TypeOK
<1>2. Declared'
  BY DEF IInv, Declared
<1>3. TypeOK'
  BY <1>1, Zenon DEF IInv, TypeOK, HostOK, Runners
<1> QED BY <1>1, <1>2, <1>3

\* Apply goes on with the host changed: its transaction is pending, so that the
\* net.bridge sysctls matter only until they are captured.
LEMMA ApplyStep ==
  ASSUME IInv, NEW p \in Shells, run[p].prog = "apply",
         run[p].at \in 2..10, Proceed(p, FALSE),
         UNCHANGED <<boot, records, original, lock, mishaps>>, HostOK',
         run[p].at = 4 => bridge' # "unavailable",
         run[p].at = 5 => Known(run[p].tx),
         bridge' \in {bridge, "natural"} \/ Known(run[p].tx)
  PROVE  IInv'
<1>1. Working(p) /\ ~At(p, "apply", 13) /\ ~At(p, "restore", 10)
  BY DEF Working, At
<1>2. UNCHANGED <<boot, pending, active, backup, original, lock, mishaps>>
  BY DEF records
<1>3. /\ run' \in [Shells -> Runners] /\ Placed'
      /\ run'[p].prog = run[p].prog /\ run'[p].at = run[p].at + 1
      /\ run'[p].tx = run[p].tx
      /\ \A q \in Shells : q # p => run'[q] = run[q]
      /\ \A q \in Shells : run'[q].tx = run[q].tx
  BY <1>1, <1>2, ProceedControl, Zenon
<1>4. /\ run[p].tx \in Attempts /\ run[p].tx # None /\ Live(run[p].tx)
      /\ \A q \in Shells : q # p => ~Working(q)
  BY <1>1, Alone
<1>5. pending = run[p].tx /\ \A a \in Attempts : Recorded(a) => a = run[p].tx
  BY <1>4 DEF IInv, Applying, Named, OneTransaction, Recorded
<1>6. TypeOK' /\ Counted' /\ Declared'
  <2>1. lock' \in Shells \union {None} /\ mishaps' \in mishaps..MaxMishaps
    BY <1>2 DEF IInv, TypeOK
  <2>2. UNCHANGED <<boot, records, original>>
    OBVIOUS
  <2> QED BY <1>3, <2>1, <2>2, TypeStep, Zenon
<1>7. Named'
  BY <1>2 DEF IInv, Named, OneTransaction, Recorded
<1>8. Applying'
  <2>1. \A q \in Shells : q # p => run'[q].prog # "apply"
    BY <1>3, <1>4 DEF Working
  <2> QED BY <1>2, <1>3, <2>1 DEF IInv, Applying, At, From, Tx, OldBridge, Known
<1>9. OneOriginal'
  <2>1. \A q \in Shells : ~From(q, "restore", 9)'
    BY <1>3, <1>4 DEF Working, From
  <2> QED BY <1>2, <1>4, <1>5, <2>1 DEF IInv, OneOriginal, Quiet, Untouched
<1>10. Bridged'
  <2>1. \A a \in Attempts : Live(a)' => Live(a)
    <3>1. \A a \in Attempts : Recorded(a)' => Live(a)
      BY <1>2 DEF Recorded, Live, IInv, Named
    <3>2. \A q \in Shells : run'[q].tx \in {run[q].tx, None}
      BY <1>3
    <3> QED BY <1>2, <3>1, <3>2, LiveSteady, Zenon
  <2>2. ~Quiet'
    BY <1>2, <1>4, <1>5 DEF Quiet
  <2>3. ASSUME NEW a \in Attempts, Recorded(a)', ~Known(a), NEW c \in Attempts, Live(c)
        PROVE  ~Known(c) /\ bridge' \in Base(c)
    <3>1. Recorded(a) /\ a = run[p].tx
      BY <1>2, <1>5, <2>3 DEF Recorded
    <3>2. ~Known(c) /\ bridge \in Base(c)
      BY <2>3, <3>1, Zenon DEF IInv, Bridged
    <3>3. "natural" \in Base(c)
      BY <3>2 DEF Base, Bridge
    <3> QED BY <2>3, <3>1, <3>2, <3>3
  <2>4. Bridged /\ UNCHANGED <<backup, boot>>
    BY <1>2 DEF IInv
  <2> QED BY <2>1, <2>2, <2>3, <2>4, BridgedStep, Zenon
<1> QED BY <1>3, <1>6, <1>7, <1>8, <1>9, <1>10 DEF IInv

\* A rollback goes on.  It changes nothing where nothing is recorded, and sets the
\* net.bridge sysctls to what is known of them only.
LEMMA RestoreStep ==
  ASSUME IInv, NEW p \in Shells, run[p].prog = "restore", run[p].at \in 1..8,
         NEW fl \in BOOLEAN, Proceed(p, fl),
         UNCHANGED <<boot, records, original, lock>>, HostOK',
         mishaps' \in mishaps..MaxMishaps,
         Quiet => UNCHANGED <<files, plain>> /\ (swap => swap'),
         bridge' = bridge \/ (Known(run[p].tx) /\ bridge' = OldBridge(run[p].tx)),
         run[p].at = 8 =>
           Untouched(files, plain, swap)' /\ OldBridge(run[p].tx) \in {"unavailable", bridge'}
  PROVE  IInv'
<1>1. Working(p) /\ ~At(p, "apply", 13) /\ ~At(p, "restore", 10)
  BY DEF Working, At
<1>2. UNCHANGED <<boot, pending, active, backup, original, lock>>
  BY DEF records
<1>3. /\ run' \in [Shells -> Runners] /\ Placed'
      /\ run'[p].prog = run[p].prog /\ run'[p].at = run[p].at + 1
      /\ run'[p].tx = run[p].tx
      /\ \A q \in Shells : q # p => run'[q] = run[q]
      /\ \A q \in Shells : run'[q].tx = run[q].tx
  BY <1>1, <1>2, ProceedControl, Zenon
<1>4. /\ run[p].tx \in Attempts /\ run[p].tx # None /\ Live(run[p].tx)
      /\ \A q \in Shells : q # p => ~Working(q)
  BY <1>1, Alone
<1>6. TypeOK' /\ Counted' /\ Declared'
  <2>1. lock' \in Shells \union {None}
    BY <1>2 DEF IInv, TypeOK
  <2>2. UNCHANGED <<boot, records, original>>
    OBVIOUS
  <2> QED BY <1>3, <2>1, <2>2, TypeStep, Zenon
<1>7. Named'
  BY <1>2 DEF IInv, Named, OneTransaction, Recorded
<1>8. Applying'
  <2>1. \A q \in Shells : run'[q].prog # "apply"
    BY <1>3, <1>4 DEF Working
  <2> QED BY <2>1 DEF Applying, At, From
<1>9. OneOriginal'
  <2>1. \A q \in Shells : q # p => ~From(q, "restore", 9)'
    BY <1>3, <1>4 DEF Working, From
  <2>2. From(p, "restore", 9)' =>
          Untouched(files, plain, swap)' /\ (OldBridge(run[p].tx) \in {"unavailable", bridge})'
    BY <1>2, <1>3 DEF From, OldBridge
  <2>3. Quiet' => Untouched(files, plain, swap)'
    BY <1>2 DEF Quiet, Untouched, IInv, OneOriginal
  <2>4. \A a \in Attempts : backup'[a] # None =>
       /\ Untouched(backup[a].files, backup[a].plain, backup[a].swap)'
       /\ backup'[a].boot <= boot'
       /\ \/ backup'[a].late = "unavailable"
          \/ backup'[a].bridge = "unavailable" /\ backup'[a].late = "natural"
    BY <1>2 DEF IInv, OneOriginal, Untouched
  <2> QED BY <2>1, <2>2, <2>3, <2>4, Zenon DEF OneOriginal
<1>10. Bridged'
  <2>1. \A a \in Attempts : Live(a)' => Live(a)
    <3>1. \A a \in Attempts : Recorded(a)' => Live(a)
      BY <1>2 DEF Recorded, Live, IInv, Named
    <3>2. \A q \in Shells : run'[q].tx \in {run[q].tx, None}
      BY <1>3
    <3> QED BY <1>2, <3>1, <3>2, LiveSteady, Zenon
  <2>2. Bridged /\ UNCHANGED <<backup, boot, pending, active>>
    BY <1>2 DEF IInv
  <2>3. Quiet' => bridge' = bridge
    <3>1. ASSUME Quiet', Known(run[p].tx)
          PROVE  bridge = OldBridge(run[p].tx)
      <4>1. bridge \in Base(run[p].tx)
        BY <1>4, <2>2, <3>1, Zenon DEF Bridged, Quiet
      <4> QED BY <3>1, <4>1 DEF Base
    <3> QED BY <3>1
  <2>4. Quiet' => \A a \in Attempts : Live(a) => bridge' \in Base(a)
    BY <2>2, <2>3, Zenon DEF Quiet, Bridged
  <2>5. ASSUME NEW a \in Attempts, Recorded(a)', ~Known(a), NEW c \in Attempts, Live(c)
        PROVE  ~Known(c) /\ bridge' \in Base(c)
    <3>1. Recorded(a)
      BY <2>2, <2>5, Zenon DEF Recorded
    <3>2. ~Known(c) /\ bridge \in Base(c) /\ ~Known(run[p].tx)
      BY <1>4, <2>2, <2>5, <3>1, Zenon DEF Bridged
    <3> QED BY <3>2
  <2> QED BY <2>1, <2>2, <2>4, <2>5, BridgedStep, Zenon
<1> QED BY <1>3, <1>6, <1>7, <1>8, <1>9, <1>10 DEF IInv

\* Where a rollback has verified the host, it may take its records away.
LEMMA Settled ==
  ASSUME IInv, NEW p \in Shells, From(p, "restore", 9), Quiet \/ Recorded(run[p].tx)
  PROVE  \A a \in Attempts : Live(a) => bridge \in Base(a)
<1>1. run[p].tx \in Attempts /\ Live(run[p].tx)
  BY Alone DEF Working, From
<1>2. Bridged
  BY DEF IInv
<1>3. CASE Known(run[p].tx)
  <2>1. bridge = OldBridge(run[p].tx)
    BY <1>3 DEF IInv, OneOriginal, Known
  <2> QED BY <1>1, <1>2, <1>3, <2>1, Zenon DEF Bridged
<1>4. CASE ~Known(run[p].tx) /\ Quiet
  BY <1>2, <1>4, Zenon DEF Bridged
<1>5. CASE ~Known(run[p].tx) /\ Recorded(run[p].tx)
  BY <1>1, <1>2, <1>5, Zenon DEF Bridged
<1> QED BY <1>3, <1>4, <1>5

\* A rollback that has verified the host removes a record: of its own transaction,
\* or none.
LEMMA RemoveStep ==
  ASSUME IInv, NEW p \in Shells, From(p, "restore", 9),
         UNCHANGED <<host, boot, backup, original>>,
         pending' \in {pending, None}, active' \in {active, None},
         Quiet' => Quiet \/ Recorded(run[p].tx),
         \A q \in Shells : q # p => run'[q] = run[q],
         run'[p].tx \in {run[p].tx, None},
         From(p, "restore", 9)' => run'[p].tx = run[p].tx,
         run'[p].prog # "apply"
  PROVE  (Named /\ Applying /\ OneOriginal /\ Bridged)'
<1>1. UNCHANGED <<files, modules, plain, bridge, swap, boot, backup, original>>
  BY DEF host
<1>2. \A q \in Shells : q # p => ~Working(q)
  BY Alone DEF Working, From
<1>3. \A a \in Attempts : Recorded(a)' => Recorded(a)
  BY DEF Recorded
<1>4. Named'
  <2>1. OneTransaction'
    BY DEF IInv, Named, OneTransaction
  <2> QED BY <1>1, <1>3, <2>1 DEF IInv, Named
<1>5. Applying'
  <2>1. \A q \in Shells : run'[q].prog # "apply"
    BY <1>2 DEF Working
  <2> QED BY <2>1 DEF Applying, At, From
<1>6. OneOriginal'
  <2>1. Untouched(files, plain, swap)'
    BY <1>1 DEF IInv, OneOriginal, Untouched
  <2>2. \A q \in Shells : From(q, "restore", 9)' => q = p /\ run'[q].tx = run[q].tx
    BY <1>2 DEF Working, From
  <2>3. From(p, "restore", 9)' => (OldBridge(run[p].tx) \in {"unavailable", bridge})'
    BY <1>1, <2>2 DEF IInv, OneOriginal, OldBridge
  <2>4. \A a \in Attempts : backup'[a] # None =>
       /\ Untouched(backup[a].files, backup[a].plain, backup[a].swap)'
       /\ backup'[a].boot <= boot'
       /\ \/ backup'[a].late = "unavailable"
          \/ backup'[a].bridge = "unavailable" /\ backup'[a].late = "natural"
    BY <1>1 DEF IInv, OneOriginal, Untouched
  <2> QED BY <2>1, <2>2, <2>3, <2>4, Zenon DEF OneOriginal
<1>7. Bridged'
  <2>1. \A a \in Attempts : Live(a)' => Live(a)
    <3>1. \A a \in Attempts : Recorded(a)' => Live(a)
      BY <1>3 DEF Live, IInv, Named
    <3>2. \A q \in Shells : run'[q].tx \in {run[q].tx, None}
      OBVIOUS
    <3> QED BY <1>1, <3>1, <3>2, LiveSteady, Zenon
  <2>2. Quiet' => \A a \in Attempts : Live(a) => bridge' \in Base(a)
    BY <1>1, Settled
  <2>3. Bridged /\ UNCHANGED <<backup, boot, bridge>>
    BY <1>1 DEF IInv
  <2>4. ASSUME NEW a \in Attempts, Recorded(a)', ~Known(a), NEW c \in Attempts, Live(c)
        PROVE  ~Known(c) /\ bridge' \in Base(c)
    BY <1>3, <2>3, <2>4, Zenon DEF Bridged
  <2> QED BY <2>1, <2>2, <2>3, <2>4, BridgedStep, Zenon
<1> QED BY <1>4, <1>5, <1>6, <1>7

\* Apply writes a record: of its own transaction.
LEMMA RecordStep ==
  ASSUME IInv, NEW p \in Shells, run[p].prog = "apply", run[p].at \in {1, 11, 12},
         Proceed(p, FALSE), UNCHANGED <<host, boot, backup, original, lock, mishaps>>,
         run[p].at = 1 => pending' = run[p].tx /\ active' = active,
         run[p].at = 11 => pending' = pending /\ active' = run[p].tx,
         run[p].at = 12 => pending' = None /\ active' = active
  PROVE  IInv'
<1>1. Working(p) /\ ~At(p, "apply", 13) /\ ~At(p, "restore", 10)
  BY DEF Working, At
<1>2. UNCHANGED <<files, modules, plain, bridge, swap, boot, backup, original, lock, mishaps>>
  BY DEF host
<1>3. /\ run' \in [Shells -> Runners] /\ Placed'
      /\ run'[p].prog = run[p].prog /\ run'[p].at = run[p].at + 1
      /\ run'[p].tx = run[p].tx
      /\ \A q \in Shells : q # p => run'[q] = run[q]
      /\ \A q \in Shells : run'[q].tx = run[q].tx
  BY <1>1, <1>2, ProceedControl, Zenon
<1>4. /\ run[p].tx \in Attempts /\ run[p].tx # None /\ Live(run[p].tx)
      /\ \A q \in Shells : q # p => ~Working(q)
  BY <1>1, Alone
<1>5. \A a \in Attempts : Recorded(a)' => a = run[p].tx
  BY <1>4 DEF IInv, Applying, At, From, Quiet, Named, OneTransaction, Recorded
<1>6. ~Quiet'
  BY <1>4 DEF IInv, Applying, At, From, Quiet
<1>7. TypeOK' /\ Counted' /\ Declared'
  <2>1. pending' \in Attempts \union {None} /\ active' \in Attempts \union {None}
    BY <1>4 DEF IInv, TypeOK
  <2>2. HostOK'
    BY <1>2, Zenon DEF HostOK, TypeOK, IInv
  <2>3. lock' \in Shells \union {None} /\ UNCHANGED <<boot, backup, original, mishaps>>
    BY <1>2 DEF TypeOK, IInv
  <2> QED BY <1>3, <2>1, <2>2, <2>3, TypeRecords, Zenon
<1>8. Named'
  <2>1. OneTransaction'
    BY <1>4 DEF IInv, Applying, At, From, Quiet, Named, OneTransaction
  <2> QED BY <1>2, <1>4, <1>5, <2>1 DEF Live, Named
<1>9. Applying'
  <2>1. \A q \in Shells : q # p => run'[q].prog # "apply"
    BY <1>3, <1>4 DEF Working
  <2> QED BY <1>2, <1>3, <2>1 DEF IInv, Applying, At, From, Tx, OldBridge, Quiet
<1>10. OneOriginal'
  <2>1. \A q \in Shells : ~From(q, "restore", 9)'
    BY <1>3, <1>4 DEF Working, From
  <2> QED BY <1>2, <1>6, <2>1 DEF IInv, OneOriginal, Untouched
<1>11. Bridged'
  <2>1. \A a \in Attempts : Live(a)' => Live(a)
    <3>1. \A a \in Attempts : Recorded(a)' => Live(a)
      BY <1>4, <1>5
    <3>2. \A q \in Shells : run'[q].tx \in {run[q].tx, None}
      BY <1>3
    <3> QED BY <1>2, <3>1, <3>2, LiveSteady, Zenon
  <2>2. Bridged /\ UNCHANGED <<backup, boot, bridge>>
    BY <1>2 DEF IInv
  <2>3. ASSUME NEW a \in Attempts, Recorded(a)', ~Known(a), NEW c \in Attempts, Live(c)
        PROVE  ~Known(c) /\ bridge' \in Base(c)
    <3>1. a = run[p].tx
      BY <1>5, <2>3
    <3>2. CASE run[p].at = 1
      <4>1. Quiet /\ bridge = "unavailable"
        BY <2>3, <3>1, <3>2 DEF IInv, Applying, At, Tx, Known, OldBridge
      <4>2. bridge \in Base(c)
        BY <2>2, <2>3, <4>1, Zenon DEF Bridged
      <4> QED BY <2>2, <4>1, <4>2 DEF Base, Known
    <3>3. CASE run[p].at # 1
      <4>1. Recorded(a)
        BY <1>4, <3>1, <3>3 DEF IInv, Applying, From, Recorded
      <4> QED BY <2>2, <2>3, <4>1, Zenon DEF Bridged
    <3> QED BY <3>2, <3>3
  <2> QED BY <1>6, <2>1, <2>2, <2>3, BridgedStep, Zenon
<1> QED BY <1>3, <1>7, <1>8, <1>9, <1>10, <1>11 DEF IInv

\* A capture of sysctls the plan could not observe: the module has just brought
\* them, and they are its natural ones.
LEMMA CaptureSome ==
  ASSUME IInv, NEW p \in Shells, NEW t, t = run[p].tx, At(p, "apply", 5), Proceed(p, FALSE),
         UNCHANGED <<files, modules, plain, bridge, swap, boot, pending, active, original, lock,
                     mishaps>>,
         backup[t].bridge = "unavailable",
         backup' = [backup EXCEPT ![t].late = bridge]
  PROVE  IInv'
<1>1. Working(p) /\ ~At(p, "apply", 13) /\ ~At(p, "restore", 10)
  BY DEF Working, At
<1>2. /\ t \in Attempts /\ t # None /\ Live(t)
      /\ backup[t] \in Backups
      /\ \A q \in Shells : q # p => ~Working(q)
  BY <1>1, Alone
<1>3. /\ pending = t /\ ~Known(t) /\ backup[t].boot = boot
      /\ bridge # "unavailable"
  BY DEF IInv, Applying, At, Tx, Known, OldBridge
<1>4. /\ bridge = "natural"
      /\ \A c \in Attempts : Live(c) => ~Known(c)
  <2>1. Recorded(t) /\ Bridged
    BY <1>2, <1>3 DEF Recorded, IInv
  <2>2. \A c \in Attempts : Live(c) => ~Known(c) /\ bridge \in Base(c)
    BY <1>2, <1>3, <2>1, Zenon DEF Bridged
  <2>3. bridge \in {"unavailable", "natural"}
    BY <1>2, <1>3, <2>2 DEF Base
  <2> QED BY <1>3, <2>2, <2>3
<1>5. /\ backup' \in [Attempts -> Backups \union {None}]
      /\ \A a \in Attempts : a # t => backup'[a] = backup[a]
      /\ backup'[t] = [backup[t] EXCEPT !.late = "natural"]
      /\ backup'[t] \in Backups
  <2>1. backup \in [Attempts -> Backups \union {None}]
    BY DEF IInv, TypeOK
  <2>2. [backup[t] EXCEPT !.late = "natural"] \in Backups
    BY <1>2 DEF Backups, Bridge
  <2> QED BY <1>2, <1>4, <2>1, <2>2
<1>6. /\ \A a \in Attempts : backup'[a] # None <=> backup[a] # None
      /\ \A a \in Attempts : backup[a] # None =>
           /\ backup'[a].files = backup[a].files /\ backup'[a].plain = backup[a].plain
           /\ backup'[a].bridge = backup[a].bridge /\ backup'[a].swap = backup[a].swap
           /\ backup'[a].boot = backup[a].boot
  <2>1. backup'[t] # None
    BY <1>5, NoneAssumption
  <2> QED BY <1>2, <1>5, <2>1 DEF Live, Backups
<1>7. /\ run' \in [Shells -> Runners] /\ Placed'
      /\ run'[p].prog = run[p].prog /\ run'[p].at = run[p].at + 1
      /\ run'[p].tx = t
      /\ \A q \in Shells : q # p => run'[q] = run[q]
      /\ \A q \in Shells : run'[q].tx = run[q].tx
  <2>1. \A a \in Attempts : backup[a] # None => backup'[a] # None
    BY <1>6
  <2> QED BY <1>1, <2>1, ProceedControl, Zenon
<1>8. TypeOK' /\ Counted' /\ Declared'
  BY <1>5, <1>7, Zenon DEF IInv, TypeOK, Counted, Declared, Runners
<1>9. Named'
  BY <1>6 DEF IInv, Named, OneTransaction, Recorded
<1>10. /\ OldBridge(t)' = "natural" /\ Known(t)'
       /\ \A a \in Attempts : a # t => OldBridge(a)' = OldBridge(a)
  <2>1. backup'[t].late = "natural" /\ backup'[t].bridge = "unavailable"
    BY <1>2, <1>5 DEF Backups
  <2> QED BY <1>5, <2>1 DEF OldBridge, Known
<1>11. Applying'
  <2>1. \A q \in Shells : q # p => run'[q].prog # "apply"
    BY <1>2, <1>7 DEF Working
  <2>2. At(p, "apply", 6)' /\ run'[p].tx = t
    BY <1>7 DEF At
  <2>3. backup'[t].boot = boot' /\ pending' = t
    BY <1>2, <1>3, <1>6 DEF Live
  <2>4. (OldBridge(run[p].tx) # "unavailable")'
    BY <1>10, <2>2 DEF OldBridge
  <2> QED BY <2>1, <2>2, <2>3, <2>4 DEF Applying, At, From, Tx
<1>12. OneOriginal'
  <2>1. \A q \in Shells : ~From(q, "restore", 9)'
    BY <1>2, <1>7 DEF Working, From, At
  <2>2. ~Quiet'
    BY <1>2, <1>3 DEF Quiet
  <2>3. \A a \in Attempts : backup'[a] # None =>
       /\ Untouched(backup[a].files, backup[a].plain, backup[a].swap)'
       /\ backup'[a].boot <= boot'
       /\ \/ backup'[a].late = "unavailable"
          \/ backup'[a].bridge = "unavailable" /\ backup'[a].late = "natural"
    <3> TAKE a \in Attempts
    <3> HAVE backup'[a] # None
    <3>1. backup'[a].late \in {backup[a].late, "natural"} /\ (a # t => backup'[a] = backup[a])
      BY <1>2, <1>5 DEF Backups
    <3> QED BY <1>6, <3>1 DEF IInv, OneOriginal, Untouched
  <2> QED BY <2>1, <2>2, <2>3, Zenon DEF OneOriginal
<1>13. Bridged'
  <2>1. \A a \in Attempts : Live(a)' => Live(a)
    <3> TAKE a \in Attempts
    <3> HAVE Live(a)'
    <3>1. backup[a] # None /\ backup'[a].boot = backup[a].boot
      BY <1>6 DEF Live
    <3> QED BY <1>7, <3>1 DEF Live, Recorded
  <2>2. ASSUME NEW a \in Attempts, Live(a)'
        PROVE  "natural" \in Base(a)' /\ (Known(a)' => a = t)
    <3>1. CASE a = t
      BY <1>10, <3>1 DEF Base, Known
    <3>2. CASE a # t
      <4>1. ~Known(a)'
        BY <1>4, <1>10, <2>1, <2>2, <3>2 DEF Known
      <4> QED BY <3>2, <4>1 DEF Base, Bridge
    <3> QED BY <3>1, <3>2
  <2>3. ASSUME NEW a \in Attempts, NEW c \in Attempts, Live(a)', Live(c)', Known(a)'
        PROVE  OldBridge(a)' \in Base(c)'
    BY <1>10, <2>2, <2>3
  <2>4. ~Quiet'
    BY <1>2, <1>3 DEF Quiet
  <2>5. ASSUME NEW a \in Attempts, Recorded(a)' PROVE Known(a)'
    <3>1. a = t
      BY <1>2, <1>3, <2>5 DEF Recorded, IInv, Named, OneTransaction
    <3> QED BY <1>10, <3>1
  <2> QED BY <2>3, <2>4, <2>5, Zenon DEF Bridged
<1> QED BY <1>7, <1>8, <1>9, <1>11, <1>12, <1>13 DEF IInv

\* With or without something to capture.
LEMMA CaptureStep ==
  ASSUME IInv, NEW p \in Shells, Capture(p)
  PROVE  IInv'
<1>1. At(p, "apply", 5)
  BY Places DEF Capture, IInv
<1>2. /\ Proceed(p, FALSE)
      /\ UNCHANGED <<files, modules, plain, bridge, swap, boot, pending, active, original, lock,
                     mishaps>>
      /\ backup' = IF Tx(p).bridge = "unavailable"
                     THEN [backup EXCEPT ![run[p].tx].late = bridge] ELSE backup
  BY Zenon DEF Capture, Steady, Advance, host
<1>3. CASE Tx(p).bridge # "unavailable"
  <2>1. Known(run[p].tx) /\ backup' = backup
    BY <1>2, <1>3 DEF Known, OldBridge, Tx
  <2>2. run[p].prog = "apply" /\ run[p].at = 5 /\ run[p].at \in 2..10
    BY <1>1 DEF At
  <2>3. HostOK' /\ UNCHANGED <<boot, records, original, lock, mishaps>>
    BY <1>2, <2>1, Zenon DEF IInv, TypeOK, HostOK, records
  <2>4. run[p].at = 4 => bridge' # "unavailable"
    BY <2>2
  <2> QED BY <1>2, <2>1, <2>2, <2>3, <2>4, ApplyStep, Zenon
<1>4. CASE Tx(p).bridge = "unavailable"
  <2>1. PICK t : t = run[p].tx
    OBVIOUS
  <2>2. backup[t].bridge = "unavailable" /\ backup' = [backup EXCEPT ![t].late = bridge]
    BY <1>2, <1>4, <2>1, Zenon DEF Tx
  <2> QED BY <1>1, <1>2, <2>1, <2>2, CaptureSome, Zenon
<1> QED BY <1>3, <1>4

\* A step that changes no more than what a shell is at, and the lock.
LEMMA WithdrawnStep ==
  ASSUME IInv, NEW p \in Shells, UNCHANGED <<host, boot, records, original>>,
         run' \in [Shells -> Runners], Placed', lock' \in Shells \union {None},
         \A q \in Shells : q # p => run'[q] = run[q],
         run'[p].tx \in {run[p].tx, None} \/ Recorded(run'[p].tx),
         run'[p].prog # "apply", ~From(p, "restore", 9)',
         mishaps' \in mishaps..MaxMishaps
  PROVE  IInv'
<1>1. (Named /\ Applying /\ OneOriginal /\ Bridged)'
  BY Withdrawn, Zenon
<1>2. HostOK' /\ UNCHANGED <<boot, records, original>>
  BY Zenon DEF IInv, TypeOK, HostOK, host
<1>3. TypeOK' /\ Counted' /\ Declared'
  BY <1>2, TypeStep, Zenon
<1> QED BY <1>1, <1>3 DEF IInv

\* A script ends.
LEMMA ExitStep ==
  ASSUME IInv, NEW p \in Shells, Exit(p), UNCHANGED <<host, boot, records, original>>,
         mishaps' \in mishaps..MaxMishaps
  PROVE  IInv'
<1>1. \A a \in Attempts : backup[a] # None => backup'[a] # None
  BY DEF records
<1>2. /\ run' \in [Shells -> Runners] /\ lock' \in Shells \union {None} /\ Placed'
      /\ run'[p] = Idle /\ \A q \in Shells : q # p => run'[q] = run[q]
  BY <1>1, ExitControl, Zenon
<1>3. run'[p].tx = None /\ run'[p].prog # "apply" /\ ~From(p, "restore", 9)'
  BY <1>2 DEF Idle, From
<1> QED BY <1>2, <1>3, WithdrawnStep

\* A rollback starts, after the lock was taken or in the ERR trap.
LEMMA RestoreBegin ==
  ASSUME IInv, NEW p \in Shells, Restore(p, run[p].tx), lock' = p,
         run[p].prog # "idle", lock \in {None, p},
         UNCHANGED <<host, boot, records, original>>, mishaps' \in mishaps..MaxMishaps
  PROVE  IInv'
<1>1. run[p].tx \in Attempts /\ backup[run[p].tx] # None /\ UNCHANGED backup
  BY DEF IInv, Placed, records
<1>2. /\ run' \in [Shells -> Runners] /\ Placed'
      /\ run'[p].prog = "restore" /\ run'[p].at = 1 /\ run'[p].tx = run[p].tx
      /\ \A q \in Shells : q # p => run'[q] = run[q]
  BY <1>1, RestoreControl, Zenon
<1>3. run'[p].prog # "apply" /\ ~From(p, "restore", 9)' /\ lock' \in Shells \union {None}
  BY <1>2 DEF From
<1> QED BY <1>2, <1>3, WithdrawnStep

\* A rollback is asked for, of a recorded transaction.
LEMMA RequestStep ==
  ASSUME IInv, NEW p \in Shells, Request(p)
  PROVE  IInv'
<1>1. PICK a \in Attempts :
        /\ Referenced(a)
        /\ run' = [run EXCEPT ![p] = [prog |-> "request", at |-> 0, tx |-> a, failures |-> FALSE]]
  BY Zenon DEF Request
<1>2. run[p] = Idle /\ UNCHANGED <<host, lock, boot, records, original, mishaps>>
  BY Zenon DEF Request, Steady
<1>3. Recorded(a) /\ backup[a] # None
  <2>1. Recorded(a)
    BY <1>1 DEF Referenced, Recorded
  <2> QED BY <2>1 DEF IInv, Named
<1>4. run \in [Shells -> Runners]
  BY DEF IInv, TypeOK, Runners
<1>5. [prog |-> "request", at |-> 0, tx |-> a, failures |-> FALSE] \in Runners
  BY DEF Runners
<1>6. run' \in [Shells -> Runners]
  BY <1>1, <1>4, <1>5, Zenon
<1>7. /\ run'[p].prog = "request" /\ run'[p].tx = a
      /\ \A q \in Shells : q # p => run'[q] = run[q]
  BY <1>1, <1>4
<1>8. run[p].prog = "idle"
  BY <1>2 DEF Idle
<1>9. UNCHANGED <<backup, lock>>
  BY <1>2 DEF records
<1>10. Placed'
  BY <1>3, <1>7, <1>8, <1>9 DEF IInv, Placed, Working
<1>11. /\ run'[p].prog # "apply" /\ ~From(p, "restore", 9)' /\ lock' \in Shells \union {None}
       /\ mishaps' \in mishaps..MaxMishaps /\ Recorded(run'[p].tx)
  BY <1>2, <1>3, <1>7 DEF From, IInv, TypeOK
<1> QED BY <1>2, <1>6, <1>7, <1>10, <1>11, WithdrawnStep

\* Apply starts where nothing is recorded, and backs up the host as it was found.
LEMMA BeginStep ==
  ASSUME IInv, NEW p \in Shells, Begin(p)
  PROVE  IInv'
<1> DEFINE B == [files |-> files, plain |-> plain, bridge |-> bridge, late |-> "unavailable",
                 swap |-> swap, boot |-> boot]
<1> DEFINE R(t) == [prog |-> "apply", at |-> 1, tx |-> t, failures |-> FALSE]
<1>1. PICK t \in Attempts : /\ backup[t] = None
                            /\ backup' = [backup EXCEPT ![t] = B]
                            /\ run' = [run EXCEPT ![p] = R(t)]
  BY Zenon DEF Begin
<1>2. /\ run[p] = Idle /\ lock = None /\ lock' = p /\ Quiet
      /\ UNCHANGED <<files, modules, plain, bridge, swap, boot, pending, active, original, mishaps>>
  BY Zenon DEF Begin, Steady, Quiet, host
<1>3. B \in Backups /\ B # None
  <2>1. /\ files \in SUBSET Files /\ plain \in {"old", "desired"} /\ bridge \in Bridge
        /\ "unavailable" \in Bridge /\ swap \in BOOLEAN /\ boot \in 0..MaxMishaps
    BY DEF IInv, TypeOK, Bridge
  <2>2. B \in Backups
    BY <2>1, Zenon DEF Backups
  <2> HIDE DEF B
  <2> QED BY <2>2, NoneAssumption
<1>4. backup \in [Attempts -> Backups \union {None}] /\ run \in [Shells -> Runners]
  BY DEF IInv, TypeOK, Runners
<1>5. /\ backup' \in [Attempts -> Backups \union {None}]
      /\ backup'[t] = B
      /\ \A a \in Attempts : a # t => backup'[a] = backup[a]
  <2> HIDE DEF B
  <2> QED BY <1>1, <1>3, <1>4
<1>6. /\ run' \in [Shells -> Runners] /\ run'[p] = R(t)
      /\ \A q \in Shells : q # p => run'[q] = run[q]
  <2>1. R(t) \in Runners
    BY DEF Runners
  <2> HIDE DEF R
  <2> QED BY <1>1, <1>4, <2>1
<1>7. /\ backup'[t].files = files /\ backup'[t].plain = plain /\ backup'[t].bridge = bridge
      /\ backup'[t].late = "unavailable" /\ backup'[t].swap = swap /\ backup'[t].boot = boot
  BY <1>5
<1>8. run'[p].prog = "apply" /\ run'[p].at = 1 /\ run'[p].tx = t
  BY <1>6
<1>9. \A q \in Shells : ~Working(q)
  BY <1>2, ShellAssumption DEF IInv, Placed
<1>10. backup'[t] # None
  BY <1>3, <1>5
<1> HIDE DEF B, R
<1>11. Placed'
  BY <1>1, <1>2, <1>5, <1>6, <1>8, <1>9, <1>10 DEF IInv, Placed, Working
<1>12. TypeOK' /\ Counted' /\ Declared'
  BY <1>2, <1>5, <1>6, Zenon DEF IInv, TypeOK, Counted, Declared, Runners
<1>13. \A a \in Attempts : ~Recorded(a)'
  BY <1>2 DEF Quiet, Recorded
<1>14. Named'
  BY <1>2, <1>13 DEF Named, Quiet, OneTransaction
<1>15. Applying'
  <2>1. \A q \in Shells : q # p => run'[q].prog # "apply"
    BY <1>6, <1>9 DEF Working
  <2> QED BY <1>2, <1>7, <1>8, <2>1 DEF Applying, At, From, Tx, Quiet
<1>16. OneOriginal'
  <2>1. \A q \in Shells : ~From(q, "restore", 9)'
    BY <1>6, <1>8, <1>9 DEF Working, From
  <2>2. Untouched(files, plain, swap) /\ Untouched(files, plain, swap)'
    BY <1>2 DEF IInv, OneOriginal, Untouched
  <2>3. \A a \in Attempts : backup'[a] # None =>
       /\ Untouched(backup[a].files, backup[a].plain, backup[a].swap)'
       /\ backup'[a].boot <= boot'
       /\ \/ backup'[a].late = "unavailable"
          \/ backup'[a].bridge = "unavailable" /\ backup'[a].late = "natural"
    <3> TAKE a \in Attempts
    <3> HAVE backup'[a] # None
    <3>1. CASE a = t
      BY <1>2, <1>7, <2>2, <3>1 DEF Untouched, IInv, TypeOK
    <3>2. CASE a # t
      BY <1>2, <1>5, <3>2 DEF Untouched, IInv, OneOriginal
    <3> QED BY <3>1, <3>2
  <2> QED BY <2>1, <2>2, <2>3, Zenon DEF OneOriginal
<1>17. Bridged'
  <2>1. \A a \in Attempts : Live(a)' /\ a # t => Live(a)
    BY <1>2, <1>5, <1>6, <1>8, <1>13 DEF Live
  <2>2. \A a \in Attempts : a # t =>
          Known(a)' = Known(a) /\ OldBridge(a)' = OldBridge(a) /\ Base(a)' = Base(a)
    BY <1>2, <1>5 DEF Known, OldBridge, Base
  <2>3. OldBridge(t)' = bridge
    BY <1>7 DEF OldBridge
  <2>4. bridge \in Base(t)'
    BY <1>2, <1>7, <2>3 DEF Base, Known
  <2>5. ASSUME NEW a \in Attempts, Live(a)'
        PROVE  bridge \in Base(a)' /\ (Known(a)' => OldBridge(a)' = bridge)
    <3>1. CASE a = t
      BY <2>3, <2>4, <3>1
    <3>2. CASE a # t
      <4>1. bridge \in Base(a)
        BY <1>2, <2>1, <2>5, <3>2, Zenon DEF IInv, Bridged
      <4> QED BY <2>2, <3>2, <4>1 DEF Base
    <3> QED BY <3>1, <3>2
  <2> QED BY <1>2, <1>13, <2>5 DEF Bridged
<1> QED BY <1>11, <1>12, <1>14, <1>15, <1>16, <1>17 DEF IInv

\* A boot ends every script; only the recorded transaction stays alive.
LEMMA RebootStep ==
  ASSUME IInv, Reboot
  PROVE  IInv'
<1>1. /\ boot' = boot + 1 /\ modules' = ("modules" \in files)
      /\ plain' = Plain(files) /\ bridge' = Bridges(files) /\ swap' = ("fstab" \notin files)
      /\ lock' = None /\ run' = [p \in Shells |-> Idle] /\ mishaps' = mishaps + 1
      /\ mishaps < MaxMishaps /\ UNCHANGED <<files, pending, active, backup, original>>
  BY Zenon DEF Reboot, Mishap, records
<1>2. \A p \in Shells : /\ run'[p] = Idle /\ run'[p].prog = "idle" /\ run'[p].tx = None
                        /\ run'[p] \in Runners
  BY <1>1 DEF Idle, Runners
<1>3. TypeOK' /\ Counted' /\ Declared'
  <2>1. Counted' /\ mishaps' \in 0..MaxMishaps /\ boot' \in 0..MaxMishaps
    BY <1>1, MishapAssumption DEF IInv, TypeOK, Counted
  <2>2. plain' \in {"old", "desired"} /\ bridge' \in Bridge
    BY <1>1 DEF Plain, Bridges, Bridge
  <2>3. run' \in [Shells -> Runners]
    <3> HIDE DEF Runners
    <3> QED BY <1>1, <1>2
  <2>4. modules' \in BOOLEAN /\ swap' \in BOOLEAN
    <3>1. ("modules" \in files) \in BOOLEAN /\ ("fstab" \notin files) \in BOOLEAN
      OBVIOUS
    <3> QED BY <1>1, <3>1, Zenon
  <2>5. TypeOK'
    BY <1>1, <2>1, <2>2, <2>3, <2>4, Zenon DEF IInv, TypeOK, Runners
  <2>6. Declared'
    BY <1>1 DEF IInv, Declared
  <2> QED BY <2>1, <2>5, <2>6
<1>4. Placed'
  BY <1>1, <1>2, ShellAssumption DEF Placed, Working
<1>5. Named'
  BY <1>1 DEF IInv, Named, OneTransaction, Recorded
<1>6. Applying'
  BY <1>2 DEF Applying, At, From
<1>7. OneOriginal'
  <2>1. \A q \in Shells : ~From(q, "restore", 9)'
    BY <1>2 DEF From
  <2>2. Quiet' => Untouched(files, plain, swap)'
    BY <1>1 DEF IInv, OneOriginal, Untouched, Quiet, Declared
  <2>3. \A a \in Attempts : backup'[a] # None =>
       /\ Untouched(backup[a].files, backup[a].plain, backup[a].swap)'
       /\ backup'[a].boot <= boot'
       /\ \/ backup'[a].late = "unavailable"
          \/ backup'[a].bridge = "unavailable" /\ backup'[a].late = "natural"
    <3> TAKE a \in Attempts
    <3> HAVE backup'[a] # None
    <3>1. backup[a] \in Backups /\ boot \in Nat
      BY <1>1 DEF IInv, TypeOK
    <3>2. backup[a].boot \in Nat
      BY <3>1 DEF Backups
    <3> QED BY <1>1, <3>1, <3>2 DEF Untouched, IInv, OneOriginal
  <2> QED BY <2>1, <2>2, <2>3, Zenon DEF OneOriginal
<1>8. Bridged'
  <2>1. ASSUME NEW a \in Attempts, Live(a)'
        PROVE  Recorded(a)' /\ Recorded(a) /\ backup'[a].boot # boot'
    <3>1. backup[a] \in Backups /\ boot \in Nat /\ backup[a].boot <= boot
      BY <1>1, <2>1 DEF IInv, TypeOK, OneOriginal, Live
    <3>2. backup[a].boot # boot + 1
      BY <3>1 DEF Backups
    <3>3. \A q \in Shells : run'[q].tx # a
      BY <1>2, AttemptAssumption
    <3> QED BY <1>1, <2>1, <3>2, <3>3 DEF Live, Recorded
  <2>2. ASSUME NEW a \in Attempts, NEW c \in Attempts, Live(a)', Live(c)'
        PROVE  a = c
    BY <2>1, <2>2 DEF Recorded, IInv, Named, OneTransaction
  <2>3. ASSUME NEW a \in Attempts, NEW c \in Attempts, Live(a)', Live(c)', Known(a)'
        PROVE  OldBridge(a)' \in Base(c)'
    BY <2>2, <2>3 DEF Base
  <2>4. ASSUME Quiet', NEW a \in Attempts PROVE ~Live(a)'
    BY <2>1, <2>4 DEF Quiet, Recorded
  <2>5. ASSUME NEW a \in Attempts, Recorded(a)', ~Known(a)', NEW c \in Attempts, Live(c)'
        PROVE  ~Known(c)' /\ bridge' \in Base(c)'
    <3>1. backup'[a] # None
      BY <1>5, <2>5, Zenon DEF Named
    <3>2. a = c
      BY <2>2, <2>5, <3>1 DEF Live
    <3>3. bridge' \in Bridge
      BY <1>3, Zenon DEF TypeOK
    <3> QED BY <2>1, <2>5, <3>2, <3>3 DEF Base
  <2> QED BY <2>3, <2>4, <2>5, Zenon DEF Bridged
<1> QED BY <1>3, <1>4, <1>5, <1>6, <1>7, <1>8 DEF IInv

--------------------------------------------------------------------------------
\* The instructions of apply-host-prerequisites.sh.
LEMMA ApplyIInv ==
  ASSUME IInv, NEW p \in Shells, Apply(p)
  PROVE  IInv'
<1>1. CASE WritePending(p)
  <2>1. /\ Runs(p, <<"record", "pending">>) /\ pending' = run[p].tx /\ Proceed(p, FALSE)
        /\ UNCHANGED <<host, boot, original, mishaps, lock, active, backup>>
    BY <1>1, Zenon DEF WritePending, Advance, Steady
  <2>2. run[p].prog = "apply" /\ run[p].at = 1
    BY <2>1, Places DEF At, IInv
  <2>3. /\ run[p].at \in {1, 11, 12}
        /\ run[p].at = 1 => pending' = run[p].tx /\ active' = active
        /\ run[p].at = 11 => pending' = pending /\ active' = run[p].tx
        /\ run[p].at = 12 => pending' = None /\ active' = active
    BY <2>1, <2>2
  <2> QED BY <2>1, <2>2, <2>3, RecordStep, Zenon
<1>2. ASSUME NEW f \in Files, Install(p, f)
      PROVE  IInv'
  <2>1. /\ Runs(p, <<"install", f>>) /\ files' = files \union {f} /\ Proceed(p, FALSE)
        /\ UNCHANGED <<boot, original, mishaps, modules, plain, bridge, swap, lock, records>>
    BY <1>2, Zenon DEF Install, Advance, Steady
  <2>2. run[p].prog = "apply" /\ run[p].at \in {2, 3, 8}
    BY <2>1, Places DEF At, IInv
  <2>3. HostOK'
    <3>1. files' \in SUBSET Files
      BY <2>1 DEF TypeOK, IInv
    <3> QED BY <2>1, <3>1, Zenon DEF HostOK, TypeOK, IInv
  <2>4. /\ run[p].at \in 2..10
        /\ run[p].at = 4 => bridge' # "unavailable"
        /\ run[p].at = 5 => Known(run[p].tx)
        /\ bridge' \in {bridge, "natural"} \/ Known(run[p].tx)
    BY <2>1, <2>2, <2>3
  <2> QED BY <2>1, <2>2, <2>3, <2>4, ApplyStep, Zenon
<1>3. CASE Modprobe(p)
  <2>1. /\ Runs(p, <<"modprobe", "modules">>) /\ modules' = TRUE /\ Proceed(p, FALSE)
        /\ bridge' = (IF bridge = "unavailable" THEN "natural" ELSE bridge)
        /\ UNCHANGED <<boot, original, mishaps, files, plain, swap, lock, records>>
    BY <1>3, Zenon DEF Modprobe, Advance, Steady
  <2>2. run[p].prog = "apply" /\ run[p].at = 4
    BY <2>1, Places DEF At, IInv
  <2>3. HostOK'
    <3>1. bridge' \in Bridge
      BY <2>1 DEF TypeOK, Bridge, IInv
    <3> QED BY <2>1, <3>1, Zenon DEF HostOK, TypeOK, IInv
  <2>4. bridge' \in {bridge, "natural"} /\ bridge' # "unavailable"
    BY <2>1
  <2>5. /\ run[p].at \in 2..10
        /\ run[p].at = 4 => bridge' # "unavailable"
        /\ run[p].at = 5 => Known(run[p].tx)
        /\ bridge' \in {bridge, "natural"} \/ Known(run[p].tx)
    BY <2>1, <2>2, <2>3, <2>4
  <2> QED BY <2>1, <2>2, <2>3, <2>4, <2>5, ApplyStep, Zenon
<1>4. CASE Capture(p)
  BY <1>4, CaptureStep
<1>5. CASE Load(p)
  <2>1. /\ \/ Runs(p, <<"load", "plain">>) /\ plain' = "desired" /\ UNCHANGED bridge
           \/ Runs(p, <<"load", "bridge">>) /\ bridge' = "desired" /\ UNCHANGED plain
        /\ Proceed(p, FALSE)
        /\ UNCHANGED <<boot, original, mishaps, files, modules, swap, lock, records>>
    BY <1>5, Zenon DEF Load, Advance, Steady
  <2>2. run[p].prog = "apply" /\ run[p].at \in {6, 7}
    BY <2>1, Places DEF At, IInv
  <2>3. HostOK'
    <3>1. plain' \in {"old", "desired"} /\ bridge' \in Bridge
      BY <2>1 DEF TypeOK, Bridge, IInv
    <3> QED BY <2>1, <3>1, Zenon DEF HostOK, TypeOK, IInv
  <2>4. Known(run[p].tx)
    BY <2>2 DEF Applying, From, Known, IInv
  <2>5. /\ run[p].at \in 2..10
        /\ run[p].at = 4 => bridge' # "unavailable"
        /\ run[p].at = 5 => Known(run[p].tx)
        /\ bridge' \in {bridge, "natural"} \/ Known(run[p].tx)
    BY <2>1, <2>2, <2>3, <2>4
  <2> QED BY <2>1, <2>2, <2>3, <2>4, <2>5, ApplyStep, Zenon
<1>6. CASE SwapOff(p)
  <2>1. /\ Runs(p, <<"swap", "off">>) /\ swap' = FALSE /\ Proceed(p, FALSE)
        /\ UNCHANGED <<boot, original, mishaps, files, modules, plain, bridge, lock, records>>
    BY <1>6, Zenon DEF SwapOff, Advance, Steady
  <2>2. run[p].prog = "apply" /\ run[p].at = 9
    BY <2>1, Places DEF At, IInv
  <2>3. HostOK'
    BY <2>1, Zenon DEF HostOK, TypeOK, IInv
  <2>4. /\ run[p].at \in 2..10
        /\ run[p].at = 4 => bridge' # "unavailable"
        /\ run[p].at = 5 => Known(run[p].tx)
        /\ bridge' \in {bridge, "natural"} \/ Known(run[p].tx)
    BY <2>1, <2>2, <2>3
  <2> QED BY <2>1, <2>2, <2>3, <2>4, ApplyStep, Zenon
<1>7. CASE Verify(p)
  <2>1. /\ Runs(p, <<"verify", "desired">>)
        /\ Proceed(p, FALSE) \/ Restore(p, run[p].tx)
        /\ UNCHANGED <<boot, original, mishaps, host, lock, records>>
    BY <1>7, Zenon DEF Verify, Advance, Steady
  <2>2. run[p].prog = "apply" /\ run[p].at = 10 /\ lock = p
    BY <2>1, Places DEF At, Placed, Working, IInv
  <2>3. CASE Proceed(p, FALSE)
    <3>1. HostOK' /\ bridge' = bridge
      BY <2>1, Zenon DEF HostOK, TypeOK, host, IInv
    <3>2. /\ run[p].at \in 2..10
          /\ run[p].at = 4 => bridge' # "unavailable"
          /\ run[p].at = 5 => Known(run[p].tx)
          /\ bridge' \in {bridge, "natural"} \/ Known(run[p].tx)
      BY <2>1, <2>2, <2>3, <3>1
    <3> QED BY <2>1, <2>2, <2>3, <3>1, <3>2, ApplyStep, Zenon
  <2>4. CASE Restore(p, run[p].tx)
    <3>1. mishaps' \in mishaps..MaxMishaps
      BY <2>1 DEF TypeOK, IInv
    <3> QED BY <2>1, <2>2, <2>4, <3>1, RestoreBegin
  <2> QED BY <2>1, <2>3, <2>4
<1>8. CASE Activate(p)
  <2>1. /\ Runs(p, <<"record", "active">>) /\ active' = run[p].tx /\ Proceed(p, FALSE)
        /\ UNCHANGED <<host, boot, original, mishaps, lock, pending, backup>>
    BY <1>8, Zenon DEF Activate, Advance, Steady
  <2>2. run[p].prog = "apply" /\ run[p].at = 11
    BY <2>1, Places DEF At, IInv
  <2>3. /\ run[p].at \in {1, 11, 12}
        /\ run[p].at = 1 => pending' = run[p].tx /\ active' = active
        /\ run[p].at = 11 => pending' = pending /\ active' = run[p].tx
        /\ run[p].at = 12 => pending' = None /\ active' = active
    BY <2>1, <2>2
  <2> QED BY <2>1, <2>2, <2>3, RecordStep, Zenon
<1>9. CASE Clear(p)
  <2>1. /\ Runs(p, <<"clear", "pending">>) /\ pending' = None /\ Proceed(p, FALSE)
        /\ UNCHANGED <<host, boot, original, mishaps, lock, active, backup>>
    BY <1>9, Zenon DEF Clear, Advance, Steady
  <2>2. run[p].prog = "apply" /\ run[p].at = 12
    BY <2>1, Places DEF At, IInv
  <2>3. /\ run[p].at \in {1, 11, 12}
        /\ run[p].at = 1 => pending' = run[p].tx /\ active' = active
        /\ run[p].at = 11 => pending' = pending /\ active' = run[p].tx
        /\ run[p].at = 12 => pending' = None /\ active' = active
    BY <2>1, <2>2
  <2> QED BY <2>1, <2>2, <2>3, RecordStep, Zenon
<1>10. CASE VerifyActive(p)
  <2>1. /\ Runs(p, <<"verify", "active">>)
        /\ Exit(p) \/ (Restore(p, run[p].tx) /\ UNCHANGED lock)
        /\ UNCHANGED <<boot, original, mishaps, host, records>>
    BY <1>10, Zenon DEF VerifyActive, Steady
  <2>2. run[p].prog = "apply" /\ lock = p
    BY <2>1, Places DEF At, Placed, Working, IInv
  <2>3. mishaps' \in mishaps..MaxMishaps
    BY <2>1 DEF TypeOK, IInv
  <2>4. CASE Exit(p)
    BY <2>1, <2>3, <2>4, ExitStep
  <2>5. CASE Restore(p, run[p].tx) /\ UNCHANGED lock
    BY <2>1, <2>2, <2>3, <2>5, RestoreBegin
  <2> QED BY <2>1, <2>4, <2>5
<1> QED BY <1>1, <1>2, <1>3, <1>4, <1>5, <1>6, <1>7, <1>8, <1>9, <1>10, Zenon DEF Apply

\* What a transaction to restore backed up is the host as it was found.
LEMMA BackedUp ==
  ASSUME IInv, NEW p \in Shells, run[p].prog = "restore"
  PROVE  /\ Untouched(Tx(p).files, Tx(p).plain, Tx(p).swap)
         /\ Tx(p).files \in SUBSET Files /\ Tx(p).plain \in {"old", "desired"}
         /\ Tx(p).bridge \in Bridge /\ Tx(p).late \in Bridge
         /\ Tx(p).swap \in BOOLEAN
<1>1. /\ run[p].tx \in Attempts
      /\ backup[run[p].tx] # None /\ backup[run[p].tx] \in Backups
  BY Alone DEF Working
<1>2. Untouched(Tx(p).files, Tx(p).plain, Tx(p).swap)
  BY <1>1, Zenon DEF IInv, OneOriginal, Tx
<1>3. /\ Tx(p).files \in SUBSET Files /\ Tx(p).plain \in {"old", "desired"}
      /\ Tx(p).bridge \in Bridge /\ Tx(p).late \in Bridge
      /\ Tx(p).swap \in BOOLEAN
  BY <1>1 DEF Tx, Backups
<1> QED BY <1>2, <1>3

\* The instructions of rollback-host-prerequisites.sh.
LEMMA RollbackIInv ==
  ASSUME IInv, NEW p \in Shells, Rollback(p)
  PROVE  IInv'
<1>1. CASE Lock(p)
  <2>1. /\ run[p].prog = "request"
        /\ (lock = None /\ lock' = p /\ Restore(p, run[p].tx)) \/ Exit(p)
        /\ UNCHANGED <<boot, original, mishaps, host, records>>
    BY <1>1, Zenon DEF Lock, Steady
  <2>2. mishaps' \in mishaps..MaxMishaps
    BY <2>1 DEF TypeOK, IInv
  <2> QED BY <2>1, <2>2, RestoreBegin, ExitStep
<1>2. CASE CheckReady(p)
  <2>1. /\ Runs(p, <<"check", "ready">>)
        /\ (Proceed(p, FALSE) /\ UNCHANGED lock) \/ Exit(p)
        /\ UNCHANGED <<boot, original, mishaps, host, records>>
    BY <1>2, Zenon DEF CheckReady, Advance, Steady
  <2>2. run[p].prog = "restore" /\ run[p].at = 1
    BY <2>1, Places DEF At, IInv
  <2>3. HostOK' /\ UNCHANGED <<files, plain, bridge, swap>> /\ mishaps' \in mishaps..MaxMishaps
    <3>1. mishaps' \in mishaps..MaxMishaps
      BY <2>1 DEF TypeOK, IInv
    <3> QED BY <2>1, <3>1, Zenon DEF HostOK, TypeOK, host, IInv
  <2>4. /\ run[p].at \in 1..8 /\ FALSE \in BOOLEAN /\ TRUE \in BOOLEAN
        /\ bridge' = bridge \/ (Known(run[p].tx) /\ bridge' = OldBridge(run[p].tx))
        /\ run[p].at = 8 =>
             /\ Untouched(files, plain, swap)'
             /\ OldBridge(run[p].tx) \in {"unavailable", bridge'}
    BY <2>1, <2>2, <2>3
  <2>5. Quiet => UNCHANGED <<files, plain>> /\ (swap => swap')
    BY <2>1, <2>2, <2>3, Zenon
  <2> QED BY <2>1, <2>2, <2>3, <2>4, <2>5, RestoreStep, ExitStep, Zenon
<1>3. ASSUME NEW f \in Files, RestoreFile(p, f)
      PROVE  IInv'
  <2>1. /\ Runs(p, <<"restore", f>>) /\ Proceed(p, FALSE)
        /\ files' = IF f \in Tx(p).files THEN files \union {f} ELSE files \ {f}
        /\ UNCHANGED <<boot, original, mishaps, modules, plain, bridge, swap, lock, records>>
    BY <1>3, Zenon DEF RestoreFile, Advance, Steady
  <2>2. run[p].prog = "restore" /\ run[p].at \in 2..4
    BY <2>1, Places DEF At, IInv
  <2>3. HostOK' /\ mishaps' \in mishaps..MaxMishaps
    <3>1. files' \in SUBSET Files /\ mishaps' \in mishaps..MaxMishaps
      BY <2>1 DEF TypeOK, IInv
    <3> QED BY <2>1, <3>1, Zenon DEF HostOK, TypeOK, IInv
  <2>4. Quiet => UNCHANGED files
    BY <2>1, <2>2, BackedUp DEF OneOriginal, Untouched, IInv
  <2>5. /\ run[p].at \in 1..8 /\ FALSE \in BOOLEAN /\ TRUE \in BOOLEAN
        /\ bridge' = bridge \/ (Known(run[p].tx) /\ bridge' = OldBridge(run[p].tx))
        /\ run[p].at = 8 =>
             /\ Untouched(files, plain, swap)'
             /\ OldBridge(run[p].tx) \in {"unavailable", bridge'}
    BY <2>1, <2>2, <2>3, <2>4
  <2>6. Quiet => UNCHANGED <<files, plain>> /\ (swap => swap')
    BY <2>1, <2>2, <2>3, <2>4, Zenon
  <2> QED BY <2>1, <2>2, <2>3, <2>4, <2>5, <2>6, RestoreStep, Zenon
<1>4. CASE Write(p)
  <2>1. /\ Runs(p, <<"write", "plain">>) /\ Proceed(p, FALSE) /\ plain' = Tx(p).plain
        /\ UNCHANGED <<boot, original, mishaps, files, modules, bridge, swap, lock, records>>
    BY <1>4, Zenon DEF Write, Advance, Steady
  <2>2. run[p].prog = "restore" /\ run[p].at = 5
    BY <2>1, Places DEF At, IInv
  <2>3. HostOK' /\ mishaps' \in mishaps..MaxMishaps
    <3>1. plain' \in {"old", "desired"} /\ mishaps' \in mishaps..MaxMishaps
      BY <2>1, <2>2, BackedUp DEF TypeOK, IInv
    <3> QED BY <2>1, <3>1, Zenon DEF HostOK, TypeOK, IInv
  <2>4. Quiet => UNCHANGED plain
    BY <2>1, <2>2, BackedUp DEF OneOriginal, Untouched, IInv
  <2>5. /\ run[p].at \in 1..8 /\ FALSE \in BOOLEAN /\ TRUE \in BOOLEAN
        /\ bridge' = bridge \/ (Known(run[p].tx) /\ bridge' = OldBridge(run[p].tx))
        /\ run[p].at = 8 =>
             /\ Untouched(files, plain, swap)'
             /\ OldBridge(run[p].tx) \in {"unavailable", bridge'}
    BY <2>1, <2>2, <2>3, <2>4
  <2>6. Quiet => UNCHANGED <<files, plain>> /\ (swap => swap')
    BY <2>1, <2>2, <2>3, <2>4, Zenon
  <2> QED BY <2>1, <2>2, <2>3, <2>4, <2>5, <2>6, RestoreStep, Zenon
<1>5. CASE WriteBridge(p)
  <2> DEFINE old == OldBridge(run[p].tx)
             fails == old # "unavailable" /\ bridge = "unavailable"
  <2>1. /\ Runs(p, <<"write", "bridge">>) /\ Proceed(p, fails)
        /\ bridge' = IF old = "unavailable" \/ fails THEN bridge ELSE old
        /\ UNCHANGED <<boot, original, mishaps, files, modules, plain, swap, lock, records>>
    BY <1>5, Zenon DEF WriteBridge, Steady
  <2>2. run[p].prog = "restore" /\ run[p].at = 6
    BY <2>1, Places DEF At, IInv
  <2>3. HostOK' /\ mishaps' \in mishaps..MaxMishaps
    <3>1. old \in Bridge
      BY <2>2, BackedUp DEF OldBridge, Tx
    <3>2. bridge' \in Bridge /\ mishaps' \in mishaps..MaxMishaps
      BY <2>1, <3>1 DEF TypeOK, IInv
    <3> QED BY <2>1, <3>2, Zenon DEF HostOK, TypeOK, IInv
  <2>4. fails \in BOOLEAN
    BY Zenon
  <2>5. bridge' = bridge \/ (Known(run[p].tx) /\ bridge' = OldBridge(run[p].tx))
    BY <2>1 DEF Known
  <2> HIDE DEF fails
  <2>6. /\ run[p].at \in 1..8 /\ FALSE \in BOOLEAN /\ TRUE \in BOOLEAN
        /\ bridge' = bridge \/ (Known(run[p].tx) /\ bridge' = OldBridge(run[p].tx))
        /\ run[p].at = 8 =>
             /\ Untouched(files, plain, swap)'
             /\ OldBridge(run[p].tx) \in {"unavailable", bridge'}
    BY <2>1, <2>2, <2>3, <2>4, <2>5
  <2>7. Quiet => UNCHANGED <<files, plain>> /\ (swap => swap')
    BY <2>1, <2>2, <2>3, <2>4, <2>5, Zenon
  <2> QED BY <2>1, <2>2, <2>3, <2>4, <2>5, <2>6, <2>7, RestoreStep, Zenon
<1>6. CASE SwapOn(p)
  <2>1. /\ Runs(p, <<"swap", "on">>) /\ Proceed(p, FALSE) /\ swap' = (swap \/ Tx(p).swap)
        /\ UNCHANGED <<boot, original, mishaps, files, modules, plain, bridge, lock, records>>
    BY <1>6, Zenon DEF SwapOn, Advance, Steady
  <2>2. run[p].prog = "restore" /\ run[p].at = 7
    BY <2>1, Places DEF At, IInv
  <2>3. HostOK' /\ mishaps' \in mishaps..MaxMishaps
    <3>1. mishaps' \in mishaps..MaxMishaps
      BY <2>1 DEF TypeOK, IInv
    <3>2. swap' \in BOOLEAN
      BY <2>1, Zenon
    <3> QED BY <2>1, <3>1, <3>2, Zenon DEF HostOK, TypeOK, IInv
  <2>4. swap => swap'
    BY <2>1, Zenon
  <2>5. /\ run[p].at \in 1..8 /\ FALSE \in BOOLEAN /\ TRUE \in BOOLEAN
        /\ bridge' = bridge \/ (Known(run[p].tx) /\ bridge' = OldBridge(run[p].tx))
        /\ run[p].at = 8 =>
             /\ Untouched(files, plain, swap)'
             /\ OldBridge(run[p].tx) \in {"unavailable", bridge'}
    BY <2>1, <2>2, <2>3, <2>4
  <2>6. Quiet => UNCHANGED <<files, plain>> /\ (swap => swap')
    BY <2>1, <2>2, <2>3, <2>4, Zenon
  <2> QED BY <2>1, <2>2, <2>3, <2>4, <2>5, <2>6, RestoreStep, Zenon
<1>7. CASE VerifyRestored(p)
  <2>1. /\ Runs(p, <<"verify", "restored">>)
        /\ (Restored(p) /\ Proceed(p, FALSE) /\ UNCHANGED lock) \/ Exit(p)
        /\ UNCHANGED <<boot, original, mishaps, host, records>>
    BY <1>7, Zenon DEF VerifyRestored, Advance, Steady
  <2>2. run[p].prog = "restore" /\ run[p].at = 8
    BY <2>1, Places DEF At, IInv
  <2>3. HostOK' /\ UNCHANGED <<files, plain, bridge, swap>> /\ mishaps' \in mishaps..MaxMishaps
    <3>1. mishaps' \in mishaps..MaxMishaps
      BY <2>1 DEF TypeOK, IInv
    <3> QED BY <2>1, <3>1, Zenon DEF HostOK, TypeOK, host, IInv
  <2>4. CASE Exit(p)
    BY <2>1, <2>3, <2>4, ExitStep
  <2>5. CASE Restored(p) /\ Proceed(p, FALSE) /\ UNCHANGED lock
    <3>1. Untouched(files, plain, swap)
      BY <2>2, <2>5, BackedUp, Zenon DEF Restored, Untouched
    <3>2. Untouched(files, plain, swap)' /\ OldBridge(run[p].tx) \in {"unavailable", bridge'}
      BY <2>1, <2>3, <2>5, <3>1, Zenon DEF Restored, Untouched
    <3>3. /\ run[p].at \in 1..8 /\ FALSE \in BOOLEAN /\ TRUE \in BOOLEAN
          /\ bridge' = bridge \/ (Known(run[p].tx) /\ bridge' = OldBridge(run[p].tx))
          /\ run[p].at = 8 =>
               /\ Untouched(files, plain, swap)'
               /\ OldBridge(run[p].tx) \in {"unavailable", bridge'}
      BY <2>1, <2>2, <2>3, <2>5, <3>2
    <3>4. Quiet => UNCHANGED <<files, plain>> /\ (swap => swap')
      BY <2>1, <2>2, <2>3, <2>5, <3>2, Zenon
    <3> QED BY <2>1, <2>2, <2>3, <2>5, <3>2, <3>3, <3>4, RestoreStep, Zenon
  <2> QED BY <2>1, <2>4, <2>5
<1>8. CASE RemoveActive(p)
  <2>1. /\ Runs(p, <<"remove", "active">>) /\ Proceed(p, FALSE)
        /\ active' = IF active = run[p].tx THEN None ELSE active
        /\ UNCHANGED <<boot, original, mishaps, host, lock, pending, backup>>
    BY <1>8, Zenon DEF RemoveActive, Advance, Steady
  <2>2. At(p, "restore", 9) /\ From(p, "restore", 9) /\ Working(p)
    BY <2>1, Places DEF At, From, Working, IInv
  <2>3. /\ run' \in [Shells -> Runners] /\ Placed'
        /\ run'[p].prog = run[p].prog /\ run'[p].at = run[p].at + 1
        /\ run'[p].tx = run[p].tx
        /\ \A q \in Shells : q # p => run'[q] = run[q]
    <3>1. /\ ~At(p, "apply", 13) /\ ~At(p, "restore", 10) /\ FALSE \in BOOLEAN
          /\ \A a \in Attempts : backup[a] # None => backup'[a] # None
      BY <2>1, <2>2 DEF At
    <3> QED BY <2>1, <2>2, <3>1, ProceedControl, Zenon
  <2>4. Quiet' => Quiet \/ Recorded(run[p].tx)
    BY <2>1, <2>2, Alone DEF Quiet, Recorded
  <2>5. (Named /\ Applying /\ OneOriginal /\ Bridged)'
    BY <2>1, <2>2, <2>3, <2>4, RemoveStep DEF At
  <2>6. TypeOK' /\ Counted' /\ Declared'
    <3>1. pending' \in Attempts \union {None} /\ active' \in Attempts \union {None}
      BY <2>1 DEF TypeOK, IInv
    <3>2. HostOK'
      BY <2>1, Zenon DEF HostOK, TypeOK, IInv, host
    <3>3. lock' \in Shells \union {None} /\ UNCHANGED <<boot, backup, original, mishaps>>
      BY <2>1, <2>3 DEF TypeOK, IInv
    <3> QED BY <2>3, <3>1, <3>2, <3>3, TypeRecords, Zenon
  <2> QED BY <2>3, <2>5, <2>6 DEF IInv
<1>9. CASE RemovePending(p)
  <2>1. /\ Runs(p, <<"remove", "pending">>) /\ Exit(p)
        /\ pending' = IF pending = run[p].tx THEN None ELSE pending
        /\ UNCHANGED <<boot, original, mishaps, host, active, backup>>
    BY <1>9, Zenon DEF RemovePending, Steady
  <2>2. From(p, "restore", 9) /\ Working(p)
    BY <2>1, Places DEF At, From, Working, IInv
  <2>3. /\ run' \in [Shells -> Runners] /\ lock' \in Shells \union {None} /\ Placed'
        /\ run'[p] = Idle /\ \A q \in Shells : q # p => run'[q] = run[q]
    BY <2>1, ExitControl
  <2>4. Quiet' => Quiet \/ Recorded(run[p].tx)
    BY <2>1, <2>2, Alone DEF Quiet, Recorded
  <2>5. run'[p].tx = None /\ run'[p].prog = "idle"
    BY <2>3 DEF Idle
  <2>6. (Named /\ Applying /\ OneOriginal /\ Bridged)'
    BY <2>1, <2>2, <2>3, <2>4, <2>5, RemoveStep DEF From
  <2>7. TypeOK' /\ Counted' /\ Declared'
    <3>1. pending' \in Attempts \union {None} /\ active' \in Attempts \union {None}
      BY <2>1 DEF TypeOK, IInv
    <3>2. HostOK'
      BY <2>1, Zenon DEF HostOK, TypeOK, IInv, host
    <3>3. lock' \in Shells \union {None} /\ UNCHANGED <<boot, backup, original, mishaps>>
      BY <2>1, <2>3 DEF TypeOK, IInv
    <3> QED BY <2>3, <3>1, <3>2, <3>3, TypeRecords, Zenon
  <2> QED BY <2>3, <2>6, <2>7 DEF IInv
<1> QED BY <1>1, <1>2, <1>3, <1>4, <1>5, <1>6, <1>7, <1>8, <1>9, Zenon DEF Rollback

\* A failing command, a kill.
LEMMA FailIInv ==
  ASSUME IInv, NEW p \in Shells, Fail(p) \/ Kill(p)
  PROVE  IInv'
<1>1. mishaps' \in mishaps..MaxMishaps /\ UNCHANGED <<host, boot, records, original>>
  <2>1. Mishap /\ UNCHANGED <<host, boot, records, original>>
    BY Zenon DEF Fail, Kill
  <2> QED BY <2>1, MishapAssumption DEF Mishap, IInv, TypeOK
<1>2. CASE Exit(p)
  BY <1>1, <1>2, ExitStep
<1>3. CASE /\ Restore(p, run[p].tx) /\ UNCHANGED lock
           /\ run[p].prog = "apply"
  <2>1. lock = p
    BY <1>3 DEF IInv, Placed, Working
  <2> QED BY <1>1, <1>3, <2>1, RestoreBegin
<1>4. CASE /\ Proceed(p, TRUE) /\ UNCHANGED lock
           /\ run[p].prog = "restore" /\ run[p].at \in 2..7
  <2>1. HostOK' /\ UNCHANGED <<files, plain, bridge, swap>>
    BY <1>1, Zenon DEF HostOK, TypeOK, host, IInv
  <2>2. /\ run[p].at \in 1..8 /\ FALSE \in BOOLEAN /\ TRUE \in BOOLEAN
        /\ bridge' = bridge \/ (Known(run[p].tx) /\ bridge' = OldBridge(run[p].tx))
        /\ run[p].at = 8 =>
             /\ Untouched(files, plain, swap)'
             /\ OldBridge(run[p].tx) \in {"unavailable", bridge'}
    BY <1>1, <1>4, <2>1
  <2>3. Quiet => UNCHANGED <<files, plain>> /\ (swap => swap')
    BY <1>1, <1>4, <2>1, Zenon
  <2> QED BY <1>1, <1>4, <2>1, <2>2, <2>3, RestoreStep, Zenon
<1>5. \/ Exit(p)
      \/ Restore(p, run[p].tx) /\ UNCHANGED lock /\ run[p].prog = "apply"
      \/ /\ Proceed(p, TRUE) /\ UNCHANGED lock
         /\ run[p].prog = "restore" /\ run[p].at \in 2..7
  BY Zenon DEF Fail, Kill
<1> QED BY <1>2, <1>3, <1>4, <1>5, Zenon

\* The invariant holds of the host as it is found.
LEMMA InitIInv == ASSUME Init PROVE IInv
<1>1. \A p \in Shells : /\ run[p] = Idle /\ run[p].prog = "idle" /\ run[p].tx = None
                        /\ run[p] \in Runners
  <2>1. \A p \in Shells : run[p] = Idle
    BY DEF Init
  <2>2. Idle \in Runners /\ Idle.prog = "idle" /\ Idle.tx = None
    BY DEF Idle, Runners
  <2> QED BY <2>1, <2>2
<1>2. TypeOK /\ Counted /\ Declared
  <2>1. plain \in {"old", "desired"} /\ bridge \in Bridge
    BY DEF Init, Plain, Bridges, Bridge
  <2>2. run \in [Shells -> Runners]
    <3> HIDE DEF Runners
    <3> QED BY <1>1 DEF Init
  <2>3. modules \in BOOLEAN /\ swap \in BOOLEAN /\ original \in [files : SUBSET Files, swap : BOOLEAN]
    <3>1. ("modules" \in files) \in BOOLEAN /\ ("fstab" \notin files) \in BOOLEAN
      OBVIOUS
    <3>2. modules \in BOOLEAN /\ swap \in BOOLEAN /\ files \in SUBSET Files
      BY <3>1, Zenon DEF Init
    <3> QED BY <3>2, Zenon DEF Init
  <2>4. boot \in 0..MaxMishaps /\ mishaps \in 0..MaxMishaps /\ Counted
    BY MishapAssumption DEF Init, Counted
  <2>5. backup \in [Attempts -> Backups \union {None}]
    <3> HIDE DEF Backups
    <3> QED BY DEF Init
  <2>6. TypeOK
    BY <2>1, <2>2, <2>3, <2>4, <2>5, Zenon DEF TypeOK, Init, Runners
  <2>7. Declared
    <3>1. original.files = files /\ original.swap = swap
      BY Zenon DEF Init
    <3>2. swap => "fstab" \notin files
      BY Zenon DEF Init
    <3> QED BY <3>1, <3>2, Zenon DEF Declared
  <2> QED BY <2>4, <2>6, <2>7
<1>3. Placed
  BY <1>1, ShellAssumption DEF Init, Placed, Working
<1>4. Named
  BY DEF Init, Named, OneTransaction, Recorded
<1>5. Applying
  BY <1>1 DEF Applying, At, From
<1>6. OneOriginal
  <2>1. \A q \in Shells : ~From(q, "restore", 9)
    BY <1>1 DEF From
  <2>2. \A a \in Attempts : backup[a] = None
    BY DEF Init
  <2>3. Untouched(files, plain, swap)
    BY Zenon DEF Init, Untouched
  <2> QED BY <2>1, <2>2, <2>3, Zenon DEF OneOriginal
<1>7. Bridged
  <2>1. \A a \in Attempts : ~Live(a)
    BY DEF Init, Live
  <2>2. \A a \in Attempts : ~Recorded(a)
    BY DEF Init, Recorded
  <2> QED BY <2>1, <2>2, Zenon DEF Bridged
<1> QED BY <1>2, <1>3, <1>4, <1>5, <1>6, <1>7 DEF IInv

\* Every step preserves it.
LEMMA NextIInv == ASSUME IInv, [Next]_vars PROVE IInv'
<1>1. ASSUME NEW p \in Shells, Begin(p) \/ Request(p) \/ Apply(p) \/ Rollback(p) \/ Fail(p) \/ Kill(p)
      PROVE  IInv'
  BY <1>1, BeginStep, RequestStep, ApplyIInv, RollbackIInv, FailIInv, Zenon
<1>2. CASE Reboot
  BY <1>2, RebootStep
<1>3. CASE UNCHANGED vars
  <2> USE <1>3 DEF vars, host, records
  <2>1. TypeOK' /\ Counted' /\ Declared'
    BY Zenon DEF IInv, TypeOK, Counted, Declared
  <2>2. Placed' /\ Named'
    BY DEF IInv, Placed, Named, Working, OneTransaction, Recorded
  <2>3. Applying'
    BY DEF IInv, Applying, At, From, Tx, OldBridge, Quiet
  <2>4. OneOriginal'
    BY DEF IInv, OneOriginal, Quiet, Untouched, From, OldBridge
  <2>5. Bridged'
    <3>1. \A a \in Attempts : Live(a)' => Live(a)
      BY DEF Live, Recorded
    <3>2. UNCHANGED <<backup, boot, bridge, pending, active>> /\ Bridged
      BY DEF IInv
    <3> QED BY <3>1, <3>2, BridgedStep, Zenon DEF Bridged, Quiet, Recorded
  <2> QED BY <2>1, <2>2, <2>3, <2>4, <2>5 DEF IInv
<1> QED BY <1>1, <1>2, <1>3, Zenon DEF Next

\* The inductive invariant holds of every behaviour.
THEOREM Invariant == Spec => []IInv
<1>1. Init => IInv
  BY InitIInv
<1>2. IInv /\ [Next]_vars => IInv'
  BY NextIInv
<1> QED BY <1>1, <1>2, PTL DEF Spec

\* Every variable keeps its type.
THEOREM TypeCorrect == Spec => []TypeOK
<1>1. IInv => TypeOK
  BY DEF IInv
<1> QED BY <1>1, Invariant, PTL

\* The host is the one that was found whenever neither pending.json nor the active
\* state is there, and the two never name different transactions: whatever stops
\* apply-host-prerequisites.sh and rollback-host-prerequisites.sh, in any number of
\* shells, and however often.
THEOREM RecordsHolds == Spec => []RecordsHold
<1>1. IInv => RecordsHold
  BY DEF IInv, Named, OneOriginal, Quiet, Untouched, RecordsHold, ChangesAreRecorded
<1> QED BY <1>1, Invariant, PTL

\* A rollback never guesses a kernel default: where restore_transaction ends in the
\* boot of its apply, the net.bridge sysctls are those that were there, or those that
\* came with the module.
THEOREM BridgeRestoredHolds == Spec => []BridgeRestored
<1>1. ASSUME IInv, NEW p \in Shells, Runs(p, <<"remove", "pending">>), boot = Tx(p).boot,
             active = None, pending \in {None, run[p].tx}
      PROVE  bridge \in {Tx(p).bridge, "natural"}
  <2>1. From(p, "restore", 9) /\ run[p].prog = "restore"
    BY <1>1, Places DEF IInv, At, From
  <2>2. /\ run[p].tx \in Attempts /\ run[p].tx # None /\ Live(run[p].tx)
        /\ backup[run[p].tx] # None
    BY <1>1, <2>1, Alone DEF Working
  <2>3. Quiet \/ Recorded(run[p].tx)
    BY <1>1, <2>2 DEF Quiet, Recorded
  <2>4. bridge \in Base(run[p].tx)
    BY <1>1, <2>1, <2>2, <2>3, Settled
  <2>5. OldBridge(run[p].tx) \in {"unavailable", "natural", Tx(p).bridge}
    BY <1>1, <2>2 DEF IInv, OneOriginal, OldBridge, Tx
  <2>6. CASE Known(run[p].tx)
    BY <2>4, <2>5, <2>6 DEF Base, Known
  <2>7. CASE ~Known(run[p].tx)
    <3>1. Tx(p).bridge = "unavailable"
      BY <2>7 DEF Known, OldBridge, Tx
    <3>2. bridge \in {"unavailable", "natural"}
      BY <1>1, <2>4, <2>7 DEF Base, Tx
    <3> QED BY <3>1, <3>2
  <2> QED BY <2>6, <2>7
<1>2. IInv => BridgeRestored
  BY <1>1 DEF BridgeRestored
<1> QED BY <1>2, Invariant, PTL
================================================================================
