------------------------- MODULE GuardTransactionProofs -------------------------
(***************************************************************************)
(* Proofs about GuardTransaction, for any shells, attempts and mishaps.     *)
(*                                                                         *)
(* The argument.  A script works only under the lock, except while it waits *)
(* for the loader (Holding), and what a working script read of the journal  *)
(* is what the journal holds, until it comes back from that wait (Current). *)
(* Every transaction starts from a host that was rolled back, so all of     *)
(* them, closed or stale, have one prestate, which is never taken away      *)
(* (Rooted).  The rest follows the scripts: what each instruction of the    *)
(* recovery has already undone (Undone), where the guard was verified and   *)
(* is still up (Verifying), and that kubelet depends on the guard only      *)
(* while the guard is up (Dependent).                                      *)
(*                                                                         *)
(* With one shell a script knows the journal across the wait too (Own), and *)
(* the receipts follow the phases (Claimed, Recording): a recovery starts   *)
(* only where no PASS is published, and a PASS is published only for a      *)
(* guard that was found in place (Laid, Keeping).                          *)
(***************************************************************************)
EXTENDS GuardTransaction, FiniteSetTheorems, TLAPS

Scripts == {"offline", "retrofit", "close", "recover"}
Scripted(p) == sh[p].prog \in Scripts
At(p, s, n) == sh[p].prog = s /\ sh[p].at = n
From(p, s, n) == sh[p].prog = s /\ sh[p].at >= n

\* The guard was started and the lock handed to the loader.
Waiting(p) == \/ sh[p].prog = "offline" /\ sh[p].at \in 10..12
              \/ sh[p].prog = "retrofit" /\ sh[p].at \in 9..11
Working(p) == Scripted(p) /\ ~Waiting(p)

\* The lock is held again, and the journal not written yet.
Resumed(p) == At(p, "offline", 13) \/ At(p, "retrofit", 12) \/ At(p, "retrofit", 13)

\* A shell is at an instruction of its program, for a transaction.
Placed ==
  \A p \in Shells :
    /\ ~Scripted(p) => sh[p].at = 0 /\ sh[p].tx = None
    /\ Scripted(p) => sh[p].tx \in Transactions
    /\ sh[p].prog = "offline" => sh[p].at \in 1..18 /\ sh[p].tx.mode = "offline"
    /\ sh[p].prog = "retrofit" => sh[p].at \in 1..24 /\ sh[p].tx.mode = "retrofit"
    /\ sh[p].prog = "close" => sh[p].at \in 1..5
    /\ sh[p].prog = "recover" => sh[p].at \in 1..14

\* The lock is held by the script at work.
Holding == \A p \in Shells : Working(p) <=> lock = p

\* It knows the journal, and the phases it has recorded.
Current == \A p \in Shells : Working(p) /\ ~Resumed(p) => journal = sh[p].tx

Phased ==
  \A p \in Shells : Scripted(p) =>
    /\ sh[p].tx.phase = "rolled-back" <=> At(p, "recover", 14)
    /\ sh[p].tx.phase = "committed" <=> (At(p, "offline", 18) \/ At(p, "close", 5))
    /\ sh[p].tx.phase = "commit-intent" =>
         \/ At(p, "offline", 16) \/ At(p, "offline", 17)
         \/ At(p, "close", 3) \/ At(p, "close", 4)
         \/ At(p, "recover", 1)

\* One prestate, where what enables or requires the guard unit comes with it.
Prestate(f, e) ==
  f \in SUBSET Files /\ e \in BOOLEAN /\ (e \/ "dropin" \in f => "unit" \in f)

Rooted ==
  /\ journal = None =>
       /\ Prestate(files, enabled) /\ loaded = files \ {"support"}
       /\ \A p \in Shells : ~Scripted(p)
  /\ journal # None =>
       /\ Prestate(journal.files, journal.enabled)
       /\ journal.files \subseteq files
       /\ journal.files \ {"support"} \subseteq loaded
       /\ journal.enabled => enabled
       /\ \A p \in Shells : Scripted(p) =>
            sh[p].tx.files = journal.files /\ sh[p].tx.enabled = journal.enabled

\* What a recovery has undone when it comes to an instruction.
Undone ==
  \A p \in Shells :
    /\ From(p, "recover", 3) /\ "dropin" \in files => "dropin" \in journal.files
    /\ From(p, "recover", 4) /\ "dropin" \in loaded => "dropin" \in journal.files
    /\ From(p, "recover", 6) /\ "dropin" \in loaded => unit # "active"
    /\ From(p, "recover", 7) => ~table
    /\ From(p, "recover", 9) /\ "unit" \in files => "unit" \in journal.files
    /\ From(p, "recover", 10) /\ "support" \in files => "support" \in journal.files
    /\ From(p, "recover", 11) => loaded = files \ {"support"}
    /\ From(p, "recover", 12) =>
         enabled = journal.enabled /\ ("unit" \notin journal.files => unit = "inactive")
    /\ From(p, "recover", 13) => <<sh[p].tx.attempt, "rollback-verified">> \in receipts

\* Where the guard is not up yet, and where it was verified and stays up.
Verifying ==
  \A p \in Shells :
    /\ sh[p].prog = "offline" /\ sh[p].at <= 9 => unit # "active"
    /\ sh[p].prog = "retrofit" /\ sh[p].at <= 8 => "dropin" \notin files
    /\ From(p, "offline", 15) \/ From(p, "retrofit", 13) \/ From(p, "close", 2) =>
         unit = "active" /\ table

\* kubelet depends on the guard only while the guard is up.
Dependent ==
  /\ "dropin" \in loaded /\ unit = "active" => table
  /\ /\ journal # None
     /\ journal.mode = "retrofit" \/ journal.phase \in {"commit-intent", "committed"}
     /\ kubelet /\ "dropin" \in loaded
     => unit = "active"

\* A rolled-back transaction: its prestate, and a table only if that has the unit.
Restored ==
  journal # None /\ journal.phase = "rolled-back" =>
    /\ files = journal.files
    /\ loaded = files \ {"support"}
    /\ enabled = journal.enabled
    /\ "unit" \notin journal.files => unit = "inactive"
    /\ table => "unit" \in files
    /\ <<journal.attempt, "rollback-verified">> \in receipts

\* Each boot is a mishap.
Counted == boot <= mishaps

IInv == /\ TypeOK /\ Counted /\ Placed /\ Holding /\ Current /\ Phased
        /\ Rooted /\ Undone /\ Verifying /\ Dependent /\ Restored

--------------------------------------------------------------------------------
\* The programs, instruction by instruction.

\* Scripts names the programs.
LEMMA ProgramNames == DOMAIN Program = Scripts
BY DEF Program, Scripts

\* install-ingress-guard.sh, offline.
LEMMA OfflineProgram ==
  ASSUME NEW n \in 1..18, NEW x, NEW y, Program["offline"][n] = <<x, y>>
  PROVE
   \/ n = 1 /\ x = "install" /\ y = "support"
   \/ n = 2 /\ x = "install" /\ y = "unit"
   \/ n = 3 /\ x = "install" /\ y = "dropin"
   \/ n = 4 /\ x = "journal" /\ y = "artifacts-installed"
   \/ n = 5 /\ x = "reload" /\ y = "units"
   \/ n = 6 /\ x = "enable" /\ y = "guard"
   \/ n = 7 /\ x = "journal" /\ y = "guard-start-intent"
   \/ n = 8 /\ x = "start" /\ y = "guard"
   \/ n = 9 /\ x = "release" /\ y = "lock"
   \/ n = 10 /\ x = "start" /\ y = "guard"
   \/ n = 11 /\ x = "await" /\ y = "guard"
   \/ n = 12 /\ x = "retake" /\ y = "lock"
   \/ n = 13 /\ x = "journal" /\ y = "guard-active"
   \/ n = 14 /\ x = "verify" /\ y = "all"
   \/ n = 15 /\ x = "journal" /\ y = "commit-intent"
   \/ n = 16 /\ x = "receipt" /\ y = "pass"
   \/ n = 17 /\ x = "journal" /\ y = "committed"
   \/ n = 18 /\ x = "end" /\ y = "script"
BY DEF Program, Commit, Install, Start

\* retrofit-ingress-guard.sh, the activation.
LEMMA RetrofitProgram ==
  ASSUME NEW n \in 1..24, NEW x, NEW y, Program["retrofit"][n] = <<x, y>>
  PROVE
   \/ n = 1 /\ x = "install" /\ y = "support"
   \/ n = 2 /\ x = "install" /\ y = "unit"
   \/ n = 3 /\ x = "journal" /\ y = "artifacts-installed"
   \/ n = 4 /\ x = "reload" /\ y = "units"
   \/ n = 5 /\ x = "enable" /\ y = "guard"
   \/ n = 6 /\ x = "journal" /\ y = "guard-start-intent"
   \/ n = 7 /\ x = "start" /\ y = "guard"
   \/ n = 8 /\ x = "release" /\ y = "lock"
   \/ n = 9 /\ x = "start" /\ y = "guard"
   \/ n = 10 /\ x = "await" /\ y = "guard"
   \/ n = 11 /\ x = "retake" /\ y = "lock"
   \/ n = 12 /\ x = "verify" /\ y = "guard"
   \/ n = 13 /\ x = "journal" /\ y = "guard-active"
   \/ n = 14 /\ x = "install" /\ y = "dropin"
   \/ n = 15 /\ x = "reload" /\ y = "units"
   \/ n = 16 /\ x = "verify" /\ y = "dependency"
   \/ n = 17 /\ x = "journal" /\ y = "dropin-installed"
   \/ n = 18 /\ x = "journal" /\ y = "kubelet-restart-intent"
   \/ n = 19 /\ x = "restart" /\ y = "kubelet"
   \/ n = 20 /\ x = "verify" /\ y = "all"
   \/ n = 21 /\ x = "journal" /\ y = "awaiting-reboot-intent"
   \/ n = 22 /\ x = "receipt" /\ y = "pending-reboot"
   \/ n = 23 /\ x = "journal" /\ y = "awaiting-reboot"
   \/ n = 24 /\ x = "end" /\ y = "script"
BY DEF Program, Commit, Install, Start

\* retrofit-ingress-guard.sh --close-after-reboot.
LEMMA CloseProgram ==
  ASSUME NEW n \in 1..5, NEW x, NEW y, Program["close"][n] = <<x, y>>
  PROVE
   \/ n = 1 /\ x = "verify" /\ y = "closure"
   \/ n = 2 /\ x = "journal" /\ y = "commit-intent"
   \/ n = 3 /\ x = "receipt" /\ y = "pass"
   \/ n = 4 /\ x = "journal" /\ y = "committed"
   \/ n = 5 /\ x = "end" /\ y = "script"
BY DEF Program, Commit, Install, Start

\* recover-ingress-guard.sh.
LEMMA RecoverProgram ==
  ASSUME NEW n \in 1..14, NEW x, NEW y, Program["recover"][n] = <<x, y>>
  PROVE
   \/ n = 1 /\ x = "journal" /\ y = "rollback-intent"
   \/ n = 2 /\ x = "remove" /\ y = "dropin"
   \/ n = 3 /\ x = "reload" /\ y = "units"
   \/ n = 4 /\ x = "restore" /\ y = "kubelet"
   \/ n = 5 /\ x = "stop" /\ y = "guard"
   \/ n = 6 /\ x = "delete" /\ y = "table"
   \/ n = 7 /\ x = "disable" /\ y = "guard"
   \/ n = 8 /\ x = "remove" /\ y = "unit"
   \/ n = 9 /\ x = "remove" /\ y = "support"
   \/ n = 10 /\ x = "reload" /\ y = "units"
   \/ n = 11 /\ x = "verify" /\ y = "prestate"
   \/ n = 12 /\ x = "receipt" /\ y = "rollback-verified"
   \/ n = 13 /\ x = "journal" /\ y = "rolled-back"
   \/ n = 14 /\ x = "end" /\ y = "script"
BY DEF Program, Commit, Install, Start
\* Where a shell is that runs an instruction.
LEMMA Places ==
  ASSUME NEW p \in Shells, NEW x, NEW y, TypeOK, Placed, Runs(p, <<x, y>>)
  PROVE  /\ Scripted(p)
         /\ \/ /\ x = "install"
               /\ \/ y = "support" /\ (At(p, "offline", 1) \/ At(p, "retrofit", 1))
                  \/ y = "unit" /\ (At(p, "offline", 2) \/ At(p, "retrofit", 2))
                  \/ y = "dropin" /\ (At(p, "offline", 3) \/ At(p, "retrofit", 14))
            \/ /\ x = "journal"
               /\ \/ y = "artifacts-installed" /\ (At(p, "offline", 4) \/ At(p, "retrofit", 3))
                  \/ y = "guard-start-intent" /\ (At(p, "offline", 7) \/ At(p, "retrofit", 6))
                  \/ y = "guard-active" /\ (At(p, "offline", 13) \/ At(p, "retrofit", 13))
                  \/ y = "commit-intent" /\ (At(p, "offline", 15) \/ At(p, "close", 2))
                  \/ y = "committed" /\ (At(p, "offline", 17) \/ At(p, "close", 4))
                  \/ y = "dropin-installed" /\ At(p, "retrofit", 17)
                  \/ y = "kubelet-restart-intent" /\ At(p, "retrofit", 18)
                  \/ y = "awaiting-reboot-intent" /\ At(p, "retrofit", 21)
                  \/ y = "awaiting-reboot" /\ At(p, "retrofit", 23)
                  \/ y = "rollback-intent" /\ At(p, "recover", 1)
                  \/ y = "rolled-back" /\ At(p, "recover", 13)
            \/ /\ x = "reload"
               /\ y = "units" /\ \/ At(p, "offline", 5)
                                 \/ At(p, "retrofit", 4)
                                 \/ At(p, "retrofit", 15)
                                 \/ At(p, "recover", 3)
                                 \/ At(p, "recover", 10)
            \/ /\ x = "enable"
               /\ y = "guard" /\ (At(p, "offline", 6) \/ At(p, "retrofit", 5))
            \/ /\ x = "start"
               /\ y = "guard" /\ \/ At(p, "offline", 8)
                                 \/ At(p, "offline", 10)
                                 \/ At(p, "retrofit", 7)
                                 \/ At(p, "retrofit", 9)
            \/ /\ x = "release"
               /\ y = "lock" /\ (At(p, "offline", 9) \/ At(p, "retrofit", 8))
            \/ /\ x = "await"
               /\ y = "guard" /\ (At(p, "offline", 11) \/ At(p, "retrofit", 10))
            \/ /\ x = "retake"
               /\ y = "lock" /\ (At(p, "offline", 12) \/ At(p, "retrofit", 11))
            \/ /\ x = "verify"
               /\ \/ y = "all" /\ (At(p, "offline", 14) \/ At(p, "retrofit", 20))
                  \/ y = "guard" /\ At(p, "retrofit", 12)
                  \/ y = "dependency" /\ At(p, "retrofit", 16)
                  \/ y = "closure" /\ At(p, "close", 1)
                  \/ y = "prestate" /\ At(p, "recover", 11)
            \/ /\ x = "receipt"
               /\ \/ y = "pass" /\ (At(p, "offline", 16) \/ At(p, "close", 3))
                  \/ y = "pending-reboot" /\ At(p, "retrofit", 22)
                  \/ y = "rollback-verified" /\ At(p, "recover", 12)
            \/ /\ x = "end"
               /\ y = "script" /\ \/ At(p, "offline", 18)
                                  \/ At(p, "retrofit", 24)
                                  \/ At(p, "close", 5)
                                  \/ At(p, "recover", 14)
            \/ /\ x = "restart"
               /\ y = "kubelet" /\ At(p, "retrofit", 19)
            \/ /\ x = "remove"
               /\ \/ y = "dropin" /\ At(p, "recover", 2)
                  \/ y = "unit" /\ At(p, "recover", 8)
                  \/ y = "support" /\ At(p, "recover", 9)
            \/ /\ x = "restore"
               /\ y = "kubelet" /\ At(p, "recover", 4)
            \/ /\ x = "stop"
               /\ y = "guard" /\ At(p, "recover", 5)
            \/ /\ x = "delete"
               /\ y = "table" /\ At(p, "recover", 6)
            \/ /\ x = "disable"
               /\ y = "guard" /\ At(p, "recover", 7)
<1>1. sh[p].prog \in Scripts
  BY ProgramNames DEF Runs
<1>2. Program[sh[p].prog][sh[p].at] = <<x, y>>
  BY DEF Runs
<1>3. CASE sh[p].prog = "offline"
  <2>1. sh[p].at \in 1..18 /\ Program["offline"][sh[p].at] = <<x, y>>
    BY <1>2, <1>3 DEF Placed
  <2> QED BY <1>1, <1>3, <2>1, OfflineProgram DEF Scripted, At
<1>4. CASE sh[p].prog = "retrofit"
  <2>1. sh[p].at \in 1..24 /\ Program["retrofit"][sh[p].at] = <<x, y>>
    BY <1>2, <1>4 DEF Placed
  <2> QED BY <1>1, <1>4, <2>1, RetrofitProgram DEF Scripted, At
<1>5. CASE sh[p].prog = "close"
  <2>1. sh[p].at \in 1..5 /\ Program["close"][sh[p].at] = <<x, y>>
    BY <1>2, <1>5 DEF Placed
  <2> QED BY <1>1, <1>5, <2>1, CloseProgram DEF Scripted, At
<1>6. CASE sh[p].prog = "recover"
  <2>1. sh[p].at \in 1..14 /\ Program["recover"][sh[p].at] = <<x, y>>
    BY <1>2, <1>6 DEF Placed
  <2> QED BY <1>1, <1>6, <2>1, RecoverProgram DEF Scripted, At
<1> QED BY <1>1, <1>3, <1>4, <1>5, <1>6 DEF Scripts

--------------------------------------------------------------------------------
\* What a script knows while it works, and the moves all instructions share.

\* The set of the values of sh.
ShellStates == [prog : {"idle", "absent", "automatic"} \union DOMAIN Program,
                at : 0..24, tx : Transactions \union {None}]

\* A script at work holds the lock, alone, and knows the journal.
LEMMA AtWork ==
  ASSUME IInv, NEW p \in Shells, Scripted(p), ~Waiting(p)
  PROVE  /\ lock = p
         /\ journal # None /\ journal \in Transactions
         /\ sh[p].tx \in Transactions
         /\ ~Resumed(p) => journal = sh[p].tx
         /\ sh[p].tx.files = journal.files /\ sh[p].tx.enabled = journal.enabled
         /\ \A q \in Shells : q # p => ~Working(q)
<1>1. lock = p /\ \A q \in Shells : q # p => ~Working(q)
  BY DEF IInv, Holding, Working
<1>2. journal # None
  BY DEF IInv, Rooted
<1>3. journal \in Transactions /\ sh[p].tx \in Transactions
  BY <1>2, Zenon DEF IInv, TypeOK, Placed
<1>4. ~Resumed(p) => journal = sh[p].tx
  BY DEF IInv, Current, Working
<1>5. sh[p].tx.files = journal.files /\ sh[p].tx.enabled = journal.enabled
  BY <1>2, Zenon DEF IInv, Rooted
<1> QED BY <1>1, <1>2, <1>3, <1>4, <1>5

\* Going to the next instruction, for all but journal writes, the hand-over of the
\* lock and the end.
LEMMA AdvanceControl ==
  ASSUME IInv, NEW p \in Shells, NEW x, NEW y, Runs(p, <<x, y>>), Advance(p),
         x \notin {"journal", "release", "retake", "end"},
         UNCHANGED <<lock, journal>>
  PROVE  sh' \in [Shells -> ShellStates] /\ Placed' /\ Holding' /\ Current' /\ Phased'
<1>1. Scripted(p)
  BY Places DEF IInv
<1>2. /\ sh[p].prog = "offline" => sh[p].at \in 1..17 \ {4, 7, 9, 12, 13, 15, 17}
      /\ sh[p].prog = "retrofit" => sh[p].at \in 1..23 \ {3, 6, 8, 11, 13, 17, 18, 21, 23}
      /\ sh[p].prog = "close" => sh[p].at \in {1, 3}
      /\ sh[p].prog = "recover" => sh[p].at \in 2..12
  BY <1>1, Places, SMT DEF IInv, At, TypeOK, Placed, Scripted, Scripts
<1>3. Scripted(p)' /\ (Waiting(p) <=> Waiting(p)') /\ (Resumed(p)' => Resumed(p))
  BY <1>1, <1>2, SMT DEF IInv, TypeOK, Advance, Scripted, Scripts, Waiting, Resumed, At
<1>4. sh' \in [Shells -> ShellStates]
  BY <1>1, <1>2, SMT DEF IInv, TypeOK, Advance, Scripted, Scripts, ShellStates
<1>5. Placed'
  BY <1>1, <1>2, SMT DEF IInv, TypeOK, Placed, Advance, Scripted, Scripts
<1>6. Holding'
  BY <1>1, <1>2, SMT DEF IInv, TypeOK, Holding, Advance, Scripted, Scripts, Working, Waiting
<1>7. Current'
  BY <1>1, <1>2, <1>3, SMT DEF IInv, TypeOK, Current, Advance, Scripted, Scripts, Working,
     Waiting, Resumed, At
<1>8. Phased'
  BY <1>1, <1>2, SMT DEF IInv, TypeOK, Phased, Advance, At, Scripted, Scripts
<1> QED BY <1>4, <1>5, <1>6, <1>7, <1>8

\* Only an installation adds files: no recovery is at work.
LEMMA InstallFileStep ==
  ASSUME IInv, NEW p \in Shells, NEW f \in Files, InstallFile(p, f)
  PROVE  IInv'
<1>1. \/ f = "support" /\ (At(p, "offline", 1) \/ At(p, "retrofit", 1))
      \/ f = "unit" /\ (At(p, "offline", 2) \/ At(p, "retrofit", 2))
      \/ f = "dropin" /\ (At(p, "offline", 3) \/ At(p, "retrofit", 14))
  BY Places, SMT DEF IInv, InstallFile
<1>2. lock = p /\ journal # None /\ journal \in Transactions /\ journal = sh[p].tx
  BY <1>1, AtWork, SMT DEF IInv, Placed, At, Scripted, Scripts, Waiting, Resumed
<1>3. sh' \in [Shells -> ShellStates] /\ Placed' /\ Holding' /\ Current' /\ Phased'
  <2>1. Runs(p, <<"install", f>>) /\ Advance(p) /\ UNCHANGED <<lock, journal>>
    BY Zenon DEF InstallFile, records
  <2> QED BY <2>1, AdvanceControl, Zenon
<1>4. TypeOK' /\ Counted'
  BY <1>3, SMT DEF IInv, TypeOK, Counted, ShellStates, InstallFile, records
<1>5. Rooted'
  BY <1>1, <1>2, SMT DEF IInv, TypeOK, Rooted, Prestate, InstallFile, Advance, At,
     Scripted, Scripts, host, records, Files
<1>6. Undone'
  BY <1>1, <1>2, SMT DEF IInv, TypeOK, Undone, Rooted, Holding, Working, Waiting,
     InstallFile, Advance, From, At, Scripted, Scripts, host, records, Files, Publish
<1>7. Verifying'
  BY <1>1, <1>2, SMT DEF IInv, TypeOK, Verifying, Holding, Working, Waiting, InstallFile,
     Advance, From, At, Scripted, Scripts, host, records, Files
<1>8. Dependent'
  BY <1>1, <1>2, SMT DEF IInv, TypeOK, Dependent, Verifying, Undone, Rooted, Placed,
     Phased, InstallFile, From, At, Scripted, Scripts, host, records
<1>9. Restored'
  BY <1>1, <1>2, SMT DEF IInv, TypeOK, Restored, Phased, InstallFile, At, Scripted,
     Scripts, host, records, Publish
<1> QED BY <1>3, <1>4, <1>5, <1>6, <1>7, <1>8, <1>9 DEF IInv

\* The recovery removes what the prestate has not.
LEMMA RemoveFileStep ==
  ASSUME IInv, NEW p \in Shells, NEW f \in Files, RemoveFile(p, f)
  PROVE  IInv'
<1>1. \/ f = "dropin" /\ At(p, "recover", 2)
      \/ f = "unit" /\ At(p, "recover", 8)
      \/ f = "support" /\ At(p, "recover", 9)
  BY Places, SMT DEF IInv, RemoveFile
<1>2. lock = p /\ journal # None /\ journal \in Transactions /\ journal = sh[p].tx
  BY <1>1, AtWork, SMT DEF IInv, Placed, At, Scripted, Scripts, Waiting, Resumed
<1>3. sh' \in [Shells -> ShellStates] /\ Placed' /\ Holding' /\ Current' /\ Phased'
  <2>1. Runs(p, <<"remove", f>>) /\ Advance(p) /\ UNCHANGED <<lock, journal>>
    BY Zenon DEF RemoveFile, records
  <2> QED BY <2>1, AdvanceControl, Zenon
<1>4. TypeOK' /\ Counted'
  BY <1>2, <1>3, SMT DEF IInv, TypeOK, Counted, ShellStates, RemoveFile, host, records,
     Files, Publish, Transactions, Results
<1>5. Rooted'
  BY <1>1, <1>2, SMT DEF IInv, TypeOK, Rooted, Prestate, RemoveFile, Advance, At, Scripted,
     Scripts, host, records, Files
<1>6. Undone'
  BY <1>1, <1>2, SMT DEF IInv, TypeOK, Undone, Rooted, Holding, Working, Waiting,
     RemoveFile, Advance, From, At, Scripted, Scripts, host, records, Files, Publish
<1>7. Verifying'
  BY <1>1, <1>2, SMT DEF IInv, TypeOK, Verifying, Holding, Working, Waiting, RemoveFile,
     Advance, From, At, Scripted, Scripts, host, records, Files
<1>8. Dependent'
  BY <1>1, <1>2, SMT DEF IInv, TypeOK, Dependent, Verifying, Undone, Rooted, Placed,
     Phased, RemoveFile, From, At, Scripted, Scripts, host, records
<1>9. Restored'
  BY <1>1, <1>2, SMT DEF IInv, TypeOK, Restored, Phased, RemoveFile, At, Scripted, Scripts,
     host, records, Publish
<1> QED BY <1>3, <1>4, <1>5, <1>6, <1>7, <1>8, <1>9 DEF IInv

\* The recovery reloads after it has removed the drop-in, the retrofit installs it
\* only when the guard is up.
LEMMA ReloadStep ==
  ASSUME IInv, NEW p \in Shells, Reload(p)
  PROVE  IInv'
<1>1. \/ At(p, "offline", 5) \/ At(p, "retrofit", 4) \/ At(p, "retrofit", 15)
      \/ At(p, "recover", 3) \/ At(p, "recover", 10)
  BY Places, SMT DEF IInv, Reload
<1>2. lock = p /\ journal # None /\ journal \in Transactions /\ journal = sh[p].tx
  BY <1>1, AtWork, SMT DEF IInv, Placed, At, Scripted, Scripts, Waiting, Resumed
<1>3. sh' \in [Shells -> ShellStates] /\ Placed' /\ Holding' /\ Current' /\ Phased'
  <2>1. Runs(p, <<"reload", "units">>) /\ Advance(p) /\ UNCHANGED <<lock, journal>>
    BY Zenon DEF Reload, records
  <2> QED BY <2>1, AdvanceControl, Zenon
<1>4. TypeOK' /\ Counted'
  BY <1>2, <1>3, SMT DEF IInv, TypeOK, Counted, ShellStates, Reload, host, records, Files,
     Publish, Transactions, Results
<1>5. Rooted'
  BY <1>1, <1>2, SMT DEF IInv, TypeOK, Rooted, Prestate, Reload, Advance, At, Scripted,
     Scripts, host, records, Files
<1>6. Undone'
  BY <1>1, <1>2, SMT DEF IInv, TypeOK, Undone, Rooted, Holding, Working, Waiting, Reload,
     Advance, From, At, Scripted, Scripts, host, records, Files, Publish
<1>7. Verifying'
  BY <1>1, <1>2, SMT DEF IInv, TypeOK, Verifying, Holding, Working, Waiting, Reload,
     Advance, From, At, Scripted, Scripts, host, records, Files
<1>8. Dependent'
  <2>1. loaded' = files \ {"support"} /\ UNCHANGED <<kubelet, unit, table, journal>>
    BY Zenon DEF Reload, records
  <2>2. CASE At(p, "recover", 3) \/ At(p, "recover", 10)
    <3>1. "dropin" \in files => "dropin" \in loaded
      <4>1. From(p, "recover", 3)
        BY <2>2, SMT DEF From, At
      <4>2. "dropin" \in files => "dropin" \in journal.files
        BY <4>1 DEF IInv, Undone
      <4>3. journal.files \ {"support"} \subseteq loaded
        BY <1>2, SMT DEF IInv, Rooted
      <4> QED BY <4>2, <4>3, SMT
    <3> QED BY <2>1, <3>1, SMT DEF IInv, Dependent
  <2>3. CASE At(p, "retrofit", 15)
    BY <2>3, <2>1, SMT DEF IInv, Dependent, Verifying, At, From
  <2>4. CASE At(p, "retrofit", 4)
    BY <2>4, <2>1, SMT DEF IInv, Dependent, Verifying, At, From
  <2>5. CASE At(p, "offline", 5)
    BY <2>5, <2>1, <1>2, SMT DEF IInv, Dependent, Verifying, At, From, Placed, Phased,
       Scripted, Scripts
  <2> QED BY <2>2, <2>3, <2>4, <2>5, <1>1
<1>9. Restored'
  BY <1>1, <1>2, SMT DEF IInv, TypeOK, Restored, Phased, Reload, At, Scripted, Scripts,
     host, records, Publish
<1> QED BY <1>3, <1>4, <1>5, <1>6, <1>7, <1>8, <1>9 DEF IInv

\* The unit is enabled before any recovery.
LEMMA EnableStep ==
  ASSUME IInv, NEW p \in Shells, Enable(p)
  PROVE  IInv'
<1>1. At(p, "offline", 6) \/ At(p, "retrofit", 5)
  BY Places, SMT DEF IInv, Enable
<1>2. lock = p /\ journal # None /\ journal \in Transactions /\ journal = sh[p].tx
  BY <1>1, AtWork, SMT DEF IInv, Placed, At, Scripted, Scripts, Waiting, Resumed
<1>3. sh' \in [Shells -> ShellStates] /\ Placed' /\ Holding' /\ Current' /\ Phased'
  <2>1. Runs(p, <<"enable", "guard">>) /\ Advance(p) /\ UNCHANGED <<lock, journal>>
    BY Zenon DEF Enable, records
  <2> QED BY <2>1, AdvanceControl, Zenon
<1>4. TypeOK' /\ Counted'
  BY <1>2, <1>3, SMT DEF IInv, TypeOK, Counted, ShellStates, Enable, host, records, Files,
     Publish, Transactions, Results
<1>5. Rooted'
  <2>1. \A q \in Shells : Scripted(q)' = Scripted(q) /\ sh'[q].tx = sh[q].tx
    BY SMT DEF IInv, TypeOK, Enable, Advance, Scripted, Scripts
  <2> QED BY <1>2, <2>1, Zenon DEF IInv, Rooted, Enable, records
<1>6. Undone'
  <2>1. \A q \in Shells : sh'[q].prog # "recover"
    BY <1>1, <1>2, SMT DEF IInv, TypeOK, Enable, Advance, Holding, Working, Waiting, At,
       Scripted, Scripts
  <2> QED BY <2>1, Zenon DEF Undone, From
<1>7. Verifying'
  BY <1>1, <1>2, SMT DEF IInv, TypeOK, Verifying, Holding, Working, Waiting, Enable,
     Advance, From, At, Scripted, Scripts, host, records, Files
<1>8. Dependent'
  BY <1>1, <1>2, SMT DEF IInv, TypeOK, Dependent, Verifying, Undone, Rooted, Placed,
     Phased, Enable, From, At, Scripted, Scripts, host, records
<1>9. Restored'
  BY <1>1, <1>2, SMT DEF IInv, TypeOK, Restored, Phased, Enable, At, Scripted, Scripts,
     host, records, Publish
<1> QED BY <1>3, <1>4, <1>5, <1>6, <1>7, <1>8, <1>9 DEF IInv

\* The table is deleted when nothing that requires an active guard is loaded.
LEMMA DeleteTableStep ==
  ASSUME IInv, NEW p \in Shells, DeleteTable(p)
  PROVE  IInv'
<1>1. At(p, "recover", 6)
  BY Places, SMT DEF IInv, DeleteTable
<1>2. lock = p /\ journal # None /\ journal \in Transactions /\ journal = sh[p].tx
  BY <1>1, AtWork, SMT DEF IInv, Placed, At, Scripted, Scripts, Waiting, Resumed
<1>3. sh' \in [Shells -> ShellStates] /\ Placed' /\ Holding' /\ Current' /\ Phased'
  <2>1. Runs(p, <<"delete", "table">>) /\ Advance(p) /\ UNCHANGED <<lock, journal>>
    BY Zenon DEF DeleteTable, records
  <2> QED BY <2>1, AdvanceControl, Zenon
<1>4. TypeOK' /\ Counted'
  <2>1. table' \in BOOLEAN
    BY Zenon DEF DeleteTable
  <2> QED BY <2>1, <1>3, SMT DEF IInv, TypeOK, Counted, ShellStates, DeleteTable, records
<1>5. Rooted'
  BY <1>1, <1>2, SMT DEF IInv, TypeOK, Rooted, Prestate, DeleteTable, Advance, At,
     Scripted, Scripts, host, records, Files
<1>6. Undone'
  BY <1>1, <1>2, SMT DEF IInv, TypeOK, Undone, Rooted, Holding, Working, Waiting,
     DeleteTable, Advance, From, At, Scripted, Scripts, host, records, Files, Publish
<1>7. Verifying'
  BY <1>1, <1>2, SMT DEF IInv, TypeOK, Verifying, Holding, Working, Waiting, DeleteTable,
     Advance, From, At, Scripted, Scripts, host, records, Files
<1>8. Dependent'
  <2>1. ~("dropin" \in loaded /\ unit = "active")
    <3>1. From(p, "recover", 6)
      BY <1>1, SMT DEF From, At
    <3> QED BY <3>1, Zenon DEF IInv, Undone
  <2> QED BY <2>1, Zenon DEF IInv, Dependent, DeleteTable, records
<1>9. Restored'
  BY <1>1, <1>2, SMT DEF IInv, TypeOK, Restored, Phased, DeleteTable, At, Scripted,
     Scripts, host, records, Publish
<1> QED BY <1>3, <1>4, <1>5, <1>6, <1>7, <1>8, <1>9 DEF IInv

\* A receipt changes nothing on the host.
LEMMA WriteReceiptStep ==
  ASSUME IInv, NEW p \in Shells, NEW r \in Results, WriteReceipt(p, r)
  PROVE  IInv'
<1>1. \/ r = "pass" /\ (At(p, "offline", 16) \/ At(p, "close", 3))
      \/ r = "pending-reboot" /\ At(p, "retrofit", 22)
      \/ r = "rollback-verified" /\ At(p, "recover", 12)
  BY Places, SMT DEF IInv, WriteReceipt
<1>2. lock = p /\ journal # None /\ journal \in Transactions /\ journal = sh[p].tx
  BY <1>1, AtWork, SMT DEF IInv, Placed, At, Scripted, Scripts, Waiting, Resumed
<1>3. sh' \in [Shells -> ShellStates] /\ Placed' /\ Holding' /\ Current' /\ Phased'
  <2>1. Runs(p, <<"receipt", r>>) /\ Advance(p) /\ UNCHANGED <<lock, journal>>
    BY Zenon DEF WriteReceipt, records
  <2> QED BY <2>1, AdvanceControl, Zenon
<1>4. TypeOK' /\ Counted'
  BY <1>2, <1>3, SMT DEF IInv, TypeOK, Counted, ShellStates, WriteReceipt, host, records,
     Files, Publish, Transactions, Results
<1>5. Rooted'
  BY <1>1, <1>2, SMT DEF IInv, TypeOK, Rooted, Prestate, WriteReceipt, Advance, At,
     Scripted, Scripts, host, records, Files
<1>6. Undone'
  BY <1>1, <1>2, SMT DEF IInv, TypeOK, Undone, Rooted, Holding, Working, Waiting,
     WriteReceipt, Advance, From, At, Scripted, Scripts, host, records, Files, Publish
<1>7. Verifying'
  BY <1>1, <1>2, SMT DEF IInv, TypeOK, Verifying, Holding, Working, Waiting, WriteReceipt,
     Advance, From, At, Scripted, Scripts, host, records, Files
<1>8. Dependent'
  BY <1>1, <1>2, SMT DEF IInv, TypeOK, Dependent, Verifying, Undone, Rooted, Placed,
     Phased, WriteReceipt, From, At, Scripted, Scripts, host, records
<1>9. Restored'
  BY <1>1, <1>2, SMT DEF IInv, TypeOK, Restored, Phased, WriteReceipt, At, Scripted,
     Scripts, host, records, Publish
<1> QED BY <1>3, <1>4, <1>5, <1>6, <1>7, <1>8, <1>9 DEF IInv

\* A script that dies, with at most the guard and kubelet stopped by it.
LEMMA AbortStep ==
  ASSUME IInv, NEW p \in Shells, Scripted(p), Abort(p),
         UNCHANGED <<files, loaded, enabled, table, boot>>,
         unit' \in {"inactive", "activating", "active", "failed"}, kubelet' \in BOOLEAN,
         mishaps' \in 0..MaxMishaps, mishaps' >= mishaps,
         unit' # unit => At(p, "recover", 5),
         Dependent'
  PROVE  IInv'
<1>1. /\ sh'[p] \in {Idle, [prog |-> "automatic", at |-> 0, tx |-> None]}
      /\ \A q \in Shells : q # p => sh'[q] = sh[q]
      /\ sh' \in [Shells -> ShellStates]
  BY SMT DEF IInv, TypeOK, Abort, Leave, Idle, ShellStates
<1>2. /\ ~Scripted(p)'
      /\ \A q \in Shells : q # p => (Scripted(q)' = Scripted(q) /\ Working(q)' = Working(q))
  BY <1>1, SMT DEF Scripted, Working, Waiting, Scripts, Idle
<1>3. lock' = IF lock = p THEN None ELSE lock
  BY Zenon DEF Abort, Leave, Release
<1>4. \/ UNCHANGED records
      \/ /\ sh[p].prog = "recover"
         /\ journal' = [sh[p].tx EXCEPT !.phase = "recovery-required"]
         /\ receipts' = receipts \union {<<sh[p].tx.attempt, "recovery-required">>}
         /\ used' = used
  BY Zenon DEF Abort, records, Publish, Record
<1>5. /\ journal # None /\ journal' # None
      /\ journal' \in Transactions \union {None}
      /\ journal' # journal => sh[p].prog = "recover" /\ journal'.phase = "recovery-required"
      /\ journal'.files = journal.files /\ journal'.enabled = journal.enabled
      /\ journal'.mode = journal.mode
  <2>1. journal # None /\ journal \in Transactions
    BY Zenon DEF IInv, TypeOK, Rooted
  <2>2. CASE sh[p].prog = "recover"
    <3>1. journal = sh[p].tx
      BY <2>2, AtWork, SMT DEF Waiting, Resumed, At
    <3>2. CASE UNCHANGED records
      BY <2>1, <2>2, <3>2, Zenon DEF records
    <3>3. CASE journal' = [sh[p].tx EXCEPT !.phase = "recovery-required"]
      BY <2>1, <2>2, <3>1, <3>3, NoneAssumption, SMT DEF Transactions, Phases
    <3> QED BY <1>4, <3>2, <3>3
  <2>3. CASE sh[p].prog # "recover"
    BY <1>4, <2>1, <2>3, Zenon DEF records
  <2> QED BY <2>2, <2>3
<1>6. TypeOK' /\ Counted'
  BY <1>1, <1>3, <1>4, <1>5, SMT DEF IInv, TypeOK, Counted, Placed, records, ShellStates,
     Transactions, Results
<1>7. Placed'
  BY <1>1, <1>2, SMT DEF IInv, Placed, Scripted, Scripts, Idle
<1>8. Holding'
  BY <1>1, <1>2, <1>3, ShellAssumption, SMT DEF IInv, Holding, Working
<1>9. Current'
  BY <1>1, <1>2, <1>5, AtWork, SMT DEF IInv, Current, Resumed, At, Working, Waiting,
     Scripted, Scripts
<1>10. Phased'
  BY <1>1, <1>2, SMT DEF IInv, Phased, At
<1>11. Rooted'
  BY <1>1, <1>2, <1>5, Zenon DEF IInv, Rooted
<1>12. Undone'
  <2>1. SUFFICES ASSUME NEW q \in Shells, sh'[q].prog = "recover"
                 PROVE  sh[q] = sh'[q] /\ UNCHANGED <<journal, receipts, unit>>
    BY <2>1, Zenon DEF IInv, Undone, From
  <2>2. q # p /\ sh[q] = sh'[q]
    BY <1>1, <2>1, SMT DEF Idle
  <2>3. sh[p].prog # "recover"
    BY <2>2, <2>1, SMT DEF IInv, Holding, Working, Waiting, Scripted, Scripts
  <2> QED BY <2>2, <2>3, <1>4, Zenon DEF records, At
<1>13. Verifying'
  <2>1. SUFFICES ASSUME NEW q \in Shells, Scripted(q)'
                 PROVE  sh[q] = sh'[q] /\ (unit' # unit => Waiting(q))
    BY <2>1, SMT DEF IInv, Verifying, From, Scripted, Scripts, Waiting
  <2>2. q # p /\ sh[q] = sh'[q] /\ Scripted(q)
    BY <1>1, <1>2, <2>1
  <2>3. unit' # unit => Waiting(q)
    BY <2>2, SMT DEF IInv, Holding, Working, Waiting, Scripted, Scripts, At
  <2> QED BY <2>2, <2>3
<1>14. Restored'
  <2>1. SUFFICES ASSUME journal' # None, journal'.phase = "rolled-back"
                 PROVE  UNCHANGED <<journal, unit>> /\ receipts \subseteq receipts'
    BY <2>1, Zenon DEF IInv, Restored
  <2>2. journal' = journal
    BY <1>5, <2>1, Zenon
  <2>3. unit' = unit
    BY <2>1, <2>2, AtWork, SMT DEF IInv, Phased, At, Scripted, Scripts, Waiting, Resumed
  <2> QED BY <2>2, <2>3, <1>4, Zenon DEF records
<1> QED BY <1>6, <1>7, <1>8, <1>9, <1>10, <1>11, <1>12, <1>13, <1>14 DEF IInv

\* The bound on mishaps, of a step that is none.
LEMMA Unmoved ==
  ASSUME IInv, mishaps' = mishaps
  PROVE  mishaps' \in mishaps..MaxMishaps
BY MishapAssumption, SMT DEF IInv, TypeOK

\* The bound on mishaps, of a step that is one.
LEMMA MishapCount ==
  ASSUME IInv, Mishap
  PROVE  mishaps' = mishaps + 1 /\ mishaps' \in mishaps..MaxMishaps
BY MishapAssumption, SMT DEF IInv, TypeOK, Mishap

\* A script that dies at a check which changed nothing.
LEMMA FailedCheck ==
  ASSUME IInv, NEW p \in Shells, Scripted(p), Abort(p), UNCHANGED host,
         mishaps' \in mishaps..MaxMishaps
  PROVE  IInv'
<1>1. UNCHANGED <<files, loaded, enabled, unit, table, kubelet, boot>>
  BY Zenon DEF host
<1>0. mishaps' \in 0..MaxMishaps /\ mishaps' >= mishaps
  BY MishapAssumption, SMT DEF IInv, TypeOK
<1>2. journal' # journal => journal'.mode = journal.mode /\ journal'.phase = "recovery-required"
  <2>1. CASE sh[p].prog = "recover"
    BY <2>1, AtWork, SMT DEF Abort, Record, Waiting, Resumed, At, Transactions
  <2>2. CASE sh[p].prog # "recover"
    BY <2>2, Zenon DEF Abort, records
  <2> QED BY <2>1, <2>2
<1>3. journal # None
  BY Zenon DEF IInv, Rooted
<1>4. Dependent'
  BY <1>1, <1>2, <1>3, Zenon DEF IInv, Dependent
<1> QED BY <1>0, <1>1, <1>4, AbortStep, Zenon DEF IInv, TypeOK

\* What is verified is known at the next instruction.
LEMMA VerifyHostStep ==
  ASSUME IInv, NEW p \in Shells, VerifyHost(p)
  PROVE  IInv'
<1>1. Scripted(p) /\ UNCHANGED <<host, mishaps>>
  BY Places, Zenon DEF IInv, VerifyHost
<1>2. CASE Abort(p)
  BY <1>1, <1>2, Unmoved, FailedCheck
<1>3. CASE ~Abort(p)
  <2>1. Advance(p) /\ UNCHANGED <<lock, records>>
    BY <1>3, Zenon DEF VerifyHost, Check
  <2>2. \/ At(p, "offline", 14) \/ At(p, "retrofit", 20)
        \/ At(p, "retrofit", 12) \/ At(p, "retrofit", 16) \/ At(p, "close", 1)
    BY Places, SMT DEF IInv, VerifyHost
  <2>3. At(p, "offline", 14) \/ At(p, "retrofit", 12) \/ At(p, "close", 1)
          => unit = "active" /\ table
    BY <1>3, Places, SMT DEF IInv, VerifyHost, Check, Verified, GuardVerified, At
  <2>4. sh' \in [Shells -> ShellStates] /\ Placed' /\ Holding' /\ Current' /\ Phased'
    <3>1. PICK y : Runs(p, <<"verify", y>>)
      BY Zenon DEF VerifyHost
    <3> QED BY <2>1, <3>1, AdvanceControl, SMT DEF records
  <2>5. TypeOK' /\ Counted'
    BY <1>1, <2>1, <2>4, SMT DEF IInv, TypeOK, Counted, ShellStates, host, records
  <2>6. \A q \in Shells : /\ Scripted(q)' <=> Scripted(q)
                          /\ sh'[q].prog = sh[q].prog /\ sh'[q].tx = sh[q].tx
                          /\ q # p => sh'[q] = sh[q]
    BY <2>1, SMT DEF IInv, TypeOK, Advance, Scripted, Scripts
  <2>7. Rooted'
    BY <1>1, <2>1, <2>6, Zenon DEF IInv, Rooted, host, records
  <2>8. Undone'
    BY <1>1, <2>1, <2>2, SMT DEF IInv, TypeOK, Undone, Advance, From, At, host, records
  <2>9. Verifying'
    BY <1>1, <2>1, <2>2, <2>3, SMT DEF IInv, TypeOK, Verifying, Advance, From, At, host
  <2>10. Dependent' /\ Restored'
    BY <1>1, <2>1, Zenon DEF IInv, Dependent, Restored, host, records
  <2> QED BY <2>4, <2>5, <2>7, <2>8, <2>9, <2>10 DEF IInv
<1> QED BY <1>2, <1>3

\* A shell that stops what it runs: at its end, killed, or with nothing to do.
LEMMA LeaveStep ==
  ASSUME IInv, NEW p \in Shells, sh' = [sh EXCEPT ![p] = Idle], Release(p),
         UNCHANGED <<host, records>>, mishaps' \in mishaps..MaxMishaps
  PROVE  IInv'
<1>1. /\ sh'[p] = Idle /\ \A q \in Shells : q # p => sh'[q] = sh[q]
      /\ sh' \in [Shells -> ShellStates]
  BY SMT DEF IInv, TypeOK, Idle, ShellStates
<1>2. /\ ~Scripted(p)'
      /\ \A q \in Shells : q # p => (Scripted(q)' = Scripted(q) /\ Working(q)' = Working(q))
  BY <1>1, SMT DEF Scripted, Working, Waiting, Scripts, Idle
<1>3. lock' = IF lock = p THEN None ELSE lock
  BY DEF Release
<1>4. UNCHANGED <<files, loaded, enabled, unit, table, kubelet, boot, journal, receipts, used>>
  BY Zenon DEF host, records
<1>5. TypeOK' /\ Counted'
  BY <1>1, <1>3, <1>4, MishapAssumption, SMT DEF IInv, TypeOK, Counted, ShellStates
<1>6. Placed'
  BY <1>1, <1>2, SMT DEF IInv, Placed, Scripted, Scripts, Idle
<1>7. Holding'
  BY <1>1, <1>2, <1>3, ShellAssumption, SMT DEF IInv, Holding, Working
<1>8. Current'
  BY <1>1, <1>2, <1>4, SMT DEF IInv, Current, Resumed, At, Working, Waiting, Scripted,
     Scripts
<1>9. Phased'
  BY <1>1, <1>2, SMT DEF IInv, Phased, At
<1>10. Rooted'
  BY <1>1, <1>2, <1>4, Zenon DEF IInv, Rooted
<1>11. Undone'
  <2>1. SUFFICES ASSUME NEW q \in Shells, sh'[q].prog = "recover"
                 PROVE  /\ sh[q] = sh'[q]
                        /\ UNCHANGED <<files, loaded, enabled, unit, table, journal, receipts>>
    BY <2>1, Zenon DEF IInv, Undone, From
  <2>2. sh[q] = sh'[q]
    BY <1>1, <2>1, SMT DEF Idle
  <2> QED BY <1>4, <2>2
<1>12. Verifying'
  <2>1. SUFFICES ASSUME NEW q \in Shells, Scripted(q)'
                 PROVE  sh[q] = sh'[q]
    BY <1>4, <2>1, SMT DEF IInv, Verifying, From, Scripted, Scripts
  <2> QED BY <1>1, <1>2, <2>1
<1>13. Dependent' /\ Restored'
  BY <1>4, Zenon DEF IInv, Dependent, Restored
<1> QED BY <1>5, <1>6, <1>7, <1>8, <1>9, <1>10, <1>11, <1>12, <1>13 DEF IInv

\* The end of a script.
LEMMA DoneStep ==
  ASSUME IInv, NEW p \in Shells, Done(p)
  PROVE  IInv'
BY LeaveStep, Unmoved, Zenon DEF Done, Leave

\* SIGKILL.
LEMMA KillStep ==
  ASSUME IInv, NEW p \in Shells, Kill(p)
  PROVE  IInv'
BY LeaveStep, MishapCount, Zenon DEF Kill, Leave

\* A recovery that does not get the lock.
LEMMA RecoverRefusedStep ==
  ASSUME IInv, NEW p \in Shells, RecoverRefused(p)
  PROVE  IInv'
BY LeaveStep, Unmoved, Zenon DEF RecoverRefused, Leave

\* A script that does not get its lock back.
LEMMA RelockTimesOutStep ==
  ASSUME IInv, NEW p \in Shells, RelockTimesOut(p)
  PROVE  IInv'
BY FailedCheck, MishapCount, Places, Zenon DEF RelockTimesOut, IInv

\* An instruction that changes nothing but the unit, kubelet and its own place.
LEMMA PassedCheck ==
  ASSUME IInv, NEW p \in Shells, NEW x, NEW y, Runs(p, <<x, y>>), Advance(p),
         x \notin {"journal", "release", "retake", "end"},
         UNCHANGED <<files, loaded, enabled, table, boot, lock, records, mishaps>>,
         unit' \in {"inactive", "activating", "active", "failed"}, kubelet' \in BOOLEAN,
         Undone', Verifying', Dependent', Restored'
  PROVE  IInv'
<1>1. sh' \in [Shells -> ShellStates] /\ Placed' /\ Holding' /\ Current' /\ Phased'
  BY AdvanceControl, Zenon DEF records
<1>2. TypeOK' /\ Counted'
  BY <1>1, SMT DEF IInv, TypeOK, Counted, ShellStates, records
<1>3. \A q \in Shells : (Scripted(q)' <=> Scripted(q)) /\ sh'[q].tx = sh[q].tx
  BY SMT DEF IInv, TypeOK, Advance, Scripted, Scripts
<1>4. Rooted'
  BY <1>3, Zenon DEF IInv, Rooted, records
<1> QED BY <1>1, <1>2, <1>4 DEF IInv

\* The wait for the loader.
LEMMA AwaitGuardStep ==
  ASSUME IInv, NEW p \in Shells, AwaitGuard(p)
  PROVE  IInv'
<1>1. Scripted(p) /\ UNCHANGED <<host, mishaps>>
  BY Places, Zenon DEF IInv, AwaitGuard
<1>2. CASE Abort(p)
  BY <1>1, <1>2, Unmoved, FailedCheck
<1>3. CASE ~Abort(p)
  <2>1. Runs(p, <<"await", "guard">>) /\ Advance(p) /\ UNCHANGED <<lock, records>>
    BY <1>3, Zenon DEF AwaitGuard, Check
  <2>2. At(p, "offline", 11) \/ At(p, "retrofit", 10)
    BY <2>1, Places, SMT DEF IInv
  <2>3. Undone'
    BY <1>1, <2>1, <2>2, SMT DEF IInv, TypeOK, Undone, Advance, From, At, host, records
  <2>4. Verifying'
    BY <1>1, <2>1, <2>2, SMT DEF IInv, TypeOK, Verifying, Advance, From, At, host
  <2>5. Dependent' /\ Restored'
    BY <1>1, <2>1, Zenon DEF IInv, Dependent, Restored, host, records
  <2> QED BY <1>1, <2>1, <2>3, <2>4, <2>5, PassedCheck, Zenon DEF IInv, TypeOK, host
<1> QED BY <1>2, <1>3

\* The recovery has verified the prestate: the guard is not up without its unit.
LEMMA VerifyPrestateStep ==
  ASSUME IInv, NEW p \in Shells, VerifyPrestate(p)
  PROVE  IInv'
<1>1. Scripted(p) /\ UNCHANGED <<host, mishaps>>
  BY Places, Zenon DEF IInv, VerifyPrestate
<1>2. CASE Abort(p)
  BY <1>1, <1>2, Unmoved, FailedCheck
<1>3. CASE ~Abort(p)
  <2>1. /\ Runs(p, <<"verify", "prestate">>) /\ Advance(p) /\ UNCHANGED <<lock, records>>
        /\ enabled = sh[p].tx.enabled /\ unit = "inactive"
    BY <1>3, Zenon DEF VerifyPrestate, Check
  <2>2. At(p, "recover", 11)
    BY <2>1, Places, SMT DEF IInv
  <2>3. enabled = journal.enabled
    BY <1>1, <2>1, <2>2, AtWork, SMT DEF At, Waiting
  <2>4. Undone'
    <3>1. \A q \in Shells : sh'[q].prog = "recover" => q = p
      BY <2>1, <2>2, AtWork, SMT DEF IInv, TypeOK, Advance, At, Working, Waiting, Scripted,
         Scripts
    <3>2. sh'[p].prog = "recover" /\ sh'[p].at = 12 /\ sh'[p].tx = sh[p].tx
      BY <2>1, <2>2, SMT DEF IInv, TypeOK, Advance, At
    <3>3. \A n \in 1..11 : From(p, "recover", n)
      BY <2>2, SMT DEF From, At
    <3>4. /\ From(p, "recover", 3) /\ From(p, "recover", 4) /\ From(p, "recover", 6)
          /\ From(p, "recover", 7) /\ From(p, "recover", 9) /\ From(p, "recover", 10)
          /\ From(p, "recover", 11)
          /\ ~From(p, "recover", 13)'
      BY <3>2, <3>3, SMT DEF From
    <3> QED BY <1>1, <2>1, <2>3, <3>1, <3>4, Zenon DEF IInv, Undone, From, host, records
  <2>5. Verifying'
    BY <1>1, <2>1, <2>2, SMT DEF IInv, TypeOK, Verifying, Advance, From, At, host
  <2>6. Dependent' /\ Restored'
    BY <1>1, <2>1, Zenon DEF IInv, Dependent, Restored, host, records
  <2> QED BY <1>1, <2>1, <2>4, <2>5, <2>6, PassedCheck, Zenon DEF IInv, TypeOK, host
<1> QED BY <1>2, <1>3

\* The guard is only started where its unit is loaded, so not over a rolled-back
\* host that had none.
LEMMA StartGuardStep ==
  ASSUME IInv, NEW p \in Shells, StartGuard(p)
  PROVE  IInv'
<1>1. Scripted(p) /\ UNCHANGED <<files, loaded, enabled, table, kubelet, boot, mishaps>>
  BY Places, Zenon DEF IInv, StartGuard
<1>2. CASE Abort(p)
  <2>1. CASE unit' = unit
    BY <1>1, <1>2, <2>1, Unmoved, FailedCheck, Zenon DEF host
  <2>2. CASE unit' # unit
    <3>1. "unit" \in loaded
      BY <2>2, Zenon DEF StartGuard
    <3>2. Advance(p) /\ UNCHANGED <<lock, records>>
      BY <3>1, Zenon DEF StartGuard, Check
    <3>3. sh[p].prog # "recover" /\ sh[p].prog # "close"
      BY Places, SMT DEF IInv, StartGuard, At
    <3> QED BY <1>2, <3>2, <3>3, <1>1, SMT DEF IInv, TypeOK, Abort, Advance, Scripted,
        Scripts
  <2> QED BY <2>1, <2>2
<1>3. CASE ~Abort(p)
  <2>1. /\ Runs(p, <<"start", "guard">>) /\ Advance(p) /\ UNCHANGED <<lock, records>>
        /\ "unit" \in loaded
    BY <1>3, Zenon DEF StartGuard, Check
  <2>0. unit' = unit \/ (unit \in {"inactive", "failed"} /\ unit' = "activating")
    BY Zenon DEF StartGuard
  <2>2. \/ At(p, "offline", 8) \/ At(p, "offline", 10)
        \/ At(p, "retrofit", 7) \/ At(p, "retrofit", 9)
    BY <2>1, Places, SMT DEF IInv
  <2>3. Undone'
    <3>1. SUFFICES ASSUME NEW q \in Shells, sh'[q].prog = "recover"
                   PROVE  /\ sh'[q] = sh[q]
                          /\ UNCHANGED <<files, loaded, enabled, table, journal, receipts>>
                          /\ From(q, "recover", 12) => "unit" \in journal.files
                          /\ unit' = "active" => unit = "active"
      BY <3>1, Zenon DEF IInv, Undone, From
    <3>2. sh'[q] = sh[q] /\ sh[q].prog = "recover"
      BY <2>1, <2>2, <3>1, SMT DEF IInv, TypeOK, Advance, At
    <3>3. From(q, "recover", 12) => From(q, "recover", 11) /\ From(q, "recover", 9)
      BY SMT DEF IInv, TypeOK, From
    <3>4. From(q, "recover", 12) => "unit" \in journal.files
      BY <2>1, <3>3, Zenon DEF IInv, Undone
    <3> QED BY <1>1, <2>0, <2>1, <3>2, <3>4, SMT DEF records
  <2>4. Verifying'
    BY <1>1, <2>0, <2>1, <2>2, SMT DEF IInv, TypeOK, Verifying, Advance, From, At
  <2>5. Dependent'
    BY <1>1, <2>0, <2>1, SMT DEF IInv, TypeOK, Dependent, records
  <2>6. Restored'
    <3>1. journal # None /\ journal.phase = "rolled-back" => "unit" \in journal.files
      BY <2>1, SMT DEF IInv, Restored
    <3> QED BY <1>1, <2>0, <2>1, <3>1, Zenon DEF IInv, Restored, records
  <2>7. unit' \in {"inactive", "activating", "active", "failed"} /\ kubelet' \in BOOLEAN
    BY <1>1, <2>0, <2>1, Zenon DEF IInv, TypeOK
  <2> QED BY <1>1, <2>0, <2>1, <2>3, <2>4, <2>5, <2>6, <2>7, PassedCheck, Zenon
<1> QED BY <1>2, <1>3

\* kubelet is restarted behind a verified guard.
LEMMA RestartKubeletStep ==
  ASSUME IInv, NEW p \in Shells, RestartKubelet(p)
  PROVE  IInv'
<1>1. Scripted(p) /\ UNCHANGED <<files, loaded, enabled, unit, table, boot, mishaps>>
  BY Places, Zenon DEF IInv, RestartKubelet
<1>2. At(p, "retrofit", 19)
  BY Places, SMT DEF IInv, RestartKubelet
<1>3. CASE Abort(p)
  <2>1. UNCHANGED kubelet
    BY <1>2, <1>3, SMT DEF RestartKubelet, Check, Abort, Advance, At, IInv, TypeOK
  <2> QED BY <1>1, <1>3, <2>1, Unmoved, FailedCheck, Zenon DEF host
<1>4. CASE ~Abort(p)
  <2>1. /\ Runs(p, <<"restart", "kubelet">>) /\ Advance(p) /\ UNCHANGED <<lock, records>>
    BY <1>4, Zenon DEF RestartKubelet, Check
  <2>2. kubelet' \in BOOLEAN
    BY Zenon DEF RestartKubelet, IInv, TypeOK
  <2>3. Undone'
    BY <1>1, <1>2, <2>1, SMT DEF IInv, TypeOK, Undone, Advance, From, At, records
  <2>4. Verifying'
    BY <1>1, <1>2, <2>1, SMT DEF IInv, TypeOK, Verifying, Advance, From, At
  <2>5. unit = "active"
    BY <1>2, SMT DEF IInv, Verifying, From, At
  <2>6. Dependent' /\ Restored'
    BY <1>1, <2>1, <2>5, Zenon DEF IInv, Dependent, Restored, records
  <2>7. unit' \in {"inactive", "activating", "active", "failed"}
    BY <1>1, Zenon DEF IInv, TypeOK
  <2> QED BY <1>1, <2>1, <2>2, <2>3, <2>4, <2>6, <2>7, PassedCheck, Zenon
<1> QED BY <1>3, <1>4

\* A kubelet that the recovery starts again requires the guard, or runs without.
LEMMA RestoreKubeletStep ==
  ASSUME IInv, NEW p \in Shells, RestoreKubelet(p)
  PROVE  IInv'
<1>1. Scripted(p) /\ UNCHANGED <<files, loaded, enabled, unit, table, boot, mishaps>>
  BY Places, Zenon DEF IInv, RestoreKubelet
<1>2. At(p, "recover", 4)
  BY Places, SMT DEF IInv, RestoreKubelet
<1>3. kubelet' \in BOOLEAN
  BY Zenon DEF RestoreKubelet, IInv, TypeOK
<1>4. kubelet' /\ ~kubelet => MayStartKubelet
  BY Zenon DEF RestoreKubelet
<1>5. CASE Abort(p)
  <2>1. ~(sh[p].tx.kubelet = kubelet')
    BY <1>2, <1>5, SMT DEF RestoreKubelet, Check, Abort, Leave, Idle, Advance, At, IInv,
       TypeOK
  <2>2. kubelet' = (kubelet \/ (sh[p].tx.kubelet /\ MayStartKubelet))
    BY Zenon DEF RestoreKubelet
  <2>3. sh[p].tx.kubelet \in BOOLEAN
    BY <1>1, <1>2, AtWork, SMT DEF At, Waiting, Transactions
  <2>4. UNCHANGED kubelet
    BY <2>1, <2>2, <2>3, <1>3, Zenon DEF IInv, TypeOK
  <2> QED BY <1>1, <1>5, <2>4, Unmoved, FailedCheck, Zenon DEF host
<1>6. CASE ~Abort(p)
  <2>1. /\ Runs(p, <<"restore", "kubelet">>) /\ Advance(p) /\ UNCHANGED <<lock, records>>
    BY <1>6, Zenon DEF RestoreKubelet, Check
  <2>3. Undone'
    BY <1>1, <1>2, <2>1, SMT DEF IInv, TypeOK, Undone, Advance, From, At, records
  <2>4. Verifying'
    BY <1>1, <1>2, <2>1, SMT DEF IInv, TypeOK, Verifying, Advance, From, At
  <2>5. Dependent' /\ Restored'
    BY <1>1, <1>4, <2>1, Zenon DEF IInv, Dependent, Restored, MayStartKubelet, records
  <2>6. unit' \in {"inactive", "activating", "active", "failed"}
    BY <1>1, Zenon DEF IInv, TypeOK
  <2> QED BY <1>1, <1>3, <2>1, <2>3, <2>4, <2>5, <2>6, PassedCheck, Zenon
<1> QED BY <1>5, <1>6

\* The recovery disables a unit that was not enabled before.
LEMMA DisableStep ==
  ASSUME IInv, NEW p \in Shells, Disable(p)
  PROVE  IInv'
<1> DEFINE works == sh[p].tx.enabled \/ "unit" \in files
<1>1. At(p, "recover", 7) /\ Scripted(p)
  BY Places, SMT DEF IInv, Disable
<1>2. lock = p /\ journal # None /\ journal \in Transactions /\ journal = sh[p].tx
  BY <1>1, AtWork, SMT DEF IInv, Placed, At, Scripted, Scripts, Waiting, Resumed
<1>3. CASE ~works
  <2>1. Abort(p) /\ UNCHANGED <<host, mishaps>>
    BY <1>3, Zenon DEF Disable, Check, host
  <2> QED BY <1>1, <2>1, Unmoved, FailedCheck, Zenon
<1>4. CASE works
  <2>1. /\ Runs(p, <<"disable", "guard">>) /\ Advance(p) /\ UNCHANGED <<lock, records>>
        /\ enabled' = (enabled /\ sh[p].tx.enabled)
        /\ UNCHANGED <<files, loaded, unit, table, kubelet, boot, mishaps>>
    BY <1>4, Zenon DEF Disable, Check
  <2>2. UNCHANGED <<journal, receipts, used>>
    BY <2>1, Zenon DEF records
  <2>3. sh' \in [Shells -> ShellStates] /\ Placed' /\ Holding' /\ Current' /\ Phased'
    BY <2>1, <2>2, AdvanceControl, Zenon
  <2>4. TypeOK' /\ Counted'
    BY <1>2, <2>1, <2>2, <2>3, SMT DEF IInv, TypeOK, Counted, ShellStates, Transactions
  <2>5. Rooted'
    BY <1>1, <1>2, <2>1, <2>2, SMT DEF IInv, TypeOK, Rooted, Advance, At, Scripted, Scripts
  <2>6. Undone'
    BY <1>1, <1>2, <2>1, <2>2, SMT DEF IInv, TypeOK, Undone, Rooted, Holding, Working,
       Waiting, Advance, From, At, Scripted, Scripts
  <2>7. Verifying'
    BY <1>1, <1>2, <2>1, SMT DEF IInv, TypeOK, Verifying, Holding, Working, Waiting,
       Advance, From, At, Scripted, Scripts
  <2>8. Dependent'
    BY <2>1, <2>2, Zenon DEF IInv, Dependent
  <2>9. Restored'
    <3>1. sh[p].tx.phase # "rolled-back"
      BY <1>1, SMT DEF IInv, Phased, At
    <3> QED BY <1>2, <2>2, <3>1, Zenon DEF Restored
  <2> QED BY <2>3, <2>4, <2>5, <2>6, <2>7, <2>8, <2>9 DEF IInv
<1> QED BY <1>3, <1>4

\* A stopped guard stops the kubelet that requires it: the drop-in is loaded only
\* with the unit.
LEMMA StopGuardStep ==
  ASSUME IInv, NEW p \in Shells, StopGuard(p)
  PROVE  IInv'
<1> DEFINE stops == "unit" \in loaded /\ unit \in {"active", "activating"}
<1>1. Scripted(p) /\ UNCHANGED <<files, loaded, enabled, table, boot, mishaps>>
  BY Places, Zenon DEF IInv, StopGuard
<1>2. At(p, "recover", 5)
  BY Places, SMT DEF IInv, StopGuard
<1>3. /\ unit' = IF ~stops THEN unit ELSE IF unit = "active" THEN "inactive" ELSE "failed"
      /\ kubelet' = (kubelet /\ ~(stops /\ "dropin" \in loaded))
  BY Zenon DEF StopGuard
<1>4. kubelet' \in BOOLEAN /\ unit' \in {"inactive", "activating", "active", "failed"}
  BY <1>3, Zenon DEF IInv, TypeOK
<1>5. "dropin" \in loaded => "unit" \in loaded
  <2>1. From(p, "recover", 4)
    BY <1>2, SMT DEF From, At
  <2>2. "dropin" \in loaded => "dropin" \in journal.files
    BY <2>1, Zenon DEF IInv, Undone
  <2>3. journal # None
    BY <1>1, Zenon DEF IInv, Rooted
  <2>4. Prestate(journal.files, journal.enabled) /\ journal.files \ {"support"} \subseteq loaded
    BY <2>3, Zenon DEF IInv, Rooted
  <2>5. "dropin" \in loaded => "unit" \in journal.files
    BY <2>2, <2>4, Zenon DEF Prestate
  <2> QED BY <2>4, <2>5, SMT
<1>6. "dropin" \in loaded => unit' # "active" /\ (kubelet' => unit' = unit /\ kubelet)
  BY <1>3, <1>5, Zenon
<1>7. CASE Abort(p)
  <2>1. journal' = [sh[p].tx EXCEPT !.phase = "recovery-required"]
    BY <1>2, <1>7, SMT DEF Abort, Record, At
  <2>2. sh[p].tx \in Transactions /\ journal = sh[p].tx
    BY <1>1, <1>2, AtWork, SMT DEF At, Waiting, Resumed
  <2>3. journal'.mode = journal.mode /\ journal'.phase = "recovery-required" /\ journal # None
    BY <2>1, <2>2, <1>1, AtWork, <1>2, SMT DEF Transactions, At, Waiting
  <2>4. Dependent'
    BY <1>1, <1>6, <2>3, Zenon DEF IInv, Dependent
  <2>5. mishaps' \in 0..MaxMishaps /\ mishaps' >= mishaps
    BY <1>1, SMT DEF IInv, TypeOK
  <2> QED BY <1>1, <1>2, <1>4, <1>7, <2>4, <2>5, AbortStep, Zenon
<1>8. CASE ~Abort(p)
  <2>1. /\ Runs(p, <<"stop", "guard">>) /\ Advance(p) /\ UNCHANGED <<lock, records>>
    BY <1>8, Zenon DEF StopGuard, Check
  <2>2. \A q \in Shells : sh'[q].prog = "recover" => q = p
    BY <1>1, <1>2, <2>1, AtWork, SMT DEF IInv, TypeOK, Advance, At, Working, Waiting,
       Scripted, Scripts
  <2>3. Undone'
    <3>1. sh'[p].prog = "recover" /\ sh'[p].at = 6 /\ From(p, "recover", 3) /\ From(p, "recover", 4)
      BY <1>2, <2>1, SMT DEF IInv, TypeOK, Advance, At, From
    <3>2. ~From(p, "recover", 7)' /\ ~From(p, "recover", 9)' /\ ~From(p, "recover", 10)'
          /\ ~From(p, "recover", 11)' /\ ~From(p, "recover", 12)' /\ ~From(p, "recover", 13)'
      BY <3>1, SMT DEF From
    <3> QED BY <1>1, <1>6, <2>1, <2>2, <3>1, <3>2, Zenon DEF IInv, Undone, From, records
  <2>4. Verifying'
    <3>1. SUFFICES ASSUME NEW q \in Shells PROVE sh'[q] = sh[q] /\ q # p => Waiting(q) \/ ~Scripted(q)
      BY <3>1, <1>1, <1>2, <2>1, SMT DEF IInv, TypeOK, Verifying, Advance, At, From,
         Waiting, Scripted, Scripts
    <3> QED BY <1>1, <1>2, AtWork, SMT DEF Working, At, Waiting
  <2>5. Dependent'
    BY <1>1, <1>6, <2>1, Zenon DEF IInv, Dependent, records
  <2>6. Restored'
    <3>1. journal.phase # "rolled-back"
      BY <1>1, <1>2, AtWork, SMT DEF IInv, Phased, At, Waiting, Resumed
    <3> QED BY <2>1, <3>1, Zenon DEF Restored, records
  <2> QED BY <1>1, <1>4, <2>1, <2>3, <2>4, <2>5, <2>6, PassedCheck, Zenon
<1> QED BY <1>7, <1>8

\* The lock goes to the loader.
LEMMA ReleaseLockStep ==
  ASSUME IInv, NEW p \in Shells, ReleaseLock(p)
  PROVE  IInv'
<1>1. /\ Runs(p, <<"release", "lock">>) /\ Release(p) /\ Advance(p)
      /\ UNCHANGED <<files, loaded, enabled, unit, table, kubelet, boot>>
      /\ UNCHANGED <<journal, receipts, used, mishaps>>
  BY Zenon DEF ReleaseLock, host, records
<1>2. Scripted(p) /\ (At(p, "offline", 9) \/ At(p, "retrofit", 8))
  BY <1>1, Places, SMT DEF IInv
<1>3. lock = p /\ lock' = None
  BY <1>1, <1>2, AtWork, SMT DEF At, Waiting, Release
<1>4. TypeOK' /\ Counted'
  BY <1>1, <1>2, <1>3, SMT DEF IInv, TypeOK, Counted, Advance, At
<1>5. Placed'
  BY <1>1, <1>2, SMT DEF IInv, TypeOK, Placed, Advance, At, Scripted, Scripts
<1>6. Holding'
  BY <1>1, <1>2, <1>3, ShellAssumption, SMT DEF IInv, TypeOK, Holding, Working, Waiting,
     Advance, At, Scripted, Scripts
<1>7. Current'
  BY <1>1, <1>2, SMT DEF IInv, TypeOK, Current, Working, Waiting, Resumed, Advance, At,
     Scripted, Scripts
<1>8. Phased'
  BY <1>1, <1>2, SMT DEF IInv, TypeOK, Phased, Advance, At, Scripted, Scripts
<1>9. Rooted'
  <2>1. \A q \in Shells : (Scripted(q)' <=> Scripted(q)) /\ sh'[q].tx = sh[q].tx
    BY <1>1, SMT DEF IInv, TypeOK, Advance, Scripted, Scripts
  <2> QED BY <1>1, <2>1, Zenon DEF IInv, Rooted
<1>10. Undone'
  BY <1>1, <1>2, SMT DEF IInv, TypeOK, Undone, Advance, From, At
<1>11. Verifying'
  BY <1>1, <1>2, SMT DEF IInv, TypeOK, Verifying, Advance, From, At
<1>12. Dependent' /\ Restored'
  BY <1>1, Zenon DEF IInv, Dependent, Restored
<1> QED BY <1>4, <1>5, <1>6, <1>7, <1>8, <1>9, <1>10, <1>11, <1>12 DEF IInv

\* The lock comes back, the journal is not read again.
LEMMA RelockStep ==
  ASSUME IInv, NEW p \in Shells, Relock(p)
  PROVE  IInv'
<1>1. /\ Runs(p, <<"retake", "lock">>) /\ lock = None /\ lock' = p /\ Advance(p)
      /\ UNCHANGED <<files, loaded, enabled, unit, table, kubelet, boot>>
      /\ UNCHANGED <<journal, receipts, used, mishaps>>
  BY Zenon DEF Relock, host, records
<1>2. Scripted(p) /\ (At(p, "offline", 12) \/ At(p, "retrofit", 11))
  BY <1>1, Places, SMT DEF IInv
<1>3. \A q \in Shells : ~Working(q)
  BY <1>1, ShellAssumption, SMT DEF IInv, Holding
<1>4. TypeOK' /\ Counted'
  BY <1>1, <1>2, SMT DEF IInv, TypeOK, Counted, Advance, At
<1>5. Placed'
  BY <1>1, <1>2, SMT DEF IInv, TypeOK, Placed, Advance, At, Scripted, Scripts
<1>6. Holding'
  BY <1>1, <1>2, <1>3, SMT DEF IInv, TypeOK, Holding, Working, Waiting, Advance, At,
     Scripted, Scripts
<1>7. Current'
  BY <1>1, <1>2, <1>3, SMT DEF IInv, TypeOK, Current, Working, Waiting, Resumed, Advance,
     At, Scripted, Scripts
<1>8. Phased'
  BY <1>1, <1>2, SMT DEF IInv, TypeOK, Phased, Advance, At, Scripted, Scripts
<1>9. Rooted'
  <2>1. \A q \in Shells : (Scripted(q)' <=> Scripted(q)) /\ sh'[q].tx = sh[q].tx
    BY <1>1, SMT DEF IInv, TypeOK, Advance, Scripted, Scripts
  <2> QED BY <1>1, <2>1, Zenon DEF IInv, Rooted
<1>10. Undone'
  BY <1>1, <1>2, SMT DEF IInv, TypeOK, Undone, Advance, From, At
<1>11. Verifying'
  BY <1>1, <1>2, SMT DEF IInv, TypeOK, Verifying, Advance, From, At
<1>12. Dependent' /\ Restored'
  BY <1>1, Zenon DEF IInv, Dependent, Restored
<1> QED BY <1>4, <1>5, <1>6, <1>7, <1>8, <1>9, <1>10, <1>11, <1>12 DEF IInv

--------------------------------------------------------------------------------
\* systemd, the loader and the environment.

\* kubelet starts the guard that it requires.
Pulled == unit \in {"inactive", "failed"} /\ unit' = "activating" /\ "unit" \in loaded

\* A step that moves no shell and writes no record.
LEMMA OutsideStep ==
  ASSUME IInv, UNCHANGED <<files, loaded, enabled, boot, lock, records, sh>>,
         mishaps' \in mishaps..MaxMishaps,
         unit' \in {"inactive", "activating", "active", "failed"},
         unit' # unit => unit = "activating" \/ Pulled,
         table' \in BOOLEAN, table' # table => unit = "activating",
         table' /\ ~table => lock = None,
         unit' = "active" => unit = "active" \/ (lock = None /\ table'),
         kubelet' \in BOOLEAN, kubelet' /\ ~kubelet => MayStartKubelet /\ unit' = unit
  PROVE  IInv'
<1>1. UNCHANGED <<journal, receipts, used>>
  BY Zenon DEF records
<1>2. TypeOK' /\ Counted'
  BY <1>1, MishapAssumption, SMT DEF IInv, TypeOK, Counted
<1>3. Placed' /\ Phased'
  BY Zenon DEF IInv, Placed, Phased, Scripted, At
<1>4. Holding' /\ Current'
  BY <1>1, Zenon DEF IInv, Holding, Current, Working, Waiting, Resumed, Scripted, At
<1>5. Rooted'
  BY <1>1, Zenon DEF IInv, Rooted, Scripted
<1>6. lock = None => \A q \in Shells : ~Working(q)
  BY ShellAssumption, SMT DEF IInv, Holding
<1>7. \A q \in Shells : sh[q].prog = "recover" => lock # None
  BY <1>6, SMT DEF Working, Waiting, Scripted, Scripts
<1>8. Undone'
  <2>1. SUFFICES ASSUME NEW q \in Shells, sh[q].prog = "recover"
                 PROVE  /\ unit' = "active" => unit = "active"
                        /\ table' => table
                        /\ From(q, "recover", 12) /\ "unit" \notin journal.files
                             /\ unit = "inactive" => unit' = "inactive"
    BY <1>1, <2>1, Zenon DEF IInv, Undone, From
  <2>2. From(q, "recover", 12) /\ "unit" \in loaded => "unit" \in journal.files
    <3>1. From(q, "recover", 12) => From(q, "recover", 9) /\ From(q, "recover", 11)
      BY SMT DEF From, IInv, TypeOK
    <3>2. loaded = files \ {"support"} /\ "unit" \in loaded => "unit" \in files
      BY Zenon
    <3> QED BY <3>1, <3>2, Zenon DEF IInv, Undone
  <2> QED BY <1>7, <2>1, <2>2, Zenon DEF Pulled
<1>9. Verifying'
  <2>1. SUFFICES ASSUME NEW q \in Shells, Scripted(q)
                 PROVE  /\ unit = "active" => UNCHANGED <<unit, table>>
                        /\ ~Waiting(q) => (unit' = "active" => unit = "active")
    BY <2>1, SMT DEF IInv, TypeOK, Verifying, From, Scripted, Scripts, Waiting
  <2>2. unit = "active" => UNCHANGED <<unit, table>>
    BY SMT DEF Pulled
  <2>3. ~Waiting(q) => lock # None
    BY <1>6, <2>1, Zenon DEF Working
  <2> QED BY <2>2, <2>3, Zenon
<1>10. Dependent'
  <2>1. unit = "active" => UNCHANGED <<unit, table>>
    BY SMT DEF Pulled
  <2> QED BY <1>1, <2>1, Zenon DEF IInv, Dependent, MayStartKubelet
<1>11. Restored'
  <2>1. SUFFICES ASSUME journal # None, journal.phase = "rolled-back"
                 PROVE  /\ "unit" \notin journal.files /\ unit = "inactive" => unit' = "inactive"
                        /\ table' /\ ~table => "unit" \in files
    BY <1>1, <2>1, Zenon DEF IInv, Restored
  <2>2. /\ files = journal.files /\ loaded = files \ {"support"}
        /\ "unit" \notin journal.files => unit = "inactive"
    BY <2>1, Zenon DEF IInv, Restored
  <2>3. "unit" \notin journal.files /\ unit = "inactive" => unit' = "inactive"
    BY <2>2, Zenon DEF Pulled
  <2>4. table' /\ ~table => "unit" \in files
    BY <2>2, Zenon
  <2> QED BY <2>3, <2>4
<1> QED BY <1>2, <1>3, <1>4, <1>5, <1>8, <1>9, <1>10, <1>11 DEF IInv

\* A run of the loader.
LEMMA LoadStep ==
  ASSUME IInv, Load
  PROVE  IInv'
BY OutsideStep, Unmoved, Zenon DEF Load, IInv, TypeOK

\* A run of the loader that fails.
LEMMA LoadFailsStep ==
  ASSUME IInv, LoadFails
  PROVE  IInv'
BY OutsideStep, MishapCount, Zenon DEF LoadFails, IInv, TypeOK

\* kubelet starts behind an active guard or without the drop-in, or starts the
\* guard.
LEMMA StartKubeletStep ==
  ASSUME IInv, StartKubelet
  PROVE  IInv'
<1>1. UNCHANGED <<files, loaded, enabled, boot, lock, records, sh>> /\ UNCHANGED table
  BY Zenon DEF StartKubelet
<1>2. mishaps' \in mishaps..MaxMishaps
  BY MishapCount, Zenon DEF StartKubelet
<1>3. /\ unit \in {"inactive", "activating", "active", "failed"}
      /\ table \in BOOLEAN /\ kubelet \in BOOLEAN
  BY Zenon DEF IInv, TypeOK
<1>4. table' = table /\ table' \in BOOLEAN
  BY <1>1, <1>3
<1>5. CASE MayStartKubelet
  <2>1. kubelet' = TRUE /\ unit' = unit
    BY <1>5, Zenon DEF StartKubelet
  <2>2. kubelet' \in BOOLEAN /\ unit' \in {"inactive", "activating", "active", "failed"}
    BY <1>3, <2>1
  <2>3. /\ unit' # unit => unit = "activating" \/ Pulled
        /\ table' # table => unit = "activating"
        /\ table' /\ ~table => lock = None
        /\ unit' = "active" => unit = "active" \/ (lock = None /\ table')
        /\ kubelet' /\ ~kubelet => MayStartKubelet /\ unit' = unit
    BY <1>4, <1>5, <2>1
  <2> QED BY <1>1, <1>2, <1>4, <2>2, <2>3, OutsideStep, Zenon
<1>6. CASE ~MayStartKubelet
  <2>1. kubelet' = kubelet /\ unit' = "activating" /\ Pulled
    BY <1>6, Zenon DEF StartKubelet, Pulled
  <2>2. kubelet' \in BOOLEAN /\ unit' \in {"inactive", "activating", "active", "failed"}
    BY <1>3, <2>1
  <2>3. /\ unit' # unit => unit = "activating" \/ Pulled
        /\ table' # table => unit = "activating"
        /\ table' /\ ~table => lock = None
        /\ unit' = "active" => unit = "active" \/ (lock = None /\ table')
        /\ kubelet' /\ ~kubelet => MayStartKubelet /\ unit' = unit
    BY <1>4, <2>1
  <2> QED BY <1>1, <1>2, <1>4, <2>2, <2>3, OutsideStep, Zenon
<1> QED BY <1>5, <1>6

\* No script survives a reboot, nor does the table.
LEMMA RebootStep ==
  ASSUME IInv, Reboot
  PROVE  IInv'
<1>1. /\ boot' = boot + 1 /\ mishaps' = mishaps + 1 /\ mishaps' \in mishaps..MaxMishaps
      /\ loaded' = files \ {"support"}
      /\ unit' = IF enabled /\ "unit" \in files THEN "activating" ELSE "inactive"
      /\ lock' = None /\ table' = FALSE /\ kubelet' = FALSE
      /\ UNCHANGED <<files, enabled, journal, receipts, used>>
  BY MishapCount, Zenon DEF Reboot, records
<1>2. /\ \A q \in Shells : sh'[q] \in {Idle, Absent}
      /\ sh' \in [Shells -> ShellStates]
  BY SMT DEF Reboot, Idle, Absent, ShellStates
<1>3. \A q \in Shells : sh'[q].prog \in {"idle", "absent"} /\ sh'[q].at = 0 /\ sh'[q].tx = None
  BY <1>2, SMT DEF Idle, Absent
<1>4. TypeOK' /\ Counted'
  <2>1. boot' \in 0..MaxMishaps /\ mishaps' \in 0..MaxMishaps /\ boot' <= mishaps'
    BY <1>1, MishapAssumption, SMT DEF IInv, TypeOK, Counted
  <2>2. files' \in SUBSET Files /\ loaded' \in SUBSET {"unit", "dropin"}
    BY <1>1, SMT DEF IInv, TypeOK, Files
  <2>3. /\ unit' \in {"inactive", "activating", "active", "failed"}
        /\ enabled' \in BOOLEAN /\ table' \in BOOLEAN /\ kubelet' \in BOOLEAN
    BY <1>1, Zenon DEF IInv, TypeOK
  <2> QED BY <1>1, <1>2, <2>1, <2>2, <2>3, Zenon DEF IInv, TypeOK, Counted, ShellStates
<1>5. \A q \in Shells : ~Scripted(q)'
  BY <1>3, SMT DEF Scripted, Scripts
<1>6. Placed' /\ Phased'
  BY <1>3, <1>5, SMT DEF Placed, Phased, Scripted, Scripts
<1>7. Holding' /\ Current'
  BY <1>1, <1>5, ShellAssumption, Zenon DEF Holding, Current, Working
<1>8. Rooted'
  <2>1. CASE journal = None
    BY <1>1, <1>5, <2>1, Zenon DEF IInv, Rooted
  <2>2. CASE journal # None
    <3>1. journal.files \ {"support"} \subseteq loaded'
      BY <1>1, <2>2, SMT DEF IInv, Rooted
    <3> QED BY <1>1, <1>5, <2>2, <3>1, Zenon DEF IInv, Rooted
  <2> QED BY <2>1, <2>2
<1>9. Undone' /\ Verifying'
  BY <1>3, SMT DEF Undone, Verifying, From
<1>10. Dependent'
  BY <1>1, Zenon DEF Dependent
<1>11. Restored'
  BY <1>1, Zenon DEF IInv, Restored
<1> QED BY <1>4, <1>6, <1>7, <1>8, <1>9, <1>10, <1>11 DEF IInv

\* What writing the journal does to it.
LEMMA RecordStep ==
  ASSUME IInv, NEW p \in Shells, NEW phase \in Phases, Runs(p, <<"journal", phase>>),
         Record([sh[p].tx EXCEPT !.phase = phase]), UNCHANGED <<host, receipts>>
  PROVE  /\ Scripted(p) /\ ~Waiting(p) /\ lock = p
         /\ \A q \in Shells : q # p => ~Working(q)
         /\ journal # None /\ journal' # None /\ journal' \in Transactions
         /\ journal' = [sh[p].tx EXCEPT !.phase = phase] /\ sh[p].tx \in Transactions
         /\ journal'.files = journal.files /\ journal'.enabled = journal.enabled
         /\ Dependent' /\ Restored'
<1>1. Scripted(p) /\ ~Waiting(p)
  BY Places, SMT DEF IInv, TypeOK, At, Waiting
<1>2. /\ lock = p /\ journal # None /\ sh[p].tx \in Transactions
      /\ ~Resumed(p) => journal = sh[p].tx
      /\ sh[p].tx.files = journal.files /\ sh[p].tx.enabled = journal.enabled
      /\ \A q \in Shells : q # p => ~Working(q)
  BY <1>1, AtWork, Zenon
<1>3. journal' = [sh[p].tx EXCEPT !.phase = phase]
  BY DEF Record
<1>4. /\ journal' \in Transactions /\ journal' # None
      /\ journal'.files = journal.files /\ journal'.enabled = journal.enabled
      /\ journal'.mode = sh[p].tx.mode /\ journal'.phase = phase
  BY <1>2, <1>3, NoneAssumption, SMT DEF Transactions
<1>5. UNCHANGED <<files, loaded, enabled, unit, table, kubelet, boot, receipts>>
  BY Zenon DEF host
<1>6. Dependent'
  <2>1. SUFFICES ASSUME journal'.mode = "retrofit" \/ phase \in {"commit-intent", "committed"}
                 PROVE  unit = "active" \/ journal.mode = "retrofit"
    BY <1>2, <1>4, <1>5, <2>1, Zenon DEF IInv, Dependent
  <2>2. CASE phase \in {"commit-intent", "committed"}
    <3>1. From(p, "offline", 15) \/ From(p, "close", 2)
      BY <2>2, Places, SMT DEF IInv, At, From
    <3> QED BY <3>1, Zenon DEF IInv, Verifying
  <2>3. CASE journal'.mode = "retrofit"
    <3>1. CASE Resumed(p)
      <4>0. sh[p].prog # "offline"
        BY <1>4, <2>3, Zenon DEF IInv, Placed
      <4>1. sh[p].prog = "retrofit"
        BY <3>1, <4>0, SMT DEF Resumed, At
      <4>2. ~At(p, "retrofit", 12)
        BY Places, SMT DEF IInv, At
      <4>3. From(p, "retrofit", 13)
        BY <3>1, <4>1, <4>2, SMT DEF Resumed, At, From
      <4> QED BY <4>3, Zenon DEF IInv, Verifying
    <3>2. CASE ~Resumed(p)
      BY <1>2, <1>4, <2>3, <3>2
    <3> QED BY <3>1, <3>2
  <2> QED BY <2>1, <2>2, <2>3
<1>7. Restored'
  <2>1. SUFFICES ASSUME phase = "rolled-back"
                 PROVE  /\ files = journal.files /\ loaded = files \ {"support"}
                        /\ enabled = journal.enabled
                        /\ "unit" \notin journal.files => unit = "inactive"
                        /\ ~table
                        /\ <<sh[p].tx.attempt, "rollback-verified">> \in receipts
                        /\ journal'.attempt = sh[p].tx.attempt
    BY <1>4, <1>5, <2>1, Zenon DEF Restored
  <2>2. At(p, "recover", 13)
    BY <2>1, Places, SMT DEF IInv
  <2>3. /\ From(p, "recover", 3) /\ From(p, "recover", 7) /\ From(p, "recover", 9)
        /\ From(p, "recover", 10) /\ From(p, "recover", 11) /\ From(p, "recover", 12)
        /\ From(p, "recover", 13)
    BY <2>2, SMT DEF At, From
  <2>4. /\ \A f \in Files : f \in files => f \in journal.files
        /\ loaded = files \ {"support"} /\ enabled = journal.enabled /\ ~table
        /\ "unit" \notin journal.files => unit = "inactive"
        /\ <<sh[p].tx.attempt, "rollback-verified">> \in receipts
    BY <2>3, Zenon DEF IInv, Undone, Files
  <2>5. files = journal.files
    <3>1. files \subseteq Files /\ journal.files \subseteq files
      BY <1>2, Zenon DEF IInv, TypeOK, Rooted
    <3>2. \A f \in Files : f \in files => f \in journal.files
      BY <2>4
    <3> QED BY <3>1, <3>2, Zenon
  <2>6. journal'.attempt = sh[p].tx.attempt
    BY <1>2, <1>3, SMT DEF Transactions
  <2> QED BY <2>4, <2>5, <2>6
<1> QED BY <1>1, <1>2, <1>3, <1>4, <1>6, <1>7

\* A journal write, over whatever journal is there.
LEMMA WriteJournalStep ==
  ASSUME IInv, NEW p \in Shells, NEW phase \in Phases, WriteJournal(p, phase)
  PROVE  IInv'
<1>1. /\ Runs(p, <<"journal", phase>>) /\ Record([sh[p].tx EXCEPT !.phase = phase])
      /\ sh' = [sh EXCEPT ![p] = [prog |-> @.prog, at |-> @.at + 1, tx |-> journal']]
      /\ UNCHANGED <<host, lock, receipts, used, mishaps>>
  BY Zenon DEF WriteJournal
<1>2. /\ Scripted(p) /\ ~Waiting(p) /\ lock = p
      /\ \A q \in Shells : q # p => ~Working(q)
      /\ journal # None /\ journal' # None /\ journal' \in Transactions
      /\ journal' = [sh[p].tx EXCEPT !.phase = phase] /\ sh[p].tx \in Transactions
      /\ journal'.files = journal.files /\ journal'.enabled = journal.enabled
      /\ Dependent' /\ Restored'
  BY <1>1, RecordStep, Zenon
<1>3. \/ phase = "artifacts-installed" /\ (At(p, "offline", 4) \/ At(p, "retrofit", 3))
      \/ phase = "guard-start-intent" /\ (At(p, "offline", 7) \/ At(p, "retrofit", 6))
      \/ phase = "guard-active" /\ (At(p, "offline", 13) \/ At(p, "retrofit", 13))
      \/ phase = "commit-intent" /\ (At(p, "offline", 15) \/ At(p, "close", 2))
      \/ phase = "committed" /\ (At(p, "offline", 17) \/ At(p, "close", 4))
      \/ phase = "dropin-installed" /\ At(p, "retrofit", 17)
      \/ phase = "kubelet-restart-intent" /\ At(p, "retrofit", 18)
      \/ phase = "awaiting-reboot-intent" /\ At(p, "retrofit", 21)
      \/ phase = "awaiting-reboot" /\ At(p, "retrofit", 23)
      \/ phase = "rollback-intent" /\ At(p, "recover", 1)
      \/ phase = "rolled-back" /\ At(p, "recover", 13)
  BY <1>1, Places, SMT DEF IInv
<1>4. /\ sh' \in [Shells -> ShellStates]
      /\ sh'[p].prog = sh[p].prog /\ sh'[p].at = sh[p].at + 1 /\ sh'[p].tx = journal'
      /\ \A q \in Shells : q # p => sh'[q] = sh[q]
  <2>1. sh \in [Shells -> ShellStates]
    BY Zenon DEF IInv, TypeOK, ShellStates
  <2>2. sh[p].at + 1 \in 0..24
    BY <1>3, SMT DEF At
  <2> QED BY <1>1, <1>2, <2>1, <2>2, SMT DEF ShellStates
<1>5. TypeOK' /\ Counted'
  BY <1>1, <1>2, <1>4, SMT DEF IInv, TypeOK, Counted, ShellStates, host
<1>6. Placed'
  BY <1>2, <1>3, <1>4, SMT DEF IInv, Placed, Transactions, At, Scripted, Scripts
<1>7. Holding'
  BY <1>1, <1>2, <1>3, <1>4, SMT DEF IInv, Holding, Working, Waiting, At, Scripted, Scripts
<1>8. Current'
  BY <1>2, <1>4, SMT DEF Current, Working, Waiting, Scripted
<1>9. Phased'
  <2>1. journal'.phase = phase
    BY <1>2, SMT DEF Transactions
  <2> QED BY <1>3, <1>4, <2>1, SMT DEF IInv, Phased, At, Scripted
<1>10. Rooted'
  <2>1. \A q \in Shells : q # p => Scripted(q)' = Scripted(q)
    BY <1>4, SMT DEF Scripted
  <2>2. UNCHANGED <<files, loaded, enabled>>
    BY <1>1, Zenon DEF host
  <2> QED BY <1>2, <1>4, <2>1, <2>2, Zenon DEF IInv, Rooted
<1>11. Undone'
  BY <1>1, <1>2, <1>3, <1>4, SMT DEF IInv, TypeOK, Undone, From, At, host, Working,
     Waiting, Scripted, Scripts, Transactions
<1>12. Verifying'
  BY <1>1, <1>2, <1>3, <1>4, SMT DEF IInv, TypeOK, Verifying, From, At, host
<1> QED BY <1>2, <1>5, <1>6, <1>7, <1>8, <1>9, <1>10, <1>11, <1>12 DEF IInv

\* A journal write that took effect in a script that then failed.
LEMMA FailedWrite ==
  ASSUME IInv, NEW p \in Shells, NEW phase \in Phases, Runs(p, <<"journal", phase>>),
         sh[p].prog # "recover",
         Record([sh[p].tx EXCEPT !.phase = phase]), Release(p),
         sh' = [sh EXCEPT ![p] = [prog |-> "automatic", at |-> 0, tx |-> None]],
         UNCHANGED <<host, receipts, used>>, mishaps' \in mishaps..MaxMishaps
  PROVE  IInv'
<1>1. /\ Scripted(p) /\ ~Waiting(p) /\ lock = p
      /\ \A q \in Shells : q # p => ~Working(q)
      /\ journal # None /\ journal' # None /\ journal' \in Transactions
      /\ journal'.files = journal.files /\ journal'.enabled = journal.enabled
      /\ Dependent' /\ Restored'
  BY RecordStep, Zenon
<1>2. /\ sh'[p] = [prog |-> "automatic", at |-> 0, tx |-> None]
      /\ \A q \in Shells : q # p => sh'[q] = sh[q]
      /\ sh' \in [Shells -> ShellStates]
  BY SMT DEF IInv, TypeOK, ShellStates
<1>3. /\ ~Scripted(p)'
      /\ \A q \in Shells : q # p => (Scripted(q)' = Scripted(q) /\ Working(q)' = Working(q))
  BY <1>2, SMT DEF Scripted, Working, Waiting, Scripts
<1>4. lock' = None
  BY <1>1, Zenon DEF Release
<1>5. UNCHANGED <<files, loaded, enabled, unit, table, kubelet, boot, receipts, used>>
  BY Zenon DEF host
<1>6. TypeOK' /\ Counted'
  BY <1>1, <1>2, <1>4, <1>5, MishapAssumption, SMT DEF IInv, TypeOK, Counted, ShellStates
<1>7. Placed'
  BY <1>2, <1>3, SMT DEF IInv, Placed, Scripted, Scripts
<1>8. \A q \in Shells : ~Working(q)'
  <2>1. \A q \in Shells : q # p => ~Working(q)'
    BY <1>1, <1>3
  <2>2. ~Working(p)'
    BY <1>3 DEF Working
  <2> QED BY <2>1, <2>2
<1>9. Holding' /\ Current'
  BY <1>4, <1>8, ShellAssumption, Zenon DEF Holding, Current
<1>10. Phased'
  BY <1>2, <1>3, SMT DEF IInv, Phased, At
<1>11. Rooted'
  BY <1>1, <1>2, <1>3, <1>5, Zenon DEF IInv, Rooted
<1>12. Undone'
  <2>1. SUFFICES ASSUME NEW q \in Shells PROVE sh'[q].prog # "recover"
    BY <2>1, Zenon DEF Undone, From
  <2> QED BY <1>8, SMT DEF Working, Waiting, Scripted, Scripts
<1>13. Verifying'
  <2>1. SUFFICES ASSUME NEW q \in Shells, Scripted(q)'
                 PROVE  sh'[q] = sh[q]
    BY <1>5, <2>1, SMT DEF IInv, Verifying, From, Scripted, Scripts
  <2> QED BY <1>2, <1>3, <2>1
<1> QED BY <1>1, <1>6, <1>7, <1>9, <1>10, <1>11, <1>12, <1>13 DEF IInv

\* A signal or a failing command.
LEMMA FailStep ==
  ASSUME IInv, NEW p \in Shells, Fail(p)
  PROVE  IInv'
<1>1. Scripted(p) /\ UNCHANGED host /\ mishaps' \in mishaps..MaxMishaps
  BY ProgramNames, MishapCount, Zenon DEF Fail, Scripted
<1>2. CASE Abort(p)
  BY <1>1, <1>2, FailedCheck
<1>3. CASE ~Abort(p)
  <2>1. PICK phase \in Phases :
          /\ Runs(p, <<"journal", phase>>) /\ sh[p].prog # "recover"
          /\ Record([sh[p].tx EXCEPT !.phase = phase]) /\ Release(p)
          /\ sh' = [sh EXCEPT ![p] = [prog |-> "automatic", at |-> 0, tx |-> None]]
          /\ UNCHANGED <<receipts, used>>
    BY <1>3, Zenon DEF Fail
  <2> QED BY <1>1, <2>1, FailedWrite, Zenon
<1> QED BY <1>2, <1>3

--------------------------------------------------------------------------------
\* How a script starts.

\* A script starts on the journal, as it is or with its own new one.
LEMMA StartStep ==
  ASSUME IInv, NEW p \in Shells, lock = None, lock' = p, ~Scripted(p),
         NEW s \in Scripts, NEW tx \in Transactions, tx # None,
         sh' = [sh EXCEPT ![p] = [prog |-> s, at |-> 1, tx |-> tx]],
         s = "offline" => tx.mode = "offline", s = "retrofit" => tx.mode = "retrofit",
         s = "offline" => unit # "active", s = "retrofit" => "dropin" \notin files,
         tx.phase \notin {"rolled-back", "committed"},
         tx.phase = "commit-intent" => s = "recover",
         journal' = tx, Prestate(tx.files, tx.enabled),
         tx.files \subseteq files, tx.files \ {"support"} \subseteq loaded, tx.enabled => enabled,
         journal # None => tx.files = journal.files /\ tx.enabled = journal.enabled,
         Dependent',
         used' \in SUBSET Attempts,
         UNCHANGED <<host, receipts, mishaps>>
  PROVE  IInv'
<1>1. /\ sh'[p] = [prog |-> s, at |-> 1, tx |-> tx]
      /\ \A q \in Shells : q # p => sh'[q] = sh[q]
      /\ sh' \in [Shells -> ShellStates]
  BY ProgramNames, SMT DEF IInv, TypeOK, ShellStates
<1>2. \A q \in Shells : ~Working(q)
  BY ShellAssumption, SMT DEF IInv, Holding
<1>3. /\ Scripted(p)' /\ Working(p)'
      /\ \A q \in Shells : q # p => (Scripted(q)' = Scripted(q) /\ ~Working(q)')
  BY <1>1, <1>2, SMT DEF Scripted, Working, Waiting, Scripts
<1>4. UNCHANGED <<files, loaded, enabled, unit, table, kubelet, boot, receipts>>
  BY Zenon DEF host
<1>5. TypeOK' /\ Counted'
  BY <1>1, <1>4, SMT DEF IInv, TypeOK, Counted, ShellStates
<1>6. Placed'
  BY <1>1, <1>3, SMT DEF IInv, Placed, Scripted, Scripts
<1>7. Holding'
  BY <1>1, <1>3, SMT DEF Holding
<1>8. Current'
  BY <1>1, <1>3, SMT DEF Current
<1>9. Phased'
  <2>1. ASSUME NEW q \in Shells, q # p, Scripted(q)'
        PROVE  sh'[q] = sh[q] /\ Scripted(q)
    BY <1>1, <1>3, <2>1
  <2>2. ASSUME NEW q \in Shells, q = p
        PROVE  ~At(q, "recover", 14)' /\ ~At(q, "offline", 18)' /\ ~At(q, "close", 5)'
               /\ (s = "recover" => At(q, "recover", 1)') /\ sh'[q].tx = tx
    BY <1>1, <2>2, SMT DEF At
  <2> QED BY <2>1, <2>2, SMT DEF IInv, Phased, At
<1>10. Rooted'
  <2>1. \A q \in Shells : Scripted(q)' => sh'[q].tx.files = tx.files /\ sh'[q].tx.enabled = tx.enabled
    <3>1. ASSUME NEW q \in Shells, q # p, Scripted(q)'
          PROVE  sh'[q].tx.files = tx.files /\ sh'[q].tx.enabled = tx.enabled
      <4>1. sh'[q] = sh[q] /\ Scripted(q)
        BY <1>1, <1>3, <3>1
      <4> QED BY <4>1, Zenon DEF IInv, Rooted
    <3> QED BY <1>1, <3>1
  <2> QED BY <1>4, <2>1, Zenon DEF Rooted
<1>11. Undone'
  <2>1. \A q \in Shells : sh'[q].prog = "recover" => q = p
    BY <1>3, SMT DEF Working, Waiting, Scripted, Scripts
  <2>2. sh'[p].at = 1
    BY <1>1
  <2>3. \A q \in Shells : /\ ~From(q, "recover", 3)' /\ ~From(q, "recover", 4)' /\ ~From(q, "recover", 6)'
                          /\ ~From(q, "recover", 7)' /\ ~From(q, "recover", 9)' /\ ~From(q, "recover", 10)'
                          /\ ~From(q, "recover", 11)' /\ ~From(q, "recover", 12)' /\ ~From(q, "recover", 13)'
    BY <2>1, <2>2, SMT DEF From
  <2> QED BY <2>3, Zenon DEF Undone
<1>12. Verifying'
  <2>1. ASSUME NEW q \in Shells, q # p
        PROVE  sh'[q] = sh[q]
    BY <1>1, <2>1
  <2>2. sh'[p].prog = s /\ sh'[p].at = 1
    BY <1>1
  <2> QED BY <1>4, <2>1, <2>2, SMT DEF IInv, Verifying, From
<1>13. Restored'
  BY Zenon DEF Restored
<1> QED BY <1>5, <1>6, <1>7, <1>8, <1>9, <1>10, <1>11, <1>12, <1>13 DEF IInv

\* A transaction begins on a host that was rolled back, or never touched.
LEMMA BeginStep ==
  ASSUME IInv, NEW p \in Shells, NEW mode \in Modes, Begin(p, mode)
  PROVE  IInv'
<1>1. /\ sh[p] = Idle /\ lock = None /\ lock' = p
      /\ journal # None => journal.phase = "rolled-back"
      /\ unit = "inactive" /\ ("dropin" \in loaded => "dropin" \in files)
      /\ mode = "retrofit" => files \subseteq {"support"}
      /\ UNCHANGED <<host, receipts, mishaps>>
  BY Zenon DEF Begin
<1>2. PICK a \in Attempts \ used :
        LET tx == [mode |-> mode, phase |-> "prepared", attempt |-> a, boot |-> boot,
                   files |-> files, enabled |-> enabled, kubelet |-> kubelet]
        IN  /\ used' = used \union {a}
            /\ Record(tx)
            /\ sh' = [sh EXCEPT ![p] = [prog |-> mode, at |-> 1, tx |-> tx]]
  BY Zenon DEF Begin
<1> DEFINE tx == [mode |-> mode, phase |-> "prepared", attempt |-> a, boot |-> boot,
                  files |-> files, enabled |-> enabled, kubelet |-> kubelet]
<1>3. /\ sh' = [sh EXCEPT ![p] = [prog |-> mode, at |-> 1, tx |-> tx]]
      /\ journal' = tx /\ used' \in SUBSET Attempts
  BY <1>2, SMT DEF Record, IInv, TypeOK
<1>4. tx \in Transactions
  BY SMT DEF Transactions, IInv, TypeOK, Phases
<1>5. /\ tx.mode = mode /\ tx.phase = "prepared" /\ tx.files = files /\ tx.enabled = enabled
  OBVIOUS
<1>6. /\ Prestate(files, enabled) /\ loaded = files \ {"support"}
      /\ journal # None => files = journal.files /\ enabled = journal.enabled
  <2>1. CASE journal = None
    BY <2>1, Zenon DEF IInv, Rooted
  <2>2. CASE journal # None
    BY <1>1, <2>2, Zenon DEF IInv, Rooted, Restored
  <2> QED BY <2>1, <2>2
<1>7. mode \in Scripts /\ ~Scripted(p)
  BY <1>1, SMT DEF Modes, Scripts, Scripted, Idle
<1> HIDE DEF tx
<1>8. mode = "retrofit" => "dropin" \notin files /\ "dropin" \notin loaded
  BY <1>1, SMT
<1>9. Dependent'
  <2>1. UNCHANGED <<loaded, unit, table, kubelet>>
    BY <1>1, Zenon DEF host
  <2> QED BY <1>3, <1>5, <1>8, <2>1, Zenon DEF IInv, Dependent
<1>10. tx # None
  BY <1>4, NoneAssumption
<1>11. /\ mode = "offline" => tx.mode = "offline" /\ unit # "active"
       /\ mode = "retrofit" => tx.mode = "retrofit" /\ "dropin" \notin files
       /\ tx.phase \notin {"rolled-back", "committed"} /\ tx.phase # "commit-intent"
       /\ Prestate(tx.files, tx.enabled) /\ tx.files \subseteq files
       /\ tx.files \ {"support"} \subseteq loaded /\ (tx.enabled => enabled)
       /\ journal # None => tx.files = journal.files /\ tx.enabled = journal.enabled
  BY <1>1, <1>5, <1>6, <1>8
<1> QED BY <1>1, <1>3, <1>4, <1>7, <1>9, <1>10, <1>11, StartStep, Zenon

\* The closure begins on the journal that waits for it.
LEMMA CloseStep ==
  ASSUME IInv, NEW p \in Shells, Close(p)
  PROVE  IInv'
<1>1. /\ sh[p] = Idle /\ lock = None /\ lock' = p
      /\ journal # None /\ journal.phase = "awaiting-reboot"
      /\ sh' = [sh EXCEPT ![p] = [prog |-> "close", at |-> 1, tx |-> journal]]
      /\ UNCHANGED <<host, records, mishaps>>
  BY Zenon DEF Close
<1>2. journal \in Transactions /\ "close" \in Scripts /\ ~Scripted(p)
  BY <1>1, SMT DEF IInv, TypeOK, Scripts, Scripted, Idle
<1>3. UNCHANGED <<loaded, unit, table, kubelet, journal, receipts, used>>
  BY <1>1, Zenon DEF host, records
<1>4. Dependent'
  BY <1>3, Zenon DEF IInv, Dependent
<1>5. /\ Prestate(journal.files, journal.enabled) /\ journal.files \subseteq files
      /\ journal.files \ {"support"} \subseteq loaded /\ (journal.enabled => enabled)
  BY <1>1, Zenon DEF IInv, Rooted
<1>6. used' \in SUBSET Attempts /\ journal' = journal
  BY <1>3, Zenon DEF IInv, TypeOK
<1>7. journal.phase \notin {"rolled-back", "committed"} /\ journal.phase # "commit-intent"
  BY <1>1
<1>8. UNCHANGED <<host, receipts, mishaps>>
  BY <1>1, Zenon DEF records
<1> QED BY <1>1, <1>2, <1>4, <1>5, <1>6, <1>7, <1>8, StartStep, Zenon

\* A recovery that finds a published result finishes it.
LEMMA FinishStep ==
  ASSUME IInv, NEW p \in Shells, NEW phase \in {"committed", "awaiting-reboot"},
         ~Scripted(p), lock = None, journal # None,
         phase = "committed" => journal.phase = "commit-intent",
         Record([journal EXCEPT !.phase = phase]),
         sh' = [sh EXCEPT ![p] = Idle], UNCHANGED <<host, lock, receipts, used, mishaps>>
  PROVE  IInv'
<1>1. /\ journal' \in Transactions /\ journal' # None /\ journal'.phase = phase
      /\ journal'.files = journal.files /\ journal'.enabled = journal.enabled
      /\ journal'.mode = journal.mode
  BY NoneAssumption, SMT DEF IInv, TypeOK, Record, Transactions, Phases
<1>2. /\ sh'[p] = Idle /\ \A q \in Shells : q # p => sh'[q] = sh[q]
      /\ sh' \in [Shells -> ShellStates]
  BY SMT DEF IInv, TypeOK, Idle, ShellStates
<1>3. /\ ~Scripted(p)'
      /\ \A q \in Shells : q # p => (Scripted(q)' = Scripted(q) /\ Working(q)' = Working(q))
  BY <1>2, SMT DEF Scripted, Working, Waiting, Scripts, Idle
<1>4. UNCHANGED <<files, loaded, enabled, unit, table, kubelet, boot, receipts>>
  BY Zenon DEF host
<1>5. TypeOK' /\ Counted'
  BY <1>1, <1>2, <1>4, SMT DEF IInv, TypeOK, Counted, ShellStates
<1>6. Placed'
  BY <1>2, <1>3, SMT DEF IInv, Placed, Scripted, Scripts, Idle
<1>7. \A q \in Shells : ~Working(q) /\ ~Working(q)'
  <2>1. \A q \in Shells : ~Working(q)
    BY ShellAssumption, SMT DEF IInv, Holding
  <2>2. ~Working(p)'
    BY <1>3 DEF Working
  <2> QED BY <1>3, <2>1, <2>2
<1>8. Holding' /\ Current'
  BY <1>7, ShellAssumption, Zenon DEF Holding, Current
<1>9. Phased'
  BY <1>2, <1>3, SMT DEF IInv, Phased, At
<1>10. Rooted'
  BY <1>1, <1>2, <1>3, <1>4, Zenon DEF IInv, Rooted
<1>11. Undone'
  <2>1. SUFFICES ASSUME NEW q \in Shells PROVE sh'[q].prog # "recover"
    BY <2>1, Zenon DEF Undone, From
  <2> QED BY <1>7, SMT DEF Working, Waiting, Scripted, Scripts
<1>12. Verifying'
  <2>1. SUFFICES ASSUME NEW q \in Shells, Scripted(q)'
                 PROVE  sh'[q] = sh[q]
    BY <1>4, <2>1, SMT DEF IInv, Verifying, From, Scripted, Scripts
  <2> QED BY <1>2, <1>3, <2>1
<1>13. Dependent'
  <2>1. phase \in {"commit-intent", "committed"} => journal.phase = "commit-intent"
    OBVIOUS
  <2> QED BY <1>1, <1>4, <2>1, Zenon DEF IInv, Dependent
<1>14. Restored'
  BY <1>1, Zenon DEF Restored
<1> QED BY <1>5, <1>6, <1>8, <1>9, <1>10, <1>11, <1>12, <1>13, <1>14 DEF IInv

\* A recovery finishes what was published, leaves what is closed, or rolls back.
LEMMA RecoverStep ==
  ASSUME IInv, NEW p \in Shells, Recover(p)
  PROVE  IInv'
<1>1. /\ ~Scripted(p) /\ lock = None /\ journal # None
      /\ UNCHANGED <<host, receipts, used, mishaps>>
  <2>1. /\ sh[p].prog \in {"idle", "automatic"} /\ lock = None /\ journal # None
        /\ UNCHANGED <<host, receipts, used, mishaps>>
    BY Zenon DEF Recover
  <2> QED BY <2>1, SMT DEF Scripted, Scripts
<1>2. CASE journal.phase = "commit-intent" /\ Has("pass")
  <2>1. /\ Record([journal EXCEPT !.phase = "committed"])
        /\ sh' = [sh EXCEPT ![p] = Idle] /\ UNCHANGED lock
    <3>1. ~Closed /\ journal.phase # "awaiting-reboot-intent"
      BY <1>2 DEF Closed
    <3> QED BY <1>2, <3>1, SMT DEF Recover
  <2> QED BY <1>1, <1>2, <2>1, FinishStep, Zenon
<1>3. CASE journal.phase = "awaiting-reboot-intent" /\ Has("pending-reboot")
  <2>1. /\ Record([journal EXCEPT !.phase = "awaiting-reboot"])
        /\ sh' = [sh EXCEPT ![p] = Idle] /\ UNCHANGED lock
    <3>1. ~Closed /\ journal.phase # "commit-intent"
      BY <1>3 DEF Closed
    <3> QED BY <1>3, <3>1, SMT DEF Recover
  <2> QED BY <1>1, <1>3, <2>1, FinishStep, Zenon
<1>4. CASE Closed
  <2>1. sh' = [sh EXCEPT ![p] = Idle] /\ UNCHANGED <<lock, journal>>
    BY <1>4, SMT DEF Recover, Closed
  <2> QED BY <1>1, <2>1, LeaveStep, Unmoved, ShellAssumption, Zenon DEF records, Release
<1>5. CASE /\ ~(journal.phase = "commit-intent" /\ Has("pass"))
           /\ ~(journal.phase = "awaiting-reboot-intent" /\ Has("pending-reboot"))
           /\ ~Closed
  <2>1. /\ sh' = [sh EXCEPT ![p] = [prog |-> "recover", at |-> 1, tx |-> journal]]
        /\ lock' = p /\ UNCHANGED journal
    BY <1>5, SMT DEF Recover
  <2>2. UNCHANGED <<loaded, unit, table, kubelet, receipts>>
    BY <1>1, Zenon DEF host
  <2>3. Dependent'
    BY <2>1, <2>2, Zenon DEF IInv, Dependent
  <2>4. /\ Prestate(journal.files, journal.enabled) /\ journal.files \subseteq files
        /\ journal.files \ {"support"} \subseteq loaded /\ (journal.enabled => enabled)
        /\ journal \in Transactions /\ "recover" \in Scripts
        /\ journal' = journal /\ used' \in SUBSET Attempts
    BY <1>1, <2>1, Zenon DEF IInv, Rooted, TypeOK, Scripts
  <2>5. journal.phase \notin {"rolled-back", "committed"}
    BY <1>5 DEF Closed
  <2>6. UNCHANGED <<host, receipts, mishaps>>
    BY <1>1
  <2> QED BY <1>1, <2>1, <2>3, <2>4, <2>5, <2>6, StartStep, Zenon
<1> QED BY <1>2, <1>3, <1>4, <1>5

--------------------------------------------------------------------------------
\* The invariant and what follows from it.

\* The first state satisfies the inductive invariant.
LEMMA InitIInv == Init => IInv
<1> SUFFICES ASSUME Init PROVE IInv
  OBVIOUS
<1>1. \A p \in Shells : sh[p] \in {Idle, Absent}
  BY SMT DEF Init
<1>2. \A p \in Shells : sh[p].prog \in {"idle", "absent"} /\ sh[p].at = 0 /\ sh[p].tx = None
  BY <1>1, SMT DEF Idle, Absent
<1>3. sh \in [Shells -> ShellStates]
  BY SMT DEF Init, Idle, Absent, ShellStates
<1>4. TypeOK /\ Counted
  <2>1. files \in SUBSET Files /\ loaded \in SUBSET {"unit", "dropin"}
    BY SMT DEF Init, Files
  <2>2. enabled \in BOOLEAN /\ table \in BOOLEAN /\ kubelet \in BOOLEAN
    BY Zenon DEF Init
  <2>3. boot \in 0..MaxMishaps /\ mishaps \in 0..MaxMishaps /\ boot <= mishaps
    BY MishapAssumption, SMT DEF Init
  <2> QED BY <1>3, <2>1, <2>2, <2>3, SMT DEF Init, TypeOK, Counted, ShellStates
<1>5. \A p \in Shells : ~Scripted(p)
  BY <1>2, SMT DEF Scripted, Scripts
<1>6. Placed /\ Phased
  BY <1>2, <1>5, SMT DEF Placed, Phased, Scripted, Scripts
<1>7. Holding /\ Current
  BY <1>5, ShellAssumption, Zenon DEF Init, Holding, Current, Working
<1>8. Rooted
  <2>1. Prestate(files, enabled) /\ loaded = files \ {"support"} /\ journal = None
    <3>1. files \in SUBSET Files /\ ("dropin" \in files => "unit" \in files)
      BY SMT DEF Init, Files
    <3> QED BY <3>1, Zenon DEF Init, Prestate
  <2> QED BY <1>5, <2>1, Zenon DEF Rooted
<1>9. Undone /\ Verifying
  BY <1>2, SMT DEF Undone, Verifying, From
<1>10. Dependent /\ Restored
  BY SMT DEF Init, Dependent, Restored
<1> QED BY <1>4, <1>6, <1>7, <1>8, <1>9, <1>10 DEF IInv

\* Every step preserves it.
LEMMA NextIInv == IInv /\ [Next]_vars => IInv'
<1> SUFFICES ASSUME IInv, [Next]_vars PROVE IInv'
  OBVIOUS
<1>1. ASSUME NEW p \in Shells, NEW mode \in Modes, Begin(p, mode) PROVE IInv'
  BY <1>1, BeginStep
<1>2. ASSUME NEW p \in Shells, Close(p) PROVE IInv'
  BY <1>2, CloseStep
<1>3. ASSUME NEW p \in Shells, Recover(p) PROVE IInv'
  BY <1>3, RecoverStep
<1>4. ASSUME NEW p \in Shells, Script(p) PROVE IInv'
  <2>1. ASSUME NEW phase \in Phases, WriteJournal(p, phase) PROVE IInv'
    BY <2>1, WriteJournalStep
  <2>2. ASSUME NEW r \in Results, WriteReceipt(p, r) PROVE IInv'
    BY <2>2, WriteReceiptStep
  <2>3. ASSUME NEW f \in Files, InstallFile(p, f) \/ RemoveFile(p, f) PROVE IInv'
    BY <2>3, InstallFileStep, RemoveFileStep
  <2>4. CASE Reload(p) \/ Enable(p) \/ Disable(p) \/ StartGuard(p) \/ ReleaseLock(p)
    BY <2>4, ReloadStep, EnableStep, DisableStep, StartGuardStep, ReleaseLockStep
  <2>5. CASE AwaitGuard(p) \/ Relock(p) \/ VerifyHost(p) \/ RestartKubelet(p)
    BY <2>5, AwaitGuardStep, RelockStep, VerifyHostStep, RestartKubeletStep
  <2>6. CASE RestoreKubelet(p) \/ StopGuard(p) \/ DeleteTable(p) \/ VerifyPrestate(p)
    BY <2>6, RestoreKubeletStep, StopGuardStep, DeleteTableStep, VerifyPrestateStep
  <2>7. CASE Done(p) \/ RecoverRefused(p)
    BY <2>7, DoneStep, RecoverRefusedStep
  <2>8. CASE sh[p].prog = "automatic" /\ Recover(p)
    BY <2>8, RecoverStep
  <2> QED BY <1>4, <2>1, <2>2, <2>3, <2>4, <2>5, <2>6, <2>7, <2>8, Zenon DEF Script
<1>5. ASSUME NEW p \in Shells, RelockTimesOut(p) \/ Fail(p) \/ Kill(p) PROVE IInv'
  BY <1>5, RelockTimesOutStep, FailStep, KillStep
<1>6. CASE Load \/ LoadFails \/ StartKubelet \/ Reboot
  BY <1>6, LoadStep, LoadFailsStep, StartKubeletStep, RebootStep
<1>7. CASE UNCHANGED vars
  <2>1. /\ UNCHANGED <<files, loaded, enabled, unit, table, kubelet, boot, lock>>
        /\ UNCHANGED <<journal, receipts, used, sh, mishaps>>
    BY <1>7, Zenon DEF vars, host, records
  <2>2. TypeOK'
    BY <2>1, Zenon DEF IInv, TypeOK
  <2>6. Counted'
    BY <2>1, SMT DEF IInv, Counted
  <2>3. Placed' /\ Holding' /\ Current' /\ Phased'
    BY <2>1, Zenon DEF IInv, Placed, Holding, Current, Phased, Working, Waiting, Resumed,
       Scripted, At
  <2>4. Rooted' /\ Dependent' /\ Restored'
    BY <2>1, Zenon DEF IInv, Rooted, Dependent, Restored, Scripted
  <2>5. Undone' /\ Verifying'
    BY <2>1, Zenon DEF IInv, Undone, Verifying, From
  <2> QED BY <2>2, <2>3, <2>4, <2>5, <2>6 DEF IInv
<1> QED BY <1>1, <1>2, <1>3, <1>4, <1>5, <1>6, <1>7, Zenon DEF Next

\* The inductive invariant holds in every reachable state.
THEOREM Invariant == Spec => []IInv
BY InitIInv, NextIInv, PTL DEF Spec

\* Every variable of the transaction keeps its type.
THEOREM TypeCorrect == Spec => []TypeOK
<1>1. IInv => TypeOK
  BY DEF IInv
<1> QED BY <1>1, Invariant, PTL

\* "exact-prestate-restored", whatever the shells, failures, kills and reboots:
\* a rolled-back journal finds the recorded prestate on the host.
THEOREM RolledBackHolds == Spec => []RolledBackIsPrestate
<1>1. IInv => RolledBackIsPrestate
  BY Zenon DEF IInv, Restored, RolledBackIsPrestate
<1> QED BY <1>1, Invariant, PTL

\* "The currently running kubelet is never stopped behind an absent or
\* unverified table": a kubelet that depends on the guard has its table.
THEOREM KubeletHolds == Spec => []KubeletGuarded
<1>1. IInv => KubeletGuarded
  BY Zenon DEF IInv, Dependent, KubeletGuarded
<1> QED BY <1>1, Invariant, PTL

--------------------------------------------------------------------------------
\* One shell.  What a script read is then what the journal holds, also across
\* the wait for the loader, and a PASS receipt is published for the journal's
\* transaction alone.  The hypothesis is stated without Cardinality.

Solo == \A p, q \in Shells : sh[p].prog # "absent" /\ sh[q].prog # "absent" => p = q

Rollback == {"rollback-intent", "rolled-back", "recovery-required"}
Passed == journal # None /\ <<journal.attempt, "pass">> \in receipts

Own == \A p \in Shells : Scripted(p) => journal = sh[p].tx

\* Attempts are drawn before they are recorded, boots happened.
Drawn ==
  /\ journal = None => used = {}
  /\ journal # None => journal.attempt \in used /\ journal.boot <= boot
  /\ receipts \subseteq used \X Results

\* The phases in which results are published.
Claimed ==
  /\ \A a \in Attempts : <<a, "pass">> \in receipts =>
       journal.attempt = a /\ journal.phase \in {"commit-intent", "committed"}
  /\ Passed => \A p \in Shells : sh[p].prog # "recover"
  /\ journal # None /\ <<journal.attempt, "rollback-verified">> \in receipts =>
       journal.phase \in Rollback

Recording ==
  \A p \in Shells :
    /\ Scripted(p) /\ sh[p].prog # "recover" => sh[p].tx.phase \notin Rollback
    /\ \/ At(p, "offline", 16) \/ At(p, "offline", 17)
       \/ At(p, "close", 3) \/ At(p, "close", 4)
       => sh[p].tx.phase = "commit-intent"
    /\ From(p, "recover", 2) /\ sh[p].at <= 13 => sh[p].tx.phase = "rollback-intent"

\* What an offline installation has put in place, and what was found after a
\* reboot.
Laid ==
  \A p \in Shells :
    /\ From(p, "offline", 2) => "support" \in files
    /\ From(p, "offline", 3) => "unit" \in files
    /\ From(p, "offline", 4) => "dropin" \in files
    /\ From(p, "close", 1) => boot # journal.boot

\* A guard that a reboot keeps, from its verification on.
Kept ==
  /\ files = Files /\ enabled /\ "dropin" \in loaded
  /\ journal.mode = "retrofit" => boot # journal.boot

Keeping ==
  /\ \A p \in Shells : From(p, "offline", 15) \/ From(p, "close", 2) => Kept
  /\ Passed => Kept

SoloInv == Own /\ Drawn /\ Claimed /\ Recording /\ Laid /\ Keeping

\* The hypothesis of the properties, as the proofs use it.
LEMMA AloneSolo == ASSUME IInv PROVE Alone => Solo
<1> SUFFICES ASSUME Alone, NEW p \in Shells, NEW q \in Shells,
                    sh[p].prog # "absent", sh[q].prog # "absent"
             PROVE  p = q
  BY Zenon DEF Solo
<1> DEFINE opened == {r \in Shells : sh[r] # Absent}
<1>1. p \in opened /\ q \in opened
  BY SMT DEF Absent
<1>2. IsFiniteSet(opened)
  <2>1. opened \subseteq Shells
    OBVIOUS
  <2> QED BY <2>1, ShellAssumption, FS_Subset, Zenon
<1>3. Cardinality(opened) = 1
  BY Zenon DEF Alone
<1>4. PICK m : opened = {m}
  BY <1>2, <1>3, FS_Singleton, Zenon
<1> QED BY <1>1, <1>4, Zenon

\* No step opens a shell.
LEMMA SoloBefore == ASSUME IInv, [Next]_vars, Solo' PROVE Solo
<1> SUFFICES \A q \in Shells : sh'[q].prog = "absent" => sh[q].prog = "absent"
  BY Zenon DEF Solo
<1>1. ASSUME NEW p \in Shells, \/ Advance(p)
                               \/ sh' = [sh EXCEPT ![p] = Idle]
                               \/ sh' = [sh EXCEPT ![p] = [prog |-> "automatic", at |-> 0, tx |-> None]]
      PROVE  \A q \in Shells : sh'[q].prog = "absent" => sh[q].prog = "absent"
  BY <1>1, SMT DEF IInv, TypeOK, Advance, Idle
<1>2. ASSUME NEW p \in Shells, Abort(p)
      PROVE  \A q \in Shells : sh'[q].prog = "absent" => sh[q].prog = "absent"
  BY <1>1, <1>2, SMT DEF Abort, Leave, Idle
<1>3. ASSUME NEW p \in Shells, Recover(p)
      PROVE  \A q \in Shells : sh'[q].prog = "absent" => sh[q].prog = "absent"
  <2>1. \/ sh' = [sh EXCEPT ![p] = Idle]
        \/ sh' = [sh EXCEPT ![p] = [prog |-> "recover", at |-> 1, tx |-> journal]]
    BY <1>3, SMT DEF Recover
  <2> QED BY <1>1, <2>1, SMT DEF IInv, TypeOK
<1>4. ASSUME NEW p \in Shells, Script(p)
      PROVE  \A q \in Shells : sh'[q].prog = "absent" => sh[q].prog = "absent"
  <2>1. ASSUME NEW phase \in Phases, WriteJournal(p, phase)
        PROVE  \A q \in Shells : sh'[q].prog = "absent" => sh[q].prog = "absent"
    BY <2>1, SMT DEF WriteJournal, IInv, TypeOK
  <2>2. CASE \E phase \in Phases : WriteJournal(p, phase)
    BY <2>1, <2>2
  <2>3. CASE sh[p].prog = "automatic" /\ Recover(p)
    BY <1>3, <2>3
  <2>4. CASE \/ \E r \in Results : WriteReceipt(p, r)
             \/ \E f \in Files : InstallFile(p, f) \/ RemoveFile(p, f)
             \/ Reload(p) \/ Enable(p) \/ Disable(p) \/ StartGuard(p) \/ ReleaseLock(p)
             \/ AwaitGuard(p) \/ Relock(p) \/ VerifyHost(p) \/ RestartKubelet(p)
             \/ RestoreKubelet(p) \/ StopGuard(p) \/ DeleteTable(p) \/ VerifyPrestate(p)
             \/ Done(p) \/ RecoverRefused(p)
    <3>1. Advance(p) \/ Abort(p) \/ sh' = [sh EXCEPT ![p] = Idle]
      BY <2>4, Zenon DEF WriteReceipt, InstallFile, RemoveFile, Reload, Enable, Disable,
         StartGuard, ReleaseLock, AwaitGuard, Relock, VerifyHost, RestartKubelet,
         RestoreKubelet, StopGuard, DeleteTable, VerifyPrestate, Done, RecoverRefused,
         Check, Leave
    <3> QED BY <1>1, <1>2, <3>1
  <2> QED BY <1>4, <2>2, <2>3, <2>4, Zenon DEF Script
<1>5. ASSUME NEW p \in Shells, \/ \E mode \in Modes : Begin(p, mode)
                               \/ Close(p) \/ RelockTimesOut(p) \/ Fail(p) \/ Kill(p)
      PROVE  \A q \in Shells : sh'[q].prog = "absent" => sh[q].prog = "absent"
  <2>1. ASSUME NEW mode \in Modes, Begin(p, mode)
        PROVE  \A q \in Shells : sh'[q].prog = "absent" => sh[q].prog = "absent"
    BY <2>1, SMT DEF Begin, IInv, TypeOK, Modes
  <2>2. CASE Close(p)
    BY <2>2, SMT DEF Close, IInv, TypeOK
  <2>3. CASE RelockTimesOut(p) \/ Fail(p) \/ Kill(p)
    <3>1. \/ Abort(p) \/ sh' = [sh EXCEPT ![p] = Idle]
          \/ sh' = [sh EXCEPT ![p] = [prog |-> "automatic", at |-> 0, tx |-> None]]
      BY <2>3, Zenon DEF RelockTimesOut, Fail, Kill, Leave
    <3> QED BY <1>1, <1>2, <3>1
  <2> QED BY <1>5, <2>1, <2>2, <2>3
<1>6. CASE Load \/ LoadFails \/ StartKubelet
  BY <1>6, Zenon DEF Load, LoadFails, StartKubelet
<1>7. CASE Reboot
  BY <1>7, SMT DEF Reboot, Idle, Absent
<1>8. CASE UNCHANGED vars
  BY <1>8, Zenon DEF vars
<1> QED BY <1>3, <1>4, <1>5, <1>6, <1>7, <1>8, Zenon DEF Next

\* The other shells are not opened.
LEMMA Lone ==
  ASSUME Solo, NEW p \in Shells, sh[p].prog # "absent"
  PROVE  \A q \in Shells : q # p => sh[q].prog = "absent"
BY Zenon DEF Solo

\* An instruction that writes no record, and takes nothing from a kept guard
\* unless it is the recovery's.
LEMMA SoloAdvance ==
  ASSUME IInv, Solo, SoloInv, NEW p \in Shells, NEW x, NEW y, Runs(p, <<x, y>>), Advance(p),
         x \notin {"journal", "receipt", "end"}, UNCHANGED <<boot, records>>,
         x = "install" => y \in files',
         \/ sh[p].prog = "recover"
         \/ files \subseteq files' /\ (Kept => Kept'),
         At(p, "offline", 14) \/ At(p, "close", 1) => Kept'
  PROVE  SoloInv'
<1>1. UNCHANGED <<journal, receipts, used, boot>>
  BY Zenon DEF records
<1>2. Scripted(p) /\ \A q \in Shells : q # p => sh[q].prog = "absent"
  <2>1. Scripted(p)
    BY Places DEF IInv
  <2> QED BY <2>1, Lone, SMT DEF Scripted, Scripts
<1>3. /\ sh'[p].prog = sh[p].prog /\ sh'[p].at = sh[p].at + 1 /\ sh'[p].tx = sh[p].tx
      /\ \A q \in Shells : q # p => sh'[q].prog = "absent"
  BY <1>2, SMT DEF IInv, TypeOK, Advance
<1>4. /\ sh[p].prog = "offline" =>
           \/ sh[p].at \in {1, 2, 3} /\ x = "install"
           \/ sh[p].at \in {5, 6, 8, 9, 10, 11, 12, 14}
      /\ sh[p].prog = "close" => sh[p].at = 1
      /\ sh[p].prog = "recover" => sh[p].at \in 2..11
      /\ At(p, "offline", 1) => y = "support"
      /\ At(p, "offline", 2) => y = "unit"
      /\ At(p, "offline", 3) => y = "dropin"
  BY Places, SMT DEF IInv, At
<1>5. Own'
  BY <1>1, <1>2, <1>3, SMT DEF SoloInv, Own, Scripted, Scripts
<1>6. Drawn'
  BY <1>1, Zenon DEF SoloInv, Drawn
<1>7. Claimed'
  <2>1. Passed' => \A q \in Shells : sh'[q].prog # "recover"
    BY <1>1, <1>3, SMT DEF SoloInv, Claimed, Passed
  <2> QED BY <1>1, <2>1, Zenon DEF SoloInv, Claimed
<1>8. Recording'
  BY <1>2, <1>3, <1>4, SMT DEF SoloInv, Recording, From, At, Scripted, Scripts
<1>9. Laid'
  BY <1>1, <1>2, <1>3, <1>4, SMT DEF SoloInv, Laid, From, At
<1>10. Keeping'
  <2>1. From(p, "offline", 15)' \/ From(p, "close", 2)' => Kept'
    BY <1>3, <1>4, SMT DEF SoloInv, Keeping, From, At
  <2>2. \A q \in Shells : q # p => ~From(q, "offline", 15)' /\ ~From(q, "close", 2)'
    BY <1>3, SMT DEF From
  <2>3. Passed' => Kept'
    BY <1>1, Zenon DEF SoloInv, Keeping, Claimed, Passed
  <2> QED BY <2>1, <2>2, <2>3, Zenon DEF Keeping
<1> QED BY <1>5, <1>6, <1>7, <1>8, <1>9, <1>10 DEF SoloInv

\* A shell that leaves its script, the records as they are.
LEMMA SoloLeave ==
  ASSUME IInv, Solo, SoloInv, NEW p \in Shells, sh[p].prog # "absent",
         NEW s \in {"idle", "automatic"},
         sh' = [sh EXCEPT ![p] = [prog |-> s, at |-> 0, tx |-> None]],
         UNCHANGED <<files, loaded, enabled, boot, records>>
  PROVE  SoloInv'
<1>1. UNCHANGED <<journal, receipts, used>>
  BY Zenon DEF records
<1>2. /\ sh'[p].prog = s
      /\ \A q \in Shells : q # p => sh'[q].prog = "absent"
  BY Lone, SMT DEF IInv, TypeOK
<1>3. \A q \in Shells : sh'[q].prog \in {"idle", "automatic", "absent"}
  BY <1>2
<1>4. Own' /\ Recording' /\ Laid'
  BY <1>3, SMT DEF Own, Recording, Laid, From, At, Scripted, Scripts
<1>5. Drawn'
  BY <1>1, Zenon DEF SoloInv, Drawn
<1>6. Claimed'
  <2>1. \A q \in Shells : sh'[q].prog # "recover"
    BY <1>3, SMT
  <2> QED BY <1>1, <2>1, Zenon DEF SoloInv, Claimed
<1>7. Keeping'
  <2>1. \A q \in Shells : ~From(q, "offline", 15)' /\ ~From(q, "close", 2)'
    BY <1>3, SMT DEF From
  <2> QED BY <1>1, <2>1, Zenon DEF SoloInv, Keeping, Kept, Passed
<1> QED BY <1>4, <1>5, <1>6, <1>7 DEF SoloInv

\* A script that fails; the recovery records that it did.
LEMMA SoloAbort ==
  ASSUME IInv, Solo, SoloInv, NEW p \in Shells, Scripted(p), Abort(p),
         UNCHANGED <<files, loaded, enabled, boot>>
  PROVE  SoloInv'
<1>1. PICK s \in {"idle", "automatic"} : sh' = [sh EXCEPT ![p] = [prog |-> s, at |-> 0, tx |-> None]]
  BY SMT DEF Abort, Leave, Idle
<1>2. sh[p].prog # "absent"
  BY SMT DEF Scripted, Scripts
<1>3. CASE UNCHANGED records
  BY <1>1, <1>2, <1>3, SoloLeave, Zenon
<1>4. CASE ~UNCHANGED records
  <2>1. /\ sh[p].prog = "recover" /\ used' = used
        /\ receipts' = receipts \union {<<sh[p].tx.attempt, "recovery-required">>}
        /\ journal' = [sh[p].tx EXCEPT !.phase = "recovery-required"]
    BY <1>4, Zenon DEF Abort, records, Publish, Record
  <2>2. journal = sh[p].tx /\ journal \in Transactions /\ journal # None
    BY AtWork, <2>1, SMT DEF Waiting, Resumed, At
  <2>3. /\ journal'.attempt = journal.attempt /\ journal'.boot = journal.boot
        /\ journal'.phase = "recovery-required" /\ journal' # None
    BY <2>1, <2>2, NoneAssumption, SMT DEF Transactions, Phases
  <2>4. \A q \in Shells : sh'[q].prog \in {"idle", "automatic", "absent"}
    BY <1>1, <1>2, Lone, SMT DEF IInv, TypeOK
  <2>5. Own' /\ Recording' /\ Laid'
    BY <2>4, SMT DEF Own, Recording, Laid, From, At, Scripted, Scripts
  <2>6. Drawn'
    BY <2>1, <2>2, <2>3, SMT DEF SoloInv, Drawn, Transactions, Results
  <2>7. \A a \in Attempts : <<a, "pass">> \notin receipts
    BY <2>1, <2>2, Zenon DEF SoloInv, Claimed, Passed
  <2>8. \A a : <<a, "pass">> \in receipts' => <<a, "pass">> \in receipts
    BY <2>1, SMT
  <2>9. ~Passed' /\ \A a \in Attempts : <<a, "pass">> \notin receipts'
    <3>1. journal'.attempt \in Attempts
      BY <2>2, <2>3, SMT DEF Transactions
    <3> QED BY <2>7, <2>8, <3>1 DEF Passed
  <2>10. Claimed'
    BY <2>3, <2>9, SMT DEF Claimed, Rollback
  <2>11. Keeping'
    <3>1. \A q \in Shells : ~From(q, "offline", 15)' /\ ~From(q, "close", 2)'
      BY <2>4, SMT DEF From
    <3> QED BY <2>9, <3>1, Zenon DEF Keeping
  <2> QED BY <2>5, <2>6, <2>10, <2>11 DEF SoloInv
<1> QED BY <1>3, <1>4

\* systemd and the loader change nothing that the receipts claim.
LEMMA SoloOutside ==
  ASSUME SoloInv, UNCHANGED <<files, loaded, enabled, boot, records, sh>>
  PROVE  SoloInv'
<1>1. UNCHANGED <<journal, receipts, used>>
  BY Zenon DEF records
<1>2. Own' /\ Drawn' /\ Claimed'
  BY <1>1, Zenon DEF SoloInv, Own, Drawn, Claimed, Passed, Scripted
<1>3. Recording' /\ Laid'
  BY <1>1, Zenon DEF SoloInv, Recording, Laid, From, At, Scripted
<1>4. Keeping'
  BY <1>1, Zenon DEF SoloInv, Keeping, Kept, Passed, From
<1> QED BY <1>2, <1>3, <1>4 DEF SoloInv

\* A reboot reloads the units from the files, in a later boot.
LEMMA SoloReboot ==
  ASSUME IInv, SoloInv, Reboot
  PROVE  SoloInv'
<1>1. /\ boot' = boot + 1 /\ loaded' = files \ {"support"}
      /\ UNCHANGED <<files, enabled, journal, receipts, used>>
  BY Zenon DEF Reboot, records
<1>2. \A q \in Shells : sh'[q].prog \in {"idle", "absent"}
  BY SMT DEF Reboot, Idle, Absent
<1>3. Own' /\ Recording' /\ Laid'
  BY <1>2, SMT DEF Own, Recording, Laid, From, At, Scripted, Scripts
<1>4. journal # None => journal.boot < boot'
  <2>1. journal # None => journal \in Transactions /\ journal.boot <= boot
    BY Zenon DEF IInv, TypeOK, SoloInv, Drawn
  <2> QED BY <1>1, <2>1, SMT DEF IInv, TypeOK, Transactions
<1>5. Drawn'
  <2>1. journal # None => journal \in Transactions
    BY Zenon DEF IInv, TypeOK
  <2>2. journal # None => journal.boot <= boot'
    BY <1>1, <1>4, <2>1, SMT DEF IInv, TypeOK, Transactions
  <2> QED BY <1>1, <2>2, Zenon DEF SoloInv, Drawn
<1>6. Claimed'
  <2>1. \A q \in Shells : sh'[q].prog # "recover"
    BY <1>2, SMT
  <2> QED BY <1>1, <2>1, Zenon DEF SoloInv, Claimed
<1>7. Keeping'
  <2>1. \A q \in Shells : ~From(q, "offline", 15)' /\ ~From(q, "close", 2)'
    BY <1>2, SMT DEF From
  <2>2. Passed => files = Files /\ enabled /\ journal # None
    BY Zenon DEF SoloInv, Keeping, Kept, Passed
  <2>3. Passed => journal.boot # boot'
    <3>1. ASSUME Passed PROVE journal \in Transactions /\ journal.boot < boot'
      BY <1>4, <3>1, Zenon DEF IInv, TypeOK, Passed
    <3> QED BY <1>1, <3>1, SMT DEF IInv, TypeOK, Transactions
  <2>4. Passed => Kept'
    <3>1. files = Files => "dropin" \in loaded'
      BY <1>1, SMT DEF Files
    <3> QED BY <1>1, <2>2, <2>3, <3>1, Zenon DEF Kept
  <2>5. Passed' = Passed
    BY <1>1, Zenon DEF Passed
  <2> QED BY <2>1, <2>4, <2>5, Zenon DEF Keeping
<1> QED BY <1>3, <1>5, <1>6, <1>7 DEF SoloInv

\* A journal write, of a script that goes on or of one that then fails.
LEMMA SoloRecord ==
  ASSUME IInv, Solo, SoloInv, NEW p \in Shells, NEW phase \in Phases,
         Runs(p, <<"journal", phase>>), Record([sh[p].tx EXCEPT !.phase = phase]),
         UNCHANGED <<host, receipts, used>>,
         \/ sh' = [sh EXCEPT ![p] = [prog |-> @.prog, at |-> @.at + 1, tx |-> journal']]
         \/ /\ sh[p].prog # "recover"
            /\ sh' = [sh EXCEPT ![p] = [prog |-> "automatic", at |-> 0, tx |-> None]]
  PROVE  SoloInv'
<1>1. /\ Scripted(p) /\ journal # None /\ journal' # None
      /\ journal' = [sh[p].tx EXCEPT !.phase = phase] /\ sh[p].tx \in Transactions
  BY RecordStep, Zenon
<1>2. journal = sh[p].tx
  BY <1>1, Zenon DEF SoloInv, Own
<1>3. /\ journal'.attempt = journal.attempt /\ journal'.boot = journal.boot
      /\ journal'.mode = journal.mode /\ journal'.phase = phase
      /\ journal.attempt \in Attempts
  BY <1>1, <1>2, SMT DEF Transactions
<1>4. UNCHANGED <<files, loaded, enabled, boot, receipts, used>>
  BY Zenon DEF host
<1>5. sh[p].prog # "absent"
  BY <1>1, SMT DEF Scripted, Scripts
<1>6. /\ \A q \in Shells : q # p => sh'[q].prog = "absent"
      /\ \/ sh'[p].prog = sh[p].prog /\ sh'[p].at = sh[p].at + 1 /\ sh'[p].tx = journal'
         \/ sh[p].prog # "recover" /\ sh'[p].prog = "automatic"
  BY <1>5, Lone, SMT DEF IInv, TypeOK
<1>7. \/ phase = "artifacts-installed" /\ (At(p, "offline", 4) \/ At(p, "retrofit", 3))
      \/ phase = "guard-start-intent" /\ (At(p, "offline", 7) \/ At(p, "retrofit", 6))
      \/ phase = "guard-active" /\ (At(p, "offline", 13) \/ At(p, "retrofit", 13))
      \/ phase = "commit-intent" /\ (At(p, "offline", 15) \/ At(p, "close", 2))
      \/ phase = "committed" /\ (At(p, "offline", 17) \/ At(p, "close", 4))
      \/ phase = "dropin-installed" /\ At(p, "retrofit", 17)
      \/ phase = "kubelet-restart-intent" /\ At(p, "retrofit", 18)
      \/ phase = "awaiting-reboot-intent" /\ At(p, "retrofit", 21)
      \/ phase = "awaiting-reboot" /\ At(p, "retrofit", 23)
      \/ phase = "rollback-intent" /\ At(p, "recover", 1)
      \/ phase = "rolled-back" /\ At(p, "recover", 13)
  BY Places, SMT DEF IInv
<1>8. Own'
  BY <1>6, SMT DEF Own, Scripted, Scripts
<1>9. Drawn'
  BY <1>1, <1>3, <1>4, Zenon DEF SoloInv, Drawn
<1>10. Passed => phase = "committed" /\ sh[p].prog # "recover"
  <2>1. ASSUME Passed PROVE phase = "committed"
    <3>1. journal.phase \in {"commit-intent", "committed"} /\ sh[p].prog # "recover"
      BY <1>3, <2>1, Zenon DEF SoloInv, Claimed, Passed
    <3>2. journal.phase # "committed"
      BY <1>1, <1>2, <1>7, SMT DEF IInv, Phased, At
    <3> QED BY <1>1, <1>2, <1>7, <3>1, <3>2, SMT DEF IInv, Phased, At
  <2> QED BY <2>1, Zenon DEF SoloInv, Claimed
<1>11. Passed' = Passed
  BY <1>1, <1>3, <1>4, Zenon DEF Passed
<1>12. Claimed'
  <2>1. ASSUME NEW a \in Attempts, <<a, "pass">> \in receipts
        PROVE  journal'.attempt = a /\ journal'.phase = "committed"
    <3>1. journal.attempt = a
      BY <2>1, Zenon DEF SoloInv, Claimed
    <3> QED BY <1>1, <1>3, <1>10, <2>1, <3>1, Zenon DEF Passed
  <2>2. Passed => \A q \in Shells : sh'[q].prog # "recover"
    BY <1>6, <1>10, SMT
  <2>3. <<journal.attempt, "rollback-verified">> \in receipts => phase \in Rollback
    BY <1>1, <1>2, <1>7, SMT DEF SoloInv, Claimed, Recording, Rollback, At
  <2> QED BY <1>1, <1>3, <1>4, <1>11, <2>1, <2>2, <2>3, Zenon DEF Claimed
<1>13. Recording'
  BY <1>3, <1>6, <1>7, SMT DEF Recording, Rollback, From, At, Scripted, Scripts
<1>14. Laid'
  BY <1>3, <1>4, <1>6, <1>7, SMT DEF SoloInv, Laid, From, At
<1>15. Keeping'
  <2>1. Kept' = Kept
    BY <1>3, <1>4, Zenon DEF Kept
  <2>2. \A q \in Shells : From(q, "offline", 15)' \/ From(q, "close", 2)' =>
            q = p /\ (From(p, "offline", 15) \/ From(p, "close", 2))
    BY <1>6, <1>7, SMT DEF From, At
  <2> QED BY <1>11, <2>1, <2>2, Zenon DEF SoloInv, Keeping
<1> QED BY <1>8, <1>9, <1>12, <1>13, <1>14, <1>15 DEF SoloInv

\* A receipt is published in the phase that announces it.
LEMMA SoloReceipt ==
  ASSUME IInv, Solo, SoloInv, NEW p \in Shells, NEW r \in Results, WriteReceipt(p, r)
  PROVE  SoloInv'
<1>1. /\ Runs(p, <<"receipt", r>>) /\ Advance(p)
      /\ receipts' = receipts \union {<<sh[p].tx.attempt, r>>}
      /\ UNCHANGED <<host, journal, used>>
  BY Zenon DEF WriteReceipt, Publish
<1>2. \/ r = "pass" /\ (At(p, "offline", 16) \/ At(p, "close", 3))
      \/ r = "pending-reboot" /\ At(p, "retrofit", 22)
      \/ r = "rollback-verified" /\ At(p, "recover", 12)
  BY <1>1, Places, SMT DEF IInv
<1>3. Scripted(p) /\ journal = sh[p].tx /\ journal \in Transactions /\ journal # None
  BY <1>1, <1>2, Places, AtWork, SMT DEF IInv, At, Waiting, Resumed
<1>4. /\ sh'[p].prog = sh[p].prog /\ sh'[p].at = sh[p].at + 1 /\ sh'[p].tx = sh[p].tx
      /\ \A q \in Shells : q # p => sh'[q].prog = "absent"
  BY <1>1, <1>3, Lone, SMT DEF IInv, TypeOK, Advance, Scripted, Scripts
<1>5. UNCHANGED <<files, loaded, enabled, boot>>
  BY <1>1, Zenon DEF host
<1>6. Own'
  BY <1>1, <1>3, <1>4, SMT DEF Own, Scripted, Scripts
<1>7. Drawn'
  BY <1>1, <1>3, <1>5, SMT DEF SoloInv, Drawn
<1>8. /\ r = "pass" => journal.phase = "commit-intent" /\ sh[p].prog # "recover"
      /\ r = "rollback-verified" => journal.phase = "rollback-intent"
      /\ sh[p].prog = "recover" => r = "rollback-verified"
  BY <1>2, <1>3, SMT DEF SoloInv, Recording, At, From
<1>9. Claimed'
  <2>1. \A a \in Attempts : <<a, "pass">> \in receipts' =>
           journal.attempt = a /\ journal.phase \in {"commit-intent", "committed"}
    <3>1. ASSUME NEW a \in Attempts, <<a, "pass">> \in receipts', <<a, "pass">> \notin receipts
          PROVE  a = journal.attempt /\ r = "pass"
      BY <1>1, <1>3, <3>1, SMT
    <3> QED BY <1>8, <3>1, Zenon DEF SoloInv, Claimed
  <2>2. Passed' => \A q \in Shells : sh'[q].prog # "recover"
    <3>1. ASSUME Passed' PROVE Passed \/ r = "pass"
      BY <1>1, <3>1, SMT DEF Passed
    <3>2. ASSUME Passed' PROVE sh[p].prog # "recover"
      BY <1>8, <3>1, <3>2, Zenon DEF SoloInv, Claimed
    <3> QED BY <1>4, <3>2, SMT
  <2>3. <<journal.attempt, "rollback-verified">> \in receipts' => journal.phase \in Rollback
    <3>1. <<journal.attempt, "rollback-verified">> \in receipts' =>
             <<journal.attempt, "rollback-verified">> \in receipts \/ r = "rollback-verified"
      BY <1>1, SMT
    <3> QED BY <1>3, <1>8, <3>1, SMT DEF SoloInv, Claimed, Rollback
  <2> QED BY <1>1, <2>1, <2>2, <2>3, Zenon DEF Claimed
<1>10. Recording'
  BY <1>2, <1>4, SMT DEF SoloInv, Recording, From, At, Scripted, Scripts
<1>11. Laid'
  BY <1>1, <1>2, <1>4, <1>5, SMT DEF SoloInv, Laid, From, At
<1>12. Keeping'
  <2>1. Kept' = Kept
    BY <1>1, <1>5, Zenon DEF Kept
  <2>2. \A q \in Shells : From(q, "offline", 15)' \/ From(q, "close", 2)' =>
            q = p /\ (From(p, "offline", 15) \/ From(p, "close", 2))
    BY <1>2, <1>4, SMT DEF From, At
  <2>3. Passed' => Passed \/ From(p, "offline", 15) \/ From(p, "close", 2)
    <3>1. ASSUME Passed' PROVE Passed \/ r = "pass"
      BY <1>1, <3>1, SMT DEF Passed
    <3> QED BY <1>2, <3>1, SMT DEF From, At
  <2> QED BY <2>1, <2>2, <2>3, Zenon DEF SoloInv, Keeping
<1> QED BY <1>6, <1>7, <1>9, <1>10, <1>11, <1>12 DEF SoloInv

\* A transaction begins with an attempt that has no receipt.
LEMMA SoloBegin ==
  ASSUME IInv, Solo, SoloInv, NEW p \in Shells, NEW mode \in Modes, Begin(p, mode)
  PROVE  SoloInv'
<1>1. /\ sh[p] = Idle /\ (journal # None => journal.phase = "rolled-back")
      /\ UNCHANGED <<host, receipts>>
  BY Zenon DEF Begin
<1>2. PICK a \in Attempts \ used :
        LET tx == [mode |-> mode, phase |-> "prepared", attempt |-> a, boot |-> boot,
                   files |-> files, enabled |-> enabled, kubelet |-> kubelet]
        IN  /\ used' = used \union {a}
            /\ Record(tx)
            /\ sh' = [sh EXCEPT ![p] = [prog |-> mode, at |-> 1, tx |-> tx]]
  BY Zenon DEF Begin
<1> DEFINE tx == [mode |-> mode, phase |-> "prepared", attempt |-> a, boot |-> boot,
                  files |-> files, enabled |-> enabled, kubelet |-> kubelet]
<1>3. /\ sh' = [sh EXCEPT ![p] = [prog |-> mode, at |-> 1, tx |-> tx]]
      /\ journal' = tx /\ used' = used \union {a}
  BY <1>2, Zenon DEF Record
<1>4. tx \in Transactions
  BY SMT DEF Transactions, IInv, TypeOK, Phases
<1>5. tx.phase = "prepared" /\ tx.attempt = a /\ tx.boot = boot
  OBVIOUS
<1> HIDE DEF tx
<1>6. sh[p].prog # "absent"
  BY <1>1, SMT DEF Idle
<1>7. /\ sh'[p].prog = mode /\ sh'[p].at = 1 /\ sh'[p].tx = tx
      /\ \A q \in Shells : q # p => sh'[q].prog = "absent"
  BY <1>3, <1>6, Lone, SMT DEF IInv, TypeOK
<1>8. /\ \A c \in Attempts : <<c, "pass">> \notin receipts
      /\ \A r : <<a, r>> \notin receipts
  <2>1. \A c \in Attempts : <<c, "pass">> \notin receipts
    <3>1. CASE journal = None
      BY <3>1, SMT DEF SoloInv, Drawn
    <3>2. CASE journal # None
      <4>1. journal.phase \notin {"commit-intent", "committed"}
        BY <1>1, <3>2
      <4> QED BY <4>1, Zenon DEF SoloInv, Claimed
    <3> QED BY <3>1, <3>2
  <2>2. receipts \subseteq used \X Results
    BY Zenon DEF SoloInv, Drawn
  <2> QED BY <1>2, <2>1, <2>2, SMT
<1>9. Own'
  BY <1>3, <1>7, SMT DEF Own, Scripted, Scripts
<1>10. tx # None
  BY <1>4, NoneAssumption
<1>11. Drawn'
  <2>1. receipts \subseteq used \X Results /\ boot \in Nat
    BY SMT DEF SoloInv, Drawn, IInv, TypeOK
  <2>2. boot' = boot /\ receipts' = receipts
    BY <1>1, Zenon DEF host
  <2>3. boot <= boot /\ receipts \subseteq used' \X Results
    BY <1>3, <2>1, SMT
  <2> QED BY <1>3, <1>5, <1>10, <2>2, <2>3, SMT DEF Drawn
<1>12. ~Passed' /\ \A c \in Attempts : <<c, "pass">> \notin receipts'
  BY <1>1, <1>3, <1>5, <1>8, Zenon DEF Passed
<1>13. Claimed'
  BY <1>1, <1>3, <1>5, <1>8, <1>12, Zenon DEF Claimed
<1>14. Recording'
  BY <1>5, <1>7, SMT DEF Recording, Rollback, From, At, Scripted, Scripts, Modes
<1>15. Laid'
  BY <1>7, SMT DEF Laid, From, Modes
<1>16. Keeping'
  <2>1. \A q \in Shells : ~From(q, "offline", 15)' /\ ~From(q, "close", 2)'
    BY <1>7, SMT DEF From
  <2> QED BY <1>12, <2>1, Zenon DEF Keeping
<1> QED BY <1>9, <1>11, <1>13, <1>14, <1>15, <1>16 DEF SoloInv

\* The closure and the recovery start on the journal as it is.
LEMMA SoloStart ==
  ASSUME IInv, Solo, SoloInv, NEW p \in Shells, ~Scripted(p), sh[p].prog # "absent",
         journal # None, NEW s \in {"close", "recover"},
         sh' = [sh EXCEPT ![p] = [prog |-> s, at |-> 1, tx |-> journal]],
         s = "close" => journal.phase = "awaiting-reboot" /\ boot # journal.boot,
         s = "recover" => ~Passed,
         UNCHANGED <<host, records>>
  PROVE  SoloInv'
<1>1. UNCHANGED <<files, loaded, enabled, boot, journal, receipts, used>>
  BY Zenon DEF host, records
<1>2. /\ sh'[p].prog = s /\ sh'[p].at = 1 /\ sh'[p].tx = journal
      /\ \A q \in Shells : q # p => sh'[q].prog = "absent"
  BY Lone, SMT DEF IInv, TypeOK
<1>3. Own'
  BY <1>1, <1>2, SMT DEF Own, Scripted, Scripts
<1>4. Drawn'
  BY <1>1, Zenon DEF SoloInv, Drawn
<1>5. Claimed'
  <2>1. Passed' = Passed
    BY <1>1, Zenon DEF Passed
  <2>2. Passed => \A q \in Shells : sh'[q].prog # "recover"
    BY <1>2, SMT
  <2> QED BY <1>1, <2>1, <2>2, Zenon DEF SoloInv, Claimed
<1>6. Recording'
  BY <1>2, SMT DEF Recording, Rollback, From, At, Scripted, Scripts
<1>7. Laid'
  BY <1>1, <1>2, SMT DEF Laid, From
<1>8. Keeping'
  <2>1. \A q \in Shells : ~From(q, "offline", 15)' /\ ~From(q, "close", 2)'
    BY <1>2, SMT DEF From
  <2> QED BY <1>1, <2>1, Zenon DEF SoloInv, Keeping, Kept, Passed
<1> QED BY <1>3, <1>4, <1>5, <1>6, <1>7, <1>8 DEF SoloInv

\* A recovery that finds a published result finishes it.
LEMMA SoloFinish ==
  ASSUME IInv, Solo, SoloInv, NEW p \in Shells, sh[p].prog # "absent", journal # None,
         NEW phase \in {"committed", "awaiting-reboot"},
         phase = "committed" => journal.phase = "commit-intent",
         phase = "awaiting-reboot" => journal.phase = "awaiting-reboot-intent",
         Record([journal EXCEPT !.phase = phase]),
         sh' = [sh EXCEPT ![p] = Idle], UNCHANGED <<host, receipts, used>>
  PROVE  SoloInv'
<1>1. /\ journal' # None /\ journal'.phase = phase /\ journal'.attempt = journal.attempt
      /\ journal'.boot = journal.boot /\ journal'.mode = journal.mode
  BY NoneAssumption, SMT DEF IInv, TypeOK, Record, Transactions, Phases
<1>2. UNCHANGED <<files, loaded, enabled, boot, receipts, used>>
  BY Zenon DEF host
<1>3. \A q \in Shells : sh'[q].prog \in {"idle", "absent"}
  BY Lone, SMT DEF IInv, TypeOK, Idle
<1>4. Own' /\ Recording' /\ Laid'
  BY <1>3, SMT DEF Own, Recording, Laid, From, At, Scripted, Scripts
<1>5. Drawn'
  BY <1>1, <1>2, Zenon DEF SoloInv, Drawn
<1>6. Claimed'
  <2>1. \A q \in Shells : sh'[q].prog # "recover"
    BY <1>3, SMT
  <2>2. ASSUME NEW a \in Attempts, <<a, "pass">> \in receipts
        PROVE  journal'.attempt = a /\ phase = "committed"
    BY <1>1, <2>2, SMT DEF SoloInv, Claimed
  <2>3. <<journal.attempt, "rollback-verified">> \notin receipts
    BY SMT DEF SoloInv, Claimed, Rollback
  <2> QED BY <1>1, <1>2, <2>1, <2>2, <2>3, Zenon DEF Claimed
<1>7. Keeping'
  <2>1. \A q \in Shells : ~From(q, "offline", 15)' /\ ~From(q, "close", 2)'
    BY <1>3, SMT DEF From
  <2>2. Passed' = Passed /\ Kept' = Kept
    BY <1>1, <1>2, Zenon DEF Passed, Kept
  <2> QED BY <2>1, <2>2, Zenon DEF SoloInv, Keeping
<1> QED BY <1>4, <1>5, <1>6, <1>7 DEF SoloInv

\* A recovery starts only where no PASS receipt is published.
LEMMA SoloRecover ==
  ASSUME IInv, Solo, SoloInv, NEW p \in Shells, Recover(p)
  PROVE  SoloInv'
<1>1. /\ sh[p].prog \in {"idle", "automatic"} /\ journal # None
      /\ UNCHANGED <<host, receipts, used, mishaps>>
  BY Zenon DEF Recover
<1>2. ~Scripted(p) /\ sh[p].prog # "absent"
  BY <1>1, SMT DEF Scripted, Scripts
<1>3. CASE journal.phase = "commit-intent" /\ Has("pass")
  <2>1. ~Closed /\ journal.phase # "awaiting-reboot-intent"
    BY <1>3 DEF Closed
  <2>2. /\ Record([journal EXCEPT !.phase = "committed"])
        /\ sh' = [sh EXCEPT ![p] = Idle]
    BY <1>3, <2>1, SMT DEF Recover
  <2>3. "committed" = "awaiting-reboot" => journal.phase = "awaiting-reboot-intent"
    OBVIOUS
  <2> QED BY <1>1, <1>2, <1>3, <2>2, <2>3, SoloFinish, Zenon
<1>4. CASE journal.phase = "awaiting-reboot-intent" /\ Has("pending-reboot")
  <2>1. ~Closed /\ journal.phase # "commit-intent"
    BY <1>4 DEF Closed
  <2>2. /\ Record([journal EXCEPT !.phase = "awaiting-reboot"])
        /\ sh' = [sh EXCEPT ![p] = Idle]
    BY <1>4, <2>1, SMT DEF Recover
  <2>3. "awaiting-reboot" = "committed" => journal.phase = "commit-intent"
    OBVIOUS
  <2> QED BY <1>1, <1>2, <1>4, <2>2, <2>3, SoloFinish, Zenon
<1>5. CASE Closed
  <2>1. sh' = [sh EXCEPT ![p] = Idle] /\ UNCHANGED <<lock, journal>>
    BY <1>5, SMT DEF Recover, Closed
  <2>2. UNCHANGED <<files, loaded, enabled, boot, records>>
    BY <1>1, <2>1, Zenon DEF host, records
  <2> QED BY <1>2, <2>1, <2>2, SoloLeave, Zenon DEF Idle
<1>6. CASE /\ ~(journal.phase = "commit-intent" /\ Has("pass"))
           /\ ~(journal.phase = "awaiting-reboot-intent" /\ Has("pending-reboot"))
           /\ ~Closed
  <2>1. /\ sh' = [sh EXCEPT ![p] = [prog |-> "recover", at |-> 1, tx |-> journal]]
        /\ UNCHANGED journal
    BY <1>6, SMT DEF Recover
  <2>2. ~Passed
    <3>1. journal.attempt \in Attempts
      BY <1>1, SMT DEF IInv, TypeOK, Transactions
    <3> QED BY <1>6, <3>1, SMT DEF SoloInv, Claimed, Passed, Has, Closed
  <2>3. UNCHANGED <<host, records>>
    BY <1>1, <2>1, Zenon DEF records
  <2>4. "recover" = "close" => journal.phase = "awaiting-reboot" /\ boot # journal.boot
    OBVIOUS
  <2> QED BY <1>1, <1>2, <2>1, <2>2, <2>3, <2>4, SoloStart, Zenon
<1> QED BY <1>3, <1>4, <1>5, <1>6

\* The instructions, one by one.
LEMMA SoloScript ==
  ASSUME IInv, Solo, SoloInv, NEW p \in Shells, Script(p)
  PROVE  SoloInv'
<1>1. ASSUME NEW phase \in Phases, WriteJournal(p, phase) PROVE SoloInv'
  BY <1>1, SoloRecord, Zenon DEF WriteJournal
<1>2. ASSUME NEW r \in Results, WriteReceipt(p, r) PROVE SoloInv'
  BY <1>2, SoloReceipt
<1>3. ASSUME NEW f \in Files, InstallFile(p, f) PROVE SoloInv'
  <2>1. /\ Runs(p, <<"install", f>>) /\ Advance(p) /\ files' = files \union {f}
        /\ UNCHANGED <<boot, records, loaded, enabled, journal>>
    BY <1>3, Zenon DEF InstallFile, records
  <2>2. files \subseteq files' /\ f \in files' /\ (Kept => Kept')
    BY <2>1, SMT DEF Kept
  <2>3. ~At(p, "offline", 14) /\ ~At(p, "close", 1)
    BY <2>1, Places, SMT DEF IInv, At
  <2> QED BY <2>1, <2>2, <2>3, SoloAdvance, Zenon
<1>4. ASSUME NEW f \in Files, RemoveFile(p, f) PROVE SoloInv'
  <2>1. Runs(p, <<"remove", f>>) /\ Advance(p) /\ UNCHANGED <<boot, records>>
    BY <1>4, Zenon DEF RemoveFile, records
  <2>2. sh[p].prog = "recover" /\ ~At(p, "offline", 14) /\ ~At(p, "close", 1)
    BY <2>1, Places, SMT DEF IInv, At
  <2> QED BY <2>1, <2>2, SoloAdvance, Zenon
<1>5. CASE Reload(p)
  <2>1. /\ Runs(p, <<"reload", "units">>) /\ Advance(p) /\ loaded' = files \ {"support"}
        /\ UNCHANGED <<boot, records, files, enabled, journal>>
    BY <1>5, Zenon DEF Reload, records
  <2>2. Kept => Kept'
    BY <2>1, SMT DEF Kept, Files
  <2>3. ~At(p, "offline", 14) /\ ~At(p, "close", 1)
    BY <2>1, Places, SMT DEF IInv, At
  <2> QED BY <2>1, <2>2, <2>3, SoloAdvance, Zenon
<1>6. CASE Enable(p)
  <2>1. /\ Runs(p, <<"enable", "guard">>) /\ Advance(p) /\ enabled' = TRUE
        /\ UNCHANGED <<boot, records, files, loaded, journal>>
    BY <1>6, Zenon DEF Enable, records
  <2>2. Kept => Kept'
    BY <2>1, Zenon DEF Kept
  <2>3. ~At(p, "offline", 14) /\ ~At(p, "close", 1)
    BY <2>1, Places, SMT DEF IInv, At
  <2> QED BY <2>1, <2>2, <2>3, SoloAdvance, Zenon
<1>7. CASE Disable(p)
  <2>1. Runs(p, <<"disable", "guard">>)
    BY <1>7, Zenon DEF Disable
  <2>3. CASE Abort(p)
    <3>1. enabled' = enabled
      BY <1>7, <2>1, <2>3, Places, SMT DEF Disable, Check, Abort, Leave, Idle, Advance, At,
         IInv, TypeOK
    <3>2. UNCHANGED <<files, loaded, enabled, boot>>
      BY <1>7, <3>1, Zenon DEF Disable
    <3> QED BY <2>1, <2>3, <3>2, Places, SoloAbort, Zenon DEF IInv
  <2>4. CASE ~Abort(p)
    <3>1. Advance(p) /\ UNCHANGED <<boot, records>>
      BY <1>7, <2>4, Zenon DEF Disable, Check, records
    <3>2. sh[p].prog = "recover" /\ ~At(p, "offline", 14) /\ ~At(p, "close", 1)
      BY <2>1, Places, SMT DEF IInv, At
    <3> QED BY <2>1, <3>1, <3>2, SoloAdvance, Zenon
  <2> QED BY <2>3, <2>4
<1>8. CASE DeleteTable(p)
  <2>1. Runs(p, <<"delete", "table">>) /\ Advance(p) /\ UNCHANGED <<boot, records>>
    BY <1>8, Zenon DEF DeleteTable, records
  <2>2. sh[p].prog = "recover" /\ ~At(p, "offline", 14) /\ ~At(p, "close", 1)
    BY <2>1, Places, SMT DEF IInv, At
  <2> QED BY <2>1, <2>2, SoloAdvance, Zenon
<1>9. CASE ReleaseLock(p) \/ Relock(p)
  <2>1. PICK x \in {"release", "retake"} : Runs(p, <<x, "lock">>)
    BY <1>9, Zenon DEF ReleaseLock, Relock
  <2>2. Advance(p) /\ UNCHANGED <<boot, records, files, loaded, enabled, journal>>
    BY <1>9, Zenon DEF ReleaseLock, Relock, host, records
  <2>3. Kept => Kept'
    BY <2>2, Zenon DEF Kept
  <2>4. ~At(p, "offline", 14) /\ ~At(p, "close", 1)
    BY <2>1, Places, SMT DEF IInv, At
  <2> QED BY <2>1, <2>2, <2>3, <2>4, SoloAdvance, SMT
<1>10. CASE StartGuard(p) \/ AwaitGuard(p) \/ RestartKubelet(p) \/ VerifyHost(p)
  <2>0. PICK x \in {"start", "await", "restart", "verify"} : \E y : Runs(p, <<x, y>>)
    BY <1>10, Zenon DEF StartGuard, AwaitGuard, RestartKubelet, VerifyHost
  <2>1. PICK y : Runs(p, <<x, y>>)
    BY <2>0
  <2>2. UNCHANGED <<boot, files, loaded, enabled>>
    BY <1>10, Zenon DEF StartGuard, AwaitGuard, RestartKubelet, VerifyHost, host
  <2>3. CASE Abort(p)
    BY <2>1, <2>2, <2>3, Places, SoloAbort, Zenon DEF IInv
  <2>4. CASE ~Abort(p)
    <3>1. Advance(p) /\ UNCHANGED records
      BY <1>10, <2>4, Zenon DEF StartGuard, AwaitGuard, RestartKubelet, VerifyHost, Check,
         records
    <3>2. Kept => Kept'
      BY <2>2, <3>1, Zenon DEF Kept, records
    <3>3. At(p, "offline", 14) \/ At(p, "close", 1) => Kept'
      <4>1. ASSUME At(p, "offline", 14) \/ At(p, "close", 1)
            PROVE  VerifyHost(p)
        BY <1>10, <4>1, Places, SMT DEF StartGuard, AwaitGuard, RestartKubelet, IInv, At
      <4>2. CASE At(p, "offline", 14)
        <5>1. Runs(p, <<"verify", "all">>) /\ Check(p, Verified)
          BY <4>1, <4>2, Places, SMT DEF VerifyHost, IInv, At
        <5>2. enabled /\ "dropin" \in loaded
          BY <2>4, <5>1, Zenon DEF Check, Verified, GuardVerified
        <5>3. files = Files
          <6>1. From(p, "offline", 2) /\ From(p, "offline", 3) /\ From(p, "offline", 4)
            BY <4>2, SMT DEF From, At
          <6>2. "support" \in files /\ "unit" \in files /\ "dropin" \in files
            BY <6>1, Zenon DEF SoloInv, Laid
          <6>3. files \subseteq Files
            BY Zenon DEF IInv, TypeOK
          <6>4. \A f \in Files : f \in files
            BY <6>2, SMT DEF Files
          <6> QED BY <6>3, <6>4, Zenon
        <5>4. journal.mode # "retrofit"
          <6>1. journal = sh[p].tx /\ sh[p].tx.mode = "offline"
            BY <4>2, SMT DEF SoloInv, Own, IInv, Placed, At, Scripted, Scripts
          <6> QED BY <6>1
        <5>5. Kept
          BY <5>2, <5>3, <5>4, Zenon DEF Kept
        <5> QED BY <3>2, <5>5
      <4>3. CASE At(p, "close", 1)
        <5>1. Runs(p, <<"verify", "closure">>) /\ Check(p, kubelet /\ Verified /\ files = Files)
          BY <4>1, <4>3, Places, SMT DEF VerifyHost, IInv, At
        <5>2. enabled /\ "dropin" \in loaded /\ files = Files
          BY <2>4, <5>1, Zenon DEF Check, Verified, GuardVerified
        <5>3. boot # journal.boot
          BY <4>3, SMT DEF SoloInv, Laid, At, From
        <5> QED BY <3>2, <5>2, <5>3, Zenon DEF Kept
      <4> QED BY <4>2, <4>3
    <3>4. files \subseteq files' /\ UNCHANGED <<boot, records>>
      BY <2>2, <3>1
    <3>5. x \notin {"journal", "receipt", "end"} /\ x # "install"
      BY <2>1
    <3> QED BY <2>1, <3>1, <3>2, <3>3, <3>4, <3>5, SoloAdvance, Zenon
  <2> QED BY <2>3, <2>4
<1>11. CASE RestoreKubelet(p) \/ StopGuard(p) \/ VerifyPrestate(p)
  <2>0. PICK x \in {"restore", "stop", "verify"} :
          \E y : Runs(p, <<x, y>>) /\ (x = "verify" => y = "prestate")
    <3>1. \/ Runs(p, <<"restore", "kubelet">>) \/ Runs(p, <<"stop", "guard">>)
          \/ Runs(p, <<"verify", "prestate">>)
      BY <1>11, Zenon DEF RestoreKubelet, StopGuard, VerifyPrestate
    <3> QED BY <3>1, Zenon
  <2>1. PICK y : Runs(p, <<x, y>>) /\ (x = "verify" => y = "prestate")
    BY <2>0
  <2>2. UNCHANGED <<boot, files, loaded, enabled>>
    BY <1>11, Zenon DEF RestoreKubelet, StopGuard, VerifyPrestate, host
  <2>3. CASE Abort(p)
    BY <2>1, <2>2, <2>3, Places, SoloAbort, Zenon DEF IInv
  <2>4. CASE ~Abort(p)
    <3>1. Advance(p) /\ UNCHANGED records
      BY <1>11, <2>4, Zenon DEF RestoreKubelet, StopGuard, VerifyPrestate, Check, records
    <3>2. sh[p].prog = "recover" /\ ~At(p, "offline", 14) /\ ~At(p, "close", 1)
      BY <2>1, Places, SMT DEF IInv, At
    <3>3. x \notin {"journal", "receipt", "end"} /\ x # "install" /\ UNCHANGED <<boot, records>>
      BY <2>1, <2>2, <3>1
    <3> QED BY <2>1, <3>1, <3>2, <3>3, SoloAdvance, Zenon
  <2> QED BY <2>3, <2>4
<1>12. CASE Done(p) \/ RecoverRefused(p)
  <2>1. sh[p].prog # "absent"
    <3>1. Done(p) => Scripted(p)
      BY Places, Zenon DEF Done, IInv
    <3>2. RecoverRefused(p) => sh[p].prog = "automatic"
      BY Zenon DEF RecoverRefused
    <3> QED BY <1>12, <3>1, <3>2, SMT DEF Scripted, Scripts
  <2>2. sh' = [sh EXCEPT ![p] = Idle] /\ UNCHANGED <<files, loaded, enabled, boot, records>>
    BY <1>12, Zenon DEF Done, RecoverRefused, Leave, host
  <2> QED BY <2>1, <2>2, SoloLeave, Zenon DEF Idle
<1>13. CASE sh[p].prog = "automatic" /\ Recover(p)
  BY <1>13, SoloRecover
<1> QED BY <1>1, <1>2, <1>3, <1>4, <1>5, <1>6, <1>7, <1>8, <1>9, <1>10, <1>11, <1>12,
    <1>13, Zenon DEF Script

\* Every step preserves what one shell knows.
LEMMA SoloNext == ASSUME IInv, Solo, SoloInv, [Next]_vars PROVE SoloInv'
<1>1. ASSUME NEW p \in Shells, NEW mode \in Modes, Begin(p, mode) PROVE SoloInv'
  BY <1>1, SoloBegin
<1>2. ASSUME NEW p \in Shells, Close(p) PROVE SoloInv'
  <2>1. /\ sh[p] = Idle /\ journal # None /\ journal.phase = "awaiting-reboot"
        /\ boot # journal.boot /\ UNCHANGED <<host, records>>
        /\ sh' = [sh EXCEPT ![p] = [prog |-> "close", at |-> 1, tx |-> journal]]
    BY <1>2, Zenon DEF Close
  <2>2. ~Scripted(p) /\ sh[p].prog # "absent"
    BY <2>1, SMT DEF Idle, Scripted, Scripts
  <2>3. "close" = "recover" => ~Passed
    OBVIOUS
  <2> QED BY <2>1, <2>2, <2>3, SoloStart, Zenon
<1>3. ASSUME NEW p \in Shells, Recover(p) PROVE SoloInv'
  BY <1>3, SoloRecover
<1>4. ASSUME NEW p \in Shells, Script(p) PROVE SoloInv'
  BY <1>4, SoloScript
<1>5. ASSUME NEW p \in Shells, RelockTimesOut(p) PROVE SoloInv'
  <2>1. Scripted(p) /\ Abort(p) /\ UNCHANGED <<files, loaded, enabled, boot>>
    BY <1>5, Places, Zenon DEF RelockTimesOut, IInv, host
  <2> QED BY <2>1, SoloAbort
<1>6. ASSUME NEW p \in Shells, Fail(p) PROVE SoloInv'
  <2>1. Scripted(p) /\ UNCHANGED host /\ UNCHANGED <<files, loaded, enabled, boot>>
    BY <1>6, ProgramNames, Zenon DEF Fail, Scripted, host
  <2>2. CASE Abort(p)
    BY <2>1, <2>2, SoloAbort
  <2>3. CASE ~Abort(p)
    <3>1. PICK phase \in Phases :
            /\ Runs(p, <<"journal", phase>>) /\ sh[p].prog # "recover"
            /\ Record([sh[p].tx EXCEPT !.phase = phase])
            /\ sh' = [sh EXCEPT ![p] = [prog |-> "automatic", at |-> 0, tx |-> None]]
            /\ UNCHANGED <<receipts, used>>
      BY <1>6, <2>3, Zenon DEF Fail
    <3> QED BY <2>1, <3>1, SoloRecord, Zenon
  <2> QED BY <2>2, <2>3
<1>7. ASSUME NEW p \in Shells, Kill(p) PROVE SoloInv'
  <2>1. /\ sh[p] # Absent /\ sh' = [sh EXCEPT ![p] = Idle]
        /\ UNCHANGED <<files, loaded, enabled, boot, records>>
    BY <1>7, Zenon DEF Kill, Leave, host
  <2>2. sh[p].prog # "absent"
    <3>1. sh[p].prog = "absent" => sh[p].at = 0 /\ sh[p].tx = None
      BY SMT DEF IInv, Placed, Scripted, Scripts
    <3> QED BY <2>1, <3>1, SMT DEF IInv, TypeOK, Absent
  <2> QED BY <2>1, <2>2, SoloLeave, Zenon DEF Idle
<1>8. CASE Load \/ LoadFails \/ StartKubelet
  BY <1>8, SoloOutside, Zenon DEF Load, LoadFails, StartKubelet
<1>9. CASE Reboot
  BY <1>9, SoloReboot
<1>10. CASE UNCHANGED vars
  BY <1>10, SoloOutside, Zenon DEF vars, host
<1> QED BY <1>1, <1>2, <1>3, <1>4, <1>5, <1>6, <1>7, <1>8, <1>9, <1>10, Zenon DEF Next

SoloNow == Solo => SoloInv

\* The first state satisfies it.
LEMMA InitSolo == Init => SoloInv
<1> SUFFICES ASSUME Init PROVE SoloInv
  OBVIOUS
<1>1. \A p \in Shells : sh[p].prog \in {"idle", "absent"}
  BY SMT DEF Init, Idle, Absent
<1>2. journal = None /\ receipts = {} /\ used = {}
  BY Zenon DEF Init
<1>3. Own /\ Recording /\ Laid
  BY <1>1, SMT DEF Own, Recording, Laid, From, At, Scripted, Scripts
<1>4. Drawn /\ Claimed /\ Keeping
  BY <1>1, <1>2, SMT DEF Drawn, Claimed, Keeping, Passed, From
<1> QED BY <1>3, <1>4 DEF SoloInv

\* And so does what one shell knows.
THEOREM SoloInvariant == Spec => [](IInv /\ SoloNow)
<1>1. Init => IInv /\ SoloNow
  BY InitIInv, InitSolo DEF SoloNow
<1>2. IInv /\ SoloNow /\ [Next]_vars => IInv' /\ SoloNow'
  BY NextIInv, SoloNext, SoloBefore, Zenon DEF SoloNow
<1> QED BY <1>1, <1>2, PTL DEF Spec

\* "Never roll back beneath a durable PASS claim", and a PASS receipt names a
\* guard that a reboot keeps, when one shell is used.
THEOREM PassHolds == Spec => []PassIsBinding
<1>1. IInv /\ SoloNow => PassIsBinding
  <2> SUFFICES ASSUME IInv, SoloNow, Alone PROVE NoPassBeneathRollback /\ PassIsPersistent
    BY DEF PassIsBinding
  <2>1. SoloInv
    BY AloneSolo DEF SoloNow
  <2>2. NoPassBeneathRollback
    <3> SUFFICES ASSUME NEW a \in Attempts, <<a, "pass">> \in receipts,
                        <<a, "rollback-verified">> \in receipts
                 PROVE  FALSE
      BY Zenon DEF NoPassBeneathRollback
    <3>1. used # {} /\ journal # None
      BY <2>1, SMT DEF SoloInv, Drawn
    <3>2. journal.attempt = a /\ journal.phase \in {"commit-intent", "committed"}
      BY <2>1, Zenon DEF SoloInv, Claimed
    <3>3. journal.phase \in Rollback
      BY <2>1, <3>1, <3>2, Zenon DEF SoloInv, Claimed
    <3> QED BY <3>2, <3>3, SMT DEF Rollback
  <2>3. PassIsPersistent
    BY <2>1, Zenon DEF SoloInv, Keeping, Kept, Passed, PassIsPersistent
  <2> QED BY <2>2, <2>3
<1> QED BY <1>1, SoloInvariant, PTL

\* A closed transaction: only a next one, with an attempt of its own, replaces it.
LEMMA ClosedStep ==
  ASSUME IInv, Solo, SoloInv, [Next]_vars, journal # None,
         journal.phase \in {"committed", "rolled-back"}, journal'.attempt = journal.attempt
  PROVE  journal' = journal
<1>1. ASSUME NEW p \in Shells, Scripted(p)
      PROVE  \/ At(p, "offline", 18) \/ At(p, "close", 5)
             \/ At(p, "recover", 14) /\ Runs(p, <<"end", "script">>)
  <2>1. journal = sh[p].tx
    BY <1>1, Zenon DEF SoloInv, Own
  <2>2. At(p, "offline", 18) \/ At(p, "close", 5) \/ At(p, "recover", 14)
    BY <1>1, <2>1, SMT DEF IInv, Phased
  <2>3. At(p, "recover", 14) => Runs(p, <<"end", "script">>)
    BY ProgramNames, SMT DEF At, Runs, Program, Scripts
  <2> QED BY <2>2, <2>3
<1>2. ASSUME NEW p \in Shells, NEW x, NEW y, Runs(p, <<x, y>>)
      PROVE  x = "end"
  <2>1. Scripted(p)
    BY <1>2, Places DEF IInv
  <2> QED BY <1>1, <1>2, <2>1, Places, SMT DEF IInv, At
<1>3. ASSUME NEW p \in Shells, Abort(p), ~Runs(p, <<"end", "script">>)
      PROVE  journal' = journal
  <2>1. CASE sh[p].prog = "recover"
    <3>1. Scripted(p)
      BY <2>1, SMT DEF Scripted, Scripts
    <3> QED BY <1>1, <1>3, <2>1, <3>1, SMT DEF At
  <2>2. CASE sh[p].prog # "recover"
    BY <1>3, <2>2, Zenon DEF Abort, records
  <2> QED BY <2>1, <2>2
<1>4. ASSUME NEW p \in Shells, NEW mode \in Modes, Begin(p, mode) PROVE FALSE
  <2>1. PICK a \in Attempts \ used : journal'.attempt = a
    BY <1>4, SMT DEF Begin, Record
  <2> QED BY <2>1, Zenon DEF SoloInv, Drawn
<1>5. ASSUME NEW p \in Shells, Recover(p) PROVE journal' = journal
  BY <1>5, SMT DEF Recover, Closed
<1>6. ASSUME NEW p \in Shells, Script(p) PROVE journal' = journal
  <2>1. \/ \E x, y : x # "end" /\ Runs(p, <<x, y>>)
        \/ Done(p) \/ RecoverRefused(p) \/ Recover(p)
    BY <1>6, Zenon DEF Script, WriteJournal, WriteReceipt, InstallFile, RemoveFile,
       Reload, Enable, Disable, StartGuard, ReleaseLock, AwaitGuard, Relock, VerifyHost,
       RestartKubelet, RestoreKubelet, StopGuard, DeleteTable, VerifyPrestate
  <2>2. Done(p) \/ RecoverRefused(p) => journal' = journal
    BY Zenon DEF Done, RecoverRefused, records
  <2> QED BY <1>2, <1>5, <2>1, <2>2
<1>7. ASSUME NEW p \in Shells, RelockTimesOut(p) PROVE journal' = journal
  BY <1>2, <1>7, Zenon DEF RelockTimesOut
<1>8. ASSUME NEW p \in Shells, Fail(p) PROVE journal' = journal
  <2>1. CASE Abort(p)
    BY <1>3, <1>8, <2>1, Zenon DEF Fail
  <2>2. CASE ~Abort(p)
    BY <1>2, <1>8, <2>2, Zenon DEF Fail
  <2> QED BY <2>1, <2>2
<1>9. ASSUME NEW p \in Shells, Close(p) \/ Kill(p) PROVE journal' = journal
  BY <1>9, Zenon DEF Close, Kill, records
<1>10. CASE Load \/ LoadFails \/ StartKubelet \/ Reboot
  BY <1>10, Zenon DEF Load, LoadFails, StartKubelet, Reboot, records
<1>11. CASE UNCHANGED vars
  BY <1>11, Zenon DEF vars, records
<1> QED BY <1>4, <1>5, <1>6, <1>7, <1>8, <1>9, <1>10, <1>11, Zenon DEF Next

\* A committed or rolled-back transaction is never opened again, when one shell
\* is used.
THEOREM ClosedHolds == Spec => ClosedIsFinal
<1>1. IInv /\ SoloNow /\ [Next]_vars =>
        [Alone /\ journal # None /\ journal.phase \in {"committed", "rolled-back"}
           /\ journal'.attempt = journal.attempt
         => journal' = journal]_vars
  BY AloneSolo, ClosedStep, Zenon DEF SoloNow
<1> QED BY <1>1, SoloInvariant, PTL DEF Spec, ClosedIsFinal
=================================================================================
