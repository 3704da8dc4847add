--------------------------- MODULE GuardLoaderProofs ---------------------------
(***************************************************************************)
(* Proofs about GuardLoader, for any number of attempts and any number of   *)
(* failures, kills, reboots, recoveries and changes by other programs.      *)
(*                                                                         *)
(* The argument: the global lock keeps the loader and the recovery apart    *)
(* (Locking), so the attempt a loader works on is the journal's (Current);  *)
(* a PASS receipt becomes visible only under a commit intent and is then    *)
(* what every path reconciles (PassPath); the receipts are written before   *)
(* the journal phase that names them (ReceiptFirst); and the table is      *)
(* live only between an apply intent and a proven absence (TablePath).      *)
(***************************************************************************)
EXTENDS GuardLoader, TLAPS

\* The lock is held by the loader past its first step (unless it failed there),
\* or by the recovery, and the unit is starting exactly while the loader runs.
Running == lock = "loader"
Locking ==
  /\ Running => pc \notin {"off", "lock"}
  /\ pc \notin {"off", "lock", "exit"} => Running
  /\ lock = "recovery" <=> rpc # "idle"
  /\ unit = "activating" <=> pc # "off"

\* A running loader works on the attempt of the journal, and before the first
\* journal on none; attempts not drawn yet have no receipts.
Current ==
  /\ Running /\ journal # None => attempt = journal.attempt
  /\ Running /\ journal = None =>
       attempt = None /\ phase = "none" /\ created = "no"
       /\ pc \in {"capture", "prepare", "exit"}
  /\ ~Running => attempt = None /\ phase = "none" /\ created = "no"
  /\ pc = "resume" => phase = "none" /\ created = "no"
  /\ journal # None => journal.attempt \in used
  /\ \A a \in Attempts \ used : \A r \in Results : Receipt(a, r) = "absent"

\* Where a PASS receipt may be visible, and what then may still happen.
PassPath ==
  /\ \A a \in Attempts : ~(Visible(a, "pass") /\ Visible(a, "rollback-verified"))
  /\ journal # None /\ Visible(journal.attempt, "pass") =>
       journal.phase \in {"commit-intent", "committed"}
  /\ Running /\ journal # None /\ Visible(attempt, "pass") =>
       /\ pc \in {"resume", "publish", "close", "capture", "prepare", "exit"}
       /\ pc \in {"publish", "close"} => result = "pass"
       /\ phase \in {"none", "committed", "commit-intent"}
       /\ phase = "commit-intent" \/ created = "no"
  /\ pc \in {"intent", "apply", "applied", "verify", "commit"} =>
       \A r \in Results : Receipt(attempt, r) = "absent"
  /\ pc \in {"publish", "close"} /\ result = "pass" =>
       /\ journal.phase \in {"commit-intent", "committed"}
       /\ ~Visible(attempt, "rollback-verified")
       /\ phase = "commit-intent" \/ (phase = "none" /\ created = "no")
  /\ rpc \in {"publish pass", "record pass"} =>
       journal # None /\ journal.phase = "commit-intent" /\ Visible(journal.attempt, "pass")
  /\ rpc \in {"publish rollback", "record rollback"} =>
       /\ journal # None /\ journal.phase \in OpenPhases
       /\ ~Visible(journal.attempt, "pass")

\* A result is recorded only after its receipt is published.
ReceiptFirst ==
  /\ journal # None /\ journal.phase \in ClosedPhases =>
       Receipt(journal.attempt, ResultOf(journal.phase)) = "published"
  /\ pc = "close" => Receipt(attempt, result) = "published"
  /\ rpc = "record pass" => Receipt(journal.attempt, "pass") = "published"
  /\ rpc = "record rollback" => Receipt(journal.attempt, "rollback-verified") = "published"

\* The table at each step.
IsLoaded == table = "live" \/ (Foreign /\ table = "foreign")
TablePath ==
  /\ table = "live" => journal # None /\ journal.phase \notin {"prepared", "rolled-back"}
  /\ unit = "active" => IsLoaded
  /\ pc \in {"prepare", "intent"} => table # "live"
  /\ pc = "intent" => journal.phase = "prepared"
  /\ pc \in {"apply", "applied"} => journal.phase = "apply-intent"
  /\ phase = "commit-intent" => pc \in {"publish", "close", "exit", "rollback"}
  /\ pc = "commit" \/ phase = "commit-intent" => IsLoaded
  /\ pc \in {"publish", "close"} /\ result = "pass" /\ context # "resume" => phase = "commit-intent"
  /\ pc \in {"publish", "close"} /\ result = "rollback-verified" => table # "live"
  /\ pc \in {"off", "lock", "resume", "capture", "prepare"} => context = "resume"
  /\ rpc = "table" => unit # "active"
  /\ rpc \in {"close", "publish rollback", "record rollback"} => table # "live" /\ unit # "active"

\* A closed attempt is only ever closed again the same way.
FinalPath ==
  /\ pc \in {"verify", "commit"} => journal.phase = "applied"
  /\ pc = "rollback" => journal.phase \notin {"committed", "rolled-back"}
  /\ pc = "delete" => journal.phase = "rollback-intent" /\ rolling = "yes"
  /\ pc \in {"publish", "close"} /\ result # "pass" =>
       \/ rolling = "yes"
       \/ result = "rollback-verified" /\ phase = "none" /\ created = "no"
  /\ pc \in {"publish", "close"} /\ result = "recovery-required" => journal.phase # "rolled-back"
  /\ pc \in {"capture", "prepare"} => phase \notin OpenPhases /\ created = "no"
  /\ pc = "exit" /\ journal # None /\ journal.phase = "rolled-back" =>
       rolling = "yes" \/ (phase \notin OpenPhases /\ created = "no")

IInv == TypeOK /\ Locking /\ Current /\ PassPath /\ ReceiptFirst /\ TablePath /\ FinalPath

--------------------------------------------------------------------------------
\* The steps of a loader that works on the journal's attempt.
AtWork == {"resume", "intent", "apply", "applied", "verify", "commit", "publish",
           "close", "rollback", "delete"}

LEMMA AttemptIsJournals ==
  ASSUME TypeOK, Locking, Current, pc \in AtWork
  PROVE  Running /\ journal # None /\ journal \in Journals /\ attempt = journal.attempt
         /\ attempt \in Attempts
BY DEF TypeOK, Locking, Current, AtWork, Journals

\* What a journal write leaves in the journal.
LEMMA RecordJournal ==
  ASSUME NEW p \in Phases, NEW a \in Attempts, Record(p, a)
  PROVE  journal' \in Journals /\ journal' # None /\ journal'.phase = p /\ journal'.attempt = a
<1>1. journal' \in Journals /\ journal'.phase = p /\ journal'.attempt = a
  BY DEF Record, Journals
<1>2. QED
  BY <1>1, NoneAssumption

\* One step of ig_immutable_document moves one receipt forward.
LEMMA AdvanceReceipts ==
  ASSUME TypeOK, NEW a \in Attempts, NEW r \in Results, Advance(a, r)
  PROVE  /\ receipts' \in [Attempts \X Results -> DocStates]
         /\ \A b \in Attempts, q \in Results : <<b, q>> # <<a, r>> =>
              Receipt(b, q)' = Receipt(b, q) /\ (Visible(b, q)' <=> Visible(b, q))
         /\ Receipt(a, r) = "published" => Receipt(a, r)' = "published"
         /\ Visible(a, r) => Visible(a, r)'
BY DEF TypeOK, Advance, NextDoc, Receipt, Visible, DocStates

\* Discarding an unpublished temporary hides nothing.
LEMMA DiscardReceipts ==
  ASSUME TypeOK, NEW a \in Attempts, DiscardPassTemp(a)
  PROVE  /\ receipts' \in [Attempts \X Results -> DocStates]
         /\ \A b \in Attempts, q \in Results :
              /\ Receipt(b, q) \in {"absent", "published"} => Receipt(b, q)' = Receipt(b, q)
              /\ Visible(b, q)' <=> Visible(b, q)
<1>1. "pass" \in Results
  BY DEF Results
<1>2. QED
  BY <1>1 DEF TypeOK, DiscardPassTemp, Receipt, Visible, DocStates

\* A reboot may take back a receipt that is not published, and adds none.
LEMMA RebootReceipts ==
  ASSUME TypeOK, Reboot
  PROVE  /\ receipts' \in [Attempts \X Results -> DocStates]
         /\ \A b \in Attempts, q \in Results :
              /\ Receipt(b, q) = "published" => Receipt(b, q)' = "published"
              /\ Receipt(b, q) = "absent" => Receipt(b, q)' = "absent"
              /\ Visible(b, q)' => Visible(b, q)
<1>1. PICK found \in [Unsettled -> DocStates] :
        /\ \A d \in Unsettled : found[d] \in Surviving(receipts[d])
        /\ receipts' = [d \in Attempts \X Results |->
                          IF d \in Unsettled THEN found[d] ELSE receipts[d]]
  BY DEF Reboot
<1>2. receipts' \in [Attempts \X Results -> DocStates]
  BY <1>1 DEF TypeOK
<1>3. ASSUME NEW b \in Attempts, NEW q \in Results
      PROVE  /\ Receipt(b, q) = "published" => Receipt(b, q)' = "published"
             /\ Receipt(b, q) = "absent" => Receipt(b, q)' = "absent"
             /\ Visible(b, q)' => Visible(b, q)
  <2>1. CASE <<b, q>> \in Unsettled
    BY <1>1, <2>1 DEF Unsettled, Surviving, Receipt, Visible
  <2>2. CASE <<b, q>> \notin Unsettled
    BY <1>1, <2>2 DEF Receipt, Visible
  <2>3. QED
    BY <2>1, <2>2
<1>4. QED
  BY <1>2, <1>3

--------------------------------------------------------------------------------
\* The first state satisfies the inductive invariant.
LEMMA InitInv == Init => IInv
<1> SUFFICES ASSUME Init PROVE IInv
  OBVIOUS
<1> USE AttemptAssumption, MishapAssumption, NoneAssumption DEF Init
<1>1. TypeOK
  <2>1. receipts \in [Attempts \X Results -> DocStates]
    BY DEF DocStates
  <2>2. pc \in LoaderSteps /\ rpc \in RecoverySteps /\ result \in Results
        /\ mishaps \in 0..MaxMishaps
    BY DEF LoaderSteps, RecoverySteps, Results
  <2>3. QED
    BY <2>1, <2>2 DEF TypeOK
<1>2. Locking /\ Current
  BY DEF Locking, Running, Current, Receipt
<1>3. PassPath /\ ReceiptFirst /\ TablePath /\ FinalPath
  BY DEF PassPath, ReceiptFirst, TablePath, FinalPath, Visible, Receipt, Results
<1>4. QED
  BY <1>1, <1>2, <1>3 DEF IInv

\* Every step preserves it.
LEMMA StepInv == IInv /\ [Next]_vars => IInv'
<1> SUFFICES ASSUME IInv, [Next]_vars
             PROVE  IInv'
  OBVIOUS
<1> USE AttemptAssumption, MishapAssumption, NoneAssumption DEF IInv, Running, disk, shell
<1>1. CASE Start
  <2>1. TypeOK'
    BY <1>1 DEF TypeOK, LoaderSteps, Start
  <2>2. Locking'
    BY <1>1 DEF TypeOK, Locking, LoaderSteps, RecoverySteps, Start
  <2>3. Current'
    BY <1>1 DEF TypeOK, Locking, Current, Receipt, Results, Journals, Start
  <2>4. PassPath'
    BY <1>1 DEF TypeOK, Locking, Current, PassPath, Visible, Receipt, Results, OpenPhases,
           Journals, Start
  <2>5. ReceiptFirst'
    BY <1>1 DEF TypeOK, Locking, Current, PassPath, ReceiptFirst, Visible, Receipt, Results,
           ResultOf, ClosedPhases, OpenPhases, Journals, Start
  <2>6. TablePath'
    BY <1>1 DEF TypeOK, Locking, Current, PassPath, TablePath, IsLoaded, Visible, Receipt,
           OpenPhases, Journals, Start
  <2>7. FinalPath'
    BY <1>1 DEF TypeOK, Locking, Current, PassPath, ReceiptFirst, TablePath, FinalPath,
           OpenPhases, ClosedPhases, Results, Start
  <2>8. QED
    BY <2>1, <2>2, <2>3, <2>4, <2>5, <2>6, <2>7
<1>2. CASE Stop
  <2>1. TypeOK'
    BY <1>2 DEF TypeOK, Stop
  <2>2. Locking'
    BY <1>2 DEF TypeOK, Locking, LoaderSteps, RecoverySteps, Stop
  <2>3. Current'
    BY <1>2 DEF TypeOK, Locking, Current, Receipt, Results, Journals, Stop
  <2>4. PassPath'
    BY <1>2 DEF TypeOK, Locking, Current, PassPath, Visible, Receipt, Results, OpenPhases,
           Journals, Stop
  <2>5. ReceiptFirst'
    BY <1>2 DEF TypeOK, Locking, Current, PassPath, ReceiptFirst, Visible, Receipt, Results,
           ResultOf, ClosedPhases, OpenPhases, Journals, Stop
  <2>6. TablePath'
    BY <1>2 DEF TypeOK, Locking, Current, PassPath, TablePath, IsLoaded, Visible, Receipt,
           OpenPhases, Journals, Stop
  <2>7. FinalPath'
    BY <1>2 DEF TypeOK, Locking, Current, PassPath, ReceiptFirst, TablePath, FinalPath,
           OpenPhases, ClosedPhases, Results, Stop
  <2>8. QED
    BY <2>1, <2>2, <2>3, <2>4, <2>5, <2>6, <2>7
<1>3. CASE Lock
  <2>1. TypeOK'
    BY <1>3 DEF TypeOK, LoaderSteps, Journals, Lock
  <2>2. Locking'
    BY <1>3 DEF TypeOK, Locking, LoaderSteps, RecoverySteps, Lock
  <2>3. Current'
    BY <1>3 DEF TypeOK, Locking, Current, Receipt, Results, Journals, Lock
  <2>4. PassPath'
    BY <1>3 DEF TypeOK, Locking, Current, PassPath, Visible, Receipt, Results, OpenPhases,
           Journals, Lock
  <2>5. ReceiptFirst'
    BY <1>3 DEF TypeOK, Locking, Current, PassPath, ReceiptFirst, Visible, Receipt, Results,
           ResultOf, ClosedPhases, OpenPhases, Journals, Lock
  <2>6. TablePath'
    BY <1>3 DEF TypeOK, Locking, Current, PassPath, TablePath, IsLoaded, Visible, Receipt,
           OpenPhases, Journals, Lock
  <2>7. FinalPath'
    BY <1>3 DEF TypeOK, Locking, Current, PassPath, ReceiptFirst, TablePath, FinalPath,
           OpenPhases, ClosedPhases, Results, Lock
  <2>8. QED
    BY <2>1, <2>2, <2>3, <2>4, <2>5, <2>6, <2>7
<1>4. CASE LockHeld
  <2>1. TypeOK'
    BY <1>4
       DEF TypeOK, LoaderSteps, Phases, OpenPhases, ClosedPhases, Results, LockHeld, End,
           Reset
  <2>2. Locking'
    BY <1>4 DEF TypeOK, Locking, LoaderSteps, RecoverySteps, LockHeld, End, Reset
  <2>3. Current'
    BY <1>4 DEF TypeOK, Locking, Current, Receipt, Results, Journals, LockHeld, End, Reset
  <2>4. PassPath'
    BY <1>4 DEF TypeOK, Locking, Current, PassPath, Visible, Receipt, Results, OpenPhases,
           Journals, LockHeld, End, Reset
  <2>5. ReceiptFirst'
    BY <1>4 DEF TypeOK, Locking, Current, PassPath, ReceiptFirst, Visible, Receipt, Results,
           ResultOf, ClosedPhases, OpenPhases, Journals, LockHeld, End, Reset
  <2>6. TablePath'
    BY <1>4 DEF TypeOK, Locking, Current, PassPath, TablePath, IsLoaded, Visible, Receipt,
           OpenPhases, Journals, LockHeld, End, Reset
  <2>7. FinalPath'
    BY <1>4 DEF TypeOK, Locking, Current, PassPath, ReceiptFirst, TablePath, FinalPath,
           OpenPhases, ClosedPhases, Results, LockHeld, End, Reset
  <2>8. QED
    BY <2>1, <2>2, <2>3, <2>4, <2>5, <2>6, <2>7
<1>5. CASE ResumeClosed
  <2>1. Running /\ journal # None /\ journal \in Journals /\ attempt = journal.attempt
        /\ attempt \in Attempts
    BY <1>5, AttemptIsJournals DEF AtWork, ResumeClosed
  <2>2. TypeOK'
    BY <1>5, <2>1 DEF TypeOK, LoaderSteps, ResumeClosed
  <2>3. Locking'
    BY <1>5, <2>1 DEF TypeOK, Locking, LoaderSteps, RecoverySteps, ResumeClosed
  <2>4. Current'
    BY <1>5, <2>1 DEF TypeOK, Locking, Current, Receipt, Results, Journals, ResumeClosed
  <2>5. PassPath'
    BY <1>5, <2>1
       DEF TypeOK, Locking, Current, PassPath, Visible, Receipt, Results, OpenPhases,
           Journals, ResumeClosed
  <2>6. ReceiptFirst'
    BY <1>5, <2>1
       DEF TypeOK, Locking, Current, PassPath, ReceiptFirst, Visible, Receipt, Results,
           ResultOf, ClosedPhases, OpenPhases, Journals, ResumeClosed
  <2>7. TablePath'
    BY <1>5, <2>1
       DEF TypeOK, Locking, Current, PassPath, TablePath, IsLoaded, Visible, Receipt,
           OpenPhases, Journals, ResumeClosed
  <2>8. FinalPath'
    BY <1>5, <2>1
       DEF TypeOK, Locking, Current, PassPath, ReceiptFirst, TablePath, FinalPath,
           OpenPhases, ClosedPhases, Results, ResumeClosed
  <2>9. QED
    BY <2>2, <2>3, <2>4, <2>5, <2>6, <2>7, <2>8
<1>6. CASE ResumePublished
  <2>1. Running /\ journal # None /\ journal \in Journals /\ attempt = journal.attempt
        /\ attempt \in Attempts
    BY <1>6, AttemptIsJournals DEF AtWork, ResumePublished
  <2>2. TypeOK'
    BY <1>6, <2>1 DEF TypeOK, LoaderSteps, Results, ResumePublished, Die
  <2>3. Locking'
    BY <1>6, <2>1 DEF TypeOK, Locking, LoaderSteps, RecoverySteps, ResumePublished, Die
  <2>4. Current'
    BY <1>6, <2>1 DEF TypeOK, Locking, Current, Receipt, Results, Journals, ResumePublished, Die
  <2>5. PassPath'
    BY <1>6, <2>1
       DEF TypeOK, Locking, Current, PassPath, Visible, Receipt, Results, OpenPhases,
           Journals, ResumePublished, Die
  <2>6. ReceiptFirst'
    BY <1>6, <2>1
       DEF TypeOK, Locking, Current, PassPath, ReceiptFirst, Visible, Receipt, Results,
           ResultOf, ClosedPhases, OpenPhases, Journals, ResumePublished, Die
  <2>7. TablePath'
    BY <1>6, <2>1
       DEF TypeOK, Locking, Current, PassPath, TablePath, IsLoaded, Visible, Receipt,
           OpenPhases, Journals, ResumePublished, Die
  <2>8. FinalPath'
    BY <1>6, <2>1
       DEF TypeOK, Locking, Current, PassPath, ReceiptFirst, TablePath, FinalPath,
           OpenPhases, ClosedPhases, Results, ResumePublished, Die
  <2>9. QED
    BY <2>2, <2>3, <2>4, <2>5, <2>6, <2>7, <2>8
<1>7. CASE ResumeOpen
  <2>1. Running /\ journal # None /\ journal \in Journals /\ attempt = journal.attempt
        /\ attempt \in Attempts
    BY <1>7, AttemptIsJournals DEF AtWork, ResumeOpen
  <2>2. /\ receipts' \in [Attempts \X Results -> DocStates]
        /\ \A b \in Attempts, q \in Results :
             /\ Receipt(b, q) \in {"absent", "published"} => Receipt(b, q)' = Receipt(b, q)
             /\ Visible(b, q)' <=> Visible(b, q)
    BY <1>7, <2>1, DiscardReceipts DEF ResumeOpen, TypeOK, Journals, Current, Visible, Receipt
  <2>3. TypeOK'
    BY <1>7, <2>1, <2>2 DEF TypeOK, LoaderSteps, Results, ResumeOpen, Die
  <2>4. Locking'
    BY <1>7, <2>1, <2>2 DEF TypeOK, Locking, LoaderSteps, RecoverySteps, ResumeOpen, Die
  <2>5. Current'
    BY <1>7, <2>1, <2>2
       DEF TypeOK, Locking, Current, Receipt, Results, Journals, ResumeOpen, Die
  <2>6. PassPath'
    BY <1>7, <2>1, <2>2
       DEF TypeOK, Locking, Current, PassPath, Results, OpenPhases, Journals, ResumeOpen,
           Die
  <2>7. ReceiptFirst'
    BY <1>7, <2>1, <2>2
       DEF TypeOK, Locking, Current, PassPath, ReceiptFirst, Visible, Receipt, Results,
           ResultOf, ClosedPhases, OpenPhases, Journals, ResumeOpen, Die
  <2>8. TablePath'
    BY <1>7, <2>1, <2>2
       DEF TypeOK, Locking, Current, PassPath, TablePath, IsLoaded, Visible, Receipt,
           OpenPhases, Journals, ResumeOpen, Die
  <2>9. FinalPath'
    BY <1>7, <2>1, <2>2
       DEF TypeOK, Locking, Current, PassPath, ReceiptFirst, TablePath, FinalPath,
           OpenPhases, ClosedPhases, Results, ResumeOpen, Die
  <2>10. QED
    BY <2>3, <2>4, <2>5, <2>6, <2>7, <2>8, <2>9
<1>8. CASE Publish
  <2>1. Running /\ journal # None /\ journal \in Journals /\ attempt = journal.attempt
        /\ attempt \in Attempts
    BY <1>8, AttemptIsJournals DEF AtWork, Publish
  <2>2. /\ receipts' \in [Attempts \X Results -> DocStates]
        /\ \A b \in Attempts, q \in Results : <<b, q>> # <<attempt, result>> =>
             Receipt(b, q)' = Receipt(b, q) /\ (Visible(b, q)' <=> Visible(b, q))
        /\ Receipt(attempt, result) = "published" => Receipt(attempt, result)' = "published"
        /\ Visible(attempt, result) => Visible(attempt, result)'
    <3>1. UNCHANGED <<attempt, result>> /\ result \in Results
      BY <1>8 DEF Publish, TypeOK
    <3>2. CASE Advance(attempt, result)
      BY <2>1, <3>1, <3>2, AdvanceReceipts
    <3>3. CASE UNCHANGED receipts
      BY <3>1, <3>3 DEF TypeOK, Receipt, Visible
    <3>4. QED
      BY <1>8, <3>2, <3>3 DEF Publish
  <2>3. TypeOK'
    BY <1>8, <2>1, <2>2 DEF TypeOK, LoaderSteps, Publish
  <2>4. Locking'
    BY <1>8, <2>1, <2>2 DEF TypeOK, Locking, LoaderSteps, RecoverySteps, Publish
  <2>5. Current'
    BY <1>8, <2>1, <2>2 DEF TypeOK, Locking, Current, Receipt, Results, Journals, Publish
  <2>6. PassPath'
    <3>1. attempt' = attempt /\ journal' = journal /\ phase' = phase /\ created' = created
          /\ result' = result /\ rpc' = rpc /\ lock' = lock /\ pc' \in {"publish", "close"}
      BY <1>8 DEF Publish
    <3>2. rpc = "idle"
      BY <2>1 DEF Locking
    <3>3. \A a \in Attempts : ~(Visible(a, "pass")' /\ Visible(a, "rollback-verified")')
      BY <1>8, <2>1, <2>2 DEF Publish, PassPath, TypeOK, Results
    <3>4. result = "pass" => ~Visible(attempt, "rollback-verified")'
      BY <1>8, <2>1, <2>2 DEF Publish, PassPath, Results
    <3>5. result # "pass" => ~Visible(attempt, "pass")'
      BY <1>8, <2>1, <2>2 DEF Publish, PassPath, Results, Running
    <3>6. result = "pass" => journal.phase \in {"commit-intent", "committed"}
      BY <1>8 DEF Publish, PassPath
    <3>7. result = "pass" => phase = "commit-intent" \/ (phase = "none" /\ created = "no")
      BY <1>8 DEF Publish, PassPath
    <3>8. QED
      BY <2>1, <3>1, <3>2, <3>3, <3>4, <3>5, <3>6, <3>7 DEF PassPath
  <2>7. ReceiptFirst'
    <3>1. UNCHANGED <<journal, attempt, result, rpc>> /\ rpc = "idle"
      BY <1>8, <2>1 DEF Publish, Locking
    <3>2. pc' = "close" => Receipt(attempt, result) = "published"
      BY <1>8 DEF Publish
    <3>3. journal.phase \in ClosedPhases => ResultOf(journal.phase) \in Results
      BY DEF ResultOf, ClosedPhases, Results
    <3>4. \A q \in Results : Receipt(attempt, q) = "published" => Receipt(attempt, q)' = "published"
      BY <2>1, <2>2, <3>1
    <3>5. result \in Results
      BY DEF TypeOK
    <3>6. QED
      BY <2>1, <3>1, <3>2, <3>3, <3>4, <3>5 DEF ReceiptFirst
  <2>8. TablePath'
    BY <1>8, <2>1, <2>2
       DEF TypeOK, Locking, Current, PassPath, TablePath, IsLoaded, Visible, Receipt,
           OpenPhases, Journals, Publish
  <2>9. FinalPath'
    BY <1>8, <2>1, <2>2
       DEF TypeOK, Locking, Current, PassPath, ReceiptFirst, TablePath, FinalPath,
           OpenPhases, ClosedPhases, Results, Publish
  <2>10. QED
    BY <2>3, <2>4, <2>5, <2>6, <2>7, <2>8, <2>9
<1>9. CASE Close
  <2>1. Running /\ journal # None /\ journal \in Journals /\ attempt = journal.attempt
        /\ attempt \in Attempts
    BY <1>9, AttemptIsJournals DEF AtWork, Close
  <2>2. journal' \in Journals /\ journal' # None /\ journal'.phase = PhaseOf(result)
        /\ journal'.attempt = attempt
    BY <1>9, <2>1, RecordJournal
       DEF Close, Phases, OpenPhases, ClosedPhases, PhaseOf, TypeOK, Results
  <2>3. TypeOK'
    <3>1. pc' \in LoaderSteps /\ unit' \in {unit, "active", "failed"}
          /\ lock' \in {None, lock} /\ attempt' \in {attempt, None}
          /\ phase' \in Phases \union {phase, "none"} /\ created' \in {created, "no"}
          /\ rolling' \in {rolling, "no"} /\ result' \in Results
          /\ context' \in {context, "exit", "resume"}
          /\ UNCHANGED <<table, receipts, used, rpc, mishaps>>
      BY <1>9, <2>1, <2>2
         DEF Close, LoaderSteps, Results, Die, End, Reset, TypeOK, PhaseOf, Phases,
             ClosedPhases
    <3>2. QED
      BY <1>9, <2>1, <2>2, <3>1 DEF TypeOK
  <2>4. Locking'
    BY <1>9, <2>1, <2>2 DEF TypeOK, Locking, LoaderSteps, RecoverySteps, Close, Die, End, Reset
  <2>5. Current'
    BY <1>9, <2>1, <2>2 DEF TypeOK, Locking, Current, Receipt, Results, Close, Die, End, Reset
  <2>6. PassPath'
    BY <1>9, <2>1, <2>2
       DEF TypeOK, Locking, Current, PassPath, Visible, Receipt, Results, OpenPhases, Close,
           Die, End, Reset, PhaseOf
  <2>7. ReceiptFirst'
    BY <1>9, <2>1, <2>2
       DEF TypeOK, Locking, Current, PassPath, ReceiptFirst, Visible, Receipt, Results,
           ResultOf, ClosedPhases, OpenPhases, Close, Die, End, Reset, PhaseOf
  <2>8. TablePath'
    <3>1. table = "live" => journal'.phase \notin {"prepared", "rolled-back"}
      BY <1>9, <2>2 DEF TablePath, PhaseOf, Close, TypeOK, Results
    <3>2. UNCHANGED <<table, rpc>> /\ rpc = "idle"
      BY <1>9, <2>1 DEF Close, Locking
    <3>3. unit' # "active" \/ (result = "pass" /\ context # "resume")
      BY <1>9 DEF Close, Die, End, Locking
    <3>4. pc' \in {"capture", "exit", "off"} /\ (pc' \in {"capture", "off"} => context' = "resume")
      BY <1>9 DEF Close, Die, End, Reset
    <3>5. phase' = "commit-intent" => phase = "commit-intent" /\ pc' = "exit"
      BY <1>9 DEF Close, Die, End, Reset, PhaseOf, TypeOK, Results
    <3>6. unit' = "active" => IsLoaded
      BY <1>9, <3>3 DEF TablePath, Close
    <3>7. QED
      BY <2>2, <3>1, <3>2, <3>4, <3>5, <3>6 DEF TablePath, IsLoaded
  <2>9. FinalPath'
    BY <1>9, <2>1, <2>2
       DEF TypeOK, Locking, Current, PassPath, ReceiptFirst, TablePath, FinalPath,
           OpenPhases, ClosedPhases, Results, Close, Die, End, Reset, PhaseOf
  <2>10. QED
    BY <2>3, <2>4, <2>5, <2>6, <2>7, <2>8, <2>9
<1>10. CASE Capture
  <2>1. TypeOK'
    BY <1>10 DEF TypeOK, LoaderSteps, Results, Capture, End, Die, Reset
  <2>2. Locking'
    BY <1>10 DEF TypeOK, Locking, LoaderSteps, RecoverySteps, Capture, End, Die, Reset
  <2>3. Current'
    BY <1>10 DEF TypeOK, Locking, Current, Receipt, Results, Journals, Capture, End, Die, Reset
  <2>4. PassPath'
    BY <1>10 DEF TypeOK, Locking, Current, PassPath, Visible, Receipt, Results, OpenPhases,
           Journals, Capture, End, Die, Reset
  <2>5. ReceiptFirst'
    BY <1>10
       DEF TypeOK, Locking, Current, PassPath, ReceiptFirst, Visible, Receipt, Results,
           ResultOf, ClosedPhases, OpenPhases, Journals, Capture, End, Die, Reset
  <2>6. TablePath'
    BY <1>10 DEF TypeOK, Locking, Current, PassPath, TablePath, IsLoaded, Visible, Receipt,
           OpenPhases, Journals, Capture, End, Die, Reset
  <2>7. FinalPath'
    BY <1>10 DEF TypeOK, Locking, Current, PassPath, ReceiptFirst, TablePath, FinalPath,
           OpenPhases, ClosedPhases, Results, Capture, End, Die, Reset
  <2>8. QED
    BY <2>1, <2>2, <2>3, <2>4, <2>5, <2>6, <2>7
<1>11. CASE Prepare
  <2>1. /\ attempt' \in Attempts \ used /\ used' = used \union {attempt'}
        /\ journal' \in Journals /\ journal' # None
        /\ journal'.phase = "prepared" /\ journal'.attempt = attempt'
    BY <1>11, RecordJournal DEF Prepare, Phases, OpenPhases
  <2>2. TypeOK'
    BY <1>11, <2>1 DEF TypeOK, LoaderSteps, Phases, OpenPhases, ClosedPhases, Prepare
  <2>3. Locking'
    BY <1>11, <2>1 DEF TypeOK, Locking, LoaderSteps, RecoverySteps, Prepare
  <2>4. Current'
    BY <1>11, <2>1 DEF TypeOK, Locking, Current, Receipt, Results, Prepare
  <2>5. PassPath'
    BY <1>11, <2>1
       DEF TypeOK, Locking, Current, PassPath, Visible, Receipt, Results, OpenPhases,
           Prepare
  <2>6. ReceiptFirst'
    BY <1>11, <2>1
       DEF TypeOK, Locking, Current, PassPath, ReceiptFirst, Visible, Receipt, Results,
           ResultOf, ClosedPhases, OpenPhases, Prepare
  <2>7. TablePath'
    BY <1>11, <2>1
       DEF TypeOK, Locking, Current, PassPath, TablePath, IsLoaded, Visible, Receipt,
           OpenPhases, Prepare
  <2>8. FinalPath'
    BY <1>11, <2>1
       DEF TypeOK, Locking, Current, PassPath, ReceiptFirst, TablePath, FinalPath,
           OpenPhases, ClosedPhases, Results, Prepare
  <2>9. QED
    BY <2>2, <2>3, <2>4, <2>5, <2>6, <2>7, <2>8
<1>12. CASE Intent
  <2>1. Running /\ journal # None /\ journal \in Journals /\ attempt = journal.attempt
        /\ attempt \in Attempts
    BY <1>12, AttemptIsJournals DEF AtWork, Intent, Write
  <2>2. journal' \in Journals /\ journal' # None /\ journal'.phase = "apply-intent"
        /\ journal'.attempt = attempt
    BY <1>12, <2>1, RecordJournal DEF Intent, Write, Phases, OpenPhases, ClosedPhases
  <2>3. TypeOK'
    BY <1>12, <2>1, <2>2
       DEF TypeOK, LoaderSteps, Phases, OpenPhases, ClosedPhases, Intent, Write
  <2>4. Locking'
    BY <1>12, <2>1, <2>2 DEF TypeOK, Locking, LoaderSteps, RecoverySteps, Intent, Write
  <2>5. Current'
    BY <1>12, <2>1, <2>2 DEF TypeOK, Locking, Current, Receipt, Results, Intent, Write
  <2>6. PassPath'
    BY <1>12, <2>1, <2>2
       DEF TypeOK, Locking, Current, PassPath, Visible, Receipt, Results, OpenPhases,
           Intent, Write
  <2>7. ReceiptFirst'
    BY <1>12, <2>1, <2>2
       DEF TypeOK, Locking, Current, PassPath, ReceiptFirst, Visible, Receipt, Results,
           ResultOf, ClosedPhases, OpenPhases, Intent, Write
  <2>8. TablePath'
    BY <1>12, <2>1, <2>2
       DEF TypeOK, Locking, Current, PassPath, TablePath, IsLoaded, Visible, Receipt,
           OpenPhases, Intent, Write
  <2>9. FinalPath'
    BY <1>12, <2>1, <2>2
       DEF TypeOK, Locking, Current, PassPath, ReceiptFirst, TablePath, FinalPath,
           OpenPhases, ClosedPhases, Results, Intent, Write
  <2>10. QED
    BY <2>3, <2>4, <2>5, <2>6, <2>7, <2>8, <2>9
<1>13. CASE Apply
  <2>1. Running /\ journal # None /\ journal \in Journals /\ attempt = journal.attempt
        /\ attempt \in Attempts
    BY <1>13, AttemptIsJournals DEF AtWork, Apply
  <2>2. TypeOK'
    BY <1>13, <2>1 DEF TypeOK, LoaderSteps, Apply
  <2>3. Locking'
    BY <1>13, <2>1 DEF TypeOK, Locking, LoaderSteps, RecoverySteps, Apply
  <2>4. Current'
    BY <1>13, <2>1 DEF TypeOK, Locking, Current, Receipt, Results, Journals, Apply
  <2>5. PassPath'
    BY <1>13, <2>1
       DEF TypeOK, Locking, Current, PassPath, Visible, Receipt, Results, OpenPhases,
           Journals, Apply
  <2>6. ReceiptFirst'
    BY <1>13, <2>1
       DEF TypeOK, Locking, Current, PassPath, ReceiptFirst, Visible, Receipt, Results,
           ResultOf, ClosedPhases, OpenPhases, Journals, Apply
  <2>7. TablePath'
    BY <1>13, <2>1
       DEF TypeOK, Locking, Current, PassPath, TablePath, IsLoaded, Visible, Receipt,
           OpenPhases, Journals, Apply
  <2>8. FinalPath'
    BY <1>13, <2>1
       DEF TypeOK, Locking, Current, PassPath, ReceiptFirst, TablePath, FinalPath,
           OpenPhases, ClosedPhases, Results, Apply
  <2>9. QED
    BY <2>2, <2>3, <2>4, <2>5, <2>6, <2>7, <2>8
<1>14. CASE Applied
  <2>1. Running /\ journal # None /\ journal \in Journals /\ attempt = journal.attempt
        /\ attempt \in Attempts
    BY <1>14, AttemptIsJournals DEF AtWork, Applied, Write
  <2>2. journal' \in Journals /\ journal' # None /\ journal'.phase = "applied"
        /\ journal'.attempt = attempt
    BY <1>14, <2>1, RecordJournal DEF Applied, Write, Phases, OpenPhases, ClosedPhases
  <2>3. TypeOK'
    BY <1>14, <2>1, <2>2
       DEF TypeOK, LoaderSteps, Phases, OpenPhases, ClosedPhases, Applied, Write
  <2>4. Locking'
    BY <1>14, <2>1, <2>2 DEF TypeOK, Locking, LoaderSteps, RecoverySteps, Applied, Write
  <2>5. Current'
    BY <1>14, <2>1, <2>2 DEF TypeOK, Locking, Current, Receipt, Results, Applied, Write
  <2>6. PassPath'
    BY <1>14, <2>1, <2>2
       DEF TypeOK, Locking, Current, PassPath, Visible, Receipt, Results, OpenPhases,
           Applied, Write
  <2>7. ReceiptFirst'
    BY <1>14, <2>1, <2>2
       DEF TypeOK, Locking, Current, PassPath, ReceiptFirst, Visible, Receipt, Results,
           ResultOf, ClosedPhases, OpenPhases, Applied, Write
  <2>8. TablePath'
    BY <1>14, <2>1, <2>2
       DEF TypeOK, Locking, Current, PassPath, TablePath, IsLoaded, Visible, Receipt,
           OpenPhases, Applied, Write
  <2>9. FinalPath'
    BY <1>14, <2>1, <2>2
       DEF TypeOK, Locking, Current, PassPath, ReceiptFirst, TablePath, FinalPath,
           OpenPhases, ClosedPhases, Results, Applied, Write
  <2>10. QED
    BY <2>3, <2>4, <2>5, <2>6, <2>7, <2>8, <2>9
<1>15. CASE VerifyLive
  <2>1. Running /\ journal # None /\ journal \in Journals /\ attempt = journal.attempt
        /\ attempt \in Attempts
    BY <1>15, AttemptIsJournals DEF AtWork, VerifyLive
  <2>2. TypeOK'
    BY <1>15, <2>1 DEF TypeOK, LoaderSteps, VerifyLive, Die
  <2>3. Locking'
    BY <1>15, <2>1 DEF TypeOK, Locking, LoaderSteps, RecoverySteps, VerifyLive, Die
  <2>4. Current'
    BY <1>15, <2>1 DEF TypeOK, Locking, Current, Receipt, Results, Journals, VerifyLive, Die
  <2>5. PassPath'
    BY <1>15, <2>1
       DEF TypeOK, Locking, Current, PassPath, Visible, Receipt, Results, OpenPhases,
           Journals, VerifyLive, Die
  <2>6. ReceiptFirst'
    BY <1>15, <2>1
       DEF TypeOK, Locking, Current, PassPath, ReceiptFirst, Visible, Receipt, Results,
           ResultOf, ClosedPhases, OpenPhases, Journals, VerifyLive, Die
  <2>7. TablePath'
    BY <1>15, <2>1
       DEF TypeOK, Locking, Current, PassPath, TablePath, IsLoaded, Visible, Receipt,
           OpenPhases, Journals, VerifyLive, Die
  <2>8. FinalPath'
    BY <1>15, <2>1
       DEF TypeOK, Locking, Current, PassPath, ReceiptFirst, TablePath, FinalPath,
           OpenPhases, ClosedPhases, Results, VerifyLive, Die
  <2>9. QED
    BY <2>2, <2>3, <2>4, <2>5, <2>6, <2>7, <2>8
<1>16. CASE Commit
  <2>1. Running /\ journal # None /\ journal \in Journals /\ attempt = journal.attempt
        /\ attempt \in Attempts
    BY <1>16, AttemptIsJournals DEF AtWork, Commit, Write
  <2>2. journal' \in Journals /\ journal' # None /\ journal'.phase = "commit-intent"
        /\ journal'.attempt = attempt
    BY <1>16, <2>1, RecordJournal DEF Commit, Write, Phases, OpenPhases, ClosedPhases
  <2>3. TypeOK'
    BY <1>16, <2>1, <2>2
       DEF TypeOK, LoaderSteps, Results, Phases, OpenPhases, ClosedPhases, Commit, Write
  <2>4. Locking'
    BY <1>16, <2>1, <2>2 DEF TypeOK, Locking, LoaderSteps, RecoverySteps, Commit, Write
  <2>5. Current'
    BY <1>16, <2>1, <2>2 DEF TypeOK, Locking, Current, Receipt, Results, Commit, Write
  <2>6. PassPath'
    BY <1>16, <2>1, <2>2
       DEF TypeOK, Locking, Current, PassPath, Visible, Receipt, Results, OpenPhases,
           Commit, Write
  <2>7. ReceiptFirst'
    BY <1>16, <2>1, <2>2
       DEF TypeOK, Locking, Current, PassPath, ReceiptFirst, Visible, Receipt, Results,
           ResultOf, ClosedPhases, OpenPhases, Commit, Write
  <2>8. TablePath'
    BY <1>16, <2>1, <2>2
       DEF TypeOK, Locking, Current, PassPath, TablePath, IsLoaded, Visible, Receipt,
           OpenPhases, Commit, Write
  <2>9. FinalPath'
    BY <1>16, <2>1, <2>2
       DEF TypeOK, Locking, Current, PassPath, ReceiptFirst, TablePath, FinalPath,
           OpenPhases, ClosedPhases, Results, Commit, Write
  <2>10. QED
    BY <2>3, <2>4, <2>5, <2>6, <2>7, <2>8, <2>9
<1>17. CASE ExitPublished
  <2>1. TypeOK'
    BY <1>17 DEF TypeOK, LoaderSteps, Results, ExitPublished, End, Reset
  <2>2. Locking'
    BY <1>17 DEF TypeOK, Locking, LoaderSteps, RecoverySteps, Current, ExitPublished, End, Reset
  <2>3. Current'
    BY <1>17 DEF TypeOK, Locking, Current, Receipt, Results, Journals, ExitPublished, End, Reset
  <2>4. PassPath'
    BY <1>17 DEF TypeOK, Locking, Current, PassPath, Visible, Receipt, Results, OpenPhases,
           Journals, ExitPublished, End, Reset
  <2>5. ReceiptFirst'
    BY <1>17
       DEF TypeOK, Locking, Current, PassPath, ReceiptFirst, Visible, Receipt, Results,
           ResultOf, ClosedPhases, OpenPhases, Journals, ExitPublished, End, Reset
  <2>6. TablePath'
    BY <1>17 DEF TypeOK, Locking, Current, PassPath, TablePath, IsLoaded, Visible, Receipt,
           OpenPhases, Journals, ExitPublished, End, Reset
  <2>7. FinalPath'
    BY <1>17 DEF TypeOK, Locking, Current, PassPath, ReceiptFirst, TablePath, FinalPath,
           OpenPhases, ClosedPhases, Results, ExitPublished, End, Reset
  <2>8. QED
    BY <2>1, <2>2, <2>3, <2>4, <2>5, <2>6, <2>7
<1>18. CASE ExitUnpublished
  <2>1. /\ receipts' \in [Attempts \X Results -> DocStates]
        /\ \A b \in Attempts, q \in Results :
             /\ Receipt(b, q) \in {"absent", "published"} => Receipt(b, q)' = Receipt(b, q)
             /\ Visible(b, q)' <=> Visible(b, q)
    BY <1>18, DiscardReceipts DEF ExitUnpublished, TypeOK, Journals, Current, Visible, Receipt
  <2>2. TypeOK'
    <3>1. pc' \in LoaderSteps /\ unit' \in {unit, "failed"} /\ lock' \in {None, lock}
          /\ attempt' \in {attempt, None} /\ phase' \in {phase, "none"}
          /\ created' \in {created, "no"} /\ rolling' \in {rolling, "no"}
          /\ result' \in Results /\ context' \in {context, "resume"}
          /\ UNCHANGED <<table, journal, used, rpc, mishaps>>
      BY <1>18, <2>1 DEF ExitUnpublished, LoaderSteps, Results, End, Reset, TypeOK
    <3>2. QED
      BY <1>18, <2>1, <3>1 DEF TypeOK
  <2>3. Locking'
    BY <1>18, <2>1
       DEF TypeOK, Locking, LoaderSteps, RecoverySteps, Current, ExitUnpublished, End,
           Reset, OpenPhases
  <2>4. Current'
    BY <1>18, <2>1
       DEF TypeOK, Locking, Current, Receipt, Results, Journals, ExitUnpublished, End,
           Reset, OpenPhases
  <2>5. PassPath'
    <3>1. UNCHANGED <<table, journal, used, rpc>> /\ pc' \in {"rollback", "off"}
          /\ (pc' = "rollback" => UNCHANGED <<lock, attempt, phase, created>>)
          /\ (pc' = "off" => lock' # "loader")
      BY <1>18, NoneAssumption DEF ExitUnpublished, End
    <3>2. ~(pc' = "rollback" /\ Running /\ journal # None /\ Visible(attempt, "pass"))
      BY <1>18 DEF ExitUnpublished, PassPath, End, OpenPhases
    <3>3. pc' = "rollback" /\ Running /\ journal # None => attempt \in Attempts
      BY DEF Current, TypeOK, Journals
    <3>4. journal # None => journal.attempt \in Attempts
      BY DEF TypeOK, Journals
    <3>5. "pass" \in Results /\ "rollback-verified" \in Results
      BY DEF Results
    <3>6. QED
      BY <2>1, <3>1, <3>2, <3>3, <3>4, <3>5 DEF PassPath
  <2>6. ReceiptFirst'
    <3>1. UNCHANGED <<journal, rpc>> /\ pc' # "close"
      BY <1>18 DEF ExitUnpublished, End
    <3>2. journal # None => journal.attempt \in Attempts
      BY DEF TypeOK, Journals
    <3>3. journal # None /\ journal.phase \in ClosedPhases => ResultOf(journal.phase) \in Results
      BY DEF ResultOf, ClosedPhases, Results
    <3>4. rpc \in {"record pass", "record rollback"} => journal # None
      BY DEF PassPath
    <3>5. "pass" \in Results /\ "rollback-verified" \in Results
      BY DEF Results
    <3>6. QED
      BY <2>1, <3>1, <3>2, <3>3, <3>4, <3>5 DEF ReceiptFirst
  <2>7. TablePath'
    BY <1>18, <2>1
       DEF TypeOK, Locking, Current, PassPath, TablePath, IsLoaded, Visible, Receipt,
           OpenPhases, Journals, ExitUnpublished, End, Reset
  <2>8. FinalPath'
    <3>1. UNCHANGED journal /\ pc' \in {"rollback", "off"}
      BY <1>18 DEF ExitUnpublished, End
    <3>2. pc' = "rollback" => Running /\ journal # None /\ attempt = journal.attempt
      BY <1>18 DEF ExitUnpublished, End, Current, OpenPhases
    <3>3. journal # None /\ journal.phase = "committed" => Visible(journal.attempt, "pass")
      BY DEF ReceiptFirst, ResultOf, Visible, ClosedPhases
    <3>4. ~(pc' = "rollback" /\ Running /\ journal # None /\ Visible(attempt, "pass"))
      BY <1>18 DEF ExitUnpublished, PassPath, End, OpenPhases
    <3>5. pc' = "rollback" => journal.phase # "rolled-back"
      BY <1>18, <3>2 DEF ExitUnpublished, FinalPath, End
    <3>6. QED
      BY <3>1, <3>2, <3>3, <3>4, <3>5 DEF FinalPath
  <2>9. QED
    BY <2>2, <2>3, <2>4, <2>5, <2>6, <2>7, <2>8
<1>19. CASE Rollback
  <2>1. Running /\ journal # None /\ journal \in Journals /\ attempt = journal.attempt
        /\ attempt \in Attempts
    BY <1>19, AttemptIsJournals DEF AtWork, Rollback
  <2>2. journal' \in Journals /\ journal' # None /\ journal'.phase = "rollback-intent"
        /\ journal'.attempt = attempt
    BY <1>19, <2>1, RecordJournal DEF Rollback, Phases, OpenPhases, ClosedPhases
  <2>3. TypeOK'
    BY <1>19, <2>1, <2>2 DEF TypeOK, LoaderSteps, Phases, OpenPhases, ClosedPhases, Rollback
  <2>4. Locking'
    BY <1>19, <2>1, <2>2 DEF TypeOK, Locking, LoaderSteps, RecoverySteps, Rollback
  <2>5. Current'
    BY <1>19, <2>1, <2>2 DEF TypeOK, Locking, Current, Receipt, Results, Rollback
  <2>6. PassPath'
    BY <1>19, <2>1, <2>2
       DEF TypeOK, Locking, Current, PassPath, Visible, Receipt, Results, OpenPhases,
           Rollback
  <2>7. ReceiptFirst'
    BY <1>19, <2>1, <2>2
       DEF TypeOK, Locking, Current, PassPath, ReceiptFirst, Visible, Receipt, Results,
           ResultOf, ClosedPhases, OpenPhases, Rollback
  <2>8. TablePath'
    BY <1>19, <2>1, <2>2
       DEF TypeOK, Locking, Current, PassPath, TablePath, IsLoaded, Visible, Receipt,
           OpenPhases, Rollback
  <2>9. FinalPath'
    BY <1>19, <2>1, <2>2
       DEF TypeOK, Locking, Current, PassPath, ReceiptFirst, TablePath, FinalPath,
           OpenPhases, ClosedPhases, Results, Rollback
  <2>10. QED
    BY <2>3, <2>4, <2>5, <2>6, <2>7, <2>8, <2>9
<1>20. CASE Delete
  <2>1. Running /\ journal # None /\ journal \in Journals /\ attempt = journal.attempt
        /\ attempt \in Attempts
    BY <1>20, AttemptIsJournals DEF AtWork, Delete
  <2>2. TypeOK'
    BY <1>20, <2>1 DEF TypeOK, LoaderSteps, Results, Delete
  <2>3. Locking'
    BY <1>20, <2>1 DEF TypeOK, Locking, LoaderSteps, RecoverySteps, Delete
  <2>4. Current'
    BY <1>20, <2>1 DEF TypeOK, Locking, Current, Receipt, Results, Journals, Delete
  <2>5. PassPath'
    BY <1>20, <2>1
       DEF TypeOK, Locking, Current, PassPath, Visible, Receipt, Results, OpenPhases,
           Journals, Delete
  <2>6. ReceiptFirst'
    BY <1>20, <2>1
       DEF TypeOK, Locking, Current, PassPath, ReceiptFirst, Visible, Receipt, Results,
           ResultOf, ClosedPhases, OpenPhases, Journals, Delete
  <2>7. TablePath'
    BY <1>20, <2>1
       DEF TypeOK, Locking, Current, PassPath, TablePath, IsLoaded, Visible, Receipt,
           OpenPhases, Journals, Delete
  <2>8. FinalPath'
    BY <1>20, <2>1
       DEF TypeOK, Locking, Current, PassPath, ReceiptFirst, TablePath, FinalPath,
           OpenPhases, ClosedPhases, Results, Delete
  <2>9. QED
    BY <2>2, <2>3, <2>4, <2>5, <2>6, <2>7, <2>8
<1>21. CASE ApplyFails
  <2>1. Running /\ journal # None /\ journal \in Journals /\ attempt = journal.attempt
        /\ attempt \in Attempts
    BY <1>21, AttemptIsJournals DEF AtWork, ApplyFails
  <2>2. TypeOK'
    BY <1>21, <2>1 DEF TypeOK, LoaderSteps, ApplyFails, Mishap, Die
  <2>3. Locking'
    BY <1>21, <2>1 DEF TypeOK, Locking, LoaderSteps, RecoverySteps, ApplyFails, Mishap, Die
  <2>4. Current'
    BY <1>21, <2>1
       DEF TypeOK, Locking, Current, Receipt, Results, Journals, ApplyFails, Mishap, Die
  <2>5. PassPath'
    BY <1>21, <2>1
       DEF TypeOK, Locking, Current, PassPath, Visible, Receipt, Results, OpenPhases,
           Journals, ApplyFails, Mishap, Die
  <2>6. ReceiptFirst'
    BY <1>21, <2>1
       DEF TypeOK, Locking, Current, PassPath, ReceiptFirst, Visible, Receipt, Results,
           ResultOf, ClosedPhases, OpenPhases, Journals, ApplyFails, Mishap, Die
  <2>7. TablePath'
    BY <1>21, <2>1
       DEF TypeOK, Locking, Current, PassPath, TablePath, IsLoaded, Visible, Receipt,
           OpenPhases, Journals, ApplyFails, Mishap, Die
  <2>8. FinalPath'
    BY <1>21, <2>1
       DEF TypeOK, Locking, Current, PassPath, ReceiptFirst, TablePath, FinalPath,
           OpenPhases, ClosedPhases, Results, ApplyFails, Mishap, Die
  <2>9. QED
    BY <2>2, <2>3, <2>4, <2>5, <2>6, <2>7, <2>8
<1>22. CASE DeleteFails
  <2>1. Running /\ journal # None /\ journal \in Journals /\ attempt = journal.attempt
        /\ attempt \in Attempts
    BY <1>22, AttemptIsJournals DEF AtWork, DeleteFails
  <2>2. TypeOK'
    BY <1>22, <2>1 DEF TypeOK, LoaderSteps, Results, DeleteFails, Mishap
  <2>3. Locking'
    BY <1>22, <2>1 DEF TypeOK, Locking, LoaderSteps, RecoverySteps, DeleteFails, Mishap
  <2>4. Current'
    BY <1>22, <2>1 DEF TypeOK, Locking, Current, Receipt, Results, Journals, DeleteFails, Mishap
  <2>5. PassPath'
    BY <1>22, <2>1
       DEF TypeOK, Locking, Current, PassPath, Visible, Receipt, Results, OpenPhases,
           Journals, DeleteFails, Mishap
  <2>6. ReceiptFirst'
    BY <1>22, <2>1
       DEF TypeOK, Locking, Current, PassPath, ReceiptFirst, Visible, Receipt, Results,
           ResultOf, ClosedPhases, OpenPhases, Journals, DeleteFails, Mishap
  <2>7. TablePath'
    BY <1>22, <2>1
       DEF TypeOK, Locking, Current, PassPath, TablePath, IsLoaded, Visible, Receipt,
           OpenPhases, Journals, DeleteFails, Mishap
  <2>8. FinalPath'
    BY <1>22, <2>1
       DEF TypeOK, Locking, Current, PassPath, ReceiptFirst, TablePath, FinalPath,
           OpenPhases, ClosedPhases, Results, DeleteFails, Mishap
  <2>9. QED
    BY <2>2, <2>3, <2>4, <2>5, <2>6, <2>7, <2>8
<1>23. CASE Fail
  <2>1. \/ journal' = journal
        \/ /\ pc \in Writing /\ Running /\ journal # None /\ attempt = journal.attempt
           /\ journal' \in Journals /\ journal' # None
           /\ journal'.phase = Written /\ journal'.attempt = attempt
    <3>1. CASE UNCHANGED journal
      BY <3>1
    <3>2. CASE pc \in Writing /\ Record(Written, attempt)
      <4>1. Running /\ journal # None /\ attempt = journal.attempt /\ attempt \in Attempts
        BY <3>2, AttemptIsJournals DEF AtWork, Writing
      <4>2. Written \in Phases
        BY <3>2 DEF Writing, Written, PhaseOf, TypeOK, Results, Phases, OpenPhases, ClosedPhases
      <4>3. QED
        BY <3>2, <4>1, <4>2, RecordJournal
    <3>3. QED
      BY <1>23, <3>1, <3>2 DEF Fail
  <2>2. TypeOK'
    <3>1. pc' \in LoaderSteps /\ unit' \in {unit, "failed"} /\ lock' \in {None, lock}
          /\ attempt' \in {attempt, None} /\ phase' \in {phase, "none"}
          /\ created' \in {created, "no"} /\ rolling' \in {"yes", "no"}
          /\ result' \in Results /\ context' \in {"exit", "resume"}
          /\ mishaps' \in 0..MaxMishaps /\ UNCHANGED <<table, receipts, used, rpc>>
      BY <1>23, <2>1 DEF Fail, LoaderSteps, Results, End, Reset, Mishap, TypeOK
    <3>2. QED
      BY <1>23, <2>1, <3>1 DEF TypeOK
  <2>3. Locking'
    BY <1>23, <2>1
       DEF TypeOK, Locking, LoaderSteps, RecoverySteps, Current, Fail, Mishap, Writing,
           Written, PhaseOf, End, Reset
  <2>4. Current'
    BY <1>23, <2>1
       DEF TypeOK, Locking, Current, Receipt, Results, Fail, Mishap, Writing, Written,
           PhaseOf, End, Reset
  <2>5. PassPath'
    BY <1>23, <2>1
       DEF TypeOK, Locking, Current, PassPath, Visible, Receipt, Results, OpenPhases, Fail,
           Mishap, Writing, Written, PhaseOf, End, Reset
  <2>6. ReceiptFirst'
    BY <1>23, <2>1
       DEF TypeOK, Locking, Current, PassPath, ReceiptFirst, Visible, Receipt, Results,
           ResultOf, ClosedPhases, OpenPhases, Fail, Mishap, Writing, Written, PhaseOf, End,
           Reset, PhaseOf
  <2>7. TablePath'
    <3>1. UNCHANGED <<table, rpc>> /\ pc' \in {"exit", "off"} /\ unit' \in {unit, "failed"}
          /\ phase' \in {phase, "none"} /\ (pc' = "off" => phase' = "none" /\ context' = "resume")
      BY <1>23 DEF Fail, End, Reset
    <3>2. table = "live" => journal' # None /\ journal'.phase \notin {"prepared", "rolled-back"}
      <4>1. CASE journal' = journal
        BY <4>1 DEF TablePath
      <4>2. CASE pc \in Writing /\ journal' # None /\ journal'.phase = Written
        BY <4>2 DEF TablePath, Writing, Written, PhaseOf, TypeOK, Results
      <4>3. QED
        BY <2>1, <4>1, <4>2
    <3>3. phase' = "commit-intent" => phase = "commit-intent" /\ pc' = "exit"
      BY <3>1
    <3>4. QED
      BY <2>1, <3>1, <3>2, <3>3 DEF TablePath, IsLoaded, Locking
  <2>8. FinalPath'
    <3>1. pc' = "off" \/ (pc' = "exit" /\ UNCHANGED <<phase, created>> /\ rolling' \in {rolling, "yes"})
      BY <1>23 DEF Fail, End
    <3>2. ASSUME pc' = "exit", journal' # None, journal'.phase = "rolled-back"
          PROVE  rolling = "yes" \/ (phase \notin OpenPhases /\ created = "no")
      <4>1. CASE journal' = journal
        <5>1. pc \in LoaderSteps \ {"off", "exit", "delete"}
          BY <1>23 DEF Fail
        <5>2. CASE pc \in {"lock", "resume", "capture", "prepare"}
          BY <5>2 DEF Current, Locking, FinalPath, OpenPhases
        <5>3. CASE pc \in {"publish", "close"}
          BY <3>2, <4>1, <5>3 DEF PassPath, FinalPath, OpenPhases
        <5>4. CASE pc \in {"intent", "apply", "applied", "verify", "commit", "rollback"}
          BY <3>2, <4>1, <5>4 DEF TablePath, FinalPath
        <5>5. QED
          BY <5>1, <5>2, <5>3, <5>4 DEF LoaderSteps
      <4>2. CASE pc \in Writing /\ journal'.phase = Written
        <5>1. pc = "close" /\ result = "rollback-verified"
          BY <3>2, <4>2 DEF Writing, Written, PhaseOf, TypeOK, Results
        <5>2. QED
          BY <5>1 DEF FinalPath, OpenPhases
      <4>3. QED
        BY <2>1, <4>1, <4>2
    <3>3. QED
      BY <3>1, <3>2 DEF FinalPath
  <2>9. QED
    BY <2>2, <2>3, <2>4, <2>5, <2>6, <2>7, <2>8
<1>24. CASE Kill
  <2>1. TypeOK'
    <3>1. pc' \in LoaderSteps /\ unit' \in {unit, "failed", "inactive"}
          /\ lock' \in {None, lock} /\ attempt' \in {attempt, None}
          /\ phase' \in {phase, "none"} /\ created' \in {created, "no"}
          /\ rolling' \in {rolling, "no"} /\ result' \in Results
          /\ context' \in {context, "resume"} /\ mishaps' \in 0..MaxMishaps
          /\ UNCHANGED <<table, journal, receipts, used, rpc>>
      BY <1>24 DEF Kill, LoaderSteps, Results, End, Reset, Mishap, TypeOK
    <3>2. QED
      BY <1>24, <3>1 DEF TypeOK
  <2>2. Locking'
    BY <1>24 DEF TypeOK, Locking, LoaderSteps, RecoverySteps, Kill, Mishap, End, Reset
  <2>3. Current'
    BY <1>24 DEF TypeOK, Locking, Current, Receipt, Results, Journals, Kill, Mishap, End, Reset
  <2>4. PassPath'
    BY <1>24 DEF TypeOK, Locking, Current, PassPath, Visible, Receipt, Results, OpenPhases,
           Journals, Kill, Mishap, End, Reset
  <2>5. ReceiptFirst'
    BY <1>24
       DEF TypeOK, Locking, Current, PassPath, ReceiptFirst, Visible, Receipt, Results,
           ResultOf, ClosedPhases, OpenPhases, Journals, Kill, Mishap, End, Reset
  <2>6. TablePath'
    BY <1>24 DEF TypeOK, Locking, Current, PassPath, TablePath, IsLoaded, Visible, Receipt,
           OpenPhases, Journals, Kill, Mishap, End, Reset
  <2>7. FinalPath'
    BY <1>24 DEF TypeOK, Locking, Current, PassPath, ReceiptFirst, TablePath, FinalPath,
           OpenPhases, ClosedPhases, Results, Kill, Mishap, End, Reset
  <2>8. QED
    BY <2>1, <2>2, <2>3, <2>4, <2>5, <2>6, <2>7
<1>25. CASE Reboot
  <2>1. /\ receipts' \in [Attempts \X Results -> DocStates]
        /\ \A b \in Attempts, q \in Results :
             /\ Receipt(b, q) = "published" => Receipt(b, q)' = "published"
             /\ Receipt(b, q) = "absent" => Receipt(b, q)' = "absent"
             /\ Visible(b, q)' => Visible(b, q)
    BY <1>25, RebootReceipts
  <2>2. TypeOK'
    <3>1. pc' = "off" /\ rpc' = "idle" /\ table' = "absent" /\ unit' = "inactive"
          /\ lock' = None /\ context' = "resume" /\ attempt' = None /\ phase' = "none"
          /\ created' = "no" /\ rolling' = "no" /\ result' = "pass"
          /\ mishaps' \in 0..MaxMishaps /\ UNCHANGED <<journal, used>>
      BY <1>25, <2>1 DEF Reboot, Reset, Mishap, TypeOK
    <3>2. QED
      BY <1>25, <2>1, <3>1 DEF TypeOK, LoaderSteps, RecoverySteps, Results
  <2>3. Locking'
    BY <1>25, <2>1 DEF TypeOK, Locking, LoaderSteps, RecoverySteps, Reboot, Mishap, Reset
  <2>4. Current'
    BY <1>25, <2>1
       DEF TypeOK, Locking, Current, Receipt, Results, Journals, Reboot, Mishap, Reset
  <2>5. PassPath'
    BY <1>25, <2>1
       DEF TypeOK, Locking, Current, PassPath, Visible, Receipt, Results, OpenPhases,
           Journals, Reboot, Mishap, Reset
  <2>6. ReceiptFirst'
    BY <1>25, <2>1
       DEF TypeOK, Locking, Current, PassPath, ReceiptFirst, Visible, Receipt, Results,
           ResultOf, ClosedPhases, OpenPhases, Journals, Reboot, Mishap, Reset
  <2>7. TablePath'
    BY <1>25, <2>1
       DEF TypeOK, Locking, Current, PassPath, TablePath, IsLoaded, Visible, Receipt,
           OpenPhases, Journals, Reboot, Mishap, Reset
  <2>8. FinalPath'
    BY <1>25, <2>1
       DEF TypeOK, Locking, Current, PassPath, ReceiptFirst, TablePath, FinalPath,
           OpenPhases, ClosedPhases, Results, Reboot, Mishap, Reset
  <2>9. QED
    BY <2>2, <2>3, <2>4, <2>5, <2>6, <2>7, <2>8
<1>26. CASE Tamper
  <2>1. TypeOK'
    BY <1>26 DEF TypeOK, Tamper, Mishap
  <2>2. Locking'
    BY <1>26 DEF TypeOK, Locking, LoaderSteps, RecoverySteps, Tamper, Mishap
  <2>3. Current'
    BY <1>26 DEF TypeOK, Locking, Current, Receipt, Results, Journals, Tamper, Mishap
  <2>4. PassPath'
    BY <1>26 DEF TypeOK, Locking, Current, PassPath, Visible, Receipt, Results, OpenPhases,
           Journals, Tamper, Mishap
  <2>5. ReceiptFirst'
    BY <1>26
       DEF TypeOK, Locking, Current, PassPath, ReceiptFirst, Visible, Receipt, Results,
           ResultOf, ClosedPhases, OpenPhases, Journals, Tamper, Mishap
  <2>6. TablePath'
    BY <1>26 DEF TypeOK, Locking, Current, PassPath, TablePath, IsLoaded, Visible, Receipt,
           OpenPhases, Journals, Tamper, Mishap
  <2>7. FinalPath'
    BY <1>26 DEF TypeOK, Locking, Current, PassPath, ReceiptFirst, TablePath, FinalPath,
           OpenPhases, ClosedPhases, Results, Tamper, Mishap
  <2>8. QED
    BY <2>1, <2>2, <2>3, <2>4, <2>5, <2>6, <2>7
<1>27. CASE RecoverLock
  <2>1. TypeOK'
    BY <1>27 DEF TypeOK, RecoverySteps, RecoverLock, Mishap
  <2>2. Locking'
    BY <1>27 DEF TypeOK, Locking, LoaderSteps, RecoverySteps, RecoverLock, Mishap
  <2>3. Current'
    BY <1>27 DEF TypeOK, Locking, Current, Receipt, Results, Journals, RecoverLock, Mishap
  <2>4. PassPath'
    BY <1>27 DEF TypeOK, Locking, Current, PassPath, Visible, Receipt, Results, OpenPhases,
           Journals, RecoverLock, Mishap
  <2>5. ReceiptFirst'
    BY <1>27
       DEF TypeOK, Locking, Current, PassPath, ReceiptFirst, Visible, Receipt, Results,
           ResultOf, ClosedPhases, OpenPhases, Journals, RecoverLock, Mishap
  <2>6. TablePath'
    BY <1>27 DEF TypeOK, Locking, Current, PassPath, TablePath, IsLoaded, Visible, Receipt,
           OpenPhases, Journals, RecoverLock, Mishap
  <2>7. FinalPath'
    BY <1>27 DEF TypeOK, Locking, Current, PassPath, ReceiptFirst, TablePath, FinalPath,
           OpenPhases, ClosedPhases, Results, RecoverLock, Mishap
  <2>8. QED
    BY <2>1, <2>2, <2>3, <2>4, <2>5, <2>6, <2>7
<1>28. CASE RecoverReconcile
  <2>1. TypeOK'
    <3>1. rpc' \in RecoverySteps /\ UNCHANGED <<table, unit, lock, disk, pc, shell, mishaps>>
      BY <1>28 DEF RecoverReconcile, RecoverySteps
    <3>2. QED
      BY <1>28, <3>1 DEF TypeOK
  <2>2. Locking'
    BY <1>28
       DEF TypeOK, Locking, LoaderSteps, RecoverySteps, RecoverReconcile, ClosedReceiptValid
  <2>3. Current'
    BY <1>28 DEF TypeOK, Locking, Current, Receipt, Results, Journals, RecoverReconcile,
           ClosedReceiptValid
  <2>4. PassPath'
    BY <1>28 DEF TypeOK, Locking, Current, PassPath, Visible, Receipt, Results, OpenPhases,
           Journals, RecoverReconcile, ClosedReceiptValid
  <2>5. ReceiptFirst'
    BY <1>28
       DEF TypeOK, Locking, Current, PassPath, ReceiptFirst, Visible, Receipt, Results,
           ResultOf, ClosedPhases, OpenPhases, Journals, RecoverReconcile, ClosedReceiptValid
  <2>6. TablePath'
    BY <1>28 DEF TypeOK, Locking, Current, PassPath, TablePath, IsLoaded, Visible, Receipt,
           OpenPhases, Journals, RecoverReconcile, ClosedReceiptValid
  <2>7. FinalPath'
    BY <1>28 DEF TypeOK, Locking, Current, PassPath, ReceiptFirst, TablePath, FinalPath,
           OpenPhases, ClosedPhases, Results, RecoverReconcile, ClosedReceiptValid
  <2>8. QED
    BY <2>1, <2>2, <2>3, <2>4, <2>5, <2>6, <2>7
<1>29. CASE RecoverPublish("publish pass", "pass", "record pass")
  <2>1. journal # None /\ journal.attempt \in Attempts
    BY <1>29 DEF RecoverPublish, PassPath, TypeOK, Journals
  <2>2. /\ receipts' \in [Attempts \X Results -> DocStates]
        /\ \A b \in Attempts, q \in Results : <<b, q>> # <<journal.attempt, "pass">> =>
             Receipt(b, q)' = Receipt(b, q) /\ (Visible(b, q)' <=> Visible(b, q))
        /\ Receipt(journal.attempt, "pass") = "published" => Receipt(journal.attempt, "pass")' = "published"
        /\ Visible(journal.attempt, "pass") => Visible(journal.attempt, "pass")'
    BY <1>29, <2>1, AdvanceReceipts DEF RecoverPublish, TypeOK, Receipt, Visible, Results
  <2>3. TypeOK'
    BY <1>29, <2>1, <2>2 DEF TypeOK, RecoverySteps, RecoverPublish
  <2>4. Locking'
    BY <1>29, <2>1, <2>2 DEF TypeOK, Locking, LoaderSteps, RecoverySteps, RecoverPublish
  <2>5. Current'
    <3>1. \A a \in Attempts \ used, r \in Results : Receipt(a, r)' = Receipt(a, r)
      BY <2>1, <2>2 DEF Current
    <3>2. UNCHANGED <<lock, journal, attempt, phase, created, pc, used>>
      BY <1>29 DEF RecoverPublish
    <3>3. QED
      BY <3>1, <3>2 DEF Current
  <2>6. PassPath'
    BY <1>29, <2>1, <2>2
       DEF TypeOK, Locking, Current, PassPath, Visible, Receipt, Results, OpenPhases,
           Journals, RecoverPublish
  <2>7. ReceiptFirst'
    BY <1>29, <2>1, <2>2
       DEF TypeOK, Locking, Current, PassPath, ReceiptFirst, Visible, Receipt, Results,
           ResultOf, ClosedPhases, OpenPhases, Journals, RecoverPublish
  <2>8. TablePath'
    BY <1>29, <2>1, <2>2
       DEF TypeOK, Locking, Current, PassPath, TablePath, IsLoaded, Visible, Receipt,
           OpenPhases, Journals, RecoverPublish
  <2>9. FinalPath'
    BY <1>29, <2>1, <2>2
       DEF TypeOK, Locking, Current, PassPath, ReceiptFirst, TablePath, FinalPath,
           OpenPhases, ClosedPhases, Results, RecoverPublish
  <2>10. QED
    BY <2>3, <2>4, <2>5, <2>6, <2>7, <2>8, <2>9
<1>30. CASE RecoverRecord("record pass", "pass", "stop")
  <2>1. journal # None /\ journal.attempt \in Attempts /\ journal' \in Journals
        /\ journal' # None /\ journal'.phase = "committed"
        /\ journal'.attempt = journal.attempt
    BY <1>30, RecordJournal
       DEF RecoverRecord, PhaseOf, Phases, ClosedPhases, PassPath, TypeOK, Journals
  <2>2. TypeOK'
    <3>1. rpc' \in RecoverySteps
          /\ UNCHANGED <<table, unit, lock, receipts, used, pc, shell, mishaps>>
      BY <1>30, <2>1 DEF RecoverRecord, RecoverySteps
    <3>2. QED
      BY <1>30, <2>1, <3>1 DEF TypeOK
  <2>3. Locking'
    BY <1>30, <2>1 DEF TypeOK, Locking, LoaderSteps, RecoverySteps, RecoverRecord
  <2>4. Current'
    BY <1>30, <2>1 DEF TypeOK, Locking, Current, Receipt, Results, RecoverRecord
  <2>5. PassPath'
    BY <1>30, <2>1
       DEF TypeOK, Locking, Current, PassPath, Visible, Receipt, Results, OpenPhases,
           RecoverRecord
  <2>6. ReceiptFirst'
    BY <1>30, <2>1
       DEF TypeOK, Locking, Current, PassPath, ReceiptFirst, Visible, Receipt, Results,
           ResultOf, ClosedPhases, OpenPhases, RecoverRecord, PhaseOf
  <2>7. TablePath'
    BY <1>30, <2>1
       DEF TypeOK, Locking, Current, PassPath, TablePath, IsLoaded, Visible, Receipt,
           OpenPhases, RecoverRecord
  <2>8. FinalPath'
    BY <1>30, <2>1
       DEF TypeOK, Locking, Current, PassPath, ReceiptFirst, TablePath, FinalPath,
           OpenPhases, ClosedPhases, Results, RecoverRecord
  <2>9. QED
    BY <2>2, <2>3, <2>4, <2>5, <2>6, <2>7, <2>8
<1>31. CASE RecoverStop
  <2>1. TypeOK'
    <3>1. pc' \in LoaderSteps /\ unit' \in {unit, "failed", "inactive"}
          /\ lock' \in {None, lock} /\ attempt' \in {attempt, None}
          /\ phase' \in {phase, "none"} /\ created' \in {created, "no"}
          /\ rolling' \in {rolling, "no"} /\ result' \in Results
          /\ context' \in {context, "resume"} /\ rpc' \in RecoverySteps
          /\ UNCHANGED <<table, journal, receipts, used, mishaps>>
      BY <1>31 DEF RecoverStop, RecoverySteps, LoaderSteps, Results, End, Reset, TypeOK
    <3>2. QED
      BY <1>31, <3>1 DEF TypeOK
  <2>2. Locking'
    BY <1>31 DEF TypeOK, Locking, LoaderSteps, RecoverySteps, RecoverStop, End, Reset
  <2>3. Current'
    BY <1>31 DEF TypeOK, Locking, Current, Receipt, Results, Journals, RecoverStop, End, Reset
  <2>4. PassPath'
    BY <1>31 DEF TypeOK, Locking, Current, PassPath, Visible, Receipt, Results, OpenPhases,
           Journals, RecoverStop, End, Reset
  <2>5. ReceiptFirst'
    BY <1>31
       DEF TypeOK, Locking, Current, PassPath, ReceiptFirst, Visible, Receipt, Results,
           ResultOf, ClosedPhases, OpenPhases, Journals, RecoverStop, End, Reset
  <2>6. TablePath'
    BY <1>31 DEF TypeOK, Locking, Current, PassPath, TablePath, IsLoaded, Visible, Receipt,
           OpenPhases, Journals, RecoverStop, End, Reset
  <2>7. FinalPath'
    BY <1>31 DEF TypeOK, Locking, Current, PassPath, ReceiptFirst, TablePath, FinalPath,
           OpenPhases, ClosedPhases, Results, RecoverStop, End, Reset
  <2>8. QED
    BY <2>1, <2>2, <2>3, <2>4, <2>5, <2>6, <2>7
<1>32. CASE RecoverTable
  <2>1. TypeOK'
    BY <1>32 DEF TypeOK, RecoverySteps, RecoverTable
  <2>2. Locking'
    BY <1>32 DEF TypeOK, Locking, LoaderSteps, RecoverySteps, RecoverTable
  <2>3. Current'
    BY <1>32 DEF TypeOK, Locking, Current, Receipt, Results, Journals, RecoverTable
  <2>4. PassPath'
    BY <1>32 DEF TypeOK, Locking, Current, PassPath, Visible, Receipt, Results, OpenPhases,
           Journals, RecoverTable
  <2>5. ReceiptFirst'
    BY <1>32
       DEF TypeOK, Locking, Current, PassPath, ReceiptFirst, Visible, Receipt, Results,
           ResultOf, ClosedPhases, OpenPhases, Journals, RecoverTable
  <2>6. TablePath'
    BY <1>32 DEF TypeOK, Locking, Current, PassPath, TablePath, IsLoaded, Visible, Receipt,
           OpenPhases, Journals, RecoverTable
  <2>7. FinalPath'
    BY <1>32 DEF TypeOK, Locking, Current, PassPath, ReceiptFirst, TablePath, FinalPath,
           OpenPhases, ClosedPhases, Results, RecoverTable
  <2>8. QED
    BY <2>1, <2>2, <2>3, <2>4, <2>5, <2>6, <2>7
<1>33. CASE RecoverClose
  <2>1. /\ receipts' \in [Attempts \X Results -> DocStates]
        /\ \A b \in Attempts, q \in Results :
             /\ Receipt(b, q) \in {"absent", "published"} => Receipt(b, q)' = Receipt(b, q)
             /\ Visible(b, q)' <=> Visible(b, q)
    BY <1>33, DiscardReceipts DEF RecoverClose, TypeOK, Journals, Current, Visible, Receipt
  <2>2. TypeOK'
    <3>1. rpc' \in RecoverySteps /\ lock' \in {lock, None}
          /\ UNCHANGED <<table, unit, journal, used, pc, shell, mishaps>>
      BY <1>33, <2>1 DEF RecoverClose, RecoverySteps, TypeOK
    <3>2. QED
      BY <1>33, <2>1, <3>1 DEF TypeOK
  <2>3. Locking'
    BY <1>33, <2>1
       DEF TypeOK, Locking, LoaderSteps, RecoverySteps, RecoverClose, ClosedReceiptValid
  <2>4. Current'
    BY <1>33, <2>1 DEF TypeOK, Locking, Current, Receipt, Results, Journals, RecoverClose,
           ClosedReceiptValid
  <2>5. PassPath'
    BY <1>33, <2>1
       DEF TypeOK, Locking, Current, PassPath, Visible, Receipt, Results, OpenPhases,
           Journals, RecoverClose, ClosedReceiptValid
  <2>6. ReceiptFirst'
    BY <1>33, <2>1
       DEF TypeOK, Locking, Current, PassPath, ReceiptFirst, Visible, Receipt, Results,
           ResultOf, ClosedPhases, OpenPhases, Journals, RecoverClose, ClosedReceiptValid
  <2>7. TablePath'
    BY <1>33, <2>1
       DEF TypeOK, Locking, Current, PassPath, TablePath, IsLoaded, Visible, Receipt,
           OpenPhases, Journals, RecoverClose, ClosedReceiptValid
  <2>8. FinalPath'
    BY <1>33, <2>1
       DEF TypeOK, Locking, Current, PassPath, ReceiptFirst, TablePath, FinalPath,
           OpenPhases, ClosedPhases, Results, RecoverClose, ClosedReceiptValid
  <2>9. QED
    BY <2>2, <2>3, <2>4, <2>5, <2>6, <2>7, <2>8
<1>34. CASE RecoverPublish("publish rollback", "rollback-verified", "record rollback")
  <2>1. journal # None /\ journal.attempt \in Attempts
    BY <1>34 DEF RecoverPublish, PassPath, TypeOK, Journals
  <2>2. /\ receipts' \in [Attempts \X Results -> DocStates]
        /\ \A b \in Attempts, q \in Results : <<b, q>> # <<journal.attempt, "rollback-verified">> =>
             Receipt(b, q)' = Receipt(b, q) /\ (Visible(b, q)' <=> Visible(b, q))
        /\ Receipt(journal.attempt, "rollback-verified") = "published" => Receipt(journal.attempt, "rollback-verified")' = "published"
        /\ Visible(journal.attempt, "rollback-verified") => Visible(journal.attempt, "rollback-verified")'
    BY <1>34, <2>1, AdvanceReceipts DEF RecoverPublish, TypeOK, Receipt, Visible, Results
  <2>3. TypeOK'
    BY <1>34, <2>1, <2>2 DEF TypeOK, RecoverySteps, RecoverPublish
  <2>4. Locking'
    BY <1>34, <2>1, <2>2 DEF TypeOK, Locking, LoaderSteps, RecoverySteps, RecoverPublish
  <2>5. Current'
    <3>1. \A a \in Attempts \ used, r \in Results : Receipt(a, r)' = Receipt(a, r)
      BY <2>1, <2>2 DEF Current
    <3>2. UNCHANGED <<lock, journal, attempt, phase, created, pc, used>>
      BY <1>34 DEF RecoverPublish
    <3>3. QED
      BY <3>1, <3>2 DEF Current
  <2>6. PassPath'
    BY <1>34, <2>1, <2>2
       DEF TypeOK, Locking, Current, PassPath, Visible, Receipt, Results, OpenPhases,
           Journals, RecoverPublish
  <2>7. ReceiptFirst'
    BY <1>34, <2>1, <2>2
       DEF TypeOK, Locking, Current, PassPath, ReceiptFirst, Visible, Receipt, Results,
           ResultOf, ClosedPhases, OpenPhases, Journals, RecoverPublish
  <2>8. TablePath'
    BY <1>34, <2>1, <2>2
       DEF TypeOK, Locking, Current, PassPath, TablePath, IsLoaded, Visible, Receipt,
           OpenPhases, Journals, RecoverPublish
  <2>9. FinalPath'
    BY <1>34, <2>1, <2>2
       DEF TypeOK, Locking, Current, PassPath, ReceiptFirst, TablePath, FinalPath,
           OpenPhases, ClosedPhases, Results, RecoverPublish
  <2>10. QED
    BY <2>3, <2>4, <2>5, <2>6, <2>7, <2>8, <2>9
<1>35. CASE RecoverRecord("record rollback", "rollback-verified", "close")
  <2>1. journal # None /\ journal.attempt \in Attempts /\ journal' \in Journals
        /\ journal' # None /\ journal'.phase = "rolled-back"
        /\ journal'.attempt = journal.attempt
    BY <1>35, RecordJournal
       DEF RecoverRecord, PhaseOf, Phases, ClosedPhases, PassPath, TypeOK, Journals
  <2>2. TypeOK'
    <3>1. rpc' \in RecoverySteps
          /\ UNCHANGED <<table, unit, lock, receipts, used, pc, shell, mishaps>>
      BY <1>35, <2>1 DEF RecoverRecord, RecoverySteps
    <3>2. QED
      BY <1>35, <2>1, <3>1 DEF TypeOK
  <2>3. Locking'
    BY <1>35, <2>1 DEF TypeOK, Locking, LoaderSteps, RecoverySteps, RecoverRecord
  <2>4. Current'
    BY <1>35, <2>1 DEF TypeOK, Locking, Current, Receipt, Results, RecoverRecord
  <2>5. PassPath'
    BY <1>35, <2>1
       DEF TypeOK, Locking, Current, PassPath, Visible, Receipt, Results, OpenPhases,
           RecoverRecord
  <2>6. ReceiptFirst'
    BY <1>35, <2>1
       DEF TypeOK, Locking, Current, PassPath, ReceiptFirst, Visible, Receipt, Results,
           ResultOf, ClosedPhases, OpenPhases, RecoverRecord, PhaseOf
  <2>7. TablePath'
    BY <1>35, <2>1
       DEF TypeOK, Locking, Current, PassPath, TablePath, IsLoaded, Visible, Receipt,
           OpenPhases, RecoverRecord
  <2>8. FinalPath'
    BY <1>35, <2>1
       DEF TypeOK, Locking, Current, PassPath, ReceiptFirst, TablePath, FinalPath,
           OpenPhases, ClosedPhases, Results, RecoverRecord
  <2>9. QED
    BY <2>2, <2>3, <2>4, <2>5, <2>6, <2>7, <2>8
<1>36. CASE RecoverLeave
  <2>1. TypeOK'
    BY <1>36 DEF TypeOK, RecoverySteps, RecoverLeave
  <2>2. Locking'
    BY <1>36 DEF TypeOK, Locking, LoaderSteps, RecoverySteps, RecoverLeave
  <2>3. Current'
    BY <1>36 DEF TypeOK, Locking, Current, Receipt, Results, Journals, RecoverLeave
  <2>4. PassPath'
    BY <1>36 DEF TypeOK, Locking, Current, PassPath, Visible, Receipt, Results, OpenPhases,
           Journals, RecoverLeave
  <2>5. ReceiptFirst'
    BY <1>36
       DEF TypeOK, Locking, Current, PassPath, ReceiptFirst, Visible, Receipt, Results,
           ResultOf, ClosedPhases, OpenPhases, Journals, RecoverLeave
  <2>6. TablePath'
    BY <1>36 DEF TypeOK, Locking, Current, PassPath, TablePath, IsLoaded, Visible, Receipt,
           OpenPhases, Journals, RecoverLeave
  <2>7. FinalPath'
    BY <1>36 DEF TypeOK, Locking, Current, PassPath, ReceiptFirst, TablePath, FinalPath,
           OpenPhases, ClosedPhases, Results, RecoverLeave
  <2>8. QED
    BY <2>1, <2>2, <2>3, <2>4, <2>5, <2>6, <2>7
<1>37. CASE UNCHANGED vars
  <2>1. TypeOK'
    BY <1>37 DEF TypeOK, vars
  <2>2. Locking'
    BY <1>37 DEF TypeOK, Locking, LoaderSteps, RecoverySteps, vars
  <2>3. Current'
    BY <1>37 DEF TypeOK, Locking, Current, Receipt, Results, Journals, vars
  <2>4. PassPath'
    BY <1>37 DEF TypeOK, Locking, Current, PassPath, Visible, Receipt, Results, OpenPhases,
           Journals, vars
  <2>5. ReceiptFirst'
    BY <1>37
       DEF TypeOK, Locking, Current, PassPath, ReceiptFirst, Visible, Receipt, Results,
           ResultOf, ClosedPhases, OpenPhases, Journals, vars
  <2>6. TablePath'
    BY <1>37 DEF TypeOK, Locking, Current, PassPath, TablePath, IsLoaded, Visible, Receipt,
           OpenPhases, Journals, vars
  <2>7. FinalPath'
    BY <1>37 DEF TypeOK, Locking, Current, PassPath, ReceiptFirst, TablePath, FinalPath,
           OpenPhases, ClosedPhases, Results, vars
  <2>8. QED
    BY <2>1, <2>2, <2>3, <2>4, <2>5, <2>6, <2>7
<1>38. QED
  BY <1>1, <1>2, <1>3, <1>4, <1>5, <1>6, <1>7, <1>8, <1>9, <1>10, <1>11, <1>12, <1>13,
     <1>14, <1>15, <1>16, <1>17, <1>18, <1>19, <1>20, <1>21, <1>22, <1>23, <1>24, <1>25, <1>26,
     <1>27, <1>28, <1>29, <1>30, <1>31, <1>32, <1>33, <1>34, <1>35, <1>36, <1>37
     DEF Next, Loader, Recovery, Failures

--------------------------------------------------------------------------------
\* The inductive invariant holds in every reachable state.
THEOREM Invariant == Spec => []IInv
BY InitInv, StepInv, PTL DEF Spec

\* Every variable keeps its type.
THEOREM TypeCorrect == Spec => []TypeOK
<1>1. IInv => TypeOK
  BY DEF IInv
<1>2. QED
  BY <1>1, Invariant, PTL

\* No attempt ever has both a PASS and a verified-rollback receipt, whatever the
\* loader and the recovery do: on_exit and ig_reconcile_published_load_commit
\* look for the PASS receipt before they roll back.
THEOREM NoRollbackBeneathPass == Spec => []NoPassBeneathRollback
<1>1. IInv => NoPassBeneathRollback
  BY DEF IInv, PassPath, NoPassBeneathRollback
<1>2. QED
  BY <1>1, Invariant, PTL

\* A journal is closed only under its published receipt.
THEOREM ReceiptBeforeClose == Spec => []ClosedHasReceipt
<1>1. IInv => ClosedHasReceipt
  BY DEF IInv, ReceiptFirst, ClosedHasReceipt
<1>2. QED
  BY <1>1, Invariant, PTL

\* The unit that kubelet requires is active only while the guard is loaded.
THEOREM ActiveIsLoaded == Spec => []ActiveMeansLoaded
<1>1. IInv => ActiveMeansLoaded
  BY DEF IInv, TablePath, IsLoaded, ActiveMeansLoaded
<1>2. QED
  BY <1>1, Invariant, PTL

\* A live table always has a journal that says an apply may have happened.
THEOREM LiveIsJournaled == Spec => []OwnedTableIsJournaled
<1>1. IInv => OwnedTableIsJournaled
  BY DEF IInv, TablePath, OwnedTableIsJournaled
<1>2. QED
  BY <1>1, Invariant, PTL

\* One step never gives a committed or rolled-back attempt another phase.
LEMMA StepFinal ==
  IInv /\ [Next]_vars =>
    (journal # None /\ journal.phase \in {"committed", "rolled-back"}
       /\ journal'.attempt = journal.attempt
     => journal' = journal)
<1> SUFFICES ASSUME IInv, [Next]_vars, journal # None,
                    journal.phase \in {"committed", "rolled-back"},
                    journal'.attempt = journal.attempt
             PROVE  journal' = journal
  OBVIOUS
<1> USE NoneAssumption DEF IInv, disk
<1>1. journal = [phase |-> journal.phase, attempt |-> journal.attempt]
  BY DEF TypeOK, Journals
<1>2. journal.phase = "committed" => Visible(journal.attempt, "pass")
  BY DEF ReceiptFirst, ResultOf, Visible, ClosedPhases
<1>3. CASE Prepare
  BY <1>3 DEF Prepare, Record, Current
<1>4. CASE Intent \/ Applied \/ Commit \/ Rollback
  BY <1>4 DEF Intent, Applied, Commit, Rollback, Write, TablePath, FinalPath
<1>5. ASSUME pc = "close", Record(PhaseOf(result), attempt)
      PROVE  journal' = journal
  <2>1. attempt = journal.attempt /\ Running
    BY <1>5, AttemptIsJournals DEF AtWork
  <2>2. CASE result = "pass"
    BY <1>1, <1>5, <2>1, <2>2 DEF Record, PhaseOf, PassPath
  <2>3. CASE result # "pass"
    <3>1. journal.phase = "rolled-back" /\ result = "rollback-verified"
      BY <1>2, <1>5, <2>1, <2>3 DEF PassPath, FinalPath, TypeOK, Results
    <3>2. QED
      BY <1>1, <1>5, <2>1, <3>1 DEF Record, PhaseOf
  <2>4. QED
    BY <2>2, <2>3
<1>6. CASE Close
  BY <1>5, <1>6 DEF Close
<1>7. CASE Fail
  <2>1. CASE UNCHANGED journal
    BY <2>1
  <2>2. CASE pc \in Writing /\ Record(Written, attempt)
    <3>1. CASE pc = "close"
      BY <1>5, <2>2, <3>1 DEF Written
    <3>2. CASE pc # "close"
      BY <2>2, <3>2 DEF Writing, TablePath, FinalPath
    <3>3. QED
      BY <3>1, <3>2
  <2>3. QED
    BY <1>7, <2>1, <2>2 DEF Fail
<1>8. CASE RecoverRecord("record pass", "pass", "stop")
  BY <1>8 DEF RecoverRecord, PassPath
<1>9. CASE RecoverRecord("record rollback", "rollback-verified", "close")
  BY <1>9 DEF RecoverRecord, PassPath, OpenPhases
<1>10. CASE UNCHANGED journal
  BY <1>10
<1>11. QED
  BY <1>3, <1>4, <1>6, <1>7, <1>8, <1>9, <1>10
  DEF Next, Loader, Recovery, Failures, vars, Start, Stop, Lock, LockHeld, ResumeClosed,
      ResumePublished, ResumeOpen, Publish, Capture, Apply, VerifyLive,
      ExitPublished, ExitUnpublished, Delete, ApplyFails, DeleteFails, Kill, Reboot, Tamper,
      RecoverLock, RecoverReconcile, RecoverPublish, RecoverStop, RecoverTable, RecoverClose,
      RecoverLeave

\* Receipts and journal agree (load-ingress-guard.sh, on_exit and rollback_load).
THEOREM ReceiptsTellOneStory == Spec => []ReceiptsAgree
BY NoRollbackBeneathPass, ReceiptBeforeClose, PTL DEF ReceiptsAgree

\* Table, unit and journal agree (load-ingress-guard.sh, main script).
THEOREM TableTellsOneStory == Spec => []TableAgrees
BY ActiveIsLoaded, LiveIsJournaled, PTL DEF TableAgrees

\* A committed or rolled-back load attempt keeps its phase for ever.
THEOREM ClosedStaysClosed == Spec => ClosedIsFinal
<1>1. IInv /\ [Next]_vars =>
        [journal # None /\ journal.phase \in {"committed", "rolled-back"}
           /\ journal'.attempt = journal.attempt
         => journal' = journal]_vars
  BY StepFinal
<1>2. QED
  BY <1>1, Invariant, PTL DEF Spec, ClosedIsFinal
================================================================================
