--------------------------- MODULE EtcdSnapshotProofs ---------------------------
(***************************************************************************)
(* Proofs about EtcdSnapshot, for any number of snapshots to retain, any    *)
(* processes, clock and number of failures, kills and power losses.         *)
(*                                                                         *)
(* The argument: the lock keeps runs apart (Holding), so the directory is   *)
(* what the holder's step says; there is never more than one partial        *)
(* (OnePartial), and without kills it is the holder's (Owned); what the     *)
(* holder lists for removal always has Keep later snapshots, whatever was   *)
(* removed meanwhile, and the rest are between one and Keep (Pruning).      *)
(***************************************************************************)
EXTENDS EtcdSnapshot, FiniteSetTheorems, WellFoundedInduction, TLAPS

Later(S, n) == {m \in S : m > n}
AtMostOne(S) == \A d, e \in S : d = e

\* A process between its first and its last step holds the lock.
Holding ==
  /\ \A p \in Procs : At(p, "idle") => run[p] = Idle
  /\ \A p \in Procs : ~At(p, "idle") <=> lock = p
  /\ \A p \in Procs : ~At(p, "idle") /\ ~At(p, "validate") /\ ~At(p, "name") =>
       run[p].name \in Times

\* One partial at most, now and after a power loss; none at most steps.
OnePartial ==
  /\ AtMostOne(partials) /\ AtMostOne(disk[2])
  /\ \A p \in Procs :
       /\ run[p].at \in {"name", "save", "final", "list", "remove", "recheck"} => partials = {}
       /\ run[p].at \in {"verify", "promote"} => partials \subseteq {<<run[p].name, p>>}

\* Without kills the partial is that of a running process that has still to promote it.
Owned ==
  kills = 0 => \A d \in partials :
    lock = d[2] /\ run[d[2]].name = d[1] /\ run[d[2]].at \in {"verify", "promote"}

\* The holder's own snapshot is there to be retained; what it lists has Keep
\* later snapshots; what it does not list are enough and not too many.
Pruning ==
  \A p \in Procs :
    /\ run[p].at \in {"final", "list"} => files # {}
    /\ At(p, "remove") =>
         /\ run[p].victims \subseteq files
         /\ \A n \in run[p].victims : Cardinality(Later(files, n)) >= Keep
         /\ files \ run[p].victims # {}
         /\ Cardinality(files \ run[p].victims) <= Keep
    /\ At(p, "recheck") => files # {} /\ Cardinality(files) <= Keep

IInv == TypeOK /\ Holding /\ OnePartial /\ Owned /\ Pruning /\ LatestRetained

--------------------------------------------------------------------------------
\* Sets of snapshots, and those later than one of them.

\* Names are natural numbers, and there are finitely many.
LEMMA TimesNat == Times \subseteq Nat
BY BoundAssumption DEF Times

LEMMA TimesFinite ==
  ASSUME NEW S \in SUBSET Times
  PROVE  IsFiniteSet(S) /\ Cardinality(S) \in Nat
<1>1. IsFiniteSet(Times)
  BY BoundAssumption, FS_Interval DEF Times
<1>2. QED
  BY <1>1, FS_Subset, FS_CardinalityType

\* A set of snapshots is at least as large as each of its subsets.
LEMMA SubsetCardinality ==
  ASSUME NEW S \in SUBSET Times, NEW T \in SUBSET S
  PROVE  Cardinality(T) <= Cardinality(S)
BY TimesFinite, FS_Subset

\* A set of natural numbers that is not empty has a least element.
LEMMA LeastElement ==
  ASSUME NEW S \in SUBSET Nat, S # {}
  PROVE  \E n \in S : \A m \in S : n <= m
<1> DEFINE R == {s \in Nat \X Nat : s[1] < s[2]}
<1>1. OpToRel(<, Nat) = R
  BY DEF OpToRel
<1>2. IsWellFoundedOn(R, Nat)
  BY <1>1, NatLessThanWellFounded
<1> HIDE DEF R
<1>3. PICK n \in S : \A m \in S : ~ (<<m, n>> \in R)
  BY <1>2, WFMin
<1>4. \A m \in S : n <= m
  <2> SUFFICES ASSUME NEW m \in S PROVE n <= m
    OBVIOUS
  <2>1. m \in Nat /\ n \in Nat
    OBVIOUS
  <2>2. ~ (m < n)
    BY <1>3, <2>1 DEF R
  <2>3. QED
    BY <2>1, <2>2
<1>5. QED
  BY <1>4

\* A set of snapshots that is not empty has a newest one.
LEMMA GreatestElement ==
  ASSUME NEW S \in SUBSET Times, S # {}
  PROVE  \E n \in S : \A m \in S : m <= n
<1> DEFINE R == {MaxTime - m : m \in S}
<1>1. R \in SUBSET Nat /\ R # {}
  <2>1. ASSUME NEW m \in S PROVE MaxTime - m \in Nat
    <3>1. m \in Times
      OBVIOUS
    <3>2. QED
      BY <3>1, BoundAssumption DEF Times
  <2>2. R # {}
    OBVIOUS
  <2>3. QED
    BY <2>1, <2>2
<1>2. PICK k \in R : \A j \in R : k <= j
  BY <1>1, LeastElement
<1>3. PICK n \in S : k = MaxTime - n
  BY <1>2
<1>4. \A m \in S : m <= n
  BY <1>2, <1>3, BoundAssumption DEF Times
<1>5. QED
  BY <1>4

\* What the retention leaves: at least the newest, at most Keep.
LEMMA RestOfBeyond ==
  ASSUME files \in SUBSET Times, files # {}
  PROVE  /\ files \ Beyond # {}
         /\ Cardinality(files \ Beyond) <= Keep
<1> DEFINE rest == files \ Beyond
<1>0. rest \in SUBSET files /\ rest \in SUBSET Times /\ rest \in SUBSET Nat
  BY TimesNat
<1>1. PICK n \in files : \A m \in files : m <= n
  BY GreatestElement
<1>2. {m \in files : m > n} = {}
  <2>1. \A m \in files : m \in Nat /\ n \in Nat
    BY TimesNat
  <2>2. QED
    BY <1>1, <2>1
<1>3. n \in rest
  BY <1>1, <1>2, FS_EmptySet, KeepAssumption DEF Beyond
<1>4. PICK l \in rest : \A m \in rest : l <= m
  <2>1. rest # {}
    BY <1>3
  <2> HIDE DEF rest
  <2>2. QED
    BY <1>0, <2>1, LeastElement
<1>5. rest \ {l} \subseteq {m \in files : m > l}
  <2> HIDE DEF rest
  <2>1. QED
    BY <1>0, <1>4
<1>6. Cardinality({m \in files : m > l}) < Keep
  <2>1. l \in files /\ l \notin Beyond
    BY <1>4
  <2>2. {m \in files : m > l} \in SUBSET Times
    OBVIOUS
  <2>3. Cardinality({m \in files : m > l}) \in Nat
    BY <2>2, TimesFinite
  <2>4. QED
    BY <2>1, <2>3, KeepAssumption DEF Beyond
<1>7. Cardinality(rest \ {l}) <= Cardinality({m \in files : m > l})
  BY <1>5, SubsetCardinality
<1>8. Cardinality(rest \ {l}) = Cardinality(rest) - 1
  BY <1>4, TimesFinite, FS_RemoveElement
<1>9. Cardinality(rest) \in Nat /\ Cardinality({m \in files : m > l}) \in Nat
  BY TimesFinite
<1>10. QED
  BY <1>3, <1>6, <1>7, <1>8, <1>9, KeepAssumption

\* Removing a snapshot with Keep later ones takes none of these from an earlier
\* one that counts Keep: it still does.
LEMMA LaterAfterRemoval ==
  ASSUME NEW S \in SUBSET Times, NEW n \in S, NEW v \in Times, v <= n,
         Cardinality(Later(S, n)) >= Keep
  PROVE  Cardinality(Later(S \ {n}, v)) >= Keep
<1>1. Later(S, n) \subseteq Later(S \ {n}, v)
  <2>1. \A m \in S : m \in Nat /\ n \in Nat /\ v \in Nat
    BY TimesNat
  <2>2. QED
    BY <2>1 DEF Later
<1>2. Later(S \ {n}, v) \in SUBSET Times /\ Later(S, n) \in SUBSET Times
  BY DEF Later
<1>3. QED
  BY <1>1, <1>2, SubsetCardinality, TimesFinite, KeepAssumption

--------------------------------------------------------------------------------
\* The invariant, first of the end of a run, whatever ends it.

\* The directory is empty and nobody runs.
LEMMA InitInv == Init => IInv
<1> SUFFICES ASSUME Init PROVE IInv
  OBVIOUS
<1>1. TypeOK
  BY BoundAssumption DEF Init, TypeOK, Contents, Times, Steps, Idle
<1>2. Holding /\ OnePartial /\ Owned /\ Pruning /\ LatestRetained
  BY ProcAssumption DEF Init, Holding, OnePartial, AtMostOne, Owned, Pruning,
     LatestRetained, At, Idle
<1>3. QED
  BY <1>1, <1>2 DEF IInv

\* The process that is running is the only one.
LEMMA Alone ==
  ASSUME IInv, NEW p \in Procs, ~At(p, "idle")
  PROVE  lock = p /\ \A q \in Procs : q # p => run[q] = Idle
BY DEF IInv, Holding

\* A run that ends leaves nobody running.
LEMMA NobodyLeft ==
  ASSUME IInv, NEW p \in Procs, ~At(p, "idle"), Exit(p)
  PROVE  /\ lock' = None
         /\ run' \in [Procs -> [at : Steps, name : Times \union {None}, victims : SUBSET Times]]
         /\ \A q \in Procs : run'[q] = Idle
<1>1. run \in [Procs -> [at : Steps, name : Times \union {None}, victims : SUBSET Times]]
  BY DEF IInv, TypeOK
<1>2. QED
  BY <1>1, Alone DEF Exit, Idle, Steps

\* With nobody running most of the invariant says nothing.
LEMMA Quiet ==
  ASSUME \A q \in Procs : run'[q] = Idle, lock' = None,
         AtMostOne(partials'), AtMostOne(disk'[2]), kills' = 0 => partials' = {}
  PROVE  Holding' /\ OnePartial' /\ Owned' /\ Pruning'
BY ProcAssumption DEF Holding, OnePartial, Owned, Pruning, At, Idle, AtMostOne

\* The EXIT trap removes the partial of a run that is not killed.
LEMMA Trapped ==
  ASSUME IInv, NEW p \in Procs, ~At(p, "idle"), Cleanup(p)
  PROVE  AtMostOne(partials') /\ (kills = 0 => partials' = {})
<1>1. AtMostOne(partials')
  BY DEF IInv, OnePartial, AtMostOne, Cleanup
<1>2. ASSUME kills = 0, NEW d \in partials PROVE d = <<run[p].name, p>>
  <2>1. d \in Times \X Procs
    BY DEF IInv, TypeOK, Contents
  <2>2. lock = d[2] /\ run[d[2]].name = d[1]
    BY <1>2 DEF IInv, Owned
  <2>3. QED
    BY <2>1, <2>2, Alone
<1>3. QED
  BY <1>1, <1>2 DEF Cleanup

\* A run that dies, wherever it was, leaves the invariant as it was.
LEMMA DieInv ==
  ASSUME IInv, NEW p \in Procs, ~At(p, "idle"), Die(p),
         now' = now, latest' = latest, kills' = kills,
         mishaps' \in 0..MaxMishaps, mishaps' >= mishaps
  PROVE  IInv'
<1>1. TypeOK'
  <2>1. kills' \in 0..mishaps'
    BY BoundAssumption DEF IInv, TypeOK
  <2>2. partials' \subseteq partials /\ files' = files /\ disk' = disk /\ lock' = None
    BY NobodyLeft DEF Die, Cleanup
  <2>3. QED
    BY <2>1, <2>2, NobodyLeft DEF IInv, TypeOK, Contents, Die
<1>2. Holding' /\ OnePartial' /\ Owned' /\ Pruning'
  <2>1. AtMostOne(disk'[2])
    BY DEF IInv, OnePartial, Die
  <2>2. QED
    BY <2>1, NobodyLeft, Trapped, Quiet DEF Die
<1>3. LatestRetained'
  BY DEF IInv, LatestRetained, Die
<1>4. QED
  BY <1>1, <1>2, <1>3 DEF IInv

--------------------------------------------------------------------------------
\* The steps of a run.

\* A run that goes on keeps the lock, and the name it chose.
LEMMA Advances ==
  ASSUME IInv, NEW p \in Procs, ~At(p, "idle"), run[p].name \in Times,
         NEW step \in Steps \ {"idle"}, Goto(p, step), lock' = lock
  PROVE  Holding'
<1>1. lock = p /\ \A q \in Procs : q # p => run[q] = Idle
  BY Alone
<1>2. run'[p].at = step /\ run'[p].name = run[p].name
  BY DEF IInv, TypeOK, Goto
<1>3. \A q \in Procs : q # p => run'[q] = Idle
  BY <1>1 DEF IInv, TypeOK, Goto
<1>4. lock' = p
  BY <1>1
<1>5. \A q \in Procs : q # p => run'[q].at = "idle"
  BY <1>3 DEF Idle
<1>6. QED
  BY <1>2, <1>3, <1>4, <1>5 DEF Holding, At

LEMMA BeginInv ==
  ASSUME IInv, NEW p \in Procs, Begin(p)
  PROVE  IInv'
<1>1. TypeOK'
  BY DEF IInv, TypeOK, Steps, Goto, Begin, dir
<1>2. Holding'
  BY ProcAssumption DEF IInv, TypeOK, Holding, At, Goto, Begin
<1>3. OnePartial'
  BY DEF IInv, OnePartial, Goto, Begin, dir
<1>4. Owned'
  BY ProcAssumption DEF IInv, TypeOK, Owned, Contents, Begin, dir
<1>5. Pruning'
  BY DEF IInv, Pruning, At, Goto, Begin, dir
<1>6. LatestRetained'
  BY DEF IInv, LatestRetained, Begin, dir
<1>7. QED
  BY <1>1, <1>2, <1>3, <1>4, <1>5, <1>6 DEF IInv

LEMMA SaveInv ==
  ASSUME IInv, NEW p \in Procs, Save(p)
  PROVE  IInv'
<1>0. run[p].name \in Times
  BY DEF IInv, Holding, At, Save
<1>1. TypeOK'
  BY <1>0 DEF IInv, TypeOK, Contents, Steps, Goto, Save
<1>2. Holding'
  BY <1>0, Advances DEF At, Save, Steps
<1>3. OnePartial'
  BY Alone DEF IInv, TypeOK, OnePartial, AtMostOne, At, Goto, Save
<1>4. Owned'
  BY Alone DEF IInv, Owned, TypeOK, Contents, OnePartial, At, Goto, Save
<1>5. Pruning'
  BY DEF IInv, Pruning, At, Goto, Save
<1>6. LatestRetained'
  BY DEF IInv, LatestRetained, Save
<1>7. QED
  BY <1>1, <1>2, <1>3, <1>4, <1>5, <1>6 DEF IInv

LEMMA VerifyInv ==
  ASSUME IInv, NEW p \in Procs, Verify(p)
  PROVE  IInv'
<1>0. run[p].name \in Times
  BY DEF IInv, Holding, At, Verify
<1>1. TypeOK'
  BY DEF IInv, TypeOK, Steps, Goto, Verify, dir
<1>2. Holding'
  BY <1>0, Advances DEF At, Verify, Steps
<1>3. OnePartial'
  BY DEF IInv, OnePartial, At, Goto, Verify, dir
<1>4. Owned'
  BY DEF IInv, Owned, Goto, Verify, dir
<1>5. Pruning'
  BY DEF IInv, TypeOK, Pruning, At, Goto, Verify, dir
<1>6. LatestRetained'
  BY DEF IInv, LatestRetained, Verify, dir
<1>7. QED
  BY <1>1, <1>2, <1>3, <1>4, <1>5, <1>6 DEF IInv

LEMMA PromoteInv ==
  ASSUME IInv, NEW p \in Procs, Promote(p)
  PROVE  IInv'
<1>0. run[p].name \in Times
  BY DEF IInv, Holding, At, Promote
<1>1. TypeOK'
  BY <1>0 DEF IInv, TypeOK, Contents, Steps, Goto, Promote
<1>2. Holding'
  BY <1>0, Advances DEF At, Promote, Steps
<1>3. OnePartial'
  BY DEF IInv, OnePartial, AtMostOne, At, Promote
<1>4. Owned'
  BY DEF IInv, TypeOK, OnePartial, Owned, At, Goto, Promote
<1>5. Pruning'
  BY Alone DEF Pruning, At, Goto, Promote
<1>6. LatestRetained'
  BY DEF LatestRetained, Promote
<1>7. QED
  BY <1>1, <1>2, <1>3, <1>4, <1>5, <1>6 DEF IInv

LEMMA FinalInv ==
  ASSUME IInv, NEW p \in Procs, Final(p)
  PROVE  IInv'
<1>0. run[p].name \in Times
  BY DEF IInv, Holding, At, Final
<1>1. TypeOK'
  BY DEF IInv, TypeOK, Steps, Goto, Final, dir
<1>2. Holding'
  BY <1>0, Advances DEF At, Final, Steps
<1>3. OnePartial'
  BY DEF IInv, OnePartial, At, Final, dir
<1>4. Owned'
  BY DEF IInv, OnePartial, Owned, At, Goto, Final, dir
<1>5. Pruning'
  BY DEF IInv, Pruning, At, Goto, Final, dir
<1>6. LatestRetained'
  BY DEF IInv, LatestRetained, Final, dir
<1>7. QED
  BY <1>1, <1>2, <1>3, <1>4, <1>5, <1>6 DEF IInv

LEMMA RemovedInv ==
  ASSUME IInv, NEW p \in Procs, Removed(p)
  PROVE  IInv'
<1>0. run[p].name \in Times
  BY DEF IInv, Holding, At, Removed
<1>1. TypeOK'
  BY DEF IInv, TypeOK, Steps, Goto, Removed, dir
<1>2. Holding'
  BY <1>0, Advances DEF At, Removed, Steps
<1>3. OnePartial'
  BY DEF IInv, OnePartial, At, Removed, dir
<1>4. Owned'
  <2>1. partials = {}
    BY DEF IInv, OnePartial, At, Removed
  <2> QED BY <2>1 DEF Owned, Removed, dir
<1>5. Pruning'
  BY DEF IInv, Pruning, At, Goto, Removed, dir
<1>6. LatestRetained'
  BY DEF IInv, LatestRetained, Removed, dir
<1>7. QED
  BY <1>1, <1>2, <1>3, <1>4, <1>5, <1>6 DEF IInv

LEMMA ValidateInv ==
  ASSUME IInv, NEW p \in Procs, Validate(p)
  PROVE  IInv'
<1>1. CASE partials = {}
  <2>1. TypeOK'
    BY <1>1 DEF IInv, TypeOK, Steps, Goto, Validate, dir
  <2>2. Holding' /\ OnePartial' /\ Owned' /\ Pruning'
    BY <1>1, Alone DEF IInv, TypeOK, Holding, OnePartial, AtMostOne, Owned, Pruning, Idle,
       At, Goto, Validate, dir
  <2>3. LatestRetained'
    BY <1>1 DEF IInv, LatestRetained, Validate, dir
  <2>4. QED
    BY <2>1, <2>2, <2>3 DEF IInv
<1>2. CASE partials # {}
  BY <1>2, DieInv DEF IInv, TypeOK, At, Validate
<1>3. QED
  BY <1>1, <1>2

LEMMA NameInv ==
  ASSUME IInv, NEW p \in Procs, Name(p)
  PROVE  IInv'
<1>1. CASE now \notin files
  <2>1. TypeOK'
    BY <1>1 DEF IInv, TypeOK, Steps, Name, dir
  <2>2. Holding' /\ OnePartial' /\ Owned' /\ Pruning'
    BY <1>1, Alone DEF IInv, TypeOK, Holding, OnePartial, AtMostOne, Owned, Pruning, Idle,
       At, Name, dir
  <2>3. LatestRetained'
    BY <1>1 DEF IInv, LatestRetained, Name, dir
  <2>4. QED
    BY <2>1, <2>2, <2>3 DEF IInv
<1>2. CASE now \in files
  BY <1>2, DieInv DEF IInv, TypeOK, At, Name
<1>3. QED
  BY <1>1, <1>2

LEMMA FinalFailsInv ==
  ASSUME IInv, NEW p \in Procs, FinalFails(p)
  PROVE  IInv'
<1>1. ~At(p, "idle") /\ Exit(p) /\ partials = {}
  BY DEF FinalFails, At, IInv, OnePartial
<1>2. TypeOK'
  <2>1. mishaps' \in 0..MaxMishaps /\ kills' \in 0..mishaps'
    BY BoundAssumption DEF IInv, TypeOK, FinalFails, Failure, Fault
  <2>2. files' \subseteq files /\ UNCHANGED <<partials, disk, now>> /\ latest' = None
    BY DEF FinalFails
  <2>3. QED
    BY <1>1, <2>1, <2>2, NobodyLeft DEF IInv, TypeOK, Contents
<1>3. Holding' /\ OnePartial' /\ Owned' /\ Pruning'
  <2>1. partials' = {} /\ AtMostOne(partials') /\ AtMostOne(disk'[2])
    BY <1>1 DEF IInv, OnePartial, AtMostOne, FinalFails
  <2>2. QED
    BY <1>1, <2>1, NobodyLeft, Quiet
<1>4. LatestRetained'
  BY DEF LatestRetained, FinalFails
<1>5. QED
  BY <1>2, <1>3, <1>4 DEF IInv

LEMMA ListInv ==
  ASSUME IInv, NEW p \in Procs, List(p)
  PROVE  IInv'
<1>1. TypeOK'
  <2>1. Beyond \in SUBSET Times
    BY DEF IInv, TypeOK, Contents, Beyond
  <2>2. QED
    BY <2>1 DEF IInv, TypeOK, Steps, List, dir
<1>2. Holding' /\ OnePartial' /\ Owned'
  <2>1. Holding'
    BY Alone DEF IInv, TypeOK, Holding, Idle, At, List, dir
  <2>2. OnePartial'
    BY Alone DEF IInv, TypeOK, OnePartial, AtMostOne, Idle, At, List, dir
  <2>3. Owned'
    BY DEF IInv, TypeOK, Contents, OnePartial, At, Owned, List, dir
  <2>4. QED
    BY <2>1, <2>2, <2>3
<1>3. Pruning'
  <2>1. files \in SUBSET Times /\ files # {}
    BY DEF IInv, TypeOK, Contents, Pruning, At, List
  <2>2. Beyond \subseteq files /\ \A n \in Beyond : Cardinality(Later(files, n)) >= Keep
    BY DEF Beyond, Later
  <2>3. files \ Beyond # {} /\ Cardinality(files \ Beyond) <= Keep
    BY <2>1, RestOfBeyond
  <2>4. run'[p].at = "remove" /\ run'[p].victims = Beyond /\ files' = files
    BY DEF IInv, TypeOK, List, dir
  <2>5. \A q \in Procs : q # p => run'[q] = Idle
    BY Alone DEF IInv, TypeOK, At, List
  <2>6. QED
    BY <2>2, <2>3, <2>4, <2>5 DEF Pruning, At, Idle
<1>4. LatestRetained'
  BY DEF IInv, LatestRetained, List, dir
<1>5. QED
  BY <1>1, <1>2, <1>3, <1>4 DEF IInv

LEMMA RemoveInv ==
  ASSUME IInv, NEW p \in Procs, Remove(p)
  PROVE  IInv'
<1>1. PICK n \in run[p].victims :
        /\ \A m \in run[p].victims : m <= n
        /\ IF n \in files
             THEN /\ files' = files \ {n}
                  /\ run' = [run EXCEPT ![p].victims = @ \ {n}]
                  /\ UNCHANGED <<lock, partials, disk>>
             ELSE Die(p)
  BY DEF Remove
<1>2. n \in files /\ run[p].victims \subseteq files
  BY DEF IInv, Pruning, Remove
<1>3. files \in SUBSET Times /\ n \in Nat
  BY <1>2, TimesNat DEF IInv, TypeOK, Contents
<1>4. Cardinality(Later(files, n)) >= Keep
  BY DEF IInv, Pruning, Remove
<1>5. TypeOK'
  BY <1>1, <1>2 DEF IInv, TypeOK, Contents, Remove
<1>6. Holding' /\ OnePartial' /\ Owned'
  BY <1>1, <1>2, Alone DEF IInv, TypeOK, Holding, OnePartial, AtMostOne, Owned, Idle, At, Remove
<1>7. Pruning'
  <2>1. /\ files' = files \ {n} /\ run'[p].at = "remove"
        /\ run'[p].victims = run[p].victims \ {n}
    BY <1>1, <1>2 DEF IInv, TypeOK, At, Remove
  <2>2. \A q \in Procs : q # p => run'[q] = Idle
    BY <1>1, <1>2, Alone DEF IInv, TypeOK, At, Remove
  <2>3. \A v \in run'[p].victims : Cardinality(Later(files', v)) >= Keep
    BY <1>1, <1>2, <1>3, <1>4, <2>1, LaterAfterRemoval
  <2>4. files' \ run'[p].victims = files \ run[p].victims
    BY <1>1, <1>2, <2>1
  <2>5. files \ run[p].victims # {} /\ Cardinality(files \ run[p].victims) <= Keep
    BY DEF IInv, Pruning, Remove
  <2>6. QED
    BY <1>2, <2>1, <2>2, <2>3, <2>4, <2>5 DEF Pruning, At, Idle
<1>8. LatestRetained'
  <2>1. files' = files \ {n} /\ latest' = latest
    BY <1>1, <1>2 DEF Remove
  <2>2. CASE latest = None \/ (latest \in files /\ latest # n)
    BY <2>1, <2>2 DEF LatestRetained
  <2>3. CASE latest # None /\ (latest \notin files \/ latest = n)
    <3>1. latest \in Times /\ latest \in Nat /\ Cardinality(Later(files, latest)) >= Keep
      BY <1>4, <2>3, TimesNat DEF IInv, TypeOK, LatestRetained, Later
    <3>2. CASE latest <= n
      BY <1>2, <1>3, <1>4, <2>1, <3>1, <3>2, LaterAfterRemoval DEF LatestRetained, Later
    <3>3. CASE ~(latest <= n)
      <4>1. Later(files', latest) = Later(files, latest)
        BY <1>3, <2>1, <3>1, <3>3 DEF Later
      <4>2. QED
        BY <2>1, <3>1, <4>1 DEF LatestRetained, Later
    <3>4. QED
      BY <3>2, <3>3
  <2>4. QED
    BY <2>2, <2>3
<1>9. QED
  BY <1>5, <1>6, <1>7, <1>8 DEF IInv

LEMMA RecheckInv ==
  ASSUME IInv, NEW p \in Procs, Recheck(p)
  PROVE  IInv'
<1>1. ~At(p, "idle") /\ partials = {}
  BY DEF IInv, OnePartial, At, Recheck
<1>2. CASE Retained
  <2>1. Exit(p) /\ UNCHANGED <<dir, now, latest, mishaps, kills>>
    BY <1>2 DEF Recheck
  <2>2. TypeOK'
    BY <1>1, <2>1, NobodyLeft DEF IInv, TypeOK, dir
  <2>3. partials' = {} /\ AtMostOne(partials') /\ AtMostOne(disk'[2])
    BY <1>1, <2>1 DEF IInv, OnePartial, AtMostOne, dir
  <2>4. Holding' /\ OnePartial' /\ Owned' /\ Pruning'
    BY <1>1, <2>1, <2>3, NobodyLeft, Quiet
  <2>5. LatestRetained'
    BY <2>1 DEF IInv, LatestRetained, dir
  <2>6. QED
    BY <2>2, <2>4, <2>5 DEF IInv
<1>3. CASE ~Retained
  BY <1>1, <1>3, DieInv DEF IInv, TypeOK, Recheck
<1>4. QED
  BY <1>2, <1>3

--------------------------------------------------------------------------------
\* The environment.

LEMMA FailInv ==
  ASSUME IInv, NEW p \in Procs, Fail(p)
  PROVE  IInv'
BY DieInv, BoundAssumption DEF IInv, TypeOK, Fail, Failure, Fault

LEMMA KillInv ==
  ASSUME IInv, NEW p \in Procs, Kill(p)
  PROVE  IInv'
<1>1. ~At(p, "idle") /\ Exit(p)
  BY DEF Kill
<1>2. partials' = partials \/ (At(p, "save") /\ partials' = partials \union {<<run[p].name, p>>})
  BY DEF Kill
<1>3. AtMostOne(partials') /\ AtMostOne(disk'[2])
  BY <1>2 DEF IInv, OnePartial, AtMostOne, At, Kill
<1>4. kills' # 0
  BY DEF IInv, TypeOK, Kill, Killing, Fault
<1>5. TypeOK'
  <2>1. At(p, "save") => run[p].name \in Times
    BY DEF IInv, Holding, At
  <2>2. partials' \in SUBSET (Times \X Procs)
    BY <1>2, <2>1 DEF IInv, TypeOK, Contents
  <2>3. mishaps' \in 0..MaxMishaps /\ kills' \in 0..mishaps'
    BY BoundAssumption DEF IInv, TypeOK, Kill, Killing, Fault
  <2>4. QED
    BY <1>1, <2>2, <2>3, NobodyLeft DEF IInv, TypeOK, Contents, Kill
<1>6. Holding' /\ OnePartial' /\ Owned' /\ Pruning'
  BY <1>1, <1>3, <1>4, NobodyLeft, Quiet
<1>7. LatestRetained'
  BY DEF IInv, LatestRetained, Kill
<1>8. QED
  BY <1>5, <1>6, <1>7 DEF IInv

LEMMA PowerLossInv == ASSUME IInv, PowerLoss PROVE IInv'
<1>1. mishaps' \in 0..MaxMishaps /\ kills' \in 0..mishaps' /\ kills' # 0
  BY BoundAssumption DEF IInv, TypeOK, PowerLoss, Killing, Fault
<1>2. TypeOK'
  BY <1>1 DEF IInv, TypeOK, Contents, Idle, Steps, PowerLoss
<1>3. AtMostOne(partials') /\ AtMostOne(disk'[2])
  BY DEF IInv, OnePartial, PowerLoss
<1>4. Holding' /\ OnePartial' /\ Owned' /\ Pruning'
  BY <1>1, <1>3, Quiet DEF PowerLoss
<1>5. LatestRetained'
  BY DEF LatestRetained, PowerLoss
<1>6. QED
  BY <1>2, <1>4, <1>5 DEF IInv

LEMMA CommitInv == ASSUME IInv, Commit PROVE IInv'
<1>1. TypeOK'
  BY DEF IInv, TypeOK, Commit
<1>2. OnePartial'
  BY DEF IInv, OnePartial, Commit
<1>3. Holding' /\ Owned' /\ Pruning' /\ LatestRetained'
  BY DEF IInv, Holding, Owned, Pruning, LatestRetained, At, Commit
<1>4. QED
  BY <1>1, <1>2, <1>3 DEF IInv

\* The clock, forward or back.
LEMMA ClockInv == ASSUME IInv, Tick \/ ClockBack PROVE IInv'
<1>1. TypeOK'
  BY BoundAssumption DEF IInv, TypeOK, Times, Tick, ClockBack, Failure, Fault, dir
<1>2. kills' = kills
  BY DEF IInv, TypeOK, Tick, ClockBack, Failure, Fault
<1>3. Holding' /\ OnePartial' /\ Owned' /\ Pruning' /\ LatestRetained'
  BY <1>2 DEF IInv, Holding, OnePartial, Owned, Pruning, LatestRetained, At, Tick, ClockBack, dir
<1>4. QED
  BY <1>1, <1>3 DEF IInv

LEMMA StutterInv == ASSUME IInv, UNCHANGED vars PROVE IInv'
BY DEF IInv, TypeOK, Holding, OnePartial, Owned, Pruning, LatestRetained, At, vars, dir

\* Every step preserves the invariant.
LEMMA StepInv == ASSUME IInv, [Next]_vars PROVE IInv'
<1>1. ASSUME NEW p \in Procs, Apply(p) PROVE IInv'
  BY <1>1, BeginInv, ValidateInv, NameInv, SaveInv, VerifyInv, PromoteInv, FinalInv,
     FinalFailsInv, ListInv, RemoveInv, RemovedInv, RecheckInv DEF Apply
<1>2. ASSUME NEW p \in Procs, Fail(p) \/ Kill(p) PROVE IInv'
  BY <1>2, FailInv, KillInv
<1>3. CASE PowerLoss \/ Commit \/ Tick \/ ClockBack
  BY <1>3, PowerLossInv, CommitInv, ClockInv
<1>4. CASE UNCHANGED vars
  BY <1>4, StutterInv
<1>5. QED
  BY <1>1, <1>2, <1>3, <1>4 DEF Next

\* What IInv says holds in every reachable state.
THEOREM Invariant == Spec => []IInv
BY InitInv, StepInv, PTL DEF Spec

--------------------------------------------------------------------------------
\* Every variable keeps its type.
THEOREM TypeCorrect == Spec => []TypeOK
<1>1. IInv => TypeOK
  BY DEF IInv
<1>2. QED
  BY <1>1, Invariant, PTL

\* The snapshot last put in place is there unless Keep others have later names:
\* by the lock, no other run's listing can take it.
THEOREM LatestStays == Spec => []LatestRetained
<1>1. IInv => LatestRetained
  BY DEF IInv
<1>2. QED
  BY <1>1, Invariant, PTL

LEMMA RetentionRight == ASSUME IInv PROVE RetentionSucceeds
<1> SUFFICES ASSUME NEW p \in Procs, At(p, "recheck") PROVE Retained
  BY DEF RetentionSucceeds
<1>1. partials = {}
  BY DEF IInv, OnePartial, At
<1>2. files \in SUBSET Times /\ files # {} /\ Cardinality(files) <= Keep
  BY DEF IInv, TypeOK, Contents, Pruning
<1>3. Cardinality(files) \in Nat /\ Cardinality(files) # 0
  BY <1>2, TimesFinite, FS_EmptySet
<1>4. QED
  BY <1>1, <1>2, <1>3, KeepAssumption DEF Retained

\* The last check of a run that got that far cannot fail: between one and Keep
\* snapshots are there, and no partial, however many runs were interrupted.
THEOREM RetentionCompletes == Spec => []RetentionSucceeds
BY RetentionRight, Invariant, PTL

\* A partial is the only one, and outlives its run only after a kill or a power
\* loss.
THEOREM PartialsAreCleaned == Spec => []PartialsCleaned
<1>1. IInv => PartialsCleaned
  <2> SUFFICES ASSUME IInv PROVE PartialsCleaned
    OBVIOUS
  <2>1. AtMostOne(partials)
    BY DEF IInv, OnePartial
  <2>2. CASE partials = {}
    BY <2>2, FS_EmptySet DEF PartialsCleaned
  <2>3. CASE partials # {}
    <3>1. PICK d \in partials : partials = {d}
      BY <2>1, <2>3 DEF AtMostOne
    <3>2. Cardinality(partials) = 1
      BY <3>1, FS_Singleton
    <3>3. QED
      BY <3>2 DEF PartialsCleaned, IInv, Owned
  <2>4. QED
    BY <2>2, <2>3
<1>2. QED
  BY <1>1, Invariant, PTL

\* A run that meets no failure passes, unless its name is taken or a kill or a power
\* loss left a partial before it (etcd-snapshot.sh, validate_snapshot_files).
THEOREM RunsPass == Spec => UndisturbedRunsPass
<1> DEFINE Ends(p) == ~At(p, "idle") /\ At(p, "idle")' /\ mishaps' = mishaps
           Cause(p) == \/ At(p, "recheck") /\ Retained
                       \/ At(p, "name") /\ now \in files
                       \/ At(p, "validate") /\ partials # {} /\ kills # 0
<1>1. ASSUME IInv, NEW p \in Procs, Ends(p), NEW q \in Procs, Apply(q) PROVE Cause(p)
  <2>1. q = p
    <3>1. lock = p
      BY <1>1 DEF IInv, Holding
    <3>2. q # p => At(q, "idle")
      BY <1>1, <3>1 DEF IInv, Holding
    <3>3. At(q, "idle") => Begin(q)
      BY <1>1 DEF Apply, Begin, Validate, Name, Save, Verify, Promote, Final, FinalFails,
         List, Remove, Removed, Recheck, At
    <3>4. Begin(q) => lock = None
      BY DEF Begin
    <3> QED BY <3>1, <3>2, <3>3, <3>4, ProcAssumption
  <2>2. run'[p].at = "idle"
    BY <1>1 DEF At
  <2>3. ~Begin(p) /\ ~Save(p) /\ ~Verify(p) /\ ~Promote(p) /\ ~Final(p) /\ ~List(p)
        /\ ~Removed(p)
    BY <1>1, <2>2 DEF IInv, TypeOK, Begin, Save, Verify, Promote, Final, List, Removed, Goto
  <2>4. CASE Validate(p)
    <3>1. partials # {}
      BY <1>1, <2>2, <2>4 DEF IInv, TypeOK, Validate, Goto
    <3>2. PICK d \in partials : TRUE
      BY <3>1
    <3>3. kills = 0 => lock = d[2] /\ run[d[2]].at \in {"verify", "promote"}
      BY <1>1 DEF IInv, Owned
    <3>4. lock = p /\ At(p, "validate")
      BY <1>1, <2>4 DEF IInv, Holding, Validate
    <3> QED BY <3>1, <3>3, <3>4 DEF At
  <2>5. CASE Name(p)
    BY <1>1, <2>2, <2>5 DEF IInv, TypeOK, Name
  <2>6. ~FinalFails(p)
    BY <1>1 DEF IInv, TypeOK, FinalFails, Failure, Fault
  <2>7. ~Remove(p)
    BY <1>1, <2>2 DEF IInv, TypeOK, Pruning, Remove, At
  <2>8. CASE Recheck(p)
    <3>1. IInv => RetentionSucceeds
      BY RetentionRight
    <3> QED BY <1>1, <2>8, <3>1 DEF RetentionSucceeds, Recheck
  <2> QED BY <1>1, <2>1, <2>3, <2>4, <2>5, <2>6, <2>7, <2>8 DEF Apply
<1>2. ASSUME IInv, NEW p \in Procs, Ends(p), ~(\E q \in Procs : Apply(q)), Next PROVE FALSE
  <2>1. ~(\E q \in Procs : Fail(q) \/ Kill(q)) /\ ~PowerLoss
    BY <1>2 DEF IInv, TypeOK, Fail, Kill, PowerLoss, Failure, Killing, Fault
  <2>2. CASE Commit \/ Tick \/ ClockBack
    BY <1>2, <2>2 DEF Commit, Tick, ClockBack, At
  <2> QED BY <1>2, <2>1, <2>2 DEF Next
<1>3. IInv /\ [Next]_vars => [\A p \in Procs : Ends(p) => Cause(p)]_vars
  BY <1>1, <1>2
<1> QED BY <1>3, Invariant, PTL DEF Spec, UndisturbedRunsPass

\* Whatever step removes a snapshot, Keep later ones stay, unless the run that
\* took it finds it unsound or a power loss undoes it: a listing made before
\* other runs were interrupted, or before the clock went back, included.
THEOREM RetentionIsSafe == Spec => RetentionSparesNewest
<1> DEFINE Spares(n) ==
      \/ Cardinality({m \in files' : m > n}) >= Keep
      \/ \E p \in Procs : At(p, "final") /\ run[p].name = n
      \/ PowerLoss
<1>1. ASSUME IInv, NEW p \in Procs, Remove(p), NEW n \in files \ files' PROVE Spares(n)
  <2>1. n \in run[p].victims /\ files' = files \ {n}
    BY <1>1 DEF IInv, Pruning, Remove
  <2>2. n \in Times /\ n \in Nat /\ files \in SUBSET Times
    BY <1>1, TimesNat DEF IInv, TypeOK, Contents
  <2>3. Cardinality(Later(files, n)) >= Keep
    BY <1>1, <2>1 DEF IInv, Pruning, Remove
  <2>4. Cardinality(Later(files \ {n}, n)) >= Keep
    BY <2>1, <2>2, <2>3, LaterAfterRemoval
  <2>5. QED
    BY <2>1, <2>4 DEF Later
<1>2. ASSUME IInv, NEW p \in Procs, FinalFails(p), NEW n \in files \ files' PROVE Spares(n)
  BY <1>2 DEF FinalFails
<1>3. ASSUME NEW p \in Procs,
             \/ Begin(p) \/ Validate(p) \/ Name(p) \/ Save(p) \/ Verify(p) \/ Promote(p)
             \/ Final(p) \/ List(p) \/ Removed(p) \/ Recheck(p) \/ Fail(p) \/ Kill(p)
      PROVE  files \subseteq files'
  BY <1>3 DEF Begin, Validate, Name, Save, Verify, Promote, Final, List, Removed, Recheck,
     Fail, Kill, Die, dir
<1>4. ASSUME Commit \/ Tick \/ ClockBack PROVE files' = files
  BY <1>4 DEF Commit, Tick, ClockBack, dir
<1>5. IInv /\ [Next]_vars => [\A n \in files \ files' : Spares(n)]_vars
  <2> HIDE DEF Spares
  <2> SUFFICES ASSUME IInv, Next, NEW n \in files \ files' PROVE Spares(n)
    OBVIOUS
  <2>1. CASE \E p \in Procs : Apply(p) \/ Fail(p) \/ Kill(p)
    BY <1>1, <1>2, <1>3, <2>1 DEF Apply
  <2>2. CASE PowerLoss
    BY <2>2 DEF Spares
  <2>3. QED
    BY <1>4, <2>1, <2>2 DEF Next
<1>6. QED
  BY <1>5, Invariant, PTL DEF Spec, RetentionSparesNewest
================================================================================
