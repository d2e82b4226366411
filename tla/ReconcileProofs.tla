--------------------------- MODULE ReconcileProofs ---------------------------
(***************************************************************************)
(* Theorems about Reconcile for every set of processes, every set of       *)
(* fingerprints and every set of faults.                                   *)
(***************************************************************************)
EXTENDS Reconcile, TLAPS

(* The inductive invariant.  ReportMatchesDisk is not inductive alone: it   *)
(* needs LockExcludes, because a second process inside the pipeline could   *)
(* overwrite the record between the write and the report of the first.      *)
IInv == /\ TypeOK
        /\ LockExcludes
        /\ ReportMatchesDisk
        /\ AcknowledgedWasReceived

USE DEF GoTo

LEMMA BlankIsRecord == Blank \in Records
  BY DEF Blank, Records, Values

(* Types are preserved by every step of every process and of the outside.   *)
LEMMA TypeStep == TypeOK /\ [Next]_vars => TypeOK'
<1> SUFFICES ASSUME TypeOK, [Next]_vars PROVE TypeOK'
  OBVIOUS
<1> USE DEF TypeOK
<1>1. ASSUME NEW p \in Procs, Process(p) PROVE TypeOK'
  <2> USE <1>1, BlankIsRecord DEF central, wire, Points, Critical
  <2>1. CASE Start(p)
    BY <2>1 DEF Start
  <2>2. CASE Stop(p)
    BY <2>2 DEF Stop
  <2>3. CASE Tick(p)
    BY <2>3 DEF Tick
  <2>4. CASE Crash(p)
    BY <2>4 DEF Crash
  <2>5. CASE AcquireLock(p)
    BY <2>5 DEF AcquireLock
  <2>6. CASE SkipHeld(p)
    BY <2>6 DEF SkipHeld
  <2>7. CASE LockFails(p)
    BY <2>7 DEF LockFails
  <2>8. CASE FetchNothing(p)
    BY <2>8 DEF FetchNothing
  <2>9. CASE FetchDesired(p)
    BY <2>9 DEF FetchDesired, Records
  <2>10. CASE Prepare(p)
    BY <2>10 DEF Prepare
  <2>11. CASE PrepareFails(p)
    BY <2>11 DEF PrepareFails
  <2>12. CASE PersistApplied(p)
    BY <2>12 DEF PersistApplied, Records
  <2>13. CASE PersistAppliedFails(p)
    BY <2>13 DEF PersistAppliedFails, Records
  <2>14. CASE PostAcked(p)
    BY <2>14 DEF PostAcked, Records
  <2>15. CASE PostFails(p)
    BY <2>15 DEF PostFails
  <2>16. CASE PostUnanswered(p)
    BY <2>16 DEF PostUnanswered, Records
  <2>17. CASE PersistReported(p)
    BY <2>17 DEF PersistReported
  <2>18. CASE PersistReportedFails(p)
    BY <2>18 DEF PersistReportedFails
  <2>19. CASE Release(p)
    BY <2>19 DEF Release
  <2> QED
    BY <2>1, <2>2, <2>3, <2>4, <2>5, <2>6, <2>7, <2>8, <2>9, <2>10, <2>11,
       <2>12, <2>13, <2>14, <2>15, <2>16, <2>17, <2>18, <2>19
       DEF Process, Reconciles
<1>2. CASE Environment
  BY <1>2 DEF Environment, ChangeDesired, DeliverLate, LoseLate,
              OperatorRemovesLock, node, central, wire
<1>3. CASE UNCHANGED vars
  BY <1>3 DEF vars
<1> QED
  BY <1>1, <1>2, <1>3 DEF Next

(* The type invariant of the pipeline: convergence.json and every process's *)
(* record always hold fingerprints, and the lock file is nobody's or some   *)
(* process's.                                                               *)
THEOREM TypeCorrect == Spec => []TypeOK
<1>1. Init => TypeOK
  BY BlankIsRecord DEF Init, TypeOK, Points, Values
<1> QED
  BY <1>1, TypeStep, PTL DEF Spec

-----------------------------------------------------------------------------
(* A process enters the critical section only through a free lock, and only *)
(* the owner, or the careful operator, removes the file.                    *)
LEMMA LockStep == TypeOK /\ LockExcludes /\ [Next]_vars => LockExcludes'
<1> SUFFICES ASSUME TypeOK, LockExcludes, [Next]_vars, NEW q \in Procs,
                    pc'[q] \in Critical
             PROVE  lockFile' = q
  BY DEF LockExcludes
<1> USE ProcsAssumption DEF TypeOK, LockExcludes, Critical
<1>1. ASSUME NEW p \in Procs, Process(p) PROVE lockFile' = q
  <2> USE <1>1
  <2>1. CASE Start(p) \/ Stop(p) \/ Tick(p) \/ Crash(p)
    BY <2>1 DEF Start, Stop, Tick, Crash
  <2>2. CASE AcquireLock(p)
    BY <2>2 DEF AcquireLock
  <2>3. CASE SkipHeld(p) \/ LockFails(p)
    BY <2>3 DEF SkipHeld, LockFails
  <2>4. CASE FetchNothing(p) \/ FetchDesired(p)
    BY <2>4 DEF FetchNothing, FetchDesired
  <2>5. CASE Prepare(p) \/ PrepareFails(p)
    BY <2>5 DEF Prepare, PrepareFails
  <2>6. CASE PersistApplied(p) \/ PersistAppliedFails(p)
    BY <2>6 DEF PersistApplied, PersistAppliedFails
  <2>7. CASE PostAcked(p) \/ PostFails(p) \/ PostUnanswered(p)
    BY <2>7 DEF PostAcked, PostFails, PostUnanswered
  <2>8. CASE PersistReported(p) \/ PersistReportedFails(p)
    BY <2>8 DEF PersistReported, PersistReportedFails
  <2>9. CASE Release(p)
    BY <2>9 DEF Release
  <2> QED
    BY <2>1, <2>2, <2>3, <2>4, <2>5, <2>6, <2>7, <2>8, <2>9
       DEF Process, Reconciles
<1>2. CASE Environment
  BY <1>2 DEF Environment, ChangeDesired, DeliverLate, LoseLate,
              OperatorRemovesLock, node
<1>3. CASE UNCHANGED vars
  BY <1>3 DEF vars
<1> QED
  BY <1>1, <1>2, <1>3 DEF Next

(* Nobody else writes the record while a process is about to report it.     *)
LEMMA ReportStep ==
  TypeOK /\ LockExcludes /\ ReportMatchesDisk /\ [Next]_vars
    => ReportMatchesDisk'
<1> SUFFICES ASSUME TypeOK, LockExcludes, ReportMatchesDisk, [Next]_vars,
                    NEW q \in Procs, pc'[q] \in {"post", "record"}
             PROVE  disk'.applied = memory'[q].applied
  BY DEF ReportMatchesDisk
<1> USE DEF TypeOK, ReportMatchesDisk
<1>1. ASSUME NEW p \in Procs, Process(p)
      PROVE  disk'.applied = memory'[q].applied
  <2> USE <1>1
  <2>1. CASE Start(p) \/ Stop(p) \/ Tick(p) \/ Crash(p)
    BY <2>1 DEF Start, Stop, Tick, Crash
  <2>2. CASE AcquireLock(p) \/ SkipHeld(p) \/ LockFails(p) \/ Release(p)
    BY <2>2 DEF AcquireLock, SkipHeld, LockFails, Release
  <2>3. CASE FetchNothing(p) \/ FetchDesired(p)
    BY <2>3 DEF FetchNothing, FetchDesired
  <2>4. CASE Prepare(p) \/ PrepareFails(p)
    BY <2>4 DEF Prepare, PrepareFails
  <2>5. CASE PersistApplied(p)
    <3>1. CASE p = q
      BY <2>5, <3>1 DEF PersistApplied
    <3>2. CASE p # q
      <4>1. pc[q] \in Critical /\ pc[p] \in Critical
        BY <2>5, <3>2 DEF PersistApplied, Critical
      <4> QED
        BY <4>1, <3>2 DEF LockExcludes
    <3> QED
      BY <3>1, <3>2
  <2>6. CASE PersistAppliedFails(p)
    BY <2>6 DEF PersistAppliedFails
  <2>7. CASE PostAcked(p)
    BY <2>7 DEF PostAcked, Records
  <2>8. CASE PostFails(p) \/ PostUnanswered(p)
    BY <2>8 DEF PostFails, PostUnanswered
  <2>9. CASE PersistReported(p)
    <3>1. CASE p = q
      BY <2>9, <3>1 DEF PersistReported
    <3>2. CASE p # q
      <4>1. pc[q] \in Critical /\ pc[p] \in Critical
        BY <2>9, <3>2 DEF PersistReported, Critical
      <4> QED
        BY <4>1, <3>2 DEF LockExcludes
    <3> QED
      BY <3>1, <3>2
  <2>10. CASE PersistReportedFails(p)
    BY <2>10 DEF PersistReportedFails
  <2> QED
    BY <2>1, <2>2, <2>3, <2>4, <2>5, <2>6, <2>7, <2>8, <2>9, <2>10
       DEF Process, Reconciles
<1>2. CASE Environment
  BY <1>2 DEF Environment, ChangeDesired, DeliverLate, LoseLate,
              OperatorRemovesLock, node
<1>3. CASE UNCHANGED vars
  BY <1>3 DEF vars
<1> QED
  BY <1>1, <1>2, <1>3 DEF Next

(* "reported" is only ever assigned after an acknowledged report, and all   *)
(* other records are copies.                                                *)
LEMMA AcknowledgedStep ==
  TypeOK /\ AcknowledgedWasReceived /\ [Next]_vars => AcknowledgedWasReceived'
<1> DEFINE Known(r, R) == r.reported \in R \cup {NoFingerprint}
<1> SUFFICES ASSUME TypeOK, AcknowledgedWasReceived, [Next]_vars
             PROVE  /\ \A q \in Procs : Known(memory'[q], received')
                    /\ Known(disk', received')
  BY DEF AcknowledgedWasReceived
<1>0. /\ \A q \in Procs : Known(memory[q], received)
      /\ Known(disk, received)
      /\ Known(Blank, received)
  BY DEF AcknowledgedWasReceived, Blank
<1> USE <1>0 DEF TypeOK
<1>1. ASSUME NEW p \in Procs, Process(p)
      PROVE  /\ \A q \in Procs : Known(memory'[q], received')
             /\ Known(disk', received')
  <2> USE <1>1 DEF central
  <2>1. CASE Start(p) \/ Stop(p) \/ Tick(p) \/ Crash(p)
    BY <2>1 DEF Start, Stop, Tick, Crash
  <2>2. CASE AcquireLock(p) \/ SkipHeld(p) \/ LockFails(p) \/ Release(p)
    BY <2>2 DEF AcquireLock, SkipHeld, LockFails, Release
  <2>3. CASE FetchNothing(p) \/ FetchDesired(p)
    BY <2>3 DEF FetchNothing, FetchDesired, Records
  <2>4. CASE Prepare(p) \/ PrepareFails(p)
    BY <2>4 DEF Prepare, PrepareFails
  <2>5. CASE PersistApplied(p) \/ PersistAppliedFails(p)
    BY <2>5 DEF PersistApplied, PersistAppliedFails, Records
  <2>6. CASE PostAcked(p)
    BY <2>6 DEF PostAcked, Records
  <2>7. CASE PostFails(p) \/ PostUnanswered(p)
    BY <2>7 DEF PostFails, PostUnanswered
  <2>8. CASE PersistReported(p) \/ PersistReportedFails(p)
    BY <2>8 DEF PersistReported, PersistReportedFails
  <2> QED
    BY <2>1, <2>2, <2>3, <2>4, <2>5, <2>6, <2>7, <2>8
       DEF Process, Reconciles
<1>2. CASE Environment
  BY <1>2 DEF Environment, ChangeDesired, DeliverLate, LoseLate,
              OperatorRemovesLock, node, central, wire
<1>3. CASE UNCHANGED vars
  BY <1>3 DEF vars
<1> QED
  BY <1>1, <1>2, <1>3 DEF Next

(* The inductive invariant holds in every reachable state.                  *)
THEOREM Inductive == Spec => []IInv
<1>1. Init => IInv
  <2> SUFFICES ASSUME Init PROVE IInv
    OBVIOUS
  <2>1. TypeOK
    BY BlankIsRecord DEF Init, TypeOK, Points, Values
  <2>2. LockExcludes /\ ReportMatchesDisk
    BY DEF Init, LockExcludes, ReportMatchesDisk, Critical
  <2>3. AcknowledgedWasReceived
    BY DEF Init, AcknowledgedWasReceived, Blank
  <2> QED
    BY <2>1, <2>2, <2>3 DEF IInv
<1>2. IInv /\ [Next]_vars => IInv'
  BY TypeStep, LockStep, ReportStep, AcknowledgedStep DEF IInv
<1> QED
  BY <1>1, <1>2, PTL DEF Spec

(* Mutual exclusion of deploys, whatever crashes and whenever the careful   *)
(* operator deletes a stale lock file.                                      *)
THEOREM LockSafe == Spec => []LockExcludes
<1>1. IInv => LockExcludes
  BY DEF IInv
<1> QED
  BY <1>1, Inductive, PTL

(* What a process tells Central is what convergence.json says is applied.   *)
THEOREM ReportSafe == Spec => []ReportMatchesDisk
<1>1. IInv => ReportMatchesDisk
  BY DEF IInv
<1> QED
  BY <1>1, Inductive, PTL

(* A fingerprint recorded as reported has been received by Central.         *)
THEOREM AcknowledgementSafe == Spec => []AcknowledgedWasReceived
<1>1. IInv => AcknowledgedWasReceived
  BY DEF IInv
<1> QED
  BY <1>1, Inductive, PTL

(* Two processes are never inside the pipeline together.                    *)
THEOREM OneDeploy ==
  Spec => [](\A p, q \in Procs : pc[p] \in Critical /\ pc[q] \in Critical
                                   => p = q)
<1>1. LockExcludes => \A p, q \in Procs :
        pc[p] \in Critical /\ pc[q] \in Critical => p = q
  BY DEF LockExcludes
<1> QED
  BY <1>1, LockSafe, PTL

-----------------------------------------------------------------------------
(* With one process per state directory and no report unsettled, what the   *)
(* node remembers as reported is exactly Central's last report: in memory   *)
(* while the process runs, on disk except between a report and its          *)
(* recording; and nothing is on its way that could change that.             *)
InStep ==
    ~unsettled =>
        /\ \A p \in Procs :
              /\ pc[p] # "down" => memory[p].reported = centralView
              /\ pc[p] # "record" => disk.reported = centralView
        /\ late = {}

LEMMA InStepStep ==
  ASSUME NEW q, Procs = {q}
  PROVE  TypeOK /\ InStep /\ [Next]_vars => InStep'
<1> SUFFICES ASSUME TypeOK, InStep, [Next]_vars PROVE InStep'
  OBVIOUS
<1> USE DEF TypeOK, InStep, Records
<1>1. ASSUME NEW p \in Procs, Process(p) PROVE InStep'
  <2> USE <1>1 DEF central, wire
  <2>1. CASE Start(p) \/ Stop(p) \/ Tick(p) \/ Crash(p)
    BY <2>1 DEF Start, Stop, Tick, Crash
  <2>2. CASE AcquireLock(p) \/ SkipHeld(p) \/ LockFails(p) \/ Release(p)
    BY <2>2 DEF AcquireLock, SkipHeld, LockFails, Release
  <2>3. CASE FetchNothing(p) \/ FetchDesired(p)
    BY <2>3 DEF FetchNothing, FetchDesired
  <2>4. CASE Prepare(p) \/ PrepareFails(p)
    BY <2>4 DEF Prepare, PrepareFails
  <2>5. CASE PersistApplied(p) \/ PersistAppliedFails(p)
    BY <2>5 DEF PersistApplied, PersistAppliedFails
  <2>6. CASE PostAcked(p)
    BY <2>6 DEF PostAcked
  <2>7. CASE PostFails(p) \/ PostUnanswered(p)
    BY <2>7 DEF PostFails, PostUnanswered
  <2>8. CASE PersistReported(p) \/ PersistReportedFails(p)
    BY <2>8 DEF PersistReported, PersistReportedFails
  <2> QED
    BY <2>1, <2>2, <2>3, <2>4, <2>5, <2>6, <2>7, <2>8
       DEF Process, Reconciles
<1>2. CASE Environment
  BY <1>2 DEF Environment, ChangeDesired, DeliverLate, LoseLate,
              OperatorRemovesLock, node, central, wire
<1>3. CASE UNCHANGED vars
  BY <1>3 DEF vars
<1> QED
  BY <1>1, <1>2, <1>3 DEF Next

(* The early return of Reconcile is right, under every fault, as long as no *)
(* report is unsettled, and becomes right again with the next report that   *)
(* is acknowledged while none is under way: a process that skips a          *)
(* fingerprint as converged then has Central's view on its side.            *)
THEOREM ConvergedSafe ==
  ASSUME NEW q, Procs = {q}
  PROVE  Spec => []ConvergedIsKnown
<1>1. Init => TypeOK /\ InStep
  <2>1. Init => TypeOK
    BY BlankIsRecord DEF Init, TypeOK, Points, Values
  <2>2. Init => InStep
    BY DEF Init, InStep, Blank
  <2> QED
    BY <2>1, <2>2
<1>2. (TypeOK /\ InStep) /\ [Next]_vars => (TypeOK /\ InStep)'
  BY TypeStep, InStepStep
<1>3. TypeOK /\ InStep => ConvergedIsKnown
  BY DEF TypeOK, InStep, ConvergedIsKnown, Converged
<1> QED
  BY <1>1, <1>2, <1>3, PTL DEF Spec

-----------------------------------------------------------------------------
(* Unless a process is killed, the lock file exists only while its owner is *)
(* inside Reconcile: the deferred Release runs on every way out.            *)
HeldByWorker == lockFile # Nobody => pc[lockFile] \in Critical

LEMMA HeldByWorkerStep ==
  ASSUME "crash" \notin Faults
  PROVE  TypeOK /\ LockExcludes /\ HeldByWorker /\ [Next]_vars => HeldByWorker'
<1> SUFFICES ASSUME TypeOK, LockExcludes, HeldByWorker, [Next]_vars,
                    lockFile' # Nobody
             PROVE  pc'[lockFile'] \in Critical
  BY DEF HeldByWorker
<1> USE ProcsAssumption DEF TypeOK, LockExcludes, HeldByWorker, Critical
<1>1. ASSUME NEW p \in Procs, Process(p) PROVE pc'[lockFile'] \in Critical
  <2> USE <1>1
  <2>1. CASE Start(p) \/ Stop(p) \/ Tick(p)
    BY <2>1 DEF Start, Stop, Tick
  <2>2. CASE AcquireLock(p)
    BY <2>2 DEF AcquireLock
  <2>3. CASE SkipHeld(p) \/ LockFails(p)
    BY <2>3 DEF SkipHeld, LockFails
  <2>4. CASE FetchNothing(p) \/ FetchDesired(p)
    BY <2>4 DEF FetchNothing, FetchDesired
  <2>5. CASE Prepare(p) \/ PrepareFails(p)
    BY <2>5 DEF Prepare, PrepareFails
  <2>6. CASE PersistApplied(p) \/ PersistAppliedFails(p)
    BY <2>6 DEF PersistApplied, PersistAppliedFails
  <2>7. CASE PostAcked(p) \/ PostFails(p) \/ PostUnanswered(p)
    BY <2>7 DEF PostAcked, PostFails, PostUnanswered
  <2>8. CASE PersistReported(p) \/ PersistReportedFails(p)
    BY <2>8 DEF PersistReported, PersistReportedFails
  <2>9. CASE Release(p)
    BY <2>9 DEF Release
  <2> QED
    BY <2>1, <2>2, <2>3, <2>4, <2>5, <2>6, <2>7, <2>8, <2>9
       DEF Process, Reconciles, Crash
<1>2. CASE Environment
  BY <1>2 DEF Environment, ChangeDesired, DeliverLate, LoseLate,
              OperatorRemovesLock, node
<1>3. CASE UNCHANGED vars
  BY <1>3 DEF vars
<1> QED
  BY <1>1, <1>2, <1>3 DEF Next

(* The comment on ExclusiveCreate is right of every way a process ends but  *)
(* being killed: failed writes, refused and late reports and any number of  *)
(* processes leave no lock file behind.                                     *)
THEOREM LockFreedUnlessKilled ==
  ASSUME "crash" \notin Faults
  PROVE  Spec => []LockFreedByExit
<1>1. Init => HeldByWorker
  BY DEF Init, HeldByWorker
<1>2. IInv /\ HeldByWorker /\ [Next]_vars => HeldByWorker'
  BY HeldByWorkerStep DEF IInv
<1>3. IInv /\ HeldByWorker => LockFreedByExit
  BY DEF IInv, TypeOK, HeldByWorker, LockFreedByExit, Critical
<1> QED
  BY <1>1, <1>2, <1>3, Inductive, PTL DEF Spec

-----------------------------------------------------------------------------
(* The early return means what docs/CONVERGENCE.md says it means, "central  *)
(* has received a report including that fingerprint", under every fault and *)
(* for any number of processes; that no other report came later is what     *)
(* ConvergedSafe adds for the reports that are settled.                     *)
THEOREM ConvergedWasReceived ==
  Spec => [](\A p \in Procs : Converged(memory[p]) => memory[p].applied \in received)
<1>1. AcknowledgedWasReceived =>
        \A p \in Procs : Converged(memory[p]) => memory[p].applied \in received
  BY DEF AcknowledgedWasReceived, Converged
<1> QED
  BY <1>1, AcknowledgementSafe, PTL

(* The steps as ManifestReports sees them.                                  *)
LEMMA StutterMaps ==
  UNCHANGED <<disk, central, late>> => UNCHANGED Reports!reportVars
  BY DEF central, Reports!reportVars

\* A write of the record.
LEMMA WriteMaps ==
  ASSUME IInv, NEW r \in Records, disk' = r,
         r.reported \in received \cup {NoFingerprint},
         UNCHANGED <<central, late>>
  PROVE  Reports!Next
<1>1. r.applied \in Values /\ r.reported \in Values
  BY DEF Records
<1>2. Reports!Note(r.applied, r.reported)
  BY DEF Reports!Note, central
<1> QED
  BY <1>1, <1>2 DEF Reports!Next, Reports!Note

LEMMA NextMaps ==
  IInv /\ IInv' /\ [Next]_vars => [Reports!Next]_(Reports!reportVars)
<1> SUFFICES ASSUME IInv, IInv', [Next]_vars
             PROVE  [Reports!Next]_(Reports!reportVars)
  OBVIOUS
<1>0. UNCHANGED <<disk, central, late>> => [Reports!Next]_(Reports!reportVars)
  BY StutterMaps
<1>1. ASSUME NEW p \in Procs, Process(p)
      PROVE  [Reports!Next]_(Reports!reportVars)
  <2>0. /\ memory[p] \in Records /\ memory'[p] \in Records
        /\ memory[p].reported \in received \cup {NoFingerprint}
        /\ pc[p] = "post" => disk.applied = memory[p].applied
    BY <1>1 DEF IInv, TypeOK, ReportMatchesDisk, AcknowledgedWasReceived
  <2>1. CASE Start(p) \/ Stop(p) \/ Tick(p) \/ Crash(p)
    BY <1>0, <2>1 DEF Start, Stop, Tick, Crash, wire
  <2>2. CASE AcquireLock(p) \/ SkipHeld(p) \/ LockFails(p) \/ Release(p)
    BY <1>0, <2>2 DEF AcquireLock, SkipHeld, LockFails, Release, wire
  <2>3. CASE FetchNothing(p) \/ FetchDesired(p) \/ Prepare(p) \/ PrepareFails(p)
    BY <1>0, <2>3 DEF FetchNothing, FetchDesired, Prepare, PrepareFails, wire
  <2>4. CASE PersistAppliedFails(p) \/ PostFails(p) \/ PersistReportedFails(p)
    BY <1>0, <2>4 DEF PersistAppliedFails, PostFails, PersistReportedFails, wire
  <2>5. CASE PersistApplied(p)
    <3>1. /\ disk' = memory'[p] /\ UNCHANGED <<central, late>>
          /\ memory'[p].reported = memory[p].reported
      BY <1>1, <2>0, <2>5 DEF PersistApplied, IInv, TypeOK, Records, wire
    <3> QED
      BY <2>0, <3>1, WriteMaps
  <2>6. CASE PersistReported(p)
    <3>1. disk' = memory[p] /\ UNCHANGED <<central, late>>
      BY <2>6 DEF PersistReported, wire
    <3> QED
      BY <2>0, <3>1, WriteMaps
  <2>7. CASE PostAcked(p)
    <3>1. Reports!Report
      BY <2>0, <2>7 DEF PostAcked, Reports!Report, Reports!Hears
    <3> QED
      BY <3>1 DEF Reports!Next, Reports!Report
  <2>8. CASE PostUnanswered(p)
    <3>1. Reports!Keep
      BY <2>0, <2>8 DEF PostUnanswered, Reports!Keep, central
    <3> QED
      BY <3>1 DEF Reports!Next, Reports!Keep
  <2> QED
    BY <1>1, <2>1, <2>2, <2>3, <2>4, <2>5, <2>6, <2>7, <2>8 DEF Process, Reconciles
<1>2. CASE Environment
  <2>1. CASE \E d \in Values \cup {NoManifest} : ChangeDesired(d)
    BY <2>1 DEF ChangeDesired, node, wire, Reports!reportVars
  <2>2. ASSUME NEW f \in Values, DeliverLate(f)
        PROVE  [Reports!Next]_(Reports!reportVars)
    <3>1. f \in late /\ Reports!Deliver(f)
      BY <2>2 DEF DeliverLate, node, Reports!Deliver, Reports!Hears
    <3> QED
      BY <3>1 DEF Reports!Next, Reports!Deliver
  <2>3. ASSUME NEW f \in Values, LoseLate(f)
        PROVE  [Reports!Next]_(Reports!reportVars)
    <3>1. f \in late /\ Reports!Lose(f)
      BY <2>3 DEF LoseLate, node, central, Reports!Lose
    <3> QED
      BY <3>1 DEF Reports!Next, Reports!Lose
  <2>4. CASE OperatorRemovesLock
    BY <1>0, <2>4 DEF OperatorRemovesLock, wire
  <2> QED
    BY <1>2, <2>1, <2>2, <2>3, <2>4 DEF Environment
<1>3. CASE UNCHANGED vars
  BY <1>0, <1>3 DEF vars, central
<1> QED
  BY <1>1, <1>2, <1>3 DEF Next

(* Whatever reaches Central, and however late, was in convergence.json as   *)
(* applied when it was posted, and the file notes only what Central was     *)
(* told: runner.go writes before it posts and notes after the answer.       *)
THEOREM ImplementsManifestReports == Spec => ImplementsReports
<1>1. Init => Reports!Init
  BY DEF Init, Blank, Reports!Init
<1>2. IInv /\ IInv' /\ [Next]_vars => [Reports!Next]_(Reports!reportVars)
  BY NextMaps
<1> QED
  BY <1>1, <1>2, Inductive, PTL DEF Spec, ImplementsReports, Reports!Spec
=============================================================================
