------------------------------- MODULE Reconcile -------------------------------
(***************************************************************************)
(* The manifest reconcile pipeline: internal/deploy/runner.go, the lock    *)
(* file of internal/lock, the convergence record that cmd/agent/main.go    *)
(* keeps in memory and in convergence.json, and the two Central endpoints  *)
(* the pipeline calls (GET desired manifest, POST convergence report).     *)
(*                                                                         *)
(* Several agent processes may share one state directory: that is what the *)
(* lock file is for.  A process that crashes loses its memory and leaves   *)
(* the lock file and the convergence record behind.                        *)
(***************************************************************************)
EXTENDS Naturals

CONSTANTS
    Procs,          \* agent processes that share the state directory
    Fingerprints,   \* non-empty fingerprints of desired manifests
    NoFingerprint,  \* the empty string: no or unreadable "fingerprint" field
    NoManifest,     \* Central has no desired manifest for the node (404)
    Nobody,         \* the lock file does not exist
    Faults          \* which faults happen, a subset of FaultKinds

FaultKinds == {"delay", "disk", "crash"}

Values == Fingerprints \cup {NoFingerprint}

ASSUME ProcsAssumption == Nobody \notin Procs
ASSUME FingerprintsAssumption == /\ NoFingerprint \notin Fingerprints
                                 /\ NoManifest \notin Values
ASSUME FaultsAssumption == Faults \subseteq FaultKinds

VARIABLES
    pc,           \* where each process is in its loop
    memory,       \* each process's convergence record, *conv
    disk,         \* convergence.json; an absent file reads as Blank
    lockFile,     \* the process that created locks/deploy.lock, or Nobody
    desired,      \* Central: the manifest it wants on the node
    centralView,  \* Central: the applied fingerprint of the last report
    received,     \* Central: every applied fingerprint it was ever sent
    late,         \* reports the agent gave up on that Central may still get
    unsettled     \* history: Central may have a report that the node has not
                  \* recorded as reported, and no later one was acknowledged

node == <<pc, memory, disk, lockFile>>
central == <<desired, centralView, received>>
wire == <<late, unsettled>>
vars == <<pc, memory, disk, lockFile, desired, centralView, received, late,
          unsettled>>

Blank == [desired |-> NoFingerprint, applied |-> NoFingerprint,
          reported |-> NoFingerprint]
Records == [desired : Values, applied : Values, reported : Values]

\* Between ExclusiveCreate and the deferred Release.
Critical == {"fetch", "prepare", "persist", "post", "record", "release"}
Points == Critical \cup {"down", "wait", "lock"}

\* Seeded bug: the early return forgets that Central must know.
Bug_Converged(r) == /\ r.desired # NoFingerprint
                    /\ r.applied = r.desired

(* The early return of Reconcile: nothing to do for this record. *)
Converged(r) == /\ r.desired # NoFingerprint
                /\ r.applied = r.desired
                /\ r.reported = r.desired

TypeOK ==
    /\ pc \in [Procs -> Points]
    /\ memory \in [Procs -> Records]
    /\ disk \in Records
    /\ lockFile \in Procs \cup {Nobody}
    /\ desired \in Values \cup {NoManifest}
    /\ centralView \in Values
    /\ received \subseteq Values
    /\ late \subseteq Values
    /\ unsettled \in BOOLEAN

Init ==
    /\ pc = [p \in Procs |-> "down"]
    /\ memory = [p \in Procs |-> Blank]
    /\ disk = Blank
    /\ lockFile = Nobody
    /\ desired = NoManifest
    /\ centralView = NoFingerprint
    /\ received = {}
    /\ late = {}
    /\ unsettled = FALSE

GoTo(p, to) == pc' = [pc EXCEPT ![p] = to]

-----------------------------------------------------------------------------
(* The process around the pipeline.                                        *)

\* cmdRun reads convergence.json and enters its loop at once.
Start(p) ==
    /\ pc[p] = "down"
    /\ GoTo(p, "lock")
    /\ memory' = [memory EXCEPT ![p] = disk]
    /\ UNCHANGED <<disk, lockFile, central, wire>>

\* SIGTERM is acted on between two loops only.
Stop(p) ==
    /\ pc[p] = "wait"
    /\ GoTo(p, "down")
    /\ memory' = [memory EXCEPT ![p] = Blank]
    /\ UNCHANGED <<disk, lockFile, central, wire>>

Tick(p) ==
    /\ pc[p] = "wait"
    /\ GoTo(p, "lock")
    /\ UNCHANGED <<memory, disk, lockFile, central, wire>>

\* A kill or a panic: memory is lost, the files stay, the lock file too.
Crash(p) ==
    /\ "crash" \in Faults
    /\ pc[p] # "down"
    /\ GoTo(p, "down")
    /\ memory' = [memory EXCEPT ![p] = Blank]
    /\ unsettled' = (unsettled \/ pc[p] = "record")
    /\ UNCHANGED <<disk, lockFile, central, late>>

-----------------------------------------------------------------------------
(* Reconcile, one action per step that others can observe or fail.         *)

AcquireLock(p) ==
    /\ pc[p] = "lock"
    /\ lockFile = Nobody
    /\ lockFile' = p
    /\ GoTo(p, "fetch")
    /\ UNCHANGED <<memory, disk, central, wire>>

\* Seeded bug: the deferred Release runs when the lock was not obtained.
Bug_SkipHeld(p) ==
    /\ pc[p] = "lock"
    /\ lockFile # Nobody
    /\ lockFile' = Nobody
    /\ GoTo(p, "wait")
    /\ UNCHANGED <<memory, disk, central, wire>>

\* ErrHeld is no error: the loop goes on and nothing is recorded.
SkipHeld(p) ==
    /\ pc[p] = "lock"
    /\ lockFile # Nobody
    /\ GoTo(p, "wait")
    /\ UNCHANGED <<memory, disk, lockFile, central, wire>>

\* The locks directory or the lock file cannot be created.
LockFails(p) ==
    /\ "disk" \in Faults
    /\ pc[p] = "lock"
    /\ GoTo(p, "wait")
    /\ UNCHANGED <<memory, disk, lockFile, central, wire>>

\* Seeded bug: Release is not deferred, and this return does without it.
Bug_FetchNothing(p) ==
    /\ pc[p] = "fetch"
    /\ GoTo(p, "wait")
    /\ UNCHANGED <<memory, disk, lockFile, central, wire>>

\* A request error or a status outside 2xx and 404, and also "no manifest".
FetchNothing(p) ==
    /\ pc[p] = "fetch"
    /\ GoTo(p, "release")
    /\ UNCHANGED <<memory, disk, lockFile, central, wire>>

\* Seeded bug: a 404 is taken for a manifest.
Bug_FetchDesired(p) ==
    /\ pc[p] = "fetch"
    /\ memory' = [memory EXCEPT ![p].desired = desired]
    /\ GoTo(p, "prepare")
    /\ UNCHANGED <<disk, lockFile, central, wire>>

\* A 2xx body that does not parse, or has no fingerprint, counts as "".
FetchDesired(p) ==
    /\ pc[p] = "fetch"
    /\ desired # NoManifest
    /\ memory' = [memory EXCEPT ![p].desired = desired]
    /\ GoTo(p, IF Converged(memory'[p]) THEN "release" ELSE "prepare")
    /\ UNCHANGED <<disk, lockFile, central, wire>>

Prepare(p) ==
    /\ pc[p] = "prepare"
    /\ GoTo(p, "persist")
    /\ UNCHANGED <<memory, disk, lockFile, central, wire>>

PrepareFails(p) ==
    /\ "disk" \in Faults
    /\ pc[p] = "prepare"
    /\ GoTo(p, "release")
    /\ UNCHANGED <<memory, disk, lockFile, central, wire>>

\* applied := desired, then WriteJSONAtomic of the whole record.
PersistApplied(p) ==
    /\ pc[p] = "persist"
    /\ memory' = [memory EXCEPT ![p].applied = memory[p].desired]
    /\ disk' = memory'[p]
    /\ GoTo(p, "post")
    /\ UNCHANGED <<lockFile, central, wire>>

\* Seeded bug: the error of the first write is only logged.
Bug_PersistAppliedFails(p) ==
    /\ "disk" \in Faults
    /\ pc[p] = "persist"
    /\ memory' = [memory EXCEPT ![p].applied = memory[p].desired]
    /\ GoTo(p, "post")
    /\ UNCHANGED <<disk, lockFile, central, wire>>

\* The assignment precedes the write, so it survives the failed write.
PersistAppliedFails(p) ==
    /\ "disk" \in Faults
    /\ pc[p] = "persist"
    /\ memory' = [memory EXCEPT ![p].applied = memory[p].desired]
    /\ GoTo(p, "release")
    /\ UNCHANGED <<disk, lockFile, central, wire>>

\* Central has the report and the agent has read a 2xx.
PostAcked(p) ==
    /\ pc[p] = "post"
    /\ centralView' = memory[p].applied
    /\ received' = received \cup {memory[p].applied}
    /\ memory' = [memory EXCEPT ![p].reported = memory[p].applied]
    /\ unsettled' = (late # {})
    /\ GoTo(p, "record")
    /\ UNCHANGED <<disk, lockFile, desired, late>>

\* Seeded bug: an attempt counts as a report.
Bug_PostFails(p) ==
    /\ pc[p] = "post"
    /\ memory' = [memory EXCEPT ![p].reported = memory[p].applied]
    /\ GoTo(p, "release")
    /\ UNCHANGED <<disk, lockFile, central, wire>>

\* Refused, or never reached Central.
PostFails(p) ==
    /\ pc[p] = "post"
    /\ GoTo(p, "release")
    /\ UNCHANGED <<memory, disk, lockFile, central, wire>>

\* No answer in time: for the agent an error, for Central perhaps a report.
PostUnanswered(p) ==
    /\ "delay" \in Faults
    /\ pc[p] = "post"
    /\ late' = late \cup {memory[p].applied}
    /\ unsettled' = TRUE
    /\ GoTo(p, "release")
    /\ UNCHANGED <<memory, disk, lockFile, central>>

PersistReported(p) ==
    /\ pc[p] = "record"
    /\ disk' = memory[p]
    /\ GoTo(p, "release")
    /\ UNCHANGED <<memory, lockFile, central, wire>>

PersistReportedFails(p) ==
    /\ "disk" \in Faults
    /\ pc[p] = "record"
    /\ unsettled' = TRUE
    /\ GoTo(p, "release")
    /\ UNCHANGED <<memory, disk, lockFile, central, late>>

\* lock.Release removes the path, whoever created the file that is there.
Release(p) ==
    /\ pc[p] = "release"
    /\ lockFile' = Nobody
    /\ GoTo(p, "wait")
    /\ UNCHANGED <<memory, disk, central, wire>>

-----------------------------------------------------------------------------
(* Outside the agent.                                                      *)

ChangeDesired(d) ==
    /\ desired # d
    /\ desired' = d
    /\ UNCHANGED <<node, centralView, received, wire>>

\* The fingerprint may be on its way more than once.
DeliverLate(f) ==
    /\ f \in late
    /\ late' \in {late, late \ {f}}
    /\ centralView' = f
    /\ received' = received \cup {f}
    /\ UNCHANGED <<node, desired, unsettled>>

LoseLate(f) ==
    /\ f \in late
    /\ late' = late \ {f}
    /\ UNCHANGED <<node, central, unsettled>>

\* The only cure for a lock file whose process is gone.  The operator is
\* careful: no deploy of the process that created the file is under way.
OperatorRemovesLock ==
    /\ lockFile # Nobody
    /\ pc[lockFile] \notin Critical
    /\ lockFile' = Nobody
    /\ UNCHANGED <<pc, memory, disk, central, wire>>

-----------------------------------------------------------------------------
Reconciles(p) ==
    \/ AcquireLock(p) \/ SkipHeld(p) \/ LockFails(p)
    \/ FetchNothing(p) \/ FetchDesired(p)
    \/ Prepare(p) \/ PrepareFails(p)
    \/ PersistApplied(p) \/ PersistAppliedFails(p)
    \/ PostAcked(p) \/ PostFails(p) \/ PostUnanswered(p)
    \/ PersistReported(p) \/ PersistReportedFails(p)
    \/ Release(p)

Process(p) == Start(p) \/ Stop(p) \/ Tick(p) \/ Crash(p) \/ Reconciles(p)

Environment ==
    \/ \E d \in Values \cup {NoManifest} : ChangeDesired(d)
    \/ \E f \in Values : DeliverLate(f) \/ LoseLate(f)
    \/ OperatorRemovesLock

Next == (\E p \in Procs : Process(p)) \/ Environment

Spec == Init /\ [][Next]_vars

(***************************************************************************)
(* Fairness.  A process keeps running its loop (the ticker fires, the      *)
(* service manager starts it again), and a call that is tried for ever is  *)
(* not refused for ever.  Nothing is assumed of Stop, of the failures, of  *)
(* Central's changes of mind or of the operator.                           *)
(***************************************************************************)
Fairness ==
    \A p \in Procs :
        /\ WF_vars(Start(p)) /\ WF_vars(Tick(p) \/ Stop(p))
        /\ WF_vars(Reconciles(p))
        /\ SF_vars(AcquireLock(p))
        /\ SF_vars(FetchDesired(p)) /\ SF_vars(Prepare(p))
        /\ SF_vars(PersistApplied(p)) /\ SF_vars(PostAcked(p))

FairSpec == Spec /\ Fairness

-----------------------------------------------------------------------------
(* Deploys exclude each other, although a lock file can outlive its process *)
(* and be removed by hand: whoever is inside Reconcile owns the file.       *)
LockExcludes ==
    \A p \in Procs : pc[p] \in Critical => lockFile = p

(* When a process reports to Central, and until it has recorded the answer, *)
(* the fingerprint it reports is the one convergence.json names as applied, *)
(* so a crash after the report cannot make the node forget what it told.    *)
ReportMatchesDisk ==
    \A p \in Procs : pc[p] \in {"post", "record"} =>
                        disk.applied = memory[p].applied

(* A fingerprint the node holds as reported, in any process's memory or on  *)
(* disk, after any crash or lost write, is one that Central has received.   *)
AcknowledgedWasReceived ==
    \A r \in {memory[p] : p \in Procs} \cup {disk} :
        r.reported \in received \cup {NoFingerprint}

(* A process that would skip its next deploy as converged on its fetched    *)
(* fingerprint is one whose last report Central remembers (runner.go:87),   *)
(* through refused and lost reports, failed writes, kills and restarts, if  *)
(* no report has been left unsettled since the last acknowledged one.       *)
ConvergedIsKnown ==
    \A p \in Procs : pc[p] = "wait" /\ Converged(memory[p]) /\ ~unsettled =>
                        centralView = memory[p].applied

(* The comment on ExclusiveCreate: the caller may rely on process exit to   *)
(* release the lock.                                                        *)
LockFreedByExit == (\A p \in Procs : pc[p] = "down") => lockFile = Nobody

(* If Central settles on a manifest it is eventually told, for good, that   *)
(* this manifest is applied: through refused calls, lost and late answers,  *)
(* failed writes and restarts, provided that a report left unsettled is     *)
(* followed by one that is acknowledged and recorded.  The proviso cannot   *)
(* go: an old report that overtakes the newest one is never corrected,      *)
(* since a converged node reports nothing.                                  *)
ReportedOnceSettled ==
    \A f \in Fingerprints :
        <>[](desired = f /\ ~unsettled) => <>[](centralView = f)

Reports == INSTANCE ManifestReports WITH
               Nothing  <- NoFingerprint,
               applied  <- disk.applied,
               noted    <- disk.reported,
               underway <- late,
               told     <- received,
               view     <- centralView

(* The pipeline implements those reports under every fault and with any     *)
(* number of processes: Central hears only of what convergence.json names   *)
(* as applied when the report is posted, also if it hears of it much later, *)
(* and the file notes only reports that Central has had.                    *)
ImplementsReports == Reports!Spec
=============================================================================
