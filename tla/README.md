# ReleasePanel agent: TLA+ models, model checks and proofs

The agent is a Go program that runs on a node, talks to a control plane
("Central") over HTTP and converges three things towards what Central wants: the
node's manifest, the Git working trees of its sites, and the nginx configuration
of its sites. This directory holds TLA+ modules of that behaviour, TLC
configurations that check them on small instances, and proofs of the main
safety properties for instances of every size.

All paths below are relative to the repository (`internal/...`, `cmd/...`,
`docs/...`).

- [1. Inventory](#1-inventory)
- [2. Modules](#2-modules)
- [3. Runs](#3-runs)
- [4. Fairness](#4-fairness)
- [5. Proofs](#5-proofs)
- [6. Disagreements between code and documents](#6-disagreements-between-code-and-documents)
- [7. What is not modelled](#7-what-is-not-modelled)
- [8. Plan](#8-plan)

To repeat the checks: `tlc -config git_safety.cfg MCGitDeploy.tla` for a run
(each run's module and configuration are listed in section 3) and
`tlapm ReconcileProofs.tla` for a module of proofs.

## 1. Inventory

The agent is one goroutine. One iteration of its loop (`cmd/agent/main.go`,
`cmdRun`) posts the heartbeat, inventory and health, runs the dependency probes,
fetches the ping answer, works through its repository intents, then its nginx
intents, then reconciles the manifest, saves its counters and waits for a ticker
or a signal. Nothing inside one process runs concurrently. What is concurrent
is everything else: Central, which changes its mind while the loop works on an
earlier answer; the network, which loses answers; the remotes, which move; a
second agent process on the same state directory; and SIGTERM, SIGKILL and power
loss, which arrive between any two steps.

| component | code | state | operations | what makes it correct |
|---|---|---|---|---|
| agent loop | `cmd/agent/main.go` | counters and `runtime.json`, the echo map, the convergence record | one iteration, startup, shutdown | stops when told to; what it believes it reported has arrived; reports go out at their cadence |
| manifest reconcile | `internal/deploy/runner.go` | the convergence record in memory and in `convergence.json` | `Reconcile` | what is reported is on disk; what is recorded as reported was received; a manifest that stays is reported in the end |
| deploy lock | `internal/lock/lock.go` | the file `locks/deploy.lock` | `ExclusiveCreate`, `Release` | two reconciles never overlap |
| state files | `internal/state/state.go`, and the same protocol in `WriteAtomicFile` of `internal/nginxruntime/converge.go` | a file, its temporary file, the directory | `WriteJSONAtomic` | a reader never finds part of a document; an error means untouched |
| central client | `internal/central/client.go` | none | GET and POST | a 2xx is the only success |
| ping client | `internal/central/ping.go`, `pkg/api/ping.go` | none | GET intents, POST receipts | as above |
| git deploy | `internal/gitdeploy/executor.go`, `ssh.go` | the deploy tree of a site | `Run`: clone or fetch, reset, observe, receipts | receipts follow Central's ledger; applied means the requested ref is in the tree; each request is answered |
| deploy path policy | `internal/gitdeploy/pathvalidate.go` | none | `ValidateDeployPath` | together with the check of the parent, lets git work below a root only |
| nginx runtime | `internal/nginxruntime/*.go` | `sites-available`, `sites-enabled`, the running nginx | apply leg, reload leg | a receipt is true of the files and of the running nginx, and stays true while other sites converge |
| tls echo | `cmd/agent/main.go`, `internal/nginxruntime/tlsintent.go` | `site_tls_echo.json`, the map of one iteration | load, save, `TLSObservationAfterReload` | no TLS observation that is not live |
| runtime probes | `internal/runtimeprobe` | the rows of one iteration | `RunAll` and its checks | each probe ends; a row names the first check that failed; no row made by a shutdown is reported |
| configuration | `internal/config` | none after startup | `Load` | accepted entries can be probed |
| enrollment | `internal/enroll` | `enrollment.json` | one exchange, one write | the record names a credential that Central handed out, also after a failed re-enrollment |
| health, inventory | `internal/health`, `internal/inventory`, `internal/runtime` | none | collection of facts from child processes | does not keep the loop |
| logs, origin, paths | `internal/logs`, ... | none, or an append-only log | logging, string functions | no protocol |

How they interact: the loop calls the slices one after another and hands each a
reporter closure, which posts one row to Central and then updates the echo map
in memory and on disk (`main.go:271-292`, `311-345`). The slices share nothing
else with each other but Central's ledgers, the echo map and nginx's
configuration as a whole. The two agent processes of a node share the state
directory and exclude each other only in the manifest reconcile.

Where it is hard:

- Receipts advance a ledger of Central, and a run resumes from the ledger's
  phase, so a lost answer or a kill in the middle must not lead to a receipt
  that is refused for ever.
- Assignments precede the writes that make them durable (`runner.go:105-108`,
  `124-130`; the echo map), so memory, disk and Central can disagree in every
  combination.
- The lock is the existence of a file, which outlives a killed process.
- A killed `git` leaves part of a tree; the shutdown cancels the context of both
  the command and the receipt.
- `nginx -t` and the reload judge all sites together.
- Some children run under the loop's context, some under none; `select` does not
  prefer the signal to the ticker.
- Times are compared by a wall clock that may be set back, and outlive the
  credential and the process they were taken under.

`PROJECT.json` lists every hazard at its line with the properties that cover it.

## 2. Modules

| module | what it is | extends |
|---|---|---|
| `Reconcile` | manifest reconcile, lock file, convergence record, any number of processes | |
| `MCReconcile` | TLC instance | `Reconcile` |
| `ManifestReports` | abstract: what Central may conclude from the reports; implemented by `Reconcile` | |
| `ReconcileProofs` | theorems | `Reconcile` |
| `AtomicRegister` | abstract: what a written file promises | |
| `AtomicFile` | detailed: create, encode, sync, rename; implements `AtomicRegister` | |
| `MCAtomicFile`, `AtomicFileProofs` | TLC instance, theorems | `AtomicFile` |
| `GitDeploy` | repository convergence against Central's ledger, the remotes and the trees | |
| `MCGitDeploy`, `GitDeployProofs` | TLC instance, theorems | `GitDeploy` |
| `DeployRequests` | abstract: what a deploy request is promised; implemented by `GitDeploy` | |
| `NginxRuntime` | nginx convergence and the TLS echo against the files, the running nginx and Central's ledgers | |
| `MCNginxRuntime`, `NginxRuntimeProofs` | TLC instance, theorems | `NginxRuntime` |
| `RuntimeRequests` | abstract: what nginx convergence promises; implemented by `NginxRuntime` | |
| `AgentLoop` | enrollment, startup, one iteration with its cadence and persistence, the signal | |
| `MCAgentLoop`, `AgentLoopProofs` | TLC instance, theorems | `AgentLoop` |
| `RuntimeProbe` | accepted probe entries, the checks, the rows and their post | |
| `MCRuntimeProbe`, `RuntimeProbeProofs` | TLC instance, theorems | `RuntimeProbe` |
| `PathPolicy` | the deploy path policy as operators, with theorems; no state | |

`AgentLoop` is the frame of the other state machines: each of `Reconcile`,
`GitDeploy`, `NginxRuntime` and `RuntimeProbe` models its own part of an iteration
with startup, wait and exit around it, and `AgentLoop` has that part as the one
step `Converge`, of which it keeps that it may run a child that hangs.
`AtomicFile` justifies that writing a state file is one step everywhere else.

Definitions called `Bug_...` are never part of a specification. Each stands
right before the definition it imitates and is what a plausible mistake in that
code would look like; putting it in that definition's place makes TLC refute a
property, which shows that the property says something about the code.
`PROJECT.json` pairs them.

### Reconcile

State: for each process its place in the loop and its record `*conv` (`memory`);
`disk` is `convergence.json`; `lockFile` the creator of `locks/deploy.lock`.
Central is `desired`, the last reported fingerprint `centralView`, everything
ever `received`, and the reports still under way although the agent gave up on
them (`late`). `unsettled` is a history variable: some report was left unanswered, or
was accepted and could not be recorded, and none has been acknowledged since with
nothing else under way. A record keeps its three fingerprints; run id, timestamps and
schema version decide nothing and are left out. The fingerprint of a body that
does not parse, or that has none, is the empty string (`NoFingerprint`), which is
a value like others except for the early return.

`Reconcile` is one action per step that others can see or that can fail, in the
order of the code: `AcquireLock` / `SkipHeld` / `LockFails`, `FetchDesired` /
`FetchNothing`, `Prepare`, `PersistApplied`, one of `PostAcked` / `PostFails` /
`PostUnanswered`, `PersistReported`, `Release`. The failing variants keep what
the code had assigned before the error: `PersistAppliedFails` leaves `applied`
changed in memory only, and `PersistReportedFails` leaves `reported` changed in
memory only. A report left unanswered may reach Central at once, later, several
times or never (`DeliverLate`, `LoseLate`). `Release` removes the file whoever created
it, as `lock.go:25` does. `Crash` loses memory and leaves the files. The operator who
removes a stale lock is assumed to look first whether the process that created it is
inside a deploy; without that assumption two processes get in and `LockExcludes` is
false by design of the lock.

Properties: `LockExcludes`, `ReportMatchesDisk`, `AcknowledgedWasReceived`,
`ConvergedIsKnown`, `ReportedOnceSettled`, `LockFreedByExit` (refuted with kills,
section 6), `ImplementsReports`.

The early return trusts `last_reported`, and that can fall behind what Central
received: with a late report of *b*, a rollback to *a* and a lost report of *a*, the
node skips *a* as converged while Central's last report says *b* (its
`last_reported` was *a* from before). A kill or a failed write between the accepted
report and its record has the same effect. `ConvergedIsKnown` therefore says how far
the trust goes, under every fault and for one process: whenever nothing is
`unsettled`, which the next acknowledged report restores, and the fault itself may
lie before any number of restarts. `ReportedOnceSettled` is the liveness side of it.

### ManifestReports

What Central may conclude from what it is told, without processes, locks and
memory: a node has one record on disk, Central is told only what the record names as
applied at that moment, a report that the network keeps may arrive later, several
times or never, and the
record notes as acknowledged only what has arrived. `Reconcile!ImplementsReports`
maps the record to `convergence.json` and the rest to Central and the network. It
fails as soon as a process reports from a record in memory that another process
has replaced on disk, reports before its write, or takes a call without an answer
for an accepted one.

### AtomicRegister and AtomicFile

`AtomicFile` is the write protocol on a file system that holds data and names in
memory until they are synced: `target` is what the name refers to, `held` what
it may refer to after a power loss, and the contents of a file that was not
synced may then be `Torn`. `Sync` stands for `Sync`, `Close` and `Chmod`. The
process can die, and the machine can lose power, before every step.

`AtomicRegister` is what callers rely on: a call that returns nil has written in
one step, an error has changed nothing, a power loss brings back a version not
older than the last one that settled. It promises no more, because the
directory is never synced. The refinement maps `reg` to the contents of `target`,
`held` to the contents of `held` and every step before the rename to a stutter;
only `Rename` is a `Write`.

### GitDeploy

State: the loop's place, the intent it works on (`cur`), the intents still to do
from the one answer of `GET /agent/ping`, the receipt that is being posted
(`row`), whether SIGTERM has come (`signal`); the deploy `tree` of each site; the
`tip` of each remote; Central's `ledger`, its request (`want`) and the commit it
was told (`observed`).

A commit is its position in the linear history of one branch of one remote. A
tree is absent, foreign (a path without `.git`), broken (an unfinished `.git`) or
a repository with its origin, the tip it has fetched (`seen`), its `head` and a
possible left-over `index.lock`. `want[s].since` is the tip at the time of the
request: a request for the branch is satisfied by that commit or a later one.

`Run` is one action per step of `gitdeploy.Run`, every receipt is a state `post`
from which `PostOk`, `PostFails` and `PostAckLost` go on as the code does after
the reporter's return value, and every error path posts `failed`. The
preconditions before the first receipt are one refusal (`Refuse`). The intent's
URL is used by `Clone` only. A signal cancels the context of everything that is
started after it, and strikes what is under way: `signal` is `strikes` until that one
command or post is over, then `past`. A git command that is struck is killed and may
leave any of its `Leftovers`, one that is not started any more leaves nothing, and
either way the run goes on to its error path (`GitKilled`). A receipt that is struck may
still be taken by Central (`PostAckLost`), one that is posted later is not. The receipt
of a killed command has a state of its own, `killed`, to tell its reason; the code
posts it as `failed`. A git child that dies of a signal sent to the whole process group
before the agent's own context is cancelled counts as a command that fails (`GitFails`).

Central and git are external. Central's ledger accepts a receipt for the phase it
is in or the next one (docs/GITHUB_SITE_PULL.md), and `failed` in every phase that
is open. What Central's users may do is part of `Faults` too: with `rerequest` a
site is requested again while its last request is still open, perhaps in the
middle of a run for it, and with `rebind` a site asks for another repository than
before.

Properties: `ReceiptsFollowLedger`, `AppliedReflectsRequest`, `AppliedIsObserved`,
`PinIsExact`, `ShutdownIsNoFailure`, `IterationShrinks`, `Answered`,
`ImplementsRequests`. `ShutdownIsNoFailure` says that Central never holds a site as
failed because a shutdown killed its git command: that receipt is always posted after
the signal, while those that may still be taken were on their way before it.
`PinIsExact` is what a run owes its own intent, also when Central has asked for
something else meanwhile: a commit that was named is reported only if it is what the
tree holds, and then it comes from the intent's repository, although an existing tree is
fetched from its own origin. `IterationShrinks` measures an iteration by `StepsLeft`,
which every step of it must lower.

### DeployRequests

The service as Central's users see it, without phases, receipts or processes: a
site has one request; while it is pending the tree may change in any way; it is
answered applied only when the tree holds what was asked for; and the tree of a
site without a pending request is left alone, so that what was answered stays
true. `GitDeploy!ImplementsRequests` is the refinement: the open phases of the
ledger are one pending request, and a tree is its origin and its head. It fails
as soon as an agent that was killed, stopped or resumed touches a tree after the
answer, or answers for a commit that is not there. `AnswersHold` says what the steps
amount to: what was answered applied is in the tree until the next request.

### NginxRuntime

State: the loop's place, intent and receipt as above; `told` is the map of the
iteration and `echo` its file; `available` and `link` are the files and the links
of each site (a link is missing, stale, ours, or a regular file in its place);
`live` is what the running nginx serves. A configuration is a version of the
site's settings and whether it terminates TLS; some versions are `Bad`, i.e. they
render to a file nginx rejects.

The two legs share their steps, as their code does: `Refuse`, `Begin` (which
posts `applying` only from `requested`), `Write`, `EnsureSymlink`, `Symlink`,
`Test`, `Reload`. `ConfigIsValid` quantifies over all enabled sites and `Reload`
makes all of them live. `ReloadFails` may leave nginx reloaded or not. The
receipts of `gitdeploy` pass through the echo as well and are one action here
(`RepositoryReceipt`). Certificate paths on the ledger switch TLS on, which puts
the TLS ledger to `issued`; the assumption `~TlsWithdrawn` says that Central does
not take that back. As in `GitDeploy`, the fault `rerequest` is a new request for a
site while its last one is open, perhaps in the middle of a leg that works on the old
intent. Rows carry no request id, so the leg's receipts may then be refused, or taken for
answers to the new request: `RuntimeReceiptsFollowLedger`, `AppliedIsEnabled` and the
refinement assume that Central waits for answers, and the other properties do not.

Properties: `RuntimeReceiptsFollowLedger`, `ReloadReceiptIsLive`,
`AppliedIsEnabled`, `PoisonIsVisible`, `TlsObservationIsLive`,
`ImplementsRuntimeRequests`.

### RuntimeRequests

Nginx convergence as Central's users see it, without receipts, files, links or the
echo: a site asks for a configuration, and once that is applied for a reload; its
enabled configuration becomes only what it asked for, and only while it waits; the
running nginx changes only while some site waits for a reload, then for all
sites at once, and only if nginx accepts them all; and every answer is true when it
is given. `AnswersHold` adds what follows for the time after the answer. In the
refinement `NginxRuntime!ImplementsRuntimeRequests` a site's enabled configuration is
the file that its link reaches, and the phases `requested` and `applying` of the
ledger are one pending request. It fails as soon as a leg reloads without the test,
enables a file for a site that waits for nothing, or a reload that was reported
leaves a site behind.

### AgentLoop

State: the enroll command (`epc`, the credential its token is for) and the record
`enrollment.json`; the loop's place, whether a child of the step hangs, the
credential its client was built with, the context; `posted` and `saved`, which are
`last_inventory_post_at` in memory and in `runtime.json`; Central's credentials,
handed out and revoked, and the age of the last inventory under each.

A time is kept as an age, the time since it by the wall clock. Time passing raises
every age, up to where nothing tells it from a greater one; setting the clock back
lowers the agent's ages, which may get negative (a time in the future), and not
Central's. `Due` is `shouldInventory`.

The enroll command runs next to the loop, once for every token. `EnrollAnswered`
spends the token; the key exists nowhere else until `WriteRecord`. The loop is one
action per step that can hang, be refused or write: `Begin` (counters, the first
write of `runtime.json`, the heartbeat), `Collect`, the inventory post with its
outcomes, `Health`, `Converge`, `Save`, and `Tick` or `Exit`, between which
`select` chooses freely when both are ready. A failed write of `runtime.json` is
only logged, so it leaves `saved` behind. The early `continue` of the loop on an
inventory error is left out because `inventory.Collect` never returns one.

`ChildHangs` may stop the steps that run children. In `Converge` these run under the
loop's context and die with it (`KillChild`); those of `Collect` and `Health` do
not.

Properties: `RecordIsIssued`, `InventoryClaimIsTrue`, `InventoryReachesCentral`,
`SignalStops`, `RevokedAgentExits` (refuted, section 6).

### RuntimeProbe

State: the entries the agent was started with, its place, the rows of the
iteration with what their checks found, the context, and the rows Central was
sent last. An entry keeps for each of its fields whether it is there and
well-formed; an argv of the executable alone is a value of its own.

Every check finds its dependency in a condition of its own, since it may change in
between; `Verdict` is what the code makes of a condition. `Accepted` is what the
configuration lets through, `Refused` what `runOne` refuses by itself. A check may
take until a deadline (`Wait`, `Expire`), and after a signal finds only what a
cancelled context leaves to find (`CutShort`). A process is not asked for after the
signal or once the deadline of its probe is over.

Properties: `RowTellsFirstFailure`, `AcceptedIsProbeable`, `ShutdownLeavesNoRow`,
`ProbesEnd`. The one accepted entry that cannot be probed, a `systemctl_argv` of
one element, is excepted in `AcceptedIsProbeable`.

### PathPolicy

A cleaned path is the sequence of its names, a path as Central wrote it is split at
its last slash, because `filepath.Dir` cuts there before it cleans. `Deployable` is
what `gitdeploy.Run` requires before it looks at the tree: `ValidateDeployPath` of
the path and of its parent. `Servable` is what both legs of `nginxruntime.Run`
require, with the same roots: `ValidateDeployPath` of the path and of the web root.
The template refuses some characters of a path besides; that is part of the
rendering.

## 3. Runs

Times are of two workers; states are distinct states.

| run | instance | checks | result |
|---|---|---|---|
| `reconcile_faults` | 2 processes, fingerprint *a* and the empty one, every fault | `TypeOK`, `LockExcludes`, `ReportMatchesDisk`, `AcknowledgedWasReceived`, `ImplementsReports` | holds, 129 000 states |
| `reconcile_live` | 1 process, 2 fingerprints and the empty one, lost and late answers, failed writes, stops and restarts | `LockFreedByExit`, `ConvergedIsKnown`, `ReportedOnceSettled` | holds, 224 000 states |
| `reconcile_stale_lock` | 1 process, kills | `LockFreedByExit` | refuted |
| `atomic_file` | 2 writers, 3 values, errors, deaths, power loss | `NeverTorn`, `ImplementsRegister` | holds, 2 100 states |
| `git_safety` | 2 sites, 1 remote with 2 commits, 2 requests, lost answers, kills, shutdowns | `TypeOK`, `ReceiptsFollowLedger`, `AppliedReflectsRequest`, `AppliedIsObserved`, `ImplementsRequests`, `IterationShrinks` | holds, 922 000 states |
| `git_live` | 1 site, 2 remotes, the same faults, requests during a run and changes of the repository | `AppliedIsObserved`, `PinIsExact`, `ShutdownIsNoFailure`, `Answered` | holds, 193 000 states |
| `git_remote_change` | 1 site, 2 remotes, a change of the repository as the only fault | `AppliedReflectsRequest` | refuted |
| `nginx_safety` | 2 sites, a good and a bad version, 4 requests, lost answers, a lost echo, kills | `TypeOK`, `RuntimeReceiptsFollowLedger`, `ReloadReceiptIsLive`, `AppliedIsEnabled`, `PoisonIsVisible`, `TlsObservationIsLive`, `ImplementsRuntimeRequests` | holds, 690 000 states |
| `nginx_tls_withdrawn` | 1 site, TLS switched on and off again, no fault | `TlsObservationIsLive` | refuted |
| `agent_loop` | 2 credentials, an interval of 2 units, a clock set back by 1, every fault | `TypeOK`, `RecordIsIssued`, `InventoryClaimIsTrue`, `InventoryReachesCentral`, `SignalStops` | holds, 81 000 states |
| `agent_revoked` | 1 credential, revocation as the only fault | `RevokedAgentExits` | refuted |
| `runtime_probe` | every entry alone, two pairs, one list above the limit | `TypeOK`, `RowTellsFirstFailure`, `AcceptedIsProbeable`, `ShutdownLeavesNoRow`, `ProbesEnd` | holds, 295 000 states |

Bounds, and why they suffice:

- `Procs`, `Fingerprints`: the properties of the pipeline relate at most two
  processes. Telling a stale record from a fresh one takes two values of a
  fingerprint, and the empty one is the second; the proofs of section 5 cover any
  number of both. `reconcile_live` has three values, since a rollback, which is what
  makes `last_reported` misleading, needs two manifests with a fingerprint.
- `Writers`, `Values`: two writers can overtake each other; three values are an
  old version, the one in flight and the competing one.
- `MaxCommit = 2`: before and after one push, which can fall between any two steps.
- `MaxRequests`: two in `GitDeploy` (a first deploy into an absent path and one
  into the tree it left). Four in `NginxRuntime`: apply and reload of one site and
  of another, or apply, reload, apply, reload of one. Five in
  `nginx_tls_withdrawn`, the apply, reload and withdrawal of one site with room to
  spare. These two counters only stop Central and the remotes; the agent itself
  is unbounded, and may loop, fail, be killed and resume any number of times.
- `Sites = 2`: one site and another that interferes. Sites are symmetric in the
  safety runs. No symmetry is used where liveness is checked.
- `Urls`: a remote and, where a site may change its repository (`git_live`,
  `git_remote_change`), another one. In `git_safety` a site stays with
  its repository; the two sites of `git_safety` share theirs, which couples them more
  than two remotes would, and the proofs of section 5 cover any number.
- `Keys`: an old credential and a new one. `Interval = 2` leaves an age that is
  recent, one that is due and one in between; `MaxBack = 1` makes a recent time a
  future one, and the proofs of section 5 cover any interval and any bound.
- `Configs`: probes do not influence each other except through the list and the
  context, so each of the 324 entries, accepted or not, is a configuration of its
  own, and lists of two and three show the order of rows and the limit
  (`MaxProbes` is 2 here and 32 in the code).

`git_safety` excludes the faults `rerequest` and `rebind`: when Central requests a
site again while a run for it is under way, the old run answers the new request,
because rows carry no request id; and a tree whose site changed its repository is
fetched from the old one (section 6). The receipts of a run then fit neither the
ledger nor the request. `git_live` includes both and shows what remains true.
`nginx_safety` excludes `rerequest` for the same reason; what remains true of the nginx
legs with it, `PoisonIsVisible`, `ReloadReceiptIsLive` and `TlsObservationIsLive`, is
proved (section 5).

No run turns deadlock checking off.

## 4. Fairness

Five of the properties that hold are liveness properties.

`Reconcile!FairSpec` (`ReportedOnceSettled`): a process that is down is started
again (the service manager), the ticker or the signal ends the wait (`select` in
`main.go:386-392`), and a process inside `Reconcile` takes its next step, since
each call has a timeout (`http.Client.Timeout`): weak fairness. The steps that may be
refused (`AcquireLock`, `FetchDesired`, `Prepare`, `PersistApplied`, `PostAcked`)
get strong fairness: what is tried for ever succeeds in the end. The second write
is not among them. There is no fairness on Central, failures, late reports, stops or
the operator. The property says: if Central stays with a manifest for good, and the
last report that the node gave up on or could not record is followed by one that is
acknowledged and recorded, Central is told so for good. The second condition is
what the code needs and does not have: a late report of an older manifest that
overtakes the acknowledged one of the present is never corrected (section 6). It is
checked without kills: a killed process leaves the lock, and then nothing short of an
operator helps (section 6).

`GitDeploy!FairSpec` (`Answered`): weak fairness of the loop, of the steps of a
run and of posting; git commands are assumed to end, although the code gives
them no timeout. For each site and phase, a receipt that is posted again and
again is taken in the end (strong fairness of `Taken`). A kill or a signal in
each iteration would keep every clone from ending, so the property is about
behaviours in which they stop occurring; what they left behind stays, and the
property says that it never keeps a request without an answer. The answer may be
`failed`, and after a killed clone it is `failed` for ever: nothing
in the code removes the unfinished tree.

`AgentLoop!FairSpec` (`InventoryReachesCentral`, `SignalStops`; `RevokedAgentExits` is
refuted under it too): weak fairness of the loop, whose steps are disabled while a
child hangs, so nothing is assumed of hanging children; of `KillChild`, since
`CommandContext` sends SIGKILL and a pipe still held by an orphaned `ssh` closes at
the latest with its connection; and of time. Strong fairness of `Exit`: when ticker
and context are both ready, `select` draws one at random, so a loop that comes
back to it again and again leaves in the end. Strong fairness of `PostInventory`:
an inventory that is sent for ever under an accepted credential is not refused or
left unanswered for ever. There is none on the start, on signals, faults or
enrollments.

`RuntimeProbe!FairSpec` (`ProbesEnd`): weak fairness of the probing steps. A dial
has a timeout and a command the deadline of its context. `CombinedOutput` waits for
the output pipe as well, without a limit, so this assumes that the configured
command leaves no descendant that keeps the pipe open.

## 5. Proofs

Every module of proofs is checked by tlapm with the SMT, Zenon and LS4 backends.

`ReconcileProofs`, for every set of processes, fingerprints and faults, from the
three named assumptions on the constants (the special values are distinct from
the others and `Faults` is a set of known faults):

| theorem | says |
|---|---|
| `TypeCorrect` | `Spec => []TypeOK` |
| `LockSafe` | `Spec => []LockExcludes` |
| `OneDeploy` | two processes are never inside the pipeline together |
| `ReportSafe` | `Spec => []ReportMatchesDisk` |
| `AcknowledgementSafe` | `Spec => []AcknowledgedWasReceived` |
| `ConvergedSafe` | with one process, `Spec => []ConvergedIsKnown` |
| `ConvergedWasReceived` | what the early return skips has been received by Central, under every fault |
| `LockFreedUnlessKilled` | if no process is killed, `Spec => []LockFreedByExit` |
| `ImplementsManifestReports` | `Spec => ImplementsReports`, i.e. `Reconcile` implements `ManifestReports` |

The inductive invariant is `TypeOK /\ LockExcludes /\ ReportMatchesDisk /\
AcknowledgedWasReceived`. `LockExcludes` is needed for `ReportMatchesDisk`: a
second process inside the pipeline could write its record between the write and
the report of the first. `LockExcludes` itself survives the unconditional removal
in `Release` because whoever releases is inside and so owns the file, and survives
the operator because of the operator's care. `ConvergedSafe` is proved for every fault,
lost and late answers, full disks and kills included, from `InStep`: while nothing is
unsettled, no report is under way, and the record in memory and, outside the second
write, the one on disk name what Central was told last. One process is the only hypothesis: a
second one would report while the first sleeps on its old record. Any number of
processes still have what docs/CONVERGENCE.md says of the early return, that Central has
received a report with that fingerprint (`ConvergedWasReceived`).

`LockFreedUnlessKilled` adds `HeldByWorker`, that the creator of the lock file is inside
`Reconcile`: every way out of it but a kill passes `Release`. So the kill is the one
thing that makes the comment on `ExclusiveCreate` wrong (section 6). In
`ImplementsManifestReports` a report maps to a report of what the disk names, which is
`ReportMatchesDisk`, and a write to a write that notes only what was received, which
is `AcknowledgedWasReceived`; the places of the processes, their memories and the
lock disappear. It holds for any number of processes and under every fault.

`AtomicFileProofs`, for every set of writers and contents, from the assumption
that `NoFile` and `Torn` are not contents and differ:

| theorem | says |
|---|---|
| `NeverTornCorrect` | `Spec => []NeverTorn` |
| `RegisterCorrect` | `Spec => ImplementsRegister`, i.e. `AtomicFile` implements `AtomicRegister` |

The invariant adds to `TypeOK` that a temporary file about to be renamed is synced
and holds its writer's value (`Prepared`), and that everything the name refers
to, or may refer to after a power loss, is synced and whole (`Whole`). From it every step is
shown to be a step of the register or a stutter, action by action.

`AgentLoopProofs`, for every set of credentials, interval, bound on the clock and
set of faults, from the assumptions that there is a credential, that the special
values are none, and that the interval is positive:

| theorem | says |
|---|---|
| `TypeCorrect` | `Spec => []TypeOK` |
| `RecordSafe` | `Spec => []RecordIsIssued` |
| `InventoryClaimSafe` | `Spec => []InventoryClaimIsTrue` |

The invariant adds to these that the credential about to be written was handed out
(`Enrolling`) and that no age is below minus what the clock was set back
(`AgesBounded`). The second is what makes `InventoryClaimIsTrue` survive a passing of
time: ages stop growing at a limit, Central's at one that is higher than the agent's
by just that much. Three arithmetic lemmas on ages carry the steps of time and
clock, and one lemma each the steps that touch no time (`QuietStep`) and those that
reach Central (`PostStep`).

`PathPolicy`, for every set of names, every path and every list of roots, without
assumptions:

| theorem | says |
|---|---|
| `DeployableIsBelowRoot` | a path that passes both checks is within a root, and strictly below one if it ends in a name |
| `OrderOfRootsIsIrrelevant` | with well-formed roots only the set of roots counts, and more roots never forbid |
| `DeployableIsServable` | what both checks of gitdeploy let through, the two of nginxruntime do too, for every runtime type; so no site is deployed and then refused for its path |
| `AppendedRootIsHarmless` | a root added at the end never forbids a path, even if it is ill-formed |

The hypothesis of the first theorem, that the path ends in a name, cannot be
dropped: of a path with a trailing slash the parent is the same directory, so the
root itself passes both checks. The hypothesis of the second cannot either: an
ill-formed root ends the search, so one in front of the matching root forbids
everything behind it.

`GitDeployProofs`, for every set of sites and remotes, every set of faults and every
bound on pushes and requests, from the assumptions `GitNames`, `GitBounds` and
`GitFaults`, comes in three layers: what holds under every fault; what holds if
Central waits for answers (no `rerequest`); and what holds if moreover no site changes
its repository (no `rebind`).

| theorem | layer | says |
|---|---|---|
| `TypeCorrect` | 1 | `Spec => []TypeOK` |
| `AppliedSafe` | 1 | `Spec => []AppliedIsObserved` |
| `PinSafe` | 1 | `Spec => []PinIsExact` |
| `ShutdownSafe` | 1 | `Spec => []ShutdownIsNoFailure` |
| `IterationsEnd` | 1, finitely many sites | `Spec => IterationShrinks`, and `StepsLeft` is never more than 13 for each site and one |
| `ReceiptsSafe` | 2 | `Spec => []ReceiptsFollowLedger` |
| `AppliedGivesSafe` | 2 | what is applied is what was asked for, except perhaps that a branch was asked for and the tree is a clone of another repository |
| `AppliedReflectsSafe` | 3 | `Spec => []AppliedReflectsRequest` |
| `ImplementsService` | 3 | `Spec => ImplementsRequests`, i.e. `GitDeploy` implements `DeployRequests` |
| `AnswersStayTrue` | of `DeployRequests` | its specification implies `[]AnswersHold` |
| `TreesStayAsAsked` | 3 | the last two together: every tree that Central holds as applied is at what was asked for |

The first layer (`AnyInv`) says of the intents of an answer that their sites are
distinct and have an open request until the run ends (`Pending`). A run therefore
never touches the tree of a site that was answered, and `AppliedIsObserved` stays
true of every other site while one is worked on; `InPlace` says what the receipt
and the tree are like at each place of a run. `Pinned` adds what a run for a commit
has established: once the commit was found in the object store, the tree's
repository is the intent's, and after the reset the commit is checked out.
`ShutdownSafe` rests on `KilledComesLate`: the receipt of a killed command is posted when
the signal is past, since the command was what it struck or was not started at all,
and a receipt is taken under a cancelled context only if the signal struck it. For
`IterationsEnd` every step is shown to lower `StepsLeft`; `Pending` bounds the
intents by the sites, since no two are for one site. It is the safety part of
`Answered`: with the fairness of section 4 an iteration ends, and the loop comes back
to its heartbeat.

The second layer (`WaitInv`) adds that a pending intent still is what the ledger says
(`Fresh`), and the phase of the ledger at each place of a run (`Phase`), which is what
a resumed run relies on when it skips receipts. `AskInv` adds that no remote is older
than a request for it (`Asked`), that a fetched tree of the right repository knows the
tip of the time of the request, and that what was reset, reported and recorded is what
was asked for as far as `Gives` says (`HasAsked`, `AppliedGivesAsked`). For a commit
that is all of it, because its presence is checked; for a branch it leaves the
repository open. The third layer (`StayInv`) closes that gap: the tree of a site is a
clone of what the site asks for (`OwnRepository`).

`ImplementsService` maps every step to a step of `DeployRequests`: what moves the tree
of a site is `Work`, since its request is open, a receipt that closes the ledger is
`Answer`, and everything else is a stutter. `AnswersStayTrue` is proved of the abstract
specification alone, and the corollary takes it over to the code's trees.

No hypothesis can be dropped. With `rerequest` an old run posts receipts for a phase
the new request has not reached, or answers for a commit nobody asks for any more;
with `rebind` `AppliedReflectsRequest` is what `git_remote_change` refutes.
`AppliedGivesSafe` says that nothing worse than that happens to such a site, and that a
request for a commit is safe from it.

`NginxRuntimeProofs`, for every set of sites, versions and faults and every bound on
requests, from the assumptions `NginxNames`, `NginxFaults` and `NginxBound`:

| theorem | says |
|---|---|
| `TypeCorrect` | `Spec => []TypeOK` |
| `ReceiptsSafe` | if Central waits for answers, `Spec => []RuntimeReceiptsFollowLedger` |
| `EnabledSafe` | if Central waits for answers, `Spec => []AppliedIsEnabled` |
| `PoisonSafe` | `Spec => []PoisonIsVisible` |
| `ReloadSafe` | `Spec => []ReloadReceiptIsLive` |
| `TlsSafe` | if `~TlsWithdrawn`, `Spec => []TlsObservationIsLive` |
| `ImplementsService` | if Central waits for answers, `Spec => ImplementsRuntimeRequests`, i.e. `NginxRuntime` implements `RuntimeRequests` |
| `AnswersStayTrue` | the specification of `RuntimeRequests` implies `[]AnswersHold` |
| `ServedIsAccepted` | both together, under the hypothesis of the first: nginx serves nothing it rejects, and what was answered stays enabled and served |

The hypothesis that Central waits for answers is `"rerequest" \notin Faults`; the theorems
without it hold with new requests in the middle of a leg. The invariant has `Pending` and
`Phase` as above, of which the parts that compare the ledger with an intent are
conditional on it, but for one: a reload can only be asked for after an answer, so an
intent that meets a ledger at `reload_requested` is never an old one (`Current`), and
`ReloadSafe` needs no hypothesis. Two parts are for the files: `Made` says what a leg
has done to the files and to nginx at each of its places, `Settled` that what Central
holds as done is enabled and passed the test, and that what it never asked for is not
enabled. A leg changes only the files of its own site, whose request is open, so
`Settled` survives; a reload makes everything that is enabled live, and by `Settled`
that is valid for all sites that are done, and what Central asked for where it holds
them as reloaded. `TlsKept` links the chain that ends in an observation: what was
observed is live, what is live with TLS is enabled with TLS, and what is on disk with
TLS is wanted with TLS; `TlsPending` puts every pending intent between the last two.
That link is broken by a withdrawal, hence the hypothesis of `TlsSafe` and the refuted
run.

In the refinement the step that completes a site's file or link is
`Enable`, and `Made` says that it enables what was asked for; a reload, also one that
nginx performs although the command reports an error, is `Reload`, and the test before
it, which nothing can change in between, is why nginx accepts what it takes up; a
receipt that closes the ledger is `Answer` and true by `Made` and `Settled`; a loss of
the echo, a kill or a receipt of `gitdeploy` is a stutter.

`RuntimeProbeProofs`, for every set of configurations and every limit of entries,
from the module's assumption on the configurations:

| theorem | says |
|---|---|
| `TypeCorrect` | `Spec => []TypeOK` |
| `FirstFailureSafe` | `Spec => []RowTellsFirstFailure` |
| `AcceptedSafe` | `Spec => []AcceptedIsProbeable` |
| `ShutdownSafe` | `Spec => []ShutdownLeavesNoRow` |

The invariant is about every row, finished or not (`GoodRow`): its findings are those
of the first checks of its entry, all but the last succeeded, the row says what
the last one says, and a check that was cut short means that the context is
cancelled. The rows are posted under that context, so such rows stay here.

Only model-checked: the five liveness properties (fairness and ENABLED are out of the
prover's reach; of `Answered` the part that is safety is proved as `IterationsEnd`).
Every invariant, action property and refinement that a passing run checks is also
proved. The five properties of the refuting runs are false where those runs look;
three of them are proved under the hypothesis that the run lacks (`LockFreedUnlessKilled`,
`AppliedReflectsSafe`, `TlsSafe`), and the other two are liveness properties. No module
declares a recursive operator; nothing is proved by induction over data.

## 6. Disagreements between code and documents

1. *A killed process keeps the lock* (`reconcile_stale_lock`). The comment at
   `internal/lock/lock.go:13` lets the caller rely on process exit to release, and
   docs/FILESYSTEM.md:21 speaks of flock files. The lock is the existence of a file
   created with `O_EXCL`. After a kill inside `Reconcile` every later iteration
   gets `ErrHeld`, which is turned into success without a log line, until someone
   removes the file. Only a kill does that (`LockFreedUnlessKilled`).
2. *A changed repository URL is ignored* (`git_remote_change`). An existing tree
   is fetched from its own `origin`; the commit of the old remote is then reported
   as applied. docs/GITHUB_SITE_PULL.md:74 says that applied means the tree
   reflects the requested ref. A request for a commit is not affected
   (`AppliedGivesSafe`).
3. *TLS that was switched off is still observed* (`nginx_tls_withdrawn`). The
   reload leg starts from the echoed TLS state and never lowers it, so a site
   that is reloaded without TLS reports `tls_state` applied, against
   docs/GITHUB_SITE_PULL.md:63 and docs/TLS_RUNTIME_CONVERGENCE.md:52.
4. *A revoked agent goes on* (`agent_revoked`). docs/ENROLLMENT.md:50 says that the
   agent exits non-zero from `run`, after backoff, when Central revokes its key. In
   `cmdRun` a 401 is an error like any other: it is logged and the loop goes on at
   the poll interval.

Three smaller observations are modelled as the code has them. A report of an older
manifest, on which the client had given up, may reach Central after the acknowledged
report of the present one. Central then holds the older fingerprint, and the node,
converged, takes the early return (`internal/deploy/runner.go:87`) and never reports
again, whereas docs/CONVERGENCE.md:37 calls the convergence report "event + periodic".
`ConvergedIsKnown` and `ReportedOnceSettled` say what is left: the next acknowledged
report with nothing outstanding repairs it. A `systemctl` that is
killed at the deadline reports exit code -1, so a dependency whose manager is slow
is `missing`, as if its unit were inactive. The comment at
`internal/health/health.go:12` calls the probes bounded, but the children they
start have no timeout; `SignalStops` holds only with that exception.

## 7. What is not modelled

- The facts that health and inventory collect, logs, paths, origin; the payloads of
  the reports; the text of the nginx template (a version is good or bad).
  `appendRunRecord`, the event log and `inventory.json` are written, their errors
  logged, and never read.
- The defaults and field checks of `config.Load` beyond the probe entries, and the
  checks of certificate paths: each is a refusal that can happen, without state.
- The heartbeat and health posts: their failures are logged and the loop goes on.
  `last_error` is never read by the agent.
- Temporary files left by a killed `WriteJSONAtomic`: never read, never removed.
- Locks of git on refs, more than one branch, rewritten histories.
- In `GitDeploy` and `NginxRuntime`, receipts delivered after the client's
  timeout: a late receipt can be followed by newer ones, and what becomes of it
  depends on whether Central orders by `observed_at`, which this repository does
  not say. Also a second agent process: these slices take no lock. In
  `NginxRuntime` a cancelled context, which only makes commands and posts fail
  as they may anyway.
- Power loss outside `AtomicFile`: the other modules use its result, that a write
  is one step, and lose processes only.

## 8. Plan

Order of the work, all of it done.

1. `Reconcile`, the pipeline every other document of the repository refers to.
2. `ReconcileProofs`: type correctness, exclusion, report and acknowledgement.
3. `AtomicRegister`, `AtomicFile`, `AtomicFileProofs`: abstract and detailed
   specification with a proved refinement.
4. `GitDeploy` and its runs.
5. `NginxRuntime` and its runs.
6. `AgentLoop` and `AgentLoopProofs`, with enrollment, cadence, the clock and the
   shutdown.
7. `RuntimeProbe`, with the probe entries of the configuration.
8. `DeployRequests`, implemented by `GitDeploy`.
9. `PathPolicy` with its theorems.
10. `RuntimeProbeProofs`.
11. `GitDeployProofs`, with the proof that `GitDeploy` implements `DeployRequests`.
12. `NginxRuntimeProofs`.
13. `RuntimeRequests`, implemented by `NginxRuntime`, with the proof.
14. `ManifestReports`, implemented by `Reconcile`, with the proof; the lock without kills.
15. `GitDeploy` with changes of the repository: pinned commits, the end of an
    iteration, and what is left of "applied" when a site changes its repository.
16. Signals that strike a receipt or a command under way in `GitDeploy`; requests in the
    middle of a leg in `NginxRuntime`; the early return of `Reconcile` under lost and late
    answers and kills.

What could follow: receipts delivered after the client's timeout, once it is settled
how Central orders them; and a second agent process in the two convergence slices,
which take no lock, once it is settled whether a node may run two.
