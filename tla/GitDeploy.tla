------------------------------- MODULE GitDeploy -------------------------------
(***************************************************************************)
(* Repository convergence: the loop over site_repository_deploy_intents in *)
(* cmd/agent/main.go and internal/gitdeploy/executor.go, against Central's *)
(* ledger, the Git remotes and the deploy trees on disk.                   *)
(*                                                                         *)
(* A commit of a remote is a number: the history of a remote is linear and *)
(* only grows, and a tree holds commits of its own origin only.  One       *)
(* branch is modelled.  Git is external: a command succeeds, fails, or is  *)
(* killed with the agent's context, and then leaves whatever it had done.  *)
(***************************************************************************)
EXTENDS Naturals, FiniteSets

CONSTANTS
    Sites, Urls,
    NoUrl, NoSite,
    MaxCommit,      \* bound: pushes to one remote
    MaxRequests,    \* bound: deploy requests made to Central
    Faults          \* subset of FaultKinds

FaultKinds == {"ack_loss", "crash", "shutdown", "rerequest", "rebind"}

ASSUME GitNames == NoUrl \notin Urls /\ NoSite \notin Sites
ASSUME GitBounds == MaxCommit \in Nat \ {0} /\ MaxRequests \in Nat
ASSUME GitFaults == Faults \subseteq FaultKinds

VARIABLES
    pc, cur, intents, row,              \* the agent
    signal,                             \* SIGTERM, as its context knows it
    tree,                               \* the deploy path of each site
    tip,                                \* the remotes
    ledger, want, observed, requests    \* Central

agent == <<pc, cur, intents, row, signal>>
central == <<ledger, want, observed, requests>>
vars == <<pc, cur, intents, row, signal, tree, tip, ledger, want, observed,
          requests>>

Commits == 1..MaxCommit
NoCommit == 0

-----------------------------------------------------------------------------
(* Central's ledger.                                                       *)

Phases == <<"requested", "fetching", "fetched", "applying", "applied">>
Open == {Phases[i] : i \in 1..4}
Rank(s) == CHOOSE i \in 1..5 : Phases[i] = s

\* Central takes a receipt for the phase it is in or for the next one.
Accepts(from, to) ==
    /\ from \in Open
    /\ to \in {"failed", "killed"} \/ Rank(to) \in {Rank(from), Rank(from) + 1}

(* An intent is a copy of the ledger row, taken by GET /agent/ping.        *)
Intent(s) == [site |-> s, url |-> want[s].url, sha |-> want[s].sha,
              state |-> ledger[s]]
NoIntent == [site |-> NoSite, url |-> NoUrl, sha |-> NoCommit, state |-> "none"]
Intents == [site : Sites, url : Urls, sha : 0..MaxCommit, state : Open]

(* A receipt that is being posted and where the code goes on afterwards.   *)
(* "killed" is a receipt of "failed" whose reason is that the shutdown has *)
(* killed the command, which the code does not tell from other reasons.    *)
NoRow == [state |-> "none", commit |-> NoCommit, then |-> "next"]
Rows ==
    [state : {"fetching", "fetched", "applying", "failed", "killed"},
     commit : {NoCommit}, then : {"tree", "applying", "verify", "next"}]
    \cup [state : {"applied"}, commit : Commits, then : {"next"}]

Absent == [kind |-> "absent", origin |-> NoUrl, seen |-> NoCommit,
           head |-> NoCommit, locked |-> FALSE]
Trees == [kind : {"absent", "foreign", "broken", "repo"}, origin : Urls \cup {NoUrl},
          seen : 0..MaxCommit, head : 0..MaxCommit, locked : BOOLEAN]

TypeOK ==
    /\ pc \in {"down", "idle", "next", "start", "tree", "clone", "fetch",
               "applying", "verify", "reset", "observe", "post"}
    /\ cur \in Intents \cup {NoIntent}
    /\ intents \subseteq Intents
    /\ row \in Rows \cup {NoRow}
    /\ signal \in {"none", "strikes", "past"}
    /\ tree \in [Sites -> Trees]
    /\ tip \in [Urls -> Commits]
    /\ ledger \in [Sites -> Open \cup {"none", "applied", "failed", "killed"}]
    /\ want \in [Sites -> [url : Urls \cup {NoUrl}, sha : 0..MaxCommit,
                           since : 0..MaxCommit]]
    /\ observed \in [Sites -> (Urls \cup {NoUrl}) \X (0..MaxCommit)]
    /\ requests \in 0..MaxRequests

Init ==
    /\ pc = "down" /\ cur = NoIntent /\ intents = {} /\ row = NoRow
    /\ signal = "none"
    /\ tree \in [Sites -> {Absent, [Absent EXCEPT !.kind = "foreign"]}]
    /\ tip = [u \in Urls |-> 1]
    /\ ledger = [s \in Sites |-> "none"]
    /\ want = [s \in Sites |-> [url |-> NoUrl, sha |-> NoCommit,
                                since |-> NoCommit]]
    /\ observed = [s \in Sites |-> <<NoUrl, NoCommit>>]
    /\ requests = 0

-----------------------------------------------------------------------------
(* The loop over the intents.                                              *)

(* The signal cancels the context: it strikes the git command or the call  *)
(* that is under way, and no other is started under a cancelled context.   *)
cancelled == signal # "none"
Met == IF signal = "strikes" THEN "past" ELSE signal

\* The state in which no intent is being worked on.
Rest(at) == pc' = at /\ cur' = NoIntent /\ row' = NoRow

Boot ==
    /\ pc = "down"
    /\ Rest("idle")
    /\ UNCHANGED <<intents, signal, tree, tip, central>>

\* The intents of one answer are worked through, however long that takes.
GetPing ==
    /\ pc = "idle" /\ ~cancelled
    /\ intents' = {Intent(s) : s \in {t \in Sites : ledger[t] \in Open}}
    /\ Rest("next")
    /\ UNCHANGED <<signal, tree, tip, central>>

TakeIntent ==
    /\ pc = "next"
    /\ \E i \in intents : cur' = i /\ intents' = intents \ {i}
    /\ pc' = "start"
    /\ UNCHANGED <<row, signal, tree, tip, central>>

LoopDone ==
    /\ pc = "next" /\ intents = {}
    /\ Rest("idle")
    /\ UNCHANGED <<intents, signal, tree, tip, central>>

Exit ==
    /\ pc = "idle" /\ cancelled
    /\ Rest("down")
    /\ signal' = "none"
    /\ UNCHANGED <<intents, tree, tip, central>>

-----------------------------------------------------------------------------
(* Posting a receipt.  Every error of the reporter ends the intent's run.  *)

Report(state, commit, then) ==
    /\ pc' = "post"
    /\ row' = [state |-> state, commit |-> commit, then |-> then]

Fail == Report("failed", NoCommit, "next")

Advance ==
    LET s == cur.site IN
    IF ~Accepts(ledger[s], row.state) THEN UNCHANGED <<ledger, observed>>
    ELSE /\ ledger' = [ledger EXCEPT ![s] = row.state]
         /\ observed' = IF row.state = "applied"
                        THEN [observed EXCEPT ![s] = <<tree[s].origin,
                                                       row.commit>>]
                        ELSE observed

GoOn(to) == IF to = "next" THEN Rest("next")
            ELSE pc' = to /\ row' = NoRow /\ UNCHANGED cur

\* Seeded bug: receipts are posted with a context that outlives the signal.
Bug_PostOk ==
    /\ pc = "post"
    /\ Advance
    /\ GoOn(row.then)
    /\ signal' = Met
    /\ UNCHANGED <<intents, tree, tip, want, requests>>

PostOk ==
    /\ pc = "post" /\ ~cancelled
    /\ Advance
    /\ GoOn(row.then)
    /\ signal' = Met
    /\ UNCHANGED <<intents, tree, tip, want, requests>>

\* Refused, unreachable, or the context is cancelled.
PostFails ==
    /\ pc = "post"
    /\ Rest("next")
    /\ signal' = Met
    /\ UNCHANGED <<intents, tree, tip, central>>

\* Central has the receipt, the agent an error: the answer was lost, or the
\* signal has struck the call when the receipt was on its way.
PostAckLost ==
    /\ pc = "post"
    /\ IF cancelled THEN signal = "strikes" ELSE "ack_loss" \in Faults
    /\ Advance
    /\ Rest("next")
    /\ signal' = Met
    /\ UNCHANGED <<intents, tree, tip, want, requests>>

-----------------------------------------------------------------------------
(* gitdeploy.Run.                                                          *)

Here == tree[cur.site]
SetTree(t) == tree' = [tree EXCEPT ![cur.site] = t]
Working(at) ==
    pc = at /\ signal' = Met /\ UNCHANGED <<cur, intents, tip, central>>

\* No git, a missing field, a path outside the roots, no usable deploy key.
Refuse == Working("start") /\ Fail /\ UNCHANGED tree

\* Seeded bug: a ledger that is past "fetching" is told "fetching" again.
Bug_Begin ==
    /\ Working("start")
    /\ IF cur.state = "applying" THEN pc' = "tree" /\ UNCHANGED row
       ELSE Report("fetching", NoCommit, "tree")
    /\ UNCHANGED tree

\* Seeded bug: an interrupted "applying" is left to whoever started it.
Bug_BeginOnce ==
    /\ pc = "start"
    /\ UNCHANGED <<intents, signal, tip, central, tree>>
    /\ IF cur.state = "applying" THEN Rest("next")
       ELSE /\ Report("fetching", NoCommit, "tree")
            /\ UNCHANGED cur

Begin ==
    /\ Working("start")
    /\ IF cur.state \in {"fetched", "applying"}
       THEN pc' = "tree" /\ UNCHANGED row
       ELSE Report("fetching", NoCommit, "tree")
    /\ UNCHANGED tree

\* Only an absent path is cloned into; whatever has a .git is fetched into.
InspectTree ==
    /\ Working("tree")
    /\ \/ Here.kind = "absent" /\ pc' = "clone" /\ UNCHANGED row
       \/ Here.kind \in {"repo", "broken"} /\ pc' = "fetch" /\ UNCHANGED row
       \/ Here.kind = "foreign" /\ Fail
    /\ UNCHANGED tree

\* The parent of the path is missing or outside the roots.
RefuseParent == Working("tree") /\ Fail /\ UNCHANGED tree

AfterFetch ==
    IF cur.state = "applying" THEN Report("applying", NoCommit, "verify")
    ELSE Report("fetched", NoCommit, "applying")

Clone ==
    /\ Working("clone") /\ ~cancelled
    /\ SetTree([kind |-> "repo", origin |-> cur.url, seen |-> tip[cur.url],
                head |-> tip[cur.url], locked |-> FALSE])
    /\ AfterFetch

\* Seeded bug: a fetch that fails is only logged.
Bug_Fetch ==
    /\ Working("fetch") /\ ~cancelled /\ Here.kind = "repo"
    /\ UNCHANGED tree
    /\ AfterFetch

\* Whatever remote the tree was cloned from: the intent's URL is not used.
Fetch ==
    /\ Working("fetch") /\ ~cancelled /\ Here.kind = "repo"
    /\ SetTree([Here EXCEPT !.seen = tip[Here.origin]])
    /\ AfterFetch

SendApplying ==
    /\ Working("applying")
    /\ Report("applying", NoCommit, "verify")
    /\ UNCHANGED tree

\* Seeded bug: any repository that has as many commits will do.
Bug_Verify ==
    /\ Working("verify") /\ ~cancelled
    /\ IF cur.sha <= Here.seen THEN pc' = "reset" /\ UNCHANGED row ELSE Fail
    /\ UNCHANGED tree

\* A desired commit must be in the tree's object store.
Verify ==
    /\ Working("verify") /\ ~cancelled
    /\ IF \/ cur.sha = NoCommit
          \/ cur.url = Here.origin /\ cur.sha <= Here.seen
       THEN pc' = "reset" /\ UNCHANGED row
       ELSE Fail
    /\ UNCHANGED tree

\* Seeded bug: the tree always goes to the tip of the branch.
Bug_ResetTarget == Here.seen

ResetTarget == IF cur.sha = NoCommit THEN Here.seen ELSE cur.sha

Reset ==
    /\ Working("reset") /\ ~cancelled
    /\ ~Here.locked /\ ResetTarget # NoCommit
    /\ SetTree([Here EXCEPT !.head = ResetTarget])
    /\ pc' = "observe"
    /\ UNCHANGED row

\* rev-parse HEAD and log -1, with nothing in between that moves HEAD.
ObservedCommit == Here.head

\* Seeded bug: the branch tip is reported instead of HEAD.
Bug_Observe ==
    /\ Working("observe") /\ ~cancelled
    /\ Report("applied", Here.seen, "next")
    /\ UNCHANGED tree

Observe ==
    /\ Working("observe") /\ ~cancelled
    /\ Report("applied", ObservedCommit, "next")
    /\ UNCHANGED tree

\* Seeded bug: a failed git command is reported as applied, without commit.
Bug_GitFails ==
    /\ \E at \in {"clone", "fetch", "verify", "reset", "observe"} : Working(at)
    /\ Report("applied", NoCommit, "next")
    /\ UNCHANGED tree

\* Seeded bug: a failed git command is tried again.
Bug_GitRetries ==
    /\ \E at \in {"clone", "fetch", "verify", "reset", "observe"} : Working(at)
    /\ pc' = "tree" /\ UNCHANGED <<row, tree>>

\* A command that git itself gives up leaves the tree as it was.
GitFails ==
    /\ ~cancelled
    /\ \E at \in {"clone", "fetch", "verify", "reset", "observe"} : Working(at)
    /\ Fail
    /\ UNCHANGED tree

(* What a killed command may leave in the tree: an empty directory, an      *)
(* unfinished .git or checkout of a clone, the new refs of a fetch, the     *)
(* index.lock of a reset.                                                   *)
Leftovers ==
    LET fresh == [Absent EXCEPT !.kind = "repo", !.origin = cur.url] IN
    CASE pc = "clone" ->
           {Here, [Absent EXCEPT !.kind = "foreign"],
            [Absent EXCEPT !.kind = "broken"], fresh,
            [fresh EXCEPT !.seen = tip[cur.url]]}
           \cup {[fresh EXCEPT !.seen = tip[cur.url], !.head = tip[cur.url],
                               !.locked = l] : l \in BOOLEAN}
      [] pc = "fetch" /\ Here.kind = "repo" ->
           {Here, [Here EXCEPT !.seen = tip[Here.origin]]}
      [] pc = "reset" /\ ResetTarget # NoCommit ->
           {Here, [Here EXCEPT !.locked = TRUE],
            [Here EXCEPT !.head = ResetTarget]}
      [] OTHER -> {Here}

\* A command that is not started leaves nothing.
Remains == IF signal = "past" THEN {Here} ELSE Leftovers

\* The context kills the command, or keeps it from starting; the run goes on.
GitKilled ==
    /\ cancelled
    /\ \E at \in {"clone", "fetch", "verify", "reset", "observe"} : Working(at)
    /\ \E t \in Remains : SetTree(t)
    /\ Report("killed", NoCommit, "next")

-----------------------------------------------------------------------------
(* Signals, crashes, Central and the remotes.                              *)

Signal ==
    /\ "shutdown" \in Faults
    /\ pc # "down" /\ ~cancelled
    /\ signal' = IF pc \in {"clone", "fetch", "verify", "reset", "observe", "post"}
                 THEN "strikes" ELSE "past"
    /\ UNCHANGED <<pc, cur, intents, row, tree, tip, central>>

Crash ==
    /\ "crash" \in Faults
    /\ pc # "down"
    /\ IF cur = NoIntent THEN UNCHANGED tree
       ELSE \E t \in Remains : SetTree(t)
    /\ Rest("down")
    /\ intents' = {} /\ signal' = "none"
    /\ UNCHANGED <<tip, central>>

(* Without "rerequest" Central waits for the answer to the last request, and *)
(* without "rebind" a site stays with its first repository.                 *)
Request(s, u, c) ==
    /\ requests < MaxRequests
    /\ ledger[s] \in Open => "rerequest" \in Faults
    /\ want[s].url \notin {u, NoUrl} => "rebind" \in Faults
    /\ c <= tip[u]
    /\ requests' = requests + 1
    /\ ledger' = [ledger EXCEPT ![s] = "requested"]
    /\ want' = [want EXCEPT ![s] = [url |-> u, sha |-> c, since |-> tip[u]]]
    /\ UNCHANGED <<agent, tree, tip, observed>>

Push(u) ==
    /\ tip[u] < MaxCommit
    /\ tip' = [tip EXCEPT ![u] = @ + 1]
    /\ UNCHANGED <<agent, tree, central>>

-----------------------------------------------------------------------------
Run == \/ Refuse \/ Begin \/ InspectTree \/ RefuseParent \/ Clone \/ Fetch
       \/ SendApplying \/ Verify \/ Reset \/ Observe \/ GitFails \/ GitKilled
Post == PostOk \/ PostFails \/ PostAckLost
Loop == Boot \/ GetPing \/ TakeIntent \/ LoopDone \/ Exit

Outside ==
    \/ Signal \/ Crash
    \/ \E s \in Sites, u \in Urls, c \in 0..MaxCommit : Request(s, u, c)
    \/ \E u \in Urls : Push(u)

Next == Loop \/ Run \/ Post \/ Outside

Spec == Init /\ [][Next]_vars

(***************************************************************************)
(* Fairness.  The agent goes on working, git commands end, and a receipt   *)
(* of a site that is posted again and again is taken in the end.           *)
(***************************************************************************)
Taken(s, state) == PostOk /\ cur.site = s /\ row.state = state

FairSpec ==
    /\ Spec
    /\ WF_vars(Loop) /\ WF_vars(Run) /\ WF_vars(Post)
    /\ \A s \in Sites :
         \A state \in {"fetching", "fetched", "applying", "applied", "failed"} :
            SF_vars(Taken(s, state))

-----------------------------------------------------------------------------
(* What the agent posts never takes the ledger backwards and never skips a  *)
(* phase, whatever was lost or killed before (docs/GITHUB_SITE_PULL.md,     *)
(* "avoiding invalid backwards transitions"): Central accepts each receipt. *)
ReceiptsFollowLedger ==
    pc = "post" => Accepts(ledger[cur.site], row.state)

(* "applied" on the ledger means that the tree reflects the requested ref:  *)
(* the requested remote, the requested commit, or a branch tip that is no   *)
(* older than the request (docs/GITHUB_SITE_PULL.md, state "applied").      *)
AppliedReflectsRequest ==
    \A s \in Sites : ledger[s] = "applied" =>
        /\ observed[s][1] = want[s].url
        /\ IF want[s].sha = NoCommit THEN observed[s][2] >= want[s].since
           ELSE observed[s][2] = want[s].sha

(* The commit that Central holds as applied is the one in the tree: no      *)
(* later step of the agent moves the tree without a new request.            *)
AppliedIsObserved ==
    \A s \in Sites : ledger[s] = "applied" =>
        /\ tree[s].kind = "repo"
        /\ observed[s] = <<tree[s].origin, tree[s].head>>

(* An applied receipt of a run that was asked for a commit names that       *)
(* commit, the tree is at it, and it is from the repository of the intent,  *)
(* although the fetch never looks at the intent's URL and Central may have  *)
(* asked for something else since the intent was read.                      *)
PinIsExact ==
    pc = "post" /\ row.state = "applied" /\ cur.sha # NoCommit =>
        /\ row.commit = cur.sha
        /\ Here.head = cur.sha /\ Here.origin = cur.url

(* A shutdown is not a failed deploy: Central never learns of a deploy that *)
(* it failed because the agent, on its way out, killed its git command.     *)
(* gitdeploy.Run posts just that, and a receipt that is on its way when the *)
(* signal comes may still be taken; what keeps the two apart is that the    *)
(* receipt of a killed command is always posted after the signal.           *)
ShutdownIsNoFailure == \A s \in Sites : ledger[s] # "killed"

(* Every step of an iteration brings the iteration nearer to its end: no    *)
(* receipt and no command is tried twice, so an answer with n intents is    *)
(* worked through in at most 13 * n + 1 steps, however many of them fail,   *)
(* and the heartbeat gets its turn.                                         *)
Distance == [down |-> 0, idle |-> 0, next |-> 1, observe |-> 3, reset |-> 4,
             verify |-> 5, applying |-> 7, fetch |-> 9, clone |-> 9, tree |-> 10,
             start |-> 12]
StepsLeft == 13 * Cardinality(intents)
             + (IF pc = "post" THEN Distance[row.then] + 1 ELSE Distance[pc])

IterationShrinks ==
    [][pc \notin {"down", "idle"} /\ (Loop \/ Run \/ Post) =>
          StepsLeft' < StepsLeft]_vars

(* Unless the agent is killed or stopped for ever, every request is         *)
(* answered, as applied or as failed, whatever an interrupted run, a lost   *)
(* receipt or a killed git command left behind.                             *)
Answered ==
    <>[][~(Crash \/ Signal)]_vars =>
        \A s \in Sites :
            ledger[s] = "requested" ~> ledger[s] \in {"applied", "failed"}

Requests == INSTANCE DeployRequests WITH
                request <- want,
                answer  <- [s \in Sites |-> IF ledger[s] \in Open THEN "pending"
                                            ELSE ledger[s]],
                holds   <- [s \in Sites |-> <<tree[s].origin, tree[s].head>>]

(* Convergence implements that service, if Central waits for answers: a     *)
(* tree moves only while its site has a request open, also when the agent   *)
(* is killed, stopped or works on an old answer, and every answer is true.  *)
ImplementsRequests == Requests!Spec
=============================================================================
