---------------------------- MODULE GitDeployProofs ----------------------------
(***************************************************************************)
(* Theorems about GitDeploy, for every set of sites and remotes and every  *)
(* bound on pushes and requests.  They come in three layers: what holds    *)
(* under every fault, what holds if Central waits for answers, and what    *)
(* holds if moreover no site changes its repository.                       *)
(***************************************************************************)
EXTENDS GitDeploy, FiniteSetTheorems, TLAPS

Pcs == {"down", "idle", "next", "start", "tree", "clone", "fetch", "applying",
        "verify", "reset", "observe", "post"}
Resting == {"down", "idle", "next"}

\* Places of a run after the clone or the fetch has succeeded.
Fetched == \/ pc \in {"applying", "verify", "reset", "observe"}
           \/ pc = "post" /\ row.state \in {"fetched", "applying", "applied"}
Reported == pc = "post" /\ row.state = "applied"

-----------------------------------------------------------------------------
(* First layer: every fault.                                                *)

(* An intent is pending from the answer of GET until its run ends.  Its     *)
(* site's request is open, and no other pending intent is for its site.     *)
Pending == /\ \A i \in intents : ledger[i.site] \in Open /\ i.site # cur.site
           /\ \A i, j \in intents : i.site = j.site => i = j
           /\ IF pc \in Resting THEN cur = NoIntent
              ELSE cur \in Intents /\ ledger[cur.site] \in Open

\* Where a run goes on after each receipt.
Onward == {<<"fetching", "tree">>, <<"fetched", "applying">>, <<"applying", "verify">>,
           <<"applied", "next">>, <<"failed", "next">>, <<"killed", "next">>}
GoodRow == row \in Rows /\ <<row.state, row.then>> \in Onward

\* The receipt of the run, and what its tree is like.
InPlace == /\ pc = "post" => GoodRow
           /\ \A s \in Sites : tree[s].kind = "repo" => tree[s].origin \in Urls
           /\ Fetched => Here.kind = "repo"
           /\ pc = "observe" => Here.head # NoCommit
           /\ Reported => row.commit = Here.head

\* What Central has asked for has a repository.
Named == \A s \in Sites : ledger[s] # "none" => want[s].url \in Urls

AnyInv == TypeOK /\ Named /\ Pending /\ InPlace /\ AppliedIsObserved

(* A run that was asked for a commit has its repository in place from the   *)
(* check of the object store on, and the commit from the reset on.          *)
Pinned ==
    cur.sha # NoCommit =>
        /\ pc \in {"reset", "observe"} \/ Reported => Here.origin = cur.url
        /\ pc = "observe" \/ Reported => Here.head = cur.sha

-----------------------------------------------------------------------------
(* Second layer: Central waits for answers.                                 *)

\* A pending intent still says what the ledger says, or said when it began.
Fresh == /\ \A i \in intents : i = Intent(i.site)
         /\ pc \notin Resting => /\ cur.url = want[cur.site].url
                                 /\ cur.sha = want[cur.site].sha

\* The phase of the ledger at each place of a run.
Phase ==
    LET phase == ledger[cur.site]
        begun == cur.state \in {"fetched", "applying"}
        inTree == IF begun THEN phase = cur.state ELSE phase = "fetching"
    IN  /\ pc = "start" => phase = cur.state
        /\ pc \in {"tree", "clone", "fetch"} => inTree
        /\ pc = "applying" => phase = "fetched"
        /\ pc \in {"verify", "reset", "observe"} => phase = "applying"
        /\ pc = "post" =>
              /\ row.state = "fetching" => phase = cur.state /\ ~begun
              /\ row.state = "fetched" => inTree /\ cur.state # "applying"
              /\ row.state = "applying" => phase \in {"fetched", "applying"}
              /\ row.state = "applied" => phase = "applying"

WaitInv == AnyInv /\ Fresh /\ Phase

\* Requests are about commits that were there.
Asked == \A s \in Sites : ledger[s] # "none" => want[s].since <= tip[want[s].url]

\* A commit c of the repository u is what was asked for, except perhaps that
\* u is another repository than the one whose branch was asked for.
Gives(u, c, r) == IF r.sha = NoCommit THEN u = r.url => c >= r.since
                  ELSE u = r.url /\ c = r.sha

\* The tree of the run has what was asked for, in that sense.
HasAsked ==
    LET r == want[cur.site] IN
    /\ Fetched /\ Here.origin = r.url => Here.seen >= r.since
    /\ pc = "observe" \/ Reported => Gives(Here.origin, Here.head, r)

\* And so is what Central holds as applied.
AppliedGivesAsked ==
    \A s \in Sites : ledger[s] = "applied" =>
        Gives(observed[s][1], observed[s][2], want[s])

AskInv == WaitInv /\ Pinned /\ Asked /\ HasAsked /\ AppliedGivesAsked

-----------------------------------------------------------------------------
(* Third layer: and no site changes its repository.                         *)

\* A repository on disk is a clone of the one its site asks for.
OwnRepository == \A s \in Sites : tree[s].kind = "repo" => tree[s].origin = want[s].url

StayInv == AskInv /\ OwnRepository

-----------------------------------------------------------------------------
LEMMA OpenPhases == Open = {"requested", "fetching", "fetched", "applying"}
<1>1. /\ Phases[1] = "requested" /\ Phases[2] = "fetching" /\ Phases[3] = "fetched"
      /\ Phases[4] = "applying"
  BY DEF Phases
<1>2. \A i \in 1..4 : i = 1 \/ i = 2 \/ i = 3 \/ i = 4
  OBVIOUS
<1>3. 1 \in 1..4 /\ 2 \in 1..4 /\ 3 \in 1..4 /\ 4 \in 1..4
  OBVIOUS
<1> QED
  BY <1>1, <1>2, <1>3 DEF Open

\* The order of the phases.
LEMMA RankOfPhases ==
    /\ Rank("requested") = 1 /\ Rank("fetching") = 2 /\ Rank("fetched") = 3
    /\ Rank("applying") = 4 /\ Rank("applied") = 5
<1>1. /\ Phases[1] = "requested" /\ Phases[2] = "fetching" /\ Phases[3] = "fetched"
      /\ Phases[4] = "applying" /\ Phases[5] = "applied"
  BY DEF Phases
<1>2. \A i \in 1..5 : i = 1 \/ i = 2 \/ i = 3 \/ i = 4 \/ i = 5
  OBVIOUS
<1>3. \A i \in 1..5, j \in 1..5 : Phases[i] = Phases[j] => i = j
  BY <1>1, <1>2
<1>4. \A i \in 1..5 : Rank(Phases[i]) = i
  <2> TAKE i \in 1..5
  <2>1. Rank(Phases[i]) \in 1..5 /\ Phases[Rank(Phases[i])] = Phases[i]
    BY DEF Rank
  <2> QED
    BY <1>3, <2>1
<1>5. 1 \in 1..5 /\ 2 \in 1..5 /\ 3 \in 1..5 /\ 4 \in 1..5 /\ 5 \in 1..5
  OBVIOUS
<1> QED
  BY <1>1, <1>4, <1>5

\* No site is the site of NoIntent.
LEMMA NoIntentIsNone == NoIntent.site = NoSite /\ NoIntent \notin Intents
  BY GitNames DEF NoIntent, Intents

LEMMA MetIsSignal == AnyInv => Met \in {"none", "strikes", "past"}
  BY DEF Met, AnyInv, TypeOK

(* The tree and the run at a place of gitdeploy.Run.                        *)
LEMMA AtWork ==
    ASSUME AnyInv, pc \notin Resting
    PROVE  /\ cur \in Intents /\ cur.site \in Sites /\ cur.url \in Urls
           /\ cur.sha \in 0..MaxCommit /\ cur.state \in Open
           /\ Here \in Trees /\ tip[cur.url] \in Commits
           /\ tree = [tree EXCEPT ![cur.site] = Here]
           /\ ledger[cur.site] \in Open
<1>1. cur \in Intents /\ ledger[cur.site] \in Open
  BY DEF AnyInv, Pending
<1>2. /\ cur.site \in Sites /\ cur.url \in Urls
      /\ cur.sha \in 0..MaxCommit /\ cur.state \in Open
  BY <1>1 DEF Intents
<1>3. Here \in Trees /\ tip[cur.url] \in Commits
  BY <1>2 DEF AnyInv, TypeOK, Here
<1>4. tree = [tree EXCEPT ![cur.site] = Here]
  BY <1>2 DEF AnyInv, TypeOK, Here
<1> QED
  BY <1>1, <1>2, <1>3, <1>4

(* A step of a run touches the tree of its site and nothing of Central.     *)
LEMMA RunKeepsAny ==
    ASSUME AnyInv, pc \notin Resting, pc' \in Pcs \ Resting,
           UNCHANGED <<cur, intents, tip, central>>, signal' = Met,
           NEW t \in Trees, SetTree(t),
           t.kind = "repo" => t.origin \in Urls,
           row' \in Rows \cup {NoRow}, pc' = "post" => GoodRow',
           Fetched' => t.kind = "repo",
           pc' = "observe" => t.head # NoCommit,
           Reported' => row'.commit = t.head
    PROVE  AnyInv' /\ Here' = t /\ \A s \in Sites : s # cur.site => tree'[s] = tree[s]
<1>1. cur.site \in Sites /\ ledger[cur.site] \in Open
  BY AtWork
<1>2. /\ tree' \in [Sites -> Trees] /\ tree'[cur.site] = t /\ cur' = cur
      /\ \A s \in Sites : s # cur.site => tree'[s] = tree[s]
      /\ Here' = t
  BY <1>1 DEF AnyInv, TypeOK, SetTree, Here
<1>3. TypeOK'
  BY <1>2, MetIsSignal DEF AnyInv, TypeOK, central, Pcs
<1>4. Pending'
  BY DEF AnyInv, Pending, central
<1>5. InPlace'
  BY <1>2 DEF AnyInv, InPlace, GoodRow
<1>6. AppliedIsObserved'
  BY <1>1, <1>2, OpenPhases DEF AnyInv, AppliedIsObserved, central
<1>7. Named'
  BY DEF AnyInv, Named, central
<1> QED
  BY <1>2, <1>3, <1>4, <1>5, <1>6, <1>7 DEF AnyInv

LEMMA InitAny == Init => AnyInv
<1> SUFFICES ASSUME Init PROVE AnyInv
  OBVIOUS
<1>1. TypeOK
  <2>1. Absent \in Trees /\ [Absent EXCEPT !.kind = "foreign"] \in Trees
    <3>1. NoCommit \in 0..MaxCommit /\ FALSE \in BOOLEAN /\ NoUrl \in Urls \cup {NoUrl}
      BY GitBounds DEF NoCommit
    <3>2. Absent \in Trees
      BY <3>1 DEF Absent, Trees
    <3>3. [Absent EXCEPT !.kind = "foreign"] \in Trees
      BY <3>2 DEF Trees
    <3> QED
      BY <3>2, <3>3
  <2>2. tree \in [Sites -> Trees]
    BY <2>1 DEF Init
  <2>3. tip \in [Urls -> Commits]
    BY GitBounds DEF Init, Commits
  <2>4. /\ want \in [Sites -> [url : Urls \cup {NoUrl}, sha : 0..MaxCommit,
                              since : 0..MaxCommit]]
        /\ observed \in [Sites -> (Urls \cup {NoUrl}) \X (0..MaxCommit)]
    BY GitBounds DEF Init, NoCommit
  <2>5. ledger \in [Sites -> Open \cup {"none", "applied", "failed", "killed"}]
    BY DEF Init
  <2>6. requests \in 0..MaxRequests
    BY GitBounds DEF Init
  <2> QED
    BY <2>2, <2>3, <2>4, <2>5, <2>6 DEF Init, TypeOK
<1>2. Pending
  BY DEF Init, Pending, Resting
<1>3. InPlace
  BY DEF Init, InPlace, Fetched, Reported, Absent
<1>4. AppliedIsObserved
  BY DEF Init, AppliedIsObserved
<1>5. Named
  BY DEF Init, Named
<1> QED
  BY <1>1, <1>2, <1>3, <1>4, <1>5 DEF AnyInv

LEMMA LoopAny == AnyInv /\ Loop => AnyInv'
<1> SUFFICES ASSUME AnyInv, Loop PROVE AnyInv'
  OBVIOUS
<1> USE DEF Rest, central, Resting
<1>1. /\ pc' \in Pcs /\ cur' \in Intents \cup {NoIntent} /\ intents' \subseteq Intents
      /\ row' \in Rows \cup {NoRow} /\ signal' \in {"none", "strikes", "past"}
      /\ UNCHANGED <<tree, tip, central>>
  <2>1. CASE Boot
    BY <2>1 DEF Boot, AnyInv, TypeOK, Pcs
  <2>2. CASE GetPing
    <3>1. intents' \subseteq Intents
      <4>1. ASSUME NEW s \in Sites, ledger[s] \in Open PROVE Intent(s) \in Intents
        <5>1. want[s].url \in Urls /\ want[s].sha \in 0..MaxCommit
          BY <4>1, OpenPhases DEF AnyInv, TypeOK, Named
        <5> QED
          BY <4>1, <5>1 DEF Intent, Intents
      <4> QED
        BY <2>2, <4>1 DEF GetPing
    <3> QED
      BY <2>2, <3>1 DEF GetPing, AnyInv, TypeOK, Pcs
  <2>3. CASE TakeIntent
    BY <2>3 DEF TakeIntent, AnyInv, TypeOK, Pcs
  <2>4. CASE LoopDone
    BY <2>4 DEF LoopDone, AnyInv, TypeOK, Pcs
  <2>5. CASE Exit
    BY <2>5 DEF Exit, AnyInv, TypeOK, Pcs
  <2> QED
    BY <2>1, <2>2, <2>3, <2>4, <2>5 DEF Loop
<1>2. TypeOK'
  BY <1>1 DEF AnyInv, TypeOK, Pcs
<1>3. Pending'
  <2>1. CASE Boot \/ LoopDone \/ Exit
    BY <2>1, NoIntentIsNone DEF Boot, LoopDone, Exit, AnyInv, TypeOK, Pending, Intents
  <2>2. CASE GetPing
    BY <2>2, NoIntentIsNone, GitNames DEF GetPing, Pending, Intent
  <2>3. CASE TakeIntent
    BY <2>3 DEF TakeIntent, AnyInv, TypeOK, Pending
  <2> QED
    BY <2>1, <2>2, <2>3 DEF Loop
<1>4. pc' \in Resting \cup {"start"}
  BY DEF Loop, Boot, GetPing, TakeIntent, LoopDone, Exit
<1>5. InPlace'
  BY <1>1, <1>4 DEF AnyInv, InPlace, Fetched, Reported
<1>6. AppliedIsObserved'
  BY <1>1 DEF AnyInv, AppliedIsObserved
<1>7. Named'
  BY <1>1 DEF AnyInv, Named
<1> QED
  BY <1>2, <1>3, <1>5, <1>6, <1>7 DEF AnyInv

(* Receipts.  The ledger of other sites stays; the run's own is open, or it *)
(* was answered and the run is over.                                        *)
LEMMA AdvanceAny ==
    ASSUME AnyInv, pc = "post", Advance
    PROVE  /\ ledger' \in [Sites -> Open \cup {"none", "applied", "failed", "killed"}]
           /\ observed' \in [Sites -> (Urls \cup {NoUrl}) \X (0..MaxCommit)]
           /\ \A s \in Sites : s # cur.site =>
                 ledger'[s] = ledger[s] /\ observed'[s] = observed[s]
           /\ ledger'[cur.site] \in {ledger[cur.site], row.state}
           /\ ledger'[cur.site] = "applied" =>
                 /\ row.state = "applied"
                 /\ observed'[cur.site] = <<tree[cur.site].origin, row.commit>>
<1>1. row \in Rows /\ cur.site \in Sites /\ ledger[cur.site] \in Open
  BY AtWork DEF AnyInv, InPlace, GoodRow, Resting
<1>2. row.state \in Open \cup {"failed", "killed", "applied"} /\ row.commit \in 0..MaxCommit
  BY <1>1, OpenPhases, GitBounds DEF Rows, Commits, NoCommit
<1>3. tree[cur.site].origin \in Urls \cup {NoUrl}
  BY <1>1 DEF AnyInv, TypeOK, Trees
<1>4. ledger[cur.site] # "applied"
  BY <1>1, OpenPhases
<1>5. CASE ~Accepts(ledger[cur.site], row.state)
  BY <1>1, <1>4, <1>5 DEF Advance, AnyInv, TypeOK
<1>6. CASE Accepts(ledger[cur.site], row.state)
  <2>1. ledger' = [ledger EXCEPT ![cur.site] = row.state]
    BY <1>6 DEF Advance
  <2>2. observed' = IF row.state = "applied"
                    THEN [observed EXCEPT ![cur.site] = <<tree[cur.site].origin,
                                                          row.commit>>]
                    ELSE observed
    BY <1>6 DEF Advance
  <2>3. /\ ledger' \in [Sites -> Open \cup {"none", "applied", "failed", "killed"}]
        /\ \A s \in Sites : s # cur.site => ledger'[s] = ledger[s]
        /\ ledger'[cur.site] = row.state
    BY <1>1, <1>2, <2>1 DEF AnyInv, TypeOK
  <2>4. /\ observed' \in [Sites -> (Urls \cup {NoUrl}) \X (0..MaxCommit)]
        /\ \A s \in Sites : s # cur.site => observed'[s] = observed[s]
        /\ row.state = "applied" =>
              observed'[cur.site] = <<tree[cur.site].origin, row.commit>>
    BY <1>1, <1>2, <1>3, <2>2 DEF AnyInv, TypeOK
  <2> QED
    BY <2>3, <2>4
<1> QED
  BY <1>5, <1>6

LEMMA PostAny == AnyInv /\ Post => AnyInv'
<1> SUFFICES ASSUME AnyInv, Post PROVE AnyInv'
  OBVIOUS
<1>1. /\ pc = "post" /\ GoodRow /\ cur \in Intents /\ cur.site \in Sites
      /\ UNCHANGED <<intents, tree, tip, want, requests>> /\ signal' = Met
  BY AtWork DEF Post, PostOk, PostFails, PostAckLost, AnyInv, InPlace, Resting, central
<1>2. CASE PostFails
  <2> USE <1>2 DEF PostFails, Rest
  <2>1. TypeOK'
    BY MetIsSignal DEF AnyInv, TypeOK, central
  <2>2. Pending'
    BY GitNames, NoIntentIsNone DEF AnyInv, TypeOK, Pending, Resting, central, Intents
  <2>3. InPlace'
    BY DEF AnyInv, InPlace, Fetched, Reported
  <2>4. AppliedIsObserved' /\ Named'
    BY DEF AnyInv, AppliedIsObserved, Named, central
  <2> QED
    BY <2>1, <2>2, <2>3, <2>4 DEF AnyInv
<1>3. CASE PostOk \/ PostAckLost
  <2>1. Advance /\ (GoOn(row.then) \/ Rest("next"))
    BY <1>3 DEF PostOk, PostAckLost
  <2>2. /\ \/ pc' = "next" /\ cur' = NoIntent
           \/ /\ row.then # "next" /\ pc' = row.then /\ cur' = cur
      /\ row' = NoRow
    BY <2>1 DEF GoOn, Rest
  <2>3. row.then \in {"tree", "applying", "verify", "next"}
    BY <1>1 DEF GoodRow, Rows
  <2>4. TypeOK'
    BY <1>1, <2>1, <2>2, <2>3, AdvanceAny, MetIsSignal DEF AnyInv, TypeOK
  <2>5. Named'
    BY <1>1, <2>1, AdvanceAny, AtWork, OpenPhases DEF AnyInv, Named, Resting
  <2>6. AppliedIsObserved'
    <3>1. ASSUME NEW s \in Sites, ledger'[s] = "applied"
          PROVE  tree[s].kind = "repo" /\ observed'[s] = <<tree[s].origin, tree[s].head>>
      <4>1. CASE s # cur.site
        BY <2>1, <3>1, <4>1, <1>1, AdvanceAny DEF AnyInv, AppliedIsObserved
      <4>2. CASE s = cur.site
        <5>1. row.state = "applied" /\ observed'[s] = <<tree[s].origin, row.commit>>
          BY <2>1, <3>1, <4>2, <1>1, AdvanceAny
        <5>2. row.commit = tree[s].head /\ tree[s].kind = "repo"
          BY <1>1, <4>2, <5>1 DEF AnyInv, InPlace, Fetched, Reported, Here
        <5> QED
          BY <5>1, <5>2
      <4> QED
        BY <4>1, <4>2
    <3> QED
      BY <1>1, <3>1 DEF AppliedIsObserved
  <2>7. Pending'
    <3>1. \A i \in intents : ledger'[i.site] \in Open /\ i.site # cur.site
      BY <1>1, <2>1, AdvanceAny DEF AnyInv, TypeOK, Pending, Intents
    <3>2. CASE pc' = "next" /\ cur' = NoIntent
      BY <1>1, <3>1, <3>2, GitNames, NoIntentIsNone
         DEF AnyInv, TypeOK, Pending, Resting, Intents
    <3>3. CASE row.then # "next" /\ pc' = row.then /\ cur' = cur
      <4>1. row.state \in Open
        BY <1>1, <3>3, OpenPhases DEF GoodRow, Onward
      <4>2. ledger'[cur.site] \in Open
        BY <1>1, <2>1, <4>1, AdvanceAny, AtWork DEF Resting
      <4> QED
        BY <1>1, <2>3, <3>1, <3>3, <4>2 DEF AnyInv, Pending, Resting
    <3> QED
      BY <2>2, <3>2, <3>3
  <2>8. InPlace'
    <3>1. pc' \in {"tree", "applying", "verify", "next"}
      BY <2>2, <2>3
    <3>2. pc' \in {"applying", "verify"} => Fetched /\ cur' = cur
      BY <1>1, <2>2 DEF GoodRow, Onward, Fetched
    <3> QED
      BY <1>1, <3>1, <3>2 DEF AnyInv, InPlace, Fetched, Reported, Here
  <2> QED
    BY <2>4, <2>5, <2>6, <2>7, <2>8 DEF AnyInv
<1> QED
  BY <1>2, <1>3 DEF Post

\* Receipts of a run.
LEMMA ReportIsGood ==
    ASSUME NEW state, NEW commit, NEW then, Report(state, commit, then),
           <<state, then>> \in Onward,
           IF state = "applied" THEN commit \in Commits ELSE commit = NoCommit
    PROVE  GoodRow' /\ pc' = "post" /\ row'.state = state /\ row'.commit = commit
  BY DEF Report, GoodRow, Rows, Onward

LEMMA FailIsGood == Fail => GoodRow' /\ pc' = "post" /\ row'.state = "failed"
  BY ReportIsGood DEF Fail, Onward

LEMMA KilledIsGood == GitKilled => GoodRow' /\ pc' = "post" /\ row'.state = "killed"
  BY ReportIsGood DEF GitKilled, Onward

(* The steps that leave the tree alone.                                     *)
LEMMA QuietRunAny ==
    ASSUME AnyInv,
           Refuse \/ Begin \/ InspectTree \/ RefuseParent \/ SendApplying \/ Verify
           \/ Observe \/ GitFails
    PROVE  AnyInv' /\ UNCHANGED <<tree, cur, intents, tip, central>>
<1>1. /\ pc \notin Resting /\ UNCHANGED <<cur, intents, tip, central>>
      /\ tree' = tree /\ signal' = Met
  BY DEF Refuse, Begin, InspectTree, RefuseParent, SendApplying, Verify, Observe,
         GitFails, Working, Resting
<1>2. SetTree(Here) /\ Here \in Trees /\ (Here.kind = "repo" => Here.origin \in Urls)
  BY <1>1, AtWork DEF SetTree, AnyInv, InPlace, Here
<1>3. ASSUME Fail PROVE AnyInv'
  BY <1>1, <1>2, <1>3, FailIsGood, RunKeepsAny DEF GoodRow, Pcs, Resting, Fetched, Reported
<1>4. ASSUME UNCHANGED row, pc # "post", pc' \in {"tree", "clone", "fetch"} PROVE AnyInv'
  BY <1>1, <1>2, <1>4, RunKeepsAny DEF AnyInv, TypeOK, Pcs, Resting, Fetched, Reported
<1>5. CASE Refuse \/ RefuseParent \/ GitFails
  BY <1>1, <1>3, <1>5 DEF Refuse, RefuseParent, GitFails
<1>6. CASE InspectTree
  <2>1. /\ pc = "tree"
        /\ Fail \/ (UNCHANGED row /\ pc' \in {"clone", "fetch"})
    BY <1>6 DEF InspectTree, Working
  <2> QED
    BY <1>1, <1>3, <1>4, <2>1
<1>7. CASE Begin
  <2>1. CASE pc' = "tree" /\ UNCHANGED row
    BY <1>4, <1>7, <2>1 DEF Begin, Working
  <2>2. CASE Report("fetching", NoCommit, "tree")
    <3>1. GoodRow' /\ pc' = "post" /\ row'.state = "fetching"
      BY <2>2, ReportIsGood DEF Onward
    <3> QED
      BY <1>1, <1>2, <3>1, RunKeepsAny DEF GoodRow, Pcs, Resting, Fetched, Reported
  <2> QED
    BY <1>7, <2>1, <2>2 DEF Begin
<1>8. CASE SendApplying
  <2>1. GoodRow' /\ pc' = "post" /\ row'.state = "applying" /\ Here.kind = "repo"
    BY <1>8, ReportIsGood DEF SendApplying, Working, Onward, AnyInv, InPlace, Fetched
  <2> QED
    BY <1>1, <1>2, <2>1, RunKeepsAny DEF GoodRow, Pcs, Resting, Fetched, Reported
<1>9. CASE Verify
  <2>1. CASE Fail
    BY <1>1, <1>3, <2>1
  <2>2. CASE pc' = "reset" /\ UNCHANGED row
    <3>1. Here.kind = "repo"
      BY <1>9 DEF Verify, Working, AnyInv, InPlace, Fetched
    <3> QED
      BY <1>1, <1>2, <2>2, <3>1, RunKeepsAny
         DEF AnyInv, TypeOK, Pcs, Resting, Fetched, Reported
  <2> QED
    BY <1>9, <2>1, <2>2 DEF Verify
<1>10. CASE Observe
  <2>1. Here.head \in Commits /\ Here.kind = "repo"
    BY <1>2, <1>10, GitBounds
       DEF Observe, Working, AnyInv, InPlace, Fetched, Trees, Commits, NoCommit
  <2>2. /\ GoodRow' /\ pc' = "post" /\ row'.state = "applied"
        /\ row'.commit = Here.head
    BY <1>10, <2>1, ReportIsGood DEF Observe, ObservedCommit, Onward
  <2> QED
    BY <1>1, <1>2, <2>1, <2>2, RunKeepsAny DEF GoodRow, Pcs, Resting, Fetched, Reported
<1>11. AnyInv'
  BY <1>5, <1>6, <1>7, <1>8, <1>9, <1>10
<1> QED
  BY <1>1, <1>11

\* What the clone, the fetch and the reset make of a tree.
ClonedTree == [kind |-> "repo", origin |-> cur.url, seen |-> tip[cur.url],
               head |-> tip[cur.url], locked |-> FALSE]
FetchedTree == [Here EXCEPT !.seen = tip[Here.origin]]
ResetTree == [Here EXCEPT !.head = ResetTarget]

LEMMA NewTrees ==
    ASSUME AnyInv, pc \notin Resting
    PROVE  /\ ClonedTree \in Trees
           /\ Here.kind = "repo" =>
                 /\ FetchedTree \in Trees /\ FetchedTree.kind = "repo"
                 /\ FetchedTree.origin = Here.origin
                 /\ FetchedTree.head = Here.head
                 /\ FetchedTree.seen = tip[Here.origin] /\ Here.origin \in Urls
           /\ ResetTarget # NoCommit =>
                 /\ ResetTree \in Trees /\ ResetTree.kind = Here.kind
                 /\ ResetTree.origin = Here.origin /\ ResetTree.seen = Here.seen
                 /\ ResetTree.head = ResetTarget
<1>1. /\ Here \in Trees /\ cur.url \in Urls /\ cur.sha \in 0..MaxCommit
      /\ cur.site \in Sites /\ tip \in [Urls -> Commits] /\ tip[cur.url] \in Commits
      /\ Here.kind = "repo" => Here.origin \in Urls
  BY AtWork DEF AnyInv, TypeOK, InPlace, Here
<1>2. Commits \subseteq 0..MaxCommit
  BY GitBounds DEF Commits
<1>3. ClonedTree \in Trees
  BY <1>1, <1>2 DEF ClonedTree, Trees
<1>4. ASSUME Here.kind = "repo"
      PROVE  /\ FetchedTree \in Trees /\ FetchedTree.kind = "repo"
             /\ FetchedTree.origin = Here.origin /\ FetchedTree.head = Here.head
             /\ FetchedTree.seen = tip[Here.origin] /\ Here.origin \in Urls
  <2>1. tip[Here.origin] \in 0..MaxCommit
    BY <1>1, <1>2, <1>4
  <2> QED
    BY <1>1, <1>4, <2>1 DEF FetchedTree, Trees
<1>5. ResetTarget \in 0..MaxCommit
  BY <1>1 DEF ResetTarget, Trees
<1>6. /\ ResetTree \in Trees /\ ResetTree.kind = Here.kind
      /\ ResetTree.origin = Here.origin /\ ResetTree.seen = Here.seen
      /\ ResetTree.head = ResetTarget
  BY <1>1, <1>5 DEF ResetTree, Trees
<1> QED
  BY <1>3, <1>4, <1>6

\* A tree of the intent's repository, or of the one that is there already.
Ours(t) == t.kind = "repo" => \/ t.origin = cur.url
                              \/ Here.kind = "repo" /\ t.origin = Here.origin

(* What a killed command leaves is a tree, of no third repository.          *)
LEMMA LeftoversAreTrees ==
    ASSUME AnyInv, pc \notin Resting, NEW t \in Leftovers
    PROVE  t \in Trees /\ (t.kind = "repo" => t.origin \in Urls) /\ Ours(t)
<1>1. /\ Here \in Trees /\ cur.url \in Urls /\ tip[cur.url] \in 0..MaxCommit
      /\ Here.kind = "repo" => Here.origin \in Urls
      /\ NoCommit \in 0..MaxCommit
  BY AtWork, GitBounds DEF AnyInv, InPlace, Here, Commits, NoCommit
<1>2. Absent \in Trees /\ Absent.kind = "absent"
  BY <1>1 DEF Absent, Trees
<1>3. CASE pc = "clone"
  <2> DEFINE fresh == [Absent EXCEPT !.kind = "repo", !.origin = cur.url]
             more == [fresh EXCEPT !.seen = tip[cur.url]]
             most(l) == [fresh EXCEPT !.seen = tip[cur.url], !.head = tip[cur.url],
                                      !.locked = l]
  <2>1. \/ t \in {Here, [Absent EXCEPT !.kind = "foreign"],
                  [Absent EXCEPT !.kind = "broken"], fresh, more}
        \/ \E l \in BOOLEAN : t = most(l)
    BY <1>3 DEF Leftovers
  <2>2. CASE t = Here
    BY <1>1, <2>2 DEF Ours
  <2>3. CASE t = [Absent EXCEPT !.kind = "foreign"]
    BY <1>2, <2>3 DEF Trees, Ours
  <2>4. CASE t = [Absent EXCEPT !.kind = "broken"]
    BY <1>2, <2>4 DEF Trees, Ours
  <2>5. fresh \in Trees /\ fresh.origin = cur.url
    BY <1>1, <1>2 DEF Trees
  <2> HIDE DEF fresh
  <2>6. more \in Trees /\ more.origin = cur.url
    BY <1>1, <2>5 DEF Trees
  <2>7. ASSUME NEW l \in BOOLEAN PROVE most(l) \in Trees /\ most(l).origin = cur.url
    BY <1>1, <2>5 DEF Trees
  <2> HIDE DEF most
  <2> QED
    BY <1>1, <2>1, <2>2, <2>3, <2>4, <2>5, <2>6, <2>7 DEF Ours
<1>4. CASE pc = "fetch" /\ Here.kind = "repo"
  <2>1. t \in {Here, FetchedTree}
    BY <1>4 DEF Leftovers, FetchedTree
  <2> QED
    BY <1>1, <1>4, <2>1, NewTrees DEF Ours
<1>5. CASE pc = "reset" /\ ResetTarget # NoCommit
  <2>1. t \in {Here, [Here EXCEPT !.locked = TRUE], ResetTree}
    BY <1>5 DEF Leftovers, ResetTree
  <2>2. CASE t = [Here EXCEPT !.locked = TRUE]
    BY <1>1, <2>2 DEF Trees, Ours
  <2>3. CASE t \in {Here, ResetTree}
    BY <1>1, <1>5, <2>3, NewTrees DEF Ours
  <2> QED
    BY <2>1, <2>2, <2>3
<1>6. CASE /\ pc # "clone" /\ ~(pc = "fetch" /\ Here.kind = "repo")
           /\ ~(pc = "reset" /\ ResetTarget # NoCommit)
  <2>1. t = Here
    BY <1>6 DEF Leftovers
  <2> QED
    BY <1>1, <2>1 DEF Ours
<1> QED
  BY <1>3, <1>4, <1>5, <1>6

LEMMA RemainsAreLeftovers == Remains \subseteq Leftovers
  BY DEF Remains, Leftovers

(* The steps that change the tree, and what it is afterwards.               *)
LEMMA TreeRunAny ==
    ASSUME AnyInv, Clone \/ Fetch \/ Reset \/ GitKilled
    PROVE  /\ AnyInv' /\ UNCHANGED <<cur, intents, tip, central>>
           /\ Clone => Here' = ClonedTree
           /\ Fetch => Here' = FetchedTree
           /\ Reset => Here' = ResetTree
           /\ \A s \in Sites : s # cur.site => tree'[s] = tree[s]
<1>1. /\ pc \notin Resting /\ UNCHANGED <<cur, intents, tip, central>>
      /\ signal' = Met
  BY DEF Clone, Fetch, Reset, GitKilled, Working, Resting
<1>2. Here.kind = "repo" => Here.origin \in Urls
  BY <1>1, AtWork DEF AnyInv, InPlace, Here
<1>3. ASSUME NEW t \in Trees, t.kind = "repo", t.origin \in Urls, SetTree(t), AfterFetch
      PROVE  /\ AnyInv' /\ Here' = t
             /\ \A s \in Sites : s # cur.site => tree'[s] = tree[s]
  <2>1. /\ GoodRow' /\ pc' = "post" /\ row'.state \in {"fetched", "applying"}
    BY <1>3, ReportIsGood DEF AfterFetch, Onward
  <2> QED
    BY <1>1, <1>3, <2>1, RunKeepsAny DEF GoodRow, Pcs, Resting, Fetched, Reported
<1>4. CASE Clone
  <2>1. ClonedTree \in Trees /\ SetTree(ClonedTree) /\ AfterFetch
    BY <1>1, <1>4, NewTrees DEF Clone, ClonedTree
  <2>2. ClonedTree.kind = "repo" /\ ClonedTree.origin \in Urls
    BY <1>1, AtWork DEF ClonedTree
  <2>3. ~Fetch /\ ~Reset
    BY <1>4 DEF Clone, Fetch, Reset, Working
  <2> QED
    BY <1>1, <1>3, <2>1, <2>2, <2>3
<1>5. CASE Fetch
  <2>1. /\ FetchedTree \in Trees /\ SetTree(FetchedTree) /\ AfterFetch
        /\ FetchedTree.kind = "repo" /\ FetchedTree.origin \in Urls
    BY <1>1, <1>5, NewTrees DEF Fetch, FetchedTree
  <2>2. ~Clone /\ ~Reset
    BY <1>5 DEF Clone, Fetch, Reset, Working
  <2> QED
    BY <1>1, <1>3, <2>1, <2>2
<1>6. CASE Reset
  <2>1. /\ ResetTree \in Trees /\ SetTree(ResetTree) /\ pc' = "observe" /\ row' = row
        /\ ResetTree.kind = "repo" /\ ResetTree.origin \in Urls
        /\ ResetTree.head # NoCommit
    BY <1>1, <1>2, <1>6, NewTrees
       DEF Reset, ResetTree, Working, AnyInv, InPlace, Fetched
  <2>2. ~Clone /\ ~Fetch
    BY <1>6 DEF Clone, Fetch, Reset, Working
  <2>3. /\ AnyInv' /\ Here' = ResetTree
        /\ \A s \in Sites : s # cur.site => tree'[s] = tree[s]
    BY <1>1, <2>1, RunKeepsAny DEF AnyInv, TypeOK, Pcs, Resting, Fetched, Reported
  <2> QED
    BY <1>1, <2>2, <2>3
<1>7. CASE GitKilled
  <2>1. PICK t \in Leftovers : SetTree(t)
    BY <1>7, RemainsAreLeftovers DEF GitKilled
  <2>2. t \in Trees /\ (t.kind = "repo" => t.origin \in Urls)
    BY <1>1, LeftoversAreTrees
  <2>3. GoodRow' /\ pc' = "post" /\ row'.state = "killed"
    BY <1>7, KilledIsGood
  <2>4. AnyInv' /\ \A s \in Sites : s # cur.site => tree'[s] = tree[s]
    BY <1>1, <2>1, <2>2, <2>3, RunKeepsAny DEF GoodRow, Pcs, Resting, Fetched, Reported
  <2>5. ~Clone /\ ~Fetch /\ ~Reset
    BY <2>3, <1>7
       DEF Clone, Fetch, Reset, GoodRow, AfterFetch, Report
  <2> QED
    BY <1>1, <2>4, <2>5
<1> QED
  BY <1>4, <1>5, <1>6, <1>7

LEMMA OutsideAny == AnyInv /\ Outside => AnyInv'
<1> SUFFICES ASSUME AnyInv, Outside PROVE AnyInv'
  OBVIOUS
<1>1. CASE Signal
  <2> USE <1>1 DEF Signal, central
  <2>1. TypeOK'
    BY DEF AnyInv, TypeOK
  <2>2. Pending' /\ Named'
    BY DEF AnyInv, Pending, Named
  <2>3. InPlace'
    BY DEF AnyInv, InPlace, GoodRow, Fetched, Reported, Here
  <2>4. AppliedIsObserved'
    BY DEF AnyInv, AppliedIsObserved
  <2> QED
    BY <2>1, <2>2, <2>3, <2>4 DEF AnyInv
<1>2. CASE Crash
  <2>1. /\ pc' = "down" /\ cur' = NoIntent /\ row' = NoRow /\ intents' = {}
        /\ signal' = "none" /\ UNCHANGED <<tip, central>>
    BY <1>2 DEF Crash, Rest
  <2>2. /\ tree' \in [Sites -> Trees]
        /\ \A s \in Sites : tree'[s].kind = "repo" => tree'[s].origin \in Urls
        /\ \A s \in Sites : ledger[s] \notin Open => tree'[s] = tree[s]
    <3>1. CASE pc \in Resting
      BY <1>2, <3>1 DEF Crash, AnyInv, Pending, TypeOK, InPlace
    <3>2. CASE pc \notin Resting
      <4>1. cur # NoIntent
        BY <3>2, AtWork, NoIntentIsNone
      <4>2. PICK t \in Leftovers : SetTree(t)
        BY <1>2, <4>1, RemainsAreLeftovers DEF Crash
      <4>3. t \in Trees /\ (t.kind = "repo" => t.origin \in Urls)
        BY <3>2, LeftoversAreTrees
      <4>4. cur.site \in Sites /\ ledger[cur.site] \in Open
        BY <3>2, AtWork
      <4> QED
        BY <4>2, <4>3, <4>4 DEF SetTree, AnyInv, TypeOK, InPlace
    <3> QED
      BY <3>1, <3>2
  <2>3. TypeOK'
    BY <2>1, <2>2 DEF AnyInv, TypeOK, central
  <2>4. Pending' /\ Named'
    BY <2>1 DEF AnyInv, Pending, Named, central, Resting
  <2>5. InPlace'
    BY <2>1, <2>2 DEF InPlace, Fetched, Reported
  <2>6. AppliedIsObserved'
    BY <2>1, <2>2, OpenPhases DEF AnyInv, AppliedIsObserved, central
  <2> QED
    BY <2>3, <2>4, <2>5, <2>6 DEF AnyInv
<1>3. ASSUME NEW s \in Sites, NEW u \in Urls, NEW c \in 0..MaxCommit, Request(s, u, c)
      PROVE  AnyInv'
  <2>1. /\ requests < MaxRequests /\ requests' = requests + 1
        /\ ledger' = [ledger EXCEPT ![s] = "requested"]
        /\ want' = [want EXCEPT ![s] = [url |-> u, sha |-> c, since |-> tip[u]]]
        /\ UNCHANGED <<pc, cur, intents, row, signal, tree, tip, observed>>
    BY <1>3 DEF Request, agent
  <2>2. tip[u] \in 0..MaxCommit
    BY GitBounds DEF AnyInv, TypeOK, Commits
  <2>3. requests' \in 0..MaxRequests
    BY <2>1, GitBounds DEF AnyInv, TypeOK
  <2>4. want' \in [Sites -> [url : Urls \cup {NoUrl}, sha : 0..MaxCommit,
                             since : 0..MaxCommit]]
    BY <2>1, <2>2 DEF AnyInv, TypeOK
  <2>5. /\ ledger' \in [Sites -> Open \cup {"none", "applied", "failed", "killed"}]
        /\ ledger'[s] = "requested" /\ want'[s].url = u
        /\ \A r \in Sites : r # s => ledger'[r] = ledger[r] /\ want'[r] = want[r]
    BY <2>1, OpenPhases DEF AnyInv, TypeOK
  <2>6. TypeOK'
    BY <2>1, <2>3, <2>4, <2>5 DEF AnyInv, TypeOK
  <2>7. Named'
    BY <2>5 DEF AnyInv, Named
  <2>8. Pending'
    <3>1. \A r \in Sites : ledger[r] \in Open => ledger'[r] \in Open
      BY <2>5, OpenPhases
    <3> QED
      BY <2>1, <3>1 DEF AnyInv, TypeOK, Pending, Intents
  <2>9. InPlace'
    BY <2>1 DEF AnyInv, InPlace, GoodRow, Fetched, Reported, Here
  <2>10. AppliedIsObserved'
    BY <2>1, <2>5 DEF AnyInv, AppliedIsObserved
  <2> QED
    BY <2>6, <2>7, <2>8, <2>9, <2>10 DEF AnyInv
<1>4. ASSUME NEW u \in Urls, Push(u) PROVE AnyInv'
  <2>1. /\ tip[u] < MaxCommit /\ tip' = [tip EXCEPT ![u] = @ + 1]
        /\ UNCHANGED <<pc, cur, intents, row, signal, tree, ledger, want, observed,
                        requests>>
    BY <1>4 DEF Push, agent, central
  <2>2. tip' \in [Urls -> Commits]
    <3>1. tip[u] + 1 \in Commits
      BY <2>1, GitBounds DEF AnyInv, TypeOK, Commits
    <3> QED
      BY <2>1, <3>1 DEF AnyInv, TypeOK
  <2>3. TypeOK'
    BY <2>1, <2>2 DEF AnyInv, TypeOK
  <2>4. Pending' /\ Named'
    BY <2>1 DEF AnyInv, Pending, Named
  <2>5. InPlace'
    BY <2>1 DEF AnyInv, InPlace, GoodRow, Fetched, Reported, Here
  <2>6. AppliedIsObserved'
    BY <2>1 DEF AnyInv, AppliedIsObserved
  <2> QED
    BY <2>3, <2>4, <2>5, <2>6 DEF AnyInv
<1> QED
  BY <1>1, <1>2, <1>3, <1>4 DEF Outside

LEMMA NextAny == AnyInv /\ [Next]_vars => AnyInv'
<1> SUFFICES ASSUME AnyInv, [Next]_vars PROVE AnyInv'
  OBVIOUS
<1>1. CASE Loop
  BY <1>1, LoopAny
<1>2. CASE Run
  BY <1>2, QuietRunAny, TreeRunAny DEF Run
<1>3. CASE Post
  BY <1>3, PostAny
<1>4. CASE Outside
  BY <1>4, OutsideAny
<1>5. CASE UNCHANGED vars
  <2> USE <1>5 DEF vars
  <2>1. TypeOK'
    BY DEF AnyInv, TypeOK
  <2>2. Pending' /\ Named' /\ AppliedIsObserved'
    BY DEF AnyInv, Pending, Named, AppliedIsObserved
  <2>3. InPlace'
    BY DEF AnyInv, InPlace, GoodRow, Fetched, Reported, Here
  <2> QED
    BY <2>1, <2>2, <2>3 DEF AnyInv
<1> QED
  BY <1>1, <1>2, <1>3, <1>4, <1>5 DEF Next

LEMMA AlwaysAny == Spec => []AnyInv
  BY InitAny, NextAny, PTL DEF Spec

(* The agent, the trees, the remotes and Central's rows stay well-typed, in *)
(* particular every receipt of applied carries a commit.                    *)
THEOREM TypeCorrect == Spec => []TypeOK
<1>1. AnyInv => TypeOK
  BY DEF AnyInv
<1> QED
  BY <1>1, AlwaysAny, PTL

(* The commit that Central holds as applied is the one in the tree, under   *)
(* every fault: kills, lost answers, and new requests in the middle of a    *)
(* run (executor.go:158-167).                                               *)
THEOREM AppliedSafe == Spec => []AppliedIsObserved
<1>1. AnyInv => AppliedIsObserved
  BY DEF AnyInv
<1> QED
  BY <1>1, AlwaysAny, PTL

LEMMA RunPinned == AnyInv /\ Pinned /\ Run => Pinned'
<1> SUFFICES ASSUME AnyInv, Pinned, Run, cur'.sha # NoCommit PROVE Pinned'
  BY DEF Pinned
<1>1. AnyInv' /\ cur' = cur
  BY QuietRunAny, TreeRunAny DEF Run
<1> USE <1>1 DEF Pinned, Reported
<1>2. ASSUME Fail PROVE Pinned'
  BY <1>2, FailIsGood
<1>3. CASE Refuse \/ RefuseParent \/ GitFails \/ GitKilled
  BY <1>2, <1>3, KilledIsGood DEF Refuse, RefuseParent, GitFails
<1>4. CASE Begin \/ InspectTree \/ Clone \/ Fetch \/ SendApplying
  <2>1. Fail \/ pc' \in {"tree", "clone", "fetch"} \/ (pc' = "post" /\ row'.state # "applied")
    BY <1>4 DEF Begin, InspectTree, Clone, Fetch, SendApplying, AfterFetch, Report
  <2> QED
    BY <1>2, <2>1
<1>5. CASE Verify
  <2>1. CASE pc' = "reset"
    <3>1. cur.url = Here.origin /\ Here' = Here
      BY <1>5, <2>1, QuietRunAny DEF Verify, Fail, Report, Here
    <3> QED
      BY <2>1, <3>1
  <2> QED
    BY <1>2, <1>5, <2>1 DEF Verify
<1>6. CASE Reset
  <2>1. /\ pc = "reset" /\ pc \notin Resting /\ pc' = "observe"
        /\ Here' = ResetTree /\ ResetTarget # NoCommit
    BY <1>6, TreeRunAny DEF Reset, Working, Resting
  <2>2. Here'.origin = Here.origin /\ Here'.head = ResetTarget
    BY <2>1, NewTrees
  <2> QED
    BY <2>1, <2>2 DEF ResetTarget
<1>7. CASE Observe
  BY <1>7, QuietRunAny DEF Observe, Working, Report, Here
<1> QED
  BY <1>3, <1>4, <1>5, <1>6, <1>7 DEF Run

LEMMA NextPinned == AnyInv /\ Pinned /\ [Next]_vars => Pinned'
<1> SUFFICES ASSUME AnyInv, Pinned, [Next]_vars PROVE Pinned'
  OBVIOUS
<1>1. CASE Run
  BY <1>1, RunPinned
<1>2. CASE Loop \/ Crash
  <2>1. pc' \in Resting \cup {"start"}
    BY <1>2 DEF Loop, Boot, GetPing, TakeIntent, LoopDone, Exit, Rest, Crash, Resting
  <2> QED
    BY <2>1 DEF Pinned, Reported, Resting
<1>3. CASE Post
  <2>1. pc = "post" /\ <<row.state, row.then>> \in Onward
    BY <1>3 DEF Post, PostOk, PostFails, PostAckLost, AnyInv, InPlace, GoodRow
  <2>2. pc' \in {"next", "tree", "applying", "verify"}
    BY <1>3, <2>1 DEF Post, PostOk, PostFails, PostAckLost, GoOn, Rest, Onward
  <2> QED
    BY <2>2 DEF Pinned, Reported
<1>4. CASE UNCHANGED <<pc, cur, row, tree>>
  BY <1>4 DEF Pinned, Reported, Here
<1>5. CASE Outside
  <2>1. UNCHANGED <<pc, cur, row, tree>> \/ Crash
    BY <1>5 DEF Outside, Signal, Request, Push, agent
  <2> QED
    BY <1>2, <1>4, <2>1
<1>6. CASE UNCHANGED vars
  BY <1>4, <1>6 DEF vars
<1> QED
  BY <1>1, <1>2, <1>3, <1>5, <1>6 DEF Next

(* A run that was asked for a commit reports no other as applied, and none  *)
(* of another repository, under every fault and whatever Central asks for   *)
(* while the run is on (executor.go:139-167, main.go:265-283).              *)
THEOREM PinSafe == Spec => []PinIsExact
<1>1. Init => Pinned
  BY DEF Init, Pinned, Reported
<1>2. AnyInv /\ Pinned => PinIsExact
  BY DEF AnyInv, InPlace, Pinned, Reported, PinIsExact
<1> QED
  BY <1>1, <1>2, NextPinned, AlwaysAny, PTL DEF Spec

-----------------------------------------------------------------------------
(* Iterations end, under every fault.  There are finitely many sites, and   *)
(* the intents of one answer are about different ones.                      *)
MostSteps == 13 * Cardinality(Sites) + 1
Bounded == IsFiniteSet(intents) /\ StepsLeft \in 0..MostSteps

\* How far the places of an iteration are from its end.
LEMMA Distances ==
    ASSUME AnyInv
    PROVE  /\ Distance[pc] \in Nat \/ pc = "post"
           /\ pc = "post" => /\ Distance[row.then] \in Nat
                             /\ row.then \in {"tree", "applying", "verify", "next"}
<1>1. pc = "post" => row.then \in {"tree", "applying", "verify", "next"}
  BY DEF AnyInv, InPlace, GoodRow, Onward
<1>2. pc \in Pcs
  BY DEF AnyInv, TypeOK, Pcs
<1> QED
  BY <1>1, <1>2 DEF Pcs, Distance

\* The place of the run or of its receipt.
Place == IF pc = "post" THEN Distance[row.then] + 1 ELSE Distance[pc]

LEMMA StepsAreNat == AnyInv /\ IsFiniteSet(intents) => StepsLeft \in Nat
  BY Distances, FS_CardinalityType DEF StepsLeft

\* A step of a run or a receipt moves on to a nearer place.
LEMMA RunShrinks == AnyInv /\ AnyInv' /\ Run => intents' = intents /\ Place' < Place
<1> SUFFICES ASSUME AnyInv, AnyInv', Run PROVE intents' = intents /\ Place' < Place
  OBVIOUS
<1> USE DEF Place, Distance
<1>1. /\ pc \in {"start", "tree", "clone", "fetch", "applying", "verify", "reset",
                 "observe"}
      /\ intents' = intents
  BY DEF Run, Refuse, Begin, InspectTree, RefuseParent, Clone, Fetch, SendApplying,
         Verify, Reset, Observe, GitFails, GitKilled, Working
<1>2. ASSUME Fail PROVE Place' < Place
  <2>1. Place' = 2
    BY <1>2 DEF Fail, Report
  <2> QED
    BY <1>1, <2>1
<1>3. CASE Refuse \/ RefuseParent \/ GitFails
  BY <1>1, <1>2, <1>3 DEF Refuse, RefuseParent, GitFails
<1>9. CASE GitKilled
  <2>1. Place' = 2
    BY <1>9 DEF GitKilled, Report
  <2> QED
    BY <1>1, <2>1
<1>4. CASE Begin
  BY <1>4 DEF Begin, Working, Report
<1>5. CASE InspectTree
  <2>1. pc = "tree" /\ (pc' \in {"clone", "fetch"} \/ Fail)
    BY <1>5 DEF InspectTree, Working
  <2> QED
    BY <1>1, <1>2, <2>1
<1>6. CASE Clone \/ Fetch
  BY <1>6 DEF Clone, Fetch, Working, AfterFetch, Report
<1>7. CASE SendApplying \/ Reset \/ Observe
  BY <1>7 DEF SendApplying, Reset, Observe, Working, Report
<1>8. CASE Verify
  BY <1>1, <1>2, <1>8 DEF Verify, Working
<1> QED
  BY <1>1, <1>3, <1>4, <1>5, <1>6, <1>7, <1>8, <1>9 DEF Run

LEMMA PostShrinks == AnyInv /\ Post => intents' = intents /\ Place' < Place
<1> SUFFICES ASSUME AnyInv, Post PROVE intents' = intents /\ Place' < Place
  OBVIOUS
<1>1. /\ pc = "post" /\ intents' = intents
      /\ row.then \in {"tree", "applying", "verify", "next"}
  BY Distances DEF Post, PostOk, PostFails, PostAckLost
<1>2. pc' = row.then \/ pc' = "next"
  BY DEF Post, PostOk, PostFails, PostAckLost, GoOn, Rest
<1> QED
  BY <1>1, <1>2 DEF Place, Distance

\* The loop takes one intent after the other.
LEMMA LoopShrinks ==
    ASSUME AnyInv, IsFiniteSet(intents), Loop, pc \notin {"down", "idle"}
    PROVE  IsFiniteSet(intents') /\ StepsLeft' < StepsLeft
<1>1. CASE TakeIntent
  <2>1. PICK i \in intents : intents' = intents \ {i}
    BY <1>1 DEF TakeIntent
  <2>2. /\ IsFiniteSet(intents') /\ Cardinality(intents') = Cardinality(intents) - 1
        /\ Cardinality(intents) \in Nat
    BY <2>1, FS_RemoveElement, FS_CardinalityType
  <2>3. pc = "next" /\ pc' = "start"
    BY <1>1 DEF TakeIntent
  <2> QED
    BY <2>2, <2>3 DEF StepsLeft, Distance
<1>2. CASE LoopDone
  <2>1. pc = "next" /\ pc' = "idle" /\ intents' = intents
    BY <1>2 DEF LoopDone, Rest
  <2>2. Cardinality(intents) \in Nat
    BY FS_CardinalityType
  <2> QED
    BY <2>1, <2>2 DEF StepsLeft, Distance
<1> QED
  BY <1>1, <1>2 DEF Loop, Boot, GetPing, Exit

LEMMA StepShrinks ==
    ASSUME AnyInv, AnyInv', IsFiniteSet(intents), Loop \/ Run \/ Post,
           pc \notin {"down", "idle"}
    PROVE  IsFiniteSet(intents') /\ StepsLeft' < StepsLeft
<1>1. CASE Run \/ Post
  <2>1. intents' = intents /\ Place' < Place
    BY <1>1, RunShrinks, PostShrinks
  <2>2. Place \in Nat /\ Place' \in Nat
    BY Distances DEF Place, AnyInv, TypeOK, Distance, InPlace, GoodRow, Onward
  <2>3. Cardinality(intents) \in Nat
    BY FS_CardinalityType
  <2> QED
    BY <2>1, <2>2, <2>3 DEF StepsLeft, Place
<1> QED
  BY <1>1, LoopShrinks

\* One answer has at most one intent for each site.
LEMMA AnswerIsSmall ==
    ASSUME IsFiniteSet(Sites), GetPing
    PROVE  IsFiniteSet(intents') /\ StepsLeft' <= MostSteps
<1> DEFINE S == {t \in Sites : ledger[t] \in Open}
           f == [t \in S |-> Intent(t)]
<1>1. intents' = {Intent(t) : t \in S} /\ pc' = "next"
  BY DEF GetPing, Rest
<1>2. IsFiniteSet(S) /\ Cardinality(S) <= Cardinality(Sites)
  BY FS_Subset
<1>3. f \in Surjection(S, intents')
  BY <1>1 DEF Surjection
<1>4. IsFiniteSet(intents') /\ Cardinality(intents') <= Cardinality(S)
  <2> HIDE DEF f
  <2> QED
    BY <1>2, <1>3, FS_Surjection
<1>5. /\ Cardinality(intents') \in Nat /\ Cardinality(S) \in Nat
      /\ Cardinality(Sites) \in Nat
  BY <1>2, <1>4, FS_CardinalityType
<1> QED
  BY <1>1, <1>2, <1>4, <1>5 DEF StepsLeft, Distance, MostSteps

LEMMA NextBounded ==
    ASSUME IsFiniteSet(Sites), AnyInv, AnyInv', Bounded, [Next]_vars
    PROVE  Bounded'
<1>1. MostSteps \in Nat
  BY FS_CardinalityType DEF MostSteps
<1>2. SUFFICES IsFiniteSet(intents') /\ StepsLeft' <= MostSteps
  <2>1. (AnyInv /\ IsFiniteSet(intents))' => (StepsLeft \in Nat)'
    BY StepsAreNat, PTL
  <2> QED
    BY <1>1, <2>1 DEF Bounded, MostSteps
<1>3. CASE pc \notin {"down", "idle"} /\ (Loop \/ Run \/ Post)
  <2>1. (AnyInv /\ IsFiniteSet(intents))' => (StepsLeft \in Nat)'
    BY StepsAreNat, PTL
  <2>2. IsFiniteSet(intents') /\ StepsLeft' < StepsLeft
    BY <1>3, StepShrinks DEF Bounded
  <2> QED
    BY <1>1, <2>1, <2>2 DEF Bounded
<1>4. CASE GetPing
  BY <1>4, AnswerIsSmall
<1>5. CASE Crash
  <2>1. intents' = {} /\ pc' = "down"
    BY <1>5 DEF Crash, Rest
  <2> QED
    BY <1>1, <2>1, FS_EmptySet DEF StepsLeft, Distance
<1>6. CASE pc \in {"down", "idle"} /\ (Boot \/ Exit)
  <2>1. intents' = intents /\ pc' \in {"down", "idle"}
    BY <1>6 DEF Boot, Exit, Rest
  <2> QED
    BY <1>1, <1>6, <2>1 DEF Bounded, StepsLeft, Distance
<1>7. CASE UNCHANGED <<pc, row, intents>>
  BY <1>1, <1>7 DEF Bounded, StepsLeft
<1>8. CASE Outside
  <2>1. UNCHANGED <<pc, row, intents>> \/ Crash
    BY <1>8 DEF Outside, Signal, Request, Push, agent
  <2> QED
    BY <1>5, <1>7, <2>1
<1>9. pc \in {"down", "idle"} => ~Run /\ ~Post /\ ~TakeIntent /\ ~LoopDone
  BY DEF Run, Refuse, Begin, InspectTree, RefuseParent, Clone, Fetch, SendApplying,
         Verify, Reset, Observe, GitFails, GitKilled, Working, Post, PostOk,
         PostFails, PostAckLost, TakeIntent, LoopDone
<1> QED
  BY <1>3, <1>4, <1>6, <1>7, <1>8, <1>9 DEF Next, Loop, vars

LEMMA AlwaysBounded ==
    ASSUME IsFiniteSet(Sites) PROVE Spec => []Bounded
<1>1. Init => Bounded
  <2> SUFFICES ASSUME Init PROVE Bounded
    OBVIOUS
  <2>1. intents = {} /\ pc = "down"
    BY DEF Init
  <2> QED
    BY <2>1, FS_EmptySet, FS_CardinalityType DEF Bounded, StepsLeft, MostSteps, Distance
<1> QED
  BY <1>1, NextBounded, AlwaysAny, PTL DEF Spec

(* Every step of an iteration is one of at most 13 for each site and one    *)
(* more, so no retry, no kept intent and no failure makes an iteration go   *)
(* on for ever (main.go:265-285).  With the fairness of FairSpec this is    *)
(* why the agent always comes back to its heartbeat.                        *)
THEOREM IterationsEnd ==
    ASSUME IsFiniteSet(Sites)
    PROVE  Spec => IterationShrinks /\ [](StepsLeft \in 0..MostSteps)
<1>1. AnyInv /\ AnyInv' /\ Bounded /\ [Next]_vars =>
        [pc \notin {"down", "idle"} /\ (Loop \/ Run \/ Post) =>
            StepsLeft' < StepsLeft]_vars
  BY StepShrinks DEF Bounded
<1>2. Bounded => StepsLeft \in 0..MostSteps
  BY DEF Bounded
<1> QED
  BY <1>1, <1>2, AlwaysAny, AlwaysBounded, PTL DEF Spec, IterationShrinks

(* The receipt of a killed command is posted after the signal.              *)
KilledComesLate == pc = "post" /\ row.state = "killed" => signal = "past"

LEMMA NextLate == AnyInv /\ KilledComesLate /\ [Next]_vars => KilledComesLate'
<1> SUFFICES ASSUME AnyInv, KilledComesLate, [Next]_vars, pc' = "post",
                    row'.state = "killed"
             PROVE  signal' = "past"
  BY DEF KilledComesLate
<1>1. CASE GitKilled
  BY <1>1 DEF GitKilled, Working, cancelled, Met, AnyInv, TypeOK
<1>2. CASE \/ Refuse \/ Begin \/ InspectTree \/ RefuseParent \/ Clone \/ Fetch
           \/ SendApplying \/ Verify \/ Reset \/ Observe \/ GitFails
  BY <1>2 DEF Refuse, Begin, InspectTree, RefuseParent, Clone, Fetch, SendApplying,
              Verify, Reset, Observe, GitFails, AfterFetch, Fail, Report
<1>3. CASE Loop \/ Crash
  BY <1>3 DEF Loop, Boot, GetPing, TakeIntent, LoopDone, Exit, Rest, Crash
<1>4. CASE Post
  <2>1. pc = "post" /\ row.then \in {"tree", "applying", "verify", "next"}
    BY <1>4, Distances DEF Post, PostOk, PostFails, PostAckLost
  <2> QED
    BY <1>4, <2>1 DEF Post, PostOk, PostFails, PostAckLost, GoOn, Rest
<1>5. CASE Signal
  BY <1>5 DEF Signal, cancelled, KilledComesLate
<1>6. CASE UNCHANGED <<pc, row, signal>>
  BY <1>6 DEF KilledComesLate
<1>7. CASE \/ \E u \in Urls : Push(u)
           \/ \E s \in Sites, u \in Urls, c \in 0..MaxCommit : Request(s, u, c)
  BY <1>6, <1>7 DEF Push, Request, agent
<1> QED
  BY <1>1, <1>2, <1>3, <1>4, <1>5, <1>6, <1>7 DEF Next, Run, Outside, vars

LEMMA AlwaysLate == Spec => []KilledComesLate
<1>1. Init => KilledComesLate
  BY DEF Init, KilledComesLate
<1> QED
  BY <1>1, NextLate, AlwaysAny, PTL DEF Spec

\* A receipt that Central takes is not that of a killed command.
LEMMA TakenIsNotKilled ==
    ASSUME KilledComesLate, Post, ledger' # ledger
    PROVE  row.state # "killed" /\ ledger' = [ledger EXCEPT ![cur.site] = row.state]
<1>1. (PostOk \/ PostAckLost) /\ Advance
  BY DEF Post, PostOk, PostFails, PostAckLost, central
<1>2. pc = "post" /\ signal # "past"
  BY <1>1 DEF PostOk, PostAckLost, cancelled
<1> QED
  BY <1>1, <1>2 DEF KilledComesLate, Advance

(* No shutdown is taken for a failed deploy, under every fault: a receipt   *)
(* that is under way when the signal comes may reach Central, the receipt   *)
(* of the command that the signal kills does not (main.go:271-283).         *)
THEOREM ShutdownSafe == Spec => []ShutdownIsNoFailure
<1>1. Init => ShutdownIsNoFailure
  BY DEF Init, ShutdownIsNoFailure
<1>2. AnyInv /\ KilledComesLate /\ ShutdownIsNoFailure /\ [Next]_vars
        => ShutdownIsNoFailure'
  <2> SUFFICES ASSUME AnyInv, KilledComesLate, ShutdownIsNoFailure, [Next]_vars,
                      NEW s \in Sites
               PROVE  ledger'[s] # "killed"
    BY DEF ShutdownIsNoFailure
  <2>1. CASE ledger' = ledger
    BY <2>1 DEF ShutdownIsNoFailure
  <2>2. CASE Loop \/ Run \/ Signal \/ Crash \/ (\E u \in Urls : Push(u)) \/ UNCHANGED vars
    <3>1. ledger' = ledger
      BY <2>2 DEF Loop, Boot, GetPing, TakeIntent, LoopDone, Exit, Run, Refuse, Begin,
                  InspectTree, RefuseParent, Clone, Fetch, SendApplying, Verify, Reset,
                  Observe, GitFails, GitKilled, Working, Signal, Crash, Push, central, vars
    <3> QED
      BY <2>1, <3>1
  <2>3. CASE Post /\ ledger' # ledger
    BY <2>3, TakenIsNotKilled DEF AnyInv, TypeOK, ShutdownIsNoFailure
  <2>4. ASSUME NEW r \in Sites, NEW u \in Urls, NEW c \in 0..MaxCommit, Request(r, u, c)
        PROVE  ledger'[s] # "killed"
    BY <2>4 DEF Request, AnyInv, TypeOK, ShutdownIsNoFailure
  <2> QED
    BY <2>1, <2>2, <2>3, <2>4 DEF Next, Outside
<1> QED
  BY <1>1, <1>2, AlwaysAny, AlwaysLate, PTL DEF Spec

-----------------------------------------------------------------------------
LEMMA InitWait == Init => WaitInv
<1> SUFFICES ASSUME Init PROVE WaitInv
  OBVIOUS
<1>1. Fresh /\ Phase
  BY DEF Init, Fresh, Phase, Resting
<1> QED
  BY <1>1, InitAny DEF WaitInv

(* Central is in a phase in which it takes the receipt.                     *)
LEMMA WaitAccepts == WaitInv => ReceiptsFollowLedger
<1> SUFFICES ASSUME WaitInv, pc = "post" PROVE Accepts(ledger[cur.site], row.state)
  BY DEF ReceiptsFollowLedger
<1>1. ledger[cur.site] \in Open /\ cur.state \in Open /\ GoodRow
  BY AtWork DEF WaitInv, AnyInv, InPlace, Resting
<1>2. row.state \in {"fetching", "fetched", "applying", "applied", "failed", "killed"}
  BY <1>1 DEF GoodRow, Onward
<1>3. CASE row.state = "fetching"
  <2>1. ledger[cur.site] \in {"requested", "fetching"}
    BY <1>1, <1>3, OpenPhases DEF WaitInv, Phase
  <2> QED
    BY <1>1, <1>3, <2>1, RankOfPhases DEF Accepts
<1>4. CASE row.state = "fetched"
  <2>1. ledger[cur.site] \in {"fetching", "fetched"}
    BY <1>1, <1>4, OpenPhases DEF WaitInv, Phase
  <2> QED
    BY <1>1, <1>4, <2>1, RankOfPhases DEF Accepts
<1>5. CASE row.state = "applying"
  <2>1. ledger[cur.site] \in {"fetched", "applying"}
    BY <1>5 DEF WaitInv, Phase
  <2> QED
    BY <1>1, <1>5, <2>1, RankOfPhases DEF Accepts
<1>6. CASE row.state = "applied"
  <2>1. ledger[cur.site] = "applying"
    BY <1>6 DEF WaitInv, Phase
  <2> QED
    BY <1>1, <1>6, <2>1, RankOfPhases DEF Accepts
<1>7. CASE row.state \in {"failed", "killed"}
  BY <1>1, <1>7 DEF Accepts
<1> QED
  BY <1>2, <1>3, <1>4, <1>5, <1>6, <1>7

LEMMA LoopWait == WaitInv /\ Loop => WaitInv'
<1> SUFFICES ASSUME WaitInv, Loop PROVE WaitInv'
  OBVIOUS
<1>1. AnyInv'
  BY LoopAny DEF WaitInv
<1>2. CASE Boot \/ LoopDone \/ Exit
  <2>1. intents' = intents /\ pc' \in {"idle", "down"} /\ UNCHANGED <<ledger, want>>
    BY <1>2 DEF Boot, LoopDone, Exit, Rest, central
  <2> QED
    BY <1>1, <2>1 DEF WaitInv, Fresh, Phase, Resting, Intent
<1>3. CASE GetPing
  <2>1. /\ intents' = {Intent(s) : s \in {t \in Sites : ledger[t] \in Open}}
        /\ pc' = "next" /\ UNCHANGED <<ledger, want>>
    BY <1>3 DEF GetPing, Rest, central
  <2>2. \A s \in Sites : Intent(s).site = s /\ Intent(s)' = Intent(s)
    BY <2>1 DEF Intent
  <2>3. Fresh'
    BY <2>1, <2>2 DEF Fresh, Resting, Intent
  <2>4. Phase'
    BY <2>1 DEF Phase
  <2> QED
    BY <1>1, <2>3, <2>4 DEF WaitInv
<1>4. CASE TakeIntent
  <2>1. PICK i \in intents : cur' = i /\ intents' = intents \ {i}
    BY <1>4 DEF TakeIntent
  <2>2. pc' = "start" /\ UNCHANGED <<ledger, want>>
    BY <1>4 DEF TakeIntent, central
  <2>3. i = Intent(i.site)
    BY DEF WaitInv, Fresh
  <2>4. /\ i.url = want[i.site].url /\ i.sha = want[i.site].sha
        /\ i.state = ledger[i.site]
    BY <2>3 DEF Intent
  <2>5. Fresh'
    BY <2>1, <2>2, <2>4 DEF WaitInv, Fresh, Intent
  <2>6. Phase'
    BY <2>1, <2>2, <2>4 DEF Phase
  <2> QED
    BY <1>1, <2>5, <2>6 DEF WaitInv
<1> QED
  BY <1>2, <1>3, <1>4 DEF Loop

LEMMA RunWait == WaitInv /\ Run => WaitInv'
<1> SUFFICES ASSUME WaitInv, Run PROVE WaitInv'
  OBVIOUS
<1>1. /\ AnyInv' /\ UNCHANGED <<cur, intents, ledger, want>>
  BY QuietRunAny, TreeRunAny DEF WaitInv, Run, central
<1>2. pc \notin Resting /\ cur.state \in Open
  <2>1. pc \notin Resting
    BY DEF Run, Refuse, Begin, InspectTree, RefuseParent, Clone, Fetch, SendApplying,
           Verify, Reset, Observe, GitFails, GitKilled, Working, Resting
  <2> QED
    BY <2>1, AtWork DEF WaitInv
<1>3. Fresh'
  BY <1>1, <1>2 DEF WaitInv, Fresh, Intent
<1>4. Phase'
  <2> USE <1>1 DEF WaitInv, Phase, Working, Report
  <2>1. ASSUME Fail PROVE Phase'
    BY <2>1 DEF Fail
  <2>2. CASE Refuse \/ RefuseParent \/ GitFails \/ GitKilled
    BY <2>1, <2>2 DEF Refuse, RefuseParent, GitFails, GitKilled
  <2>3. CASE Begin
    <3>1. pc = "start" /\ ledger[cur.site] = cur.state
      BY <2>3 DEF Begin
    <3>2. CASE cur.state \in {"fetched", "applying"}
      BY <2>3, <3>1, <3>2 DEF Begin
    <3>3. CASE cur.state \notin {"fetched", "applying"}
      BY <2>3, <3>1, <3>3 DEF Begin
    <3> QED
      BY <3>2, <3>3
  <2>4. CASE InspectTree
    BY <2>1, <2>4 DEF InspectTree
  <2>5. CASE Clone \/ Fetch
    <3>1. pc \in {"clone", "fetch"} /\ AfterFetch
      BY <2>5 DEF Clone, Fetch
    <3>2. CASE cur.state = "applying"
      BY <3>1, <3>2 DEF AfterFetch
    <3>3. CASE cur.state # "applying"
      BY <3>1, <3>3 DEF AfterFetch
    <3> QED
      BY <3>2, <3>3
  <2>6. CASE SendApplying
    BY <2>6 DEF SendApplying
  <2>7. CASE Verify
    BY <2>1, <2>7 DEF Verify
  <2>8. CASE Reset
    BY <2>8 DEF Reset
  <2>9. CASE Observe
    BY <2>9 DEF Observe
  <2> QED
    BY <2>2, <2>3, <2>4, <2>5, <2>6, <2>7, <2>8, <2>9 DEF Run
<1> QED
  BY <1>1, <1>3, <1>4 DEF WaitInv

LEMMA PostWait == WaitInv /\ Post => WaitInv'
<1> SUFFICES ASSUME WaitInv, Post PROVE WaitInv'
  OBVIOUS
<1>1. AnyInv'
  BY PostAny DEF WaitInv
<1>2. pc = "post" /\ UNCHANGED <<intents, want>> /\ GoodRow
  BY DEF Post, PostOk, PostFails, PostAckLost, central, WaitInv, AnyInv, InPlace
<1>3. CASE PostFails
  <2>1. pc' = "next" /\ ledger' = ledger
    BY <1>3 DEF PostFails, Rest, central
  <2> QED
    BY <1>1, <1>2, <2>1 DEF WaitInv, Fresh, Phase, Resting, Intent
<1>4. CASE PostOk \/ PostAckLost
  <2>1. Advance /\ (GoOn(row.then) \/ Rest("next"))
    BY <1>4 DEF PostOk, PostAckLost
  <2>2. cur.site \in Sites /\ ledger \in [Sites -> Open \cup {"none", "applied", "failed", "killed"}]
    BY <1>2, AtWork DEF WaitInv, AnyInv, TypeOK, Resting
  <2>3. ledger' = [ledger EXCEPT ![cur.site] = row.state]
    BY <1>2, <2>1, WaitAccepts DEF Advance, ReceiptsFollowLedger
  <2>4. /\ ledger'[cur.site] = row.state
        /\ \A i \in intents : i.site \in Sites /\ ledger'[i.site] = ledger[i.site]
    BY <2>2, <2>3 DEF WaitInv, AnyInv, TypeOK, Pending, Intents
  <2>5. \A i \in intents : Intent(i.site)' = Intent(i.site)
    BY <1>2, <2>4 DEF Intent
  <2>6. \/ pc' = "next"
        \/ pc' = row.then /\ cur' = cur
    BY <2>1 DEF GoOn, Rest
  <2>7. Fresh'
    BY <1>2, <2>5, <2>6 DEF WaitInv, Fresh, Resting
  <2>8. Phase'
    <3>1. CASE pc' = "next"
      BY <3>1 DEF Phase
    <3>2. CASE pc' = row.then /\ cur' = cur
      BY <1>2, <2>4, <3>2 DEF WaitInv, Phase, GoodRow, Onward
    <3> QED
      BY <2>6, <3>1, <3>2
  <2> QED
    BY <1>1, <2>7, <2>8 DEF WaitInv
<1> QED
  BY <1>3, <1>4 DEF Post

LEMMA OutsideWait ==
    ASSUME "rerequest" \notin Faults, WaitInv, Outside PROVE WaitInv'
<1>1. AnyInv'
  BY OutsideAny DEF WaitInv
<1>2. CASE Signal
  BY <1>1, <1>2 DEF WaitInv, Fresh, Phase, Intent, Signal, central
<1>3. CASE Crash
  <2>1. pc' = "down" /\ intents' = {}
    BY <1>3 DEF Crash, Rest
  <2> QED
    BY <1>1, <2>1 DEF WaitInv, Fresh, Phase, Resting
<1>4. ASSUME NEW s \in Sites, NEW u \in Urls, NEW c \in 0..MaxCommit, Request(s, u, c)
      PROVE  WaitInv'
  <2>1. /\ ledger[s] \notin Open
        /\ UNCHANGED <<pc, cur, intents, row>>
    BY <1>4 DEF Request, agent
  <2>2. \A r \in Sites : ledger[r] \in Open => ledger'[r] = ledger[r] /\ want'[r] = want[r]
    BY <1>4, <2>1 DEF Request, WaitInv, AnyInv, TypeOK
  <2>3. \A i \in intents : Intent(i.site)' = Intent(i.site)
    BY <2>2 DEF WaitInv, AnyInv, TypeOK, Pending, Intents, Intent
  <2>4. pc \notin Resting => /\ ledger'[cur.site] = ledger[cur.site]
                            /\ want'[cur.site] = want[cur.site]
    BY <2>2, AtWork DEF WaitInv
  <2>5. Fresh'
    BY <2>1, <2>3, <2>4 DEF WaitInv, Fresh
  <2>6. Phase'
    BY <2>1, <2>4 DEF WaitInv, Phase, Resting
  <2> QED
    BY <1>1, <2>5, <2>6 DEF WaitInv
<1>5. ASSUME NEW u \in Urls, Push(u) PROVE WaitInv'
  BY <1>1, <1>5 DEF WaitInv, Fresh, Phase, Intent, Push, agent, central
<1> QED
  BY <1>2, <1>3, <1>4, <1>5 DEF Outside

LEMMA NextWait ==
    ASSUME "rerequest" \notin Faults, WaitInv, [Next]_vars PROVE WaitInv'
<1>1. CASE UNCHANGED vars
  <2>1. AnyInv'
    BY <1>1, NextAny DEF WaitInv
  <2> QED
    BY <1>1, <2>1 DEF WaitInv, Fresh, Phase, Intent, vars
<1> QED
  BY <1>1, LoopWait, RunWait, PostWait, OutsideWait DEF Next

(* No receipt takes the ledger backwards or skips a phase, whatever was     *)
(* lost or killed before, if Central waits for answers (executor.go:98-149).*)
THEOREM ReceiptsSafe ==
    ASSUME "rerequest" \notin Faults PROVE Spec => []ReceiptsFollowLedger
<1>1. WaitInv /\ [Next]_vars => WaitInv'
  BY NextWait
<1> QED
  BY <1>1, InitWait, WaitAccepts, PTL DEF Spec

-----------------------------------------------------------------------------
LEMMA InitAsk == Init => AskInv
<1> SUFFICES ASSUME Init PROVE AskInv
  OBVIOUS
<1>1. Pinned /\ Asked /\ HasAsked /\ AppliedGivesAsked
  BY DEF Init, Pinned, Asked, HasAsked, Fetched, Reported, AppliedGivesAsked
<1> QED
  BY <1>1, InitWait DEF AskInv

(* What the run was told is what was asked for, and the remote is no older. *)
LEMMA AskedHere ==
    ASSUME AskInv, pc \notin Resting
    PROVE  /\ want[cur.site].url = cur.url /\ want[cur.site].sha = cur.sha
           /\ want[cur.site].since \in Nat /\ want[cur.site].since <= tip[cur.url]
           /\ cur.site \in Sites /\ cur.url \in Urls /\ tip[cur.url] \in Nat
<1>1. /\ cur.site \in Sites /\ cur.url \in Urls /\ tip[cur.url] \in Commits
      /\ ledger[cur.site] \in Open
  BY AtWork DEF AskInv, WaitInv
<1>2. want[cur.site].url = cur.url /\ want[cur.site].sha = cur.sha
  BY DEF AskInv, WaitInv, Fresh
<1>3. want[cur.site].since \in Nat
  BY <1>1, GitBounds DEF AskInv, WaitInv, AnyInv, TypeOK
<1>4. want[cur.site].since <= tip[cur.url]
  BY <1>1, <1>2, OpenPhases DEF AskInv, Asked
<1> QED
  BY <1>1, <1>2, <1>3, <1>4, GitBounds DEF Commits

(* A fetch takes the branch of the tree's own repository; from there on the *)
(* tree has what was asked for unless that is another one.                  *)
LEMMA RunAsk ==
    ASSUME AskInv, Run
    PROVE  AskInv'
<1>1. /\ WaitInv' /\ AnyInv /\ AnyInv'
      /\ UNCHANGED <<cur, ledger, want, observed, tip>>
  BY RunWait, QuietRunAny, TreeRunAny DEF AskInv, WaitInv, Run, central
<1>2. pc \notin Resting
  BY DEF Run, Refuse, Begin, InspectTree, RefuseParent, Clone, Fetch, SendApplying,
         Verify, Reset, Observe, GitFails, GitKilled, Working, Resting
<1>3. Pinned' /\ Asked' /\ AppliedGivesAsked'
  BY <1>1, RunPinned DEF AskInv, Asked, AppliedGivesAsked, Gives
<1>4. HasAsked'
  <2> USE <1>1 DEF HasAsked, Fetched, Reported
  <2>1. ASSUME Fail PROVE HasAsked'
    BY <2>1, FailIsGood
  <2>2. CASE Refuse \/ RefuseParent \/ GitFails \/ GitKilled
    BY <2>1, <2>2, KilledIsGood DEF Refuse, RefuseParent, GitFails
  <2>3. CASE Begin
    <3>1. pc' = "tree" \/ (pc' = "post" /\ row'.state = "fetching")
      BY <2>3 DEF Begin, Report
    <3> QED
      BY <3>1
  <2>4. CASE InspectTree
    BY <2>1, <2>4 DEF InspectTree
  <2>5. CASE Clone \/ Fetch
    <3>1. pc' = "post" /\ row'.state # "applied"
      BY <2>5 DEF Clone, Fetch, AfterFetch, Report
    <3>2. Here'.seen = tip[Here'.origin]
      <4>1. CASE Clone
        BY <4>1, TreeRunAny DEF ClonedTree
      <4>2. CASE Fetch
        <5>1. Here.kind = "repo" /\ Here' = FetchedTree
          BY <4>2, TreeRunAny DEF Fetch
        <5>2. FetchedTree.seen = tip[Here.origin] /\ FetchedTree.origin = Here.origin
          BY <1>2, <5>1, NewTrees
        <5> QED
          BY <5>1, <5>2
      <4> QED
        BY <2>5, <4>1, <4>2
    <3> QED
      BY <1>2, <3>1, <3>2, AskedHere
  <2>6. CASE SendApplying \/ Verify
    <3>1. /\ Fetched /\ Here' = Here
          /\ pc' = "reset" \/ (pc' = "post" /\ row'.state # "applied")
      BY <2>6, QuietRunAny
         DEF SendApplying, Verify, Working, Report, Fail, Here
    <3> QED
      BY <3>1 DEF AskInv
  <2>7. CASE Reset
    <3>1. pc = "reset" /\ ResetTarget # NoCommit /\ pc' = "observe" /\ Here' = ResetTree
      BY <2>7, TreeRunAny DEF Reset, Working
    <3>2. /\ Here'.seen = Here.seen /\ Here'.head = ResetTarget
          /\ Here'.origin = Here.origin
      BY <1>2, <3>1, NewTrees
    <3>3. Here.origin = want[cur.site].url => Here.seen >= want[cur.site].since
      BY <3>1 DEF AskInv
    <3>4. cur.sha # NoCommit => Here.origin = cur.url
      BY <3>1 DEF AskInv, Pinned
    <3>5. Gives(Here.origin, ResetTarget, want[cur.site])
      BY <1>2, <3>3, <3>4, AskedHere DEF Gives, ResetTarget
    <3> QED
      BY <3>1, <3>2, <3>3, <3>5
  <2>8. CASE Observe
    <3>1. pc = "observe" /\ pc' = "post" /\ Here' = Here
      BY <2>8, QuietRunAny DEF Observe, Working, Report, Here
    <3> QED
      BY <3>1 DEF AskInv
  <2> QED
    BY <2>2, <2>3, <2>4, <2>5, <2>6, <2>7, <2>8 DEF Run
<1> QED
  BY <1>1, <1>3, <1>4 DEF AskInv

(* A receipt of applied tells of the tree that has what was asked for.      *)
LEMMA PostAsk ==
    ASSUME AskInv, Post
    PROVE  AskInv'
<1>1. /\ WaitInv' /\ AnyInv /\ pc = "post" /\ pc \notin Resting /\ GoodRow
      /\ UNCHANGED <<tree, tip, want>> /\ cur.site \in Sites
  BY PostWait, AtWork
     DEF AskInv, WaitInv, AnyInv, InPlace, Post, PostOk, PostFails, PostAckLost,
         central, Resting
<1>2. Pinned'
  BY <1>1, NextPinned DEF AskInv, Next
<1>3. CASE PostFails
  BY <1>1, <1>2, <1>3 DEF AskInv, PostFails, Rest, central, Asked, HasAsked, Fetched,
                          Reported, AppliedGivesAsked
<1>4. CASE PostOk \/ PostAckLost
  <2>1. Advance /\ (GoOn(row.then) \/ Rest("next"))
    BY <1>4 DEF PostOk, PostAckLost
  <2>2. Asked'
    <3>1. \A s \in Sites : ledger'[s] # "none" => ledger[s] # "none"
      BY <1>1, <2>1, AdvanceAny, AtWork, OpenPhases
    <3> QED
      BY <1>1, <3>1 DEF AskInv, Asked
  <2>3. HasAsked'
    <3>1. CASE pc' = "next"
      BY <3>1 DEF HasAsked, Fetched, Reported
    <3>2. CASE pc' = row.then /\ cur' = cur
      <4>1. /\ row.then \in {"tree", "applying", "verify", "next"}
            /\ row.then \in {"applying", "verify"} => Fetched
        BY <1>1 DEF GoodRow, Onward, Fetched
      <4> QED
        BY <1>1, <3>2, <4>1 DEF AskInv, HasAsked, Fetched, Reported, Here
    <3> QED
      BY <2>1, <3>1, <3>2 DEF GoOn, Rest
  <2>4. AppliedGivesAsked'
    <3>1. ASSUME NEW s \in Sites, ledger'[s] = "applied"
          PROVE  Gives(observed'[s][1], observed'[s][2], want[s])
      <4>1. CASE s # cur.site
        BY <1>1, <2>1, <3>1, <4>1, AdvanceAny DEF AskInv, AppliedGivesAsked
      <4>2. CASE s = cur.site
        <5>1. Reported /\ observed'[s] = <<Here.origin, row.commit>>
          BY <1>1, <2>1, <3>1, <4>2, AdvanceAny DEF Reported, Here
        <5>2. row.commit = Here.head
          BY <1>1, <5>1 DEF AnyInv, InPlace
        <5>3. Gives(Here.origin, Here.head, want[s])
          BY <4>2, <5>1 DEF AskInv, HasAsked
        <5> QED
          BY <5>1, <5>2, <5>3
      <4> QED
        BY <4>1, <4>2
    <3> QED
      BY <1>1, <3>1 DEF AppliedGivesAsked, Gives
  <2> QED
    BY <1>1, <1>2, <2>2, <2>3, <2>4 DEF AskInv
<1> QED
  BY <1>3, <1>4 DEF Post

LEMMA OutsideAsk ==
    ASSUME "rerequest" \notin Faults, AskInv, Outside
    PROVE  AskInv'
<1>1. WaitInv' /\ AnyInv
  BY OutsideWait DEF AskInv, WaitInv
<1>2. Pinned'
  BY <1>1, NextPinned DEF AskInv, Next
<1>3. CASE Signal
  BY <1>1, <1>2, <1>3 DEF Signal, central, AskInv, Asked, HasAsked, Gives, Fetched,
                          Reported, Here, AppliedGivesAsked
<1>4. CASE Crash
  BY <1>1, <1>2, <1>4 DEF Crash, Rest, central, AskInv, Asked, HasAsked, Gives,
                          Fetched, Reported, AppliedGivesAsked
<1>5. ASSUME NEW s \in Sites, NEW u \in Urls, NEW c \in 0..MaxCommit, Request(s, u, c)
      PROVE  AskInv'
  <2>1. /\ ledger[s] \notin Open
        /\ UNCHANGED <<pc, cur, row, tree, tip, observed>>
    BY <1>5 DEF Request, agent
  <2>2. /\ ledger'[s] = "requested" /\ want'[s].url = u /\ want'[s].since = tip[u]
        /\ \A r \in Sites : r # s => ledger'[r] = ledger[r] /\ want'[r] = want[r]
    BY <1>1, <1>5 DEF Request, AnyInv, TypeOK
  <2>3. tip[u] <= tip[u]
    BY <1>1 DEF AnyInv, TypeOK, Commits
  <2>4. Asked'
    BY <2>1, <2>2, <2>3 DEF AskInv, Asked
  <2>5. HasAsked'
    <3>1. pc \notin Resting => cur.site \in Sites /\ cur.site # s
      BY <1>1, <2>1, AtWork
    <3> QED
      BY <2>1, <2>2, <3>1 DEF AskInv, HasAsked, Gives, Fetched, Reported, Here, Resting
  <2>6. AppliedGivesAsked'
    BY <2>1, <2>2 DEF AskInv, AppliedGivesAsked, Gives
  <2> QED
    BY <1>1, <1>2, <2>4, <2>5, <2>6 DEF AskInv
<1>6. ASSUME NEW u \in Urls, Push(u) PROVE AskInv'
  <2>1. /\ tip' = [tip EXCEPT ![u] = @ + 1]
        /\ UNCHANGED <<pc, cur, row, tree, ledger, want, observed>>
    BY <1>6 DEF Push, agent, central
  <2>2. \A v \in Urls : tip[v] \in Nat /\ tip'[v] \in Nat /\ tip[v] <= tip'[v]
    BY <1>1, <2>1, GitBounds DEF AnyInv, TypeOK, Commits
  <2>3. Asked'
    <3>1. ASSUME NEW s \in Sites, ledger[s] # "none"
          PROVE  want[s].since <= tip'[want[s].url]
      <4>1. want[s].url \in Urls /\ want[s].since \in Nat
        BY <1>1, <3>1, GitBounds DEF AnyInv, Named, TypeOK
      <4>2. want[s].since <= tip[want[s].url]
        BY <3>1 DEF AskInv, Asked
      <4> QED
        BY <2>2, <4>1, <4>2
    <3> QED
      BY <2>1, <3>1 DEF Asked
  <2> QED
    BY <1>1, <1>2, <2>1, <2>3 DEF AskInv, HasAsked, Gives, Fetched, Reported, Here,
                                  AppliedGivesAsked
<1> QED
  BY <1>3, <1>4, <1>5, <1>6 DEF Outside

LEMMA NextAsk ==
    ASSUME "rerequest" \notin Faults, AskInv, [Next]_vars
    PROVE  AskInv'
<1>1. WaitInv' /\ Pinned'
  BY NextWait, NextPinned DEF AskInv, WaitInv
<1>2. CASE Loop
  <2>1. UNCHANGED <<tree, tip, ledger, want, observed>> /\ pc' \in Resting \cup {"start"}
    BY <1>2 DEF Loop, Boot, GetPing, TakeIntent, LoopDone, Exit, Rest, central, Resting
  <2> QED
    BY <1>1, <2>1 DEF AskInv, Asked, HasAsked, Fetched, Reported, Resting,
                      AppliedGivesAsked, Gives
<1>3. CASE UNCHANGED vars
  BY <1>1, <1>3 DEF vars, AskInv, Asked, HasAsked, Gives, Fetched, Reported, Here,
                    AppliedGivesAsked
<1> QED
  BY <1>2, <1>3, RunAsk, PostAsk, OutsideAsk DEF Next

(* If Central waits for answers, applied can be wrong in one way only: a    *)
(* branch was asked for, and the tree is a clone of another repository.  A  *)
(* commit that was asked for is there, whatever repository the site had     *)
(* before, and a branch of the site's own repository is no older than the   *)
(* request (executor.go:131-158).                                           *)
THEOREM AppliedGivesSafe ==
    ASSUME "rerequest" \notin Faults PROVE Spec => []AppliedGivesAsked
<1>1. AskInv /\ [Next]_vars => AskInv'
  BY NextAsk
<1>2. AskInv => AppliedGivesAsked
  BY DEF AskInv
<1> QED
  BY <1>1, <1>2, InitAsk, PTL DEF Spec

-----------------------------------------------------------------------------
LEMMA InitStay == Init => StayInv
<1> SUFFICES ASSUME Init, NEW s \in Sites PROVE tree[s].kind # "repo"
  BY InitAsk DEF OwnRepository, StayInv
<1>1. tree[s] \in {Absent, [Absent EXCEPT !.kind = "foreign"]}
  BY DEF Init
<1> QED
  BY <1>1 DEF Absent

(* Such a tree is a clone of the repository the site asks for.              *)
LEMMA OursIsOwn ==
    ASSUME StayInv, pc \notin Resting, want' = want,
           NEW t \in Trees, SetTree(t), Ours(t)
    PROVE  OwnRepository'
<1>1. /\ cur.site \in Sites /\ want[cur.site].url = cur.url
      /\ Here.kind = "repo" => Here.origin = cur.url
  BY AskedHere DEF StayInv, OwnRepository, Here
<1>2. t.kind = "repo" => t.origin = want[cur.site].url
  BY <1>1 DEF Ours
<1>3. /\ tree'[cur.site] = t
      /\ \A s \in Sites : s # cur.site => tree'[s] = tree[s]
  BY <1>1 DEF StayInv, AskInv, WaitInv, AnyInv, TypeOK, SetTree
<1> QED
  BY <1>2, <1>3 DEF StayInv, OwnRepository

LEMMA RunOwn == StayInv /\ Run => OwnRepository'
<1> SUFFICES ASSUME StayInv, Run PROVE OwnRepository'
  OBVIOUS
<1>1. AnyInv /\ want' = want
  BY QuietRunAny, TreeRunAny DEF StayInv, AskInv, WaitInv, Run, central
<1>2. CASE \/ Refuse \/ Begin \/ InspectTree \/ RefuseParent \/ SendApplying \/ Verify
           \/ Observe \/ GitFails
  BY <1>1, <1>2, QuietRunAny DEF StayInv, OwnRepository
<1>3. CASE Clone \/ Fetch \/ Reset \/ GitKilled
  <2>1. pc \notin Resting
    BY <1>3 DEF Clone, Fetch, Reset, GitKilled, Working, Resting
  <2>2. CASE Clone
    BY <1>1, <2>1, <2>2, NewTrees, OursIsOwn DEF Clone, ClonedTree, Ours
  <2>3. CASE Fetch
    BY <1>1, <2>1, <2>3, NewTrees, OursIsOwn DEF Fetch, FetchedTree, Ours
  <2>4. CASE Reset
    BY <1>1, <2>1, <2>4, NewTrees, OursIsOwn DEF Reset, ResetTree, Ours
  <2>5. CASE GitKilled
    BY <1>1, <2>1, <2>5, RemainsAreLeftovers, LeftoversAreTrees, OursIsOwn DEF GitKilled
  <2> QED
    BY <1>3, <2>2, <2>3, <2>4, <2>5
<1> QED
  BY <1>2, <1>3 DEF Run

LEMMA OutsideOwn ==
    ASSUME "rebind" \notin Faults, StayInv, Outside
    PROVE  OwnRepository'
<1>1. AnyInv
  BY DEF StayInv, AskInv, WaitInv
<1>2. CASE Crash
  <2>1. want' = want
    BY <1>2 DEF Crash, central
  <2>2. CASE cur = NoIntent
    BY <1>2, <2>1, <2>2 DEF Crash, StayInv, OwnRepository
  <2>3. CASE cur # NoIntent
    <3>1. PICK t \in Leftovers : SetTree(t)
      BY <1>2, <2>3, RemainsAreLeftovers DEF Crash
    <3>2. pc \notin Resting
      BY <1>1, <2>3 DEF AnyInv, Pending
    <3> QED
      BY <1>1, <2>1, <3>1, <3>2, LeftoversAreTrees, OursIsOwn
  <2> QED
    BY <2>2, <2>3
<1>3. ASSUME NEW s \in Sites, NEW u \in Urls, NEW c \in 0..MaxCommit, Request(s, u, c)
      PROVE  OwnRepository'
  <2>1. /\ tree' = tree /\ want'[s].url = u
        /\ \A r \in Sites : r # s => want'[r] = want[r]
    BY <1>1, <1>3 DEF Request, AnyInv, TypeOK
  <2>2. tree[s].kind = "repo" => want[s].url = u
    <3>1. ASSUME tree[s].kind = "repo" PROVE want[s].url # NoUrl
      BY <1>1, <3>1, GitNames DEF AnyInv, InPlace, StayInv, OwnRepository
    <3> QED
      BY <1>3, <3>1 DEF Request
  <2> QED
    BY <2>1, <2>2 DEF StayInv, OwnRepository
<1>4. CASE Signal \/ \E u \in Urls : Push(u)
  BY <1>4 DEF Signal, Push, central, StayInv, OwnRepository
<1> QED
  BY <1>2, <1>3, <1>4 DEF Outside

LEMMA NextStay ==
    ASSUME "rerequest" \notin Faults, "rebind" \notin Faults, StayInv, [Next]_vars
    PROVE  StayInv'
<1>1. AskInv'
  BY NextAsk DEF StayInv
<1>2. CASE Loop \/ Post \/ UNCHANGED vars
  <2>1. UNCHANGED <<tree, want>>
    BY <1>2 DEF Loop, Boot, GetPing, TakeIntent, LoopDone, Exit, Post, PostOk,
                PostFails, PostAckLost, central, vars
  <2> QED
    BY <1>1, <2>1 DEF StayInv, OwnRepository
<1> QED
  BY <1>1, <1>2, RunOwn, OutsideOwn DEF StayInv, Next

(* In the site's own repository, what Central holds as applied is right.    *)
LEMMA StayReflects == StayInv => AppliedReflectsRequest
<1> SUFFICES ASSUME StayInv, NEW s \in Sites, ledger[s] = "applied"
             PROVE  /\ observed[s][1] = want[s].url
                    /\ IF want[s].sha = NoCommit THEN observed[s][2] >= want[s].since
                       ELSE observed[s][2] = want[s].sha
  BY DEF AppliedReflectsRequest
<1>1. tree[s].kind = "repo" /\ observed[s] = <<tree[s].origin, tree[s].head>>
  BY DEF StayInv, AskInv, WaitInv, AnyInv, AppliedIsObserved
<1>2. observed[s][1] = want[s].url
  BY <1>1 DEF StayInv, OwnRepository
<1>3. Gives(observed[s][1], observed[s][2], want[s])
  BY DEF StayInv, AskInv, AppliedGivesAsked
<1> QED
  BY <1>2, <1>3 DEF Gives

(* "applied" means that the tree reflects what was asked for, as long as    *)
(* Central waits for answers and no site changes its repository: when one   *)
(* does, Fetch ignores the intent's URL (executor.go:134-138).              *)
THEOREM AppliedReflectsSafe ==
    ASSUME "rerequest" \notin Faults, "rebind" \notin Faults
    PROVE  Spec => []AppliedReflectsRequest
<1>1. StayInv /\ [Next]_vars => StayInv'
  BY NextStay
<1> QED
  BY <1>1, InitStay, StayReflects, PTL DEF Spec

-----------------------------------------------------------------------------
(* The steps as DeployRequests sees them.                                   *)

Status(s) == IF ledger[s] \in Open THEN "pending" ELSE ledger[s]
Content(s) == <<tree[s].origin, tree[s].head>>

Seen == /\ want' = want
        /\ \A s \in Sites : Status(s)' = Status(s) /\ Content(s)' = Content(s)

\* A step that changes nothing of that is a stutter.
LEMMA StutterMaps == Seen => UNCHANGED Requests!requestVars
  BY DEF Seen, Status, Content, Requests!requestVars

LEMMA InitMaps == Init => Requests!Init
<1> SUFFICES ASSUME Init PROVE Requests!Init
  OBVIOUS
<1>1. \A s \in Sites : ledger[s] = "none" /\ ledger[s] \notin Open
  BY OpenPhases DEF Init
<1>2. ASSUME NEW s \in Sites PROVE <<tree[s].origin, tree[s].head>> \in Requests!Trees
  <2>1. tree[s].origin = NoUrl /\ tree[s].head = NoCommit
    BY DEF Init, Absent
  <2> QED
    BY <2>1, GitBounds DEF Requests!Trees, Requests!Commits, NoCommit
<1> QED
  BY <1>1, <1>2 DEF Init, Requests!Init, NoCommit

(* A step that moves the tree of a site whose request is open is Work.      *)
LEMMA WorkMaps ==
    ASSUME AnyInv, AnyInv', UNCHANGED <<ledger, want>>,
           NEW s \in Sites, ledger[s] \in Open,
           \A r \in Sites : r # s => tree'[r] = tree[r]
    PROVE  Requests!Next
<1> DEFINE t == <<tree'[s].origin, tree'[s].head>>
<1>1. t \in Requests!Trees
  BY DEF AnyInv, TypeOK, Trees, Requests!Trees, Requests!Commits
<1>2. Requests!Work(s, t)
  BY DEF Requests!Work
<1> QED
  BY <1>1, <1>2 DEF Requests!Next, Requests!Work

(* A receipt is seen when it answers; an answer of applied is true, as the  *)
(* tree is what Central now holds as applied.                               *)
LEMMA PostMaps ==
    ASSUME StayInv, StayInv', KilledComesLate, Post
    PROVE  [Requests!Next]_(Requests!requestVars)
<1> DEFINE s == cur.site
<1>1. /\ pc = "post" /\ GoodRow /\ UNCHANGED <<tree, want>> /\ s \in Sites
      /\ ledger[s] \in Open
  BY AtWork DEF StayInv, AskInv, WaitInv, AnyInv, InPlace, Post, PostOk, PostFails,
                PostAckLost, central, Resting
<1>2. CASE ledger' = ledger
  BY <1>1, <1>2, StutterMaps DEF Seen, Status, Content
<1>3. CASE ledger' # ledger
  <2>1. ledger' = [ledger EXCEPT ![s] = row.state] /\ row.state # "killed"
    BY <1>3, TakenIsNotKilled
  <2>2. /\ ledger'[s] = row.state /\ \A r \in Sites : r # s => ledger'[r] = ledger[r]
    BY <1>1, <2>1 DEF StayInv, AskInv, WaitInv, AnyInv, TypeOK
  <2>3. CASE row.state \in Open
    BY <1>1, <2>2, <2>3, StutterMaps DEF Seen, Status, Content
  <2>4. CASE row.state \notin Open
    <3>1. row.state \in {"applied", "failed"}
      BY <1>1, <2>1, <2>4, OpenPhases DEF GoodRow, Onward
    <3>2. row.state = "applied" =>
             Requests!Satisfies(<<tree[s].origin, tree[s].head>>, want[s])
      <4>1. ASSUME row.state = "applied"
            PROVE  Requests!Satisfies(<<tree[s].origin, tree[s].head>>, want[s])
        <5>1. ledger'[s] = "applied"
          BY <2>2, <4>1
        <5>2. observed'[s] = <<tree[s].origin, tree[s].head>>
          BY <1>1, <5>1 DEF StayInv, AskInv, WaitInv, AnyInv, AppliedIsObserved
        <5>3. AppliedReflectsRequest'
          BY StayReflects, PTL
        <5>4. /\ observed'[s][1] = want[s].url
              /\ IF want[s].sha = NoCommit THEN observed'[s][2] >= want[s].since
                 ELSE observed'[s][2] = want[s].sha
          BY <1>1, <5>1, <5>3 DEF AppliedReflectsRequest
        <5> QED
          BY <5>2, <5>4 DEF Requests!Satisfies, NoCommit
      <4> QED
        BY <4>1
    <3>3. Requests!Answer(s, row.state)
      BY <1>1, <2>2, <2>4, <3>2 DEF Requests!Answer
    <3> QED
      BY <1>1, <3>1, <3>3 DEF Requests!Next, Requests!Answer
  <2> QED
    BY <2>3, <2>4
<1> QED
  BY <1>2, <1>3

LEMMA RequestMaps ==
    ASSUME AnyInv, "rerequest" \notin Faults,
           NEW s \in Sites, NEW u \in Urls, NEW c \in 0..MaxCommit, Request(s, u, c)
    PROVE  Requests!Next
<1> DEFINE r == [url |-> u, sha |-> c, since |-> tip[u]]
<1>1. /\ ledger[s] \notin Open /\ tree' = tree
      /\ ledger' = [ledger EXCEPT ![s] = "requested"]
      /\ want' = [want EXCEPT ![s] = r]
  BY DEF Request
<1>2. ledger[s] # "pending" /\ "requested" \in Open
  BY OpenPhases DEF AnyInv, TypeOK
<1>3. tip[u] \in 0..MaxCommit
  BY GitBounds DEF AnyInv, TypeOK, Commits
<1>4. r \in [url : Urls, sha : Requests!Commits, since : Requests!Commits]
  BY <1>3 DEF Requests!Commits
<1>5. Requests!Ask(s, r)
  BY <1>1, <1>2 DEF AnyInv, TypeOK, Requests!Ask
<1> QED
  BY <1>4, <1>5 DEF Requests!Next, Requests!Ask

LEMMA NextMaps ==
    ASSUME "rerequest" \notin Faults, StayInv, StayInv', KilledComesLate, [Next]_vars
    PROVE  [Requests!Next]_(Requests!requestVars)
<1> USE DEF StayInv, AskInv, WaitInv
<1>1. ASSUME UNCHANGED <<tree, ledger, want>>
      PROVE  [Requests!Next]_(Requests!requestVars)
  BY <1>1, StutterMaps DEF Seen, Status, Content
<1>2. CASE UNCHANGED vars
  BY <1>1, <1>2 DEF vars
<1>3. CASE Loop
  BY <1>1, <1>3 DEF Loop, Boot, GetPing, TakeIntent, LoopDone, Exit, Rest, central
<1>4. CASE Run
  <2>1. CASE \/ Refuse \/ Begin \/ InspectTree \/ RefuseParent \/ SendApplying \/ Verify
             \/ Observe \/ GitFails
    BY <1>1, <2>1, QuietRunAny DEF central
  <2>2. CASE Clone \/ Fetch \/ Reset \/ GitKilled
    <3>1. pc \notin Resting
      BY <2>2 DEF Clone, Fetch, Reset, GitKilled, Working, Resting
    <3>2. /\ cur.site \in Sites /\ ledger[cur.site] \in Open
      BY <3>1, AtWork
    <3>3. /\ UNCHANGED <<ledger, want>>
          /\ \A r \in Sites : r # cur.site => tree'[r] = tree[r]
      BY <2>2, TreeRunAny DEF central
    <3> QED
      BY <3>2, <3>3, WorkMaps
  <2> QED
    BY <1>4, <2>1, <2>2 DEF Run
<1>5. CASE Post
  BY <1>5, PostMaps
<1>6. CASE Outside
  <2>1. CASE Signal \/ \E u \in Urls : Push(u)
    BY <1>1, <2>1 DEF Signal, Push, central
  <2>2. CASE Crash
    <3>1. UNCHANGED <<ledger, want>>
      BY <2>2 DEF Crash, central
    <3>2. CASE cur = NoIntent
      BY <1>1, <2>2, <3>1, <3>2 DEF Crash
    <3>3. CASE cur # NoIntent
      <4>1. PICK t \in Leftovers : SetTree(t)
        BY <2>2, <3>3, RemainsAreLeftovers DEF Crash
      <4>2. cur.site \in Sites /\ ledger[cur.site] \in Open
        BY <3>3, AtWork DEF AnyInv, Pending
      <4>3. \A r \in Sites : r # cur.site => tree'[r] = tree[r]
        BY <4>1, <4>2 DEF SetTree, AnyInv, TypeOK
      <4> QED
        BY <3>1, <4>2, <4>3, WorkMaps
    <3> QED
      BY <3>2, <3>3
  <2>3. ASSUME NEW s \in Sites, NEW u \in Urls, NEW c \in 0..MaxCommit, Request(s, u, c)
        PROVE  [Requests!Next]_(Requests!requestVars)
    BY <2>3, RequestMaps
  <2> QED
    BY <1>6, <2>1, <2>2, <2>3 DEF Outside
<1> QED
  BY <1>2, <1>3, <1>4, <1>5, <1>6 DEF Next

(* Convergence implements the service of DeployRequests, under the same     *)
(* hypotheses: trees move only while a request is open, and every answer is *)
(* true when it is given.                                                   *)
THEOREM ImplementsService ==
    ASSUME "rerequest" \notin Faults, "rebind" \notin Faults
    PROVE  Spec => ImplementsRequests
<1>1. StayInv /\ [Next]_vars => StayInv'
  BY NextStay
<1>2. StayInv /\ StayInv' /\ KilledComesLate /\ [Next]_vars
        => [Requests!Next]_(Requests!requestVars)
  BY NextMaps
<1> QED
  BY <1>1, <1>2, InitStay, InitMaps, AlwaysLate, PTL DEF Spec, ImplementsRequests, Requests!Spec

(* The service itself: what it answered as applied is in the tree for as    *)
(* long as the site asks for nothing else.                                  *)
THEOREM AnswersStayTrue == Requests!Spec => []Requests!AnswersHold
<1> DEFINE Holds == DOMAIN want = Sites /\ Requests!AnswersHold
<1>1. Requests!Init => Holds
  BY DEF Requests!Init, Requests!AnswersHold
<1>2. Holds /\ [Requests!Next]_(Requests!requestVars) => Holds'
  <2> SUFFICES ASSUME Holds, [Requests!Next]_(Requests!requestVars) PROVE Holds'
    OBVIOUS
  <2> USE DEF Requests!AnswersHold
  <2>1. CASE UNCHANGED Requests!requestVars
    BY <2>1 DEF Requests!requestVars
  <2>2. ASSUME NEW s \in Sites, NEW r, Requests!Ask(s, r) PROVE Holds'
    BY <2>2 DEF Requests!Ask
  <2>3. ASSUME NEW s \in Sites, NEW t, Requests!Work(s, t) PROVE Holds'
    BY <2>3 DEF Requests!Work
  <2>4. ASSUME NEW s \in Sites, NEW a, Requests!Answer(s, a) PROVE Holds'
    BY <2>4 DEF Requests!Answer
  <2> QED
    BY <2>1, <2>2, <2>3, <2>4
       DEF Requests!Next, Requests!Ask, Requests!Work, Requests!Answer
<1>3. Holds => Requests!AnswersHold
  OBVIOUS
<1> HIDE DEF Holds
<1> QED
  BY <1>1, <1>2, <1>3, PTL DEF Requests!Spec

(* So what Central holds as applied is in the tree itself, not only in what *)
(* Central was told, until it asks again.                                   *)
COROLLARY TreesStayAsAsked ==
    ASSUME "rerequest" \notin Faults, "rebind" \notin Faults
    PROVE  Spec => []Requests!AnswersHold
  BY ImplementsService, AnswersStayTrue, PTL DEF ImplementsRequests
=============================================================================
