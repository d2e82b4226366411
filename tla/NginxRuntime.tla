------------------------------ MODULE NginxRuntime ------------------------------
(***************************************************************************)
(* Nginx convergence: the loop over site_runtime_apply_intents and the TLS *)
(* echo of cmd/agent/main.go, and internal/nginxruntime/converge.go and    *)
(* tlsintent.go, against the sites-available and sites-enabled             *)
(* directories, the running nginx and Central's ledger.                    *)
(*                                                                         *)
(* A rendered site configuration is the version of the site's settings     *)
(* and whether it terminates TLS.  nginx is external: "nginx -t" judges    *)
(* all enabled sites together, a reload makes them live together.          *)
(***************************************************************************)
EXTENDS FiniteSets, Naturals

CONSTANTS
    Sites,
    Versions,       \* settings of a site: domain, runtime type, paths
    BadVersions,    \* settings that render to a file nginx rejects
    NoVersion, NoSite,
    TlsWithdrawn,   \* may Central switch TLS off again for a site?
    Faults,         \* subset of FaultKinds
    MaxRequests     \* bound: requests made to Central

FaultKinds == {"ack_loss", "disk", "crash", "rerequest"}

ASSUME NginxNames == BadVersions \subseteq Versions /\ NoVersion \notin Versions
                     /\ NoSite \notin Sites
ASSUME NginxFaults == Faults \subseteq FaultKinds /\ TlsWithdrawn \in BOOLEAN
ASSUME NginxBound == MaxRequests \in Nat

VARIABLES
    pc, cur, intents, row, told,    \* the agent; told is the map tlsEcho
    echo,                           \* site_tls_echo.json
    available, link,                \* sites-available, sites-enabled
    live,                           \* what the running nginx serves
    ledger, tlsLedger, want, requests   \* Central

files == <<available, link>>
central == <<ledger, tlsLedger, want, requests>>
vars == <<pc, cur, intents, row, told, echo, available, link, live, ledger,
          tlsLedger, want, requests>>

Confs == [version : Versions, tls : BOOLEAN]
NoConf == [version |-> NoVersion, tls |-> FALSE]

\* What a site contributes to nginx's configuration.
Enabled(s) == IF link[s] = "ours" THEN available[s] ELSE NoConf
ConfigIsValid == \A s \in Sites : Enabled(s).version \notin BadVersions

Open == {"requested", "applying", "reload_requested"}
Ledgers == Open \cup {"none", "applied", "reload_applied", "failed"}
TlsStates == {"none", "issued", "applied"}

\* Central's transitions on a receipt; the agent never asks for others.
Edges == {<<"requested", "applying">>, <<"applying", "applying">>,
          <<"applying", "applied">>, <<"reload_requested", "reload_applied">>}
         \cup (Open \X {"failed"})

Intent(s) == [site |-> s, conf |-> want[s], state |-> ledger[s],
              tls |-> tlsLedger[s]]
NoIntent == [site |-> NoSite, conf |-> NoConf, state |-> "none", tls |-> "none"]
Intents == [site : Sites, conf : Confs, state : Open, tls : TlsStates]

\* "repository" stands for any receipt of gitdeploy.
NoRow == [site |-> NoSite, state |-> "none", tls |-> "none", then |-> "next"]
Rows == [site : Sites,
         state : {"applying", "applied", "reload_applied", "failed",
                  "repository"},
         tls : {"none", "applied"}, then : {"write", "next", "repo"}]

TypeOK ==
    /\ pc \in {"down", "idle", "repo", "next", "start", "write", "link",
               "relink", "test", "reload", "post"}
    /\ cur \in Intents \cup {NoIntent}
    /\ intents \subseteq Intents
    /\ row \in Rows \cup {NoRow}
    /\ told \in [Sites -> {"none", "applied"}]
    /\ echo \in [Sites -> {"none", "applied"}]
    /\ available \in [Sites -> Confs \cup {NoConf}]
    /\ link \in [Sites -> {"none", "stale", "file", "ours"}]
    /\ live \in [Sites -> Confs \cup {NoConf}]
    /\ ledger \in [Sites -> Ledgers]
    /\ tlsLedger \in [Sites -> TlsStates]
    /\ want \in [Sites -> Confs \cup {NoConf}]
    /\ requests \in 0..MaxRequests

Init ==
    /\ pc = "down" /\ cur = NoIntent /\ intents = {} /\ row = NoRow
    /\ told = [s \in Sites |-> "none"] /\ echo = told
    /\ available = [s \in Sites |-> NoConf] /\ live = available
    /\ link \in [Sites -> {"none", "stale", "file"}]
    /\ ledger = [s \in Sites |-> "none"] /\ tlsLedger = ledger
    /\ want = available
    /\ requests = 0

-----------------------------------------------------------------------------
(* The agent's loop.                                                       *)

Rest(at) == pc' = at /\ cur' = NoIntent /\ row' = NoRow

Boot == /\ pc = "down"
        /\ Rest("idle")
        /\ UNCHANGED <<intents, told, echo, files, live, central>>

\* loadTlsEchoMap: an unreadable or missing file is an empty map.
GetPing ==
    /\ pc = "idle"
    /\ intents' = {Intent(s) : s \in {t \in Sites : ledger[t] \in Open}}
    /\ told' = echo
    /\ Rest("repo")
    /\ UNCHANGED <<echo, files, live, central>>

TakeIntent ==
    /\ pc \in {"repo", "next"}
    /\ \E i \in intents : cur' = i /\ intents' = intents \ {i}
    /\ pc' = "start"
    /\ UNCHANGED <<row, told, echo, files, live, central>>

LoopDone ==
    /\ pc \in {"repo", "next"} /\ intents = {}
    /\ Rest("idle")
    /\ UNCHANGED <<intents, told, echo, files, live, central>>

-----------------------------------------------------------------------------
(* Receipts.  Every row carries a tls_state, whatever it is about.         *)

Report(s, state, tls, then) ==
    /\ pc' = "post"
    /\ row' = [site |-> s, state |-> state, tls |-> tls, then |-> then]

Tls == told[cur.site]
Fail == Report(cur.site, "failed", Tls, "next")

\* gitdeploy reports on the sites before any nginx intent is looked at.
RepositoryReceipt(s) ==
    /\ pc = "repo"
    /\ Report(s, "repository", told[s], "repo")
    /\ UNCHANGED <<cur, intents, told, echo, files, live, central>>

Deliver ==
    /\ ledger' = IF <<ledger[row.site], row.state>> \in Edges
                 THEN [ledger EXCEPT ![row.site] = row.state] ELSE ledger
    /\ tlsLedger' = IF tlsLedger[row.site] = "issued" /\ row.tls = "applied"
                    THEN [tlsLedger EXCEPT ![row.site] = "applied"]
                    ELSE tlsLedger
    /\ UNCHANGED <<want, requests>>

GoOn(to) == IF to = "write" THEN pc' = to /\ row' = NoRow /\ UNCHANGED cur
            ELSE Rest(to)

\* A failure to save the echo is logged; the map of this loop has it.
PostOk ==
    /\ pc = "post"
    /\ Deliver
    /\ told' = [told EXCEPT ![row.site] = row.tls]
    /\ \/ echo' = told'
       \/ "disk" \in Faults /\ UNCHANGED echo
    /\ GoOn(row.then)
    /\ UNCHANGED <<intents, files, live>>

PostFails ==
    /\ pc = "post"
    /\ Rest(IF row.then = "repo" THEN "repo" ELSE "next")
    /\ UNCHANGED <<intents, told, echo, files, live, central>>

PostAckLost ==
    /\ "ack_loss" \in Faults
    /\ pc = "post"
    /\ Deliver
    /\ Rest(IF row.then = "repo" THEN "repo" ELSE "next")
    /\ UNCHANGED <<intents, told, echo, files, live>>

-----------------------------------------------------------------------------
(* nginxruntime.Run: the apply leg and the reload leg share their steps.    *)

Reloading == cur.state = "reload_requested"
Working(at) == /\ pc = at
               /\ UNCHANGED <<cur, intents, told, echo, central>>
Step(to) == pc' = to /\ UNCHANGED row

\* Seeded bug: Central's own ledger state is sent back as an observation.
Bug_TlsAfterReload == IF cur.conf.tls THEN cur.tls ELSE Tls

TlsAfterReload ==
    IF cur.conf.tls /\ cur.tls = "issued" THEN "applied" ELSE Tls

\* A path outside the roots, a missing certificate, unusable directories.
Refuse == Working("start") /\ Fail /\ UNCHANGED <<files, live>>

\* Seeded bug: "applying" is reported on every leg and in every state.
Bug_Begin == /\ Working("start")
             /\ Report(cur.site, "applying", Tls, "write")
             /\ UNCHANGED <<files, live>>

Begin == /\ Working("start")
         /\ IF cur.state = "requested"
            THEN Report(cur.site, "applying", Tls, "write")
            ELSE Step("write")
         /\ UNCHANGED <<files, live>>

\* Rendering is refused, or the file cannot be written.
WriteFails == Working("write") /\ Fail /\ UNCHANGED <<files, live>>

\* Seeded bug: a file that exists already is kept.
Bug_Write == /\ Working("write")
             /\ available' = IF available[cur.site] # NoConf THEN available
                             ELSE [available EXCEPT ![cur.site] = cur.conf]
             /\ Step("link")
             /\ UNCHANGED <<link, live>>

Write == /\ Working("write")
         /\ available' = [available EXCEPT ![cur.site] = cur.conf]
         /\ Step("link")
         /\ UNCHANGED <<link, live>>

\* A link to our file is kept, a stale one is removed and made again.
EnsureSymlink ==
    /\ Working("link")
    /\ CASE link[cur.site] = "ours"  -> Step("test") /\ UNCHANGED link
         [] link[cur.site] = "file"  -> Fail /\ UNCHANGED link
         [] link[cur.site] = "stale" -> /\ link' = [link EXCEPT ![cur.site] = "none"]
                                        /\ Step("relink")
         [] link[cur.site] = "none"  -> Step("relink") /\ UNCHANGED link
    /\ UNCHANGED <<available, live>>

Symlink == /\ Working("relink")
           /\ link' = [link EXCEPT ![cur.site] = "ours"]
           /\ Step("test")
           /\ UNCHANGED <<available, live>>

LinkFails == /\ Working("link") \/ Working("relink")
             /\ Fail
             /\ UNCHANGED <<files, live>>

\* Seeded bug: the apply leg already observes TLS.
Bug_Test == /\ Working("test")
            /\ ConfigIsValid
            /\ IF Reloading THEN Step("reload")
               ELSE Report(cur.site, "applied",
                           IF cur.tls = "issued" /\ cur.conf.tls
                           THEN "applied" ELSE Tls, "next")
            /\ UNCHANGED <<files, live>>

\* Seeded bug: the apply leg reloads nginx as well.
Bug_TestReloads == /\ Working("test")
                   /\ ConfigIsValid
                   /\ IF Reloading THEN Step("reload") /\ UNCHANGED live
                      ELSE /\ Report(cur.site, "applied", Tls, "next")
                           /\ live' = [s \in Sites |-> Enabled(s)]
                   /\ UNCHANGED files

Test == /\ Working("test")
        /\ ConfigIsValid
        /\ IF Reloading THEN Step("reload")
           ELSE Report(cur.site, "applied", Tls, "next")
        /\ UNCHANGED <<files, live>>

\* Seeded bug: the exit status of the test is ignored by the apply leg.
Bug_TestFails == /\ Working("test")
                 /\ IF Reloading THEN Fail
                    ELSE Report(cur.site, "applied", Tls, "next")
                 /\ UNCHANGED <<files, live>>

\* The file and the link stay: nothing is rolled back.
TestFails == Working("test") /\ Fail /\ UNCHANGED <<files, live>>

Reload == /\ Working("reload")
          /\ ConfigIsValid
          /\ live' = [s \in Sites |-> Enabled(s)]
          /\ Report(cur.site, "reload_applied", TlsAfterReload, "next")
          /\ UNCHANGED files

\* Seeded bug: a reload command that fails is reported as a reload.
Bug_ReloadFails == /\ Working("reload")
                   /\ Report(cur.site, "reload_applied", TlsAfterReload, "next")
                   /\ UNCHANGED <<files, live>>

\* The command may have failed, or been killed, after nginx got the signal.
ReloadFails == /\ Working("reload")
               /\ \/ UNCHANGED live
                  \/ ConfigIsValid /\ live' = [s \in Sites |-> Enabled(s)]
               /\ Fail
               /\ UNCHANGED files

-----------------------------------------------------------------------------
Crash == /\ "crash" \in Faults
         /\ pc # "down"
         /\ Rest("down")
         /\ intents' = {}
         /\ told' = [s \in Sites |-> "none"]
         /\ UNCHANGED <<echo, files, live, central>>

\* Without "rerequest" Central waits for the answer to the last request.
CanRequest(s) == /\ requests < MaxRequests
                 /\ ledger[s] \in Open => "rerequest" \in Faults

\* New settings; certificate paths on the ledger switch TLS on.
RequestApply(s, c) ==
    /\ CanRequest(s)
    /\ want[s].tls /\ ~c.tls => TlsWithdrawn
    /\ requests' = requests + 1
    /\ ledger' = [ledger EXCEPT ![s] = "requested"]
    /\ want' = [want EXCEPT ![s] = c]
    /\ tlsLedger' = IF c.tls = want[s].tls THEN tlsLedger
                    ELSE [tlsLedger EXCEPT ![s] = IF c.tls THEN "issued"
                                                  ELSE "none"]
    /\ UNCHANGED <<pc, cur, intents, row, told, echo, files, live>>

RequestReload(s) ==
    /\ CanRequest(s) /\ ledger[s] = "applied"
    /\ requests' = requests + 1
    /\ ledger' = [ledger EXCEPT ![s] = "reload_requested"]
    /\ UNCHANGED <<pc, cur, intents, row, told, echo, files, live, tlsLedger,
                   want>>

Loop == Boot \/ GetPing \/ TakeIntent \/ LoopDone
Leg == \/ Refuse \/ Begin \/ WriteFails \/ Write \/ EnsureSymlink \/ Symlink
       \/ LinkFails \/ Test \/ TestFails \/ Reload \/ ReloadFails
Post == PostOk \/ PostFails \/ PostAckLost

Next ==
    \/ Loop \/ Leg \/ Post \/ Crash
    \/ \E s \in Sites : \/ RepositoryReceipt(s)
                        \/ RequestReload(s)
                        \/ \E c \in Confs : RequestApply(s, c)

Spec == Init /\ [][Next]_vars

-----------------------------------------------------------------------------
(* Receipts do not move backwards: whatever an interrupted leg or a lost    *)
(* answer left behind, Central takes each runtime receipt of the agent, if  *)
(* it does not ask again meanwhile (a row carries no request id).           *)
RuntimeReceiptsFollowLedger ==
    pc = "post" /\ row.state # "repository" =>
        <<ledger[row.site], row.state>> \in Edges

(* reload_applied means that the running nginx serves what Central asked    *)
(* for, and goes on doing so when other sites are applied and reloaded, and *)
(* when Central asks again in the middle of a leg.                          *)
ReloadReceiptIsLive ==
    \A s \in Sites : ledger[s] = "reload_applied" => live[s] = want[s]

(* applied means that the settings Central asked for are enabled on disk,   *)
(* again if Central does not ask for others before it has the answer.       *)
AppliedIsEnabled ==
    \A s \in Sites : ledger[s] \in {"applied", "reload_applied"} =>
                        Enabled(s) = want[s]

(* An enabled file that nginx rejects makes the test of every other site    *)
(* fail too.  Nothing removes it, but Central does not see its site as done.*)
PoisonIsVisible ==
    \A s \in Sites : Enabled(s).version \in BadVersions =>
                        ledger[s] \in Open \cup {"failed"}

(* A row that tells Central tls_state "applied" is about a site that the    *)
(* running nginx serves with TLS (docs/GITHUB_SITE_PULL.md: receipts are    *)
(* sent "without inventing TLS observations").                              *)
TlsObservationIsLive ==
    pc = "post" /\ row.tls = "applied" => live[row.site].tls

\* The ledger as those see it who ask: phases of an apply are one.
Status(s) == CASE ledger[s] \in {"requested", "applying"} -> "pending"
               [] ledger[s] = "reload_requested" -> "reloading"
               [] ledger[s] = "reload_applied" -> "reloaded"
               [] OTHER -> ledger[s]

Service == INSTANCE RuntimeRequests WITH
               Rejected <- {c \in Confs : c.version \in BadVersions},
               request  <- want,
               status   <- [s \in Sites |-> Status(s)],
               enabled  <- [s \in Sites |-> Enabled(s)]

(* Convergence implements that service whatever fails, if Central waits for *)
(* answers: a site's configuration on disk only ever becomes the one that   *)
(* is asked for, the running nginx changes only when a reload is asked for, *)
(* to what is then enabled everywhere, and no receipt is untrue.            *)
ImplementsRuntimeRequests == Service!Spec
=============================================================================
