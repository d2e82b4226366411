--------------------------- MODULE NginxRuntimeProofs ---------------------------
(***************************************************************************)
(* Theorems about NginxRuntime, for every set of sites and versions, every *)
(* bound on requests and every fault.  Those that compare an answer with   *)
(* the last request need that Central waits for answers, as rows carry no  *)
(* request id; TlsSafe needs that Central does not switch TLS off.         *)
(***************************************************************************)
EXTENDS NginxRuntime, TLAPS

Pcs == {"down", "idle", "repo", "next", "start", "write", "link", "relink", "test",
        "reload", "post"}
InLeg == {"start", "write", "link", "relink", "test", "reload"}

\* An intent is being worked on.  gitdeploy's receipts belong to none.
Busy == pc \in InLeg \/ (pc = "post" /\ row.state # "repository")
Posting(states) == pc = "post" /\ row.state \in states
Done == {"applied", "reload_applied"}

\* What Central has asked for has settings.
Named == \A s \in Sites : ledger[s] # "none" => want[s] \in Confs

\* Central makes no new request before the last one is answered.
Waits == "rerequest" \notin Faults

\* An intent says what Central wants, unless there was a new request since.
\* A reload is only asked for after an answer, so it is never overtaken so.
Current(i) == Waits \/ ledger[i.site] = "reload_requested" => i.conf = want[i.site]

\* An intent is pending from the answer of GET until its leg ends.
Pending ==
    /\ \A i \in intents : /\ ledger[i.site] \in Open /\ i.site # cur.site
                          /\ Current(i) /\ (Waits => i.state = ledger[i.site])
    /\ \A i, j \in intents : i.site = j.site => i = j
    /\ IF Busy THEN cur \in Intents /\ ledger[cur.site] \in Open /\ Current(cur)
       ELSE cur = NoIntent

\* Where the code goes on after each receipt.
Onward == {<<"applying", "write">>, <<"applied", "next">>, <<"reload_applied", "next">>,
           <<"failed", "next">>, <<"repository", "repo">>}
GoodRow == /\ row \in Rows /\ <<row.state, row.then>> \in Onward
           /\ row.state # "repository" => row.site = cur.site

Order == /\ pc = "post" => GoodRow
         /\ pc = "reload" => Reloading
         /\ Posting({"applying"}) => ~Reloading

\* The phase of the ledger at each place of a leg, if Central waits.
Begun == ledger[cur.site] = IF Reloading THEN "reload_requested" ELSE "applying"
Phase == Waits =>
    LET phase == ledger[cur.site]
    IN  /\ pc = "start" => phase = cur.state
        /\ pc \in InLeg \ {"start"} => Begun
        /\ Posting({"applying"}) => phase = "requested"
        /\ Posting({"applied"}) => phase = "applying"
        /\ Posting({"reload_applied"}) => phase = "reload_requested"

\* What a leg has done to the files and to nginx at each of its places.
Made ==
    LET s == cur.site IN
    /\ pc \in {"link", "relink", "test", "reload"} => available[s] = cur.conf
    /\ pc \in {"test", "reload"} => link[s] = "ours"
    /\ Posting(Done) => Enabled(s) = cur.conf /\ cur.conf.version \notin BadVersions
    /\ Posting({"reload_applied"}) => live[s] = cur.conf

\* What Central holds as done is enabled and valid; what is new is not enabled.
Settled == \A s \in Sites :
    /\ ledger[s] = "none" => link[s] # "ours"
    /\ ledger[s] \in Done => Enabled(s).version \notin BadVersions
    /\ ledger[s] = "reload_applied" \/ (Waits /\ ledger[s] = "applied") =>
           Enabled(s) = want[s]

IInv == /\ TypeOK /\ Named /\ Pending /\ Order /\ Phase /\ Made /\ Settled
        /\ ReloadReceiptIsLive

\* An intent asks for TLS between what is on disk and what is wanted.
TlsBetween(i) == (available[i.site].tls => i.conf.tls) /\ (i.conf.tls => want[i.site].tls)

(* An observation of TLS is live, what is live stays enabled, and what is   *)
(* on disk with TLS is wanted with TLS, by every pending intent too.        *)
Observed(s) == \/ told[s] = "applied" \/ echo[s] = "applied"
               \/ pc = "post" /\ row.site = s /\ row.tls = "applied"
TlsKept == \A s \in Sites :
    /\ Observed(s) => live[s].tls
    /\ live[s].tls => available[s].tls /\ link[s] = "ours"
    /\ available[s].tls => want[s].tls
TlsPending == (\A i \in intents : TlsBetween(i)) /\ (Busy => TlsBetween(cur))

TlsInv == IInv /\ TlsKept /\ TlsPending

-----------------------------------------------------------------------------
LEMMA EnabledIsConf ==
    ASSUME TypeOK, NEW s \in Sites
    PROVE  /\ Enabled(s) \in Confs \cup {NoConf}
           /\ Enabled(s).version \in BadVersions => link[s] = "ours"
  BY NginxNames DEF TypeOK, Enabled, NoConf

LEMMA NoIntentIsNone == NoIntent.site = NoSite /\ NoIntent \notin Intents
  BY NginxNames DEF NoIntent, Intents

LEMMA AtWork ==
    ASSUME IInv, Busy
    PROVE  /\ cur \in Intents /\ cur.site \in Sites /\ cur.conf \in Confs
           /\ cur.state \in Open /\ ledger[cur.site] \in Open
           /\ Current(cur) /\ Tls \in {"none", "applied"}
           /\ ledger[cur.site] \notin {"none", "applied", "reload_applied", "failed"}
<1>1. cur \in Intents /\ ledger[cur.site] \in Open /\ Current(cur)
  BY DEF IInv, Pending
<1>2. /\ cur.site \in Sites /\ cur.conf \in Confs /\ cur.state \in Open
  BY <1>1 DEF Intents
<1> QED
  BY <1>1, <1>2 DEF IInv, TypeOK, Tls, Open

(* The checked properties that the invariant contains.                      *)
LEMMA InvImplies ==
    IInv => /\ PoisonIsVisible
            /\ Waits => RuntimeReceiptsFollowLedger /\ AppliedIsEnabled
<1> SUFFICES ASSUME IInv
             PROVE  /\ PoisonIsVisible
                    /\ Waits => RuntimeReceiptsFollowLedger /\ AppliedIsEnabled
  OBVIOUS
<1>1. ASSUME Waits, pc = "post", row.state # "repository"
      PROVE  <<ledger[row.site], row.state>> \in Edges
  <2>1. row.site = cur.site /\ <<row.state, row.then>> \in Onward /\ ledger[cur.site] \in Open
    BY <1>1, AtWork DEF IInv, Order, GoodRow, Busy
  <2>2. row.state \in {"applying", "applied", "reload_applied", "failed"}
    BY <1>1, <2>1 DEF Onward
  <2> QED
    BY <1>1, <2>1, <2>2 DEF IInv, Phase, Posting, Edges
<1>2. ASSUME NEW s \in Sites, Enabled(s).version \in BadVersions
      PROVE  ledger[s] \in Open \cup {"failed"}
  <2>1. ledger[s] # "none"
    BY <1>2, EnabledIsConf DEF IInv, Settled
  <2>2. ledger[s] \notin Done
    BY <1>2 DEF IInv, Settled
  <2> QED
    BY <2>1, <2>2 DEF IInv, TypeOK, Ledgers, Done
<1> QED
  BY <1>1, <1>2
     DEF RuntimeReceiptsFollowLedger, AppliedIsEnabled, PoisonIsVisible, IInv, Settled, Done

LEMMA InitInv == Init => IInv
<1> SUFFICES ASSUME Init PROVE IInv
  OBVIOUS
<1>1. TypeOK
  <2>1. NoConf \in Confs \cup {NoConf} /\ 0 \in 0..MaxRequests
    BY NginxBound
  <2> QED
    BY <2>1 DEF Init, TypeOK, Ledgers, TlsStates
<1>2. Named /\ Settled /\ ReloadReceiptIsLive
  BY DEF Init, Named, Settled, ReloadReceiptIsLive, Done
<1>3. Pending /\ Order /\ Phase /\ Made
  BY DEF Init, Pending, Order, Phase, Made, Busy, InLeg, Posting
<1> QED
  BY <1>1, <1>2, <1>3 DEF IInv

(* The loop touches no file and nothing of Central.                         *)
LEMMA LoopInv == IInv /\ Loop => IInv'
<1> SUFFICES ASSUME IInv, Loop PROVE IInv'
  OBVIOUS
<1>1. UNCHANGED <<echo, available, link, live, ledger, tlsLedger, want, requests>>
  BY DEF Loop, Boot, GetPing, TakeIntent, LoopDone, files, central
<1>2. pc \in {"down", "idle", "repo", "next"} /\ pc' \in {"idle", "repo", "start"}
  BY DEF Loop, Boot, GetPing, TakeIntent, LoopDone, Rest
<1>3. Named' /\ Settled' /\ ReloadReceiptIsLive'
  BY <1>1 DEF IInv, Named, Settled, ReloadReceiptIsLive, Enabled
<1>4. Made' /\ Order'
  BY <1>2 DEF Made, Order, Posting
<1>5. CASE Boot \/ LoopDone
  <2>1. cur' = NoIntent /\ row' = NoRow /\ intents' = intents /\ told' = told
        /\ pc' # "start"
    BY <1>5 DEF Boot, LoopDone, Rest
  <2>2. TypeOK'
    BY <1>1, <1>2, <2>1 DEF IInv, TypeOK
  <2>3. Pending'
    <3>1. \A i \in intents : i.site # NoSite
      BY NginxNames DEF IInv, TypeOK, Intents
    <3> QED
      BY <1>1, <1>2, <2>1, <3>1, NoIntentIsNone DEF IInv, Pending, Current, Busy, InLeg
  <2>4. Phase'
    BY <1>2, <2>1 DEF Phase, Posting, InLeg
  <2> QED
    BY <1>3, <1>4, <2>2, <2>3, <2>4 DEF IInv
<1>6. CASE GetPing
  <2>1. /\ cur' = NoIntent /\ row' = NoRow /\ told' = echo /\ pc' = "repo"
        /\ intents' = {Intent(s) : s \in {t \in Sites : ledger[t] \in Open}}
    BY <1>6 DEF GetPing, Rest
  <2>2. ASSUME NEW s \in Sites, ledger[s] \in Open
        PROVE  /\ Intent(s) \in Intents /\ Intent(s).site = s
               /\ Intent(s).conf = want[s] /\ Intent(s).state = ledger[s]
    <3>1. want[s] \in Confs
      BY <2>2 DEF IInv, Named, Open
    <3> QED
      BY <2>2, <3>1 DEF IInv, TypeOK, Intent, Intents
  <2>3. TypeOK'
    BY <1>1, <2>1, <2>2 DEF IInv, TypeOK
  <2>4. Pending'
    BY <1>1, <2>1, <2>2, NoIntentIsNone, NginxNames DEF Pending, Current, Busy, InLeg
  <2>5. Phase'
    BY <2>1 DEF Phase, Posting, InLeg
  <2> QED
    BY <1>3, <1>4, <2>3, <2>4, <2>5 DEF IInv
<1>7. CASE TakeIntent
  <2>1. PICK i \in intents : cur' = i /\ intents' = intents \ {i}
    BY <1>7 DEF TakeIntent
  <2>2. pc' = "start" /\ row' = row /\ told' = told
    BY <1>7 DEF TakeIntent
  <2>3. /\ i \in Intents /\ ledger[i.site] \in Open /\ Current(i)
        /\ Waits => i.state = ledger[i.site]
    BY DEF IInv, TypeOK, Pending
  <2>4. TypeOK'
    BY <1>1, <2>1, <2>2, <2>3 DEF IInv, TypeOK
  <2>5. Pending'
    BY <1>1, <2>1, <2>2, <2>3 DEF IInv, Pending, Current, Busy, InLeg
  <2>6. Phase'
    BY <1>1, <2>1, <2>2, <2>3 DEF Phase, Posting, InLeg
  <2> QED
    BY <1>3, <1>4, <2>4, <2>5, <2>6 DEF IInv
<1> QED
  BY <1>5, <1>6, <1>7 DEF Loop

-----------------------------------------------------------------------------
(* The legs.  A step touches the files of its own site, whose request is    *)
(* open, so nothing that Central holds as done depends on them.             *)

Facts == UNCHANGED <<cur, intents, told, echo, ledger, tlsLedger, want, requests>>

LEMMA LegKeeps ==
    ASSUME IInv, pc \in InLeg, Facts, pc' \in Pcs, Busy',
           available' \in [Sites -> Confs \cup {NoConf}],
           link' \in [Sites -> {"none", "stale", "file", "ours"}],
           live' \in [Sites -> Confs \cup {NoConf}],
           row' \in Rows \cup {NoRow},
           \A s \in Sites : s # cur.site => available'[s] = available[s] /\ link'[s] = link[s],
           \A s \in Sites : ledger[s] = "reload_applied" => live'[s] = want[s],
           Order', Phase', Made'
    PROVE  IInv'
<1>1. Busy /\ cur.site \in Sites
      /\ ledger[cur.site] \notin {"none", "applied", "reload_applied", "failed"}
  BY AtWork DEF Busy
<1>2. TypeOK'
  BY DEF IInv, TypeOK, Facts, Pcs
<1>3. Named' /\ Pending'
  BY <1>1 DEF IInv, Named, Pending, Current, Facts
<1>4. Settled'
  BY <1>1 DEF IInv, Settled, Done, Enabled, Facts
<1>5. ReloadReceiptIsLive'
  BY DEF ReloadReceiptIsLive, Facts
<1> QED
  BY <1>2, <1>3, <1>4, <1>5 DEF IInv

\* The receipts of a leg.
LEMMA ReportIsGood ==
    ASSUME IInv, pc \in InLeg, cur' = cur, NEW state, NEW tls \in {"none", "applied"},
           NEW then, Report(cur.site, state, tls, then),
           <<state, then>> \in Onward, state # "repository"
    PROVE  GoodRow' /\ pc' = "post" /\ Busy' /\ row' \in Rows /\ row'.state = state
  BY AtWork DEF Report, GoodRow, Busy, Rows, Onward

LEMMA FailIsGood ==
    ASSUME IInv, pc \in InLeg, cur' = cur, Fail
    PROVE  /\ GoodRow' /\ pc' = "post" /\ Busy' /\ row' \in Rows
           /\ Order' /\ Phase' /\ Made'
<1>1. Tls \in {"none", "applied"}
  BY AtWork DEF Busy
<1>2. GoodRow' /\ pc' = "post" /\ Busy' /\ row' \in Rows /\ row'.state = "failed"
  BY <1>1, ReportIsGood DEF Fail, Onward
<1>3. Order' /\ Phase' /\ Made'
  BY <1>2 DEF Order, Phase, Made, Posting, InLeg, Done
<1> QED
  BY <1>2, <1>3

\* A reload makes live what is enabled.
LEMMA ReloadIsLive ==
    ASSUME IInv, live' = live \/ live' = [s \in Sites |-> Enabled(s)]
    PROVE  /\ live' \in [Sites -> Confs \cup {NoConf}]
           /\ \A s \in Sites : ledger[s] = "reload_applied" => live'[s] = want[s]
<1>1. CASE live' = live
  BY <1>1 DEF IInv, TypeOK, ReloadReceiptIsLive
<1>2. CASE live' = [s \in Sites |-> Enabled(s)]
  BY <1>2, EnabledIsConf DEF IInv, Settled, Done
<1> QED
  BY <1>1, <1>2

LEMMA LegInv == IInv /\ Leg => IInv'
<1> SUFFICES ASSUME IInv, Leg PROVE IInv'
  OBVIOUS
<1>1. pc \in InLeg /\ Facts
  BY DEF Leg, Refuse, Begin, WriteFails, Write, EnsureSymlink, Symlink, LinkFails, Test,
         TestFails, Reload, ReloadFails, Working, InLeg, Facts, central
<1>2. /\ Busy /\ cur.site \in Sites /\ cur.conf \in Confs /\ cur.state \in Open
      /\ Current(cur) /\ Tls \in {"none", "applied"}
  BY <1>1, AtWork DEF Busy
<1>3. /\ available \in [Sites -> Confs \cup {NoConf}] /\ row \in Rows \cup {NoRow}
      /\ link \in [Sites -> {"none", "stale", "file", "ours"}]
  BY DEF IInv, TypeOK
<1>4. Order /\ Phase
  BY DEF IInv
<1>5. ASSUME pc' \in InLeg, row' = row, Waits => Begun,
             pc' # "start", pc' = "reload" => Reloading
      PROVE  Busy' /\ pc' \in Pcs /\ Order' /\ Phase' /\ row' \in Rows \cup {NoRow}
  BY <1>1, <1>3, <1>5 DEF Busy, Order, Phase, Begun, Facts, Posting, InLeg, Pcs, Reloading
<1>6. CASE Refuse \/ WriteFails \/ LinkFails \/ TestFails
  <2>1. Fail /\ UNCHANGED <<available, link, live>>
    BY <1>6 DEF Refuse, WriteFails, LinkFails, TestFails, files
  <2> QED
    BY <1>1, <1>3, <2>1, FailIsGood, ReloadIsLive, LegKeeps DEF Facts, Pcs
<1>7. CASE Begin
  <2>1. /\ pc = "start" /\ UNCHANGED <<available, link, live>>
        /\ Waits => ledger[cur.site] = cur.state
    BY <1>4, <1>7 DEF Begin, Working, files, Phase
  <2>2. CASE cur.state = "requested"
    <3>1. Report(cur.site, "applying", Tls, "write")
      BY <1>7, <2>2 DEF Begin
    <3>2. GoodRow' /\ pc' = "post" /\ Busy' /\ row' \in Rows /\ row'.state = "applying"
      BY <1>1, <1>2, <3>1, ReportIsGood DEF Onward, Facts
    <3>3. Order' /\ Phase' /\ Made'
      BY <1>1, <2>1, <2>2, <3>2
         DEF Order, Phase, Made, Posting, InLeg, Done, Facts, Reloading
    <3> QED
      BY <1>1, <1>3, <2>1, <3>2, <3>3, ReloadIsLive, LegKeeps DEF Pcs
  <2>3. CASE cur.state # "requested"
    <3>1. pc' = "write" /\ row' = row
      BY <1>7, <2>3 DEF Begin, Step
    <3>2. Waits => Begun
      BY <1>2, <2>1, <2>3 DEF Open, Reloading, Begun
    <3>3. Made'
      BY <3>1 DEF Made, Posting
    <3> QED
      BY <1>1, <1>3, <1>5, <2>1, <3>1, <3>2, <3>3, ReloadIsLive, LegKeeps DEF InLeg
  <2> QED
    BY <2>2, <2>3
<1>8. CASE Write
  <2>1. /\ pc = "write" /\ pc' = "link" /\ row' = row /\ UNCHANGED <<link, live>>
        /\ available' = [available EXCEPT ![cur.site] = cur.conf]
    BY <1>8 DEF Write, Working, Step
  <2>2. /\ available' \in [Sites -> Confs \cup {NoConf}]
        /\ available'[cur.site] = cur.conf
        /\ \A s \in Sites : s # cur.site => available'[s] = available[s]
    BY <1>2, <1>3, <2>1
  <2>3. Made'
    BY <1>1, <2>1, <2>2 DEF Made, Posting, Facts
  <2>4. Waits => Begun
    BY <1>4, <2>1 DEF Phase, InLeg
  <2> QED
    BY <1>1, <1>3, <1>5, <2>1, <2>2, <2>3, <2>4, ReloadIsLive, LegKeeps DEF InLeg
<1>9. CASE EnsureSymlink \/ Symlink
  <2>1. /\ pc \in {"link", "relink"} /\ UNCHANGED <<available, live>>
        /\ available[cur.site] = cur.conf
        /\ Waits => Begun
    BY <1>4, <1>9 DEF EnsureSymlink, Symlink, Working, Phase, InLeg, IInv, Made
  <2>2. CASE Fail /\ link' = link
    BY <1>1, <1>3, <2>1, <2>2, FailIsGood, ReloadIsLive, LegKeeps DEF Facts, Pcs
  <2>3. CASE ~(Fail /\ link' = link)
    <3>1. /\ pc' \in {"relink", "test"} /\ row' = row
          /\ \/ link' = link /\ pc' = "relink"
             \/ link' = link /\ link[cur.site] = "ours"
             \/ link' = [link EXCEPT ![cur.site] = "none"] /\ pc' = "relink"
             \/ link' = [link EXCEPT ![cur.site] = "ours"]
      <4>1. CASE EnsureSymlink
        BY <1>2, <1>3, <2>3, <4>1 DEF EnsureSymlink, Step
      <4>2. CASE Symlink
        BY <4>2 DEF Symlink, Step
      <4> QED
        BY <1>9, <4>1, <4>2
    <3>2. /\ link' \in [Sites -> {"none", "stale", "file", "ours"}]
          /\ \A s \in Sites : s # cur.site => link'[s] = link[s]
          /\ pc' = "test" => link'[cur.site] = "ours"
      BY <1>2, <1>3, <3>1
    <3>3. Made'
      BY <1>1, <2>1, <3>1, <3>2 DEF Made, Posting, Facts
    <3> QED
      BY <1>1, <1>3, <1>5, <2>1, <3>1, <3>2, <3>3, ReloadIsLive, LegKeeps DEF InLeg
  <2> QED
    BY <2>2, <2>3
<1>10. CASE Test
  <2>1. /\ pc = "test" /\ ConfigIsValid /\ UNCHANGED <<available, link, live>>
        /\ available[cur.site] = cur.conf /\ link[cur.site] = "ours"
        /\ Waits => Begun
    BY <1>4, <1>10 DEF Test, Working, files, Phase, InLeg, IInv, Made
  <2>2. CASE Reloading
    <3>1. pc' = "reload" /\ row' = row
      BY <1>10, <2>2 DEF Test, Step
    <3>2. Made'
      BY <1>1, <2>1, <3>1 DEF Made, Posting, Facts
    <3> QED
      BY <1>1, <1>3, <1>5, <2>1, <2>2, <3>1, <3>2, ReloadIsLive, LegKeeps DEF InLeg
  <2>3. CASE ~Reloading
    <3>1. Report(cur.site, "applied", Tls, "next")
      BY <1>10, <2>3 DEF Test
    <3>2. GoodRow' /\ pc' = "post" /\ Busy' /\ row' \in Rows /\ row'.state = "applied"
      BY <1>1, <1>2, <3>1, ReportIsGood DEF Onward, Facts
    <3>3. Enabled(cur.site) = cur.conf /\ cur.conf.version \notin BadVersions
      BY <1>2, <2>1 DEF ConfigIsValid, Enabled
    <3>4. Made'
      BY <1>1, <2>1, <3>2, <3>3 DEF Made, Posting, Facts, Enabled
    <3>5. Order' /\ Phase'
      BY <1>1, <2>1, <2>3, <3>2 DEF Order, Phase, Begun, Posting, InLeg, Facts
    <3> QED
      BY <1>1, <1>3, <2>1, <3>2, <3>4, <3>5, ReloadIsLive, LegKeeps DEF Pcs
  <2> QED
    BY <2>2, <2>3
<1>11. CASE ReloadFails
  <2>1. /\ Fail /\ UNCHANGED <<available, link>>
        /\ live' = live \/ live' = [s \in Sites |-> Enabled(s)]
    BY <1>11 DEF ReloadFails, files
  <2> QED
    BY <1>1, <1>3, <2>1, FailIsGood, ReloadIsLive, LegKeeps DEF Facts, Pcs
<1>12. CASE Reload
  <2>1. /\ pc = "reload" /\ ConfigIsValid /\ UNCHANGED <<available, link>>
        /\ live' = [s \in Sites |-> Enabled(s)]
        /\ available[cur.site] = cur.conf /\ link[cur.site] = "ours"
        /\ Waits => Begun
        /\ Reloading /\ Report(cur.site, "reload_applied", TlsAfterReload, "next")
    BY <1>4, <1>12 DEF Reload, Working, files, Order, Phase, InLeg, IInv, Made
  <2>2. TlsAfterReload \in {"none", "applied"}
    BY <1>2 DEF TlsAfterReload
  <2>3. GoodRow' /\ pc' = "post" /\ Busy' /\ row' \in Rows /\ row'.state = "reload_applied"
    BY <1>1, <2>1, <2>2, ReportIsGood DEF Onward, Facts
  <2>4. Enabled(cur.site) = cur.conf /\ cur.conf.version \notin BadVersions
    BY <1>2, <2>1 DEF ConfigIsValid, Enabled
  <2>5. Made'
    BY <1>1, <1>2, <2>1, <2>3, <2>4 DEF Made, Posting, Facts, Enabled
  <2>6. Order' /\ Phase'
    BY <1>1, <2>1, <2>3 DEF Order, Phase, Begun, Posting, InLeg, Facts
  <2> QED
    BY <1>1, <1>3, <2>1, <2>3, <2>5, <2>6, ReloadIsLive, LegKeeps DEF Pcs
<1> QED
  BY <1>6, <1>7, <1>8, <1>9, <1>10, <1>11, <1>12 DEF Leg

-----------------------------------------------------------------------------
(* Receipts.                                                                *)

\* The ledger of other sites stays, the row's own takes the row's state or stays.
LEMMA DeliverKeeps ==
    ASSUME IInv, pc = "post", Deliver
    PROVE  /\ ledger' \in [Sites -> Ledgers] /\ tlsLedger' \in [Sites -> TlsStates]
           /\ \A s \in Sites : s # row.site => ledger'[s] = ledger[s]
           /\ row.state = "repository" => ledger' = ledger
           /\ ledger'[row.site] \in {ledger[row.site], row.state}
           /\ <<ledger[row.site], row.state>> \in Edges => ledger'[row.site] = row.state
           /\ ledger'[row.site] # ledger[row.site] => <<ledger[row.site], row.state>> \in Edges
           /\ ledger'[row.site] = "none" => ledger[row.site] = "none"
           /\ UNCHANGED <<want, requests>>
<1>1. row \in Rows /\ row.site \in Sites /\ <<row.state, row.then>> \in Onward
  BY DEF IInv, Order, GoodRow, Rows
<1>2. row.state \in {"applying", "applied", "reload_applied", "failed", "repository"}
  BY <1>1 DEF Onward
<1>3. ledger \in [Sites -> Ledgers] /\ tlsLedger \in [Sites -> TlsStates]
  BY DEF IInv, TypeOK
<1>4. tlsLedger' \in [Sites -> TlsStates] /\ UNCHANGED <<want, requests>>
  BY <1>1, <1>3 DEF Deliver, TlsStates
<1>5. CASE <<ledger[row.site], row.state>> \notin Edges
  BY <1>3, <1>4, <1>5 DEF Deliver
<1>6. CASE <<ledger[row.site], row.state>> \in Edges
  <2>1. row.state # "repository"
    BY <1>6 DEF Edges
  <2>2. ledger' = [ledger EXCEPT ![row.site] = row.state]
    BY <1>6 DEF Deliver
  <2> QED
    BY <1>1, <1>2, <1>3, <1>4, <1>6, <2>1, <2>2 DEF Ledgers, Open
<1> QED
  BY <1>5, <1>6

(* After a post the leg goes on with "write", or it is over.                *)
LEMMA PostInv == IInv /\ Post => IInv'
<1> SUFFICES ASSUME IInv, Post PROVE IInv'
  OBVIOUS
<1>1. /\ pc = "post" /\ GoodRow /\ row.site \in Sites /\ row.tls \in {"none", "applied"}
      /\ UNCHANGED <<intents, available, link, live>>
  BY DEF Post, PostOk, PostFails, PostAckLost, files, IInv, Order, GoodRow, Rows
<1>2. /\ row.state # "repository" => row.site = cur.site /\ Busy
      /\ row.state = "repository" => ~Busy
  BY <1>1 DEF GoodRow, Busy, InLeg
<1>3. /\ told' \in [Sites -> {"none", "applied"}] /\ echo' \in [Sites -> {"none", "applied"}]
  <2>1. CASE PostOk
    <3>1. told' = [told EXCEPT ![row.site] = row.tls] /\ echo' \in {told', echo}
      BY <2>1 DEF PostOk
    <3> QED
      BY <1>1, <3>1 DEF IInv, TypeOK
  <2>2. CASE PostFails \/ PostAckLost
    BY <2>2 DEF PostFails, PostAckLost, IInv, TypeOK
  <2> QED
    BY <2>1, <2>2 DEF Post
<1>4. /\ row' = NoRow
      /\ \/ pc' \in {"next", "repo"} /\ cur' = NoIntent
         \/ /\ pc' = "write" /\ cur' = cur /\ row.then = "write"
            /\ Deliver
  <2>1. CASE PostOk
    <3>1. row.then \in {"write", "next", "repo"} /\ Deliver /\ GoOn(row.then)
      BY <1>1, <2>1 DEF PostOk, GoodRow, Rows
    <3> QED
      BY <3>1 DEF GoOn, Rest
  <2>2. CASE PostFails \/ PostAckLost
    BY <2>2 DEF PostFails, PostAckLost, Rest
  <2> QED
    BY <2>1, <2>2 DEF Post
<1>5. /\ ledger' \in [Sites -> Ledgers] /\ tlsLedger' \in [Sites -> TlsStates]
      /\ \A s \in Sites : s # row.site => ledger'[s] = ledger[s]
      /\ row.state = "repository" => ledger' = ledger
      /\ ledger'[row.site] \in {ledger[row.site], row.state}
      /\ ledger'[row.site] # ledger[row.site] => <<ledger[row.site], row.state>> \in Edges
      /\ ledger'[row.site] = "none" => ledger[row.site] = "none"
      /\ UNCHANGED <<want, requests>>
  <2>1. CASE PostFails
    BY <2>1 DEF PostFails, central, IInv, TypeOK
  <2>2. CASE PostOk \/ PostAckLost
    <3>1. Deliver
      BY <2>2 DEF PostOk, PostAckLost
    <3> QED
      BY <1>1, <3>1, DeliverKeeps
  <2> QED
    BY <2>1, <2>2 DEF Post
<1>6. \A i \in intents : i.site \in Sites /\ ledger'[i.site] = ledger[i.site]
  <2>1. \A i \in intents : i.site \in Sites /\ i.site # cur.site
    BY DEF IInv, TypeOK, Pending, Intents
  <2> QED
    BY <1>2, <1>5, <2>1
<1>7. TypeOK'
  <2>1. cur' \in Intents \cup {NoIntent} /\ pc' \in Pcs
    BY <1>4 DEF IInv, TypeOK, Pcs
  <2> QED
    BY <1>1, <1>3, <1>4, <1>5, <2>1 DEF IInv, TypeOK, Pcs
<1>8. Named'
  <2>1. \A s \in Sites : ledger'[s] # "none" => ledger[s] # "none"
    BY <1>1, <1>2, <1>5, AtWork
  <2> QED
    BY <1>5, <2>1 DEF IInv, Named
<1>9. Settled' /\ ReloadReceiptIsLive'
  <2>1. ASSUME NEW s \in Sites
        PROVE  /\ ledger'[s] = "none" => link[s] # "ours"
               /\ ledger'[s] \in Done => Enabled(s).version \notin BadVersions
               /\ ledger'[s] = "reload_applied" \/ (Waits /\ ledger'[s] = "applied") =>
                      Enabled(s) = want[s]
               /\ ledger'[s] = "reload_applied" => live[s] = want[s]
    <3>1. CASE ledger'[s] = ledger[s]
      BY <3>1 DEF IInv, Settled, ReloadReceiptIsLive
    <3>2. CASE ledger'[s] # ledger[s]
      <4>1. s = row.site /\ row.state # "repository" /\ ledger'[s] = row.state
        BY <1>5, <3>2
      <4>2. s = cur.site /\ Current(cur) /\ <<ledger[s], row.state>> \in Edges
        BY <1>2, <1>5, <3>2, <4>1, AtWork
      <4>3. row.state = "reload_applied" \/ Waits => cur.conf = want[s]
        BY <4>2 DEF Current, Edges, Open
      <4>4. row.state # "none"
        BY <1>1 DEF GoodRow, Onward
      <4>5. row.state \in Done => /\ Enabled(s) = cur.conf
                                  /\ cur.conf.version \notin BadVersions
        BY <1>1, <4>2 DEF IInv, Made, Posting
      <4>6. row.state = "reload_applied" => live[s] = cur.conf
        BY <1>1, <4>2 DEF IInv, Made, Posting
      <4> QED
        BY <4>1, <4>2, <4>3, <4>4, <4>5, <4>6 DEF Done
    <3> QED
      BY <3>1, <3>2
  <2> QED
    BY <1>1, <1>5, <2>1 DEF Settled, ReloadReceiptIsLive, Enabled
<1>10. Made' /\ Order'
  BY <1>4 DEF Made, Order, Posting
<1>11. Pending'
  <2>1. CASE pc' \in {"next", "repo"} /\ cur' = NoIntent
    <3>1. \A i \in intents : i.site # NoSite
      BY <1>6, NginxNames
    <3> QED
      BY <1>1, <1>5, <1>6, <2>1, <3>1, NoIntentIsNone
         DEF IInv, Pending, Current, Busy, InLeg
  <2>2. CASE pc' = "write" /\ cur' = cur /\ row.then = "write" /\ Deliver
    <3>1. row.state = "applying" /\ row.site = cur.site /\ Busy
      BY <1>1, <1>2, <2>2 DEF GoodRow, Onward
    <3>2. ledger'[cur.site] \in {ledger[cur.site], "applying"}
      BY <1>5, <3>1
    <3>3. cur \in Intents /\ ledger'[cur.site] \in Open /\ Current(cur)'
      BY <1>5, <2>2, <3>1, <3>2, AtWork DEF Current, Open
    <3> QED
      BY <1>1, <1>5, <1>6, <2>2, <3>1, <3>3 DEF IInv, Pending, Current, Busy, InLeg
  <2> QED
    BY <1>4, <2>1, <2>2
<1>12. Phase'
  <2>1. CASE pc' \in {"next", "repo"}
    BY <2>1 DEF Phase, Posting, InLeg
  <2>2. CASE pc' = "write" /\ cur' = cur /\ row.then = "write" /\ Deliver
    <3>1. row.state = "applying"
      BY <1>1, <2>2 DEF GoodRow, Onward
    <3>2. ~Reloading /\ (Waits => ledger[cur.site] = "requested")
      BY <1>1, <3>1 DEF IInv, Order, Phase, Posting
    <3>3. Waits => ledger'[cur.site] = "applying"
      BY <1>1, <1>2, <2>2, <3>1, <3>2, DeliverKeeps DEF Edges
    <3> QED
      BY <2>2, <3>2, <3>3 DEF Phase, Begun, Posting, InLeg, Reloading
  <2> QED
    BY <1>4, <2>1, <2>2
<1> QED
  BY <1>7, <1>8, <1>9, <1>10, <1>11, <1>12 DEF IInv

-----------------------------------------------------------------------------
LEMMA CrashInv == IInv /\ Crash => IInv'
<1> SUFFICES ASSUME IInv, Crash PROVE IInv'
  OBVIOUS
<1>1. /\ pc' = "down" /\ cur' = NoIntent /\ row' = NoRow /\ intents' = {}
      /\ told' = [s \in Sites |-> "none"]
      /\ UNCHANGED <<echo, available, link, live, ledger, tlsLedger, want, requests>>
  BY DEF Crash, Rest, files, central
<1>2. TypeOK'
  BY <1>1 DEF IInv, TypeOK
<1>3. Named' /\ Settled' /\ ReloadReceiptIsLive'
  BY <1>1 DEF IInv, Named, Settled, ReloadReceiptIsLive, Enabled
<1>4. Pending' /\ Order' /\ Phase' /\ Made'
  BY <1>1 DEF Pending, Order, Phase, Made, Busy, InLeg, Posting
<1> QED
  BY <1>2, <1>3, <1>4 DEF IInv

LEMMA RepositoryInv == ASSUME IInv, NEW s \in Sites, RepositoryReceipt(s) PROVE IInv'
<1>1. /\ pc = "repo" /\ pc' = "post"
      /\ row' = [site |-> s, state |-> "repository", tls |-> told[s], then |-> "repo"]
      /\ UNCHANGED <<cur, intents, told, echo, available, link, live, ledger, tlsLedger,
                      want, requests>>
  BY DEF RepositoryReceipt, Report, files, central
<1>2. row' \in Rows
  BY <1>1 DEF IInv, TypeOK, Rows
<1>3. TypeOK'
  BY <1>1, <1>2 DEF IInv, TypeOK
<1>4. Named' /\ Settled' /\ ReloadReceiptIsLive'
  BY <1>1 DEF IInv, Named, Settled, ReloadReceiptIsLive, Enabled
<1>5. Pending'
  BY <1>1 DEF IInv, Pending, Current, Busy, InLeg
<1>6. Order' /\ Phase' /\ Made'
  BY <1>1, <1>2 DEF Order, Phase, Made, GoodRow, Onward, InLeg, Posting, Done
<1> QED
  BY <1>3, <1>4, <1>5, <1>6 DEF IInv

(* Central asks only for what is not pending, so no leg notices; if it does *)
(* not wait, the site that it asks for again is pending from the start.     *)
LEMMA RequestInv ==
    ASSUME IInv, NEW s \in Sites,
           RequestReload(s) \/ \E c \in Confs : RequestApply(s, c)
    PROVE  IInv'
<1>1. /\ Waits => ledger[s] \notin Open
      /\ requests < MaxRequests /\ requests' = requests + 1
      /\ UNCHANGED <<pc, cur, intents, row, told, echo, available, link, live>>
  BY DEF RequestReload, RequestApply, CanRequest, Waits, files
<1>2. PICK state \in {"requested", "reload_requested"} :
         ledger' = [ledger EXCEPT ![s] = state]
  BY DEF RequestReload, RequestApply
<1>3. /\ ledger' \in [Sites -> Ledgers] /\ ledger'[s] \in {"requested", "reload_requested"}
      /\ \A r \in Sites : r # s => ledger'[r] = ledger[r]
  BY <1>2 DEF IInv, TypeOK, Ledgers, Open
<1>4. /\ want' \in [Sites -> Confs \cup {NoConf}] /\ want'[s] \in Confs
      /\ \A r \in Sites : r # s => want'[r] = want[r]
      /\ tlsLedger' \in [Sites -> TlsStates]
  <2>1. CASE RequestReload(s)
    <3>1. want[s] \in Confs
      BY <2>1 DEF RequestReload, IInv, Named
    <3> QED
      BY <2>1, <3>1 DEF RequestReload, IInv, TypeOK
  <2>2. ASSUME NEW c \in Confs, RequestApply(s, c)
        PROVE  /\ want' = [want EXCEPT ![s] = c]
               /\ tlsLedger' \in [Sites -> TlsStates]
    BY <2>2 DEF RequestApply, IInv, TypeOK, TlsStates
  <2>3. CASE \E c \in Confs : RequestApply(s, c)
    BY <2>2, <2>3 DEF IInv, TypeOK
  <2> QED
    BY <2>1, <2>3
<1>5. requests' \in 0..MaxRequests
  BY <1>1, NginxBound DEF IInv, TypeOK
<1>6. TypeOK'
  BY <1>1, <1>3, <1>4, <1>5 DEF IInv, TypeOK
<1>7. Named'
  BY <1>3, <1>4 DEF IInv, Named
<1>8. ASSUME NEW r \in Sites, ledger[r] \in Open
      PROVE  /\ ledger'[r] \in Open
             /\ Waits \/ ledger'[r] = "reload_requested" =>
                    ledger'[r] = ledger[r] /\ want'[r] = want[r]
  <2>1. CASE r # s
    BY <1>3, <1>4, <1>8, <2>1
  <2>2. CASE r = s
    <3>1. ~Waits /\ ledger[s] # "applied"
      BY <1>1, <1>8, <2>2 DEF Open
    <3>2. ledger' = [ledger EXCEPT ![s] = "requested"]
      BY <3>1 DEF RequestReload, RequestApply
    <3> QED
      BY <2>2, <3>1, <3>2 DEF IInv, TypeOK, Open
  <2> QED
    BY <2>1, <2>2
<1>9. Busy => cur.site \in Sites /\ ledger[cur.site] \in Open
  BY AtWork
<1>10. Pending'
  <2>1. \A i \in intents : i.site \in Sites /\ ledger[i.site] \in Open
    BY DEF IInv, TypeOK, Pending, Intents
  <2> QED
    BY <1>1, <1>8, <1>9, <2>1 DEF IInv, Pending, Current, Busy
<1>11. Order' /\ Phase'
  <2>1. Order'
    BY <1>1 DEF IInv, Order, GoodRow, Posting, Reloading
  <2>2. ASSUME Waits, Busy PROVE ledger'[cur.site] = ledger[cur.site]
    BY <1>8, <1>9, <2>2
  <2>3. Phase'
    BY <1>1, <2>2 DEF IInv, Phase, Begun, Posting, Busy, Reloading, InLeg
  <2> QED
    BY <2>1, <2>3
<1>12. Made'
  BY <1>1 DEF IInv, Made, Posting, Enabled
<1>13. Settled' /\ ReloadReceiptIsLive'
  BY <1>1, <1>3, <1>4 DEF IInv, Settled, ReloadReceiptIsLive, Done, Enabled
<1> QED
  BY <1>6, <1>7, <1>10, <1>11, <1>12, <1>13 DEF IInv

LEMMA NextInv == IInv /\ [Next]_vars => IInv'
<1> SUFFICES ASSUME IInv, [Next]_vars PROVE IInv'
  OBVIOUS
<1>1. CASE UNCHANGED vars
  <2>1. UNCHANGED <<pc, cur, intents, row, told, echo, available, link, live, ledger,
                    tlsLedger, want, requests>>
    BY <1>1 DEF vars
  <2>2. TypeOK' /\ Named' /\ Pending'
    BY <2>1 DEF IInv, TypeOK, Named, Pending, Current, Busy
  <2>3. Order' /\ Phase' /\ Made'
    BY <2>1 DEF IInv, Order, Phase, Begun, GoodRow, Made, Posting, Enabled, Reloading
  <2>4. Settled' /\ ReloadReceiptIsLive'
    BY <2>1 DEF IInv, Settled, ReloadReceiptIsLive, Enabled
  <2> QED
    BY <2>2, <2>3, <2>4 DEF IInv
<1>2. CASE Next
  BY <1>2, LoopInv, LegInv, PostInv, CrashInv, RepositoryInv, RequestInv DEF Next
<1> QED
  BY <1>1, <1>2

LEMMA AlwaysInv == Spec => []IInv
  BY InitInv, NextInv, PTL DEF Spec

(* Files, links, the running nginx, receipts and ledgers stay well-typed,   *)
(* with new requests in the middle of a leg too.                            *)
THEOREM TypeCorrect == Spec => []TypeOK
<1>1. IInv => TypeOK
  BY DEF IInv
<1> QED
  BY <1>1, AlwaysInv, PTL

(* Central takes every receipt of a leg, whatever an earlier run was killed *)
(* in the middle of (converge.go:93-98), if Central waits for answers.      *)
THEOREM ReceiptsSafe ==
    ASSUME "rerequest" \notin Faults PROVE Spec => []RuntimeReceiptsFollowLedger
<1>1. IInv => RuntimeReceiptsFollowLedger
  BY InvImplies DEF Waits
<1> QED
  BY <1>1, AlwaysInv, PTL

(* What Central holds as applied or reloaded is enabled on disk, if Central *)
(* waits for answers.                                                       *)
THEOREM EnabledSafe ==
    ASSUME "rerequest" \notin Faults PROVE Spec => []AppliedIsEnabled
<1>1. IInv => AppliedIsEnabled
  BY InvImplies DEF Waits
<1> QED
  BY <1>1, AlwaysInv, PTL

(* An enabled file that nginx rejects is never the file of a site that      *)
(* Central holds as done, for any number of sites.                          *)
THEOREM PoisonSafe == Spec => []PoisonIsVisible
<1>1. IInv => PoisonIsVisible
  BY InvImplies
<1> QED
  BY <1>1, AlwaysInv, PTL

(* After reload_applied nginx goes on serving what Central asked for, while *)
(* other sites are applied, reloaded and interrupted, and whatever Central  *)
(* asks for in the middle of a leg: a reload is asked for after an answer.  *)
THEOREM ReloadSafe == Spec => []ReloadReceiptIsLive
<1>1. IInv => ReloadReceiptIsLive
  BY DEF IInv
<1> QED
  BY <1>1, AlwaysInv, PTL

-----------------------------------------------------------------------------
(* Observations of TLS.                                                     *)

LEMMA InitTls == Init => TlsInv
<1> SUFFICES ASSUME Init PROVE TlsInv
  OBVIOUS
<1>1. TlsKept /\ TlsPending
  BY DEF Init, TlsKept, TlsPending, Observed, NoConf, Busy, InLeg
<1> QED
  BY <1>1, InitInv DEF TlsInv

\* A step that moves no file and tells of nothing new.
LEMMA NothingNew ==
    ASSUME TlsKept, UNCHANGED <<available, link, live, want>>,
           \A s \in Sites : Observed(s)' => Observed(s)
    PROVE  TlsKept'
  BY DEF TlsKept

\* A step that takes up no intent, while what is wanted with TLS stays so.
LEMMA NothingTaken ==
    ASSUME IInv, TlsPending, intents' \subseteq intents, available' = available,
           \A s \in Sites : want[s].tls => want'[s].tls,
           Busy' => Busy /\ cur' = cur
    PROVE  TlsPending'
<1>1. \A i \in intents : i.site \in Sites
  BY DEF IInv, TypeOK, Intents
<1>2. Busy => cur.site \in Sites
  BY AtWork
<1> QED
  BY <1>1, <1>2 DEF TlsPending, TlsBetween

LEMMA ReloadTls ==
    ASSUME TypeOK, TlsKept, UNCHANGED <<available, link, want>>,
           live' = live \/ live' = [s \in Sites |-> Enabled(s)],
           \A s \in Sites : Observed(s)' => Observed(s) \/ live'[s].tls
    PROVE  TlsKept'
<1>1. CASE live' = live
  BY <1>1 DEF TlsKept
<1>2. CASE live' = [s \in Sites |-> Enabled(s)]
  <2>1. ASSUME NEW s \in Sites PROVE live'[s] = Enabled(s)
    BY <1>2
  <2>2. ASSUME NEW s \in Sites, live'[s].tls PROVE available[s].tls /\ link[s] = "ours"
    BY <2>1, <2>2 DEF Enabled, NoConf
  <2>3. ASSUME NEW s \in Sites, Observed(s) PROVE live'[s].tls
    <3>1. available[s].tls /\ link[s] = "ours"
      BY <2>3 DEF TlsKept
    <3> QED
      BY <2>1, <3>1 DEF Enabled
  <2> QED
    BY <2>2, <2>3 DEF TlsKept
<1> QED
  BY <1>1, <1>2

LEMMA LegTls == ASSUME TlsInv, Leg PROVE TlsKept'
<1>1. pc \in InLeg /\ Facts
  BY DEF Leg, Refuse, Begin, WriteFails, Write, EnsureSymlink, Symlink, LinkFails, Test,
         TestFails, Reload, ReloadFails, Working, InLeg, Facts, central
<1>2. /\ IInv /\ TypeOK /\ TlsKept /\ cur.site \in Sites /\ TlsBetween(cur) /\ Busy
  BY <1>1, AtWork DEF TlsInv, IInv, Busy, TlsPending
<1>3. ASSUME NEW state, NEW then, Report(cur.site, state, Tls, then), NEW s \in Sites
      PROVE  Observed(s)' => Observed(s)
  BY <1>1, <1>3 DEF Report, Observed, Tls, Facts
<1>4. ASSUME pc' # "post", NEW s \in Sites PROVE Observed(s)' => Observed(s)
  BY <1>1, <1>4 DEF Observed, Facts
<1>5. CASE Refuse \/ Begin \/ WriteFails \/ LinkFails \/ Test \/ TestFails
  <2>1. UNCHANGED <<available, link, live, want>>
    BY <1>5 DEF Refuse, Begin, WriteFails, LinkFails, Test, TestFails, files, Working,
                central
  <2>2. \/ Report(cur.site, "failed", Tls, "next")
        \/ Report(cur.site, "applying", Tls, "write")
        \/ Report(cur.site, "applied", Tls, "next")
        \/ pc' # "post"
    BY <1>5 DEF Refuse, Begin, WriteFails, LinkFails, Test, TestFails, Fail, Step
  <2> QED
    BY <1>2, <1>3, <1>4, <2>1, <2>2, NothingNew
<1>6. CASE Write
  <2>1. /\ available' = [available EXCEPT ![cur.site] = cur.conf] /\ pc' = "link"
        /\ UNCHANGED <<link, live, want>>
    BY <1>6 DEF Write, Step, Working, central
  <2>2. \A s \in Sites : available'[s] = IF s = cur.site THEN cur.conf ELSE available[s]
    BY <1>2, <2>1 DEF TypeOK
  <2> QED
    BY <1>2, <1>4, <2>1, <2>2 DEF TlsKept, TlsBetween
<1>7. CASE EnsureSymlink \/ Symlink
  <2>1. /\ UNCHANGED <<available, live, want>>
        /\ \A s \in Sites : link[s] = "ours" => link'[s] = "ours"
    <3>1. CASE EnsureSymlink
      <4>1. link' = link \/ (link' = [link EXCEPT ![cur.site] = "none"] /\ link[cur.site] = "stale")
        BY <1>2, <3>1 DEF EnsureSymlink, TypeOK
      <4> QED
        BY <1>2, <3>1, <4>1 DEF EnsureSymlink, Working, central, TypeOK
    <3>2. CASE Symlink
      BY <1>2, <3>2 DEF Symlink, Working, central, TypeOK
    <3> QED
      BY <1>7, <3>1, <3>2
  <2>2. \/ Report(cur.site, "failed", Tls, "next")
        \/ pc' # "post"
    BY <1>2, <1>7 DEF EnsureSymlink, Symlink, Fail, Step, TypeOK
  <2> QED
    BY <1>2, <1>3, <1>4, <2>1, <2>2 DEF TlsKept
<1>8. CASE ReloadFails
  <2>1. /\ UNCHANGED <<available, link, want>>
        /\ live' = live \/ live' = [s \in Sites |-> Enabled(s)]
        /\ Report(cur.site, "failed", Tls, "next")
    BY <1>8 DEF ReloadFails, Fail, files, Working, central
  <2> QED
    BY <1>2, <1>3, <2>1, ReloadTls
<1>9. CASE Reload
  <2>1. /\ UNCHANGED <<available, link, want>> /\ live' = [s \in Sites |-> Enabled(s)]
        /\ Report(cur.site, "reload_applied", TlsAfterReload, "next")
        /\ available[cur.site] = cur.conf /\ link[cur.site] = "ours"
    BY <1>2, <1>9 DEF Reload, files, Working, central, IInv, Made
  <2>2. live'[cur.site] = cur.conf
    BY <1>2, <2>1 DEF Enabled
  <2>3. ASSUME NEW s \in Sites, Observed(s)' PROVE Observed(s) \/ live'[s].tls
    <3>1. CASE cur.conf.tls /\ cur.tls = "issued"
      BY <1>1, <2>1, <2>2, <2>3, <3>1 DEF Observed, Report, Facts
    <3>2. CASE ~(cur.conf.tls /\ cur.tls = "issued")
      <4>1. TlsAfterReload = Tls
        BY <3>2 DEF TlsAfterReload
      <4> QED
        BY <1>3, <2>1, <2>3, <4>1
    <3> QED
      BY <3>1, <3>2
  <2> QED
    BY <1>2, <2>1, <2>3, ReloadTls
<1> QED
  BY <1>5, <1>6, <1>7, <1>8, <1>9 DEF Leg

\* A leg writes the file of its own site, for which no intent is left.
LEMMA LegTlsPending == ASSUME TlsInv, Leg PROVE TlsPending'
<1>1. pc \in InLeg /\ UNCHANGED <<cur, intents, want>>
  BY DEF Leg, Refuse, Begin, WriteFails, Write, EnsureSymlink, Symlink, LinkFails, Test,
         TestFails, Reload, ReloadFails, Working, InLeg, central
<1>2. /\ IInv /\ TlsPending /\ Busy /\ cur.site \in Sites
  BY <1>1, AtWork DEF TlsInv, Busy
<1>3. /\ \A s \in Sites : s # cur.site => available'[s] = available[s]
      /\ available'[cur.site] \in {available[cur.site], cur.conf}
  <2>1. available' \in {available, [available EXCEPT ![cur.site] = cur.conf]}
    BY DEF Leg, Refuse, Begin, WriteFails, Write, EnsureSymlink, Symlink, LinkFails, Test,
           TestFails, Reload, ReloadFails, files
  <2> QED
    BY <1>2, <2>1 DEF IInv, TypeOK
<1>4. \A i \in intents : i.site \in Sites /\ i.site # cur.site
  BY <1>2 DEF IInv, Pending, TypeOK, Intents
<1> QED
  BY <1>1, <1>2, <1>3, <1>4 DEF TlsPending, TlsBetween

LEMMA NextTls ==
    ASSUME ~TlsWithdrawn, TlsInv, [Next]_vars PROVE TlsInv'
<1>1. IInv' /\ IInv /\ TypeOK /\ TlsKept /\ TlsPending
  BY NextInv DEF TlsInv, IInv
<1>2. CASE Leg
  BY <1>1, <1>2, LegTls, LegTlsPending DEF TlsInv
<1>3. CASE Loop
  <2>1. /\ UNCHANGED <<echo, available, link, live, want>> /\ told' \in {told, echo}
        /\ pc' # "post"
    BY <1>3 DEF Loop, Boot, GetPing, TakeIntent, LoopDone, Rest, files, central
  <2>2. \A s \in Sites : Observed(s)' => Observed(s)
    BY <2>1 DEF Observed
  <2>3. ASSUME Boot \/ LoopDone PROVE TlsPending'
    <3>1. pc' \in {"idle", "repo"} /\ intents' = intents
      BY <2>3 DEF Boot, LoopDone, Rest
    <3> QED
      BY <1>1, <2>1, <3>1, NothingTaken DEF Busy, InLeg
  <2>4. ASSUME GetPing PROVE TlsPending'
    <3>1. pc' = "repo" /\ intents' \subseteq {Intent(s) : s \in Sites}
      BY <2>4 DEF GetPing, Rest
    <3>2. \A s \in Sites : TlsBetween(Intent(s))
      BY <1>1 DEF TlsKept, TlsBetween, Intent
    <3> QED
      BY <2>1, <3>1, <3>2 DEF TlsPending, TlsBetween, Busy, InLeg
  <2>5. ASSUME TakeIntent PROVE TlsPending'
    <3>1. cur' \in intents /\ intents' \subseteq intents
      BY <2>5 DEF TakeIntent
    <3> QED
      BY <1>1, <2>1, <3>1 DEF TlsPending, TlsBetween
  <2>6. TlsPending'
    BY <1>3, <2>3, <2>4, <2>5 DEF Loop
  <2> QED
    BY <1>1, <2>1, <2>2, <2>6, NothingNew DEF TlsInv
<1>4. CASE Post
  <2>1. /\ UNCHANGED <<available, link, live, want>> /\ pc = "post" /\ row.site \in Sites
        /\ row.then \in {"write", "next", "repo"}
    BY <1>1, <1>4 DEF Post, PostOk, PostFails, PostAckLost, files, central, Deliver, IInv,
                      Order, GoodRow, Rows
  <2>2. pc' # "post"
    BY <1>4, <2>1 DEF Post, PostOk, PostFails, PostAckLost, GoOn, Rest
  <2>3. /\ told' \in {told, [told EXCEPT ![row.site] = row.tls]}
        /\ echo' \in {echo, told'}
    BY <1>4 DEF Post, PostOk, PostFails, PostAckLost
  <2>4. \A s \in Sites : Observed(s)' => Observed(s)
    BY <1>1, <2>1, <2>2, <2>3 DEF Observed, TypeOK
  <2>5. intents' = intents /\ (pc' \in {"next", "repo"} \/ (row.then = "write" /\ cur' = cur))
    BY <1>4, <2>1 DEF Post, PostOk, PostFails, PostAckLost, GoOn, Rest
  <2>6. Busy' => Busy /\ cur' = cur
    BY <1>1, <2>1, <2>2, <2>5 DEF Busy, InLeg, IInv, Order, GoodRow, Onward
  <2>7. TlsPending'
    BY <1>1, <2>1, <2>5, <2>6, NothingTaken
  <2> QED
    BY <1>1, <2>1, <2>4, <2>7, NothingNew DEF TlsInv
<1>5. CASE Crash
  <2>1. /\ UNCHANGED <<echo, available, link, live, want>> /\ pc' = "down"
        /\ told' = [s \in Sites |-> "none"] /\ intents' = {}
    BY <1>5 DEF Crash, Rest, files, central
  <2>2. \A s \in Sites : Observed(s)' => Observed(s)
    BY <2>1 DEF Observed
  <2>3. TlsPending'
    BY <2>1 DEF TlsPending, Busy, InLeg
  <2> QED
    BY <1>1, <2>1, <2>2, <2>3, NothingNew DEF TlsInv
<1>6. ASSUME NEW s \in Sites, RepositoryReceipt(s) PROVE TlsInv'
  <2>1. /\ UNCHANGED <<intents, told, echo, available, link, live, want>>
        /\ row' = [site |-> s, state |-> "repository", tls |-> told[s], then |-> "repo"]
    BY <1>6 DEF RepositoryReceipt, Report, files, central
  <2>2. \A r \in Sites : Observed(r)' => Observed(r)
    BY <2>1 DEF Observed
  <2>3. pc' = "post" /\ ~Busy'
    BY <1>6, <2>1 DEF RepositoryReceipt, Report, Busy, InLeg
  <2>4. TlsPending'
    BY <1>1, <2>1, <2>3, NothingTaken
  <2> QED
    BY <1>1, <2>1, <2>2, <2>4, NothingNew DEF TlsInv
<1>7. ASSUME NEW s \in Sites,
             RequestReload(s) \/ \E c \in Confs : RequestApply(s, c)
      PROVE  TlsInv'
  <2>1. UNCHANGED <<pc, cur, intents, row, told, echo, available, link, live>>
    BY <1>7 DEF RequestReload, RequestApply, files
  <2>2. \A r \in Sites : want[r].tls => want'[r].tls
    <3>1. ASSUME NEW c \in Confs, RequestApply(s, c)
          PROVE  \A r \in Sites : want[r].tls => want'[r].tls
      <4>1. want' = [want EXCEPT ![s] = c] /\ (want[s].tls => c.tls)
        BY <3>1 DEF RequestApply
      <4> QED
        BY <1>1, <4>1 DEF TypeOK
    <3> QED
      BY <1>7, <3>1 DEF RequestReload
  <2>3. \A r \in Sites : Observed(r)' => Observed(r)
    BY <2>1 DEF Observed
  <2>4. TlsPending'
    BY <1>1, <2>1, <2>2, NothingTaken DEF Busy
  <2> QED
    BY <1>1, <2>1, <2>2, <2>3, <2>4 DEF TlsInv, TlsKept
<1>8. CASE UNCHANGED vars
  <2>1. \A r \in Sites : Observed(r)' => Observed(r)
    BY <1>8 DEF vars, Observed
  <2>2. TlsPending'
    BY <1>1, <1>8, NothingTaken DEF vars, Busy
  <2> QED
    BY <1>1, <1>8, <2>1, <2>2, NothingNew DEF vars, TlsInv
<1> QED
  BY <1>2, <1>3, <1>4, <1>5, <1>6, <1>7, <1>8 DEF Next

(* A row says that TLS is applied only while the running nginx serves the   *)
(* site with TLS, whatever became of the echo and whatever Central asks for *)
(* meanwhile, if it never switches TLS off (main.go:311-324, tlsintent.go). *)
THEOREM TlsSafe ==
    ASSUME ~TlsWithdrawn PROVE Spec => []TlsObservationIsLive
<1>1. TlsInv /\ [Next]_vars => TlsInv'
  BY NextTls
<1>2. TlsInv => TlsObservationIsLive
  <2> SUFFICES ASSUME TlsInv, pc = "post", row.tls = "applied" PROVE live[row.site].tls
    BY DEF TlsObservationIsLive
  <2>1. row.site \in Sites
    BY DEF TlsInv, IInv, Order, GoodRow, Rows
  <2> QED
    BY <2>1 DEF TlsInv, TlsKept, Observed
<1> QED
  BY <1>1, <1>2, InitTls, PTL DEF Spec

-----------------------------------------------------------------------------
(* The steps as RuntimeRequests sees them.                                  *)

Seen == /\ UNCHANGED <<want, live>>
        /\ \A s \in Sites : Status(s)' = Status(s) /\ Enabled(s)' = Enabled(s)

\* A step that changes nothing of that is a stutter.
LEMMA StutterMaps == Seen => UNCHANGED Service!runtimeVars
  BY DEF Seen, Service!runtimeVars

LEMMA StatusOfLedger ==
    ASSUME NEW s \in Sites
    PROVE  /\ ledger[s] \in {"requested", "applying"} => Status(s) = "pending"
           /\ ledger[s] = "reload_requested" => Status(s) = "reloading"
           /\ ledger[s] = "reload_applied" => Status(s) = "reloaded"
           /\ ledger[s] \in {"none", "applied", "failed"} => Status(s) = ledger[s]
           /\ ledger[s] \in Open => Status(s) \in Service!Waiting
           /\ ledger[s] \in Ledgers \ Open => Status(s) \notin Service!Waiting
  BY DEF Status, Open, Ledgers, Service!Waiting

LEMMA InitMaps == Init => Service!Init
<1> SUFFICES ASSUME Init PROVE Service!Init
  OBVIOUS
<1>1. \A s \in Sites : Status(s) = "none" /\ Enabled(s) = NoConf
  BY DEF Init, Status, Enabled
<1> QED
  BY <1>1 DEF Init, Service!Init

(* Writing a file that is linked, or linking the one that was written.      *)
LEMMA EnableMaps ==
    ASSUME NEW s \in Sites, ledger[s] \in Open, UNCHANGED <<ledger, want, live>>,
           Enabled(s)' = want[s], \A r \in Sites : r # s => Enabled(r)' = Enabled(r)
    PROVE  Service!Next
<1>1. Status(s) \in Service!Waiting
  BY StatusOfLedger
<1>2. \A r \in Sites : Status(r)' = Status(r)
  BY DEF Status
<1>3. Service!Enable(s)
  BY <1>1, <1>2 DEF Service!Enable
<1> QED
  BY <1>3 DEF Service!Next, Service!Enable

LEMMA ReloadMaps ==
    ASSUME NEW s \in Sites, ledger[s] = "reload_requested", ConfigIsValid,
           UNCHANGED <<ledger, want, available, link>>,
           live' = [r \in Sites |-> Enabled(r)]
    PROVE  Service!Next
<1>1. Status(s) = "reloading"
  BY StatusOfLedger
<1>2. \A r \in Sites : Status(r)' = Status(r) /\ Enabled(r)' = Enabled(r)
  BY DEF Status, Enabled
<1>3. \A r \in Sites : Enabled(r) \notin {c \in Confs : c.version \in BadVersions}
  BY DEF ConfigIsValid
<1>4. Service!Reload
  BY <1>1, <1>2, <1>3 DEF Service!Reload
<1> QED
  BY <1>4 DEF Service!Next, Service!Reload

LEMMA LegMaps ==
    ASSUME Waits, IInv, Leg PROVE [Service!Next]_(Service!runtimeVars)
<1>1. /\ pc \in InLeg /\ Facts /\ Busy /\ cur.site \in Sites /\ ledger[cur.site] \in Open
      /\ cur.conf = want[cur.site]
  BY AtWork
     DEF Leg, Refuse, Begin, WriteFails, Write, EnsureSymlink, Symlink, LinkFails, Test,
         TestFails, Reload, ReloadFails, Working, InLeg, Facts, central, Busy, Current
<1>2. /\ available \in [Sites -> Confs \cup {NoConf}]
      /\ link \in [Sites -> {"none", "stale", "file", "ours"}]
  BY DEF IInv, TypeOK
<1>3. ASSUME live' = live, \A s \in Sites : Enabled(s)' = Enabled(s)
      PROVE  UNCHANGED Service!runtimeVars
  BY <1>1, <1>3, StutterMaps DEF Seen, Status, Facts
<1>4. CASE Refuse \/ Begin \/ WriteFails \/ LinkFails \/ Test \/ TestFails
  <2>1. UNCHANGED <<available, link, live>>
    BY <1>4 DEF Refuse, Begin, WriteFails, LinkFails, Test, TestFails, files
  <2> QED
    BY <1>3, <2>1 DEF Enabled
<1>5. CASE Write
  <2>1. /\ available' = [available EXCEPT ![cur.site] = cur.conf] /\ UNCHANGED <<link, live>>
    BY <1>5 DEF Write
  <2>2. \A s \in Sites : s # cur.site => Enabled(s)' = Enabled(s)
    BY <1>1, <1>2, <2>1 DEF Enabled
  <2>3. CASE link[cur.site] = "ours"
    <3>1. Enabled(cur.site)' = want[cur.site]
      BY <1>1, <1>2, <2>1, <2>3 DEF Enabled, Facts
    <3> QED
      BY <1>1, <2>1, <2>2, <3>1, EnableMaps DEF Facts
  <2>4. CASE link[cur.site] # "ours"
    <3>1. \A s \in Sites : Enabled(s)' = Enabled(s)
      BY <2>1, <2>2, <2>4 DEF Enabled
    <3> QED
      BY <1>3, <2>1, <3>1
  <2> QED
    BY <2>3, <2>4
<1>6. CASE EnsureSymlink
  <2>1. /\ UNCHANGED <<available, live>>
        /\ \/ link' = link
           \/ link[cur.site] = "stale" /\ link' = [link EXCEPT ![cur.site] = "none"]
    BY <1>1, <1>2, <1>6 DEF EnsureSymlink
  <2>2. \A s \in Sites : Enabled(s)' = Enabled(s)
    BY <1>1, <1>2, <2>1 DEF Enabled
  <2> QED
    BY <1>3, <2>1, <2>2
<1>7. CASE Symlink
  <2>1. /\ link' = [link EXCEPT ![cur.site] = "ours"] /\ UNCHANGED <<available, live>>
        /\ available[cur.site] = cur.conf
    BY <1>7 DEF Symlink, Working, IInv, Made
  <2>2. /\ Enabled(cur.site)' = want[cur.site]
        /\ \A s \in Sites : s # cur.site => Enabled(s)' = Enabled(s)
    BY <1>1, <1>2, <2>1 DEF Enabled, Facts
  <2> QED
    BY <1>1, <2>1, <2>2, EnableMaps DEF Facts
<1>8. CASE Reload \/ ReloadFails
  <2>1. /\ UNCHANGED <<available, link>> /\ pc = "reload"
        /\ live' = live \/ (ConfigIsValid /\ live' = [s \in Sites |-> Enabled(s)])
    BY <1>8 DEF Reload, ReloadFails, Working, files
  <2>2. ledger[cur.site] = "reload_requested"
    BY <2>1 DEF IInv, Order, Phase, Begun, InLeg
  <2>3. CASE live' = live
    BY <1>3, <2>1, <2>3 DEF Enabled
  <2>4. CASE ConfigIsValid /\ live' = [s \in Sites |-> Enabled(s)]
    BY <1>1, <2>1, <2>2, <2>4, ReloadMaps DEF Facts
  <2> QED
    BY <2>1, <2>3, <2>4
<1> QED
  BY <1>4, <1>5, <1>6, <1>7, <1>8 DEF Leg

(* A receipt is seen when it answers, and is true then.                     *)
LEMMA PostMaps ==
    ASSUME Waits, IInv, Post PROVE [Service!Next]_(Service!runtimeVars)
<1>1. /\ pc = "post" /\ GoodRow /\ row.site \in Sites /\ UNCHANGED <<available, link, live>>
  BY DEF Post, PostOk, PostFails, PostAckLost, files, IInv, Order, GoodRow, Rows
<1> PICK s \in Sites : s = row.site
  BY <1>1
<1>2. want' = want /\ (ledger' = ledger \/ Deliver)
  BY DEF Post, PostOk, PostFails, PostAckLost, Deliver, central
<1>3. \A r \in Sites : Enabled(r)' = Enabled(r)
  BY <1>1 DEF Enabled
<1>4. CASE ledger' = ledger
  BY <1>1, <1>2, <1>3, <1>4, StutterMaps DEF Seen, Status
<1>5. CASE ledger' # ledger
  <2>1. /\ Deliver /\ row.state # "repository" /\ ledger'[s] = row.state
        /\ \A r \in Sites : r # s => ledger'[r] = ledger[r]
    <3>1. Deliver /\ ledger'[s] # ledger[s]
      BY <1>1, <1>2, <1>5, DeliverKeeps DEF IInv, TypeOK
    <3> QED
      BY <1>1, <3>1, DeliverKeeps DEF Edges
  <2>2. \A r \in Sites : r # s => Status(r)' = Status(r)
    BY <2>1 DEF Status
  <2>3. /\ Busy /\ s = cur.site /\ ledger[s] \in Open /\ cur.conf = want[s]
    BY <1>1, <2>1, AtWork DEF Busy, GoodRow, Current
  <2>4. row.state \in {"applying", "applied", "reload_applied", "failed"}
    BY <1>1, <2>1 DEF GoodRow, Onward
  <2>5. Status(s) \in Service!Waiting
    BY <1>1, <2>3, StatusOfLedger
  <2>6. CASE row.state = "applying"
    <3>1. ledger[s] = "requested"
      BY <1>1, <2>3, <2>6 DEF IInv, Phase, Posting
    <3>2. Status(s)' = Status(s)
      BY <2>1, <2>6, <3>1 DEF Status
    <3> QED
      BY <1>1, <1>2, <1>3, <2>2, <3>2, StutterMaps DEF Seen
  <2>7. CASE row.state # "applying"
    <3> DEFINE answer == IF row.state = "reload_applied" THEN "reloaded" ELSE row.state
    <3>1. answer \in {"applied", "reloaded", "failed"} /\ Status(s)' = answer
      BY <2>1, <2>4, <2>7 DEF Status
    <3>2. answer = "applied" => Status(s) = "pending"
      BY <1>1, <2>3, <2>4 DEF IInv, Phase, Posting, Status
    <3>3. answer = "reloaded" => Status(s) = "reloading" /\ live[s] = want[s]
      BY <1>1, <2>3, <2>4 DEF IInv, Phase, Made, Posting, Status
    <3>4. answer # "failed" => Enabled(s) = want[s] /\ want[s].version \notin BadVersions
      BY <1>1, <2>3, <2>4, <2>7 DEF IInv, Made, Posting, Done
    <3> HIDE DEF answer
    <3>5. Service!Answer(s, answer)
      <4>1. Service!True(s, answer)
        BY <1>1, <3>1, <3>2, <3>3, <3>4 DEF Service!True
      <4> QED
        BY <1>1, <1>2, <1>3, <2>2, <2>5, <3>1, <4>1 DEF Service!Answer
    <3> QED
      BY <1>1, <3>1, <3>5 DEF Service!Next, Service!Answer
  <2> QED
    BY <2>6, <2>7
<1> QED
  BY <1>4, <1>5

LEMMA RequestMaps ==
    ASSUME Waits, IInv, NEW s \in Sites,
           RequestReload(s) \/ \E c \in Confs : RequestApply(s, c)
    PROVE  Service!Next
<1>1. UNCHANGED <<available, link, live>> /\ ledger[s] \notin Open
  BY DEF RequestReload, RequestApply, CanRequest, Waits, files
<1>2. \A r \in Sites : Enabled(r)' = Enabled(r)
  BY <1>1 DEF Enabled
<1>3. CASE RequestReload(s)
  <2>1. /\ ledger[s] = "applied" /\ want' = want
        /\ ledger' = [ledger EXCEPT ![s] = "reload_requested"]
    BY <1>3 DEF RequestReload
  <2>2. /\ Status(s) = "applied" /\ Status(s)' = "reloading"
        /\ \A r \in Sites : r # s => Status(r)' = Status(r)
    BY <2>1 DEF IInv, TypeOK, Status
  <2>3. Service!AskReload(s)
    BY <1>1, <1>2, <2>1, <2>2 DEF Service!AskReload
  <2> QED
    BY <2>3 DEF Service!Next, Service!AskReload
<1>4. ASSUME NEW c \in Confs, RequestApply(s, c) PROVE Service!Next
  <2>1. /\ want' = [want EXCEPT ![s] = c]
        /\ ledger' = [ledger EXCEPT ![s] = "requested"]
    BY <1>4 DEF RequestApply
  <2>2. Status(s) \notin Service!Waiting
    BY <1>1, StatusOfLedger DEF IInv, TypeOK
  <2>3. /\ Status(s)' = "pending"
        /\ \A r \in Sites : r # s => Status(r)' = Status(r)
    BY <2>1 DEF IInv, TypeOK, Status
  <2>4. Service!AskApply(s, c)
    BY <1>1, <1>2, <2>1, <2>2, <2>3 DEF Service!AskApply
  <2> QED
    BY <2>4 DEF Service!Next, Service!AskApply
<1> QED
  BY <1>3, <1>4

LEMMA NextMaps ==
    ASSUME Waits, IInv, [Next]_vars PROVE [Service!Next]_(Service!runtimeVars)
<1>1. ASSUME UNCHANGED <<available, link, live, ledger, want>>
      PROVE  UNCHANGED Service!runtimeVars
  BY <1>1, StutterMaps DEF Seen, Status, Enabled
<1>2. CASE Loop \/ Crash \/ UNCHANGED vars
  BY <1>1, <1>2 DEF Loop, Boot, GetPing, TakeIntent, LoopDone, Crash, files, central, vars
<1>3. ASSUME NEW s \in Sites, RepositoryReceipt(s)
      PROVE  [Service!Next]_(Service!runtimeVars)
  BY <1>1, <1>3 DEF RepositoryReceipt, files, central
<1> QED
  BY <1>2, <1>3, LegMaps, PostMaps, RequestMaps DEF Next

(* Nginx convergence implements the service of RuntimeRequests, for any     *)
(* number of sites that share the one nginx and whatever fails, if Central  *)
(* waits for answers (converge.go).                                         *)
THEOREM ImplementsService ==
    ASSUME "rerequest" \notin Faults PROVE Spec => ImplementsRuntimeRequests
<1>1. IInv /\ [Next]_vars => [Service!Next]_(Service!runtimeVars)
  BY NextMaps DEF Waits
<1> QED
  BY <1>1, AlwaysInv, InitMaps, PTL DEF Spec, ImplementsRuntimeRequests, Service!Spec

(* The service itself: what it answers stays true whatever other sites ask  *)
(* for, and the running nginx serves nothing that it rejects.               *)
THEOREM AnswersStayTrue == Service!Spec => []Service!AnswersHold
<1> DEFINE Holds == want \in [Sites -> Confs \cup {NoConf}] /\ Service!AnswersHold
<1>1. Service!Init => Holds
  <2>1. NoConf \notin {c \in Confs : c.version \in BadVersions}
    BY NginxNames DEF NoConf
  <2> QED
    BY <2>1 DEF Service!Init, Service!AnswersHold
<1>2. Holds /\ [Service!Next]_(Service!runtimeVars) => Holds'
  <2> SUFFICES ASSUME Holds, [Service!Next]_(Service!runtimeVars) PROVE Holds'
    OBVIOUS
  <2> USE DEF Service!AnswersHold
  <2>1. CASE UNCHANGED Service!runtimeVars
    BY <2>1 DEF Service!runtimeVars
  <2>2. CASE Service!Reload
    BY <2>2 DEF Service!Reload
  <2>3. ASSUME NEW s \in Sites, NEW c \in Confs, Service!AskApply(s, c)
        PROVE  Holds'
    BY <2>3 DEF Service!AskApply
  <2>4. ASSUME NEW s \in Sites, Service!AskReload(s) PROVE Holds'
    BY <2>4 DEF Service!AskReload
  <2>5. ASSUME NEW s \in Sites, Service!Enable(s) PROVE Holds'
    BY <2>5 DEF Service!Enable, Service!Waiting
  <2>6. ASSUME NEW s \in Sites, NEW answer \in {"applied", "reloaded", "failed"},
               Service!Answer(s, answer)
        PROVE  Holds'
    BY <2>6 DEF Service!Answer, Service!True
  <2> QED
    BY <2>1, <2>2, <2>3, <2>4, <2>5, <2>6
       DEF Service!Next, Service!Reload, Service!AskApply, Service!AskReload,
           Service!Enable, Service!Answer
<1>3. Holds => Service!AnswersHold
  OBVIOUS
<1> HIDE DEF Holds
<1> QED
  BY <1>1, <1>2, <1>3, PTL DEF Service!Spec

(* So the running nginx never serves settings that it rejects, and serves   *)
(* what Central holds as reloaded, as long as the agent runs.               *)
COROLLARY ServedIsAccepted ==
    ASSUME "rerequest" \notin Faults PROVE Spec => []Service!AnswersHold
  BY ImplementsService, AnswersStayTrue, PTL DEF ImplementsRuntimeRequests
=============================================================================
