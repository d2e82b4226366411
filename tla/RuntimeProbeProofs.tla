-------------------------- MODULE RuntimeProbeProofs --------------------------
(***************************************************************************)
(* Theorems about RuntimeProbe, for every set of configurations and every  *)
(* limit of entries.                                                       *)
(***************************************************************************)
EXTENDS RuntimeProbe, SequenceTheorems, TLAPS

Kinds == {"socket", "tcp", "unit", "pid"}

\* The kinds of check an entry asks for.
Asked(e) == {k \in Kinds : /\ k = "socket" => e.socket # "none"
                           /\ k = "tcp" => e.tcp # "none"
                           /\ k = "unit" => e.argv # "none"
                           /\ k = "pid" => e.pid # "none"}

(* The checks of an entry are those it asks for, and one is a dial if it    *)
(* has an address.                                                          *)
LEMMA ChecksOfEntry ==
    ASSUME NEW e \in Entries
    PROVE  /\ Checks(e) \in Seq(Asked(e))
           /\ e.socket = "good" \/ e.tcp = "good" => Len(Checks(e)) > 0
<1> DEFINE dial == IF e.socket # "none" THEN <<"socket">>
                   ELSE IF e.tcp # "none" THEN <<"tcp">> ELSE <<>>
           unit == IF e.argv # "none" THEN <<"unit">> ELSE <<>>
           pid == IF e.pid # "none" THEN <<"pid">> ELSE <<>>
<1>1. dial \in Seq(Asked(e)) /\ unit \in Seq(Asked(e)) /\ pid \in Seq(Asked(e))
  <2>1. /\ <<>> \in Seq(Asked(e))
        /\ \A k \in Asked(e) : <<k>> \in Seq(Asked(e))
    OBVIOUS
  <2>2. /\ e.socket # "none" => "socket" \in Asked(e)
        /\ e.tcp # "none" => "tcp" \in Asked(e)
        /\ e.argv # "none" => "unit" \in Asked(e)
        /\ e.pid # "none" => "pid" \in Asked(e)
    BY DEF Asked, Kinds
  <2> QED
    BY <2>1, <2>2
<1>2. e.socket = "good" \/ e.tcp = "good" => Len(dial) = 1
  OBVIOUS
<1>3. Checks(e) = (dial \o unit) \o pid
  BY DEF Checks
<1> HIDE DEF dial, unit, pid
<1>4. /\ dial \o unit \in Seq(Asked(e))
      /\ Len(dial \o unit) = Len(dial) + Len(unit)
  BY <1>1, ConcatProperties
<1>5. /\ Checks(e) \in Seq(Asked(e))
      /\ Len(Checks(e)) = Len(dial) + Len(unit) + Len(pid)
  <2> DEFINE first == dial \o unit
  <2>1. first \in Seq(Asked(e)) /\ Len(first) = Len(dial) + Len(unit)
    BY <1>4
  <2>2. Checks(e) = first \o pid
    BY <1>3
  <2> HIDE DEF first
  <2>3. /\ first \o pid \in Seq(Asked(e))
        /\ Len(first \o pid) = Len(first) + Len(pid)
    BY <1>1, <2>1, ConcatProperties
  <2> QED
    BY <2>1, <2>2, <2>3
<1>6. Len(unit) \in Nat /\ Len(pid) \in Nat /\ Len(dial) \in Nat
  BY <1>1
<1>7. ASSUME e.socket = "good" \/ e.tcp = "good" PROVE Len(Checks(e)) > 0
  <2>1. Len(dial) = 1
    BY <1>2, <1>7
  <2> QED
    BY <2>1, <1>5, <1>6
<1> QED
  BY <1>5, <1>7

(* The configuration lets no entry through that runOne refuses.             *)
LEMMA AcceptedIsNotRefused ==
    ASSUME NEW e \in Entries, Accepted(e)
    PROVE  ~Refused(e)
<1>1. e.socket = "good" \/ e.tcp = "good"
  BY DEF Accepted
<1>2. Len(Checks(e)) > 0
  BY <1>1, ChecksOfEntry
<1>3. Checks(e) # <<>>
  BY <1>2
<1> QED
  BY <1>3 DEF Accepted, Refused

(* An accepted entry is well-formed for every check it asks for, except for *)
(* the argv of an executable alone.                                         *)
LEMMA AcceptedIsWellFormed ==
    ASSUME NEW e \in Entries, Accepted(e), NEW c \in Asked(e), ~WellFormed(e, c)
    PROVE  c = "unit" /\ e.argv = "command"
<1>0. /\ e.socket \in Given /\ e.tcp \in Given /\ e.pid \in Given
      /\ e.argv \in {"none", "relative", "command", "full"}
  BY DEF Entries
<1>1. CASE c = "socket"
  BY <1>0, <1>1 DEF Accepted, Asked, WellFormed, Given
<1>2. CASE c = "tcp"
  BY <1>0, <1>2 DEF Accepted, Asked, WellFormed, Given
<1>3. CASE c = "unit"
  BY <1>0, <1>3 DEF Accepted, Asked, WellFormed
<1>4. CASE c = "pid"
  BY <1>0, <1>4 DEF Accepted, Asked, WellFormed, Given
<1> QED
  BY <1>1, <1>2, <1>3, <1>4 DEF Asked, Kinds

LEMMA VerdictOfKind ==
    /\ DOMAIN Verdict = Kinds
    /\ Verdict["socket"] = SocketVerdict /\ Verdict["tcp"] = TcpVerdict
    /\ Verdict["unit"] = UnitVerdict /\ Verdict["pid"] = PidVerdict
  BY DEF Verdict, Kinds

(* Every finding has a verdict.                                             *)
LEMMA VerdictIsState ==
    ASSUME NEW c \in Kinds, NEW f \in DOMAIN Verdict[c]
    PROVE  Verdict[c][f] \in States
<1>1. CASE c = "socket"
  BY <1>1, VerdictOfKind DEF SocketVerdict, States
<1>2. CASE c = "tcp"
  BY <1>2, VerdictOfKind DEF TcpVerdict, States
<1>3. CASE c = "unit"
  BY <1>3, VerdictOfKind DEF UnitVerdict, States
<1>4. CASE c = "pid"
  BY <1>4, VerdictOfKind DEF PidVerdict, States
<1> QED
  BY <1>1, <1>2, <1>3, <1>4 DEF Kinds

LEMMA CutShortIsKnown ==
    ASSUME NEW c \in Kinds
    PROVE  /\ CutShort[c] \subseteq DOMAIN Verdict[c]
           /\ "misconfigured" \in DOMAIN Verdict[c]
           /\ "misconfigured" \notin CutShort[c]
           /\ c # "pid" => "silent" \in DOMAIN Verdict[c]
<1>1. CASE c = "socket"
  BY <1>1, VerdictOfKind DEF SocketVerdict, CutShort
<1>2. CASE c = "tcp"
  BY <1>2, VerdictOfKind DEF TcpVerdict, CutShort
<1>3. CASE c = "unit"
  BY <1>3, VerdictOfKind DEF UnitVerdict, CutShort
<1>4. CASE c = "pid"
  BY <1>4, VerdictOfKind DEF PidVerdict, CutShort
<1> QED
  BY <1>1, <1>2, <1>3, <1>4 DEF Kinds

-----------------------------------------------------------------------------
(* The inductive invariant.                                                 *)

RowSet == [entry : Entries, state : States, found : Seq(Findings), cut : BOOLEAN]
Says(r, i) == Verdict[r.found[i][1]][r.found[i][2]]
Done(r) == r.state # "observed" \/ Len(r.found) = Len(Checks(r.entry))

(* A row, finished or not: its findings are those of its first checks, all  *)
(* but the last succeeded, and the last one says what the row says.         *)
GoodRow(r) ==
    /\ r \in RowSet /\ Accepted(r.entry)
    /\ Len(r.found) <= Len(Checks(r.entry))
    /\ Len(r.found) = 0 => r.state = "observed"
    /\ \A i \in 1..Len(r.found) :
          /\ r.found[i][1] = Checks(r.entry)[i]
          /\ i < Len(r.found) => Says(r, i) = "observed"
          /\ i = Len(r.found) => r.state = Says(r, i)
          /\ r.found[i][2] = "misconfigured" =>
                r.found[i][1] = "unit" /\ r.entry.argv = "command"

SpecsOK == /\ specs \in Configs \cup {<<>>} /\ specs \in Seq(Entries)
           /\ Len(specs) <= MaxProbes
           /\ \A i \in 1..Len(specs) : Accepted(specs[i])

RowsOK == /\ rows \in Seq(RowSet) /\ Len(rows) <= Len(specs)
          /\ \A i \in 1..Len(rows) :
                /\ GoodRow(rows[i]) /\ (rows[i].cut => cancelled)
                /\ i < Len(rows) \/ pc = "post" => Done(rows[i])

PlaceOK == /\ pc \in {"down", "idle", "probe", "waiting", "post"}
           /\ cancelled \in BOOLEAN
           /\ pc \in {"down", "idle"} => rows = <<>>
           /\ pc \in {"probe", "waiting"} => Len(rows) > 0
           /\ pc = "waiting" => /\ ~RowDone /\ NextCheck # "pid"
                                /\ WellFormed(Last.entry, NextCheck)

SnapshotOK == /\ snapshot \in Seq(RowSet) /\ Len(snapshot) <= MaxProbes
              /\ \A i \in 1..Len(snapshot) :
                    GoodRow(snapshot[i]) /\ ~snapshot[i].cut /\ Done(snapshot[i])

IInv == SpecsOK /\ RowsOK /\ PlaceOK /\ SnapshotOK

(* One more finding keeps a row good.                                       *)
LEMMA FindingKeepsRow ==
    ASSUME NEW r, GoodRow(r), ~Done(r), NEW b \in BOOLEAN,
           NEW c, c = Checks(r.entry)[Len(r.found) + 1],
           NEW f, f \in DOMAIN Verdict[c],
           f = "misconfigured" => c = "unit" /\ r.entry.argv = "command"
    PROVE  GoodRow([r EXCEPT !.state = Verdict[c][f], !.cut = b,
                             !.found = Append(@, <<c, f>>)])
<1> DEFINE new == [r EXCEPT !.state = Verdict[c][f], !.cut = b,
                            !.found = Append(@, <<c, f>>)]
<1>1. r \in RowSet /\ r.entry \in Entries /\ r.found \in Seq(Findings)
  BY DEF GoodRow, RowSet
<1>2. Checks(r.entry) \in Seq(Asked(r.entry))
  BY <1>1, ChecksOfEntry
<1>3. Len(r.found) < Len(Checks(r.entry)) /\ Len(r.found) \in Nat
  BY <1>1, <1>2 DEF GoodRow, Done
<1>4. c \in Kinds
  BY <1>2, <1>3 DEF Asked
<1>5. <<c, f>> \in Findings
  BY <1>4, VerdictOfKind DEF Findings
<1>6. Verdict[c][f] \in States
  BY <1>4, VerdictIsState
<1>7. /\ new \in RowSet /\ new.entry = r.entry /\ new.state = Verdict[c][f]
      /\ new.found = Append(r.found, <<c, f>>)
  <2>1. Append(r.found, <<c, f>>) \in Seq(Findings)
    BY <1>1, <1>5
  <2> DEFINE more == Append(r.found, <<c, f>>)
             verdict == Verdict[c][f]
  <2>2. new = [r EXCEPT !.state = verdict, !.cut = b, !.found = more]
    BY <1>1 DEF RowSet
  <2>3. more \in Seq(Findings) /\ verdict \in States
    BY <1>6, <2>1
  <2> HIDE DEF new, more, verdict
  <2>4. /\ new \in RowSet /\ new.entry = r.entry /\ new.state = verdict
        /\ new.found = more
    BY <1>1, <2>2, <2>3 DEF RowSet
  <2> QED
    BY <2>4 DEF more, verdict
<1>8. /\ Len(new.found) = Len(r.found) + 1
      /\ new.found[Len(new.found)] = <<c, f>>
      /\ \A i \in 1..Len(r.found) : new.found[i] = r.found[i]
  BY <1>1, <1>7
<1> HIDE DEF new
<1>9. \A i \in 1..Len(r.found) : Says(r, i) = "observed"
  BY <1>3 DEF GoodRow, Done
<1>10. ASSUME NEW i \in 1..Len(new.found)
       PROVE  /\ new.found[i][1] = Checks(new.entry)[i]
              /\ i < Len(new.found) => Says(new, i) = "observed"
              /\ i = Len(new.found) => new.state = Says(new, i)
              /\ new.found[i][2] = "misconfigured" =>
                    new.found[i][1] = "unit" /\ new.entry.argv = "command"
  <2>1. CASE i = Len(new.found)
    BY <1>3, <1>7, <1>8, <2>1 DEF Says
  <2>2. CASE i # Len(new.found)
    <3>1. i \in 1..Len(r.found) /\ new.found[i] = r.found[i]
      BY <1>3, <1>8, <2>2
    <3>2. Says(new, i) = Says(r, i)
      BY <3>1 DEF Says
    <3> QED
      BY <1>7, <1>9, <2>2, <3>1, <3>2 DEF GoodRow
  <2> QED
    BY <2>1, <2>2
<1>11. Len(new.found) <= Len(Checks(new.entry)) /\ Len(new.found) # 0
  BY <1>2, <1>3, <1>7, <1>8
<1>12. Accepted(new.entry)
  BY <1>7 DEF GoodRow
<1>13. GoodRow(new)
  BY <1>7, <1>10, <1>11, <1>12 DEF GoodRow
<1> QED
  BY <1>13 DEF new

(* A row that has just been started is good.                                *)
LEMMA NewRowIsGood ==
    ASSUME NEW e \in Entries, Accepted(e)
    PROVE  GoodRow(NewRow(e)) /\ ~NewRow(e).cut
<1>1. NewRow(e) = [entry |-> e, state |-> "observed", found |-> <<>>, cut |-> FALSE]
  BY AcceptedIsNotRefused DEF NewRow
<1>2. Checks(e) \in Seq(Asked(e))
  BY ChecksOfEntry
<1>3. <<>> \in Seq(Findings) /\ "observed" \in States /\ FALSE \in BOOLEAN
  BY DEF States
<1>4. NewRow(e) \in RowSet
  BY <1>1, <1>3 DEF RowSet
<1>5. Len(NewRow(e).found) = 0 /\ NewRow(e).state = "observed" /\ NewRow(e).entry = e
  BY <1>1
<1> QED
  BY <1>1, <1>2, <1>4, <1>5 DEF GoodRow

LEMMA InitInvariant == Init => IInv
<1> SUFFICES ASSUME Init PROVE IInv
  OBVIOUS
<1>1. /\ specs = <<>> /\ rows = <<>> /\ snapshot = <<>>
      /\ pc = "down" /\ cancelled = FALSE
  BY DEF Init
<1>2. SpecsOK
  BY <1>1, ProbeConfigs DEF SpecsOK
<1>3. RowsOK
  BY <1>1 DEF RowsOK
<1>4. PlaceOK
  BY <1>1 DEF PlaceOK
<1>5. SnapshotOK
  BY <1>1, ProbeConfigs DEF SnapshotOK
<1> QED
  BY <1>2, <1>3, <1>4, <1>5 DEF IInv

LEMMA BootStep == IInv /\ Boot => IInv'
<1> SUFFICES ASSUME IInv, Boot PROVE IInv'
  OBVIOUS
<1>1. PICK list \in Configs : Loads(list) /\ specs' = list
  BY DEF Boot
<1>2. SpecsOK'
  BY <1>1, ProbeConfigs DEF Loads, SpecsOK
<1>3. rows = <<>> /\ rows' = <<>> /\ pc' = "idle" /\ UNCHANGED <<cancelled, snapshot>>
  BY DEF IInv, PlaceOK, Boot
<1>4. RowsOK' /\ PlaceOK'
  BY <1>2, <1>3 DEF IInv, RowsOK, PlaceOK, SpecsOK
<1>5. SnapshotOK'
  BY <1>3 DEF IInv, SnapshotOK
<1> QED
  BY <1>2, <1>4, <1>5 DEF IInv

LEMMA StartStep == IInv /\ StartProbes => IInv'
<1> SUFFICES ASSUME IInv, StartProbes PROVE IInv'
  OBVIOUS
<1>1. specs \in Seq(Entries) /\ specs # <<>> /\ Accepted(specs[1]) /\ specs[1] \in Entries
      /\ Len(specs) >= 1
  BY DEF IInv, SpecsOK, StartProbes
<1> DEFINE row == NewRow(specs[1])
<1>2. GoodRow(row) /\ ~row.cut /\ row \in RowSet
  BY <1>1, NewRowIsGood DEF GoodRow
<1> HIDE DEF row
<1>3. rows' = <<row>> /\ pc' = "probe" /\ UNCHANGED <<specs, cancelled, snapshot>>
  BY DEF StartProbes, row
<1>4. RowsOK'
  BY <1>1, <1>2, <1>3 DEF RowsOK
<1>5. PlaceOK'
  BY <1>3 DEF IInv, PlaceOK
<1>6. SpecsOK' /\ SnapshotOK'
  BY <1>3 DEF IInv, SpecsOK, SnapshotOK
<1> QED
  BY <1>4, <1>5, <1>6 DEF IInv

LEMMA NextProbeStep == IInv /\ NextProbe => IInv'
<1> SUFFICES ASSUME IInv, NextProbe PROVE IInv'
  OBVIOUS
<1> DEFINE n == Len(rows)
           row == NewRow(specs[n + 1])
<1>1. /\ rows \in Seq(RowSet) /\ n \in Nat /\ n < Len(specs) /\ Len(specs) \in Nat
      /\ n + 1 \in 1..Len(specs) /\ specs \in Seq(Entries) /\ n > 0
  BY DEF IInv, SpecsOK, RowsOK, PlaceOK, NextProbe
<1>2. Accepted(specs[n + 1]) /\ specs[n + 1] \in Entries
  BY <1>1 DEF IInv, SpecsOK
<1>3. GoodRow(row) /\ ~row.cut /\ row \in RowSet
  BY <1>2, NewRowIsGood DEF GoodRow
<1>4. /\ rows' = Append(rows, row) /\ pc = "probe"
      /\ UNCHANGED <<specs, pc, cancelled, snapshot>>
      /\ Done(rows[n])
  BY DEF NextProbe, RowDone, Done, Last
<1> HIDE DEF row
<1>5. /\ rows' \in Seq(RowSet) /\ Len(rows') = n + 1 /\ rows'[n + 1] = row
      /\ \A i \in 1..n : rows'[i] = rows[i]
  BY <1>1, <1>3, <1>4
<1>6. RowsOK'
  <2>1. ASSUME NEW i \in 1..Len(rows')
        PROVE  /\ GoodRow(rows'[i]) /\ (rows'[i].cut => cancelled')
               /\ i < Len(rows') \/ pc' = "post" => Done(rows'[i])
    <3>1. CASE i = n + 1
      BY <1>1, <1>3, <1>4, <1>5, <3>1
    <3>2. CASE i \in 1..n
      BY <1>1, <1>4, <1>5, <3>2 DEF IInv, RowsOK
    <3> QED
      BY <1>1, <1>5, <3>1, <3>2
  <2> QED
    BY <1>1, <1>4, <1>5, <2>1 DEF RowsOK
<1>7. PlaceOK'
  BY <1>1, <1>4, <1>5 DEF IInv, PlaceOK
<1>8. SpecsOK' /\ SnapshotOK'
  BY <1>4 DEF IInv, SpecsOK, SnapshotOK
<1> QED
  BY <1>6, <1>7, <1>8 DEF IInv

(* The row under way, in a place where a check answers.                     *)
LEMMA RowUnderWay ==
    ASSUME IInv, Len(rows) > 0, ~RowDone
    PROVE  /\ GoodRow(Last) /\ ~Done(Last) /\ Last.entry \in Entries
           /\ Last.cut \in BOOLEAN
           /\ NextCheck = Checks(Last.entry)[Len(Last.found) + 1]
           /\ NextCheck \in Asked(Last.entry) /\ NextCheck \in Kinds
<1>1. Len(rows) \in 1..Len(rows) /\ rows \in Seq(RowSet)
  BY DEF IInv, RowsOK
<1>2. GoodRow(Last)
  BY <1>1 DEF IInv, RowsOK, Last
<1>3. ~Done(Last)
  BY DEF RowDone, Done
<1>4. /\ Last.entry \in Entries /\ Last.found \in Seq(Findings)
      /\ Last.cut \in BOOLEAN
  BY <1>2 DEF GoodRow, RowSet
<1>5. Checks(Last.entry) \in Seq(Asked(Last.entry))
  BY <1>4, ChecksOfEntry
<1>6. Len(Last.found) + 1 \in 1..Len(Checks(Last.entry))
  BY <1>2, <1>3, <1>4, <1>5 DEF GoodRow, Done
<1>7. NextCheck = Checks(Last.entry)[Len(Last.found) + 1]
  BY DEF NextCheck
<1>8. NextCheck \in Asked(Last.entry)
  BY <1>5, <1>6, <1>7
<1> QED
  BY <1>2, <1>3, <1>4, <1>7, <1>8 DEF Asked

LEMMA FindStep ==
    ASSUME IInv, pc \in {"probe", "waiting"}, ~RowDone,
           NEW f, f \in DOMAIN Verdict[NextCheck],
           f = "misconfigured" => NextCheck = "unit" /\ Last.entry.argv = "command",
           Find(f)
    PROVE  IInv'
<1> DEFINE n == Len(rows)
           b == Last.cut \/ cancelled
           row == Longer(f)
<1>1. rows \in Seq(RowSet) /\ n \in 1..n
  BY DEF IInv, RowsOK, PlaceOK
<1>2. b \in BOOLEAN
  OBVIOUS
<1>3. GoodRow(row)
  <2>1. /\ GoodRow(Last) /\ ~Done(Last)
        /\ NextCheck = Checks(Last.entry)[Len(Last.found) + 1]
    BY <1>1, RowUnderWay
  <2>2. row = [Last EXCEPT !.state = Verdict[NextCheck][f], !.cut = b,
                           !.found = Append(@, <<NextCheck, f>>)]
    BY DEF Longer
  <2> HIDE DEF b, row
  <2> QED
    BY <1>2, <2>1, <2>2, FindingKeepsRow
<1>4. row.cut => cancelled
  <2>1. Last.cut => cancelled
    BY <1>1 DEF IInv, RowsOK, Last
  <2>2. GoodRow(Last)
    BY <1>1, RowUnderWay
  <2>3. row.cut = b
    BY <2>2 DEF GoodRow, RowSet, Longer
  <2> QED
    BY <2>1, <2>3
<1>5. row \in RowSet
  BY <1>3 DEF GoodRow
<1>6. rows' = [rows EXCEPT ![n] = row]
  BY DEF Find, Longer
<1>7. pc' = "probe" /\ UNCHANGED <<specs, cancelled, snapshot>>
  BY DEF Find
<1> HIDE DEF row
<1>8. /\ rows' \in Seq(RowSet) /\ Len(rows') = n /\ rows'[n] = row
      /\ \A i \in 1..n : i # n => rows'[i] = rows[i]
  BY <1>1, <1>5, <1>6
<1>9. RowsOK'
  <2>1. ASSUME NEW i \in 1..Len(rows')
        PROVE  /\ GoodRow(rows'[i]) /\ (rows'[i].cut => cancelled')
               /\ i < Len(rows') \/ pc' = "post" => Done(rows'[i])
    <3>1. CASE i = n
      BY <1>3, <1>4, <1>7, <1>8, <3>1
    <3>2. CASE i # n
      BY <1>1, <1>7, <1>8, <3>2 DEF IInv, RowsOK
    <3> QED
      BY <3>1, <3>2
  <2>2. Len(rows') <= Len(specs')
    BY <1>7, <1>8 DEF IInv, RowsOK
  <2> QED
    BY <1>8, <2>1, <2>2 DEF RowsOK
<1>10. PlaceOK'
  BY <1>1, <1>7, <1>8 DEF IInv, PlaceOK
<1>11. SpecsOK' /\ SnapshotOK'
  BY <1>7 DEF IInv, SpecsOK, SnapshotOK
<1> QED
  BY <1>9, <1>10, <1>11 DEF IInv

(* What a check can find has a verdict, and it is misconfigured only if the *)
(* argv of the entry is the executable alone.                               *)
LEMMA FindableIsKnown ==
    ASSUME NEW e \in Entries, Accepted(e), NEW c \in Asked(e), NEW f \in Findable(e, c)
    PROVE  /\ f \in DOMAIN Verdict[c]
           /\ f = "misconfigured" => c = "unit" /\ e.argv = "command"
<1>1. c \in Kinds
  BY DEF Asked
<1>2. CASE ~WellFormed(e, c)
  BY <1>1, <1>2, AcceptedIsWellFormed, CutShortIsKnown DEF Findable
<1>3. CASE WellFormed(e, c) /\ cancelled
  BY <1>1, <1>3, CutShortIsKnown DEF Findable
<1>4. CASE WellFormed(e, c) /\ ~cancelled
  BY <1>4 DEF Findable
<1> QED
  BY <1>2, <1>3, <1>4

LEMMA CheckStep == IInv /\ Check => IInv'
<1> SUFFICES ASSUME IInv, Check PROVE IInv'
  OBVIOUS
<1>1. pc \in {"probe", "waiting"} /\ ~RowDone /\ Len(rows) > 0
  BY DEF Check, IInv, PlaceOK
<1>2. PICK f \in Findable(Last.entry, NextCheck) : Find(f)
  BY DEF Check
<1>3. /\ f \in DOMAIN Verdict[NextCheck]
      /\ f = "misconfigured" => NextCheck = "unit" /\ Last.entry.argv = "command"
  BY <1>1, RowUnderWay, FindableIsKnown DEF GoodRow
<1> QED
  BY <1>1, <1>2, <1>3, FindStep

LEMMA ExpireStep == IInv /\ Expire => IInv'
<1> SUFFICES ASSUME IInv, Expire PROVE IInv'
  OBVIOUS
<1>1. pc = "waiting" /\ ~RowDone /\ Len(rows) > 0 /\ NextCheck # "pid" /\ Find("silent")
  BY DEF Expire, IInv, PlaceOK
<1>2. "silent" \in DOMAIN Verdict[NextCheck]
  BY <1>1, RowUnderWay, CutShortIsKnown
<1> QED
  BY <1>1, <1>2, FindStep

(* The remaining steps leave the rows alone or throw them away.             *)
LEMMA OtherStep ==
    IInv /\ (Wait \/ ProbesDone \/ Post \/ PostFails \/ Signal \/ Exit \/ UNCHANGED vars)
    => IInv'
<1> SUFFICES ASSUME IInv PROVE
        Wait \/ ProbesDone \/ Post \/ PostFails \/ Signal \/ Exit \/ UNCHANGED vars
        => IInv'
  OBVIOUS
<1> USE DEF IInv, SpecsOK, RowsOK, PlaceOK, SnapshotOK
<1>1. ASSUME Wait PROVE IInv'
  <2>1. /\ RowDone' = RowDone /\ NextCheck' = NextCheck /\ Last' = Last
        /\ UNCHANGED <<specs, rows, cancelled, snapshot>>
    BY <1>1 DEF Wait, RowDone, NextCheck, Last
  <2>2. WellFormed(Last.entry, NextCheck)' <=> WellFormed(Last.entry, NextCheck)
    BY <2>1
  <2> QED
    BY <1>1, <2>1, <2>2 DEF Wait
<1>2. ASSUME ProbesDone PROVE IInv'
  <2>1. \A i \in 1..Len(rows) : Done(rows[i])
    BY <1>2 DEF ProbesDone, RowDone, Done, Last
  <2> QED
    BY <1>2, <2>1 DEF ProbesDone
<1>3. ASSUME Post PROVE IInv'
  <2>1. /\ snapshot' = rows /\ rows' = <<>> /\ pc = "post" /\ pc' = "idle"
        /\ UNCHANGED <<specs, cancelled>> /\ cancelled = FALSE
    BY <1>3 DEF Post, Rest
  <2>2. /\ rows \in Seq(RowSet) /\ Len(rows) <= Len(specs) /\ Len(specs) <= MaxProbes
        /\ Len(rows) \in Nat /\ Len(specs) \in Nat /\ MaxProbes \in Nat
    BY ProbeConfigs
  <2>3. \A i \in 1..Len(rows) : GoodRow(rows[i]) /\ ~rows[i].cut /\ Done(rows[i])
    BY <2>1
  <2>4. SnapshotOK'
    BY <2>1, <2>2, <2>3
  <2>5. SpecsOK' /\ RowsOK' /\ PlaceOK'
    BY <2>1, <2>2
  <2> QED
    BY <2>4, <2>5
<1>4. ASSUME PostFails PROVE IInv'
  BY <1>4 DEF PostFails, Rest
<1>5. ASSUME Signal PROVE IInv'
  <2>1. /\ RowDone' = RowDone /\ NextCheck' = NextCheck /\ Last' = Last
        /\ UNCHANGED <<specs, pc, rows, snapshot>> /\ cancelled' = TRUE
    BY <1>5 DEF Signal, RowDone, NextCheck, Last
  <2>2. WellFormed(Last.entry, NextCheck)' <=> WellFormed(Last.entry, NextCheck)
    BY <2>1
  <2> QED
    BY <2>1, <2>2
<1>6. ASSUME Exit PROVE IInv'
  <2>1. /\ rows = <<>> /\ pc' = "down" /\ cancelled' = FALSE
        /\ UNCHANGED <<specs, rows, snapshot>>
    BY <1>6 DEF Exit
  <2>2. SpecsOK' /\ SnapshotOK'
    BY <2>1
  <2>3. Len(rows) = 0 /\ rows' = rows /\ Len(rows') = 0
    BY <2>1
  <2>4. RowsOK'
    BY <2>1, <2>3
  <2>5. PlaceOK'
    BY <2>1
  <2> QED
    BY <2>2, <2>4, <2>5
<1>7. ASSUME UNCHANGED vars PROVE IInv'
  <2>1. /\ RowDone' = RowDone /\ NextCheck' = NextCheck /\ Last' = Last
        /\ UNCHANGED <<specs, pc, rows, cancelled, snapshot>>
    BY <1>7 DEF vars, RowDone, NextCheck, Last
  <2>2. WellFormed(Last.entry, NextCheck)' <=> WellFormed(Last.entry, NextCheck)
    BY <2>1
  <2> QED
    BY <2>1, <2>2
<1> QED
  BY <1>1, <1>2, <1>3, <1>4, <1>5, <1>6, <1>7

LEMMA NextInvariant == IInv /\ [Next]_vars => IInv'
  BY BootStep, StartStep, NextProbeStep, CheckStep, ExpireStep, OtherStep
     DEF Next, Probing

LEMMA Invariant == Spec => []IInv
  BY InitInvariant, NextInvariant, PTL DEF Spec

-----------------------------------------------------------------------------
(* The agent's place, its entries, its rows and those Central was sent stay *)
(* well-typed, and no list of rows gets longer than the limit of the        *)
(* configuration.                                                           *)
THEOREM TypeCorrect == Spec => []TypeOK
<1>1. ASSUME NEW r \in RowSet PROVE RowOK(r)
  BY DEF RowSet, RowOK
<1>2. IInv => TypeOK
  <2> SUFFICES ASSUME IInv PROVE TypeOK
    OBVIOUS
  <2>1. /\ specs \in Configs \cup {<<>>} /\ cancelled \in BOOLEAN
        /\ pc \in {"down", "idle", "probe", "waiting", "post"}
    BY DEF IInv, SpecsOK, PlaceOK
  <2>2. rows \in Seq(RowSet) /\ snapshot \in Seq(RowSet)
    BY DEF IInv, RowsOK, SnapshotOK
  <2>3. Len(rows) <= MaxProbes /\ Len(snapshot) <= MaxProbes
    BY <2>2, ProbeConfigs DEF IInv, SpecsOK, RowsOK, SnapshotOK
  <2>4. \A list \in {rows, snapshot} : \A i \in DOMAIN list : RowOK(list[i])
    BY <1>1, <2>2
  <2> QED
    BY <2>1, <2>3, <2>4 DEF TypeOK
<1> QED
  BY <1>2, Invariant, PTL

(* What Central is sent was found before any signal: no row that a shutdown *)
(* cut short is among it (main.go:241-248, run.go:133).                     *)
THEOREM ShutdownSafe == Spec => []ShutdownLeavesNoRow
<1>1. IInv => ShutdownLeavesNoRow
  BY DEF IInv, SnapshotOK, ShutdownLeavesNoRow, Rows
<1> QED
  BY <1>1, Invariant, PTL

(* No entry the configuration accepts is reported as failed because of the  *)
(* entry itself, an argv of the executable alone excepted                   *)
(* (runtime_dependency_probes.go:38-113, run.go:38-51, 174).                *)
THEOREM AcceptedSafe == Spec => []AcceptedIsProbeable
<1>1. IInv => AcceptedIsProbeable
  <2> SUFFICES ASSUME IInv, NEW k \in DOMAIN snapshot
               PROVE  /\ ~Refused(snapshot[k].entry)
                      /\ \A i \in DOMAIN snapshot[k].found :
                            snapshot[k].found[i][2] = "misconfigured" =>
                              /\ snapshot[k].found[i][1] = "unit"
                              /\ snapshot[k].entry.argv = "command"
    BY DEF AcceptedIsProbeable, Rows
  <2> DEFINE r == snapshot[k]
  <2>1. GoodRow(r)
    BY DEF IInv, SnapshotOK
  <2> HIDE DEF r
  <2>2. r.entry \in Entries /\ r.found \in Seq(Findings) /\ Accepted(r.entry)
    BY <2>1 DEF GoodRow, RowSet
  <2>3. ~Refused(r.entry)
    BY <2>2, AcceptedIsNotRefused
  <2>4. \A i \in DOMAIN r.found :
            r.found[i][2] = "misconfigured" =>
                r.found[i][1] = "unit" /\ r.entry.argv = "command"
    BY <2>1, <2>2 DEF GoodRow
  <2> QED
    BY <2>3, <2>4 DEF r
<1> QED
  BY <1>1, Invariant, PTL

(* A reported row says what the first check that failed has found, and      *)
(* observed only if all of them succeeded, however the dependency changes   *)
(* between the checks (run.go:53-99).                                       *)
THEOREM FirstFailureSafe == Spec => []RowTellsFirstFailure
<1>1. IInv => RowTellsFirstFailure
  <2> SUFFICES ASSUME IInv, NEW r \in {t \in Rows(snapshot) : ~Refused(t.entry)}
               PROVE
        LET made == [i \in DOMAIN r.found |-> r.found[i][1]]
            says(i) == Verdict[r.found[i][1]][r.found[i][2]]
        IN  /\ made = SubSeq(Checks(r.entry), 1, Len(made))
            /\ \A i \in 1..Len(made) - 1 : says(i) = "observed"
            /\ r.state = says(Len(made))
            /\ r.state = "observed" => Len(made) = Len(Checks(r.entry))
    BY DEF RowTellsFirstFailure
  <2>0. PICK k \in 1..Len(snapshot) : r = snapshot[k]
    BY DEF Rows, IInv, SnapshotOK
  <2> DEFINE made == [i \in DOMAIN r.found |-> r.found[i][1]]
             n == Len(r.found)
  <2>1. GoodRow(r) /\ Done(r)
    BY <2>0 DEF IInv, SnapshotOK
  <2>2. /\ r.entry \in Entries /\ r.found \in Seq(Findings) /\ n \in Nat
        /\ DOMAIN r.found = 1..n
    BY <2>1 DEF GoodRow, RowSet
  <2>3. Checks(r.entry) \in Seq(Asked(r.entry)) /\ Checks(r.entry) # <<>>
    BY <2>2, ChecksOfEntry DEF Refused
  <2>4. n > 0 /\ n <= Len(Checks(r.entry))
    BY <2>1, <2>2, <2>3 DEF GoodRow, Done
  <2>5. Len(made) = n
    BY <2>2
  <2>6. made = SubSeq(Checks(r.entry), 1, n)
    <3>1. \A i \in 1..n : made[i] = Checks(r.entry)[i]
      BY <2>1, <2>2 DEF GoodRow
    <3>2. made = [i \in 1..n |-> Checks(r.entry)[i]]
      BY <2>2, <3>1
    <3> QED
      BY <2>2, <2>3, <2>4, <3>2
  <2>7. \A i \in 1..n - 1 : Says(r, i) = "observed"
    BY <2>1, <2>2 DEF GoodRow
  <2>8. r.state = Says(r, n) /\ (r.state = "observed" => n = Len(Checks(r.entry)))
    BY <2>1, <2>2, <2>4 DEF GoodRow, Done
  <2> QED
    BY <2>5, <2>6, <2>7, <2>8 DEF Says
<1> QED
  BY <1>1, Invariant, PTL
=============================================================================
