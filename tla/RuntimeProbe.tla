----------------------------- MODULE RuntimeProbe -----------------------------
(***************************************************************************)
(* Runtime dependency probes: the entries of the configuration             *)
(* (internal/config/runtime_dependency_probes.go), RunAll and its checks   *)
(* (internal/runtimeprobe/run.go), and the post of the rows to Central.    *)
(*                                                                         *)
(* A dependency may start or stop between two checks, so every check finds *)
(* it in a condition of its own.  Verdict says what the code makes of it.  *)
(***************************************************************************)
EXTENDS Naturals, Sequences

CONSTANTS
    Configs,    \* the lists of entries that a configuration file may have
    MaxProbes   \* the limit of entries, 32 in the code

VARIABLES
    specs,      \* the entries the agent was started with
    pc,         \* where the run command is
    rows,       \* the rows of this iteration, the last may be unfinished
    cancelled,  \* the loop's context
    snapshot    \* Central: the rows it was sent last

vars == <<specs, pc, rows, cancelled, snapshot>>

-----------------------------------------------------------------------------
(* Entries.  Of a path or an address counts whether it is there and well-  *)
(* formed; of the argv, whether there is more than the executable.         *)

Given == {"none", "good", "bad"}
Entries == [type : {"php_fpm", "tcp_service", "other"}, socket : Given, tcp : Given,
            argv : {"none", "relative", "command", "full"}, pid : Given]

ASSUME ProbeConfigs == Configs \subseteq Seq(Entries) /\ MaxProbes \in Nat

ArgvAccepted(e) == e.argv # "relative"

\* Seeded bug: the address that the type does not use is not looked at.
Bug_Accepted(e) ==
    /\ \/ e.type = "php_fpm" /\ e.socket = "good"
       \/ e.type = "tcp_service" /\ e.tcp = "good"
    /\ ArgvAccepted(e) /\ e.pid # "bad"

Accepted(e) ==
    /\ \/ e.type = "php_fpm" /\ e.socket = "good" /\ e.tcp = "none"
       \/ e.type = "tcp_service" /\ e.tcp = "good" /\ e.socket = "none"
    /\ ArgvAccepted(e) /\ e.pid # "bad"

\* The checks of an entry in the order of runOne, a dial first.
Checks(e) ==
    (IF e.socket # "none" THEN <<"socket">>
     ELSE IF e.tcp # "none" THEN <<"tcp">> ELSE <<>>)
    \o (IF e.argv # "none" THEN <<"unit">> ELSE <<>>)
    \o (IF e.pid # "none" THEN <<"pid">> ELSE <<>>)

\* What runOne refuses before its first check.
Refused(e) == Checks(e) = <<>> \/ "none" \notin {e.socket, e.tcp}

-----------------------------------------------------------------------------
(* What the checks make of what they find.                                 *)

SocketVerdict == [misconfigured |-> "failed", absent |-> "missing",
                  denied |-> "failed", regular |-> "failed",
                  refuses |-> "unreachable", silent |-> "unreachable",
                  accepts |-> "observed"]
TcpVerdict == [misconfigured |-> "failed", refuses |-> "unreachable",
               silent |-> "unreachable", accepts |-> "observed"]

\* A command killed at the deadline has a non-zero exit code, -1.
UnitVerdict == [misconfigured |-> "failed", not_run |-> "failed",
                inactive |-> "missing", silent |-> "missing", active |-> "observed"]
PidVerdict == [misconfigured |-> "failed", absent |-> "missing",
               garbage |-> "failed", not_asked |-> "unreachable",
               dead |-> "missing", foreign |-> "failed", alive |-> "observed"]
Verdict == [socket |-> SocketVerdict, tcp |-> TcpVerdict, unit |-> UnitVerdict,
            pid |-> PidVerdict]

\* The field of an entry that a check needs well-formed.
WellFormed(e, check) == CASE check = "socket" -> e.socket = "good"
                          [] check = "tcp" -> e.tcp = "good"
                          [] check = "unit" -> e.argv # "command"
                          [] check = "pid" -> e.pid = "good"

\* What a cancelled context leaves a check to find: nothing is dialled,
\* started or signalled, but files are still looked at.
CutShort == [socket |-> {"absent", "denied", "regular", "silent"}, tcp |-> {"silent"},
             unit |-> {"not_run"}, pid |-> {"absent", "garbage", "not_asked"}]

\* What a check finds at once; "silent" takes until a deadline.  An earlier
\* check of the entry may have used up the time, and then no command is run
\* and no process is asked.
Findable(e, check) ==
    IF ~WellFormed(e, check) THEN {"misconfigured"}
    ELSE IF cancelled THEN CutShort[check]
    ELSE DOMAIN Verdict[check] \ {"misconfigured", "silent"}

Findings == UNION {{<<c, f>> : f \in DOMAIN Verdict[c]} : c \in DOMAIN Verdict}
States == {"observed", "missing", "unreachable", "failed"}

(* A row with the entry it is for, what its checks found and whether the    *)
(* context was cancelled when one of them answered.                         *)
NewRow(e) == [entry |-> e, state |-> IF Refused(e) THEN "failed" ELSE "observed",
              found |-> <<>>, cut |-> FALSE]

Last == rows[Len(rows)]
NextCheck == Checks(Last.entry)[Len(Last.found) + 1]

\* Seeded bug: every check is made, and the last one decides.
Bug_RowDone == Len(Last.found) = Len(Checks(Last.entry))

\* A check is made only as long as the earlier ones have succeeded.
RowDone == Last.state # "observed" \/ Len(Last.found) = Len(Checks(Last.entry))

RowOK(r) == /\ r.entry \in Entries /\ r.state \in States /\ r.cut \in BOOLEAN
            /\ \A i \in DOMAIN r.found : r.found[i] \in Findings

TypeOK ==
    /\ specs \in Configs \cup {<<>>}
    /\ pc \in {"down", "idle", "probe", "waiting", "post"}
    /\ cancelled \in BOOLEAN
    /\ \A list \in {rows, snapshot} :
          Len(list) <= MaxProbes /\ \A i \in DOMAIN list : RowOK(list[i])

Init == /\ specs = <<>>
        /\ pc = "down" /\ rows = <<>> /\ cancelled = FALSE /\ snapshot = <<>>

-----------------------------------------------------------------------------
\* Seeded bug: the number of entries is not limited.
Bug_Loads(list) == \A i \in DOMAIN list : Accepted(list[i])

Loads(list) == /\ Len(list) <= MaxProbes
               /\ \A i \in DOMAIN list : Accepted(list[i])

\* The file is read at the start only; an entry that is not accepted ends it.
Boot == /\ pc = "down" /\ pc' = "idle"
        /\ \E list \in Configs : Loads(list) /\ specs' = list
        /\ UNCHANGED <<rows, cancelled, snapshot>>

StartProbes ==
    /\ pc = "idle" /\ specs # <<>>
    /\ rows' = <<NewRow(specs[1])>> /\ pc' = "probe"
    /\ UNCHANGED <<specs, cancelled, snapshot>>

NextProbe ==
    /\ pc = "probe" /\ RowDone /\ Len(rows) < Len(specs)
    /\ rows' = Append(rows, NewRow(specs[Len(rows) + 1]))
    /\ UNCHANGED <<specs, pc, cancelled, snapshot>>

\* The last row after one more check has answered.
Longer(f) == [Last EXCEPT !.state = Verdict[NextCheck][f], !.cut = @ \/ cancelled,
                          !.found = Append(@, <<NextCheck, f>>)]

Find(f) == /\ rows' = [rows EXCEPT ![Len(rows)] = Longer(f)]
           /\ pc' = "probe"
           /\ UNCHANGED <<specs, cancelled, snapshot>>

Check ==
    /\ pc = "probe" \/ (pc = "waiting" /\ ~cancelled)
    /\ ~RowDone
    /\ \E f \in Findable(Last.entry, NextCheck) : Find(f)

\* A dial or a command that does not answer at once.
Wait ==
    /\ pc = "probe" /\ ~RowDone /\ ~cancelled
    /\ NextCheck # "pid" /\ WellFormed(Last.entry, NextCheck)
    /\ pc' = "waiting"
    /\ UNCHANGED <<specs, rows, cancelled, snapshot>>

\* Seeded bug: the command is not bound to the context.
Bug_Expire == pc = "waiting" /\ IF NextCheck = "unit" THEN UNCHANGED vars
                                 ELSE Find("silent")

\* The dial timeout, the deadline of the probe or the loop's context.
Expire == pc = "waiting" /\ Find("silent")

ProbesDone ==
    /\ pc = "probe" /\ RowDone /\ Len(rows) = Len(specs)
    /\ pc' = "post"
    /\ UNCHANGED <<specs, rows, cancelled, snapshot>>

Rest == pc' = "idle" /\ rows' = <<>> /\ UNCHANGED <<specs, cancelled>>

\* Seeded bug: the rows are posted with a context that outlives the signal.
Bug_Post == pc = "post" /\ snapshot' = rows /\ Rest

Post == pc = "post" /\ ~cancelled /\ snapshot' = rows /\ Rest

PostFails == pc = "post" /\ Rest /\ UNCHANGED snapshot

Signal == /\ pc # "down" /\ ~cancelled /\ cancelled' = TRUE
          /\ UNCHANGED <<specs, pc, rows, snapshot>>

Exit == /\ pc = "idle" /\ cancelled
        /\ pc' = "down" /\ cancelled' = FALSE
        /\ UNCHANGED <<specs, rows, snapshot>>

-----------------------------------------------------------------------------
Probing == NextProbe \/ Check \/ Wait \/ Expire \/ ProbesDone

Next == Boot \/ StartProbes \/ Probing \/ Post \/ PostFails \/ Signal \/ Exit

Spec == Init /\ [][Next]_vars

\* The process runs, and a deadline passes whatever the dependency does.
FairSpec == Spec /\ WF_vars(Probing)

-----------------------------------------------------------------------------
Rows(list) == {list[i] : i \in DOMAIN list}

(* A row tells what the first check that failed has found; observed means   *)
(* that every configured check was made and succeeded (docs/                *)
(* RUNTIME_DEPENDENCY_OBSERVATION.md, "every configured check for that row  *)
(* succeeded"), although the dependency may come and go between them.       *)
RowTellsFirstFailure ==
    \A r \in {t \in Rows(snapshot) : ~Refused(t.entry)} :
        LET made == [i \in DOMAIN r.found |-> r.found[i][1]]
            says(i) == Verdict[r.found[i][1]][r.found[i][2]]
        IN  /\ made = SubSeq(Checks(r.entry), 1, Len(made))
            /\ \A i \in 1..Len(made) - 1 : says(i) = "observed"
            /\ r.state = says(Len(made))
            /\ r.state = "observed" => Len(made) = Len(Checks(r.entry))

(* An entry the configuration accepts can be probed: Central is never told  *)
(* failed because of the entry itself.  The one exception is an argv of the *)
(* executable alone, which runtime_dependency_probes.go:90 accepts and      *)
(* run.go:174 refuses.                                                      *)
AcceptedIsProbeable ==
    \A r \in Rows(snapshot) :
        /\ ~Refused(r.entry)
        /\ \A i \in DOMAIN r.found :
              r.found[i][2] = "misconfigured" =>
                  r.found[i][1] = "unit" /\ r.entry.argv = "command"

(* A shutdown cuts probes short and makes dependencies look unreachable or  *)
(* failed; no such row reaches Central, not even the rows of the same       *)
(* iteration that were right.                                               *)
ShutdownLeavesNoRow == \A r \in Rows(snapshot) : ~r.cut

(* An iteration gets through its probes whatever the dependencies do.       *)
ProbesEnd == pc \in {"probe", "waiting"} ~> pc = "post"
=============================================================================
