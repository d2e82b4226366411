------------------------------- MODULE AgentLoop -------------------------------
(***************************************************************************)
(* The process around the convergence slices: the enroll command and       *)
(* internal/enroll, the startup of the run command, one iteration of its   *)
(* loop with inventory and health, runtime.json, the signal and the wait.  *)
(*                                                                         *)
(* The three slices that converge something (Git, nginx, manifest) and the *)
(* dependency probes have modules of their own and are one step here, of   *)
(* which only matters that it runs commands under the loop's context.      *)
(*                                                                         *)
(* Time is kept as ages.  An age is the time since an instant as the wall  *)
(* clock tells it, so it grows as time passes, sinks when the clock is set *)
(* back, and stops growing where nothing tells it from a greater one.      *)
(***************************************************************************)
EXTENDS Integers

CONSTANTS
    Keys,       \* credentials: one for each enrollment token of the operator
    NoKey,      \* there is no enrollment.json, or no agent runs
    BlankKey,   \* the empty string
    Interval,   \* the inventory interval, one hour, in units of time
    MaxBack,    \* bound: by how much the clock is ever set back
    Faults      \* subset of FaultKinds

FaultKinds == {"crash", "disk", "ack_loss", "hang", "revoke"}

ASSUME LoopKeys == /\ Keys # {} /\ NoKey \notin Keys
                   /\ BlankKey \notin Keys \cup {NoKey}
ASSUME LoopBounds == Interval \in Nat \ {0} /\ MaxBack \in Nat
ASSUME LoopFaults == Faults \subseteq FaultKinds

VARIABLES
    epc, asked,      \* the enroll command, the credential of its token
    record,          \* enrollment.json
    pc, hung,        \* the run command, whether a child of it hangs
    using,           \* the credential its client was built with
    cancelled,       \* its context
    posted, saved,   \* last_inventory_post_at in memory and in runtime.json
    issued, revoked, \* Central: credentials handed out, and withdrawn
    inventory,       \* Central: age of the last inventory under each credential
    back             \* by how much the clock has been set back

enrolling == <<epc, asked, record>>
agent == <<pc, hung, using, cancelled, posted>>
central == <<issued, revoked, inventory>>
vars == <<epc, asked, record, pc, hung, using, cancelled, posted, saved, issued,
          revoked, inventory, back>>

Oldest == Interval + MaxBack
Never == Oldest + 1             \* the zero time: older than anything
Ages == (-MaxBack)..Never
Older(age) == IF age >= Oldest THEN age ELSE age + 1
Younger(age) == IF age = Never THEN age ELSE age - 1

\* Steps that wait for children started without the loop's context.
Unbounded == {"collect", "health"}

TypeOK ==
    /\ epc \in {"none", "ask", "write"} /\ asked \in Keys \cup {NoKey, BlankKey}
    /\ record \in Keys \cup {NoKey}
    /\ pc \in {"down", "begin", "collect", "inventory", "health", "converge",
               "save", "wait"}
    /\ hung \in BOOLEAN
    /\ hung => pc \in Unbounded \cup {"converge"}
    /\ using \in Keys \cup {NoKey}
    /\ using = NoKey <=> pc = "down"
    /\ cancelled \in BOOLEAN
    /\ posted \in Ages /\ saved \in Ages
    /\ issued \subseteq Keys /\ revoked \subseteq issued
    /\ inventory \in [Keys -> 0..Never]
    /\ back \in 0..MaxBack

Init ==
    /\ epc = "none" /\ asked = NoKey /\ record = NoKey
    /\ pc = "down" /\ hung = FALSE /\ using = NoKey /\ cancelled = FALSE
    /\ posted = Never /\ saved = Never
    /\ issued = {} /\ revoked = {}
    /\ inventory = [k \in Keys |-> Never]
    /\ back = 0

-----------------------------------------------------------------------------
(* The enroll command.  It may run while the agent runs.                   *)

EndEnroll == epc' = "none" /\ asked' = NoKey

StartEnroll(k) ==
    /\ epc = "none" /\ k \notin issued
    /\ epc' = "ask" /\ asked' = k
    /\ UNCHANGED <<record, agent, saved, central, back>>

\* Refused, or never reached Central: the token is as good as before.
EnrollFails ==
    /\ epc = "ask"
    /\ EndEnroll
    /\ UNCHANGED <<record, agent, saved, central, back>>

\* Seeded bug: an answer without node_id or api_key is taken for an answer.
Bug_EnrollEmpty ==
    /\ epc = "ask"
    /\ epc' = "write" /\ asked' = BlankKey
    /\ UNCHANGED <<record, agent, saved, central, back>>

\* A 2xx with an empty body, or without node_id or api_key.
EnrollEmpty ==
    /\ epc = "ask"
    /\ EndEnroll
    /\ UNCHANGED <<record, agent, saved, central, back>>

\* The token is spent from here on.
EnrollAnswered ==
    /\ epc = "ask"
    /\ issued' = issued \cup {asked}
    /\ epc' = "write"
    /\ UNCHANGED <<asked, record, agent, saved, revoked, inventory, back>>

EnrollAnswerLost ==
    /\ "ack_loss" \in Faults
    /\ epc = "ask"
    /\ issued' = issued \cup {asked}
    /\ EndEnroll
    /\ UNCHANGED <<record, agent, saved, revoked, inventory, back>>

WriteRecord ==
    /\ epc = "write"
    /\ record' = asked
    /\ EndEnroll
    /\ UNCHANGED <<agent, saved, central, back>>

\* The write fails or the command is killed: the only copy of the key is gone.
WriteRecordFails ==
    /\ "disk" \in Faults
    /\ epc = "write"
    /\ EndEnroll
    /\ UNCHANGED <<record, agent, saved, central, back>>

-----------------------------------------------------------------------------
(* The run command.                                                        *)

Step(from, to) == pc = from /\ pc' = to /\ ~hung
Stays == UNCHANGED <<enrolling, hung, using, cancelled, central, back>>

\* Seeded bug: the error of ReadRecord is only logged.
Bug_Boot ==
    /\ pc = "down" /\ pc' = "begin"
    /\ using' = record /\ posted' = saved
    /\ UNCHANGED <<enrolling, hung, cancelled, saved, central, back>>

ReadRecord == record # NoKey

\* The client is built once, from the record of this moment.
Boot ==
    /\ pc = "down" /\ ReadRecord
    /\ pc' = "begin"
    /\ using' = record /\ posted' = saved
    /\ UNCHANGED <<enrolling, hung, cancelled, saved, central, back>>

\* A write of runtime.json that fails is only logged.
Persist == saved' = posted \/ ("disk" \in Faults /\ UNCHANGED saved)

\* Counters, then the heartbeat, whose failure changes only last_error.
Begin == Step("begin", "collect") /\ Persist /\ Stays /\ UNCHANGED posted

Collect == Step("collect", "inventory") /\ Stays /\ UNCHANGED <<posted, saved>>

\* Seeded bug: only the first inventory is ever due.
Bug_Due == posted = Never

Due == posted = Never \/ posted >= Interval

NotDue == /\ Step("inventory", "health") /\ ~Due
          /\ Stays /\ UNCHANGED <<posted, saved>>

\* The request is sent and its credential accepted.
Reaches == /\ ~cancelled /\ using \notin revoked
           /\ inventory' = [inventory EXCEPT ![using] = 0]

PostInventory ==
    /\ Step("inventory", "health") /\ Due
    /\ Reaches
    /\ posted' = 0
    /\ UNCHANGED <<enrolling, hung, using, cancelled, saved, issued, revoked, back>>

PostUnanswered ==
    /\ "ack_loss" \in Faults
    /\ Step("inventory", "health") /\ Due
    /\ Reaches
    /\ UNCHANGED <<enrolling, hung, using, cancelled, posted, saved, issued, revoked,
                   back>>

\* Seeded bug: the time of the attempt is recorded.
Bug_PostFails ==
    /\ Step("inventory", "health") /\ Due
    /\ posted' = 0
    /\ Stays /\ UNCHANGED saved

PostFails == /\ Step("inventory", "health") /\ Due
             /\ Stays /\ UNCHANGED <<posted, saved>>

Health == Step("health", "converge") /\ Stays /\ UNCHANGED <<posted, saved>>

Converge == Step("converge", "save") /\ Stays /\ UNCHANGED <<posted, saved>>

Save == Step("save", "wait") /\ Persist /\ Stays /\ UNCHANGED posted

\* The ticker is as good a choice for select as a cancelled context.
Tick == Step("wait", "begin") /\ Stays /\ UNCHANGED <<posted, saved>>

Down == /\ pc' = "down" /\ hung' = FALSE /\ using' = NoKey /\ cancelled' = FALSE
        /\ posted' = Never
        /\ UNCHANGED <<enrolling, saved, central, back>>

Exit == pc = "wait" /\ cancelled /\ Down

Signal ==
    /\ pc # "down" /\ ~cancelled
    /\ cancelled' = TRUE
    /\ UNCHANGED <<enrolling, pc, hung, using, posted, saved, central, back>>

Crash == "crash" \in Faults /\ pc # "down" /\ Down

\* nginx, php, git: any child may never come back; with a cancelled context
\* CommandContext starts none.
ChildHangs ==
    /\ "hang" \in Faults
    /\ pc \in Unbounded \/ (pc = "converge" /\ ~cancelled)
    /\ ~hung
    /\ hung' = TRUE
    /\ UNCHANGED <<enrolling, pc, using, cancelled, posted, saved, central, back>>

\* Seeded bug: exec.Command instead of exec.CommandContext.
Bug_KillChild == FALSE /\ UNCHANGED vars

\* CommandContext kills the child of a cancelled context.
KillChild ==
    /\ hung /\ cancelled /\ pc \notin Unbounded
    /\ hung' = FALSE
    /\ UNCHANGED <<enrolling, pc, using, cancelled, posted, saved, central, back>>

-----------------------------------------------------------------------------
(* Central and the clock.                                                  *)

Revoke(k) ==
    /\ "revoke" \in Faults
    /\ k \in issued \ revoked
    /\ revoked' = revoked \cup {k}
    /\ UNCHANGED <<enrolling, agent, saved, issued, inventory, back>>

TimePasses ==
    /\ posted' = Older(posted) /\ saved' = Older(saved)
    /\ inventory' = [k \in Keys |-> Older(inventory[k])]
    /\ UNCHANGED <<enrolling, pc, hung, using, cancelled, issued, revoked, back>>

SetBack ==
    /\ back < MaxBack
    /\ back' = back + 1
    /\ posted' = Younger(posted) /\ saved' = Younger(saved)
    /\ UNCHANGED <<enrolling, pc, hung, using, cancelled, central>>

-----------------------------------------------------------------------------
Enroll ==
    \/ \E k \in Keys : StartEnroll(k)
    \/ EnrollFails \/ EnrollEmpty \/ EnrollAnswered \/ EnrollAnswerLost
    \/ WriteRecord \/ WriteRecordFails

Inventory == NotDue \/ PostInventory \/ PostUnanswered \/ PostFails

Loop == Begin \/ Collect \/ Inventory \/ Health \/ Converge \/ Save \/ Tick \/ Exit

Next ==
    \/ Enroll \/ Boot \/ Loop \/ KillChild
    \/ Signal \/ Crash \/ ChildHangs
    \/ (\E k \in Keys : Revoke(k)) \/ TimePasses \/ SetBack

Spec == Init /\ [][Next]_vars

(***************************************************************************)
(* Fairness.  The loop takes its next step unless a child hangs, a killed  *)
(* child is gone, time passes.  A select that finds both channels ready    *)
(* again and again takes each in the end (the Go runtime draws one), and   *)
(* an inventory that is posted again and again is not refused for ever.    *)
(* Nothing is assumed of signals, faults, the operator or the start.       *)
(***************************************************************************)
FairSpec ==
    /\ Spec
    /\ WF_vars(Loop) /\ WF_vars(KillChild) /\ WF_vars(TimePasses)
    /\ SF_vars(Exit) /\ SF_vars(PostInventory)

-----------------------------------------------------------------------------
(* enrollment.json, whichever exchanges and writes failed, names a          *)
(* credential that Central handed out: a failed re-enrollment leaves the    *)
(* node with the credential it had (enroll.go:29-52).                       *)
RecordIsIssued == record \in issued \cup {NoKey}

(* The agent never believes its inventory fresher than Central's copy is,   *)
(* by more than the clock was set back: in memory, and in runtime.json over *)
(* kills, failed writes and lost answers (main.go:208-215, 376).            *)
InventoryClaimIsTrue ==
    \A claim \in {posted, saved} : \E k \in Keys : inventory[k] <= claim + back

(* An agent that keeps running under a credential Central accepts gets its  *)
(* inventory to Central under that credential, again and again: also after  *)
(* a re-enrollment, when runtime.json still holds the old identity's time,  *)
(* and after the clock was set back (main.go:466-471).                      *)
InventoryReachesCentral ==
    \A k \in Keys :
        <>[](using = k /\ k \notin revoked /\ ~hung) => []<>(inventory[k] = 0)

(* A signal stops the agent, although select may prefer the ticker and a    *)
(* git, nginx or systemctl child may hang.  Only a child of the health or   *)
(* inventory collection, which has neither context nor timeout, can keep it *)
(* (main.go:154, 386; nginx.go:36; php.go:43).                              *)
SignalStops == cancelled ~> (pc = "down" \/ (hung /\ pc \in Unbounded))

(* docs/ENROLLMENT.md: when Central revokes the key, the agent exits        *)
(* non-zero from run after backoff.                                         *)
RevokedAgentExits == \A k \in Keys : (using = k /\ k \in revoked) ~> (using # k)
=============================================================================
