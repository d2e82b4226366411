---------------------------- MODULE RuntimeRequests ----------------------------
(***************************************************************************)
(* What nginx convergence promises to those who ask for it.                *)
(* A site is asked to take a configuration, and once that is applied, to   *)
(* have it served.  A configuration is enabled only while its site waits   *)
(* for an answer, and is then the one asked for.  The running nginx takes  *)
(* up what is enabled, of all sites together and only if every one of them *)
(* is acceptable, when some site waits for a reload and at no other time.  *)
(* Every answer is true when it is given.                                  *)
(***************************************************************************)
CONSTANTS Sites, Confs, NoConf,
          Rejected      \* the configurations that nginx does not accept

VARIABLES
    request,    \* what was asked for last
    status,     \* how far that is
    enabled,    \* the configuration of each site on disk
    live        \* the one that the running nginx serves

runtimeVars == <<request, status, enabled, live>>

Waiting == {"pending", "reloading"}

Init == /\ request = [s \in Sites |-> NoConf]
        /\ status = [s \in Sites |-> "none"]
        /\ enabled = [s \in Sites |-> NoConf]
        /\ live = [s \in Sites |-> NoConf]

AskApply(s, c) == /\ status[s] \notin Waiting
                  /\ request' = [request EXCEPT ![s] = c]
                  /\ status' = [status EXCEPT ![s] = "pending"]
                  /\ UNCHANGED <<enabled, live>>

AskReload(s) == /\ status[s] = "applied"
                /\ status' = [status EXCEPT ![s] = "reloading"]
                /\ UNCHANGED <<request, enabled, live>>

Enable(s) == /\ status[s] \in Waiting
             /\ enabled' = [enabled EXCEPT ![s] = request[s]]
             /\ UNCHANGED <<request, status, live>>

Reload == /\ \E s \in Sites : status[s] = "reloading"
          /\ \A s \in Sites : enabled[s] \notin Rejected
          /\ live' = enabled
          /\ UNCHANGED <<request, status, enabled>>

\* Whether an answer is true.
True(s, answer) ==
    CASE answer = "applied"  -> /\ status[s] = "pending"
                                /\ enabled[s] = request[s]
                                /\ request[s] \notin Rejected
      [] answer = "reloaded" -> /\ status[s] = "reloading"
                                /\ enabled[s] = request[s] /\ live[s] = request[s]
                                /\ request[s] \notin Rejected
      [] answer = "failed"   -> TRUE

Answer(s, answer) == /\ status[s] \in Waiting
                     /\ True(s, answer)
                     /\ status' = [status EXCEPT ![s] = answer]
                     /\ UNCHANGED <<request, enabled, live>>

Next == \/ Reload
        \/ \E s \in Sites :
              \/ \E c \in Confs : AskApply(s, c)
              \/ AskReload(s)
              \/ Enable(s)
              \/ \E answer \in {"applied", "reloaded", "failed"} : Answer(s, answer)

Spec == Init /\ [][Next]_runtimeVars

-----------------------------------------------------------------------------
(* What was answered stays true until the site asks again, whatever other   *)
(* sites ask for, and nginx serves nothing that it rejects.                 *)
AnswersHold ==
    \A s \in Sites :
        /\ status[s] \in {"applied", "reloaded"} => enabled[s] = request[s]
        /\ status[s] = "reloaded" => live[s] = request[s]
        /\ live[s] \notin Rejected
=============================================================================
