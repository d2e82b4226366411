---------------------------- MODULE DeployRequests ----------------------------
(***************************************************************************)
(* What repository convergence promises to those who ask for deploys.      *)
(* A site has one request at a time.  While it is pending the agent may do *)
(* anything to the site's tree; it answers applied only when the tree then *)
(* holds what was asked for, and it leaves the tree of a site alone when   *)
(* nothing is pending.  So what was answered stays true until the next     *)
(* request.                                                                *)
(***************************************************************************)
EXTENDS Naturals

CONSTANTS Sites, Urls, NoUrl, MaxCommit

VARIABLES
    request,    \* what was asked for last
    answer,     \* "none", "pending", "applied" or "failed"
    holds       \* the remote and the commit of each tree

requestVars == <<request, answer, holds>>

Commits == 0..MaxCommit     \* 0: no commit, or no particular one
Trees == (Urls \cup {NoUrl}) \X Commits

\* The commit asked for, or the branch at the time of the request or later.
Satisfies(tree, r) ==
    /\ tree[1] = r.url
    /\ IF r.sha = 0 THEN tree[2] >= r.since ELSE tree[2] = r.sha

Init == /\ request = [s \in Sites |-> [url |-> NoUrl, sha |-> 0, since |-> 0]]
        /\ answer = [s \in Sites |-> "none"]
        /\ holds \in [Sites -> Trees]

Ask(s, r) == /\ answer[s] # "pending"
             /\ request' = [request EXCEPT ![s] = r]
             /\ answer' = [answer EXCEPT ![s] = "pending"]
             /\ UNCHANGED holds

Work(s, tree) == /\ answer[s] = "pending"
                 /\ holds' = [holds EXCEPT ![s] = tree]
                 /\ UNCHANGED <<request, answer>>

Answer(s, a) == /\ answer[s] = "pending"
                /\ a = "applied" => Satisfies(holds[s], request[s])
                /\ answer' = [answer EXCEPT ![s] = a]
                /\ UNCHANGED <<request, holds>>

Next == \E s \in Sites :
            \/ \E r \in [url : Urls, sha : Commits, since : Commits] : Ask(s, r)
            \/ \E tree \in Trees : Work(s, tree)
            \/ \E a \in {"applied", "failed"} : Answer(s, a)

Spec == Init /\ [][Next]_requestVars

-----------------------------------------------------------------------------
(* What was answered as applied is in the tree until the next request.      *)
AnswersHold ==
    \A s \in Sites : answer[s] = "applied" => Satisfies(holds[s], request[s])
=============================================================================
