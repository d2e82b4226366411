---------------------------- MODULE AtomicRegister ----------------------------
(***************************************************************************)
(* What a file written by state.WriteJSONAtomic (or its twin in            *)
(* nginxruntime, WriteAtomicFile) promises.  The file is a register.  A    *)
(* call that returns nil has written it in one step, a call that returns   *)
(* an error has not touched it.  Because nobody syncs the directory, the   *)
(* machine may, after a power loss, come back with any version since the   *)
(* last one that had settled, but never with anything else.                *)
(***************************************************************************)
CONSTANTS Writers, Values, NoFile

VARIABLES
    reg,    \* what a reader of the file gets
    held,   \* what a reader may get after a power loss
    op      \* each writer's call: where it is and what it writes

regVars == <<reg, held, op>>

Contents == Values \cup {NoFile}
Ops == [at : {"idle", "busy", "ok", "failed"}, value : Contents]

Init == /\ reg = NoFile
        /\ held = {NoFile}
        /\ op = [w \in Writers |-> [at |-> "idle", value |-> NoFile]]

SetOp(w, at) == op' = [op EXCEPT ![w].at = at]

Call(w, v) == /\ op[w].at = "idle"
              /\ op' = [op EXCEPT ![w] = [at |-> "busy", value |-> v]]
              /\ UNCHANGED <<reg, held>>

Write(w) == /\ op[w].at = "busy"
            /\ SetOp(w, "ok")
            /\ reg' = op[w].value
            /\ held' = held \cup {reg'}

Refuse(w) == /\ op[w].at = "busy"
             /\ SetOp(w, "failed")
             /\ UNCHANGED <<reg, held>>

Return(w) == /\ op[w].at \in {"ok", "failed"}
             /\ SetOp(w, "idle")
             /\ UNCHANGED <<reg, held>>

Die(w) == /\ op[w].at # "idle"
          /\ SetOp(w, "idle")
          /\ UNCHANGED <<reg, held>>

Settle == /\ held' = {reg}
          /\ UNCHANGED <<reg, op>>

PowerLoss == /\ reg' \in held
             /\ held' = {reg'}
             /\ op' = [w \in Writers |-> [op[w] EXCEPT !.at = "idle"]]

Next == \/ \E w \in Writers : \/ \E v \in Values : Call(w, v)
                              \/ Write(w) \/ Refuse(w) \/ Return(w) \/ Die(w)
        \/ Settle \/ PowerLoss

Spec == Init /\ [][Next]_regVars
=============================================================================
