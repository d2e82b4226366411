------------------------------- MODULE AtomicFile -------------------------------
(***************************************************************************)
(* How the agent replaces a file: state.WriteJSONAtomic, step by step, on  *)
(* a file system that keeps data and directory entries in memory until     *)
(* they are synced.  Writers are processes or calls that replace the same  *)
(* file; each has a temporary file of its own (os.CreateTemp).             *)
(***************************************************************************)
CONSTANTS
    Writers, Values,
    NoFile,     \* there is no file
    Torn        \* empty or incomplete contents

ASSUME ContentsAssumption == NoFile \notin Values /\ Torn \notin Values
ASSUME TornAssumption == Torn # NoFile

VARIABLES
    pc, value,  \* each writer: where its call is, what it writes
    temp,       \* each writer's temporary file
    target,     \* what the name refers to now
    held        \* what the name may refer to after a power loss

vars == <<pc, value, temp, target, held>>

Contents == Values \cup {NoFile}
Files == [content : Contents \cup {Torn}, synced : BOOLEAN]
Missing == [content |-> NoFile, synced |-> TRUE]

Busy == {"create", "encode", "sync", "rename"}

TypeOK == /\ pc \in [Writers -> Busy \cup {"idle", "ok", "failed"}]
          /\ value \in [Writers -> Contents]
          /\ temp \in [Writers -> Files]
          /\ target \in Files
          /\ held \subseteq Files

Init == /\ pc = [w \in Writers |-> "idle"]
        /\ value = [w \in Writers |-> NoFile]
        /\ temp = [w \in Writers |-> Missing]
        /\ target = Missing
        /\ held = {Missing}

GoTo(w, to) == pc' = [pc EXCEPT ![w] = to]
SetTemp(w, f) == temp' = [temp EXCEPT ![w] = f]

Begin(w, v) == /\ pc[w] = "idle"
               /\ GoTo(w, "create")
               /\ value' = [value EXCEPT ![w] = v]
               /\ UNCHANGED <<temp, target, held>>

CreateTemp(w) == /\ pc[w] = "create"
                 /\ GoTo(w, "encode")
                 /\ SetTemp(w, [content |-> Torn, synced |-> FALSE])
                 /\ UNCHANGED <<value, target, held>>

Encode(w) == /\ pc[w] = "encode"
             /\ GoTo(w, "sync")
             /\ SetTemp(w, [content |-> value[w], synced |-> FALSE])
             /\ UNCHANGED <<value, target, held>>

\* Seeded bug: the temporary file is closed without Sync.
Bug_Sync(w) == /\ pc[w] = "sync"
               /\ GoTo(w, "rename")
               /\ UNCHANGED <<value, temp, target, held>>

\* Sync, Close and Chmod: none of them changes the contents.
Sync(w) == /\ pc[w] = "sync"
           /\ GoTo(w, "rename")
           /\ temp' = [temp EXCEPT ![w].synced = TRUE]
           /\ UNCHANGED <<value, target, held>>

\* The new name is in memory; the directory is not synced.
Rename(w) == /\ pc[w] = "rename"
             /\ GoTo(w, "ok")
             /\ target' = temp[w]
             /\ held' = held \cup {target'}
             /\ SetTemp(w, Missing)
             /\ UNCHANGED value

\* Seeded bug: an error of one of the steps is not returned.
Bug_Fails(w) == /\ pc[w] \in Busy
                /\ GoTo(w, "ok")
                /\ UNCHANGED <<value, temp, target, held>>

\* Any of the steps returns an error.
Fails(w) == /\ pc[w] \in Busy
            /\ GoTo(w, "failed")
            /\ UNCHANGED <<value, temp, target, held>>

\* The deferred Remove deletes the temporary file if it is still there.
Return(w) == /\ pc[w] \in {"ok", "failed"}
             /\ GoTo(w, "idle")
             /\ SetTemp(w, Missing)
             /\ UNCHANGED <<value, target, held>>

\* The process dies.  Its temporary file stays, but nobody ever reads it.
Crash(w) == /\ pc[w] # "idle"
            /\ GoTo(w, "idle")
            /\ SetTemp(w, Missing)
            /\ UNCHANGED <<value, target, held>>

\* The kernel writes the directory back.
WriteBack == /\ held' = {target}
             /\ UNCHANGED <<pc, value, temp, target>>

Survivors(f) ==
    {[content |-> c, synced |-> TRUE] :
        c \in {f.content} \cup (IF f.synced THEN {} ELSE {Torn})}

PowerLoss == /\ \E f \in held : target' \in Survivors(f)
             /\ held' = {target'}
             /\ pc' = [w \in Writers |-> "idle"]
             /\ temp' = [w \in Writers |-> Missing]
             /\ UNCHANGED value

Next == \/ \E w \in Writers : \/ \E v \in Values : Begin(w, v)
                              \/ CreateTemp(w) \/ Encode(w) \/ Sync(w)
                              \/ Rename(w) \/ Fails(w) \/ Return(w) \/ Crash(w)
        \/ WriteBack \/ PowerLoss

Spec == Init /\ [][Next]_vars

-----------------------------------------------------------------------------
(* A reader of the file, at any moment and after any crash or power loss,   *)
(* finds no file or one complete document.                                  *)
NeverTorn == target.content # Torn /\ \A f \in held : Torn \notin
                                        {g.content : g \in Survivors(f)}

(* The mapping to the register that the callers rely on.                    *)
OpOf(w) == [at |-> IF pc[w] \in Busy THEN "busy" ELSE pc[w],
            value |-> value[w]]

Register == INSTANCE AtomicRegister WITH
                reg  <- target.content,
                held <- {f.content : f \in held},
                op   <- [w \in Writers |-> OpOf(w)]

(* WriteJSONAtomic implements that register: a nil return means written,    *)
(* an error means untouched, and a power loss brings back an old version.   *)
ImplementsRegister == Register!Spec
=============================================================================
