--------------------------- MODULE AtomicFileProofs ---------------------------
(***************************************************************************)
(* AtomicFile implements AtomicRegister for every set of writers and of    *)
(* values.                                                                 *)
(***************************************************************************)
EXTENDS AtomicFile, TLAPS

(* A call renames a complete and synced file only.                          *)
Prepared ==
    \A w \in Writers :
        /\ pc[w] \in {"sync", "rename"} => temp[w].content = value[w]
        /\ pc[w] = "rename" => temp[w].synced

(* What has, or may get back, the name is complete and synced.              *)
Whole == \A f \in held \cup {target} : f.content \in Contents /\ f.synced

IInv == TypeOK /\ Prepared /\ Whole

USE DEF GoTo, SetTemp

LEMMA MissingIsFile == Missing \in Files
  BY DEF Missing, Files, Contents

(* A synced file survives a power loss as it is.                            *)
LEMMA SyncedSurvives ==
  ASSUME NEW f \in Files, f.synced
  PROVE  Survivors(f) = {f}
<1>1. f = [content |-> f.content, synced |-> TRUE]
  BY DEF Files
<1>2. Survivors(f) = {[content |-> c, synced |-> TRUE] : c \in {f.content}}
  BY DEF Survivors
<1> QED
  BY <1>1, <1>2

LEMMA TypeStep == TypeOK /\ Whole /\ [Next]_vars => TypeOK'
<1> SUFFICES ASSUME TypeOK, Whole, [Next]_vars PROVE TypeOK'
  OBVIOUS
<1> USE MissingIsFile DEF TypeOK, Busy
<1>1. ASSUME NEW w \in Writers, NEW v \in Values, Begin(w, v) PROVE TypeOK'
  BY <1>1 DEF Begin, Contents
<1>2. ASSUME NEW w \in Writers, CreateTemp(w) PROVE TypeOK'
  BY <1>2 DEF CreateTemp, Files
<1>3. ASSUME NEW w \in Writers, Encode(w) PROVE TypeOK'
  BY <1>3 DEF Encode, Files
<1>4. ASSUME NEW w \in Writers, Sync(w) PROVE TypeOK'
  BY <1>4 DEF Sync, Files
<1>5. ASSUME NEW w \in Writers, Rename(w) PROVE TypeOK'
  BY <1>5 DEF Rename
<1>6. ASSUME NEW w \in Writers, Fails(w) \/ Return(w) \/ Crash(w) PROVE TypeOK'
  BY <1>6 DEF Fails, Return, Crash
<1>7. CASE WriteBack
  BY <1>7 DEF WriteBack
<1>8. CASE PowerLoss
  BY <1>8, SyncedSurvives DEF PowerLoss, Whole
<1>9. CASE UNCHANGED vars
  BY <1>9 DEF vars
<1> QED
  BY <1>1, <1>2, <1>3, <1>4, <1>5, <1>6, <1>7, <1>8, <1>9 DEF Next

LEMMA PreparedStep == TypeOK /\ Prepared /\ [Next]_vars => Prepared'
<1> SUFFICES ASSUME TypeOK, Prepared, [Next]_vars, NEW q \in Writers
             PROVE  /\ pc'[q] \in {"sync", "rename"}
                         => temp'[q].content = value'[q]
                    /\ pc'[q] = "rename" => temp'[q].synced
  BY DEF Prepared
<1> USE DEF TypeOK, Prepared, Files
<1>1. CASE \E w \in Writers : \E v \in Values : Begin(w, v)
  BY <1>1 DEF Begin
<1>2. CASE \E w \in Writers : CreateTemp(w)
  BY <1>2 DEF CreateTemp
<1>3. CASE \E w \in Writers : Encode(w)
  BY <1>3 DEF Encode
<1>4. CASE \E w \in Writers : Sync(w)
  BY <1>4 DEF Sync
<1>5. CASE \E w \in Writers : Rename(w)
  BY <1>5 DEF Rename
<1>6. CASE \E w \in Writers : Fails(w) \/ Return(w) \/ Crash(w)
  BY <1>6 DEF Fails, Return, Crash
<1>7. CASE WriteBack \/ PowerLoss
  BY <1>7 DEF WriteBack, PowerLoss
<1>8. CASE UNCHANGED vars
  BY <1>8 DEF vars
<1> QED
  BY <1>1, <1>2, <1>3, <1>4, <1>5, <1>6, <1>7, <1>8 DEF Next

LEMMA WholeStep == IInv /\ [Next]_vars => Whole'
<1> SUFFICES ASSUME IInv, [Next]_vars PROVE Whole'
  OBVIOUS
<1> USE DEF IInv, Whole
<1>1. CASE \E w \in Writers : Rename(w)
  <2> PICK w \in Writers : Rename(w)
    BY <1>1
  <2>1. temp[w].content \in Contents /\ temp[w].synced
    BY DEF Rename, TypeOK, Prepared
  <2> QED
    BY <2>1 DEF Rename
<1>2. CASE PowerLoss
  BY <1>2, SyncedSurvives DEF PowerLoss, TypeOK
<1>3. CASE WriteBack
  BY <1>3 DEF WriteBack
<1>4. CASE UNCHANGED <<target, held>>
  BY <1>4
<1> QED
  BY <1>1, <1>2, <1>3, <1>4
     DEF Next, Begin, CreateTemp, Encode, Sync, Fails, Return, Crash, vars

THEOREM Inductive == Spec => []IInv
<1>1. Init => IInv
  BY MissingIsFile
     DEF Init, IInv, TypeOK, Prepared, Whole, Busy, Contents, Missing
<1>2. IInv /\ [Next]_vars => IInv'
  BY TypeStep, PreparedStep, WholeStep DEF IInv
<1> QED
  BY <1>1, <1>2, PTL DEF Spec

(* No reader ever finds an empty or incomplete state file.                  *)
THEOREM NeverTornCorrect == Spec => []NeverTorn
<1>1. IInv => NeverTorn
  <2> SUFFICES ASSUME IInv PROVE NeverTorn
    OBVIOUS
  <2>1. Torn \notin Contents
    BY ContentsAssumption, TornAssumption DEF Contents
  <2>2. \A f \in held : Survivors(f) = {f}
    BY SyncedSurvives DEF IInv, TypeOK, Whole
  <2> QED
    BY <2>1, <2>2 DEF NeverTorn, IInv, Whole
<1> QED
  BY <1>1, Inductive, PTL

-----------------------------------------------------------------------------
(* Refinement: the rename is the write, everything before it a stutter.     *)
LEMMA StepImplements == IInv /\ [Next]_vars => [Register!Next]_(Register!regVars)
<1> DEFINE ops == [w \in Writers |-> OpOf(w)]
           contents == {f.content : f \in held}
<1> SUFFICES ASSUME IInv, [Next]_vars
             PROVE  Register!Next \/ UNCHANGED <<target.content, contents, ops>>
  BY DEF Register!regVars
<1> USE DEF IInv, TypeOK, Busy
<1>1. ASSUME NEW w \in Writers, NEW v \in Values, Begin(w, v)
      PROVE  Register!Call(w, v)
  BY <1>1 DEF Begin, Register!Call, OpOf
<1>2. ASSUME NEW w \in Writers, CreateTemp(w) \/ Encode(w) \/ Sync(w)
      PROVE  UNCHANGED <<target.content, contents, ops>>
  BY <1>2 DEF CreateTemp, Encode, Sync, OpOf
<1>3. ASSUME NEW w \in Writers, Rename(w) PROVE Register!Write(w)
  <2>1. temp[w].content = value[w]
    BY <1>3 DEF Rename, Prepared
  <2>2. target'.content = value[w]
    BY <1>3, <2>1 DEF Rename
  <2>3. contents' = contents \cup {value[w]}
    BY <1>3, <2>1 DEF Rename
  <2>4. ops' = [ops EXCEPT ![w].at = "ok"] /\ ops[w].at = "busy"
                /\ ops[w].value = value[w]
    BY <1>3 DEF Rename, OpOf
  <2> QED
    BY <2>2, <2>3, <2>4 DEF Register!Write, Register!SetOp
<1>4. ASSUME NEW w \in Writers, Fails(w) PROVE Register!Refuse(w)
  BY <1>4 DEF Fails, Register!Refuse, Register!SetOp, OpOf
<1>5. ASSUME NEW w \in Writers, Return(w) PROVE Register!Return(w)
  BY <1>5 DEF Return, Register!Return, Register!SetOp, OpOf
<1>6. ASSUME NEW w \in Writers, Crash(w) PROVE Register!Die(w)
  BY <1>6 DEF Crash, Register!Die, Register!SetOp, OpOf
<1>7. ASSUME WriteBack PROVE Register!Settle
  <2>1. contents' = {target.content} /\ target'.content = target.content
    BY <1>7 DEF WriteBack
  <2>2. ops' = ops
    BY <1>7 DEF WriteBack, OpOf
  <2> QED
    BY <2>1, <2>2 DEF Register!Settle
<1>8. ASSUME PowerLoss PROVE Register!PowerLoss
  <2>1. PICK f \in held : target' \in Survivors(f)
    BY <1>8 DEF PowerLoss
  <2>2. target' = f
    BY <2>1, SyncedSurvives DEF Whole
  <2>3. target'.content \in contents /\ contents' = {target'.content}
    BY <1>8, <2>2 DEF PowerLoss
  <2>4. ops' = [w \in Writers |-> [ops[w] EXCEPT !.at = "idle"]]
    BY <1>8 DEF PowerLoss, OpOf
  <2> QED
    BY <2>3, <2>4 DEF Register!PowerLoss
<1>9. CASE UNCHANGED vars
  BY <1>9 DEF vars, OpOf
<1> QED
  BY <1>1, <1>2, <1>3, <1>4, <1>5, <1>6, <1>7, <1>8, <1>9
     DEF Next, Register!Next

(* The write protocol implements the register its callers rely on.          *)
THEOREM RegisterCorrect == Spec => ImplementsRegister
<1>1. Init => Register!Init
  BY DEF Init, Register!Init, Missing, OpOf, Busy
<1> QED
  BY <1>1, StepImplements, Inductive, PTL
     DEF Spec, ImplementsRegister, Register!Spec
=============================================================================
