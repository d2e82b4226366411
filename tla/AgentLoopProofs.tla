---------------------------- MODULE AgentLoopProofs ----------------------------
(***************************************************************************)
(* Proofs about AgentLoop for any credentials, any inventory interval, any *)
(* bound on the clock's set-backs and any faults.                          *)
(*                                                                         *)
(* The inductive invariant adds to TypeOK what an enrollment under way     *)
(* knows (Enrolling), what bounds an age from below (AgesBounded), and the *)
(* two properties.                                                         *)
(***************************************************************************)
EXTENDS AgentLoop, TLAPS

Enrolling ==
    /\ epc = "ask" => asked \in Keys
    /\ epc = "write" => asked \in issued

\* An age is negative only by what the clock was set back.
AgesBounded == posted >= -back /\ saved >= -back

IInv == TypeOK /\ Enrolling /\ AgesBounded /\ RecordIsIssued /\ InventoryClaimIsTrue

(* The ages of the model are integers, and Central's are natural numbers.   *)
LEMMA AgesAreIntegers ==
    /\ Oldest \in Nat /\ Never \in Nat /\ Never = Oldest + 1
    /\ MaxBack \in Nat /\ Interval \in Nat /\ Oldest = Interval + MaxBack
    /\ Ages \subseteq Int /\ 0..Never \subseteq Ages
    /\ \A age \in Ages : age <= Never
  BY LoopBounds, SMT DEF Oldest, Never, Ages

(* Time moves an age within its range and never makes the older the younger. *)
LEMMA TimeIsMonotone ==
    ASSUME NEW b \in 0..MaxBack, NEW claim \in Ages, NEW copy \in 0..Never,
           claim >= -b
    PROVE  /\ Older(claim) \in Ages /\ Older(claim) >= -b
           /\ Older(copy) \in 0..Never
           /\ copy <= claim + b => Older(copy) <= Older(claim) + b
  BY LoopBounds, SMT DEF Oldest, Never, Ages, Older

(* A set-back makes an age younger by no more than is added to back.        *)
LEMMA SetBackIsCounted ==
    ASSUME NEW b \in 0..MaxBack, b < MaxBack, NEW claim \in Ages,
           NEW copy \in 0..Never, claim >= -b
    PROVE  /\ b + 1 \in 0..MaxBack
           /\ Younger(claim) \in Ages /\ Younger(claim) >= -(b + 1)
           /\ copy <= claim + b => copy <= Younger(claim) + (b + 1)
  BY LoopBounds, SMT DEF Oldest, Never, Ages, Younger

LEMMA InitInvariant == Init => IInv
<1> SUFFICES ASSUME Init PROVE IInv
  OBVIOUS
<1>1. PICK k \in Keys : TRUE
  BY LoopKeys
<1>2. TypeOK
  <2>1. /\ posted \in Ages /\ saved \in Ages /\ back \in 0..MaxBack
        /\ inventory \in [Keys -> 0..Never]
    BY AgesAreIntegers, SMT DEF Init
  <2> QED
    BY <2>1, LoopKeys DEF Init, TypeOK
<1>3. inventory[k] <= Never + 0
  BY AgesAreIntegers, SMT DEF Init
<1> QED
  BY <1>1, <1>2, <1>3, AgesAreIntegers, LoopBounds, SMT
     DEF Init, IInv, Enrolling, AgesBounded, RecordIsIssued, InventoryClaimIsTrue

(* The steps of the enroll command.                                         *)
LEMMA EnrollStep == IInv /\ Enroll => IInv'
<1> SUFFICES ASSUME IInv, Enroll PROVE IInv'
  OBVIOUS
<1> USE DEF IInv, TypeOK, Enrolling, AgesBounded, RecordIsIssued,
            InventoryClaimIsTrue, agent, central, EndEnroll
<1>1. ASSUME NEW k \in Keys, StartEnroll(k) PROVE IInv'
  BY <1>1 DEF StartEnroll
<1>2. CASE EnrollFails
  BY <1>2 DEF EnrollFails
<1>3. CASE EnrollEmpty
  BY <1>3 DEF EnrollEmpty
<1>4. CASE EnrollAnswered
  BY <1>4 DEF EnrollAnswered
<1>5. CASE EnrollAnswerLost
  BY <1>5 DEF EnrollAnswerLost
<1>6. CASE WriteRecord
  BY <1>6 DEF WriteRecord
<1>7. CASE WriteRecordFails
  BY <1>7 DEF WriteRecordFails
<1> QED
  BY <1>1, <1>2, <1>3, <1>4, <1>5, <1>6, <1>7 DEF Enroll

(* A claim of the node that is old enough needs no witness but Never.       *)
LEMMA NeverClaimsNothing ==
    ASSUME IInv PROVE \E k \in Keys : inventory[k] <= Never + back
<1>1. PICK k \in Keys : TRUE
  BY LoopKeys
<1>2. inventory[k] \in 0..Never /\ back \in Nat
  BY LoopBounds, SMT DEF IInv, TypeOK
<1>3. inventory[k] <= Never + back
  BY <1>2, AgesAreIntegers, SMT
<1> QED
  BY <1>3

(* The steps that change neither a time nor what Central has.               *)
LEMMA QuietStep ==
    ASSUME IInv, UNCHANGED <<enrolling, central, back>>,
           posted' \in {posted, saved, Never}, saved' \in {posted, saved},
           pc' \in {"down", "begin", "collect", "inventory", "health", "converge",
                    "save", "wait"},
           hung' \in BOOLEAN, hung' => pc' \in Unbounded \cup {"converge"},
           using' \in Keys \cup {NoKey}, using' = NoKey <=> pc' = "down",
           cancelled' \in BOOLEAN
    PROVE  IInv'
<1> USE DEF IInv, TypeOK, Enrolling, AgesBounded, RecordIsIssued, enrolling, central
<1>1. TypeOK' /\ Enrolling' /\ RecordIsIssued'
  BY AgesAreIntegers
<1>2. AgesBounded'
  BY AgesAreIntegers, LoopBounds, SMT
<1>3. InventoryClaimIsTrue'
  BY NeverClaimsNothing DEF InventoryClaimIsTrue
<1> QED
  BY <1>1, <1>2, <1>3

(* An inventory that Central accepts is as fresh as anything the node can   *)
(* claim.                                                                   *)
LEMMA PostStep ==
    ASSUME IInv, Reaches, posted' \in {0, posted},
           pc = "inventory", pc' = "health", ~hung,
           UNCHANGED <<enrolling, hung, using, cancelled, saved, issued, revoked,
                       back>>
    PROVE  IInv'
<1> USE DEF IInv, TypeOK, Enrolling, AgesBounded, RecordIsIssued, enrolling
<1>1. using \in Keys
  OBVIOUS
<1>2. /\ inventory' \in [Keys -> 0..Never] /\ inventory'[using] = 0
      /\ 0 \in Ages /\ back \in Nat
  BY <1>1, AgesAreIntegers, LoopBounds, SMT DEF Reaches
<1>3. TypeOK' /\ Enrolling' /\ RecordIsIssued'
  BY <1>2
<1>4. AgesBounded'
  BY <1>2, LoopBounds, SMT
<1>5. ASSUME NEW claim \in {posted, saved}' PROVE inventory'[using] <= claim + back'
  <2>1. claim \in Int /\ claim >= -back /\ back' = back
    BY <1>2, <1>5, <1>4, AgesAreIntegers, SMT
  <2> QED
    BY <2>1, <1>2, SMT
<1>6. InventoryClaimIsTrue'
  BY <1>1, <1>5 DEF InventoryClaimIsTrue
<1> QED
  BY <1>3, <1>4, <1>6

LEMMA TimeStep == IInv /\ TimePasses => IInv'
<1> SUFFICES ASSUME IInv, TimePasses PROVE IInv'
  OBVIOUS
<1> USE DEF IInv, TypeOK, Enrolling, AgesBounded, RecordIsIssued, enrolling
<1>1. /\ \A claim \in {posted, saved} : Older(claim) \in Ages /\ Older(claim) >= -back
      /\ \A k \in Keys : Older(inventory[k]) \in 0..Never
      /\ \A claim \in {posted, saved}, k \in Keys :
            inventory[k] <= claim + back =>
                Older(inventory[k]) <= Older(claim) + back
  BY TimeIsMonotone, LoopKeys
<1>2. TypeOK' /\ Enrolling' /\ RecordIsIssued' /\ AgesBounded'
  BY <1>1 DEF TimePasses
<1>3. InventoryClaimIsTrue'
  BY <1>1 DEF TimePasses, InventoryClaimIsTrue
<1> QED
  BY <1>2, <1>3

LEMMA SetBackStep == IInv /\ SetBack => IInv'
<1> SUFFICES ASSUME IInv, SetBack PROVE IInv'
  OBVIOUS
<1> USE DEF IInv, TypeOK, Enrolling, AgesBounded, RecordIsIssued, enrolling, central
<1>1. /\ back + 1 \in 0..MaxBack
      /\ \A claim \in {posted, saved} :
            Younger(claim) \in Ages /\ Younger(claim) >= -(back + 1)
      /\ \A claim \in {posted, saved}, k \in Keys :
            inventory[k] <= claim + back =>
                inventory[k] <= Younger(claim) + (back + 1)
  BY SetBackIsCounted, LoopKeys DEF SetBack
<1>2. TypeOK' /\ Enrolling' /\ RecordIsIssued' /\ AgesBounded'
  BY <1>1 DEF SetBack
<1>3. InventoryClaimIsTrue'
  BY <1>1 DEF SetBack, InventoryClaimIsTrue
<1> QED
  BY <1>2, <1>3

LEMMA RunStep ==
    IInv /\ (Boot \/ Loop \/ KillChild \/ Signal \/ Crash \/ ChildHangs) => IInv'
<1> SUFFICES ASSUME IInv, Boot \/ Loop \/ KillChild \/ Signal \/ Crash \/ ChildHangs
             PROVE  IInv'
  OBVIOUS
<1> USE DEF Step, Stays, Persist
<1>t. /\ hung \in BOOLEAN /\ (hung => pc \in Unbounded \cup {"converge"})
      /\ using \in Keys \cup {NoKey} /\ (using = NoKey <=> pc = "down")
      /\ cancelled \in BOOLEAN /\ record \in Keys \cup {NoKey}
  BY DEF IInv, TypeOK
<1>1. CASE Boot
  BY <1>1, <1>t, QuietStep, LoopKeys DEF Boot, ReadRecord, central, Unbounded
<1>2. CASE Begin
  BY <1>2, <1>t, QuietStep DEF Begin, Unbounded
<1>3. CASE Collect
  BY <1>3, <1>t, QuietStep DEF Collect, Unbounded
<1>4. CASE NotDue
  BY <1>4, <1>t, QuietStep DEF NotDue, Unbounded
<1>5. CASE PostInventory
  BY <1>5, PostStep DEF PostInventory
<1>6. CASE PostUnanswered
  BY <1>6, PostStep DEF PostUnanswered
<1>7. CASE PostFails
  BY <1>7, <1>t, QuietStep DEF PostFails, Unbounded
<1>8. CASE Health
  BY <1>8, <1>t, QuietStep DEF Health, Unbounded
<1>9. CASE Converge
  BY <1>9, <1>t, QuietStep DEF Converge, Unbounded
<1>10. CASE Save
  BY <1>10, <1>t, QuietStep DEF Save, Unbounded
<1>11. CASE Tick
  BY <1>11, <1>t, QuietStep DEF Tick, Unbounded
<1>12. CASE Exit \/ Crash
  BY <1>12, <1>t, QuietStep, LoopKeys DEF Exit, Crash, Down
<1>p. pc \in {"down", "begin", "collect", "inventory", "health", "converge",
              "save", "wait"}
  BY DEF IInv, TypeOK
<1>13. CASE KillChild
  BY <1>13, <1>t, <1>p, QuietStep DEF KillChild
<1>14. CASE Signal
  BY <1>14, <1>t, <1>p, QuietStep DEF Signal
<1>15. CASE ChildHangs
  BY <1>15, <1>t, <1>p, QuietStep DEF ChildHangs
<1> QED
  BY <1>1, <1>2, <1>3, <1>4, <1>5, <1>6, <1>7, <1>8, <1>9, <1>10, <1>11, <1>12,
     <1>13, <1>14, <1>15 DEF Loop, Inventory

LEMMA NextInvariant == IInv /\ [Next]_vars => IInv'
<1> SUFFICES ASSUME IInv, [Next]_vars PROVE IInv'
  OBVIOUS
<1>1. CASE UNCHANGED vars
  BY <1>1 DEF vars, IInv, TypeOK, Enrolling, AgesBounded, RecordIsIssued,
              InventoryClaimIsTrue
<1>2. ASSUME NEW k \in Keys, Revoke(k) PROVE IInv'
  BY <1>2 DEF Revoke, enrolling, agent, IInv, TypeOK, Enrolling, AgesBounded,
              RecordIsIssued, InventoryClaimIsTrue
<1> QED
  BY <1>1, <1>2, EnrollStep, RunStep, TimeStep, SetBackStep DEF Next

LEMMA Invariant == Spec => []IInv
  BY InitInvariant, NextInvariant, PTL DEF Spec

-----------------------------------------------------------------------------
(* The credentials, the ages and the places of both commands stay in range,  *)
(* and a running agent has a credential.                                    *)
THEOREM TypeCorrect == Spec => []TypeOK
  BY Invariant, PTL DEF IInv

(* Whatever fails in an enrollment, enrollment.json names a credential that  *)
(* Central handed out.                                                      *)
THEOREM RecordSafe == Spec => []RecordIsIssued
  BY Invariant, PTL DEF IInv

(* The node's claim to a fresh inventory is true up to what the clock was    *)
(* set back, for any interval, in memory and in runtime.json.               *)
THEOREM InventoryClaimSafe == Spec => []InventoryClaimIsTrue
  BY Invariant, PTL DEF IInv
=============================================================================
