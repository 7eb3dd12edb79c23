------------------------------ MODULE PendingCase ------------------------------
(***************************************************************************)
(* What the agent promises about the case of a retry order, without its    *)
(* processes and its files (pending_store's docstring, README "Retry       *)
(* lifecycle"): a case is opened once, registered, claimed by exactly one  *)
(* resolver, and settled once, as recovered only if the order was paid.  A *)
(* case goes missing only through a fault, and a fault takes at most one.  *)
(***************************************************************************)
EXTENDS Naturals, FiniteSets, FiniteSetTheorems, TLAPS

CONSTANTS Orders    \* the retry orders the agent may create

VARIABLES
    stage,      \* where the case of each order is
    paid,       \* the orders that are paid
    faults      \* the number of faults so far

caseVars == <<stage, paid, faults>>

Open == {"initiated", "pending", "claimed"}
Settled == {"recovered", "unrecovered"}
Stages == {"none", "lost"} \cup Open \cup Settled

Init ==
    /\ stage = [o \in Orders |-> "none"]
    /\ paid = {}
    /\ faults = 0

Move(o, from, to) ==
    /\ stage[o] = from
    /\ stage' = [stage EXCEPT ![o] = to]
    /\ paid' = paid

Initiate(o) == Move(o, "none", "initiated") /\ faults' = faults

Register(o) == Move(o, "initiated", "pending") /\ faults' = faults

Claim(o) == Move(o, "pending", "claimed") /\ faults' = faults

Settle(o, verdict) ==
    /\ verdict = "recovered" => o \in paid
    /\ Move(o, "claimed", verdict)
    /\ faults' = faults

Pay(o) ==
    /\ stage[o] # "none"
    /\ paid' = paid \cup {o}
    /\ UNCHANGED <<stage, faults>>

\* A fault: nobody remembers the case of o any more.
Lose(o) ==
    /\ stage[o] \in {"none", "initiated", "claimed"}
    /\ stage' = [stage EXCEPT ![o] = "lost"]
    /\ faults' = faults + 1
    /\ paid' = paid

\* A fault that costs no case.
Survive == faults' = faults + 1 /\ UNCHANGED <<stage, paid>>

Next ==
    \/ Survive
    \/ \E o \in Orders :
         \/ Initiate(o) \/ Register(o) \/ Claim(o) \/ Pay(o) \/ Lose(o)
         \/ \E verdict \in Settled : Settle(o, verdict)

Spec == Init /\ [][Next]_caseVars

-----------------------------------------------------------------------------

TypeOK ==
    /\ stage \in [Orders -> Stages]
    /\ paid \subseteq Orders
    /\ faults \in Nat

Lost == {o \in Orders : stage[o] = "lost"}

\* At most one case is lost per fault.
LostBounded == IsFiniteSet(Lost) /\ Cardinality(Lost) <= faults

\* A case is recovered only with the money.
RecoveredIsPaid == \A o \in Orders : stage[o] = "recovered" => o \in paid

\* Once settled, or lost, a case never moves again.
Final == [][\A o \in Orders :
              stage[o] \in Settled \cup {"lost"} => stage'[o] = stage[o]]_caseVars

-----------------------------------------------------------------------------
(* What follows from the promise alone, for any set of retry orders *)

\* Every step of the case machine leaves the stages well typed.
LEMMA NextCaseType == TypeOK /\ [Next]_caseVars => TypeOK'
BY DEF TypeOK, Next, caseVars, Survive, Initiate, Register, Claim, Settle, Pay, Lose, Move,
       Stages, Open, Settled

\* In every behaviour, the stages are stages and the paid orders are orders.
THEOREM CaseTypeCorrect == Spec => []TypeOK
<1>1. Init => TypeOK
  BY DEF Init, TypeOK, Stages
<1> QED
  BY <1>1, NextCaseType, PTL DEF Spec

\* A step that loses the case of o loses no other, and is counted as a fault.
LEMMA LoseOne ==
    ASSUME TypeOK, LostBounded, NEW o \in Orders, Lose(o) PROVE LostBounded'
<1>1. Lost' = Lost \cup {o}
  BY DEF TypeOK, Lose, Lost
<1>2. IsFiniteSet(Lost) /\ Cardinality(Lost) \in Nat /\ Cardinality(Lost) <= faults
  BY FS_CardinalityType DEF LostBounded
<1>3. IsFiniteSet(Lost \cup {o}) /\ Cardinality(Lost \cup {o}) <= Cardinality(Lost) + 1
  <2> DEFINE c == Cardinality(Lost)
             d == Cardinality(Lost \cup {o})
  <2>1. IsFiniteSet(Lost \cup {o}) /\ d = IF o \in Lost THEN c ELSE c + 1
    BY <1>2, FS_AddElement
  <2>2. c \in Nat
    BY <1>2
  <2> HIDE DEF c, d
  <2>3. d <= c + 1
    BY <2>1, <2>2
  <2> QED
    BY <2>1, <2>3 DEF c, d
<1>4. Cardinality(Lost \cup {o}) \in Nat
  BY <1>3, FS_CardinalityType
<1> QED
  BY <1>1, <1>2, <1>3, <1>4 DEF LostBounded, Lose, TypeOK

\* Every other step of the case machine leaves the lost cases alone.
LEMMA NextLost ==
    ASSUME TypeOK, [Next]_caseVars
    PROVE  (\E o \in Orders : Lose(o)) \/ (Lost' = Lost /\ faults' \in {faults, faults + 1})
<1>1. ASSUME NEW o \in Orders, NEW from, NEW to, Move(o, from, to),
             from # "lost", to # "lost"
      PROVE  Lost' = Lost
  BY <1>1 DEF Move, Lost, TypeOK
<1>2. ASSUME NEW o \in Orders,
             \/ Initiate(o) \/ Register(o) \/ Claim(o)
             \/ \E verdict \in Settled : Settle(o, verdict)
      PROVE  Lost' = Lost /\ faults' = faults
  BY <1>1, <1>2 DEF Initiate, Register, Claim, Settle, Settled
<1>3. CASE Survive \/ (\E o \in Orders : Pay(o)) \/ UNCHANGED caseVars
  BY <1>3 DEF Survive, Pay, caseVars, Lost
<1> QED
  BY <1>2, <1>3 DEF Next

\* In every behaviour of the promise, at most one case is lost per fault.
THEOREM LostIsBounded == Spec => []LostBounded
<1>1. Init => LostBounded
  <2>1. ASSUME Init PROVE Lost = {} /\ faults = 0
    BY <2>1 DEF Init, Lost
  <2> QED
    BY <2>1, FS_EmptySet DEF LostBounded
<1>2. TypeOK /\ LostBounded /\ [Next]_caseVars => LostBounded'
  <2> SUFFICES ASSUME TypeOK, LostBounded, [Next]_caseVars PROVE LostBounded'
    OBVIOUS
  <2>1. CASE Lost' = Lost /\ faults' \in {faults, faults + 1}
    <3>1. Cardinality(Lost) \in Nat /\ faults \in Nat
      BY FS_CardinalityType DEF LostBounded, TypeOK
    <3> QED
      BY <2>1, <3>1 DEF LostBounded
  <2> QED
    BY <2>1, NextLost, LoseOne
<1> QED
  BY <1>1, <1>2, CaseTypeCorrect, PTL DEF Spec

\* In every behaviour of the promise, a case is recovered only with the money.
THEOREM RecoveredNeedsMoney == Spec => []RecoveredIsPaid
<1>1. Init => RecoveredIsPaid
  BY DEF Init, RecoveredIsPaid
<1>2. TypeOK /\ RecoveredIsPaid /\ [Next]_caseVars => RecoveredIsPaid'
  BY DEF TypeOK, RecoveredIsPaid, Next, caseVars, Survive, Initiate, Register, Claim, Settle,
         Pay, Lose, Move, Settled
<1> QED
  BY <1>1, <1>2, CaseTypeCorrect, PTL DEF Spec

\* Once settled, or lost, a case never moves again: nothing the promise allows
\* takes it anywhere.
THEOREM SettledForGood == Spec => Final
<1> DEFINE Stays == \A o \in Orders :
                      stage[o] \in Settled \cup {"lost"} => stage'[o] = stage[o]
<1>1. ASSUME TypeOK, NEW o \in Orders, NEW from, NEW to, Move(o, from, to),
             from \notin Settled \cup {"lost"}
      PROVE  Stays
  BY <1>1 DEF Move, TypeOK
<1>2. ASSUME TypeOK, NEW o \in Orders, Lose(o) PROVE Stays
  BY <1>2 DEF Lose, TypeOK, Settled
<1>3. TypeOK /\ [Next]_caseVars => [Stays]_caseVars
  BY <1>1, <1>2 DEF Next, caseVars, Survive, Initiate, Register, Claim, Settle, Pay, Settled
<1> QED
  BY <1>3, CaseTypeCorrect, PTL DEF Spec, Final

=============================================================================
