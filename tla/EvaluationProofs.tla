--------------------------- MODULE EvaluationProofs ---------------------------
(***************************************************************************)
(* What the evaluation says of its two arms holds for every batch, every   *)
(* setting, every answer of the LLM and every draw of the generator.       *)
(***************************************************************************)
EXTENDS Evaluation, TLAPS, FiniteSetTheorems, SequenceTheorems

-----------------------------------------------------------------------------
(* The inductive invariant *)

RuleArm == "rule_only_baseline"
LlmArm == "rule_plus_llm"

Predictions == KnownCauses \cup {"UNKNOWN"}

ActionTypes == {"RETRY_AFTER_DELAY", "RETRY_IMMEDIATE", "NOTIFY_USER",
                "NOTIFY_USER_CARD_UPDATE", "ESCALATE"}

ActionRecords == [type : ActionTypes, max_attempts : Nat, cause : Predictions,
                  policy_approved : BOOLEAN]

Decisions == [source : {"none", "rule", "llm"}, action : ActionRecords, left : Nat]

Lines == [predicted : Predictions, source : {"rule", "llm"}, action_type : ActionTypes,
          correct : BOOLEAN, recovered : BOOLEAN]

EvalTypeOK ==
    /\ batch \in Seq(Records)
    /\ key \in BOOLEAN
    /\ llm \in {"original", "unknown", "counted"}
    /\ arm \in Arms
    /\ pc \in {"seed", "record", "attempt", "report"}
    /\ current \in Decisions
    /\ tries \in Nat
    /\ stream \in Seq(Draws)
    /\ results \in [Arms -> Seq(Lines)]
    /\ calls \in [Arms -> Nat]

\* How far the arms are.
Placed ==
    /\ Len(results[arm]) <= Len(batch)
    /\ pc = "attempt" => Len(results[arm]) < Len(batch)
    /\ arm = RuleArm => results[LlmArm] = <<>> /\ calls[LlmArm] = 0
    /\ arm = LlmArm => Len(results[RuleArm]) = Len(batch)
    /\ pc = "seed" => results[arm] = <<>> /\ calls[arm] = 0
    /\ pc = "report" => arm = LlmArm /\ Len(results[arm]) = Len(batch)
    /\ calls[RuleArm] = 0

\* What classify_with_llm is bound to.
Bound ==
    /\ pc \in {"seed", "report"} => llm = "original"
    /\ pc \in {"record", "attempt"} => llm = IF arm = RuleArm THEN "unknown" ELSE "counted"

SourceOf(x) == IF x.code = "unmapped" THEN "llm" ELSE "rule"

\* What a cause can have been predicted from: by rule its code; the baseline has
\* no other answer than UNKNOWN.
PredictedFrom(x, a, cause) ==
    /\ x.code # "unmapped" => cause = x.code
    /\ x.code = "unmapped" /\ a = RuleArm => cause = "UNKNOWN"

\* A line of an arm tells of its record.
LineTells(a, i) ==
    LET r == results[a][i] IN
    /\ r.source = SourceOf(batch[i])
    /\ PredictedFrom(batch[i], a, r.predicted)
    /\ r.correct = (r.predicted = batch[i].ground_truth)
    /\ r.recovered => r.predicted # "UNKNOWN"

ActionFor(i, cause) == Chosen(cause, batch[i].amount, MinAmount, CapFor(cause))

\* The record under way, its action and the attempts left.
Attempting ==
    pc = "attempt" =>
      LET i == Len(results[arm]) + 1 IN
      /\ current.source = SourceOf(batch[i])
      /\ PredictedFrom(batch[i], arm, current.action.cause)
      /\ current.action = ActionFor(i, current.action.cause)
      /\ current.left \in 1..current.action.max_attempts

\* The LLM was asked once for each record of its arm that no rule maps.
Counted ==
    calls[LlmArm] = Cardinality(BySource(LlmArm, "llm"))
                      + (IF arm = LlmArm /\ pc = "attempt" /\ current.source = "llm"
                         THEN 1 ELSE 0)

MeasureInv ==
    /\ EvalTypeOK
    /\ Placed
    /\ Bound
    /\ \A a \in Arms : \A i \in 1..Len(results[a]) : LineTells(a, i)
    /\ Attempting
    /\ Counted

\* The draws of the stream from `from' (excluded) to `to' are those of the
\* attempts of an action that has or has not recovered its record: all but the
\* last failed, and the last tells the outcome.
Run(draws, act, from, to, recovered) ==
    LET succeeds(k) == draws[k] < SuccessRate(act.type) IN
    /\ from <= to /\ to <= from + act.max_attempts /\ to <= Len(draws)
    /\ \A k \in from + 1 .. to - 1 : ~ succeeds(k)
    /\ recovered => from < to /\ succeeds(to)
    /\ ~ recovered => /\ to = from + act.max_attempts
                      /\ from < to => ~ succeeds(to)

\* The draw after which the record under way began.
Here == IF pc = "attempt" THEN tries - (current.action.max_attempts - current.left)
        ELSE tries

\* The attempts made so far for the record under way have failed.
Failing ==
    /\ tries <= Len(stream)
    /\ pc = "attempt" =>
         /\ Here >= 0
         /\ \A k \in Here + 1 .. tries : ~ (stream[k] < SuccessRate(current.action.type))

AllAlike == \A j \in 1..Len(results[LlmArm]) : Alike(j)

\* Where in the stream the records of the baseline ended, and that the other arm
\* is where the baseline was as long as it has classified alike.
DrawnBy(pos) ==
    /\ pos[0] = 0
    /\ \A i \in 1..Len(results[RuleArm]) :
         LET r == results[RuleArm][i] IN
         Run(stream, ActionFor(i, r.predicted), pos[i - 1], pos[i], r.recovered)
    /\ arm = RuleArm => Here = pos[Len(results[RuleArm])]
    /\ arm = LlmArm /\ pc \in {"record", "attempt"} /\ AllAlike =>
         Here = pos[Len(results[LlmArm])]

Drawn == \E pos \in [Nat -> Nat] : DrawnBy(pos)

DrawInv ==
    /\ Failing
    /\ Drawn
    /\ AgreeUntilFirstDifference

-----------------------------------------------------------------------------
(* Data *)

\* The two arms.
LEMMA TwoArms == Arms = {RuleArm, LlmArm} /\ RuleArm # LlmArm
BY DEF Arms, RuleArm, LlmArm

\* What is known of a labelled record.
LEMMA RecordIs ==
    ASSUME batch \in Seq(Records), NEW i \in 1..Len(batch)
    PROVE  /\ batch[i].code \in KnownCauses \cup {"unmapped"}
           /\ batch[i].ground_truth \in KnownCauses
           /\ batch[i].amount \in Nat
           /\ batch[i].code # "unmapped" => batch[i].ground_truth = batch[i].code
           /\ SourceOf(batch[i]) \in {"rule", "llm"}
<1>1. batch[i] \in Records
  OBVIOUS
<1> QED BY <1>1, EvaluationAssumption DEF SourceOf

\* Every cause has an action; what is unknown is escalated.
LEMMA ActionMapIs ==
    ASSUME NEW cause
    PROVE  ActionMap(cause) \in ActionTypes
BY DEF ActionMap, ActionTypes

LEMMA UnknownIsEscalated ==
    ActionMap("UNKNOWN") = "ESCALATE" /\ CapFor("UNKNOWN") = 0 /\ "UNKNOWN" \notin KnownCauses
BY DEF ActionMap, CapFor, KnownCauses

\* The action for a cause: of its type or an escalation, and without attempts
\* when the cause is unknown.
LEMMA ChosenIs ==
    ASSUME NEW cause \in Predictions, NEW amount \in Nat
    PROVE  LET act == Chosen(cause, amount, MinAmount, CapFor(cause)) IN
           /\ act \in ActionRecords
           /\ act.cause = cause
           /\ cause = "UNKNOWN" => act.max_attempts = 0
<1>1. CapFor(cause) \in Nat /\ ActionMap(cause) \in ActionTypes /\ "ESCALATE" \in ActionTypes
  BY ActionMapIs, EvaluationAssumption DEF CapFor, ActionTypes
<1>2. \A type \in ActionTypes, cap \in Nat, approved \in BOOLEAN :
        /\ Action(type, cap, cause, approved) \in ActionRecords
        /\ Action(type, cap, cause, approved).cause = cause
        /\ Action(type, cap, cause, approved).max_attempts = cap
  BY DEF Action, ActionRecords
<1>3. PICK act : act = Chosen(cause, amount, MinAmount, CapFor(cause))
  OBVIOUS
<1>4. CASE Rejected(ActionMap(cause), amount, MinAmount)
  <2>1. act = Action("ESCALATE", 0, cause, FALSE)
    BY <1>3, <1>4 DEF Chosen
  <2>2. act \in ActionRecords /\ act.cause = cause /\ act.max_attempts = 0
    BY <1>1, <1>2, <2>1
  <2> QED BY <1>3, <2>2
<1>5. CASE ~ Rejected(ActionMap(cause), amount, MinAmount)
  <2>1. act = Action(ActionMap(cause), CapFor(cause), cause, TRUE)
    BY <1>3, <1>5 DEF Chosen
  <2>2. act \in ActionRecords /\ act.cause = cause /\ act.max_attempts = CapFor(cause)
    BY <1>1, <1>2, <2>1
  <2> QED BY <1>3, <2>2, UnknownIsEscalated
<1> QED BY <1>4, <1>5

\* The fields of a decision.
LEMMA DecidedIs ==
    ASSUME NEW source \in {"none", "rule", "llm"}, NEW act \in ActionRecords
    PROVE  /\ Decided(source, act) \in Decisions
           /\ Decided(source, act).source = source
           /\ Decided(source, act).action = act
           /\ Decided(source, act).left = act.max_attempts
<1>1. act.max_attempts \in Nat
  BY DEF ActionRecords
<1> QED BY <1>1 DEF Decided, Decisions

\* Nothing is a decision.
LEMMA NothingIs == Nothing \in Decisions
<1>1. Action("ESCALATE", 0, "UNKNOWN", TRUE) \in ActionRecords
  BY DEF Action, ActionRecords, ActionTypes, Predictions
<1> QED BY <1>1, DecidedIs DEF Nothing

\* The types of what was decided.
LEMMA DecisionTypes ==
    ASSUME NEW d \in Decisions
    PROVE  /\ d.source \in {"none", "rule", "llm"}
           /\ d.action \in ActionRecords
           /\ d.action.type \in ActionTypes
           /\ d.action.max_attempts \in Nat
           /\ d.action.cause \in Predictions
           /\ d.left \in Nat
<1>1. d.source \in {"none", "rule", "llm"} /\ d.action \in ActionRecords /\ d.left \in Nat
  BY DEF Decisions
<1> QED BY <1>1 DEF ActionRecords

\* One more line at the end of an arm.
LEMMA LineAdded ==
    ASSUME EvalTypeOK, NEW line \in Lines,
           results' = [results EXCEPT ![arm] = Append(@, line)]
    PROVE  /\ results' \in [Arms -> Seq(Lines)]
           /\ Len(results'[arm]) = Len(results[arm]) + 1
           /\ results'[arm][Len(results[arm]) + 1] = line
           /\ \A i \in 1..Len(results[arm]) : results'[arm][i] = results[arm][i]
           /\ \A a \in Arms \ {arm} : results'[a] = results[a]
<1>1. results[arm] \in Seq(Lines) /\ arm \in Arms /\ results \in [Arms -> Seq(Lines)]
  BY DEF EvalTypeOK
<1>2. PICK s : s = Append(results[arm], line)
  OBVIOUS
<1>3. /\ s \in Seq(Lines) /\ Len(s) = Len(results[arm]) + 1
      /\ s[Len(results[arm]) + 1] = line
      /\ \A i \in 1..Len(results[arm]) : s[i] = results[arm][i]
  BY <1>1, <1>2, AppendProperties
<1>4. results' = [results EXCEPT ![arm] = s]
  BY <1>2
<1> QED BY <1>1, <1>3, <1>4

-----------------------------------------------------------------------------
(* What the arms measure *)

\* The baseline starts.
LEMMA MeasureInitially == Init => MeasureInv
<1> SUFFICES ASSUME Init PROVE MeasureInv
  OBVIOUS
<1>1. batch \in Seq(Records)
  BY EvaluationAssumption DEF Init
<1>2. EvalTypeOK
  BY <1>1, NothingIs, TwoArms, EmptySeq DEF Init, EvalTypeOK, RuleArm
<1>3. \A a \in Arms : results[a] = <<>> /\ calls[a] = 0
  BY DEF Init
<1>4. Len(batch) \in Nat
  BY <1>1
<1>5. Placed
  BY <1>3, <1>4, TwoArms DEF Init, Placed, RuleArm, LlmArm
<1>6. BySource(LlmArm, "llm") = {}
  BY <1>3, TwoArms DEF BySource
<1>7. Counted
  <2>1. Cardinality(BySource(LlmArm, "llm")) = 0
    BY <1>6, FS_EmptySet
  <2>2. calls[LlmArm] = 0 /\ pc # "attempt"
    BY <1>3, TwoArms DEF Init
  <2> QED BY <2>1, <2>2 DEF Counted
<1>8. \A a \in Arms : \A i \in 1..Len(results[a]) : LineTells(a, i)
  BY <1>3
<1> QED BY <1>2, <1>5, <1>7, <1>8 DEF Init, MeasureInv, Bound, Attempting

\* The cases of a source, as indices of the lines.
LEMMA BySourceIs ==
    ASSUME EvalTypeOK, NEW a \in Arms, NEW source
    PROVE  /\ BySource(a, source) = {i \in 1..Len(results[a]) : results[a][i].source = source}
           /\ IsFiniteSet(BySource(a, source)) /\ Cardinality(BySource(a, source)) \in Nat
<1>1. results[a] \in Seq(Lines)
  BY DEF EvalTypeOK
<1>2. Len(results[a]) \in Nat /\ DOMAIN results[a] = 1..Len(results[a])
  BY <1>1
<1>3. BySource(a, source) = {i \in 1..Len(results[a]) : results[a][i].source = source}
  BY <1>2 DEF BySource
<1>4. IsFiniteSet(1..Len(results[a]))
  BY <1>2, FS_Interval
<1>5. IsFiniteSet(BySource(a, source))
  BY <1>3, <1>4, FS_Subset
<1> QED BY <1>3, <1>5, FS_CardinalityType

\* Their number in the next state.
LEMMA NextBySource ==
    ASSUME EvalTypeOK', NEW a \in Arms, NEW source
    PROVE  Cardinality(BySource(a, source)') \in Nat
<1>1. results'[a] \in Seq(Lines)
  BY DEF EvalTypeOK
<1>2. BySource(a, source)' \subseteq 1..Len(results'[a]) /\ Len(results'[a]) \in Nat
  BY <1>1 DEF BySource
<1>4. IsFiniteSet(1..Len(results'[a]))
  BY <1>2, FS_Interval
<1>3. IsFiniteSet(BySource(a, source)')
  BY <1>2, <1>4, FS_Subset
<1> QED BY <1>3, FS_CardinalityType

\* A record is over: its line is added, and it counts for its source.
LEMMA FinishMeasures ==
    ASSUME MeasureInv, pc \in {"record", "attempt"},
           NEW n, n = Len(results[arm]) + 1, n <= Len(batch),
           NEW decided \in Decisions, decided.source = SourceOf(batch[n]),
           PredictedFrom(batch[n], arm, decided.action.cause),
           NEW recovered \in BOOLEAN, recovered => decided.action.cause # "UNKNOWN",
           Finish(decided, recovered), UNCHANGED <<batch, key, llm, arm>>,
           tries' \in Nat, stream' \in Seq(Draws), calls' \in [Arms -> Nat],
           calls'[RuleArm] = 0, arm = RuleArm => calls'[LlmArm] = 0,
           calls'[LlmArm] = Cardinality(BySource(LlmArm, "llm"))
                              + (IF arm = LlmArm /\ decided.source = "llm" THEN 1 ELSE 0)
    PROVE  MeasureInv'
<1> PICK line : line = Result(decided, recovered)
  OBVIOUS
<1>1. /\ results' = [results EXCEPT ![arm] = Append(@, line)]
      /\ current' = Nothing /\ pc' = "record"
  BY DEF Finish
<1>2. EvalTypeOK /\ arm \in Arms /\ results[arm] \in Seq(Lines) /\ Len(results[arm]) \in Nat
  BY SMTT(30) DEF MeasureInv, EvalTypeOK
<1>3. n \in 1..Len(batch) /\ Len(batch) \in Nat
  BY <1>2 DEF EvalTypeOK
<1>4. /\ line \in Lines
      /\ line.source = decided.source /\ line.predicted = decided.action.cause
      /\ line.correct = (decided.action.cause = batch[n].ground_truth)
      /\ line.recovered = recovered
  <2>1. decided.source \in {"rule", "llm"}
    BY <1>2, <1>3, RecordIs DEF EvalTypeOK
  <2> QED BY <2>1, DecisionTypes DEF Result, Record, Lines
<1>5. /\ results' \in [Arms -> Seq(Lines)]
      /\ Len(results'[arm]) = n
      /\ results'[arm][n] = line
      /\ \A i \in 1..Len(results[arm]) : results'[arm][i] = results[arm][i]
      /\ \A a \in Arms \ {arm} : results'[a] = results[a]
  BY <1>1, <1>2, <1>4, LineAdded
<1>6. EvalTypeOK'
  BY <1>1, <1>2, <1>5, NothingIs DEF EvalTypeOK
<1>7. Placed'
  <2>1. arm = RuleArm => results'[LlmArm] = <<>>
    BY <1>5, TwoArms DEF MeasureInv, Placed
  <2>2. arm = LlmArm => Len(results'[RuleArm]) = Len(batch)
    BY <1>5, TwoArms DEF MeasureInv, Placed
  <2>3. Len(results'[arm]) <= Len(batch)
    BY <1>5
  <2> QED BY <2>1, <2>2, <2>3, <1>1 DEF Placed
<1>8. Bound'
  BY <1>1 DEF MeasureInv, Bound
<1>9. ASSUME NEW a \in Arms, NEW i \in 1..Len(results'[a]) PROVE LineTells(a, i)'
  <2>1. CASE a = arm /\ i = n
    BY <2>1, <1>4, <1>5 DEF LineTells
  <2>2. CASE ~ (a = arm /\ i = n)
    <3>1. i \in 1..Len(results[a]) /\ results'[a][i] = results[a][i]
      <4>1. CASE a = arm
        <5>1. i \in 1..n /\ i # n
          BY <4>1, <2>2, <1>5
        <5>2. i \in 1..Len(results[arm])
          BY <5>1, <1>2
        <5> QED BY <4>1, <5>2, <1>5
      <4>2. CASE a # arm
        <5>1. results'[a] = results[a]
          BY <4>2, <1>5
        <5> QED BY <5>1
      <4> QED BY <4>1, <4>2
    <3>2. LineTells(a, i)
      BY <3>1 DEF MeasureInv
    <3> QED BY <3>1, <3>2 DEF LineTells
  <2> QED BY <2>1, <2>2
<1>10. Attempting'
  BY <1>1 DEF Attempting
<1>11. Counted'
  <2> PICK cases : cases = BySource(LlmArm, "llm")
    OBVIOUS
  <2>1. /\ cases = {i \in 1..Len(results[LlmArm]) : results[LlmArm][i].source = "llm"}
        /\ IsFiniteSet(cases) /\ Cardinality(cases) \in Nat
    BY <1>2, TwoArms, BySourceIs
  <2>2. BySource(LlmArm, "llm")'
          = {i \in 1..Len(results'[LlmArm]) : results'[LlmArm][i].source = "llm"}
    <3>1. results'[LlmArm] \in Seq(Lines)
      BY <1>5, TwoArms
    <3> QED BY <3>1 DEF BySource
  <2>3. Counted' <=> calls'[LlmArm] = Cardinality(BySource(LlmArm, "llm")')
    <3>1. Cardinality(BySource(LlmArm, "llm")') \in Nat
      BY <1>6, TwoArms, NextBySource
    <3> QED BY <3>1, <1>1 DEF Counted
  <2>4. CASE arm = LlmArm /\ decided.source = "llm"
    <3>1. BySource(LlmArm, "llm")' \subseteq cases \cup {n}
      <4> SUFFICES ASSUME NEW i \in 1..Len(results'[LlmArm]),
                          results'[LlmArm][i].source = "llm", i # n
                   PROVE  i \in cases
        BY <2>2
      <4>1. i \in 1..Len(results[LlmArm])
        BY <2>4, <1>2, <1>5
      <4> QED BY <4>1, <2>1, <2>4, <1>5
    <3>2. cases \cup {n} \subseteq BySource(LlmArm, "llm")' /\ n \notin cases
      <4>1. 1..Len(results[LlmArm]) \subseteq 1..n /\ n \in 1..n
            /\ n \notin 1..Len(results[LlmArm])
        BY <2>4, <1>2
      <4>2. \A i \in cases : results'[LlmArm][i] = results[LlmArm][i]
        BY <2>1, <2>4, <1>5
      <4>3. results'[LlmArm][n].source = "llm" /\ Len(results'[LlmArm]) = n
        BY <2>4, <1>4, <1>5
      <4> QED BY <4>1, <4>2, <4>3, <2>1, <2>2
    <3>3. Cardinality(cases \cup {n}) = Cardinality(cases) + 1
      BY <3>2, <2>1, FS_AddElement
    <3>4. BySource(LlmArm, "llm")' = cases \cup {n}
      BY <3>1, <3>2
    <3>5. calls'[LlmArm] = Cardinality(cases) + 1
      BY <2>1, <2>4
    <3> QED BY <3>3, <3>4, <3>5, <2>3
  <2>5. CASE ~ (arm = LlmArm /\ decided.source = "llm")
    <3>1. calls'[LlmArm] = Cardinality(cases)
      BY <2>1, <2>5
    <3>2. BySource(LlmArm, "llm")' = cases
      <4>1. CASE arm = LlmArm
        <5>1. \A i \in 1..n : i \in 1..Len(results[LlmArm]) \/ i = n
          BY <4>1, <1>2
        <5>2. 1..Len(results[LlmArm]) \subseteq 1..n /\ Len(results'[LlmArm]) = n
          BY <4>1, <1>2, <1>5
        <5>3. results'[LlmArm][n].source # "llm"
          BY <4>1, <2>5, <1>4, <1>5
        <5>4. \A i \in 1..Len(results[LlmArm]) : results'[LlmArm][i] = results[LlmArm][i]
          BY <4>1, <1>5
        <5>5. \A i \in BySource(LlmArm, "llm")' : i \in cases
          BY <4>1, <5>1, <5>2, <5>3, <5>4, <2>1, <2>2
        <5>6. \A i \in cases : i \in BySource(LlmArm, "llm")'
          BY <4>1, <5>2, <5>4, <2>1, <2>2
        <5> QED BY <5>5, <5>6
      <4>2. CASE arm # LlmArm
        BY <4>2, <2>1, <2>2, <1>5, TwoArms
      <4> QED BY <4>1, <4>2
    <3> QED BY <3>1, <3>2, <2>3
  <2> QED BY <2>4, <2>5
<1> QED BY <1>6, <1>7, <1>8, <1>9, <1>10, <1>11 DEF MeasureInv

\* An arm begins: the original is replaced by what the arm is to measure.
LEMMA BeginArmMeasures ==
    ASSUME MeasureInv, BeginArm
    PROVE  MeasureInv'
<1>1. /\ pc = "seed" /\ tries' = 0 /\ pc' = "record"
      /\ llm' = IF arm = RuleArm THEN "unknown"
                ELSE IF llm = "original" THEN "counted" ELSE "counted_unknown"
      /\ UNCHANGED <<batch, key, arm, current, stream, results, calls>>
  BY DEF BeginArm, Seeded, RuleArm
<1>2. llm = "original"
  BY <1>1 DEF MeasureInv, Bound
<1>3. EvalTypeOK'
  BY <1>1, <1>2 DEF MeasureInv, EvalTypeOK
<1>4. Placed' /\ Bound' /\ Attempting'
  BY <1>1, <1>2 DEF MeasureInv, Placed, Bound, Attempting
<1>5. Counted'
  <2>1. BySource(LlmArm, "llm")' = BySource(LlmArm, "llm")
    BY <1>1 DEF BySource
  <2> QED BY <2>1, <1>1 DEF MeasureInv, Counted
<1>6. \A a \in Arms : \A i \in 1..Len(results'[a]) : LineTells(a, i)'
  BY <1>1 DEF MeasureInv, LineTells
<1> QED BY <1>3, <1>4, <1>5, <1>6 DEF MeasureInv

\* An arm ends: the original is back, and the other arm is next.
LEMMA EndArmMeasures ==
    ASSUME MeasureInv, EndArm
    PROVE  MeasureInv'
<1>1. /\ pc = "record" /\ Len(results[arm]) = Len(batch)
      /\ llm' = "original" /\ arm' = LlmArm
      /\ pc' = IF arm = LlmArm THEN "report" ELSE "seed"
      /\ UNCHANGED <<batch, key, current, tries, stream, results, calls>>
  BY DEF EndArm, Restored, LlmArm
<1>2. arm \in {RuleArm, LlmArm}
  BY TwoArms DEF MeasureInv, EvalTypeOK
<1>3. EvalTypeOK'
  BY <1>1, TwoArms DEF MeasureInv, EvalTypeOK
<1>4. Placed'
  <2>1. Len(batch) \in Nat
    BY DEF MeasureInv, EvalTypeOK
  <2>2. CASE arm = RuleArm
    <3>1. results[LlmArm] = <<>> /\ calls[LlmArm] = 0 /\ calls[RuleArm] = 0
      BY <2>2 DEF MeasureInv, Placed
    <3> QED BY <3>1, <2>1, <2>2, <1>1, TwoArms DEF Placed
  <2>3. CASE arm = LlmArm
    BY <2>3, <2>1, <1>1, TwoArms DEF MeasureInv, Placed
  <2> QED BY <2>2, <2>3, <1>2
<1>5. Bound' /\ Attempting'
  BY <1>1 DEF Bound, Attempting
<1>6. Counted'
  <2>1. BySource(LlmArm, "llm")' = BySource(LlmArm, "llm")
    BY <1>1 DEF BySource
  <2>2. pc # "attempt" /\ pc' # "attempt"
    BY <1>1
  <2> QED BY <2>1, <2>2, <1>1 DEF MeasureInv, Counted
<1>7. \A a \in Arms : \A i \in 1..Len(results'[a]) : LineTells(a, i)'
  BY <1>1 DEF MeasureInv, LineTells
<1> QED BY <1>3, <1>4, <1>5, <1>6, <1>7 DEF MeasureInv

\* The decision on the record of that index, once its cause is known.
DecisionOn(i, cause) == Decided(SourceOf(batch[i]), ActionFor(i, cause))

\* What a record is decided to be, by rule or by the LLM.
LEMMA DecideIs ==
    ASSUME MeasureInv, NEW cause \in Predictions, Decide(cause),
           NEW n, n = Len(results[arm]) + 1
    PROVE  LET decided == DecisionOn(n, cause) IN
           /\ pc = "record" /\ n \in 1..Len(batch)
           /\ UNCHANGED <<batch, key, llm, arm, tries, stream>>
           /\ decided \in Decisions /\ decided.source = SourceOf(batch[n])
           /\ decided.action = ActionFor(n, cause) /\ decided.action.cause = cause
           /\ decided.left = decided.action.max_attempts
           /\ cause = "UNKNOWN" => decided.left = 0
           /\ PredictedFrom(batch[n], arm, cause)
           /\ calls' = IF decided.source = "llm" /\ arm = LlmArm
                       THEN [calls EXCEPT ![arm] = @ + 1] ELSE calls
           /\ IF decided.left = 0 THEN Finish(decided, FALSE)
              ELSE current' = decided /\ pc' = "attempt" /\ UNCHANGED results
<1> PICK decided : decided = DecisionOn(n, cause)
  OBVIOUS
<1>1. EvalTypeOK /\ Len(results[arm]) \in Nat /\ Len(batch) \in Nat /\ arm \in Arms
  BY DEF MeasureInv, EvalTypeOK
<1>2. /\ pc = "record" /\ Len(results[arm]) < Len(batch)
      /\ UNCHANGED <<batch, key, llm, arm, tries, stream>>
  BY DEF Decide
<1>3. n \in 1..Len(batch)
  BY <1>1, <1>2
<1>4. Record = batch[n]
  BY DEF Record
<1>5. SourceOf(batch[n]) \in {"rule", "llm"} /\ batch[n].amount \in Nat
  BY <1>1, <1>3, RecordIs DEF EvalTypeOK
<1>6. PICK act : act = ActionFor(n, cause)
  OBVIOUS
<1>7. act \in ActionRecords /\ act.cause = cause /\ (cause = "UNKNOWN" => act.max_attempts = 0)
  BY <1>5, <1>6, ChosenIs DEF ActionFor
<1>8. /\ decided \in Decisions /\ decided.source = SourceOf(batch[n])
      /\ decided.action = act /\ decided.left = act.max_attempts
  BY <1>5, <1>6, <1>7, DecidedIs DEF DecisionOn
<1>9. decided = Decided(IF Record.code = "unmapped" THEN "llm" ELSE "rule",
                        Chosen(cause, Record.amount, MinAmount, CapFor(cause)))
  BY <1>4 DEF SourceOf, ActionFor, DecisionOn
<1>10. /\ cause \in IF SourceOf(batch[n]) = "llm" THEN Answers ELSE {batch[n].code}
       /\ calls' = IF decided.source = "llm" /\ llm # "unknown"
                   THEN [calls EXCEPT ![arm] = @ + 1] ELSE calls
       /\ IF decided.left = 0 THEN Finish(decided, FALSE)
          ELSE current' = decided /\ pc' = "attempt" /\ UNCHANGED results
  <2> PICK source : source = IF Record.code = "unmapped" THEN "llm" ELSE "rule"
    OBVIOUS
  <2>1. decided = Decided(source, Chosen(cause, Record.amount, MinAmount, CapFor(cause)))
    BY <1>9
  <2>2. source = SourceOf(batch[n]) /\ decided.source = source
    BY <1>4, <1>8 DEF SourceOf
  <2>3. cause \in IF source = "llm" THEN Answers ELSE {Record.code}
    BY DEF Decide
  <2>4. calls' = IF source = "llm" /\ llm # "unknown"
                 THEN [calls EXCEPT ![arm] = @ + 1] ELSE calls
    BY DEF Decide
  <2>5. IF decided.left = 0 THEN Finish(decided, FALSE)
        ELSE current' = decided /\ pc' = "attempt" /\ UNCHANGED results
    BY <2>1 DEF Decide
  <2> QED BY <1>4, <2>2, <2>3, <2>4, <2>5
<1>11. llm = IF arm = RuleArm THEN "unknown" ELSE "counted"
  BY <1>2 DEF MeasureInv, Bound
<1>12. PredictedFrom(batch[n], arm, cause)
  BY <1>10, <1>11 DEF PredictedFrom, SourceOf, Answers
<1>13. llm # "unknown" <=> arm = LlmArm
  BY <1>1, <1>11, TwoArms
<1> QED BY <1>2, <1>3, <1>6, <1>7, <1>8, <1>10, <1>12, <1>13

LEMMA DecideMeasures ==
    ASSUME MeasureInv, NEW cause \in Predictions, Decide(cause)
    PROVE  MeasureInv'
<1> PICK n : n = Len(results[arm]) + 1
  OBVIOUS
<1> PICK d : d = DecisionOn(n, cause)
  OBVIOUS
<1>1. /\ pc = "record" /\ n \in 1..Len(batch)
      /\ UNCHANGED <<batch, key, llm, arm, tries, stream>>
      /\ d \in Decisions /\ d.source = SourceOf(batch[n])
      /\ d.action = ActionFor(n, cause) /\ d.action.cause = cause
      /\ d.left = d.action.max_attempts
      /\ cause = "UNKNOWN" => d.left = 0
      /\ PredictedFrom(batch[n], arm, cause)
      /\ calls' = IF d.source = "llm" /\ arm = LlmArm
                  THEN [calls EXCEPT ![arm] = @ + 1] ELSE calls
      /\ IF d.left = 0 THEN Finish(d, FALSE)
         ELSE current' = d /\ pc' = "attempt" /\ UNCHANGED results
  BY DecideIs
<1>2. EvalTypeOK /\ Placed /\ Counted
  BY DEF MeasureInv
<1>3. /\ calls' \in [Arms -> Nat] /\ calls'[RuleArm] = 0
      /\ arm = RuleArm => calls'[LlmArm] = 0
      /\ calls'[LlmArm] = Cardinality(BySource(LlmArm, "llm"))
                            + (IF arm = LlmArm /\ d.source = "llm" THEN 1 ELSE 0)
  <2>1. calls \in [Arms -> Nat] /\ arm \in Arms /\ calls[RuleArm] = 0
        /\ (arm = RuleArm => calls[LlmArm] = 0)
    BY <1>2 DEF EvalTypeOK, Placed
  <2>2. calls[LlmArm] = Cardinality(BySource(LlmArm, "llm"))
        /\ Cardinality(BySource(LlmArm, "llm")) \in Nat
    BY <1>1, <1>2, BySourceIs, TwoArms DEF Counted
  <2>3. CASE d.source = "llm" /\ arm = LlmArm
    <3>1. calls' = [calls EXCEPT ![arm] = calls[arm] + 1]
      BY <2>3, <1>1
    <3> QED BY <3>1, <2>1, <2>2, <2>3, TwoArms
  <2>4. CASE ~ (d.source = "llm" /\ arm = LlmArm)
    BY <2>1, <2>2, <2>4, <1>1
  <2> QED BY <2>3, <2>4
<1>4. n <= Len(batch) /\ tries' \in Nat /\ stream' \in Seq(Draws)
  BY <1>1, <1>2 DEF EvalTypeOK
<1>5. CASE d.left = 0
  BY <1>1, <1>3, <1>4, <1>5, FinishMeasures
<1>6. CASE d.left # 0
  <2>1. current' = d /\ pc' = "attempt" /\ UNCHANGED results
    BY <1>1, <1>6
  <2>2. EvalTypeOK'
    BY <2>1, <1>1, <1>2, <1>3 DEF EvalTypeOK
  <2>3. Placed'
    <3>1. n = Len(results[arm]) + 1 /\ Len(results[arm]) \in Nat /\ Len(batch) \in Nat
      BY <1>2 DEF EvalTypeOK
    <3> QED BY <3>1, <2>1, <1>1, <1>2, <1>3 DEF Placed
  <2>4. Bound'
    BY <2>1, <1>1 DEF MeasureInv, Bound
  <2>5. Attempting'
    <3>1. ActionFor(n, cause)' = ActionFor(n, cause)
      BY <1>1 DEF ActionFor
    <3>2. d.left \in 1..d.action.max_attempts
      BY <1>1, <1>6, DecisionTypes
    <3> QED BY <3>1, <3>2, <2>1, <1>1 DEF Attempting, ActionFor
  <2>6. Counted'
    <3>1. BySource(LlmArm, "llm")' = BySource(LlmArm, "llm")
      BY <2>1 DEF BySource
    <3> QED BY <3>1, <2>1, <1>1, <1>3 DEF Counted
  <2>7. \A a \in Arms : \A i \in 1..Len(results'[a]) : LineTells(a, i)'
    BY <2>1, <1>1 DEF MeasureInv, LineTells
  <2> QED BY <2>2, <2>3, <2>4, <2>5, <2>6, <2>7 DEF MeasureInv
<1> QED BY <1>5, <1>6

\* One attempt, of the record under way.
LEMMA AttemptMeasures ==
    ASSUME MeasureInv, NEW draw \in Draws, Attempt(draw)
    PROVE  MeasureInv'
<1> PICK n : n = Len(results[arm]) + 1
  OBVIOUS
<1>1. /\ pc = "attempt" /\ tries' = tries + 1
      /\ UNCHANGED <<batch, key, llm, arm, calls>>
  BY DEF Attempt
<1>2. EvalTypeOK /\ Placed /\ Counted
  BY DEF MeasureInv
<1>3. /\ n \in 1..Len(batch) /\ n <= Len(batch) /\ Len(results[arm]) \in Nat
      /\ current \in Decisions
  BY <1>1, <1>2 DEF EvalTypeOK, Placed
<1>4. /\ current.source = SourceOf(batch[n])
      /\ PredictedFrom(batch[n], arm, current.action.cause)
      /\ current.action = ActionFor(n, current.action.cause)
      /\ current.left \in 1..current.action.max_attempts
  BY <1>1 DEF MeasureInv, Attempting
<1>5. current.action.cause # "UNKNOWN"
  <2>1. current.action.cause \in Predictions /\ batch[n].amount \in Nat
        /\ current.action.max_attempts \in Nat
    BY <1>2, <1>3, DecisionTypes, RecordIs DEF EvalTypeOK
  <2>2. current.action.max_attempts # 0
    BY <1>4, <2>1
  <2>3. current.action.cause = "UNKNOWN" => current.action.max_attempts = 0
    BY <1>4, <2>1, ChosenIs DEF ActionFor
  <2> QED BY <2>2, <2>3
<1>6. tries' \in Nat /\ stream' \in Seq(Draws)
  <2>1. stream' = stream \/ stream' = Append(stream, draw)
    BY DEF Attempt
  <2>2. stream \in Seq(Draws) /\ tries \in Nat
    BY <1>2 DEF EvalTypeOK
  <2>3. Append(stream, draw) \in Seq(Draws)
    BY <2>2, AppendProperties
  <2> QED BY <2>1, <2>2, <2>3, <1>1
<1>7. CASE Succeeds(draw) \/ current.left = 1
  <2>1. Finish(current, Succeeds(draw)) /\ Succeeds(draw) \in BOOLEAN
    BY <1>7 DEF Attempt, Succeeds
  <2>2. /\ calls' \in [Arms -> Nat] /\ calls'[RuleArm] = 0
        /\ arm = RuleArm => calls'[LlmArm] = 0
        /\ calls'[LlmArm] = Cardinality(BySource(LlmArm, "llm"))
                              + (IF arm = LlmArm /\ current.source = "llm" THEN 1 ELSE 0)
    BY <1>1, <1>2 DEF EvalTypeOK, Placed, Counted
  <2>3. pc \in {"record", "attempt"}
    BY <1>1
  <2> QED BY <2>1, <2>2, <2>3, <1>1, <1>3, <1>4, <1>5, <1>6, FinishMeasures
<1>8. CASE ~ (Succeeds(draw) \/ current.left = 1)
  <2>1. current' = [current EXCEPT !.left = @ - 1] /\ UNCHANGED <<pc, results>>
    BY <1>8 DEF Attempt
  <2>2. /\ current' \in Decisions
        /\ current'.source = current.source /\ current'.action = current.action
        /\ current'.left = current.left - 1
    <3>1. current.left - 1 \in Nat
      BY <1>3, <1>4, DecisionTypes
    <3> QED BY <3>1, <2>1, <1>3 DEF Decisions
  <2>3. EvalTypeOK'
    BY <2>1, <2>2, <1>1, <1>2, <1>6 DEF EvalTypeOK
  <2>4. Placed' /\ Bound'
    BY <2>1, <1>1 DEF MeasureInv, Placed, Bound
  <2>5. Attempting'
    <3>1. current'.left \in 1..current'.action.max_attempts
      BY <2>2, <1>3, <1>4, <1>8, DecisionTypes
    <3> QED BY <3>1, <2>1, <2>2, <1>1, <1>4 DEF Attempting, ActionFor
  <2>6. Counted'
    <3>1. BySource(LlmArm, "llm")' = BySource(LlmArm, "llm")
      BY <2>1 DEF BySource
    <3> QED BY <3>1, <2>1, <2>2, <1>1, <1>2 DEF Counted
  <2>7. \A a \in Arms : \A i \in 1..Len(results'[a]) : LineTells(a, i)'
    BY <2>1, <1>1 DEF MeasureInv, LineTells
  <2> QED BY <2>3, <2>4, <2>5, <2>6, <2>7 DEF MeasureInv
<1> QED BY <1>7, <1>8

LEMMA NextMeasures == ASSUME MeasureInv, [Next]_vars PROVE MeasureInv'
<1>1. CASE UNCHANGED vars
  <2>1. UNCHANGED <<batch, key, llm, arm, pc, current, tries, stream, results, calls>>
    BY <1>1 DEF vars
  <2>2. EvalTypeOK' /\ Placed' /\ Bound' /\ Attempting'
    BY <2>1 DEF MeasureInv, EvalTypeOK, Placed, Bound, Attempting, ActionFor
  <2>3. BySource(LlmArm, "llm")' = BySource(LlmArm, "llm")
    BY <2>1 DEF BySource
  <2>4. Counted'
    BY <2>1, <2>3 DEF MeasureInv, Counted
  <2>5. \A a \in Arms : \A i \in 1..Len(results'[a]) : LineTells(a, i)'
    BY <2>1 DEF MeasureInv, LineTells
  <2> QED BY <2>2, <2>4, <2>5 DEF MeasureInv
<1> QED BY <1>1, BeginArmMeasures, EndArmMeasures, DecideMeasures, AttemptMeasures
        DEF Next, Predictions

\* The lines tell what the script says of its arms.
LEMMA MeasureTells == ASSUME MeasureInv PROVE FallbackMeasured
<1>1. EvalTypeOK /\ Placed /\ Bound /\ Counted
  BY DEF MeasureInv
<1>2. batch \in Seq(Records) /\ Len(batch) \in Nat
  BY <1>1 DEF EvalTypeOK
<1>3. ASSUME NEW a \in Arms
      PROVE  DOMAIN results[a] = 1..Len(results[a]) /\ DOMAIN results[a] \subseteq 1..Len(batch)
  <2>1. results[a] \in Seq(Lines) /\ Len(results[a]) \in Nat
    BY <1>1 DEF EvalTypeOK
  <2>2. Len(results[a]) <= Len(batch)
    <3>1. CASE a = arm
      BY <3>1, <1>1 DEF Placed
    <3>2. CASE a # arm /\ a = LlmArm
      <4>1. results[a] = <<>>
        BY <3>2, <1>1, TwoArms DEF Placed, EvalTypeOK
      <4> QED BY <4>1, <1>2
    <3>3. CASE a # arm /\ a = RuleArm
      <4>1. Len(results[a]) = Len(batch)
        BY <3>3, <1>1, TwoArms DEF Placed, EvalTypeOK
      <4> QED BY <4>1, <1>2
    <3> QED BY <3>1, <3>2, <3>3, TwoArms
  <2> QED BY <2>1, <2>2, <1>2
<1>4. ASSUME NEW a \in Arms, NEW i \in DOMAIN results[a]
      PROVE  /\ batch[i].ground_truth \in KnownCauses
             /\ batch[i].code # "unmapped" => batch[i].ground_truth = batch[i].code
             /\ results[a][i].source = SourceOf(batch[i])
             /\ PredictedFrom(batch[i], a, results[a][i].predicted)
             /\ results[a][i].correct <=> results[a][i].predicted = batch[i].ground_truth
             /\ results[a][i].recovered => results[a][i].predicted # "UNKNOWN"
  <2>1. i \in 1..Len(batch) /\ i \in 1..Len(results[a])
    BY <1>3
  <2>2. LineTells(a, i)
    BY <2>1 DEF MeasureInv
  <2> QED BY <2>1, <2>2, <1>2, RecordIs DEF LineTells
<1>5. ASSUME NEW i \in DOMAIN results[RuleArm]
      PROVE  /\ results[RuleArm][i].correct <=> results[RuleArm][i].source = "rule"
             /\ results[RuleArm][i].recovered => results[RuleArm][i].correct
  BY <1>4, TwoArms, UnknownIsEscalated DEF SourceOf, PredictedFrom
<1>6. Correct(RuleArm) = BySource(RuleArm, "rule")
  BY <1>5 DEF Correct, BySource
<1>7. Recovered(RuleArm) \subseteq Correct(RuleArm)
  BY <1>5 DEF Correct, Recovered
<1>8. Compared \cap Correct(RuleArm) \subseteq Correct(LlmArm)
  <2> SUFFICES ASSUME NEW i \in DOMAIN results[RuleArm], i \in DOMAIN results[LlmArm],
                      results[RuleArm][i].correct
               PROVE  results[LlmArm][i].correct
    BY DEF Compared, Correct, RuleArm, LlmArm
  <2>1. batch[i].code # "unmapped"
    BY <1>4, <1>5, TwoArms DEF SourceOf
  <2> QED BY <2>1, <1>4, TwoArms DEF PredictedFrom
<1>9. /\ arm = LlmArm /\ pc \in {"record", "attempt"} => llm = "counted"
      /\ pc \in {"seed", "report"} => llm = "original"
  BY <1>1, TwoArms DEF Bound
<1>10. pc = "report" => /\ calls[RuleArm] = 0
                        /\ calls[LlmArm] = Cardinality(BySource(LlmArm, "llm"))
  <2>1. Cardinality(BySource(LlmArm, "llm")) \in Nat
    BY <1>1, TwoArms, BySourceIs
  <2> QED BY <2>1, <1>1 DEF Placed, Counted
<1> QED BY <1>6, <1>7, <1>8, <1>9, <1>10 DEF FallbackMeasured, RuleArm, LlmArm

\* evaluate: rule-only misses are escalated and recover nothing, the baseline is
\* as accurate as the rules, and what the second arm does better is the LLM's,
\* asked itself once for each record that no rule maps: for every batch.
THEOREM FallbackIsMeasured == Spec => []FallbackMeasured
<1>1. MeasureInv => FallbackMeasured
  BY MeasureTells
<1> QED BY <1>1, MeasureInitially, NextMeasures, PTL DEF Spec

-----------------------------------------------------------------------------
(* What the seed fixes *)

\* The draws fix how many attempts an action makes, and whether it recovers.
LEMMA RunFixed ==
    ASSUME NEW draws, NEW act, act.max_attempts \in Nat,
           NEW from \in Nat, NEW to1 \in Nat, NEW to2 \in Nat,
           NEW rec1 \in BOOLEAN, NEW rec2 \in BOOLEAN,
           Run(draws, act, from, to1, rec1), Run(draws, act, from, to2, rec2)
    PROVE  to1 = to2 /\ rec1 = rec2
<1> PICK m \in Nat : m = act.max_attempts
  OBVIOUS
<1> DEFINE succeeds(k) == draws[k] < SuccessRate(act.type)
<1>1. /\ from <= to1 /\ to1 <= from + m
      /\ \A k \in from + 1 .. to1 - 1 : ~ succeeds(k)
      /\ rec1 => from < to1 /\ succeeds(to1)
      /\ ~ rec1 => to1 = from + m /\ (from < to1 => ~ succeeds(to1))
  BY DEF Run
<1>2. /\ from <= to2 /\ to2 <= from + m
      /\ \A k \in from + 1 .. to2 - 1 : ~ succeeds(k)
      /\ rec2 => from < to2 /\ succeeds(to2)
      /\ ~ rec2 => to2 = from + m /\ (from < to2 => ~ succeeds(to2))
  BY DEF Run
<1> HIDE DEF succeeds
<1>3. ~ (to1 < to2)
  <2> SUFFICES ASSUME to1 < to2 PROVE FALSE
    OBVIOUS
  <2>1. rec1 /\ to1 \in from + 1 .. to2 - 1
    BY <1>1, <1>2
  <2> QED BY <2>1, <1>1, <1>2
<1>4. ~ (to2 < to1)
  <2> SUFFICES ASSUME to2 < to1 PROVE FALSE
    OBVIOUS
  <2>1. rec2 /\ to2 \in from + 1 .. to1 - 1
    BY <1>1, <1>2
  <2> QED BY <2>1, <1>1, <1>2
<1>5. to1 = to2
  BY <1>3, <1>4
<1>6. rec1 <=> rec2
  BY <1>1, <1>2, <1>5
<1> QED BY <1>5, <1>6

\* Later draws do not change what earlier ones fixed.
LEMMA RunGrows ==
    ASSUME NEW old \in Seq(Draws), NEW new \in Seq(Draws), Len(old) <= Len(new),
           \A k \in 1..Len(old) : new[k] = old[k],
           NEW act, NEW from \in Nat, NEW to \in Nat, NEW recovered \in BOOLEAN,
           Run(old, act, from, to, recovered)
    PROVE  Run(new, act, from, to, recovered)
<1>1. Len(old) \in Nat /\ Len(new) \in Nat
  OBVIOUS
<1>2. /\ from <= to /\ to <= from + act.max_attempts /\ to <= Len(old)
      /\ \A k \in from + 1 .. to - 1 : ~ (old[k] < SuccessRate(act.type))
      /\ recovered => from < to /\ old[to] < SuccessRate(act.type)
      /\ ~ recovered => /\ to = from + act.max_attempts
                        /\ from < to => ~ (old[to] < SuccessRate(act.type))
  BY DEF Run
<1>3. to <= Len(new)
  BY <1>1, <1>2
<1>4. \A k \in from + 1 .. to - 1 : new[k] = old[k]
  BY <1>1, <1>2
<1>5. from < to => new[to] = old[to]
  BY <1>1, <1>2
<1> QED BY <1>2, <1>3, <1>4, <1>5 DEF Run

\* The record under way began at some draw.
LEMMA HereIs ==
    ASSUME MeasureInv, Failing
    PROVE  /\ Here \in Nat
           /\ pc # "attempt" => Here = tries
           /\ pc = "attempt" =>
                /\ current.action.max_attempts \in Nat
                /\ current.left \in 1..current.action.max_attempts
                /\ Here = tries - (current.action.max_attempts - current.left)
<1>1. tries \in Nat /\ current \in Decisions
  BY DEF MeasureInv, EvalTypeOK
<1>2. current.action.max_attempts \in Nat /\ current.left \in Nat
  BY <1>1, DecisionTypes
<1> QED BY <1>1, <1>2 DEF MeasureInv, Attempting, Failing, Here

\* What an attempt draws: what the seed has fixed, or something new.
LEMMA AttemptDraws ==
    ASSUME MeasureInv, Failing, NEW draw \in Draws, Attempt(draw)
    PROVE  /\ stream \in Seq(Draws) /\ stream' \in Seq(Draws)
           /\ Len(stream) <= Len(stream')
           /\ \A k \in 1..Len(stream) : stream'[k] = stream[k]
           /\ tries' = tries + 1 /\ tries' \in Nat /\ tries' <= Len(stream')
           /\ stream'[tries'] = draw
<1>1. stream \in Seq(Draws) /\ Len(stream) \in Nat /\ tries \in Nat /\ tries <= Len(stream)
  BY DEF MeasureInv, EvalTypeOK, Failing
<1>2. /\ tries' = tries + 1
      /\ IF tries < Len(stream) THEN draw = stream[tries + 1] /\ UNCHANGED stream
                                ELSE stream' = Append(stream, draw)
  BY DEF Attempt
<1>3. CASE tries < Len(stream)
  BY <1>1, <1>2, <1>3
<1>4. CASE ~ (tries < Len(stream))
  <2>1. tries = Len(stream) /\ stream' = Append(stream, draw)
    BY <1>1, <1>2, <1>4
  <2>2. /\ stream' \in Seq(Draws) /\ Len(stream') = Len(stream) + 1
        /\ stream'[Len(stream) + 1] = draw
        /\ \A k \in 1..Len(stream) : stream'[k] = stream[k]
    BY <1>1, <2>1, AppendProperties
  <2> QED BY <1>1, <1>2, <2>1, <2>2
<1> QED BY <1>3, <1>4

\* A record whose last attempt this is ran as the draws say.
LEMMA LastAttemptRuns ==
    ASSUME MeasureInv, Failing, NEW draw \in Draws, Attempt(draw),
           Succeeds(draw) \/ current.left = 1
    PROVE  Run(stream', current.action, Here, tries', Succeeds(draw))
<1>1. pc = "attempt"
  BY DEF Attempt
<1>2. PICK m \in Nat : /\ m = current.action.max_attempts /\ current.left \in 1..m
                       /\ Here = tries - (m - current.left) /\ Here \in Nat
  BY <1>1, HereIs
<1>3. /\ Len(stream) <= Len(stream')
      /\ Len(stream) \in Nat /\ Len(stream') \in Nat /\ tries \in Nat /\ tries <= Len(stream)
      /\ \A k \in 1..Len(stream) : stream'[k] = stream[k]
      /\ tries' = tries + 1 /\ tries' <= Len(stream') /\ stream'[tries'] = draw
  BY AttemptDraws DEF MeasureInv, EvalTypeOK, Failing
<1>4. \A k \in Here + 1 .. tries : ~ (stream[k] < SuccessRate(current.action.type))
  BY <1>1 DEF Failing
<1>5. \A k \in Here + 1 .. tries' - 1 : ~ (stream'[k] < SuccessRate(current.action.type))
  <2> SUFFICES ASSUME NEW k \in Here + 1 .. tries' - 1
               PROVE  ~ (stream'[k] < SuccessRate(current.action.type))
    OBVIOUS
  <2>1. k \in Here + 1 .. tries /\ k \in 1..Len(stream)
    BY SMTT(30), <1>2, <1>3
  <2> QED BY <2>1, <1>3, <1>4
<1>6. Succeeds(draw) <=> stream'[tries'] < SuccessRate(current.action.type)
  BY <1>3 DEF Succeeds
<1>7. Here <= tries' /\ tries' <= Here + m /\ Here < tries'
  <2>1. PICK l \in 1..m : l = current.left
    BY <1>2
  <2>2. Here = tries - (m - l) /\ tries' = tries + 1 /\ tries \in Nat /\ Here \in Nat
    BY <2>1, <1>2, <1>3
  <2> QED BY <2>1, <2>2
<1>8. ~ Succeeds(draw) => tries' = Here + m
  BY <1>2, <1>3
<1> QED BY <1>2, <1>3, <1>5, <1>6, <1>7, <1>8 DEF Run

\* Indices up to n.
LEMMA Indices ==
    ASSUME NEW n \in Nat \ {0}, NEW i \in 1..n
    PROVE  /\ i \in Nat /\ i - 1 \in Nat /\ i - 1 # n
           /\ i # n => i \in 1..n - 1
           /\ n - 1 \in Nat /\ n - 1 # n /\ n \in Nat
OBVIOUS

\* The types of a line.
LEMMA LineTypes ==
    ASSUME EvalTypeOK, NEW a \in Arms, NEW i \in 1..Len(results[a])
    PROVE  /\ results[a][i] \in Lines
           /\ results[a][i].predicted \in Predictions
           /\ results[a][i].recovered \in BOOLEAN
<1>1. results[a] \in Seq(Lines)
  BY DEF EvalTypeOK
<1>2. results[a][i] \in Lines
  BY <1>1
<1> QED BY <1>2 DEF Lines

\* The lines of the baseline that an arm under way is compared with.
LEMMA ComparedIs ==
    ASSUME MeasureInv
    PROVE  /\ arm = RuleArm => Compared = {}
           /\ arm = LlmArm => /\ Compared = 1..Len(results[LlmArm])
                              /\ Len(results[RuleArm]) = Len(batch)
           /\ \A a \in Arms : Len(results[a]) \in Nat
<1>1. results \in [Arms -> Seq(Lines)] /\ Len(batch) \in Nat
  BY DEF MeasureInv, EvalTypeOK
<1>2. \A a \in Arms : Len(results[a]) \in Nat /\ DOMAIN results[a] = 1..Len(results[a])
  BY <1>1
<1>3. Compared = DOMAIN results[RuleArm] \cap DOMAIN results[LlmArm]
  BY DEF Compared, RuleArm, LlmArm
<1>4. CASE arm = RuleArm
  <2>1. results[LlmArm] = <<>>
    BY <1>4 DEF MeasureInv, Placed
  <2>2. DOMAIN results[LlmArm] = {}
    BY <2>1
  <2> QED BY <2>2, <1>2, <1>3, <1>4, TwoArms
<1>5. CASE arm = LlmArm
  <2>1. Len(results[RuleArm]) = Len(batch) /\ Len(results[LlmArm]) <= Len(batch)
    BY <1>5 DEF MeasureInv, Placed
  <2>2. 1..Len(results[LlmArm]) \subseteq 1..Len(results[RuleArm])
    BY <2>1, <1>1, <1>2, TwoArms
  <2> QED BY <2>1, <2>2, <1>2, <1>3, <1>5, TwoArms
<1>6. arm \in Arms
  BY DEF MeasureInv, EvalTypeOK
<1> QED BY <1>2, <1>4, <1>5, <1>6, TwoArms

\* The lines that an arm has added stay as they are, and so do the other arm's.
LEMMA LinesKept ==
    ASSUME MeasureInv, MeasureInv', arm' = arm,
           NEW n, n = Len(results[arm]) + 1, NEW decided, NEW recovered \in BOOLEAN,
           Finish(decided, recovered)
    PROVE  /\ Len(results'[arm]) = n
           /\ results'[arm][n].predicted = decided.action.cause
           /\ results'[arm][n].recovered = recovered
           /\ \A i \in 1..Len(results[arm]) : results'[arm][i] = results[arm][i]
           /\ \A a \in Arms \ {arm} : results'[a] = results[a]
           /\ pc' = "record"
<1>1. PICK line : line = Result(decided, recovered)
  OBVIOUS
<1>2. results' = [results EXCEPT ![arm] = Append(@, line)] /\ pc' = "record"
  BY <1>1 DEF Finish
<1>3. line.predicted = decided.action.cause /\ line.recovered = recovered
  BY <1>1 DEF Result
<1>4. arm \in Arms /\ results \in [Arms -> Seq(Lines)] /\ results[arm] \in Seq(Lines)
  BY DEF MeasureInv, EvalTypeOK
<1>5. results'[arm] = Append(results[arm], line)
  BY <1>2, <1>4
<1>6. \A a \in Arms \ {arm} : results'[a] = results[a]
  BY <1>2, <1>4
<1>7. /\ Len(Append(results[arm], line)) = n
      /\ Append(results[arm], line)[n] = line
      /\ \A i \in 1..Len(results[arm]) : Append(results[arm], line)[i] = results[arm][i]
  BY <1>4
<1> QED BY <1>2, <1>3, <1>5, <1>6, <1>7

\* What the baseline's draws fixed holds of the longer stream too.
LEMMA BaselineRuns ==
    ASSUME MeasureInv, MeasureInv', NEW pos \in [Nat -> Nat], DrawnBy(pos),
           NEW i \in 1..Len(results[RuleArm]),
           Len(stream) <= Len(stream'), \A k \in 1..Len(stream) : stream'[k] = stream[k]
    PROVE  Run(stream', ActionFor(i, results[RuleArm][i].predicted), pos[i - 1], pos[i],
               results[RuleArm][i].recovered)
<1> PICK act : act = ActionFor(i, results[RuleArm][i].predicted)
  OBVIOUS
<1> PICK rec \in BOOLEAN : rec = results[RuleArm][i].recovered
  BY TwoArms, LineTypes DEF MeasureInv
<1>1. i \in Nat /\ i - 1 \in Nat
  <2>1. Len(results[RuleArm]) \in Nat
    BY ComparedIs, TwoArms
  <2> QED BY ONLY <2>1, i \in 1..Len(results[RuleArm])
<1> PICK from \in Nat, to \in Nat : from = pos[i - 1] /\ to = pos[i]
  BY <1>1
<1>2. Run(stream, act, from, to, rec)
  BY DEF DrawnBy
<1>3. stream \in Seq(Draws) /\ stream' \in Seq(Draws)
  BY DEF MeasureInv, EvalTypeOK
<1>4. Len(stream) <= Len(stream') /\ \A k \in 1..Len(stream) : stream'[k] = stream[k]
  OBVIOUS
<1>5. Run(stream', act, from, to, rec)
  BY ONLY ZenonT(60), <1>2, <1>3, <1>4, rec \in BOOLEAN, from \in Nat, to \in Nat, RunGrows
<1> QED BY <1>5

\* A record of the baseline is over: it ended at the draw that comes next.
LEMMA BaselineRecordEnds ==
    ASSUME MeasureInv, MeasureInv', DrawInv, arm = RuleArm, UNCHANGED <<batch, arm>>,
           NEW n, n = Len(results[arm]) + 1, NEW cause, NEW recovered \in BOOLEAN,
           Len(results'[arm]) = n,
           results'[arm][n].predicted = cause, results'[arm][n].recovered = recovered,
           \A i \in 1..Len(results[arm]) : results'[arm][i] = results[arm][i],
           pc \in {"record", "attempt"}, pc' = "record",
           Len(stream) <= Len(stream'), \A k \in 1..Len(stream) : stream'[k] = stream[k],
           tries' \in Nat, tries' <= Len(stream'),
           Run(stream', ActionFor(n, cause), Here, tries', recovered)
    PROVE  DrawInv'
<1>1. n \in Nat \ {0} /\ n - 1 = Len(results[RuleArm]) /\ n - 1 \in Nat
  BY ComparedIs, TwoArms
<1>2. PICK pos \in [Nat -> Nat] : DrawnBy(pos)
  BY DEF DrawInv, Drawn
<1>3. PICK new : new = [pos EXCEPT ![n] = tries']
  OBVIOUS
<1>4. /\ new \in [Nat -> Nat] /\ new[n] = tries'
      /\ \A i \in Nat : i # n => new[i] = pos[i]
  BY <1>1, <1>2, <1>3
<1>5. new[0] = 0
  BY <1>1, <1>2, <1>4 DEF DrawnBy
<1>6. ASSUME NEW i \in 1..n
      PROVE  Run(stream', ActionFor(i, results'[RuleArm][i].predicted), new[i - 1], new[i],
                 results'[RuleArm][i].recovered)
  <2>1. /\ i \in Nat /\ i - 1 \in Nat /\ i - 1 # n
        /\ i # n => i \in 1..n - 1
        /\ n - 1 \in Nat /\ n - 1 # n
    BY ONLY <1>1, i \in 1..n, Indices
  <2>2. CASE i = n
    <3>1. new[n - 1] = pos[n - 1] /\ pos[n - 1] = Here
      <4>1. pos[Len(results[RuleArm])] = Here
        BY <1>2 DEF DrawnBy
      <4> QED BY ONLY <4>1, <2>1, <1>1, <1>4
    <3>2. results'[RuleArm][n].predicted = cause /\ results'[RuleArm][n].recovered = recovered
      OBVIOUS
    <3> QED BY <3>1, <3>2, <2>2, <1>4
  <2>3. CASE i # n
    <3>1. i \in 1..Len(results[RuleArm])
      BY ONLY <2>1, <2>3, <1>1
    <3>2. results'[RuleArm][i] = results[RuleArm][i]
      BY <3>1
    <3>3. new[i - 1] = pos[i - 1] /\ new[i] = pos[i] /\ pos[i - 1] \in Nat /\ pos[i] \in Nat
      BY <2>1, <2>3, <1>2, <1>4
    <3>7. Run(stream', ActionFor(i, results[RuleArm][i].predicted), pos[i - 1], pos[i],
              results[RuleArm][i].recovered)
      BY <3>1, <1>2, BaselineRuns
    <3> QED BY <3>2, <3>3, <3>7
  <2> QED BY <2>2, <2>3
<1>7. Here' = new[Len(results'[RuleArm])]
  BY <1>4 DEF Here
<1>8. DrawnBy(new)'
  BY <1>5, <1>6, <1>7, TwoArms DEF DrawnBy, ActionFor
<1>9. Drawn'
  BY <1>4, <1>8 DEF Drawn
<1>10. AgreeUntilFirstDifference'
  <2>1. Compared' = {}
    <3>1. results'[LlmArm] = <<>>
      BY DEF MeasureInv, Placed
    <3>2. DOMAIN results'[LlmArm] = {}
      BY <3>1
    <3> QED BY <3>2 DEF Compared, LlmArm
  <2> QED BY <2>1 DEF AgreeUntilFirstDifference
<1> QED BY <1>9, <1>10 DEF DrawInv, Failing

\* A record of the other arm is over: if all were classified alike so far, this
\* one among them, it ended where the baseline's did, with the same outcome.
LEMMA OtherRecordEnds ==
    ASSUME MeasureInv, MeasureInv', DrawInv, arm = LlmArm, UNCHANGED <<batch, arm>>,
           NEW n, n = Len(results[arm]) + 1, n <= Len(batch),
           NEW cause \in Predictions, NEW recovered \in BOOLEAN,
           Len(results'[arm]) = n,
           results'[arm][n].predicted = cause, results'[arm][n].recovered = recovered,
           \A i \in 1..Len(results[arm]) : results'[arm][i] = results[arm][i],
           results'[RuleArm] = results[RuleArm],
           pc \in {"record", "attempt"}, pc' = "record",
           Len(stream) <= Len(stream'), \A k \in 1..Len(stream) : stream'[k] = stream[k],
           tries' \in Nat, tries' <= Len(stream'),
           Run(stream', ActionFor(n, cause), Here, tries', recovered)
    PROVE  DrawInv'
<1>1. /\ n \in Nat \ {0} /\ n - 1 = Len(results[LlmArm])
      /\ Compared = 1..n - 1 /\ Compared' = 1..n
      /\ Len(results[RuleArm]) = Len(batch) /\ Len(batch) \in Nat
  <2>1. /\ Compared = 1..Len(results[LlmArm]) /\ Len(results[LlmArm]) \in Nat
        /\ Len(results[RuleArm]) = Len(batch) /\ Len(batch) \in Nat
    BY ComparedIs, TwoArms DEF MeasureInv, EvalTypeOK
  <2>2. n - 1 = Len(results[LlmArm]) /\ n \in Nat \ {0}
    BY <2>1
  <2>3. Compared' = 1..n
    <3>1. results'[RuleArm] \in Seq(Lines) /\ results'[LlmArm] \in Seq(Lines)
      BY TwoArms DEF MeasureInv, EvalTypeOK
    <3>2. DOMAIN results'[LlmArm] = 1..n /\ DOMAIN results'[RuleArm] = 1..Len(batch)
      BY <3>1, <2>1
    <3>3. 1..n \subseteq 1..Len(batch)
      BY <2>1, <2>2
    <3> QED BY <3>2, <3>3 DEF Compared, RuleArm, LlmArm
  <2> QED BY <2>1, <2>2, <2>3
<1>2. PICK pos \in [Nat -> Nat] : DrawnBy(pos)
  BY DEF DrawInv, Drawn
<1>3. \A j \in 1..n - 1 : (Alike(j)' <=> Alike(j)) /\ (SameOutcome(j)' <=> SameOutcome(j))
  BY <1>1 DEF Alike, SameOutcome, RuleArm, LlmArm
<1>4. /\ \A j \in 1..n - 1 : j \in 1..n
      /\ \A j \in 1..n : j # n => j \in 1..n - 1
      /\ n \in 1..n
  <2>1. PICK m \in Nat \ {0} : m = n
    BY ONLY <1>1
  <2>2. /\ \A j \in 1..m - 1 : j \in 1..m
        /\ \A j \in 1..m : j # m => j \in 1..m - 1
        /\ m \in 1..m
    BY ONLY m \in Nat \ {0}
  <2> QED BY ONLY <2>1, <2>2
<1>5. ASSUME AllAlike'
      PROVE  tries' = pos[n] /\ SameOutcome(n)'
  <2>1. \A j \in 1..n : Alike(j)'
    BY <1>5 DEF AllAlike
  <2>2. AllAlike
    BY <2>1, <1>1, <1>3, <1>4 DEF AllAlike
  <2>3. Here = pos[n - 1]
    BY <2>2, <1>1, <1>2 DEF DrawnBy
  <2>4. n \in 1..Len(results[RuleArm])
    BY ONLY <1>1, n <= Len(batch)
  <2>5. results[RuleArm][n].predicted = cause
    BY <2>1, <1>4 DEF Alike, RuleArm, LlmArm
  <2> PICK rec \in BOOLEAN : rec = results[RuleArm][n].recovered
    BY <2>4, TwoArms, LineTypes DEF MeasureInv
  <2> PICK act : act = ActionFor(n, cause)
    OBVIOUS
  <2>6. Run(stream', act, pos[n - 1], pos[n], rec)
    BY <2>4, <2>5, <1>2, BaselineRuns
  <2>7. Run(stream', act, pos[n - 1], tries', recovered)
    BY <2>3
  <2>8. act.max_attempts \in Nat
    <3>1. batch[n].amount \in Nat
      BY <2>4, <1>1, RecordIs DEF MeasureInv, EvalTypeOK
    <3> QED BY <3>1, ChosenIs DEF ActionFor, ActionRecords
  <2>9. pos[n - 1] \in Nat /\ pos[n] \in Nat
    <3>1. n - 1 \in Nat /\ n \in Nat
      BY ONLY <1>1
    <3> QED BY ONLY <3>1, pos \in [Nat -> Nat]
  <2>10. tries' = pos[n] /\ recovered = rec
    BY ONLY <2>6, <2>7, <2>8, <2>9, tries' \in Nat, rec \in BOOLEAN, recovered \in BOOLEAN,
       RunFixed
  <2>11. SameOutcome(n)'
    BY <2>10 DEF SameOutcome, RuleArm, LlmArm
  <2> QED BY <2>10, <2>11
<1>6. DrawnBy(pos)'
  <2>1. pos[0] = 0
    BY <1>2 DEF DrawnBy
  <2>2. \A i \in 1..Len(results[RuleArm]) :
          Run(stream', ActionFor(i, results[RuleArm][i].predicted), pos[i - 1], pos[i],
              results[RuleArm][i].recovered)
    BY <1>2, BaselineRuns
  <2>3. AllAlike' => Here' = pos[Len(results'[LlmArm])]
    BY <1>5 DEF Here
  <2> QED BY <2>1, <2>2, <2>3, TwoArms DEF DrawnBy, ActionFor
<1>7. AgreeUntilFirstDifference'
  <2> SUFFICES ASSUME NEW i \in 1..n, \A j \in 1..i : Alike(j)', NEW j \in 1..i
               PROVE  SameOutcome(j)'
    BY <1>1 DEF AgreeUntilFirstDifference
  <2>1. CASE i = n
    <3>1. AllAlike'
      BY <2>1 DEF AllAlike
    <3>2. CASE j = n
      BY <3>1, <3>2, <1>5
    <3>3. CASE j # n
      <4>1. j \in 1..n - 1 /\ n - 1 \in 1..n - 1
        BY ONLY <3>3, <2>1, <1>1, j \in 1..i
      <4>2. \A l \in 1..n - 1 : Alike(l)
        BY <2>1, <1>3, <1>4
      <4>3. SameOutcome(j)
        BY <4>1, <4>2, <1>1 DEF DrawInv, AgreeUntilFirstDifference
      <4> QED BY <4>1, <4>3, <1>3
    <3> QED BY <3>2, <3>3
  <2>2. CASE i # n
    <3>1. i \in 1..n - 1
      BY <2>2, <1>4
    <3>2. \A l \in 1..i : l \in 1..n - 1
      BY ONLY <3>1, <1>1
    <3>3. \A l \in 1..i : Alike(l)
      BY <3>2, <1>3
    <3>4. SameOutcome(j)
      BY <3>1, <3>3, <1>1 DEF DrawInv, AgreeUntilFirstDifference
    <3> QED BY <3>2, <3>4, <1>3
  <2> QED BY <2>1, <2>2
<1>8. Drawn'
  BY <1>2, <1>6 DEF Drawn
<1> QED BY <1>7, <1>8 DEF DrawInv, Failing

\* No record ended, and the one under way began where the lines say.
LEMMA DrawKept ==
    ASSUME MeasureInv, MeasureInv', DrawInv, UNCHANGED <<batch, results>>, Failing',
           NEW pos \in [Nat -> Nat], DrawnBy(pos),
           Len(stream) <= Len(stream'), \A k \in 1..Len(stream) : stream'[k] = stream[k],
           arm' = RuleArm => Here' = pos[Len(results[RuleArm])],
           arm' = LlmArm /\ pc' \in {"record", "attempt"} /\ AllAlike =>
             Here' = pos[Len(results[LlmArm])]
    PROVE  DrawInv'
<1>1. \A i \in 1..Len(results[RuleArm]) :
        Run(stream', ActionFor(i, results[RuleArm][i].predicted), pos[i - 1], pos[i],
            results[RuleArm][i].recovered)
  BY BaselineRuns
<1>2. pos[0] = 0
  BY DEF DrawnBy
<1>3. AllAlike' <=> AllAlike
  BY DEF AllAlike, Alike
<1>4. DrawnBy(pos)'
  BY <1>1, <1>2, <1>3 DEF DrawnBy, ActionFor
<1>5. Drawn'
  BY <1>4 DEF Drawn
<1>6. AgreeUntilFirstDifference'
  BY DEF DrawInv, AgreeUntilFirstDifference, Compared, Alike, SameOutcome
<1> QED BY <1>5, <1>6 DEF DrawInv

\* Nothing was drawn yet.
LEMMA DrawInitially == Init => DrawInv
<1> SUFFICES ASSUME Init PROVE DrawInv
  OBVIOUS
<1>1. /\ arm = RuleArm /\ pc = "seed" /\ tries = 0 /\ stream = <<>>
      /\ results[RuleArm] = <<>> /\ results[LlmArm] = <<>>
  BY TwoArms DEF Init, RuleArm
<1>2. Failing
  BY <1>1 DEF Failing
<1>3. Drawn
  <2> PICK pos : pos = [i \in Nat |-> 0]
    OBVIOUS
  <2>1. pos \in [Nat -> Nat] /\ pos[0] = 0
    OBVIOUS
  <2>2. DrawnBy(pos)
    BY <1>1, <2>1, TwoArms DEF DrawnBy, Here
  <2> QED BY <2>1, <2>2 DEF Drawn
<1>4. AgreeUntilFirstDifference
  BY <1>1 DEF AgreeUntilFirstDifference, Compared, RuleArm, LlmArm
<1> QED BY <1>2, <1>3, <1>4 DEF DrawInv

\* The seed is set: the first record of either arm begins at the first draw.
LEMMA BeginArmDraws ==
    ASSUME MeasureInv, MeasureInv', DrawInv, BeginArm
    PROVE  DrawInv'
<1>1. /\ pc = "seed" /\ pc' = "record" /\ tries' = 0
      /\ UNCHANGED <<batch, arm, stream, results>>
  BY DEF BeginArm, Seeded
<1>2. PICK pos \in [Nat -> Nat] : DrawnBy(pos)
  BY DEF DrawInv, Drawn
<1>3. Len(stream) \in Nat
  BY DEF MeasureInv, EvalTypeOK
<1>4. Failing'
  BY <1>1, <1>3 DEF Failing
<1>5. Here' = 0 /\ pos[0] = 0
  BY <1>1, <1>2 DEF Here, DrawnBy
<1>6. results[arm] = <<>>
  BY <1>1 DEF MeasureInv, Placed
<1>7. Len(results[arm]) = 0
  BY <1>6
<1>8. \A k \in 1..Len(stream) : stream'[k] = stream[k]
  BY <1>1
<1>9. Len(stream) <= Len(stream')
  BY <1>1, <1>3
<1> QED BY <1>1, <1>2, <1>4, <1>5, <1>7, <1>8, <1>9, DrawKept

\* An arm is over.
LEMMA EndArmDraws ==
    ASSUME MeasureInv, MeasureInv', DrawInv, EndArm
    PROVE  DrawInv'
<1>1. /\ arm' = LlmArm /\ pc' \in {"seed", "report"}
      /\ UNCHANGED <<batch, tries, stream, results>>
  BY DEF EndArm, LlmArm
<1>2. PICK pos \in [Nat -> Nat] : DrawnBy(pos)
  BY DEF DrawInv, Drawn
<1>3. Len(stream) \in Nat
  BY DEF MeasureInv, EvalTypeOK
<1>4. Failing'
  BY <1>1 DEF DrawInv, Failing
<1>5. \A k \in 1..Len(stream) : stream'[k] = stream[k]
  BY <1>1
<1>6. Len(stream) <= Len(stream')
  BY <1>1, <1>3
<1> QED BY <1>1, <1>2, <1>4, <1>5, <1>6, TwoArms, DrawKept

\* A record is decided: with no attempt it is over where it began.
LEMMA DecideDraws ==
    ASSUME MeasureInv, MeasureInv', DrawInv, NEW cause \in Predictions, Decide(cause)
    PROVE  DrawInv'
<1> PICK n : n = Len(results[arm]) + 1
  OBVIOUS
<1> PICK d : d = DecisionOn(n, cause)
  OBVIOUS
<1>1. /\ pc = "record" /\ n \in 1..Len(batch)
      /\ UNCHANGED <<batch, key, llm, arm, tries, stream>>
      /\ d \in Decisions /\ d.source = SourceOf(batch[n])
      /\ d.action = ActionFor(n, cause) /\ d.action.cause = cause
      /\ d.left = d.action.max_attempts
      /\ IF d.left = 0 THEN Finish(d, FALSE)
         ELSE current' = d /\ pc' = "attempt" /\ UNCHANGED results
  BY DecideIs
<1>2. /\ arm \in Arms /\ tries \in Nat /\ tries <= Len(stream)
      /\ Len(stream) \in Nat /\ Len(batch) \in Nat
  BY SMTT(30) DEF MeasureInv, EvalTypeOK, DrawInv, Failing
<1>3. \A k \in 1..Len(stream) : stream'[k] = stream[k]
  BY <1>1
<1>4. Len(stream) <= Len(stream') /\ tries' \in Nat /\ tries' <= Len(stream')
  BY <1>1, <1>2
<1>5. Here = tries
  BY <1>1 DEF Here
<1>6. d.action.max_attempts \in Nat
  BY <1>1, DecisionTypes
<1>7. CASE d.left = 0
  <2>1. Finish(d, FALSE)
    BY <1>1, <1>7
  <2>2. /\ Len(results'[arm]) = n
        /\ results'[arm][n].predicted = cause
        /\ results'[arm][n].recovered = FALSE
        /\ \A i \in 1..Len(results[arm]) : results'[arm][i] = results[arm][i]
        /\ \A a \in Arms \ {arm} : results'[a] = results[a]
        /\ pc' = "record"
    BY <2>1, <1>1, LinesKept
  <2> PICK act : act = ActionFor(n, cause)
    OBVIOUS
  <2>3. act.max_attempts = 0
    BY <1>1, <1>7
  <2>4. Run(stream', act, Here, tries', FALSE)
    <3>1. tries' = Here /\ Here \in Nat
      BY <1>1, <1>2, <1>5
    <3>2. PICK h \in Nat : h = Here
      BY <3>1
    <3>3. h <= h /\ h <= h + 0 /\ h = h + 0 /\ ~ (h < h) /\ h + 1 .. h - 1 = {}
      OBVIOUS
    <3> QED BY <3>1, <3>2, <3>3, <2>3, <1>4 DEF Run
  <2>5. Run(stream', ActionFor(n, cause), Here, tries', FALSE)
    BY <2>4
  <2>6. n <= Len(batch) /\ UNCHANGED <<batch, arm>>
    BY <1>1, <1>2
  <2>7. CASE arm = RuleArm
    BY <2>2, <2>5, <2>6, <2>7, <1>1, <1>3, <1>4, BaselineRecordEnds
  <2>8. CASE arm = LlmArm
    <3>1. results'[RuleArm] = results[RuleArm]
      BY <2>2, <2>8, TwoArms
    <3> QED BY <3>1, <2>2, <2>5, <2>6, <2>8, <1>1, <1>3, <1>4, OtherRecordEnds
  <2> QED BY <2>7, <2>8, <1>2, TwoArms
<1>8. CASE d.left # 0
  <2>1. current' = d /\ pc' = "attempt" /\ UNCHANGED results
    BY <1>1, <1>8
  <2>2. Here' = Here
    BY <2>1, <1>1, <1>2, <1>5, <1>6 DEF Here
  <2>3. Failing'
    <3>1. Here' + 1 .. tries' = {} /\ Here' >= 0
      BY <2>2, <1>1, <1>2, <1>5
    <3> QED BY <3>1, <1>4 DEF Failing
  <2>4. PICK pos \in [Nat -> Nat] : DrawnBy(pos)
    BY DEF DrawInv, Drawn
  <2>5. /\ arm' = RuleArm => Here' = pos[Len(results[RuleArm])]
        /\ arm' = LlmArm /\ pc' \in {"record", "attempt"} /\ AllAlike =>
             Here' = pos[Len(results[LlmArm])]
    BY <2>2, <2>4, <1>1 DEF DrawnBy
  <2> QED BY <2>1, <2>3, <2>4, <2>5, <1>1, <1>3, <1>4, DrawKept
<1> QED BY <1>7, <1>8

\* An attempt draws once and leaves one attempt less.
LEMMA OneAttempt == \A t, m, l \in Int : (t + 1) - (m - (l - 1)) = t - (m - l)
OBVIOUS

\* One attempt: the draw is the one that the seed has fixed.
LEMMA AttemptDrawn ==
    ASSUME MeasureInv, MeasureInv', DrawInv, NEW draw \in Draws, Attempt(draw)
    PROVE  DrawInv'
<1> PICK n : n = Len(results[arm]) + 1
  OBVIOUS
<1> PICK cause : cause = current.action.cause
  OBVIOUS
<1>1. pc = "attempt" /\ UNCHANGED <<batch, key, llm, arm, calls>>
  BY DEF Attempt
<1>2. Failing
  BY DEF DrawInv
<1>3. /\ Len(stream) <= Len(stream')
      /\ \A k \in 1..Len(stream) : stream'[k] = stream[k]
      /\ tries' = tries + 1 /\ tries' \in Nat /\ tries' <= Len(stream')
      /\ stream'[tries'] = draw
  BY <1>2, AttemptDraws
<1>4. /\ arm \in Arms /\ Len(results[arm]) < Len(batch) /\ Len(results[arm]) \in Nat
      /\ Len(batch) \in Nat /\ Len(stream) \in Nat /\ tries \in Nat /\ tries <= Len(stream)
      /\ current \in Decisions
  BY <1>1, <1>2 DEF MeasureInv, EvalTypeOK, Placed, Failing
<1>5. n <= Len(batch)
  BY ONLY <1>4, n = Len(results[arm]) + 1
<1>6. /\ current.action = ActionFor(n, cause)
      /\ current.action.cause \in Predictions
  BY <1>1, <1>4, DecisionTypes DEF MeasureInv, Attempting
<1>7. CASE Succeeds(draw) \/ current.left = 1
  <2>0. Succeeds(draw) \in BOOLEAN
    BY DEF Succeeds
  <2> PICK recovered \in BOOLEAN : recovered = Succeeds(draw)
    BY <2>0
  <2>1. Finish(current, recovered)
    BY <1>7 DEF Attempt
  <2>2. /\ Len(results'[arm]) = n
        /\ results'[arm][n].predicted = cause
        /\ results'[arm][n].recovered = recovered
        /\ \A i \in 1..Len(results[arm]) : results'[arm][i] = results[arm][i]
        /\ \A a \in Arms \ {arm} : results'[a] = results[a]
        /\ pc' = "record"
    BY <2>1, <1>1, LinesKept
  <2>3. Run(stream', ActionFor(n, cause), Here, tries', recovered)
    BY <1>2, <1>6, <1>7, LastAttemptRuns
  <2>4. UNCHANGED <<batch, arm>> /\ pc \in {"record", "attempt"} /\ cause \in Predictions
    BY <1>1, <1>6
  <2>5. CASE arm = RuleArm
    BY <2>2, <2>3, <2>4, <2>5, <1>3, <1>5, BaselineRecordEnds
  <2>6. CASE arm = LlmArm
    <3>1. results'[RuleArm] = results[RuleArm]
      BY <2>2, <2>6, TwoArms
    <3> QED BY <3>1, <2>2, <2>3, <2>4, <2>6, <1>3, <1>5, OtherRecordEnds
  <2> QED BY <2>5, <2>6, <1>4, TwoArms
<1>8. CASE ~ (Succeeds(draw) \/ current.left = 1)
  <2>1. current' = [current EXCEPT !.left = @ - 1] /\ UNCHANGED <<pc, results>>
    BY <1>8 DEF Attempt
  <2>2. current'.action = current.action /\ current'.left = current.left - 1
    BY <2>1, <1>4 DEF Decisions
  <2>3. /\ Here \in Nat /\ current.action.max_attempts \in Nat /\ current.left \in Nat
        /\ Here = tries - (current.action.max_attempts - current.left)
    BY <1>1, <1>2, <1>4, HereIs, DecisionTypes
  <2>4. Here' = Here
    <3>1. Here' = tries' - (current'.action.max_attempts - current'.left)
      BY <2>1, <1>1 DEF Here
    <3> PICK m \in Nat, l \in Nat : m = current.action.max_attempts /\ l = current.left
      BY <2>3
    <3> PICK t \in Nat : t = tries
      BY <1>4
    <3>2. Here' = (t + 1) - (m - (l - 1)) /\ Here = t - (m - l)
      BY <3>1, <2>2, <2>3, <1>3
    <3>3. (t + 1) - (m - (l - 1)) = t - (m - l)
      BY SMTT(30), OneAttempt
    <3> QED BY <3>2, <3>3
  <2>5. Failing'
    <3>1. \A k \in Here + 1 .. tries : ~ (stream[k] < SuccessRate(current.action.type))
      BY <1>1, <1>2 DEF Failing
    <3>2. ~ (draw < SuccessRate(current.action.type))
      BY <1>8 DEF Succeeds
    <3>3. ASSUME NEW k \in Here + 1 .. tries'
          PROVE  ~ (stream'[k] < SuccessRate(current.action.type))
      <4>1. CASE k = tries'
        BY <4>1, <3>2, <1>3
      <4>2. CASE k # tries'
        <5>1. k \in Here + 1 .. tries /\ k \in 1..Len(stream)
          BY ONLY <4>2, <2>3, <1>3, <1>4, k \in Here + 1 .. tries'
        <5> QED BY <5>1, <3>1, <1>3
      <4> QED BY <4>1, <4>2
    <3>4. Here' >= 0
      BY <2>3, <2>4
    <3>5. \A k \in Here' + 1 .. tries' :
            ~ (stream'[k] < SuccessRate(current'.action.type))
      BY <3>3, <2>2, <2>4
    <3> QED BY <3>4, <3>5, <1>3 DEF Failing
  <2>6. PICK pos \in [Nat -> Nat] : DrawnBy(pos)
    BY DEF DrawInv, Drawn
  <2>7. /\ arm' = RuleArm => Here' = pos[Len(results[RuleArm])]
        /\ arm' = LlmArm /\ pc' \in {"record", "attempt"} /\ AllAlike =>
             Here' = pos[Len(results[LlmArm])]
    BY <2>4, <2>6, <1>1 DEF DrawnBy
  <2> QED BY <2>1, <2>5, <2>6, <2>7, <1>1, <1>3, DrawKept
<1> QED BY <1>7, <1>8

LEMMA NextDraws ==
    ASSUME MeasureInv, MeasureInv', DrawInv, [Next]_vars
    PROVE  DrawInv'
<1>1. CASE UNCHANGED vars
  <2>1. UNCHANGED <<batch, key, llm, arm, pc, current, tries, stream, results, calls>>
    BY <1>1 DEF vars
  <2>2. PICK pos \in [Nat -> Nat] : DrawnBy(pos)
    BY DEF DrawInv, Drawn
  <2>3. Here' = Here
    BY <2>1 DEF Here
  <2>4. Failing'
    BY <2>1 DEF DrawInv, Failing, Here
  <2>5. Len(stream) \in Nat
    BY DEF MeasureInv, EvalTypeOK
  <2>6. /\ arm' = RuleArm => Here' = pos[Len(results[RuleArm])]
        /\ arm' = LlmArm /\ pc' \in {"record", "attempt"} /\ AllAlike =>
             Here' = pos[Len(results[LlmArm])]
    BY <2>1, <2>2, <2>3 DEF DrawnBy
  <2>7. Len(stream) <= Len(stream') /\ \A k \in 1..Len(stream) : stream'[k] = stream[k]
    BY <2>1, <2>5
  <2> QED BY <2>1, <2>2, <2>4, <2>6, <2>7, DrawKept
<1> QED BY <1>1, BeginArmDraws, EndArmDraws, DecideDraws, AttemptDrawn
        DEF Next, Predictions

\* evaluate: "the RNG seeded identically per config".  For every batch, every
\* draw and every answer of the LLM: as long as the arms have classified alike,
\* they recover the same records.
THEOREM ArmsAgree == Spec => []AgreeUntilFirstDifference
<1>1. Spec => []MeasureInv
  BY MeasureInitially, NextMeasures, PTL DEF Spec
<1>2. DrawInv => AgreeUntilFirstDifference
  BY DEF DrawInv
<1>3. ASSUME MeasureInv, MeasureInv', DrawInv, [Next]_vars PROVE DrawInv'
  BY <1>3, NextDraws
<1> QED BY <1>1, <1>2, <1>3, DrawInitially, PTL DEF Spec

=============================================================================
