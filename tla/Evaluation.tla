----------------------------- MODULE Evaluation -----------------------------
(***************************************************************************)
(* scripts/evaluate.py: the same labelled batch through classification,    *)
(* decision and simulated attempts twice, first with rules only, then with *)
(* the LLM fallback, both times from the same seed.  What the script says  *)
(* of the two arms depends on the draws of one generator that each attempt *)
(* advances, and on a function of diagnose that each arm replaces and puts *)
(* back.                                                                   *)
(***************************************************************************)
EXTENDS Decision, Sequences, FiniteSets

CONSTANTS
    Records,    \* labelled records: [code, ground_truth, amount]
    MaxRecords, \* bound on the records of a batch
    MinAmount,  \* the settings during the evaluation: the minimum amount
    Caps        \* and the cap of each cause

KnownCauses == {"INSUFFICIENT_FUNDS", "BANK_TIMEOUT", "CARD_DECLINED",
                "INVALID_CVV", "EXPIRED_CARD"}

\* A code that a rule maps is written as its cause, any other as "unmapped".
ASSUME EvaluationAssumption ==
    /\ Records \subseteq [code : KnownCauses \cup {"unmapped"},
                          ground_truth : KnownCauses, amount : Nat]
    /\ \A x \in Records : x.code # "unmapped" => x.ground_truth = x.code
    /\ MaxRecords \in Nat /\ MinAmount \in Nat
    /\ Caps \in [KnownCauses -> Nat] /\ AfaLimit \in Nat

VARIABLES
    batch,      \* the labelled records
    key,        \* whether GROQ_API_KEY is set
    llm,        \* what diagnose.classify_with_llm is bound to
    arm,        \* the arm under way
    pc,         \* its place: seed, record, attempt; report after the last arm
    current,    \* the record under way: what was decided, the attempts left
    tries,      \* how often the generator was asked since the seed was set
    stream,     \* what the seed makes it answer, as far as it was asked
    results,    \* per_record of each arm
    calls       \* llm_calls_made of each arm

vars == <<batch, key, llm, arm, pc, current, tries, stream, results, calls>>

Arms == {"rule_only_baseline", "rule_plus_llm"}

-----------------------------------------------------------------------------
(* Data *)

\* The answers of random.random(), in the order of the success rates: an action
\* succeeds with the answers below its own.
Draws == 1..5
SuccessRate(type) ==
    CASE type = "RETRY_AFTER_DELAY"       -> 5
      [] type = "RETRY_IMMEDIATE"         -> 4
      [] type = "NOTIFY_USER"             -> 3
      [] type = "NOTIFY_USER_CARD_UPDATE" -> 2
      [] OTHER                            -> 1

CapFor(cause) == IF cause \in KnownCauses THEN Caps[cause] ELSE 0

\* A record that was classified, and whose action was chosen.
Decided(source, action) == [source |-> source, action |-> action,
                            left |-> action.max_attempts]
Nothing == Decided("none", Action("ESCALATE", 0, "UNKNOWN", TRUE))

Init ==
    /\ batch \in UNION {[1..n -> Records] : n \in 0..MaxRecords}
    /\ key \in BOOLEAN
    /\ llm = "original"
    /\ arm = "rule_only_baseline"
    /\ pc = "seed"
    /\ current = Nothing
    /\ tries = 0
    /\ stream = <<>>
    /\ results = [a \in Arms |-> <<>>]
    /\ calls = [a \in Arms |-> 0]

-----------------------------------------------------------------------------
(* run_config *)

\* Mutant: the generator is seeded once, for both arms.
Seeded_Once == UNCHANGED tries

\* random.seed(rng_seed)
Seeded == tries' = 0

\* The arm replaces classify_with_llm by "UNKNOWN", or wraps what it finds there.
BeginArm ==
    /\ pc = "seed"
    /\ Seeded
    /\ llm' = IF arm = "rule_only_baseline" THEN "unknown"
              ELSE IF llm = "original" THEN "counted" ELSE "counted_unknown"
    /\ pc' = "record"
    /\ UNCHANGED <<batch, key, arm, current, stream, results, calls>>

Record == batch[Len(results[arm]) + 1]

\* classify_with_llm as it is bound now; without the key it does not ask.
Answers == IF llm = "counted" /\ key THEN KnownCauses \cup {"UNKNOWN"} ELSE {"UNKNOWN"}

\* The record's line of per_record.
Result(decided, recovered) ==
    [predicted |-> decided.action.cause, source |-> decided.source,
     action_type |-> decided.action.type,
     correct |-> decided.action.cause = Record.ground_truth, recovered |-> recovered]

Finish(decided, recovered) ==
    /\ results' = [results EXCEPT ![arm] = Append(@, Result(decided, recovered))]
    /\ current' = Nothing
    /\ pc' = "record"

\* classify and choose_action; then the attempts, if there are any.
Decide(cause) ==
    LET source == IF Record.code = "unmapped" THEN "llm" ELSE "rule"
        decided == Decided(source, Chosen(cause, Record.amount, MinAmount, CapFor(cause)))
    IN
    /\ pc = "record" /\ Len(results[arm]) < Len(batch)
    /\ cause \in IF source = "llm" THEN Answers ELSE {Record.code}
    /\ calls' = IF source = "llm" /\ llm # "unknown"
                THEN [calls EXCEPT ![arm] = @ + 1] ELSE calls
    /\ IF decided.left = 0 THEN Finish(decided, FALSE)
       ELSE current' = decided /\ pc' = "attempt" /\ UNCHANGED results
    /\ UNCHANGED <<batch, key, llm, arm, tries, stream>>

Succeeds(draw) == draw < SuccessRate(current.action.type)

\* One turn of _simulate_execute_no_log's loop: the seed fixes the draw.
Attempt(draw) ==
    /\ pc = "attempt"
    /\ IF tries < Len(stream) THEN draw = stream[tries + 1] /\ UNCHANGED stream
                              ELSE stream' = Append(stream, draw)
    /\ tries' = tries + 1
    /\ IF Succeeds(draw) \/ current.left = 1
       THEN Finish(current, Succeeds(draw))
       ELSE current' = [current EXCEPT !.left = @ - 1] /\ UNCHANGED <<pc, results>>
    /\ UNCHANGED <<batch, key, llm, arm, calls>>

\* Mutant: no finally.
Restored_Not == UNCHANGED llm

\* finally: the original is put back.
Restored == llm' = "original"

\* The arm is over; the other one follows, or the report.
EndArm ==
    /\ pc = "record" /\ Len(results[arm]) = Len(batch)
    /\ Restored
    /\ arm' = "rule_plus_llm"
    /\ pc' = IF arm = "rule_plus_llm" THEN "report" ELSE "seed"
    /\ UNCHANGED <<batch, key, current, tries, stream, results, calls>>

Next ==
    \/ BeginArm \/ EndArm
    \/ \E cause \in KnownCauses \cup {"UNKNOWN"} : Decide(cause)
    \/ \E draw \in Draws : Attempt(draw)

Spec == Init /\ [][Next]_vars

-----------------------------------------------------------------------------
(* accuracy_table: the records behind each rate *)

Correct(a) == {i \in DOMAIN results[a] : results[a][i].correct}
Recovered(a) == {i \in DOMAIN results[a] : results[a][i].recovered}
BySource(a, source) == {i \in DOMAIN results[a] : results[a][i].source = source}

-----------------------------------------------------------------------------
(* Properties *)

\* The records that both arms have dealt with.
Compared == DOMAIN results["rule_only_baseline"] \cap DOMAIN results["rule_plus_llm"]

Alike(i) ==
    results["rule_only_baseline"][i].predicted = results["rule_plus_llm"][i].predicted

SameOutcome(i) ==
    results["rule_only_baseline"][i].recovered = results["rule_plus_llm"][i].recovered

\* evaluate: "the RNG seeded identically per config".  As long as the arms have
\* classified every record alike, they recover the same ones: without a key the
\* whole comparison shows no difference, as the script's warning says.
AgreeUntilFirstDifference ==
    \A i \in Compared : (\A j \in 1..i : Alike(j)) => \A j \in 1..i : SameOutcome(j)

\* evaluate: "rule-only misses => ESCALATE => 0% recovery", and the accuracy of
\* the baseline is that of the rules.  What the second arm does better is the
\* LLM's: it is asked itself, once for each record that no rule maps, and the
\* function that was replaced is back at the end.
FallbackMeasured ==
    /\ Correct("rule_only_baseline") = BySource("rule_only_baseline", "rule")
    /\ Recovered("rule_only_baseline") \subseteq Correct("rule_only_baseline")
    /\ Compared \cap Correct("rule_only_baseline") \subseteq Correct("rule_plus_llm")
    /\ arm = "rule_plus_llm" /\ pc \in {"record", "attempt"} => llm = "counted"
    /\ pc \in {"seed", "report"} => llm = "original"
    /\ pc = "report" =>
         /\ calls["rule_only_baseline"] = 0
         /\ calls["rule_plus_llm"] = Cardinality(BySource("rule_plus_llm", "llm"))

\* README: "any difference in simulated recovery rate is attributable to
\* classification accuracy, not random noise".  A record that both arms classify
\* alike has the same outcome in both.
Attributable == \A i \in Compared : Alike(i) => SameOutcome(i)

=============================================================================
