----------------------------- MODULE RecoveryBatch -----------------------------
(***************************************************************************)
(* One batch of the pipeline, record by record: diagnose.classify, then    *)
(* decide.choose_action, then execute.run_action, while admins change the  *)
(* settings that choose_action reads.  The two settings are read in two    *)
(* transactions, so a decision can see one before a change and the other   *)
(* after it.                                                               *)
(***************************************************************************)
EXTENDS PolicySettings, Decision, Report, Sequences

CONSTANTS
    Records,    \* failed payments: [amount, live, code]
    MaxRecords  \* bound on the records of a batch

ASSUME BatchAssumption ==
    /\ Records \subseteq [amount : Nat, live : BOOLEAN,
                          code : Causes \cup {"unmapped"}]
    /\ Causes \subseteq {"INSUFFICIENT_FUNDS", "BANK_TIMEOUT", "CARD_DECLINED",
                         "INVALID_CVV", "EXPIRED_CARD"}
    /\ AfaLimit \in Nat /\ MaxRecords \in Nat

VARIABLES
    batch,      \* the pipeline: its place and its locals
    results,    \* the outcomes of this batch so far
    minInForce, \* the minimum amounts in force since the decision under way began
    capInForce  \* the caps of its cause in force since then

batchVars == <<batch, results, minInForce, capInForce>>
vars == <<settingsVars, batchVars>>

-----------------------------------------------------------------------------
(* Data *)

\* admin_panel: RETRY_CAUSES are the causes whose action is a retry.
ASSUME RetryCausesAssumption ==
    RetryCauses = {cause \in Causes : ActionMap(cause) \in Retries}

\* classify: by rule, or whatever the LLM's answer is taken for.
Classified(record) ==
    IF record.code \in Causes THEN {record.code} ELSE Causes \cup {"UNKNOWN"}

Outcome(status, method, record, action, used, recovered, promise) ==
    [status |-> status, method |-> method, record |-> record, action |-> action,
     attempts_used |-> used, recovered |-> recovered, promise |-> promise]

\* The attempts of a simulated action, which stops when it succeeds: how many,
\* and whether the last one did.
Attempts(cap) == (1..cap) \X {TRUE} \cup {<<cap, FALSE>>}

\* The promise of a customer, for the actions that contact one.
Promises(type) == IF type \in PromiseActionTypes THEN {"kept", "broken"} ELSE {"none"}

NoRecord == [amount |-> 0, live |-> FALSE, code |-> "unmapped"]
NoAction == Action("ESCALATE", 0, "UNKNOWN", TRUE)

\* The pipeline: its place, its record, the cause, the minimum read, the action.
Batch(pc, record, cause, min, action) ==
    [pc |-> pc, record |-> record, cause |-> cause, min |-> min, action |-> action]

NoBatch == Batch("next", NoRecord, "UNKNOWN", 0, NoAction)

\* Mutant: get() without its default.
CapOf_NoDefault(setting, cause) == IF cause \in Causes THEN setting[cause] ELSE None

\* max_retries.get(cause, 0).
CapOf(setting, cause) == IF cause \in Causes THEN setting[cause] ELSE 0

Init ==
    /\ SettingsInit
    /\ batch = NoBatch
    /\ results = <<>>
    /\ minInForce = {}
    /\ capInForce = {}

-----------------------------------------------------------------------------
(* The pipeline *)

\* The next record of the batch and its cause.
Classify(record) ==
    /\ batch.pc = "next"
    /\ Len(results) < MaxRecords
    /\ \E cause \in Classified(record) :
         /\ batch' = Batch("min", record, cause, 0, NoAction)
         /\ capInForce' = {CapOf(caps, cause)}
    /\ minInForce' = {minAmount}
    /\ UNCHANGED <<settingsVars, results>>

\* Mutant: the module-level snapshot of decide.py is what choose_action uses.
MinRead_Snapshot(value) == value = DefaultMin /\ UNCHANGED faults

\* get_min_retry_amount.
MinRead(value) == ReadMin(value)

ReadMinAmount ==
    /\ batch.pc = "min"
    /\ \E min \in MinAmounts :
         /\ MinRead(min)
         /\ batch' = Batch("caps", batch.record, batch.cause, min, NoAction)
    /\ UNCHANGED <<minAmount, caps, dbLock, admin, settingsLog, changes, updates,
                   results, minInForce, capInForce>>

\* get_max_retries, and the choice.
ChooseAction ==
    /\ batch.pc = "caps"
    /\ \E read \in {caps, DefaultCaps} :
         /\ ReadCaps(read)
         /\ batch' = Batch("run", batch.record, batch.cause, batch.min,
                           Chosen(batch.cause, batch.record.amount, batch.min,
                                  CapOf(read, batch.cause)))
    /\ UNCHANGED <<minAmount, caps, dbLock, admin, settingsLog, changes, updates,
                   results, minInForce, capInForce>>

\* The outcome is logged and the next record taken up.
Finish(outcome) ==
    /\ results' = Append(results, outcome)
    /\ batch' = NoBatch
    /\ minInForce' = {}
    /\ capInForce' = {}
    /\ UNCHANGED settingsVars

IsLiveRetry == batch.record.live /\ batch.action.type \in Retries

\* _run_simulated.
RunSimulated ==
    /\ batch.pc = "run"
    /\ ~ IsLiveRetry
    /\ \E attempts \in Attempts(batch.action.max_attempts),
          promise \in Promises(batch.action.type) :
         Finish(Outcome("resolved", "simulated", batch.record, batch.action,
                        attempts[1], attempts[2], promise))

\* _initiate_live_retry: the retry order is made, the outcome is open.
InitiateRetry ==
    /\ batch.pc = "run"
    /\ IsLiveRetry
    /\ Finish(Outcome("pending", "none", batch.record, batch.action, 1, None, "none"))

\* _initiate_live_retry without an order.
InitiationFails ==
    /\ batch.pc = "run"
    /\ IsLiveRetry
    /\ Finish(Outcome("resolved", "retry_initiation_failed", batch.record,
                      batch.action, 1, FALSE, "none"))

\* The admins, seen from the decision under way.
ChangeSettings ==
    /\ AdminNext
    /\ minInForce' = IF batch.pc \in {"min", "caps"}
                     THEN minInForce \cup {minAmount'} ELSE minInForce
    /\ capInForce' = IF batch.pc \in {"min", "caps"}
                     THEN capInForce \cup {CapOf(caps', batch.cause)} ELSE capInForce
    /\ UNCHANGED <<batch, results>>

Next ==
    \/ \E record \in Records : Classify(record)
    \/ ReadMinAmount \/ ChooseAction
    \/ RunSimulated \/ InitiateRetry \/ InitiationFails
    \/ ChangeSettings

Spec == Init /\ [][Next]_vars

-----------------------------------------------------------------------------
(* Properties *)

Actions == [type : Retries \cup PromiseActionTypes, max_attempts : Caps,
            cause : Causes \cup {"UNKNOWN"}, policy_approved : BOOLEAN]

Batches == [pc : {"next", "min", "caps", "run"}, record : Records \cup {NoRecord},
            cause : Causes \cup {"UNKNOWN"}, min : Nat, action : Actions]

Outcomes == [status : {"resolved", "pending"},
             method : RealResolutionMethods \cup {"simulated", "none"},
             record : Records, action : Actions, attempts_used : Nat,
             recovered : BOOLEAN \cup {None}, promise : {"kept", "broken", "none"}]

BatchTypeOK ==
    /\ SettingsTypeOK
    /\ batch \in Batches
    /\ results \in Seq(Outcomes)
    /\ minInForce \subseteq MinAmounts /\ capInForce \subseteq Caps

\* What a decision could have seen: the settings in force while it was made,
\* and after a failed read the defaults.
MinsSeen == minInForce \cup (IF faults > 0 THEN {DefaultMin} ELSE {})
CapsSeen == capInForce \cup
              (IF faults > 0 THEN {CapOf(DefaultCaps, batch.cause)} ELSE {})

\* README: "an admin change takes effect on the very next decision".  Every
\* decision follows settings that were in force while it was made, never older
\* ones, and no setting opens the AFA gate; a retry is rejected for cause only.
DecidedInForce ==
    batch.pc = "run" =>
      LET amount == batch.record.amount
          action == batch.action
      IN
      IF action.policy_approved
      THEN /\ action.max_attempts \in CapsSeen
           /\ action.type \in Retries =>
                amount <= AfaLimit /\ \E min \in MinsSeen : amount >= min
      ELSE /\ action.type = "ESCALATE" /\ action.max_attempts = 0
           /\ ActionMap(action.cause) \in Retries
           /\ amount > AfaLimit \/ \E min \in MinsSeen : amount < min

\* decide: "Every action must be capped".  A simulated action makes no more
\* attempts than some cap in force while it was decided, and makes one only as
\* an approved retry: whatever the admins do, nothing else recovers money.
AttemptsInForce ==
    [][\A i \in DOMAIN results' \ DOMAIN results :
         LET r == results'[i] IN
         r.method = "simulated" /\ (r.attempts_used > 0 \/ r.recovered = TRUE) =>
           /\ \E cap \in CapsSeen : r.attempts_used \in 1..cap
           /\ r.action.type \in Retries /\ r.action.policy_approved
           /\ r.record.amount <= AfaLimit]_vars

Rejections == {i \in DOMAIN results : ~ results[i].action.policy_approved}

\* report: every case is recovered, an exception or pending, every amount
\* recovered, at risk or pending; a batch alone shows no real revenue, since no
\* retry order is paid yet; and no case the policy rejected is dropped from the
\* exceptions.
ReportBalances ==
    LET s == Summary(results) IN
    /\ s.total_cases = s.recovered_cases + s.exception_cases + s.pending_cases
    /\ s.resolved_cases = s.real_resolved_cases + s.simulated_resolved_cases
    /\ s.unrecovered_amount = Amount(results, ExceptionCases(results))
    /\ s.recovered_amount = s.revenue_recovered_real + s.projected_revenue
    /\ s.revenue_recovered_real = 0
    /\ s.total_cases = SumCounts(s.cases_by_cause)
    /\ s.exception_cases = SumCounts(s.exceptions_by_cause)
    /\ Rejections \subseteq EscalatedCases(results)
    /\ s.promises_kept + s.promises_broken
         = Cardinality({i \in DOMAIN results : results[i].action.type \notin Retries})

\* test_execute: "any action with max_attempts=0 must make zero attempts", of
\* the live path as well.
ZeroCapNoAttempt ==
    \A i \in DOMAIN results :
        results[i].action.max_attempts = 0 => results[i].attempts_used = 0

=============================================================================
