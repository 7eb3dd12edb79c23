-------------------------------- MODULE Report --------------------------------
(***************************************************************************)
(* agent/report.py: summarize(results), a pure function of a list of       *)
(* outcomes.  A case is an index of the list; every figure is a set of     *)
(* cases, its size, or the sum of their amounts.  Rates, lists and wording *)
(* are left out.                                                           *)
(***************************************************************************)
EXTENDS Integers, FiniteSetsExt

RealResolutionMethods == {"webhook", "poll", "timeout", "retry_initiation_failed"}
PromiseActionTypes == {"NOTIFY_USER", "NOTIFY_USER_CARD_UPDATE", "ESCALATE"}

PendingCases(results) == {i \in DOMAIN results : results[i].status = "pending"}

\* Mutant: a case that is not known to be lost counts as resolved.
ResolvedCases_All(results) == DOMAIN results

ResolvedCases(results) == {i \in DOMAIN results : results[i].status # "pending"}

IsReal(r) == r.method \in RealResolutionMethods

RealResolved(results) == {i \in ResolvedCases(results) : IsReal(results[i])}
SimulatedResolved(results) == {i \in ResolvedCases(results) : ~ IsReal(results[i])}

\* recovered is True, False or None; None is as good as False here.
RecoveredCases(results) == {i \in ResolvedCases(results) : results[i].recovered = TRUE}
ExceptionCases(results) == {i \in ResolvedCases(results) : results[i].recovered # TRUE}

EscalatedCases(results) ==
    {i \in ExceptionCases(results) : results[i].action.type = "ESCALATE"}

PromiseCases(results) ==
    {i \in ResolvedCases(results) :
        /\ results[i].action.type \in PromiseActionTypes
        /\ results[i].promise # "none"}

Amount(results, cases) == MapThenSumSet(LAMBDA i : results[i].record.amount, cases)

ByCause(results, cases) ==
    [c \in {results[i].action.cause : i \in cases} |->
        Cardinality({i \in cases : results[i].action.cause = c})]

SumCounts(f) == MapThenSumSet(LAMBDA c : f[c], DOMAIN f)

Summary(results) ==
    LET recovered == RecoveredCases(results)
        kept == {i \in PromiseCases(results) : results[i].promise = "kept"}
    IN
    [total_cases              |-> Cardinality(DOMAIN results),
     resolved_cases           |-> Cardinality(ResolvedCases(results)),
     real_resolved_cases      |-> Cardinality(RealResolved(results)),
     simulated_resolved_cases |-> Cardinality(SimulatedResolved(results)),
     recovered_cases          |-> Cardinality(recovered),
     exception_cases          |-> Cardinality(ExceptionCases(results)),
     pending_cases            |-> Cardinality(PendingCases(results)),
     escalated_cases          |-> Cardinality(EscalatedCases(results)),
     revenue_recovered_real   |-> Amount(results, recovered \cap RealResolved(results)),
     projected_revenue        |-> Amount(results, recovered \cap SimulatedResolved(results)),
     recovered_amount         |-> Amount(results, recovered),
     total_amount             |-> Amount(results, DOMAIN results),
     pending_amount           |-> Amount(results, PendingCases(results)),
     unrecovered_amount       |-> Amount(results, DOMAIN results)
                                    - Amount(results, recovered)
                                    - Amount(results, PendingCases(results)),
     cases_by_cause           |-> ByCause(results, DOMAIN results),
     exceptions_by_cause      |-> ByCause(results, ExceptionCases(results)),
     promises_kept            |-> Cardinality(kept),
     promises_broken          |-> Cardinality(PromiseCases(results)) - Cardinality(kept)]

=============================================================================
