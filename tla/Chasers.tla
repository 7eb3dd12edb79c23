------------------------------- MODULE Chasers -------------------------------
(***************************************************************************)
(* The two batch pipelines that chase customers, agent/receivables.py and  *)
(* agent/checkout_recovery.py, and the webhook event log, each over its    *)
(* own file (JsonLog).                                                     *)
(*                                                                         *)
(* A run classifies each record of its batch by how long it has waited,    *)
(* picks an action from a ladder, logs the outcome, and at the end writes  *)
(* the summary of what it did.  Runs may overlap and may be repeated.      *)
(* A behaviour is about one of the three logs, `kind': nothing is shared   *)
(* between them.                                                           *)
(***************************************************************************)
EXTENDS JsonLog, Integers, FiniteSets

CONSTANTS
    Records     \* per pipeline, the records of its batch files

\* An invoice that is not due yet has waited for less than nothing.
ASSUME ChasersAssumption ==
    \A k \in {"receivables", "checkouts"} :
        IsFiniteSet(Records[k]) /\ Records[k] \subseteq [wait : Int, amount : Int]

VARIABLES
    kind,       \* which log
    run,        \* each run of the pipeline: its place and its locals
    summary     \* the summary file

chaserVars == <<kind, run, summary>>
vars == <<logVars, chaserVars>>

Pipelines == {"receivables", "checkouts"}

-----------------------------------------------------------------------------
(* Classification and choice: pure functions of a record *)

classify_invoice(days) == IF days <= 7 THEN 1 ELSE IF days <= 30 THEN 2 ELSE 3

classify_checkout(hours) == IF hours < 1 THEN 1 ELSE IF hours <= 24 THEN 2 ELSE 3

Bucket(k, x) == IF k = "receivables" THEN classify_invoice(x.wait)
                                     ELSE classify_checkout(x.wait)

\* ACTION_MAP: the action of each bucket; and MIN_COLLECTIONS_AMOUNT,
\* MIN_DISCOUNT_AMOUNT: the rung that is too costly below an amount.
ReceivablesPolicy ==
    [ladder |-> <<"GENTLE_REMINDER", "FIRM_REMINDER", "ESCALATE_TO_COLLECTIONS">>,
     costly |-> 3, min |-> 10000]

CheckoutPolicy ==
    [ladder |-> <<"EMAIL_NUDGE", "DISCOUNT_OFFER", "ESCALATE_OR_DROP">>,
     costly |-> 2, min |-> 1000]

Policy(k) == IF k = "receivables" THEN ReceivablesPolicy ELSE CheckoutPolicy
Ladder(k) == Policy(k).ladder

\* The gate of decide_action.
TooSmall(k, x) == Bucket(k, x) = Policy(k).costly /\ x.amount < Policy(k).min

\* Mutant: what is too small gets the gentlest action.
Rung_Gentlest(k, x) == IF TooSmall(k, x) THEN 1 ELSE Bucket(k, x)

\* decide_action, down to the rung of the ladder: what is too small gets the
\* rung below.
Rung(k, x) == IF TooSmall(k, x) THEN Bucket(k, x) - 1 ELSE Bucket(k, x)

\* An outcome; its timestamp is the number of appends begun so far.
Outcome(k, x, responded, at) ==
    [record |-> x, cause |-> Bucket(k, x), action_type |-> Ladder(k)[Rung(k, x)],
     policy_approved |-> ~ TooSmall(k, x), responded |-> responded, timestamp |-> at]

-----------------------------------------------------------------------------
(* State *)

\* A run: its place, its batch, the records still to do, the outcomes so far.
Run(pc, batch, todo, results) ==
    [pc |-> pc, batch |-> batch, todo |-> todo, results |-> results]
IdleRun == Run("idle", {}, {}, {})

\* summarize: the figures, as the outcomes that each one counts or sums.
Summary(k, results) ==
    [total |-> results,
     responded |-> {e \in results : e.responded},
     unresponded |-> {e \in results : ~ e.responded},
     by_cause |-> [c \in 1..3 |-> {e \in results : e.cause = c}],
     escalated |-> {e \in results : e.action_type = Ladder(k)[3]},
     discounted |-> IF k = "checkouts" THEN {e \in results : e.action_type = Ladder(k)[2]}
                                       ELSE {}]

\* No file yet; and what a process killed between open(.., "w") and the end of
\* json.dump leaves.
NoSummary == [form |-> "absent"]
TornSummary == [form |-> "torn"]

Init ==
    /\ LogInit
    /\ kind \in Pipelines \cup {"webhook_events"}
    /\ locked = (kind # "webhook_events")
    /\ run = [r \in Writers |-> IdleRun]
    /\ summary = NoSummary

-----------------------------------------------------------------------------
(* run_pipeline *)

\* A run begins, with a batch that MaxAppends leaves room for.
Start(r, batch) ==
    /\ run[r].pc = "idle"
    /\ appends + Cardinality(batch) <= MaxAppends
    /\ run' = [run EXCEPT ![r] = Run("loop", batch, batch, {})]
    /\ UNCHANGED <<logVars, kind, summary>>

\* classify, decide_action, and execute_action up to its append.
ExecuteAction(r, x) ==
    /\ run[r].pc = "loop"
    /\ x \in run[r].todo
    /\ \E responded \in BOOLEAN :
         BeginAppend(r, Outcome(kind, x, responded, appends))
    /\ run' = [run EXCEPT ![r] =
                 Run("append", run[r].batch, run[r].todo \ {x}, run[r].results)]
    /\ UNCHANGED <<kind, summary>>

\* The append goes on.
KeepAppending(r) ==
    /\ Load(r) \/ Truncate(r)
    /\ UNCHANGED chaserVars

\* It returns, and the outcome is one of the run's results.
AppendReturns(r) ==
    /\ run[r].pc = "append"
    /\ Write(r)
    /\ run' = [run EXCEPT ![r] = Run("loop", run[r].batch, run[r].todo,
                                     run[r].results \cup {writer[r].entry})]
    /\ UNCHANGED <<kind, summary>>

\* Mutant: a lock that times out is taken for an append.
AppendRaises_Swallowed(r) ==
    /\ run[r].pc = "append"
    /\ TimeOut(r)
    /\ run' = [run EXCEPT ![r] = Run("loop", run[r].batch, run[r].todo,
                                     run[r].results \cup {writer[r].entry})]
    /\ UNCHANGED <<kind, summary>>

\* Nothing catches filelock.Timeout: the run dies.
AppendRaises(r) ==
    /\ run[r].pc = "append"
    /\ TimeOut(r)
    /\ run' = [run EXCEPT ![r] = IdleRun]
    /\ UNCHANGED <<kind, summary>>

\* checkout_recovery.summarize binds `discounted' inside its loop only.
Unbound(results) == kind = "checkouts" /\ results = {}

Summarize(r) ==
    /\ run[r].pc = "loop" /\ run[r].todo = {}
    /\ ~ Unbound(run[r].results)
    /\ summary' = Summary(kind, run[r].results)
    /\ run' = [run EXCEPT ![r] = IdleRun]
    /\ UNCHANGED <<logVars, kind>>

\* UnboundLocalError: no summary is written.
SummarizeRaises(r) ==
    /\ run[r].pc = "loop" /\ run[r].todo = {}
    /\ Unbound(run[r].results)
    /\ run' = [run EXCEPT ![r] = IdleRun]
    /\ UNCHANGED <<logVars, kind, summary>>

\* The process of a run, or of a webhook worker, is killed, maybe while it
\* writes its summary.
Killed(r) ==
    /\ run[r].pc # "idle" \/ writer[r].pc # "idle"
    /\ Kill(r)
    /\ \/ UNCHANGED summary
       \/ /\ run[r].pc = "loop" /\ run[r].todo = {} /\ ~ Unbound(run[r].results)
          /\ summary' = TornSummary
    /\ run' = [run EXCEPT ![r] = IdleRun]
    /\ UNCHANGED kind

-----------------------------------------------------------------------------
(* webhook_server._append_event_log, in a worker *)

LogEvent(w, e) ==
    /\ kind = "webhook_events"
    /\ BeginAppend(w, e)
    /\ UNCHANGED chaserVars

EventLogged(w) ==
    /\ run[w].pc # "append"
    /\ Write(w)
    /\ UNCHANGED chaserVars

-----------------------------------------------------------------------------

RunNext(r) ==
    \/ kind \in Pipelines /\ \E batch \in SUBSET Records[kind] : Start(r, batch)
    \/ \E x \in run[r].todo : ExecuteAction(r, x)
    \/ KeepAppending(r) \/ AppendReturns(r) \/ AppendRaises(r)
    \/ Summarize(r) \/ SummarizeRaises(r) \/ Killed(r)
    \/ \E e \in Entries : LogEvent(r, e)
    \/ EventLogged(r)

Next == \E r \in Writers : RunNext(r)

Spec == Init /\ [][Next]_vars

-----------------------------------------------------------------------------
(* Properties *)

LoggedEntries == {Committed[i] : i \in DOMAIN Committed}

\* What a summary reports is what happened: the run that writes it has dealt
\* with each record of its batch exactly once, and every outcome it counts is
\* in the audit log, runs that overlap and locks that time out
\* notwithstanding.  Only a killed process can make the log poorer, or leave a
\* summary that nobody can read.
ToldOf(r) ==
    /\ summary'.total = run[r].results
    /\ {e.record : e \in run[r].results} = run[r].batch
    /\ Cardinality(run[r].results) = Cardinality(run[r].batch)
    /\ kills = 0 => run[r].results \subseteq LoggedEntries

SummaryTold ==
    [][summary' \notin {summary, TornSummary} => \E r \in Writers : ToldOf(r)]_vars

\* The rung that an outcome's action is on.
RungOf(e) == CHOOSE i \in 1..3 : Ladder(kind)[i] = e.action_type

\* README "Action ladder": who has waited at least as long and owes at least as
\* much is never chased more gently, on either side of every limit and gate.
LadderClimbs ==
    kind \in Pipelines =>
        \A i, j \in DOMAIN returned :
            /\ returned[i].record.wait <= returned[j].record.wait
            /\ returned[i].record.amount <= returned[j].record.amount
            => RungOf(returned[i]) <= RungOf(returned[j])

\* receivables, checkout_recovery: a run that nobody kills and whose lock does
\* not time out reports, whatever its batch ("total ... else 0.0").
EveryRunReports ==
    [][\A r \in Writers :
         run[r].pc = "loop" /\ run'[r].pc = "idle" /\ kills' = kills
             => summary' = Summary(kind, run[r].results)]_vars

-----------------------------------------------------------------------------
(* The inductive invariant behind SummaryTold *)

Returned == {returned[i] : i \in 1..Len(returned)}

\* The outcomes of a run: its results, and the one it is appending.
Done(r) ==
    run[r].results \cup IF run[r].pc = "append" THEN {writer[r].entry} ELSE {}

\* A run has one outcome for each record that it has taken from its batch; what
\* it counts as a result has returned from its append.
DoneOnce(r) ==
    /\ IsFiniteSet(run[r].batch) /\ run[r].todo \subseteq run[r].batch
    /\ {e.record : e \in Done(r)} = run[r].batch \ run[r].todo
    /\ \A e, f \in Done(r) : e.record = f.record => e = f
    /\ kills = 0 => run[r].results \subseteq Returned
    /\ run[r].pc = "append" => writer[r].pc # "idle"
    /\ run[r].pc # "idle" => locked

RunsTypeOK ==
    /\ run = [r \in Writers |-> Run(run[r].pc, run[r].batch, run[r].todo, run[r].results)]
    /\ locked = (kind # "webhook_events")
    /\ returned \in Seq(Returned)

ChasersInv == LogInv /\ RunsTypeOK /\ \A r \in Writers : DoneOnce(r)

=============================================================================
