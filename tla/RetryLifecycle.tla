---------------------------- MODULE RetryLifecycle ----------------------------
(***************************************************************************)
(* The life of a real retry, across every process that touches it:         *)
(*                                                                         *)
(*   pipeline   (app.py)   reads the audit log and Razorpay's failed       *)
(*              payments, creates a retry order for each new one,          *)
(*              registers it in the pending store, logs a pending outcome; *)
(*   worker     (agent/webhook_server.py, one per gunicorn worker) pops a  *)
(*              pending order when an event names it and logs its outcome; *)
(*   reconciler (agent/reconcile_pending.py under reconcile_loop.py) polls *)
(*              the status of each pending order and pops it when it is    *)
(*              paid, or when it is older than the timeout.                *)
(*                                                                         *)
(* The processes share three files and nothing else: the pending store,    *)
(* the audit log and the webhook event log.  A step of this module is the  *)
(* code between two accesses to shared state; each call of the pending     *)
(* store and each locked append is one step (PendingStore and JsonLog open *)
(* those calls up).  Razorpay and its customers are external.              *)
(***************************************************************************)
EXTENDS Naturals, Sequences, FiniteSets

CONSTANTS
    Payments,       \* payment ids
    Synthetic,      \* the ids of data/failed_payments.json
    InitialFailed,  \* the payments Razorpay reports failed at the start
    Orders,         \* order ids
    ManualOrders,   \* the orders that register_pending.py registers
    Pipelines,      \* overlapping runs of app.py
    Workers,        \* gunicorn workers of the webhook service
    Reconcilers,    \* reconcile loops
    Timeout,        \* PENDING_TIMEOUT_MINUTES, in ticks
    MaxFaults,      \* bound on the faults of a behaviour
    FaultKinds,     \* the faults a behaviour may show
    None            \* Python's None

AllFaultKinds == {"crash", "lock_timeout", "lost_response",
                  "torn_read", "torn_write"}

OrderStatuses == {"absent", "created", "attempted", "paid"}

ASSUME ConstantsAssumption ==
    /\ Synthetic \subseteq Payments
    /\ InitialFailed \subseteq Payments \ Synthetic
    /\ ManualOrders \subseteq Orders
    /\ Workers \cap Reconcilers = {}
    /\ Timeout \in Nat
    /\ MaxFaults \in Nat
    /\ FaultKinds \subseteq AllFaultKinds
    /\ None \notin Payments \cup Orders \cup OrderStatuses

Handlers == Workers \cup Reconcilers

\* The orders that the agent creates.
AgentOrders == Orders \ ManualOrders

VARIABLES
    rzpFailed,  \* Razorpay: the payments it reports as failed
    failedOn,   \* Razorpay: the order each failed payment was made on
    status,     \* Razorpay: the status of each order, "absent" before it exists
    retryFor,   \* Razorpay: the retry_for_payment_id note of each order
    emitted,    \* Razorpay: the webhook events sent so far
    age,        \* ticks since each order was created, capped at Timeout + 1
    pending,    \* logs/pending_retries.json: the orders registered in it
    auditLog,   \* logs/audit_log.json
    eventLog,   \* logs/webhook_events.json: its entries with resolved_pending
    pipe,       \* each pipeline run: its place and its locals
    hook,       \* each webhook worker: its place and its locals
    recon,      \* each reconciler: its place and its locals
    claim,      \* the outcome each handler has yet to log for an entry it popped
    faults      \* the number of faults so far

razorpayVars == <<rzpFailed, failedOn, status, retryFor, emitted, age>>
fileVars == <<pending, auditLog, eventLog>>
vars == <<razorpayVars, fileVars, pipe, hook, recon, claim, faults>>

-----------------------------------------------------------------------------
(* Data *)

\* An outcome of the audit log, down to the fields the properties read.
\* `result' folds status and recovered: (pending, None), (resolved, True) and
\* (resolved, False).
Outcome(result, method, x, o) ==
    [result |-> result, method |-> method, payment |-> x, order |-> o]

Results == {"none", "pending", "recovered", "unrecovered"}
Methods == {"none", "simulated", "retry_initiation_failed",
            "webhook", "poll", "timeout"}
Outcomes == [result : Results, method : Methods,
             payment : Payments \cup {None}, order : Orders \cup {None}]

\* What a handler or a pipeline holds when it has nothing to log.
NoOutcome == Outcome("none", "none", None, None)

Resolved(e) == e.result \in {"recovered", "unrecovered"}

Verdict(recovered) == IF recovered THEN "recovered" ELSE "unrecovered"

EventTypes == {"payment.authorized", "payment.failed",
               "payment.captured", "order.paid"}
Events == [type : EventTypes, order : Orders]

\* Mutants: every event is final; every final event is good news.
HandledEvents_TooMany == EventTypes
RecoveredBy_AnyFinalEvent(type) ==
    type \in {"payment.captured", "order.paid", "payment.failed"}

\* Mutant: a capture is not taken for a recovery.
RecoveredBy_OrderPaidOnly(type) == type = "order.paid"

\* What an event that webhook_server handles says of the payment.
HandledEvents == {"payment.captured", "order.paid", "payment.failed"}
RecoveredBy(type) == type \in {"payment.captured", "order.paid"}

\* A pipeline run: its place, the ids it skips, the records still to do, and
\* the outcome of the current record.
Pipe(pc, seen, batch, out) ==
    [pc |-> pc, seen |-> seen, batch |-> batch, out |-> out]

\* A worker: its place, its event, and whether the event resolved a retry.
Hook(pc, event, resolved) == [pc |-> pc, event |-> event, resolved |-> resolved]

\* A reconciler: its place, the records still to do, those of them older than
\* the timeout, and the order it is about to pop, as paid or as timed out.
Recon(pc, todo, expired, order, paid) ==
    [pc |-> pc, todo |-> todo, expired |-> expired, order |-> order, paid |-> paid]

IdlePipe == Pipe("idle", {}, {}, NoOutcome)
IdleHook == Hook("idle", None, FALSE)
IdleRecon == Recon("sleep", {}, {}, None, FALSE)

Init ==
    /\ rzpFailed = InitialFailed
    /\ failedOn = [x \in Payments |-> None]
    /\ status = [o \in Orders |-> "absent"]
    /\ retryFor = [o \in Orders |-> None]
    /\ emitted = {}
    /\ age = [o \in Orders |-> 0]
    /\ pending = {}
    /\ auditLog = <<>>
    /\ eventLog = {}
    /\ pipe = [p \in Pipelines |-> IdlePipe]
    /\ hook = [w \in Workers |-> IdleHook]
    /\ recon = [r \in Reconcilers |-> IdleRecon]
    /\ claim = [h \in Handlers |-> NoOutcome]
    /\ faults = 0

Fault(kind) ==
    /\ kind \in FaultKinds
    /\ faults < MaxFaults
    /\ faults' = faults + 1

-----------------------------------------------------------------------------
(* Razorpay, its customers, and time (external) *)

\* The customer pays a retry order; the money is authorized, not captured.
Authorize(o) ==
    /\ status[o] \in {"created", "attempted"}
    /\ [type |-> "payment.authorized", order |-> o] \notin emitted
    /\ status' = [status EXCEPT ![o] = "attempted"]
    /\ emitted' = emitted \cup {[type |-> "payment.authorized", order |-> o]}
    /\ UNCHANGED <<rzpFailed, failedOn, retryFor, age,
                   fileVars, pipe, hook, recon, claim, faults>>

\* An authorized payment is captured: the order is paid, for good.
Capture(o) ==
    /\ status[o] = "attempted"
    /\ [type |-> "payment.authorized", order |-> o] \in emitted
    /\ status' = [status EXCEPT ![o] = "paid"]
    /\ emitted' = emitted \cup [type : {"payment.captured", "order.paid"},
                                order : {o}]
    /\ UNCHANGED <<rzpFailed, failedOn, retryFor, age,
                   fileVars, pipe, hook, recon, claim, faults>>

\* The customer tries to pay and fails: a new failed payment x of the account.
\* The order stays open, the customer may try again.
FailAttempt(o, x) ==
    /\ status[o] \in {"created", "attempted"}
    /\ x \notin rzpFailed \cup Synthetic
    /\ status' = [status EXCEPT ![o] = "attempted"]
    /\ rzpFailed' = rzpFailed \cup {x}
    /\ failedOn' = [failedOn EXCEPT ![x] = o]
    /\ emitted' = emitted \cup {[type |-> "payment.failed", order |-> o]}
    /\ UNCHANGED <<retryFor, age, fileVars, pipe, hook, recon, claim, faults>>

\* A tick of the clock, for every order there is.
Tick ==
    /\ \E o \in Orders : status[o] # "absent" /\ age[o] <= Timeout
    /\ age' = [o \in Orders |->
                 IF status[o] # "absent" /\ age[o] <= Timeout
                 THEN age[o] + 1 ELSE age[o]]
    /\ UNCHANGED <<rzpFailed, failedOn, status, retryFor, emitted,
                   fileVars, pipe, hook, recon, claim, faults>>

-----------------------------------------------------------------------------
(* The files *)

\* execute.append_to_audit_log: read, append, write under the log's lock.
LogOutcome(e) == auditLog' = Append(auditLog, e)

\* A process that has opened the log for writing, which truncates it, and
\* has not written it yet.
Appending == \/ \E p \in Pipelines : pipe[p].pc = "append"
             \/ \E h \in Handlers : claim[h] # NoOutcome

\* Mutant: only what is resolved counts as processed.
ProcessedIds_ResolvedOnly ==
    {auditLog[i].payment : i \in {j \in DOMAIN auditLog : Resolved(auditLog[j])}}

\* diagnose._already_processed_ids: the payment id of every entry, read
\* without the lock.
ProcessedIds == {auditLog[i].payment : i \in DOMAIN auditLog}

\* Mutant: the entry is read and left in the store.
Popped_ReadOnly(o) == pending

\* pending_store.add_pending and pop_pending, as set operations.
Added(o) == pending \cup {o}
Popped(o) == pending \ {o}

\* The write under the lock dies after open(.., "w"): the next reader meets a
\* JSONDecodeError and starts from an empty log.
TornWrite == Fault("torn_write") /\ auditLog' = <<>>

-----------------------------------------------------------------------------
(* The pipeline: app.run_pipeline, diagnose.load_batch, execute.run_action *)

\* load_batch reads the processed ids first.  An append in progress may show
\* it a truncated file, which it takes for an empty log.
StartRun(p) ==
    /\ pipe[p].pc = "idle"
    /\ \/ /\ pipe' = [pipe EXCEPT ![p] = Pipe("fetch", ProcessedIds, {}, NoOutcome)]
          /\ UNCHANGED faults
       \/ /\ Fault("torn_read")
          /\ Appending
          /\ pipe' = [pipe EXCEPT ![p] = Pipe("fetch", {}, {}, NoOutcome)]
    /\ UNCHANGED <<razorpayVars, fileVars, hook, recon, claim>>

\* It then fetches the failed payments, drops the processed ones and adds the
\* synthetic records.  The fetch shows some of the failed payments: none when
\* the call fails, and only those among the latest 100 payments otherwise.
FetchBatch(p) ==
    /\ pipe[p].pc = "fetch"
    /\ \E got \in SUBSET rzpFailed :
         pipe' = [pipe EXCEPT ![p] =
                    Pipe("loop", {}, (got \cup Synthetic) \ pipe[p].seen, NoOutcome)]
    /\ UNCHANGED <<razorpayVars, fileVars, hook, recon, claim, faults>>

\* The next record of the batch is x, and its outcome is e.
Take(p, x, pc, e) ==
    /\ pipe[p].pc = "loop"
    /\ x \in pipe[p].batch
    /\ pipe' = [pipe EXCEPT ![p] = Pipe(pc, {}, pipe[p].batch \ {x}, e)]

\* _run_simulated: a synthetic record, or a live one whose action is no retry.
Simulate(p, x) ==
    /\ \E recovered \in BOOLEAN :
         Take(p, x, "append", Outcome(Verdict(recovered), "simulated", x, None))
    /\ UNCHANGED <<razorpayVars, fileVars, hook, recon, claim, faults>>

\* razorpay_client.attempt_retry creates order o for payment x at Razorpay.
NewOrder(x, o) ==
    /\ x \notin Synthetic
    /\ status[o] = "absent"
    /\ status' = [status EXCEPT ![o] = "created"]
    /\ retryFor' = [retryFor EXCEPT ![o] = x]
    /\ UNCHANGED <<rzpFailed, failedOn, emitted, age>>

\* _initiate_live_retry up to add_pending.
CreateOrder(p, x, o) ==
    /\ o \notin ManualOrders
    /\ NewOrder(x, o)
    /\ Take(p, x, "register", Outcome("pending", "none", x, o))
    /\ UNCHANGED <<fileVars, hook, recon, claim, faults>>

\* Mutant: a status that no reader of the log knows.
InitiationFailed_NewStatus(x) ==
    Outcome("failed", "retry_initiation_failed", x, None)

InitiationFailed(x) ==
    Outcome("unrecovered", "retry_initiation_failed", x, None)

\* _initiate_live_retry when Razorpay refuses or cannot be reached.
InitiationFails(p, x) ==
    /\ x \notin Synthetic
    /\ Take(p, x, "append", InitiationFailed(x))
    /\ UNCHANGED <<razorpayVars, fileVars, hook, recon, claim, faults>>

\* The same when the request did arrive and only its answer was lost.
ResponseLost(p, x, o) ==
    /\ Fault("lost_response")
    /\ o \notin ManualOrders
    /\ NewOrder(x, o)
    /\ Take(p, x, "append", InitiationFailed(x))
    /\ UNCHANGED <<fileVars, hook, recon, claim>>

\* pending_store.add_pending.
AddPending(p) ==
    /\ pipe[p].pc = "register"
    /\ pending' = Added(pipe[p].out.order)
    /\ pipe' = [pipe EXCEPT ![p] = Pipe("append", {}, pipe[p].batch, pipe[p].out)]
    /\ UNCHANGED <<razorpayVars, auditLog, eventLog, hook, recon, claim, faults>>

\* run_action logs the outcome, whatever became of the order meanwhile.
AppendOutcome(p) ==
    /\ pipe[p].pc = "append"
    /\ LogOutcome(pipe[p].out)
    /\ pipe' = [pipe EXCEPT ![p] = Pipe("loop", {}, pipe[p].batch, NoOutcome)]
    /\ UNCHANGED <<razorpayVars, pending, eventLog, hook, recon, claim, faults>>

EndRun(p) ==
    /\ pipe[p].pc = "loop"
    /\ pipe[p].batch = {}
    /\ pipe' = [pipe EXCEPT ![p] = IdlePipe]
    /\ UNCHANGED <<razorpayVars, fileVars, hook, recon, claim, faults>>

\* The run dies: killed anywhere, or by a filelock.Timeout that nothing
\* catches, or killed inside the write of the log.
PipelineDies(p) ==
    /\ pipe[p].pc # "idle"
    /\ \/ Fault("crash") /\ UNCHANGED auditLog
       \/ pipe[p].pc = "append" /\ Fault("lock_timeout") /\ UNCHANGED auditLog
       \/ pipe[p].pc = "append" /\ TornWrite
    /\ pipe' = [pipe EXCEPT ![p] = IdlePipe]
    /\ UNCHANGED <<razorpayVars, pending, eventLog, hook, recon, claim>>

\* register_pending.py: an order made by hand, whose entry has no initiated_at,
\* original_payment_id, cause, action_type, max_attempts or reasoning.
RegisterManually(o) ==
    /\ o \in ManualOrders
    /\ status[o] = "absent"
    /\ status' = [status EXCEPT ![o] = "created"]
    /\ pending' = Added(o)
    /\ UNCHANGED <<rzpFailed, failedOn, retryFor, emitted, age,
                   auditLog, eventLog, pipe, hook, recon, claim, faults>>

-----------------------------------------------------------------------------
(* Handlers: what a webhook worker and a reconciler have in common *)

\* Mutant: the result of pop_pending is not looked at.
Claimable_Unchecked(o) == TRUE

\* pop_pending finds the order, hence this caller is the one to resolve it.
Claimable(o) == o \in pending

\* The outcome of _resolve_pending and _resolve for a popped entry.
Resolution(method, recovered, o) ==
    Outcome(Verdict(recovered), method, retryFor[o], o)

\* Building the outcome of a manual order raises a KeyError.
Malformed(o) == o \in ManualOrders

\* The handler pops o; it then holds the outcome it must log.
PopAndClaim(h, o, e) ==
    /\ Claimable(o)
    /\ ~ Malformed(o)
    /\ pending' = Popped(o)
    /\ claim' = [claim EXCEPT ![h] = e]

\* The handler pops o and raises before it has an outcome.
PopAndRaise(o) ==
    /\ Claimable(o)
    /\ Malformed(o)
    /\ pending' = Popped(o)
    /\ UNCHANGED claim

\* Mutant: the outcome is built and never logged.
LogClaim_Forgets(h) ==
    /\ claim[h] # NoOutcome
    /\ claim' = [claim EXCEPT ![h] = NoOutcome]
    /\ UNCHANGED auditLog

LogClaim(h) ==
    /\ claim[h] # NoOutcome
    /\ LogOutcome(claim[h])
    /\ claim' = [claim EXCEPT ![h] = NoOutcome]

\* The process is killed, possibly inside the write of the log.
Killed(h) ==
    /\ \/ Fault("crash") /\ UNCHANGED auditLog
       \/ claim[h] # NoOutcome /\ TornWrite
    /\ claim' = [claim EXCEPT ![h] = NoOutcome]

\* FileLock(.., timeout=10) raises: what the handler held is gone.
LockTimesOut(h) ==
    /\ claim[h] # NoOutcome
    /\ Fault("lock_timeout")
    /\ claim' = [claim EXCEPT ![h] = NoOutcome]
    /\ UNCHANGED auditLog

-----------------------------------------------------------------------------
(* The webhook service: webhook_server.razorpay_webhook, _resolve_pending *)

\* A worker may receive any event that was sent, in any order, any number of
\* times, or never: delivery is neither reliable nor exactly once.
Receive(w, e) ==
    /\ hook[w].pc = "idle"
    /\ e \in emitted

Concerns(e) == e.type \in HandledEvents /\ Claimable(e.order)

\* The event names a pending order: pop it.
ClaimByEvent(w, e) ==
    /\ Receive(w, e)
    /\ Concerns(e)
    /\ PopAndClaim(w, e.order,
                   Resolution("webhook", RecoveredBy(e.type), e.order))
    /\ hook' = [hook EXCEPT ![w] = Hook("append", e, TRUE)]
    /\ UNCHANGED <<razorpayVars, auditLog, eventLog, pipe, recon, faults>>

\* The same for a malformed entry: the request ends in a 500.
RaiseOnEvent(w, e) ==
    /\ Receive(w, e)
    /\ Concerns(e)
    /\ PopAndRaise(e.order)
    /\ UNCHANGED <<razorpayVars, auditLog, eventLog, pipe, hook, recon, faults>>

\* Mutant: resolved_pending says whether the event is of a final type.
PassOverEvent_AsResolved(w, e) ==
    /\ Receive(w, e)
    /\ ~ Concerns(e)
    /\ hook' = [hook EXCEPT ![w] = Hook("log", e, e.type \in HandledEvents)]
    /\ UNCHANGED <<razorpayVars, fileVars, pipe, recon, claim, faults>>

\* An event of another type, or of an order that is not pending.
PassOverEvent(w, e) ==
    /\ Receive(w, e)
    /\ ~ Concerns(e)
    /\ hook' = [hook EXCEPT ![w] = Hook("log", e, FALSE)]
    /\ UNCHANGED <<razorpayVars, fileVars, pipe, recon, claim, faults>>

AppendResolution(w) ==
    /\ hook[w].pc = "append"
    /\ LogClaim(w)
    /\ hook' = [hook EXCEPT ![w] = Hook("log", hook[w].event, hook[w].resolved)]
    /\ UNCHANGED <<razorpayVars, pending, eventLog, pipe, recon, faults>>

\* _append_event_log, with resolved_pending, and the 200.
LogEvent(w) ==
    /\ hook[w].pc = "log"
    /\ eventLog' = IF hook[w].resolved THEN eventLog \cup {hook[w].event}
                                       ELSE eventLog
    /\ hook' = [hook EXCEPT ![w] = IdleHook]
    /\ UNCHANGED <<razorpayVars, pending, auditLog, pipe, recon, claim, faults>>

\* The request ends early: the worker is killed, or the lock times out (a 500).
RequestDies(w) ==
    /\ hook[w].pc # "idle"
    /\ Killed(w) \/ LockTimesOut(w)
    /\ hook' = [hook EXCEPT ![w] = IdleHook]
    /\ UNCHANGED <<razorpayVars, pending, eventLog, pipe, recon>>

-----------------------------------------------------------------------------
(* The reconcile loop: reconcile_loop.main, reconcile_pending.reconcile_once *)

\* Mutant: >= for >.
Expired_Early(o) == age[o] >= Timeout

\* age > timedelta(minutes=PENDING_TIMEOUT_MINUTES)
Expired(o) == age[o] > Timeout

\* A pass takes one snapshot of the store, and one `now' for every age.
BeginPass(r) ==
    /\ recon[r].pc = "sleep"
    /\ recon' = [recon EXCEPT ![r] =
                   Recon("scan", pending, {o \in pending \ ManualOrders : Expired(o)},
                         None, FALSE)]
    /\ UNCHANGED <<razorpayVars, fileVars, pipe, hook, claim, faults>>

\* razorpay_client.check_order_status: None stands for a failed call.
OrderStatus(o) == {status[o], None}

\* Mutants: a record that cannot be read ends the pass; an order whose status
\* is unknown is left alone, however old it is.
NextInScan_Aborts(r, o, s) ==
    LET todo == recon[r].todo \ {o} IN
    IF Malformed(o) /\ s # "paid" THEN IdleRecon
    ELSE IF s = "paid" \/ o \in recon[r].expired
    THEN Recon("pop", todo, recon[r].expired, o, s = "paid")
    ELSE Recon("scan", todo, recon[r].expired, None, FALSE)

NextInScan_SkipsUnknown(r, o, s) ==
    LET todo == recon[r].todo \ {o} IN
    IF s = "paid" \/ (s # None /\ o \in recon[r].expired)
    THEN Recon("pop", todo, recon[r].expired, o, s = "paid")
    ELSE Recon("scan", todo, recon[r].expired, None, FALSE)

\* Where the scan of r goes from order o, whose status was read as s.
NextInScan(r, o, s) ==
    LET todo == recon[r].todo \ {o} IN
    IF s = "paid" \/ o \in recon[r].expired
    THEN Recon("pop", todo, recon[r].expired, o, s = "paid")
    ELSE Recon("scan", todo, recon[r].expired, None, FALSE)

\* The next record of the snapshot: its status decides, then its age.  A
\* malformed entry has no age; the KeyError leaves it where it is.
CheckOrder(r, o) ==
    /\ recon[r].pc = "scan"
    /\ o \in recon[r].todo
    /\ \E s \in OrderStatus(o) :
         recon' = [recon EXCEPT ![r] = NextInScan(r, o, s)]
    /\ UNCHANGED <<razorpayVars, fileVars, pipe, hook, claim, faults>>

\* The loop takes up the next record.
ScanOn(r) ==
    recon' = [recon EXCEPT ![r] = Recon("scan", recon[r].todo, recon[r].expired,
                                        None, FALSE)]

\* The order is still pending: pop it, as paid or as timed out.
ClaimByPoll(r) ==
    /\ recon[r].pc = "pop"
    /\ PopAndClaim(r, recon[r].order,
                   Resolution(IF recon[r].paid THEN "poll" ELSE "timeout",
                              recon[r].paid, recon[r].order))
    /\ recon' = [recon EXCEPT ![r] = Recon("append", recon[r].todo, recon[r].expired,
                                           None, FALSE)]
    /\ UNCHANGED <<razorpayVars, auditLog, eventLog, pipe, hook, faults>>

\* A malformed entry is popped, then _resolve raises and the pass goes on.
RaiseOnPoll(r) ==
    /\ recon[r].pc = "pop"
    /\ PopAndRaise(recon[r].order)
    /\ ScanOn(r)
    /\ UNCHANGED <<razorpayVars, auditLog, eventLog, pipe, hook, faults>>

\* A webhook was faster.
LoseRace(r) ==
    /\ recon[r].pc = "pop"
    /\ ~ Claimable(recon[r].order)
    /\ ScanOn(r)
    /\ UNCHANGED <<razorpayVars, fileVars, pipe, hook, claim, faults>>

\* _resolve logs the outcome.
Resolve(r) ==
    /\ recon[r].pc = "append"
    /\ LogClaim(r)
    /\ ScanOn(r)
    /\ UNCHANGED <<razorpayVars, pending, eventLog, pipe, hook, faults>>

\* filelock.Timeout is one more exception of this record: the pass goes on.
ResolveTimesOut(r) ==
    /\ recon[r].pc = "append"
    /\ LockTimesOut(r)
    /\ ScanOn(r)
    /\ UNCHANGED <<razorpayVars, pending, eventLog, pipe, hook>>

EndPass(r) ==
    /\ recon[r].pc = "scan"
    /\ recon[r].todo = {}
    /\ recon' = [recon EXCEPT ![r] = IdleRecon]
    /\ UNCHANGED <<razorpayVars, fileVars, pipe, hook, claim, faults>>

\* The service is killed; docker restarts it.
ReconcilerDies(r) ==
    /\ recon[r].pc # "sleep"
    /\ Killed(r)
    /\ recon' = [recon EXCEPT ![r] = IdleRecon]
    /\ UNCHANGED <<razorpayVars, pending, eventLog, pipe, hook>>

-----------------------------------------------------------------------------

RazorpayNext ==
    \/ \E o \in Orders : Authorize(o) \/ Capture(o)
    \/ \E o \in Orders, x \in Payments : FailAttempt(o, x)

PipelineNext(p) ==
    \/ StartRun(p) \/ FetchBatch(p) \/ AddPending(p) \/ AppendOutcome(p)
    \/ EndRun(p) \/ PipelineDies(p)
    \/ \E x \in Payments : Simulate(p, x) \/ InitiationFails(p, x)
    \/ \E x \in Payments, o \in Orders : CreateOrder(p, x, o) \/ ResponseLost(p, x, o)

\* What a worker does once it has an event, unless it dies.
WorkerStep(w) == AppendResolution(w) \/ LogEvent(w)

WorkerNext(w) ==
    \/ \E e \in emitted :
         ClaimByEvent(w, e) \/ RaiseOnEvent(w, e) \/ PassOverEvent(w, e)
    \/ WorkerStep(w)
    \/ RequestDies(w)

\* What a reconciler does, unless it dies or its append times out.
ReconcilerStep(r) ==
    \/ BeginPass(r) \/ ClaimByPoll(r) \/ RaiseOnPoll(r) \/ LoseRace(r)
    \/ Resolve(r) \/ EndPass(r)
    \/ \E o \in Orders : CheckOrder(r, o)

ReconcilerNext(r) == ReconcilerStep(r) \/ ResolveTimesOut(r) \/ ReconcilerDies(r)

Next ==
    \/ RazorpayNext
    \/ Tick
    \/ \E o \in Orders : RegisterManually(o)
    \/ \E p \in Pipelines : PipelineNext(p)
    \/ \E w \in Workers : WorkerNext(w)
    \/ \E r \in Reconcilers : ReconcilerNext(r)

Spec == Init /\ [][Next]_vars

\* The reconcile service loops for ever and finishes the pass it began; a
\* request that was received runs to its end; time passes.  Nothing makes a
\* customer pay, Razorpay deliver an event, or anyone run the pipeline again.
Fairness ==
    /\ \A r \in Reconcilers : WF_vars(ReconcilerStep(r))
    /\ \A w \in Workers : WF_vars(WorkerStep(w))
    /\ WF_vars(Tick)

FairSpec == Spec /\ Fairness

-----------------------------------------------------------------------------
(* Where an order's case is *)

\* Created by pipeline p, which has not registered it yet.
Holds(p, o) == pipe[p].pc = "register" /\ pipe[p].out.order = o

\* Popped by handler h, which has not logged it yet.
Claims(h, o) == claim[h] # NoOutcome /\ claim[h].order = o

HeldByPipeline == {o \in Orders : \E p \in Pipelines : Holds(p, o)}
HeldByHandler == {o \in Orders : \E h \in Handlers : Claims(h, o)}

\* Closed by a resolution in the audit log.
ResolvedInLog ==
    {o \in Orders : \E i \in DOMAIN auditLog :
        Resolved(auditLog[i]) /\ auditLog[i].order = o}

Tracked == HeldByPipeline \cup pending \cup HeldByHandler \cup ResolvedInLog

\* Orders of the agent that a customer can still pay and that no file and no
\* process of the agent knows any more.
Untracked ==
    {o \in AgentOrders : status[o] # "absent" /\ o \notin Tracked}

-----------------------------------------------------------------------------
(* Properties *)

PipeType == [pc : {"idle", "fetch", "loop", "register", "append"},
             seen : SUBSET (Payments \cup {None}),
             batch : SUBSET Payments, out : Outcomes]
HookType == [pc : {"idle", "append", "log"},
             event : Events \cup {None}, resolved : BOOLEAN]
ReconType == [pc : {"sleep", "scan", "pop", "append"},
              todo : SUBSET Orders, expired : SUBSET Orders,
              order : Orders \cup {None}, paid : BOOLEAN]

TypeOK ==
    /\ rzpFailed \subseteq Payments
    /\ failedOn \in [Payments -> Orders \cup {None}]
    /\ status \in [Orders -> OrderStatuses]
    /\ retryFor \in [Orders -> Payments \cup {None}]
    /\ emitted \subseteq Events
    /\ age \in [Orders -> 0..(Timeout + 1)]
    /\ pending \subseteq Orders
    /\ auditLog \in Seq(Outcomes)
    /\ eventLog \subseteq Events
    /\ pipe \in [Pipelines -> PipeType]
    /\ hook \in [Workers -> HookType]
    /\ recon \in [Reconcilers -> ReconType]
    /\ claim \in [Handlers -> Outcomes]
    /\ faults \in 0..MaxFaults

\* At any time the case of an order is with one owner only: one pipeline, the
\* pending store, one handler, or the audit log that has closed it.
OneOwner ==
    /\ \A o \in Orders, p, q \in Pipelines : Holds(p, o) /\ Holds(q, o) => p = q
    /\ \A o \in Orders, h, g \in Handlers : Claims(h, o) /\ Claims(g, o) => h = g
    /\ HeldByPipeline \cap (pending \cup HeldByHandler \cup ResolvedInLog) = {}
    /\ pending \cap (HeldByHandler \cup ResolvedInLog) = {}
    /\ HeldByHandler \cap ResolvedInLog = {}

\* However webhook deliveries, their duplicates and overlapping polls
\* interleave, an order's case is resolved in the audit log at most once: what
\* pop_pending's check-and-remove is there for.
ResolvedOnce ==
    \A i, j \in DOMAIN auditLog :
        /\ Resolved(auditLog[i]) /\ Resolved(auditLog[j])
        /\ auditLog[i].order = auditLog[j].order
        /\ auditLog[i].order # None
        => i = j

\* A retry that the audit log reports recovered was paid at Razorpay: neither
\* an authorization, nor a failed attempt, nor a stale poll counts as money.
RecoveredOnlyIfPaid ==
    \A i \in DOMAIN auditLog :
        auditLog[i].result = "recovered" /\ auditLog[i].order # None
            => status[auditLog[i].order] = "paid"

\* A case is closed as timed out only after the whole window has passed since
\* its order was created.
TimeoutOnlyAfterWindow ==
    \A i \in DOMAIN auditLog :
        auditLog[i].method = "timeout" => age[auditLog[i].order] > Timeout

FailureSent(o) == [type |-> "payment.failed", order |-> o] \in emitted

\* A case is closed as lost for a reason of its own order: an attempt to pay it
\* failed, or its window passed.  The order stays payable after either, and what
\* is paid then finds its case closed: so this is all that stands between a
\* customer's money and a retry reported unrecovered.
UnrecoveredForCause ==
    \A i \in DOMAIN auditLog :
        LET e == auditLog[i] IN
        e.result = "unrecovered" /\ e.order # None
            => e.method = "timeout" \/ FailureSent(e.order)

\* Each fault (a crash, a lock timeout, a lost answer) costs at most one case:
\* at any time all retry orders but that many are with the pipeline that made
\* them, in the pending store, with the handler that popped them, or resolved.
UntrackedBounded == Cardinality(Untracked) <= faults

\* A failed payment is not charged again and again: at most one retry order per
\* overlapping run of the pipeline, and one more per fault.
OrdersPerPayment ==
    \A x \in Payments :
        Cardinality({o \in Orders : retryFor[o] = x})
            <= Cardinality(Pipelines) + faults

\* The event log and the audit log tell the same story: an event recorded as
\* having resolved a pending retry has its webhook resolution in the audit log.
EventLogAgrees ==
    \A e \in eventLog :
        \E i \in DOMAIN auditLog :
            /\ auditLog[i].order = e.order
            /\ auditLog[i].method = "webhook"
            /\ auditLog[i].result = Verdict(RecoveredBy(e.type))

\* load_batch skips what an earlier run has dealt with: as long as nothing
\* fails, a single pipeline never creates a retry order for a payment that the
\* audit log already has an entry of.
NeverRetriesLoggedPayment ==
    [][\A o \in Orders :
         faults' = 0 /\ status[o] = "absent" /\ retryFor'[o] # None
             => \A i \in DOMAIN auditLog : auditLog[i].payment # retryFor'[o]]_vars

\* A case leaves the pending store for a reason: a final event of its order was
\* sent, its order is paid, or its window is over; never before one of them.
LeavesPendingForCause ==
    [][\A o \in pending \ pending' :
         \/ \E e \in emitted : e.order = o /\ e.type # "payment.authorized"
         \/ status[o] = "paid"
         \/ age[o] > Timeout]_vars

\* No retry that is pending stays pending for ever, webhook or no webhook, as
\* long as the reconcile loop runs and time passes.
PendingIsLeft ==
    \A o \in AgentOrders : o \in pending ~> o \notin pending

\* It does not only leave the store: unless a fault took the case, its outcome
\* is logged.
PendingIsResolved ==
    \A o \in AgentOrders : o \in pending ~> o \in ResolvedInLog \/ faults > 0

-----------------------------------------------------------------------------
(* The inductive invariant behind ResolvedOnce, RecoveredOnlyIfPaid,           *)
(* UnrecoveredForCause and TimeoutOnlyAfterWindow                              *)

\* What the processes carry between two steps.
Carried ==
    /\ \A p \in Pipelines :
         /\ pipe[p].pc = "register" =>
              pipe[p].out.order \in AgentOrders /\ pipe[p].out.result = "pending"
         /\ Resolved(pipe[p].out) => pipe[p].out.order = None
    /\ \A w \in Workers : hook[w].pc # "idle" => hook[w].event \in Events
    /\ \A h \in Handlers :
         claim[h] # NoOutcome => Resolved(claim[h]) /\ claim[h].order \in AgentOrders

\* Whatever has an owner was created.
OwnedExists == \A o \in Tracked : status[o] # "absent"

\* What Razorpay said, and what was concluded from it, is so: payment is final
\* and time does not run backwards.
EventsTrue == \A e \in emitted : RecoveredBy(e.type) => status[e.order] = "paid"

PollsTrue ==
    \A r \in Reconcilers :
        /\ \A o \in recon[r].expired : Expired(o)
        /\ recon[r].pc = "pop" =>
             /\ recon[r].order \in Orders
             /\ IF recon[r].paid THEN status[recon[r].order] = "paid"
                                 ELSE Expired(recon[r].order)

Justified(e) ==
    /\ e.result = "recovered" /\ e.order # None => status[e.order] = "paid"
    /\ e.method = "timeout" => e.order \in Orders /\ Expired(e.order)
    /\ e.result = "unrecovered" /\ e.order # None /\ e.method # "timeout"
         => FailureSent(e.order)

OutcomesTrue ==
    /\ \A p \in Pipelines : Justified(pipe[p].out)
    /\ \A h \in Handlers : Justified(claim[h])
    /\ \A i \in DOMAIN auditLog : Justified(auditLog[i])

IInv == /\ TypeOK /\ Carried /\ OneOwner /\ OwnedExists
        /\ ResolvedOnce /\ EventsTrue /\ PollsTrue /\ OutcomesTrue

=============================================================================
