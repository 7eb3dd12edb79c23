------------------------- MODULE RetryLifecycleProofs -------------------------
(***************************************************************************)
(* Theorems about RetryLifecycle, for any number of payments, orders,      *)
(* processes and faults.                                                   *)
(***************************************************************************)
EXTENDS RetryLifecycle, TLAPS, FiniteSetTheorems

-----------------------------------------------------------------------------
(* Types *)

\* The constructors of the records build records of these types.
LEMMA OutcomeType ==
    \A result \in Results, method \in Methods,
       x \in Payments \cup {None}, o \in Orders \cup {None} :
        Outcome(result, method, x, o) \in Outcomes
BY DEF Outcome, Outcomes

\* What a process holds when it has nothing to log is an outcome of the log.
LEMMA NoOutcomeType == NoOutcome \in Outcomes
BY OutcomeType DEF NoOutcome, Results, Methods

\* The verdict on a case is one of the results of an outcome.
LEMMA VerdictType == \A recovered \in BOOLEAN : Verdict(recovered) \in Results
BY DEF Verdict, Results

\* Well-typed arguments make well-typed locals of pipelines, workers and reconcilers.
LEMMA ConstructorTypes ==
    /\ \A pc \in {"idle", "fetch", "loop", "register", "append"},
          seen \in SUBSET (Payments \cup {None}), batch \in SUBSET Payments,
          out \in Outcomes : Pipe(pc, seen, batch, out) \in PipeType
    /\ \A pc \in {"idle", "append", "log"}, event \in Events \cup {None},
          resolved \in BOOLEAN : Hook(pc, event, resolved) \in HookType
    /\ \A pc \in {"sleep", "scan", "pop", "append"}, todo \in SUBSET Orders,
          expired \in SUBSET Orders, order \in Orders \cup {None}, paid \in BOOLEAN :
        Recon(pc, todo, expired, order, paid) \in ReconType
BY DEF Pipe, PipeType, Hook, HookType, Recon, ReconType

\* So are the locals of an idle process.
LEMMA IdleTypes ==
    IdlePipe \in PipeType /\ IdleHook \in HookType /\ IdleRecon \in ReconType
BY ConstructorTypes, NoOutcomeType DEF IdlePipe, IdleHook, IdleRecon

\* The fields of a record of these types.
LEMMA FieldTypes ==
    /\ \A e \in Outcomes : /\ e.result \in Results
                           /\ e.method \in Methods
                           /\ e.payment \in Payments \cup {None}
                           /\ e.order \in Orders \cup {None}
    /\ \A e \in Events : e.type \in EventTypes /\ e.order \in Orders
    /\ \A q \in PipeType : /\ q.seen \subseteq Payments \cup {None}
                           /\ q.batch \subseteq Payments
                           /\ q.out \in Outcomes
    /\ \A k \in HookType : k.event \in Events \cup {None} /\ k.resolved \in BOOLEAN
    /\ \A k \in ReconType : /\ k.todo \subseteq Orders
                            /\ k.expired \subseteq Orders
                            /\ k.order \in Orders \cup {None}
                            /\ k.paid \in BOOLEAN
BY DEF Outcomes, Events, PipeType, HookType, ReconType

\* Every process starts, and every file is empty, with its type.
LEMMA InitType == Init => TypeOK
BY ConstantsAssumption, NoOutcomeType, IdleTypes DEF Init, TypeOK, OrderStatuses

\* Counting a fault keeps the counter in its bounds.
LEMMA FaultType ==
    ASSUME faults \in 0..MaxFaults,
           \/ Fault("crash") \/ Fault("lock_timeout") \/ Fault("lost_response")
           \/ Fault("torn_read") \/ Fault("torn_write")
    PROVE  faults' \in 0..MaxFaults
BY ConstantsAssumption DEF Fault

\* A log that a torn write left empty is a log.
LEMMA EmptyLogType == <<>> \in Seq(Outcomes)
OBVIOUS

\* Appending an outcome to the audit log leaves a log of outcomes.
LEMMA LogType ==
    ASSUME TypeOK, NEW e \in Outcomes, LogOutcome(e) PROVE auditLog' \in Seq(Outcomes)
BY DEF TypeOK, LogOutcome

\* TypeOK needs Carried: what a pipeline is about to register is an order, what
\* a worker is about to log is an event.
LEMMA NextType == TypeOK /\ Carried /\ [Next]_vars => TypeOK'
<1> SUFFICES ASSUME TypeOK, Carried, [Next]_vars PROVE TypeOK'
  OBVIOUS
<1> USE ConstantsAssumption, NoOutcomeType, IdleTypes, FieldTypes DEF TypeOK
<1>1. ASSUME NEW o \in Orders, Authorize(o) PROVE TypeOK'
  BY <1>1 DEF Authorize, OrderStatuses, Events, EventTypes, fileVars
<1>2. ASSUME NEW o \in Orders, Capture(o) PROVE TypeOK'
  BY <1>2 DEF Capture, OrderStatuses, Events, EventTypes, fileVars
<1>3. ASSUME NEW o \in Orders, NEW x \in Payments, FailAttempt(o, x) PROVE TypeOK'
  BY <1>3 DEF FailAttempt, OrderStatuses, Events, EventTypes, fileVars
<1>4. CASE Tick
  BY <1>4 DEF Tick, fileVars
<1>5. ASSUME NEW o \in Orders, RegisterManually(o) PROVE TypeOK'
  BY <1>5 DEF RegisterManually, Added, OrderStatuses
<1>6. ASSUME NEW p \in Pipelines, StartRun(p) PROVE TypeOK'
  <2>1. ProcessedIds \in SUBSET (Payments \cup {None})
    BY DEF ProcessedIds
  <2>2. /\ Pipe("fetch", ProcessedIds, {}, NoOutcome) \in PipeType
        /\ Pipe("fetch", {}, {}, NoOutcome) \in PipeType
    BY <2>1, ConstructorTypes
  <2>3. faults' \in 0..MaxFaults
    BY <1>6, FaultType DEF StartRun
  <2>4. pipe' \in [Pipelines -> PipeType]
    BY ZenonT(60), <1>6, <2>2 DEF StartRun
  <2> QED
    BY <1>6, <2>3, <2>4 DEF StartRun, razorpayVars, fileVars
<1>7. ASSUME NEW p \in Pipelines, FetchBatch(p) PROVE TypeOK'
  <2>1. PICK got \in SUBSET rzpFailed :
          pipe' = [pipe EXCEPT ![p] =
                     Pipe("loop", {}, (got \cup Synthetic) \ pipe[p].seen, NoOutcome)]
    BY <1>7 DEF FetchBatch
  <2>2. Pipe("loop", {}, (got \cup Synthetic) \ pipe[p].seen, NoOutcome) \in PipeType
    BY ConstructorTypes
  <2> QED
    BY <1>7, <2>1, <2>2 DEF FetchBatch, razorpayVars, fileVars
<1>8. ASSUME NEW p \in Pipelines, NEW x \in Payments,
             NEW pc \in {"register", "append"}, NEW e \in Outcomes, Take(p, x, pc, e)
      PROVE  pipe' \in [Pipelines -> PipeType]
  <2>1. Pipe(pc, {}, pipe[p].batch \ {x}, e) \in PipeType
    BY ConstructorTypes
  <2> QED
    BY <1>8, <2>1 DEF Take
<1>9. ASSUME NEW p \in Pipelines, NEW x \in Payments, Simulate(p, x) PROVE TypeOK'
  <2>1. \A recovered \in BOOLEAN :
          Outcome(Verdict(recovered), "simulated", x, None) \in Outcomes
    BY OutcomeType, VerdictType DEF Methods
  <2> QED
    BY <1>8, <1>9, <2>1 DEF Simulate, razorpayVars, fileVars
<1>10. \A x \in Payments : InitiationFailed(x) \in Outcomes
  BY OutcomeType DEF InitiationFailed, Results, Methods
<1>11. ASSUME NEW p \in Pipelines, NEW x \in Payments, InitiationFails(p, x) PROVE TypeOK'
  BY <1>8, <1>10, <1>11 DEF InitiationFails, razorpayVars, fileVars
<1>12. ASSUME NEW x \in Payments, NEW o \in Orders, NewOrder(x, o)
       PROVE  /\ status' \in [Orders -> OrderStatuses]
              /\ retryFor' \in [Orders -> Payments \cup {None}]
  BY <1>12 DEF NewOrder, OrderStatuses
<1>13. ASSUME NEW p \in Pipelines, NEW x \in Payments, NEW o \in Orders, CreateOrder(p, x, o)
       PROVE TypeOK'
  <2>1. Outcome("pending", "none", x, o) \in Outcomes
    BY OutcomeType DEF Results, Methods
  <2> QED
    BY <1>8, <1>12, <1>13, <2>1 DEF CreateOrder, NewOrder, fileVars
<1>14. ASSUME NEW p \in Pipelines, NEW x \in Payments, NEW o \in Orders, ResponseLost(p, x, o)
       PROVE TypeOK'
  BY <1>8, <1>10, <1>12, <1>14, FaultType DEF ResponseLost, NewOrder, fileVars
<1>15. ASSUME NEW p \in Pipelines, AddPending(p) PROVE TypeOK'
  <2>1. Pipe("append", {}, pipe[p].batch, pipe[p].out) \in PipeType
    BY ConstructorTypes
  <2>2. pipe[p].out.order \in Orders
    BY <1>15 DEF AddPending, Carried, AgentOrders
  <2> QED
    BY <1>15, <2>1, <2>2 DEF AddPending, Added, razorpayVars
<1>16. ASSUME NEW p \in Pipelines, AppendOutcome(p) PROVE TypeOK'
  <2>1. Pipe("loop", {}, pipe[p].batch, NoOutcome) \in PipeType
    BY ConstructorTypes
  <2> QED
    BY <1>16, <2>1, LogType DEF AppendOutcome, razorpayVars
<1>17. ASSUME NEW p \in Pipelines, EndRun(p) PROVE TypeOK'
  BY <1>17 DEF EndRun, razorpayVars, fileVars
<1>18. ASSUME NEW p \in Pipelines, PipelineDies(p) PROVE TypeOK'
  <2>1. faults' \in 0..MaxFaults
    BY <1>18, FaultType DEF PipelineDies, TornWrite
  <2>2. auditLog' \in Seq(Outcomes)
    BY <1>18, EmptyLogType DEF PipelineDies, TornWrite
  <2> QED
    BY <1>18, <2>1, <2>2 DEF PipelineDies, razorpayVars
<1>19. ASSUME NEW method \in {"webhook", "poll", "timeout"},
              NEW recovered \in BOOLEAN, NEW o \in Orders
       PROVE  Resolution(method, recovered, o) \in Outcomes
  BY OutcomeType, VerdictType DEF Resolution, Methods
<1>20. ASSUME NEW w \in Workers, NEW e \in emitted, ClaimByEvent(w, e) PROVE TypeOK'
  <2>1. Hook("append", e, TRUE) \in HookType
    BY ConstructorTypes
  <2>2. RecoveredBy(e.type) \in BOOLEAN
    BY DEF RecoveredBy
  <2>3. Resolution("webhook", RecoveredBy(e.type), e.order) \in Outcomes
    BY <1>19, <2>2
  <2> QED
    BY <1>20, <2>1, <2>3 DEF ClaimByEvent, PopAndClaim, Popped, Handlers, razorpayVars
<1>21. ASSUME NEW w \in Workers, NEW e \in emitted, RaiseOnEvent(w, e) PROVE TypeOK'
  BY <1>21 DEF RaiseOnEvent, PopAndRaise, Popped, razorpayVars
<1>22. ASSUME NEW w \in Workers, NEW e \in emitted, PassOverEvent(w, e) PROVE TypeOK'
  <2>1. Hook("log", e, FALSE) \in HookType
    BY ConstructorTypes
  <2> QED
    BY <1>22, <2>1 DEF PassOverEvent, razorpayVars, fileVars
<1>23. ASSUME NEW w \in Workers, AppendResolution(w) PROVE TypeOK'
  <2>1. Hook("log", hook[w].event, hook[w].resolved) \in HookType
    BY ConstructorTypes
  <2> QED
    BY <1>23, <2>1, LogType DEF AppendResolution, LogClaim, Handlers, razorpayVars
<1>24. ASSUME NEW w \in Workers, LogEvent(w) PROVE TypeOK'
  BY <1>24 DEF LogEvent, Carried, razorpayVars
<1>25. ASSUME NEW h \in Handlers, Killed(h) \/ LockTimesOut(h)
       PROVE  /\ auditLog' \in Seq(Outcomes)
              /\ claim' \in [Handlers -> Outcomes]
              /\ faults' \in 0..MaxFaults
  <2>1. faults' \in 0..MaxFaults
    BY <1>25, FaultType DEF Killed, LockTimesOut, TornWrite
  <2>2. auditLog' \in Seq(Outcomes)
    BY <1>25, EmptyLogType DEF Killed, LockTimesOut, TornWrite
  <2>3. claim' = [claim EXCEPT ![h] = NoOutcome]
    BY <1>25 DEF Killed, LockTimesOut
  <2> QED
    BY <2>1, <2>2, <2>3
<1>26. ASSUME NEW w \in Workers, RequestDies(w) PROVE TypeOK'
  BY <1>25, <1>26 DEF RequestDies, Handlers, razorpayVars
<1>27. ASSUME NEW r \in Reconcilers, BeginPass(r) PROVE TypeOK'
  <2>1. Recon("scan", pending, {o \in pending \ ManualOrders : Expired(o)},
              None, FALSE) \in ReconType
    BY ConstructorTypes
  <2> QED
    BY <1>27, <2>1 DEF BeginPass, razorpayVars, fileVars
<1>28. ASSUME NEW r \in Reconcilers, NEW o \in Orders, CheckOrder(r, o) PROVE TypeOK'
  <2>1. PICK s \in OrderStatus(o) : recon' = [recon EXCEPT ![r] = NextInScan(r, o, s)]
    BY <1>28 DEF CheckOrder
  <2>2. NextInScan(r, o, s) \in ReconType
    BY ConstructorTypes DEF NextInScan
  <2> QED
    BY <1>28, <2>1, <2>2 DEF CheckOrder, razorpayVars, fileVars
<1>29. ASSUME NEW r \in Reconcilers, ScanOn(r) PROVE recon' \in [Reconcilers -> ReconType]
  <2>1. Recon("scan", recon[r].todo, recon[r].expired, None, FALSE) \in ReconType
    BY ConstructorTypes
  <2> QED
    BY <1>29, <2>1 DEF ScanOn
<1>30. ASSUME NEW r \in Reconcilers, ClaimByPoll(r) PROVE TypeOK'
  <2>1. Recon("append", recon[r].todo, recon[r].expired, None, FALSE) \in ReconType
    BY ConstructorTypes
  <2>2. recon[r].order \in Orders
    BY <1>30 DEF ClaimByPoll, PopAndClaim, Claimable
  <2>3. Resolution(IF recon[r].paid THEN "poll" ELSE "timeout",
                   recon[r].paid, recon[r].order) \in Outcomes
    BY <1>19, <2>2
  <2> QED
    BY <1>30, <2>1, <2>3 DEF ClaimByPoll, PopAndClaim, Popped, Handlers, razorpayVars
<1>31. ASSUME NEW r \in Reconcilers, RaiseOnPoll(r) PROVE TypeOK'
  BY <1>29, <1>31 DEF RaiseOnPoll, PopAndRaise, Popped, razorpayVars
<1>32. ASSUME NEW r \in Reconcilers, LoseRace(r) PROVE TypeOK'
  BY <1>29, <1>32 DEF LoseRace, razorpayVars, fileVars
<1>33. ASSUME NEW r \in Reconcilers, Resolve(r) PROVE TypeOK'
  BY <1>29, <1>33, LogType DEF Resolve, LogClaim, Handlers, razorpayVars
<1>34. ASSUME NEW r \in Reconcilers, ResolveTimesOut(r) PROVE TypeOK'
  BY <1>25, <1>29, <1>34 DEF ResolveTimesOut, Handlers, razorpayVars
<1>35. ASSUME NEW r \in Reconcilers, EndPass(r) PROVE TypeOK'
  BY <1>35 DEF EndPass, razorpayVars, fileVars
<1>36. ASSUME NEW r \in Reconcilers, ReconcilerDies(r) PROVE TypeOK'
  BY <1>25, <1>36 DEF ReconcilerDies, Handlers, razorpayVars
<1>37. CASE UNCHANGED vars
  BY <1>37 DEF vars, razorpayVars, fileVars
<1> HIDE DEF TypeOK
<1> QED
  BY <1>1, <1>2, <1>3, <1>4, <1>5, <1>6, <1>7, <1>9, <1>11, <1>13, <1>14, <1>15,
     <1>16, <1>17, <1>18, <1>20, <1>21, <1>22, <1>23, <1>24, <1>26, <1>27, <1>28,
     <1>30, <1>31, <1>32, <1>33, <1>34, <1>35, <1>36, <1>37
     DEF Next, RazorpayNext, PipelineNext, WorkerNext, WorkerStep,
         ReconcilerNext, ReconcilerStep

-----------------------------------------------------------------------------
(* What the processes carry *)

\* Carried speaks of no more than pipe, hook and claim.
LEMMA CarriedFrame == Carried /\ UNCHANGED <<pipe, hook, claim>> => Carried'
BY DEF Carried

\* A pipeline's step keeps Carried if its new record does its part.
LEMMA CarriedPipe ==
    ASSUME TypeOK, Carried, NEW p \in Pipelines,
           NEW pc \in {"idle", "fetch", "loop", "register", "append"},
           NEW seen, NEW batch, NEW e \in Outcomes,
           pipe' = [pipe EXCEPT ![p] = Pipe(pc, seen, batch, e)],
           pc = "register" => e.order \in AgentOrders /\ e.result = "pending",
           Resolved(e) => e.order = None,
           UNCHANGED <<hook, claim>>
    PROVE  Carried'
<1>1. Pipe(pc, seen, batch, e).pc = pc /\ Pipe(pc, seen, batch, e).out = e
  BY DEF Pipe
<1> QED
  BY <1>1 DEF TypeOK, Carried

\* So does a handler's step if the outcome it picks up is a resolution.
LEMMA CarriedHandler ==
    ASSUME TypeOK, Carried, NEW h \in Handlers, NEW e \in Outcomes,
           claim' = [claim EXCEPT ![h] = e],
           e # NoOutcome => Resolved(e) /\ e.order \in AgentOrders,
           UNCHANGED pipe,
           \A w \in Workers : hook'[w].pc # "idle" => hook'[w].event \in Events
    PROVE  Carried'
BY DEF TypeOK, Carried

\* Neither the empty outcome nor a pending one is a resolution.
LEMMA Unresolved ==
    /\ ~ Resolved(NoOutcome)
    /\ \A x, o : ~ Resolved(Outcome("pending", "none", x, o))
    /\ \A recovered \in BOOLEAN : \A x, m, o : Resolved(Outcome(Verdict(recovered), m, x, o))
BY DEF Resolved, NoOutcome, Outcome, Verdict

\* The fields of an outcome are what it was made of.
LEMMA OutcomeFields ==
    \A r, m, x, o : /\ Outcome(r, m, x, o).result = r
                    /\ Outcome(r, m, x, o).method = m
                    /\ Outcome(r, m, x, o).payment = x
                    /\ Outcome(r, m, x, o).order = o
BY DEF Outcome

\* A worker that is busy has an event.
LEMMA HookStep ==
    ASSUME TypeOK, Carried, NEW w \in Workers, NEW pc, NEW e, NEW resolved,
           hook' = [hook EXCEPT ![w] = Hook(pc, e, resolved)],
           pc # "idle" => e \in Events
    PROVE  \A v \in Workers : hook'[v].pc # "idle" => hook'[v].event \in Events
<1>1. Hook(pc, e, resolved).pc = pc /\ Hook(pc, e, resolved).event = e
  BY DEF Hook
<1> QED
  BY <1>1 DEF TypeOK, Carried

\* A pipeline in front of add_pending holds a pending outcome of an agent's order,
\* a handler in front of its append a resolution of one: every step keeps it so.
LEMMA NextCarried == TypeOK /\ Carried /\ [Next]_vars => Carried'
<1> SUFFICES ASSUME TypeOK, Carried, [Next]_vars PROVE Carried'
  OBVIOUS
<1> USE NoOutcomeType, Unresolved, OutcomeFields
<1>1. CASE RazorpayNext \/ Tick \/ \E o \in Orders : RegisterManually(o)
  BY <1>1, CarriedFrame
     DEF RazorpayNext, Authorize, Capture, FailAttempt, Tick, RegisterManually
<1>2. ASSUME NEW p \in Pipelines, PipelineNext(p) PROVE Carried'
  <2>1. CASE StartRun(p)
    BY <2>1, CarriedPipe DEF StartRun
  <2>2. CASE FetchBatch(p)
    <3>1. PICK got \in SUBSET rzpFailed :
            pipe' = [pipe EXCEPT ![p] =
                       Pipe("loop", {}, (got \cup Synthetic) \ pipe[p].seen, NoOutcome)]
      BY <2>2 DEF FetchBatch
    <3> QED
      BY ZenonT(60), <2>2, <3>1, CarriedPipe DEF FetchBatch
  <2>3. CASE AddPending(p)
    <3>1. pipe[p].out \in Outcomes /\ ~ Resolved(pipe[p].out)
      BY <2>3, FieldTypes DEF AddPending, TypeOK, Carried, Resolved
    <3> QED
      BY <2>3, <3>1, CarriedPipe DEF AddPending
  <2>4. CASE AppendOutcome(p)
    BY <2>4, CarriedPipe DEF AppendOutcome
  <2>5. CASE EndRun(p) \/ PipelineDies(p)
    BY <2>5, CarriedPipe DEF EndRun, PipelineDies, IdlePipe
  <2>6. ASSUME NEW x \in Payments, Simulate(p, x) PROVE Carried'
    <3>1. PICK recovered \in BOOLEAN :
            Take(p, x, "append", Outcome(Verdict(recovered), "simulated", x, None))
      BY <2>6 DEF Simulate
    <3>2. Outcome(Verdict(recovered), "simulated", x, None) \in Outcomes
      BY OutcomeType, VerdictType DEF Methods
    <3> DEFINE e == Outcome(Verdict(recovered), "simulated", x, None)
    <3>3. e \in Outcomes /\ e.order = None
      BY <3>2
    <3>4. pipe' = [pipe EXCEPT ![p] = Pipe("append", {}, pipe[p].batch \ {x}, e)]
      BY <3>1 DEF Take
    <3> HIDE DEF e
    <3> QED
      BY <2>6, <3>3, <3>4, CarriedPipe DEF Simulate
  <2>7. \A x \in Payments : InitiationFailed(x) \in Outcomes /\ InitiationFailed(x).order = None
    BY OutcomeType DEF InitiationFailed, Results, Methods
  <2>8. ASSUME NEW x \in Payments, InitiationFails(p, x) PROVE Carried'
    BY <2>7, <2>8, CarriedPipe DEF InitiationFails, Take
  <2>9. ASSUME NEW x \in Payments, NEW o \in Orders, ResponseLost(p, x, o) PROVE Carried'
    BY <2>7, <2>9, CarriedPipe DEF ResponseLost, Take
  <2>10. ASSUME NEW x \in Payments, NEW o \in Orders, CreateOrder(p, x, o) PROVE Carried'
    <3>1. Outcome("pending", "none", x, o) \in Outcomes
      BY OutcomeType DEF Results, Methods
    <3> DEFINE e == Outcome("pending", "none", x, o)
    <3>2. e \in Outcomes /\ ~ Resolved(e) /\ e.result = "pending" /\ e.order \in AgentOrders
      BY <2>10, <3>1 DEF CreateOrder, AgentOrders
    <3>3. pipe' = [pipe EXCEPT ![p] = Pipe("register", {}, pipe[p].batch \ {x}, e)]
      BY <2>10 DEF CreateOrder, Take
    <3> HIDE DEF e
    <3> QED
      BY <2>10, <3>2, <3>3, CarriedPipe DEF CreateOrder
  <2> QED
    BY <1>2, <2>1, <2>2, <2>3, <2>4, <2>5, <2>6, <2>8, <2>9, <2>10 DEF PipelineNext
<1>3. ASSUME NEW method \in {"webhook", "poll", "timeout"}, NEW recovered \in BOOLEAN,
             NEW o \in Orders, ~ Malformed(o)
      PROVE  /\ Resolution(method, recovered, o) \in Outcomes
             /\ Resolved(Resolution(method, recovered, o))
             /\ Resolution(method, recovered, o).order \in AgentOrders
  <2>1. retryFor[o] \in Payments \cup {None}
    BY DEF TypeOK
  <2> QED
    BY <1>3, <2>1, OutcomeType, VerdictType DEF Resolution, Methods, Malformed, AgentOrders
<1>4. ASSUME NEW w \in Workers, WorkerNext(w) PROVE Carried'
  <2> w \in Handlers
    BY DEF Handlers
  <2>1. ASSUME NEW e \in emitted, ClaimByEvent(w, e) PROVE Carried'
    <3>1. e \in Events /\ e.order \in Orders /\ ~ Malformed(e.order)
      BY <2>1, FieldTypes DEF ClaimByEvent, PopAndClaim, TypeOK
    <3>2. RecoveredBy(e.type) \in BOOLEAN
      BY DEF RecoveredBy
    <3>3. \A v \in Workers : hook'[v].pc # "idle" => hook'[v].event \in Events
      BY <2>1, <3>1, HookStep DEF ClaimByEvent
    <3> QED
      BY <1>3, <2>1, <3>1, <3>2, <3>3, CarriedHandler DEF ClaimByEvent, PopAndClaim
  <2>2. ASSUME NEW e \in emitted, RaiseOnEvent(w, e) PROVE Carried'
    BY <2>2, CarriedFrame DEF RaiseOnEvent, PopAndRaise
  <2>3. ASSUME NEW e \in emitted, PassOverEvent(w, e) PROVE Carried'
    <3>1. e \in Events
      BY DEF TypeOK
    <3>2. \A v \in Workers : hook'[v].pc # "idle" => hook'[v].event \in Events
      BY <2>3, <3>1, HookStep DEF PassOverEvent
    <3> QED
      BY <2>3, <3>2 DEF PassOverEvent, Carried
  <2>4. CASE AppendResolution(w)
    <3>1. \A v \in Workers : hook'[v].pc # "idle" => hook'[v].event \in Events
      BY <2>4, HookStep DEF AppendResolution, Carried
    <3> QED
      BY <2>4, <3>1, CarriedHandler DEF AppendResolution, LogClaim
  <2>5. CASE LogEvent(w)
    <3>1. \A v \in Workers : hook'[v].pc # "idle" => hook'[v].event \in Events
      BY <2>5, HookStep DEF LogEvent, IdleHook
    <3> QED
      BY <2>5, <3>1 DEF LogEvent, Carried
  <2>6. CASE RequestDies(w)
    <3>1. \A v \in Workers : hook'[v].pc # "idle" => hook'[v].event \in Events
      BY <2>6, HookStep DEF RequestDies, IdleHook
    <3> QED
      BY <2>6, <3>1, CarriedHandler DEF RequestDies, Killed, LockTimesOut
  <2> QED
    BY <1>4, <2>1, <2>2, <2>3, <2>4, <2>5, <2>6 DEF WorkerNext, WorkerStep
<1>5. ASSUME NEW r \in Reconcilers, ReconcilerNext(r) PROVE Carried'
  <2> r \in Handlers
    BY DEF Handlers
  <2>1. CASE ClaimByPoll(r)
    <3>1. recon[r].order \in Orders /\ ~ Malformed(recon[r].order) /\ recon[r].paid \in BOOLEAN
      BY <2>1, FieldTypes DEF ClaimByPoll, PopAndClaim, Claimable, TypeOK
    <3> QED
      BY <1>3, <2>1, <3>1, CarriedHandler DEF ClaimByPoll, PopAndClaim, Carried
  <2>2. CASE RaiseOnPoll(r)
    BY <2>2, CarriedFrame DEF RaiseOnPoll, PopAndRaise
  <2>3. CASE Resolve(r)
    BY <2>3, CarriedHandler DEF Resolve, LogClaim, Carried
  <2>4. CASE ResolveTimesOut(r) \/ ReconcilerDies(r)
    BY <2>4, CarriedHandler DEF ResolveTimesOut, ReconcilerDies, Killed, LockTimesOut, Carried
  <2>5. CASE BeginPass(r) \/ LoseRace(r) \/ EndPass(r) \/ \E o \in Orders : CheckOrder(r, o)
    BY <2>5, CarriedFrame DEF BeginPass, LoseRace, EndPass, CheckOrder
  <2> QED
    BY <1>5, <2>1, <2>2, <2>3, <2>4, <2>5 DEF ReconcilerNext, ReconcilerStep
<1>6. CASE UNCHANGED vars
  BY <1>6, CarriedFrame DEF vars
<1> QED
  BY <1>1, <1>2, <1>4, <1>5, <1>6 DEF Next

-----------------------------------------------------------------------------
(* Ownership *)

\* Where pipeline and handler steps leave what they hold.
LEMMA HoldsStep ==
    ASSUME TypeOK, NEW p \in Pipelines, NEW pc, NEW seen, NEW batch, NEW e,
           pipe' = [pipe EXCEPT ![p] = Pipe(pc, seen, batch, e)]
    PROVE  \A q \in Pipelines, o \in Orders :
             Holds(q, o)' <=> IF q = p THEN pc = "register" /\ e.order = o ELSE Holds(q, o)
<1>1. Pipe(pc, seen, batch, e).pc = pc /\ Pipe(pc, seen, batch, e).out = e
  BY DEF Pipe
<1> QED
  BY <1>1 DEF TypeOK, Holds

\* A handler that starts to hold an outcome claims the order of that outcome and no other.
LEMMA ClaimsStep ==
    ASSUME TypeOK, NEW h \in Handlers, NEW e, claim' = [claim EXCEPT ![h] = e]
    PROVE  \A g \in Handlers, o \in Orders :
             Claims(g, o)' <=> IF g = h THEN e # NoOutcome /\ e.order = o ELSE Claims(g, o)
BY DEF TypeOK, Claims

\* Steps that leave the pipelines alone leave the orders they hold alone.
LEMMA HoldsFrame ==
    pipe' = pipe => \A q \in Pipelines, o \in Orders : Holds(q, o)' <=> Holds(q, o)
BY DEF Holds

\* Steps that leave the claims alone leave the orders claimed alone.
LEMMA ClaimsFrame ==
    claim' = claim => \A g \in Handlers, o \in Orders : Claims(g, o)' <=> Claims(g, o)
BY DEF Claims

\* Steps that leave the audit log alone leave the resolved orders alone.
LEMMA ResolvedFrame == auditLog' = auditLog => ResolvedInLog' = ResolvedInLog
BY DEF ResolvedInLog

\* An append closes the order of a resolution, and nothing else.
LEMMA ResolvedStep ==
    ASSUME TypeOK, NEW e \in Outcomes, LogOutcome(e)
    PROVE  ResolvedInLog' = ResolvedInLog \cup {o \in Orders : Resolved(e) /\ e.order = o}
<1>1. /\ auditLog \in Seq(Outcomes)
      /\ auditLog' = Append(auditLog, e)
  BY DEF TypeOK, LogOutcome
<1>2. /\ DOMAIN auditLog' = 1..(Len(auditLog) + 1)
      /\ DOMAIN auditLog = 1..Len(auditLog)
      /\ Len(auditLog) \in Nat
      /\ \A i \in DOMAIN auditLog : auditLog'[i] = auditLog[i]
      /\ auditLog'[Len(auditLog) + 1] = e
  BY <1>1
<1>3. \A i \in DOMAIN auditLog' : i \in DOMAIN auditLog \/ i = Len(auditLog) + 1
  BY <1>2
<1>4. \A i \in DOMAIN auditLog : i \in DOMAIN auditLog'
  BY <1>2
<1>5. Len(auditLog) + 1 \in DOMAIN auditLog'
  BY <1>2
<1> QED
  BY <1>2, <1>3, <1>4, <1>5 DEF ResolvedInLog

\* After a torn write no order is resolved in the log.
LEMMA ResolvedTorn == auditLog' = <<>> => ResolvedInLog' = {}
BY DEF ResolvedInLog

\* When nobody gets hold of anything new, ownership stays unique.
LEMMA OwnerShrinks ==
    ASSUME OneOwner,
           \A q \in Pipelines, o \in Orders : Holds(q, o)' => Holds(q, o),
           \A g \in Handlers, o \in Orders : Claims(g, o)' => Claims(g, o),
           pending' \subseteq pending,
           ResolvedInLog' \subseteq ResolvedInLog
    PROVE  OneOwner' /\ Tracked' \subseteq Tracked
BY DEF OneOwner, HeldByPipeline, HeldByHandler, Tracked

\* A new order goes to the pipeline that made it.
LEMMA OwnerCreate ==
    ASSUME OneOwner, OwnedExists, NEW p \in Pipelines, NEW o1 \in Orders,
           status[o1] = "absent",
           \A q \in Pipelines, o \in Orders : Holds(q, o)' => Holds(q, o) \/ (q = p /\ o = o1),
           \A g \in Handlers, o \in Orders : Claims(g, o)' <=> Claims(g, o),
           pending' = pending,
           ResolvedInLog' = ResolvedInLog
    PROVE  OneOwner' /\ Tracked' \subseteq Tracked \cup {o1}
<1>1. o1 \notin HeldByPipeline \cup pending \cup HeldByHandler \cup ResolvedInLog
  BY DEF OwnedExists, Tracked
<1>2. \A q \in Pipelines : ~ Holds(q, o1)
  BY <1>1 DEF HeldByPipeline
<1> QED
  BY <1>1, <1>2 DEF OneOwner, HeldByPipeline, HeldByHandler, Tracked

\* A manual order goes straight to the store.
LEMMA OwnerManual ==
    ASSUME OneOwner, OwnedExists, NEW o1 \in Orders,
           status[o1] = "absent",
           \A q \in Pipelines, o \in Orders : Holds(q, o)' <=> Holds(q, o),
           \A g \in Handlers, o \in Orders : Claims(g, o)' <=> Claims(g, o),
           pending' = pending \cup {o1},
           ResolvedInLog' = ResolvedInLog
    PROVE  OneOwner' /\ Tracked' \subseteq Tracked \cup {o1}
<1>1. o1 \notin HeldByPipeline \cup pending \cup HeldByHandler \cup ResolvedInLog
  BY DEF OwnedExists, Tracked
<1> QED
  BY <1>1 DEF OneOwner, HeldByPipeline, HeldByHandler, Tracked

\* Registering passes the order from the pipeline to the store.
LEMMA OwnerRegister ==
    ASSUME OneOwner, NEW p \in Pipelines, NEW o1 \in Orders, Holds(p, o1),
           \A q \in Pipelines, o \in Orders : Holds(q, o)' => Holds(q, o) /\ q # p,
           \A g \in Handlers, o \in Orders : Claims(g, o)' <=> Claims(g, o),
           pending' = pending \cup {o1},
           ResolvedInLog' = ResolvedInLog
    PROVE  OneOwner' /\ Tracked' \subseteq Tracked
<1>1. \A q \in Pipelines : ~ Holds(q, o1)'
  BY DEF OneOwner
<1>2. o1 \notin HeldByHandler \cup ResolvedInLog
  BY DEF OneOwner, HeldByPipeline
<1> QED
  BY <1>1, <1>2 DEF OneOwner, HeldByPipeline, HeldByHandler, Tracked

\* A pop passes it from the store to the handler.
LEMMA OwnerPop ==
    ASSUME OneOwner, NEW h \in Handlers, NEW o1 \in pending, o1 \in Orders,
           \A q \in Pipelines, o \in Orders : Holds(q, o)' <=> Holds(q, o),
           \A g \in Handlers, o \in Orders : Claims(g, o)' => Claims(g, o) \/ (g = h /\ o = o1),
           pending' = pending \ {o1},
           ResolvedInLog' = ResolvedInLog
    PROVE  OneOwner' /\ Tracked' \subseteq Tracked
<1>1. o1 \notin HeldByPipeline \cup HeldByHandler \cup ResolvedInLog
  BY DEF OneOwner
<1>2. \A g \in Handlers : ~ Claims(g, o1)
  BY <1>1 DEF HeldByHandler
<1> QED
  BY <1>1, <1>2 DEF OneOwner, HeldByPipeline, HeldByHandler, Tracked

\* Logging the outcome passes it from the handler to the log.
LEMMA OwnerLog ==
    ASSUME OneOwner, NEW h \in Handlers, NEW o1 \in Orders, Claims(h, o1),
           \A q \in Pipelines, o \in Orders : Holds(q, o)' <=> Holds(q, o),
           \A g \in Handlers, o \in Orders : Claims(g, o)' => Claims(g, o) /\ g # h,
           pending' = pending,
           ResolvedInLog' \subseteq ResolvedInLog \cup {o1}
    PROVE  OneOwner' /\ Tracked' \subseteq Tracked
<1>1. \A g \in Handlers : ~ Claims(g, o1)'
  BY DEF OneOwner
<1>2. o1 \notin HeldByPipeline \cup pending
  BY DEF OneOwner, HeldByHandler
<1> QED
  BY <1>1, <1>2 DEF OneOwner, HeldByPipeline, HeldByHandler, Tracked

\* Orders do not vanish, payment is final, time does not run backwards.
LEMMA WorldGrows ==
    ASSUME TypeOK, [Next]_vars
    PROVE  \A o \in Orders :
             /\ status[o] # "absent" => status'[o] # "absent"
             /\ status[o] = "paid" => status'[o] = "paid"
             /\ Expired(o) => Expired(o)'
<1> USE DEF razorpayVars
<1>1. ASSUME NEW o \in Orders, Authorize(o) \/ Capture(o)
      PROVE  /\ age' = age
             /\ \A u \in Orders : /\ status[u] # "absent" => status'[u] # "absent"
                                  /\ status[u] = "paid" => status'[u] = "paid"
  BY <1>1 DEF Authorize, Capture, TypeOK
<1>2. ASSUME NEW o \in Orders, NEW x \in Payments, FailAttempt(o, x)
      PROVE  /\ age' = age
             /\ \A u \in Orders : /\ status[u] # "absent" => status'[u] # "absent"
                                  /\ status[u] = "paid" => status'[u] = "paid"
  BY <1>2 DEF FailAttempt, TypeOK
<1>3. CASE Tick
  <2>1. \A o \in Orders : age[o] \in Nat /\ (age'[o] = age[o] \/ age'[o] = age[o] + 1)
    BY <1>3 DEF Tick, TypeOK
  <2>2. status' = status
    BY <1>3 DEF Tick
  <2> QED
    BY <2>1, <2>2, ConstantsAssumption DEF Expired
<1>4. ASSUME NEW o \in Orders, RegisterManually(o)
      PROVE  /\ age' = age
             /\ \A u \in Orders : /\ status[u] # "absent" => status'[u] # "absent"
                                  /\ status[u] = "paid" => status'[u] = "paid"
  BY <1>4 DEF RegisterManually, TypeOK
<1>5. ASSUME NEW x, NEW o \in Orders, NewOrder(x, o)
      PROVE  /\ age' = age
             /\ \A u \in Orders : /\ status[u] # "absent" => status'[u] # "absent"
                                  /\ status[u] = "paid" => status'[u] = "paid"
  BY <1>5 DEF NewOrder, TypeOK
<1>6. ASSUME NEW p \in Pipelines, PipelineNext(p)
      PROVE  \/ status' = status /\ age' = age
             \/ \E x \in Payments, o \in Orders : NewOrder(x, o)
  BY <1>6 DEF PipelineNext, StartRun, FetchBatch, AddPending, AppendOutcome, EndRun,
              PipelineDies, Simulate, InitiationFails, CreateOrder, ResponseLost
<1>7. ASSUME NEW w \in Workers, WorkerNext(w) PROVE status' = status /\ age' = age
  BY <1>7 DEF WorkerNext, WorkerStep, ClaimByEvent, RaiseOnEvent, PassOverEvent,
              AppendResolution, LogEvent, RequestDies
<1>8. ASSUME NEW r \in Reconcilers, ReconcilerNext(r) PROVE status' = status /\ age' = age
  BY <1>8 DEF ReconcilerNext, ReconcilerStep, BeginPass, CheckOrder, ClaimByPoll,
              RaiseOnPoll, LoseRace, Resolve, EndPass, ResolveTimesOut, ReconcilerDies
<1>9. CASE UNCHANGED vars
  BY <1>9 DEF vars, Expired
<1> QED
  BY <1>1, <1>2, <1>3, <1>4, <1>5, <1>6, <1>7, <1>8, <1>9 DEF Next, RazorpayNext, Expired

\* Every step leaves the case of every order with one owner, and hands an owner
\* only orders that exist.
LEMMA NextOwner ==
    ASSUME TypeOK, Carried, OneOwner, OwnedExists, [Next]_vars
    PROVE  OneOwner' /\ Tracked' \subseteq Tracked \cup {o \in Orders : status'[o] # "absent"}
<1> DEFINE Goal == OneOwner' /\ Tracked' \subseteq Tracked \cup {o \in Orders : status'[o] # "absent"}
<1>1. ASSUME UNCHANGED <<pipe, claim>>, pending' \subseteq pending, auditLog' = auditLog
      PROVE  Goal
  BY <1>1, HoldsFrame, ClaimsFrame, ResolvedFrame, OwnerShrinks
<1>2. CASE RazorpayNext \/ Tick
  BY <1>1, <1>2 DEF RazorpayNext, Authorize, Capture, FailAttempt, Tick, fileVars
<1>3. ASSUME NEW o \in Orders, RegisterManually(o) PROVE Goal
  <2>1. status[o] = "absent" /\ status'[o] # "absent" /\ pending' = pending \cup {o}
    BY <1>3 DEF RegisterManually, Added, TypeOK
  <2> QED
    BY <1>3, <2>1, HoldsFrame, ClaimsFrame, ResolvedFrame, OwnerManual DEF RegisterManually
<1>4. ASSUME NEW p \in Pipelines, PipelineNext(p) PROVE Goal
  <2>1. ASSUME NEW pc \in {"idle", "fetch", "loop", "append"}, NEW seen, NEW batch, NEW e,
               pipe' = [pipe EXCEPT ![p] = Pipe(pc, seen, batch, e)],
               UNCHANGED claim, pending' = pending,
               ResolvedInLog' \subseteq ResolvedInLog
        PROVE  Goal
    <3>1. \A q \in Pipelines, o \in Orders : Holds(q, o)' => Holds(q, o)
      BY <2>1, HoldsStep
    <3> QED
      BY <2>1, <3>1, ClaimsFrame, OwnerShrinks
  <2>2. CASE StartRun(p)
    BY <2>1, <2>2, ResolvedFrame DEF StartRun, fileVars
  <2>3. CASE FetchBatch(p)
    <3>1. PICK got \in SUBSET rzpFailed :
            pipe' = [pipe EXCEPT ![p] =
                       Pipe("loop", {}, (got \cup Synthetic) \ pipe[p].seen, NoOutcome)]
      BY <2>3 DEF FetchBatch
    <3> QED
      BY <2>1, <2>3, <3>1, ResolvedFrame DEF FetchBatch, fileVars
  <2>4. CASE AddPending(p)
    <3> DEFINE o1 == pipe[p].out.order
    <3>1. o1 \in Orders /\ Holds(p, o1)
      BY <2>4 DEF AddPending, Carried, AgentOrders, Holds
    <3>2. \A q \in Pipelines, o \in Orders : Holds(q, o)' => Holds(q, o) /\ q # p
      <4>1. pipe' = [pipe EXCEPT ![p] = Pipe("append", {}, pipe[p].batch, pipe[p].out)]
        BY <2>4 DEF AddPending
      <4>2. \A seen, batch, out : Pipe("append", seen, batch, out).pc # "register"
        BY DEF Pipe
      <4> QED
        BY <4>1, <4>2 DEF TypeOK, Holds
    <3>3. pending' = pending \cup {o1} /\ claim' = claim /\ auditLog' = auditLog
      BY <2>4 DEF AddPending, Added
    <3> HIDE DEF o1
    <3> QED
      BY <3>1, <3>2, <3>3, ClaimsFrame, ResolvedFrame, OwnerRegister
  <2>5. CASE AppendOutcome(p)
    <3>1. /\ pipe[p].out \in Outcomes
          /\ Resolved(pipe[p].out) => pipe[p].out.order = None
      BY FieldTypes DEF TypeOK, Carried
    <3>2. ResolvedInLog' \subseteq ResolvedInLog
      BY <2>5, <3>1, ResolvedStep, ConstantsAssumption DEF AppendOutcome
    <3> QED
      BY <2>1, <2>5, <3>2 DEF AppendOutcome
  <2>6. CASE EndRun(p)
    BY <2>1, <2>6, ResolvedFrame DEF EndRun, IdlePipe, fileVars
  <2>7. CASE PipelineDies(p)
    <3>1. ResolvedInLog' \subseteq ResolvedInLog
      BY <2>7, ResolvedFrame, ResolvedTorn DEF PipelineDies, TornWrite
    <3> QED
      BY <2>1, <2>7, <3>1 DEF PipelineDies, IdlePipe
  <2>8. ASSUME NEW x \in Payments, Simulate(p, x) PROVE Goal
    <3>1. PICK recovered \in BOOLEAN :
            Take(p, x, "append", Outcome(Verdict(recovered), "simulated", x, None))
      BY <2>8 DEF Simulate
    <3> QED
      BY <2>1, <2>8, <3>1, ResolvedFrame DEF Simulate, Take, fileVars
  <2>9. ASSUME NEW x \in Payments, InitiationFails(p, x) PROVE Goal
    BY <2>1, <2>9, ResolvedFrame DEF InitiationFails, Take, fileVars
  <2>10. ASSUME NEW x \in Payments, NEW o \in Orders, ResponseLost(p, x, o) PROVE Goal
    BY <2>1, <2>10, ResolvedFrame DEF ResponseLost, Take, fileVars
  <2>11. ASSUME NEW x \in Payments, NEW o \in Orders, CreateOrder(p, x, o) PROVE Goal
    <3>1. status[o] = "absent" /\ status'[o] # "absent"
      BY <2>11 DEF CreateOrder, NewOrder, TypeOK
    <3>2. \A q \in Pipelines, u \in Orders : Holds(q, u)' => Holds(q, u) \/ (q = p /\ u = o)
      <4> DEFINE e == Outcome("pending", "none", x, o)
      <4>1. pipe' = [pipe EXCEPT ![p] = Pipe("register", {}, pipe[p].batch \ {x}, e)]
        BY <2>11 DEF CreateOrder, Take
      <4>2. e.order = o
        BY OutcomeFields
      <4> HIDE DEF e
      <4> QED
        BY <4>1, <4>2, HoldsStep
    <3> QED
      BY <2>11, <3>1, <3>2, ClaimsFrame, ResolvedFrame, OwnerCreate DEF CreateOrder, fileVars
  <2> QED
    BY <1>4, <2>2, <2>3, <2>4, <2>5, <2>6, <2>7, <2>8, <2>9, <2>10, <2>11 DEF PipelineNext
<1>5. ASSUME NEW h \in Handlers, NEW o \in Orders, NEW method, NEW recovered,
             PopAndClaim(h, o, Resolution(method, recovered, o)),
             UNCHANGED <<pipe, auditLog>>
      PROVE  Goal
  <2>1. o \in pending /\ pending' = pending \ {o}
    BY <1>5 DEF PopAndClaim, Claimable, Popped
  <2>2. \A g \in Handlers, u \in Orders : Claims(g, u)' => Claims(g, u) \/ (g = h /\ u = o)
    <3> DEFINE e == Resolution(method, recovered, o)
    <3>1. e.order = o
      BY OutcomeFields DEF Resolution
    <3>2. claim' = [claim EXCEPT ![h] = e]
      BY <1>5 DEF PopAndClaim
    <3> HIDE DEF e
    <3> QED
      BY <3>1, <3>2, ClaimsStep
  <2> QED
    BY <1>5, <2>1, <2>2, HoldsFrame, ResolvedFrame, OwnerPop
<1>6. ASSUME NEW h \in Handlers, LogClaim(h), UNCHANGED <<pipe, pending>> PROVE Goal
  <2> DEFINE o1 == claim[h].order
  <2>1. /\ claim[h] \in Outcomes
        /\ o1 \in Orders
        /\ Claims(h, o1)
    BY <1>6 DEF LogClaim, TypeOK, Carried, AgentOrders, Claims
  <2>2. \A g \in Handlers, o \in Orders : Claims(g, o)' => Claims(g, o) /\ g # h
    BY <1>6, ClaimsStep DEF LogClaim
  <2>3. ResolvedInLog' \subseteq ResolvedInLog \cup {o1}
    BY <1>6, <2>1, ResolvedStep DEF LogClaim
  <2> HIDE DEF o1
  <2> QED
    BY <1>6, <2>1, <2>2, <2>3, HoldsFrame, OwnerLog
<1>7. ASSUME NEW h \in Handlers, Killed(h) \/ LockTimesOut(h), UNCHANGED <<pipe, pending>>
      PROVE  Goal
  <2>1. \A g \in Handlers, o \in Orders : Claims(g, o)' => Claims(g, o)
    BY <1>7, ClaimsStep DEF Killed, LockTimesOut
  <2>2. ResolvedInLog' \subseteq ResolvedInLog
    BY <1>7, ResolvedFrame, ResolvedTorn DEF Killed, LockTimesOut, TornWrite
  <2> QED
    BY <1>7, <2>1, <2>2, HoldsFrame, OwnerShrinks
<1>8. ASSUME NEW w \in Workers, WorkerNext(w) PROVE Goal
  <2> w \in Handlers
    BY DEF Handlers
  <2>1. ASSUME NEW e \in emitted, ClaimByEvent(w, e) PROVE Goal
    <3>1. e.order \in Orders
      BY FieldTypes DEF TypeOK
    <3> QED
      BY <1>5, <2>1, <3>1 DEF ClaimByEvent
  <2>2. ASSUME NEW e \in emitted, RaiseOnEvent(w, e) PROVE Goal
    BY <1>1, <2>2 DEF RaiseOnEvent, PopAndRaise, Popped
  <2>3. ASSUME NEW e \in emitted, PassOverEvent(w, e) PROVE Goal
    BY <1>1, <2>3 DEF PassOverEvent, fileVars
  <2>4. CASE AppendResolution(w)
    BY <1>6, <2>4 DEF AppendResolution
  <2>5. CASE LogEvent(w)
    BY <1>1, <2>5 DEF LogEvent
  <2>6. CASE RequestDies(w)
    BY <1>7, <2>6 DEF RequestDies
  <2> QED
    BY <1>8, <2>1, <2>2, <2>3, <2>4, <2>5, <2>6 DEF WorkerNext, WorkerStep
<1>9. ASSUME NEW r \in Reconcilers, ReconcilerNext(r) PROVE Goal
  <2> r \in Handlers
    BY DEF Handlers
  <2>1. CASE ClaimByPoll(r)
    <3>1. recon[r].order \in Orders
      BY <2>1 DEF ClaimByPoll, PopAndClaim, Claimable, TypeOK
    <3> QED
      BY <1>5, <2>1, <3>1 DEF ClaimByPoll
  <2>2. CASE RaiseOnPoll(r)
    BY <1>1, <2>2 DEF RaiseOnPoll, PopAndRaise, Popped
  <2>3. CASE Resolve(r)
    BY <1>6, <2>3 DEF Resolve
  <2>4. CASE ResolveTimesOut(r) \/ ReconcilerDies(r)
    BY <1>7, <2>4 DEF ResolveTimesOut, ReconcilerDies
  <2>5. CASE BeginPass(r) \/ LoseRace(r) \/ EndPass(r) \/ \E o \in Orders : CheckOrder(r, o)
    BY <1>1, <2>5 DEF BeginPass, LoseRace, EndPass, CheckOrder, fileVars
  <2> QED
    BY <1>9, <2>1, <2>2, <2>3, <2>4, <2>5 DEF ReconcilerNext, ReconcilerStep
<1>10. CASE UNCHANGED vars
  BY <1>1, <1>10 DEF vars, fileVars
<1> QED
  BY <1>2, <1>3, <1>4, <1>8, <1>9, <1>10 DEF Next

\* No step gives an owner to an order that Razorpay does not know.
LEMMA NextExists ==
    ASSUME TypeOK, Carried, OneOwner, OwnedExists, [Next]_vars
    PROVE  OwnedExists'
<1>1. Tracked \subseteq Orders
  BY DEF Tracked, HeldByPipeline, HeldByHandler, ResolvedInLog, TypeOK
<1>2. Tracked' \subseteq Tracked \cup {o \in Orders : status'[o] # "absent"}
  BY NextOwner
<1> QED
  BY <1>1, <1>2, WorldGrows DEF OwnedExists

-----------------------------------------------------------------------------
(* The audit log *)

\* A step appends what its process carried, or leaves the log, or tears it.
LEMMA LogStep ==
    ASSUME TypeOK, [Next]_vars
    PROVE  \/ auditLog' = auditLog
           \/ auditLog' = <<>>
           \/ \E p \in Pipelines : LogOutcome(pipe[p].out)
           \/ \E h \in Handlers : claim[h] # NoOutcome /\ LogOutcome(claim[h])
<1> USE DEF fileVars
<1>1. ASSUME NEW p \in Pipelines, PipelineNext(p)
      PROVE  auditLog' = auditLog \/ auditLog' = <<>> \/ LogOutcome(pipe[p].out)
  BY <1>1 DEF PipelineNext, StartRun, FetchBatch, AddPending, AppendOutcome, EndRun,
              PipelineDies, TornWrite, Simulate, InitiationFails, CreateOrder, ResponseLost
<1>2. ASSUME NEW w \in Workers, WorkerNext(w)
      PROVE  \/ auditLog' = auditLog \/ auditLog' = <<>>
             \/ claim[w] # NoOutcome /\ LogOutcome(claim[w])
  BY <1>2 DEF WorkerNext, WorkerStep, ClaimByEvent, RaiseOnEvent, PassOverEvent,
              AppendResolution, LogClaim, LogEvent, RequestDies, Killed, LockTimesOut, TornWrite
<1>3. ASSUME NEW r \in Reconcilers, ReconcilerNext(r)
      PROVE  \/ auditLog' = auditLog \/ auditLog' = <<>>
             \/ claim[r] # NoOutcome /\ LogOutcome(claim[r])
  BY <1>3 DEF ReconcilerNext, ReconcilerStep, BeginPass, CheckOrder, ClaimByPoll,
              RaiseOnPoll, LoseRace, Resolve, LogClaim, EndPass, ResolveTimesOut,
              ReconcilerDies, Killed, LockTimesOut, TornWrite
<1>4. CASE RazorpayNext \/ Tick \/ (\E o \in Orders : RegisterManually(o)) \/ UNCHANGED vars
  BY <1>4 DEF RazorpayNext, Authorize, Capture, FailAttempt, Tick, RegisterManually, vars
<1> QED
  BY <1>1, <1>2, <1>3, <1>4 DEF Next, Handlers

\* Appending an outcome that closes no closed order keeps ResolvedOnce.
LEMMA OnceStep ==
    ASSUME TypeOK, ResolvedOnce, NEW e \in Outcomes, LogOutcome(e),
           Resolved(e) /\ e.order # None => e.order \notin ResolvedInLog
    PROVE  ResolvedOnce'
<1>1. /\ auditLog \in Seq(Outcomes)
      /\ auditLog' = Append(auditLog, e)
  BY DEF TypeOK, LogOutcome
<1>2. /\ Len(auditLog) \in Nat
      /\ \A i \in DOMAIN auditLog : auditLog'[i] = auditLog[i]
      /\ auditLog'[Len(auditLog) + 1] = e
      /\ \A i \in DOMAIN auditLog' : i \in DOMAIN auditLog \/ i = Len(auditLog) + 1
  BY <1>1
<1>3. \A i \in DOMAIN auditLog :
        Resolved(auditLog[i]) /\ auditLog[i].order = e.order => ~ (Resolved(e) /\ e.order # None)
  <2> SUFFICES ASSUME NEW i \in DOMAIN auditLog, Resolved(auditLog[i]),
                      auditLog[i].order = e.order, Resolved(e), e.order # None
               PROVE  FALSE
    OBVIOUS
  <2>1. e.order \in Orders
    BY FieldTypes
  <2> QED
    BY <2>1 DEF ResolvedInLog
<1> QED
  BY <1>2, <1>3 DEF ResolvedOnce

\* No step logs a second resolution of an order: whoever logs one owns the case.
LEMMA NextOnce ==
    ASSUME TypeOK, Carried, OneOwner, ResolvedOnce, [Next]_vars
    PROVE  ResolvedOnce'
<1>1. CASE auditLog' = auditLog \/ auditLog' = <<>>
  BY <1>1 DEF ResolvedOnce
<1>2. ASSUME NEW p \in Pipelines, LogOutcome(pipe[p].out) PROVE ResolvedOnce'
  <2>1. pipe[p].out \in Outcomes /\ (Resolved(pipe[p].out) => pipe[p].out.order = None)
    BY FieldTypes DEF TypeOK, Carried
  <2> QED
    BY <1>2, <2>1, OnceStep
<1>3. ASSUME NEW h \in Handlers, claim[h] # NoOutcome, LogOutcome(claim[h]) PROVE ResolvedOnce'
  <2>1. claim[h] \in Outcomes /\ claim[h].order \in Orders
    BY <1>3 DEF TypeOK, Carried, AgentOrders
  <2>2. claim[h].order \in HeldByHandler
    BY <1>3, <2>1 DEF HeldByHandler, Claims
  <2>3. claim[h].order \notin ResolvedInLog
    BY <2>2 DEF OneOwner
  <2> QED
    BY <1>3, <2>1, <2>3, OnceStep
<1> QED
  BY <1>1, <1>2, <1>3, LogStep

-----------------------------------------------------------------------------
(* What the outcomes rest on *)

\* Only a customer's payment makes Razorpay send events, and none is unsent.
LEMMA EventsAreSent ==
    ASSUME [Next]_vars
    PROVE  /\ emitted \subseteq emitted'
           /\ RazorpayNext \/ emitted' = emitted
<1> USE DEF razorpayVars
<1>1. ASSUME NEW x, NEW o \in Orders, NewOrder(x, o) PROVE emitted' = emitted
  BY <1>1 DEF NewOrder
<1>2. ASSUME NEW p \in Pipelines, PipelineNext(p) PROVE emitted' = emitted
  BY <1>1, <1>2
     DEF PipelineNext, StartRun, FetchBatch, AddPending, AppendOutcome, EndRun,
         PipelineDies, Simulate, InitiationFails, CreateOrder, ResponseLost
<1>3. ASSUME NEW w \in Workers, WorkerNext(w) PROVE emitted' = emitted
  BY <1>3 DEF WorkerNext, WorkerStep, ClaimByEvent, RaiseOnEvent, PassOverEvent,
              AppendResolution, LogEvent, RequestDies
<1>4. ASSUME NEW r \in Reconcilers, ReconcilerNext(r) PROVE emitted' = emitted
  BY <1>4 DEF ReconcilerNext, ReconcilerStep, BeginPass, CheckOrder, ClaimByPoll,
              RaiseOnPoll, LoseRace, Resolve, EndPass, ResolveTimesOut, ReconcilerDies
<1>5. CASE Tick \/ (\E o \in Orders : RegisterManually(o)) \/ UNCHANGED vars
  BY <1>5 DEF Tick, RegisterManually, vars
<1>6. CASE RazorpayNext
  BY <1>6 DEF RazorpayNext, Authorize, Capture, FailAttempt
<1> QED
  BY <1>2, <1>3, <1>4, <1>5, <1>6 DEF Next

\* A final event of success that was sent stays true, for a paid order stays paid.
LEMMA NextEvents ==
    ASSUME TypeOK, EventsTrue, [Next]_vars
    PROVE  EventsTrue'
<1> USE DEF razorpayVars
<1>1. \A e \in emitted : RecoveredBy(e.type) => status'[e.order] = "paid"
  BY WorldGrows, FieldTypes DEF EventsTrue, TypeOK
<1>2. ASSUME NEW o \in Orders, Authorize(o) PROVE EventsTrue'
  BY <1>1, <1>2 DEF Authorize, EventsTrue, RecoveredBy
<1>3. ASSUME NEW o \in Orders, Capture(o) PROVE EventsTrue'
  <2>1. status'[o] = "paid"
    BY <1>3 DEF Capture, TypeOK
  <2>2. \A e \in emitted' : e \in emitted \/ e.order = o
    BY <1>3 DEF Capture
  <2> QED
    BY <1>1, <2>1, <2>2 DEF EventsTrue
<1>4. ASSUME NEW o \in Orders, NEW x \in Payments, FailAttempt(o, x) PROVE EventsTrue'
  BY <1>1, <1>4 DEF FailAttempt, EventsTrue, RecoveredBy
<1>5. CASE emitted' = emitted
  BY <1>1, <1>5 DEF EventsTrue
<1> QED
  BY <1>2, <1>3, <1>4, <1>5, EventsAreSent DEF RazorpayNext

\* What was justified stays so.
LEMMA JustifiedStable ==
    ASSUME TypeOK, [Next]_vars, NEW e \in Outcomes, Justified(e)
    PROVE  Justified(e)'
BY WorldGrows, EventsAreSent, FieldTypes DEF Justified, FailureSent

\* What a poll concluded stays true until the reconciler acts on it, however late.
LEMMA NextPolls ==
    ASSUME TypeOK, PollsTrue, [Next]_vars
    PROVE  PollsTrue'
<1> DEFINE Fine(k) == /\ \A o \in k.expired : Expired(o)
                      /\ k.pc = "pop" =>
                           /\ k.order \in Orders
                           /\ IF k.paid THEN status[k.order] = "paid" ELSE Expired(k.order)
<1>1. \A r \in Reconcilers : Fine(recon[r])
  BY DEF PollsTrue
<1>2. ASSUME NEW k \in ReconType, Fine(k)
      PROVE  /\ \A o \in k.expired : Expired(o)'
             /\ k.pc = "pop" =>
                  /\ k.order \in Orders
                  /\ IF k.paid THEN status'[k.order] = "paid" ELSE Expired(k.order)'
  BY <1>2, WorldGrows, FieldTypes
<1> HIDE DEF Fine
<1>3. ASSUME NEW r \in Reconcilers, NEW k \in ReconType, Fine(k),
             recon' = [recon EXCEPT ![r] = k]
      PROVE  PollsTrue'
  <2>1. \A v \in Reconcilers : recon'[v] = k \/ recon'[v] = recon[v]
    BY <1>3 DEF TypeOK
  <2>2. \A v \in Reconcilers : recon'[v] \in ReconType /\ Fine(recon'[v])
    BY <1>1, <1>3, <2>1 DEF TypeOK
  <2> QED
    BY <1>2, <2>2 DEF PollsTrue
<1>4. CASE recon' = recon
  <2>1. \A v \in Reconcilers : recon'[v] \in ReconType /\ Fine(recon'[v])
    BY <1>1, <1>4 DEF TypeOK
  <2> QED
    BY <1>2, <2>1 DEF PollsTrue
<1>5. ASSUME NEW r \in Reconcilers, ReconcilerNext(r) PROVE PollsTrue'
  <2> recon[r] \in ReconType /\ Fine(recon[r])
    BY <1>1 DEF TypeOK
  <2>1. CASE BeginPass(r)
    <3> DEFINE k == Recon("scan", pending, {o \in pending \ ManualOrders : Expired(o)},
                          None, FALSE)
    <3>1. k \in ReconType
      BY ConstructorTypes DEF TypeOK
    <3>2. Fine(k)
      BY DEF Fine, Recon
    <3>3. recon' = [recon EXCEPT ![r] = k]
      BY <2>1 DEF BeginPass
    <3> HIDE DEF k
    <3> QED
      BY <1>3, <3>1, <3>2, <3>3
  <2>2. ASSUME NEW o \in Orders, CheckOrder(r, o) PROVE PollsTrue'
    <3>1. PICK s \in OrderStatus(o) : recon' = [recon EXCEPT ![r] = NextInScan(r, o, s)]
      BY <2>2 DEF CheckOrder
    <3>2. NextInScan(r, o, s) \in ReconType
      BY ConstructorTypes, FieldTypes DEF NextInScan
    <3>3. s = "paid" => status[o] = "paid"
      BY <3>1, ConstantsAssumption DEF OrderStatus, OrderStatuses
    <3>4. Fine(NextInScan(r, o, s))
      BY <3>3 DEF NextInScan, Fine, Recon
    <3> QED
      BY <1>3, <3>1, <3>2, <3>4
  <2>3. CASE ClaimByPoll(r)
    <3> DEFINE k == Recon("append", recon[r].todo, recon[r].expired, None, FALSE)
    <3>1. k \in ReconType
      BY ConstructorTypes, FieldTypes
    <3>2. Fine(k)
      BY DEF Fine, Recon
    <3>3. recon' = [recon EXCEPT ![r] = k]
      BY <2>3 DEF ClaimByPoll
    <3> HIDE DEF k
    <3> QED
      BY <1>3, <3>1, <3>2, <3>3
  <2>4. CASE ScanOn(r)
    <3> DEFINE k == Recon("scan", recon[r].todo, recon[r].expired, None, FALSE)
    <3>1. k \in ReconType
      BY ConstructorTypes, FieldTypes
    <3>2. Fine(k)
      BY DEF Fine, Recon
    <3>3. recon' = [recon EXCEPT ![r] = k]
      BY <2>4 DEF ScanOn
    <3> HIDE DEF k
    <3> QED
      BY <1>3, <3>1, <3>2, <3>3
  <2>5. CASE recon' = [recon EXCEPT ![r] = IdleRecon]
    <3>1. Fine(IdleRecon)
      BY DEF Fine, IdleRecon, Recon
    <3> QED
      BY <1>3, <2>5, <3>1, IdleTypes
  <2> QED
    BY <1>5, <2>1, <2>2, <2>3, <2>4, <2>5
       DEF ReconcilerNext, ReconcilerStep, RaiseOnPoll, LoseRace, Resolve, EndPass,
           ResolveTimesOut, ReconcilerDies
<1>6. ASSUME NEW p \in Pipelines, PipelineNext(p) PROVE recon' = recon
  BY <1>6
     DEF PipelineNext, StartRun, FetchBatch, AddPending, AppendOutcome, EndRun,
         PipelineDies, Simulate, InitiationFails, CreateOrder, ResponseLost
<1>7. ASSUME NEW w \in Workers, WorkerNext(w) PROVE recon' = recon
  BY <1>7 DEF WorkerNext, WorkerStep, ClaimByEvent, RaiseOnEvent, PassOverEvent,
              AppendResolution, LogEvent, RequestDies
<1>8. CASE RazorpayNext \/ Tick \/ (\E o \in Orders : RegisterManually(o)) \/ UNCHANGED vars
  BY <1>4, <1>8 DEF RazorpayNext, Authorize, Capture, FailAttempt, Tick, RegisterManually, vars
<1> QED
  BY <1>4, <1>5, <1>6, <1>7, <1>8 DEF Next

\* Every outcome held or logged rests on a payment or on an elapsed window.
LEMMA NextOutcomes ==
    ASSUME TypeOK, EventsTrue, PollsTrue, OutcomesTrue, [Next]_vars
    PROVE  OutcomesTrue'
<1>1. \A p \in Pipelines : pipe[p].out \in Outcomes /\ Justified(pipe[p].out)
  BY FieldTypes DEF TypeOK, OutcomesTrue
<1>2. \A h \in Handlers : claim[h] \in Outcomes /\ Justified(claim[h])
  BY DEF TypeOK, OutcomesTrue
<1>3. \A i \in DOMAIN auditLog : auditLog[i] \in Outcomes /\ Justified(auditLog[i])
  BY DEF TypeOK, OutcomesTrue
<1>4. \A i \in DOMAIN auditLog' : auditLog'[i] \in Outcomes /\ Justified(auditLog'[i])
  <2>1. ASSUME NEW e \in Outcomes, Justified(e), LogOutcome(e)
        PROVE  \A i \in DOMAIN auditLog' : auditLog'[i] \in Outcomes /\ Justified(auditLog'[i])
    <3>1. auditLog \in Seq(Outcomes) /\ auditLog' = Append(auditLog, e)
      BY <2>1 DEF TypeOK, LogOutcome
    <3>2. /\ \A i \in DOMAIN auditLog : auditLog'[i] = auditLog[i]
          /\ auditLog'[Len(auditLog) + 1] = e
          /\ \A i \in DOMAIN auditLog' : i \in DOMAIN auditLog \/ i = Len(auditLog) + 1
      BY <3>1
    <3> QED
      BY <1>3, <2>1, <3>2
  <2> QED
    BY <1>1, <1>2, <1>3, <2>1, LogStep
<1>5. /\ Justified(NoOutcome)
      /\ \A x : Justified(InitiationFailed(x))
      /\ \A x, o : Justified(Outcome("pending", "none", x, o))
      /\ \A result, x : Justified(Outcome(result, "simulated", x, None))
  BY DEF Justified, NoOutcome, InitiationFailed, Outcome
<1>6. \A p \in Pipelines : pipe'[p].out \in Outcomes /\ Justified(pipe'[p].out)
  <2>1. CASE pipe' = pipe
    BY <1>1, <2>1
  <2>2. ASSUME NEW p \in Pipelines, NEW pc, NEW seen, NEW batch,
               NEW e \in Outcomes, Justified(e),
               pipe' = [pipe EXCEPT ![p] = Pipe(pc, seen, batch, e)]
        PROVE  \A q \in Pipelines : pipe'[q].out \in Outcomes /\ Justified(pipe'[q].out)
    <3>1. Pipe(pc, seen, batch, e).out = e
      BY DEF Pipe
    <3> QED
      BY <1>1, <2>2, <3>1 DEF TypeOK
  <2>3. ASSUME NEW p \in Pipelines, PipelineNext(p)
        PROVE  \A q \in Pipelines : pipe'[q].out \in Outcomes /\ Justified(pipe'[q].out)
    <3>1. CASE StartRun(p)
      BY <1>5, <2>2, <3>1, NoOutcomeType DEF StartRun
    <3>2. CASE FetchBatch(p)
      <4>1. PICK got \in SUBSET rzpFailed :
              pipe' = [pipe EXCEPT ![p] =
                         Pipe("loop", {}, (got \cup Synthetic) \ pipe[p].seen, NoOutcome)]
        BY <3>2 DEF FetchBatch
      <4> QED
        BY <1>5, <2>2, <4>1, NoOutcomeType
    <3>3. CASE AddPending(p)
      BY <1>1, <2>2, <3>3 DEF AddPending
    <3>4. CASE AppendOutcome(p)
      BY <1>5, <2>2, <3>4, NoOutcomeType DEF AppendOutcome
    <3>5. CASE EndRun(p) \/ PipelineDies(p)
      BY <1>5, <2>2, <3>5, NoOutcomeType DEF EndRun, PipelineDies, IdlePipe
    <3>6. ASSUME NEW x \in Payments, Simulate(p, x)
          PROVE  \A q \in Pipelines : pipe'[q].out \in Outcomes /\ Justified(pipe'[q].out)
      <4>1. PICK recovered \in BOOLEAN :
              Take(p, x, "append", Outcome(Verdict(recovered), "simulated", x, None))
        BY <3>6 DEF Simulate
      <4> DEFINE e == Outcome(Verdict(recovered), "simulated", x, None)
      <4>2. e \in Outcomes /\ Justified(e)
        BY <1>5, OutcomeType, VerdictType DEF Methods
      <4>3. pipe' = [pipe EXCEPT ![p] = Pipe("append", {}, pipe[p].batch \ {x}, e)]
        BY <4>1 DEF Take
      <4> HIDE DEF e
      <4> QED
        BY <2>2, <4>2, <4>3
    <3>7. ASSUME NEW x \in Payments, Take(p, x, "append", InitiationFailed(x))
          PROVE  \A q \in Pipelines : pipe'[q].out \in Outcomes /\ Justified(pipe'[q].out)
      <4>1. InitiationFailed(x) \in Outcomes /\ Justified(InitiationFailed(x))
        BY <1>5, OutcomeType DEF InitiationFailed, Results, Methods
      <4> QED
        BY <2>2, <3>7, <4>1 DEF Take
    <3>8. ASSUME NEW x \in Payments, NEW o \in Orders, CreateOrder(p, x, o)
          PROVE  \A q \in Pipelines : pipe'[q].out \in Outcomes /\ Justified(pipe'[q].out)
      <4> DEFINE e == Outcome("pending", "none", x, o)
      <4>1. e \in Outcomes /\ Justified(e)
        BY <1>5, OutcomeType DEF Results, Methods
      <4>2. pipe' = [pipe EXCEPT ![p] = Pipe("register", {}, pipe[p].batch \ {x}, e)]
        BY <3>8 DEF CreateOrder, Take
      <4> HIDE DEF e
      <4> QED
        BY <2>2, <4>1, <4>2
    <3> QED
      BY <2>3, <3>1, <3>2, <3>3, <3>4, <3>5, <3>6, <3>7, <3>8
         DEF PipelineNext, InitiationFails, ResponseLost
  <2>4. ASSUME NEW w \in Workers, WorkerNext(w) PROVE pipe' = pipe
    BY <2>4 DEF WorkerNext, WorkerStep, ClaimByEvent, RaiseOnEvent, PassOverEvent,
                AppendResolution, LogEvent, RequestDies
  <2>5. ASSUME NEW r \in Reconcilers, ReconcilerNext(r) PROVE pipe' = pipe
    BY <2>5 DEF ReconcilerNext, ReconcilerStep, BeginPass, CheckOrder, ClaimByPoll,
                RaiseOnPoll, LoseRace, Resolve, EndPass, ResolveTimesOut, ReconcilerDies
  <2>6. CASE RazorpayNext \/ Tick \/ (\E o \in Orders : RegisterManually(o)) \/ UNCHANGED vars
    BY <2>1, <2>6 DEF RazorpayNext, Authorize, Capture, FailAttempt, Tick, RegisterManually, vars
  <2> QED
    BY <2>1, <2>3, <2>4, <2>5, <2>6 DEF Next
<1>7. \A h \in Handlers : claim'[h] \in Outcomes /\ Justified(claim'[h])
  <2>1. CASE claim' = claim
    BY <1>2, <2>1
  <2>2. ASSUME NEW h \in Handlers, NEW e \in Outcomes, Justified(e),
               claim' = [claim EXCEPT ![h] = e]
        PROVE  \A g \in Handlers : claim'[g] \in Outcomes /\ Justified(claim'[g])
    BY <1>2, <2>2 DEF TypeOK
  <2>3. ASSUME NEW h \in Handlers, LogClaim(h) \/ Killed(h) \/ LockTimesOut(h)
        PROVE  \A g \in Handlers : claim'[g] \in Outcomes /\ Justified(claim'[g])
    BY <1>5, <2>2, <2>3, NoOutcomeType DEF LogClaim, Killed, LockTimesOut
  <2>4. ASSUME NEW method \in {"webhook", "poll", "timeout"}, NEW recovered \in BOOLEAN,
               NEW o \in Orders,
               recovered => status[o] = "paid",
               method = "timeout" => Expired(o),
               ~ recovered /\ method # "timeout" => FailureSent(o)
        PROVE  /\ Resolution(method, recovered, o) \in Outcomes
               /\ Justified(Resolution(method, recovered, o))
    <3>1. retryFor[o] \in Payments \cup {None}
      BY DEF TypeOK
    <3>2. Resolution(method, recovered, o) \in Outcomes
      BY <3>1, OutcomeType, VerdictType DEF Resolution, Methods
    <3>3. IF recovered THEN Verdict(recovered) = "recovered"
                       ELSE Verdict(recovered) = "unrecovered"
      BY DEF Verdict
    <3>4. /\ Resolution(method, recovered, o).result = Verdict(recovered)
          /\ Resolution(method, recovered, o).method = method
          /\ Resolution(method, recovered, o).order = o
      BY OutcomeFields DEF Resolution
    <3> QED
      BY <2>4, <3>2, <3>3, <3>4 DEF Justified
  <2>5. ASSUME NEW w \in Workers, NEW e \in emitted, ClaimByEvent(w, e)
        PROVE  \A g \in Handlers : claim'[g] \in Outcomes /\ Justified(claim'[g])
    <3> w \in Handlers
      BY DEF Handlers
    <3>1. e.order \in Orders /\ RecoveredBy(e.type) \in BOOLEAN
      BY FieldTypes DEF TypeOK, RecoveredBy
    <3>2. RecoveredBy(e.type) => status[e.order] = "paid"
      BY DEF EventsTrue
    <3> DEFINE k == Resolution("webhook", RecoveredBy(e.type), e.order)
    <3>5. RecoveredBy(e.type) \/ FailureSent(e.order)
      <4>1. e.type \in HandledEvents
        BY <2>5 DEF ClaimByEvent, Concerns
      <4>2. e \in Events
        BY DEF TypeOK
      <4>3. e = [type |-> e.type, order |-> e.order]
        BY <4>2 DEF Events
      <4> QED
        BY <4>1, <4>3 DEF HandledEvents, RecoveredBy, FailureSent
    <3>3. k \in Outcomes /\ Justified(k)
      BY <2>4, <3>1, <3>2, <3>5
    <3>4. claim' = [claim EXCEPT ![w] = k]
      BY <2>5 DEF ClaimByEvent, PopAndClaim
    <3> HIDE DEF k
    <3> QED
      BY <2>2, <3>3, <3>4
  <2>6. ASSUME NEW r \in Reconcilers, ClaimByPoll(r)
        PROVE  \A g \in Handlers : claim'[g] \in Outcomes /\ Justified(claim'[g])
    <3> r \in Handlers
      BY DEF Handlers
    <3>1. recon[r].paid \in BOOLEAN
      BY FieldTypes DEF TypeOK
    <3>2. /\ recon[r].order \in Orders
          /\ IF recon[r].paid THEN status[recon[r].order] = "paid" ELSE Expired(recon[r].order)
      BY <2>6 DEF ClaimByPoll, PollsTrue
    <3> DEFINE k == Resolution(IF recon[r].paid THEN "poll" ELSE "timeout",
                               recon[r].paid, recon[r].order)
    <3>3. k \in Outcomes /\ Justified(k)
      BY <2>4, <3>1, <3>2
    <3>4. claim' = [claim EXCEPT ![r] = k]
      BY <2>6 DEF ClaimByPoll, PopAndClaim
    <3> HIDE DEF k
    <3> QED
      BY <2>2, <3>3, <3>4
  <2>7. ASSUME NEW p \in Pipelines, PipelineNext(p) PROVE claim' = claim
    BY <2>7
       DEF PipelineNext, StartRun, FetchBatch, AddPending, AppendOutcome, EndRun,
           PipelineDies, Simulate, InitiationFails, CreateOrder, ResponseLost
  <2>8. ASSUME NEW w \in Workers, WorkerNext(w)
        PROVE  \A g \in Handlers : claim'[g] \in Outcomes /\ Justified(claim'[g])
    BY <2>1, <2>3, <2>5, <2>8
       DEF WorkerNext, WorkerStep, RaiseOnEvent, PopAndRaise, PassOverEvent,
           AppendResolution, LogEvent, RequestDies, Handlers
  <2>9. ASSUME NEW r \in Reconcilers, ReconcilerNext(r)
        PROVE  \A g \in Handlers : claim'[g] \in Outcomes /\ Justified(claim'[g])
    BY <2>1, <2>3, <2>6, <2>9
       DEF ReconcilerNext, ReconcilerStep, BeginPass, CheckOrder, RaiseOnPoll, PopAndRaise,
           LoseRace, Resolve, EndPass, ResolveTimesOut, ReconcilerDies, Handlers
  <2>10. CASE RazorpayNext \/ Tick \/ (\E o \in Orders : RegisterManually(o)) \/ UNCHANGED vars
    BY <2>1, <2>10 DEF RazorpayNext, Authorize, Capture, FailAttempt, Tick, RegisterManually, vars
  <2> QED
    BY <2>1, <2>7, <2>8, <2>9, <2>10 DEF Next
<1> QED
  BY <1>4, <1>6, <1>7, JustifiedStable DEF OutcomesTrue

-----------------------------------------------------------------------------
(* The theorems *)

\* The invariant holds before any file exists.
LEMMA InitInvariant == Init => IInv
<1> SUFFICES ASSUME Init PROVE IInv
  OBVIOUS
<1>1. TypeOK
  BY InitType
<1>2. Carried
  BY Unresolved, NoOutcomeType DEF Init, Carried, IdlePipe, IdleHook, Pipe, Hook
<1>3. HeldByPipeline = {} /\ HeldByHandler = {} /\ pending = {} /\ ResolvedInLog = {}
  BY DEF Init, HeldByPipeline, Holds, HeldByHandler, Claims, ResolvedInLog, IdlePipe, Pipe
<1>4. OneOwner /\ OwnedExists
  BY <1>3 DEF OneOwner, OwnedExists, Tracked, HeldByPipeline, HeldByHandler
<1>5. ResolvedOnce /\ EventsTrue
  BY DEF Init, ResolvedOnce, EventsTrue
<1>6. PollsTrue
  BY DEF Init, PollsTrue, IdleRecon, Recon
<1>7. OutcomesTrue
  BY DEF Init, OutcomesTrue, Justified, NoOutcome, Outcome, IdlePipe, Pipe
<1> QED
  BY <1>1, <1>2, <1>4, <1>5, <1>6, <1>7 DEF IInv

\* The invariant is inductive: every step of every process keeps it.
LEMMA NextInvariant == IInv /\ [Next]_vars => IInv'
BY NextType, NextCarried, NextOwner, NextExists, NextOnce, NextEvents, NextPolls,
   NextOutcomes
   DEF IInv

\* Every behaviour of the pipelines, workers and reconcilers keeps the inductive
\* invariant, faults and torn writes included.
THEOREM Invariance == Spec => []IInv
BY InitInvariant, NextInvariant, PTL DEF Spec

\* Every variable keeps its type in every behaviour.
THEOREM TypeCorrect == Spec => []TypeOK
BY Invariance, PTL DEF IInv

\* The case of an order always has a single owner.
THEOREM SingleOwner == Spec => []OneOwner
BY Invariance, PTL DEF IInv

\* An order's case is resolved in the audit log at most once, whatever the
\* webhook workers, the reconcilers and their faults do.
THEOREM ResolvedAtMostOnce == Spec => []ResolvedOnce
BY Invariance, PTL DEF IInv

\* The audit log reports a retry recovered only if it was paid.
THEOREM RecoveredMeansPaid == Spec => []RecoveredOnlyIfPaid
<1>1. IInv => RecoveredOnlyIfPaid
  BY DEF IInv, OutcomesTrue, Justified, RecoveredOnlyIfPaid
<1> QED
  BY <1>1, Invariance, PTL

\* The audit log reports a retry unrecovered only after a failed attempt to pay
\* its order, or after its window.
THEOREM UnrecoveredMeansFailed == Spec => []UnrecoveredForCause
<1>1. IInv => UnrecoveredForCause
  BY DEF IInv, OutcomesTrue, Justified, UnrecoveredForCause
<1> QED
  BY <1>1, Invariance, PTL

\* The audit log reports a timeout only after the whole window.
THEOREM TimeoutMeansExpired == Spec => []TimeoutOnlyAfterWindow
<1>1. IInv => TimeoutOnlyAfterWindow
  BY DEF IInv, OutcomesTrue, Justified, TimeoutOnlyAfterWindow, Expired
<1> QED
  BY <1>1, Invariance, PTL

\* Who takes an order out of the store has an event of it, or has polled it.
LEMMA StepLeavesForCause ==
    ASSUME IInv, [Next]_vars, NEW o \in pending, o \notin pending'
    PROVE  \/ \E e \in emitted : e.order = o /\ e.type # "payment.authorized"
           \/ status[o] = "paid"
           \/ age[o] > Timeout
<1> USE DEF fileVars
<1>1. CASE RazorpayNext \/ Tick \/ (\E u \in Orders : RegisterManually(u)) \/ UNCHANGED vars
  BY <1>1 DEF RazorpayNext, Authorize, Capture, FailAttempt, Tick, RegisterManually, Added,
              vars
<1>2. ASSUME NEW p \in Pipelines, PipelineNext(p) PROVE FALSE
  BY <1>2 DEF PipelineNext, StartRun, FetchBatch, AddPending, Added, AppendOutcome, EndRun,
              PipelineDies, Simulate, InitiationFails, CreateOrder, ResponseLost
<1>3. ASSUME NEW w \in Workers, WorkerNext(w)
      PROVE  \E e \in emitted : e.order = o /\ e.type # "payment.authorized"
  <2>1. PICK e \in emitted : ClaimByEvent(w, e) \/ RaiseOnEvent(w, e)
    BY <1>3 DEF WorkerNext, WorkerStep, PassOverEvent, AppendResolution, LogEvent,
                RequestDies
  <2>2. e.type \in HandledEvents /\ pending' = pending \ {e.order}
    BY <2>1 DEF ClaimByEvent, RaiseOnEvent, Concerns, PopAndClaim, PopAndRaise, Popped
  <2> QED
    BY <2>2 DEF HandledEvents
<1>4. ASSUME NEW r \in Reconcilers, ReconcilerNext(r)
      PROVE  status[o] = "paid" \/ age[o] > Timeout
  <2>1. ClaimByPoll(r) \/ RaiseOnPoll(r)
    BY <1>4 DEF ReconcilerNext, ReconcilerStep, BeginPass, CheckOrder, LoseRace, Resolve,
                EndPass, ResolveTimesOut, ReconcilerDies
  <2>2. recon[r].pc = "pop" /\ pending' = pending \ {recon[r].order}
    BY <2>1 DEF ClaimByPoll, RaiseOnPoll, PopAndClaim, PopAndRaise, Popped
  <2> QED
    BY <2>2 DEF IInv, PollsTrue, Expired
<1> QED
  BY <1>1, <1>2, <1>3, <1>4 DEF Next

\* No case leaves the pending store before a final event, the payment or the end
\* of the window.
THEOREM LeftForCause == Spec => LeavesPendingForCause
<1>1. IInv /\ [Next]_vars
        => [\A o \in pending \ pending' :
              \/ \E e \in emitted : e.order = o /\ e.type # "payment.authorized"
              \/ status[o] = "paid"
              \/ age[o] > Timeout]_vars
  BY StepLeavesForCause
<1> QED
  BY <1>1, Invariance, PTL DEF Spec, LeavesPendingForCause

-----------------------------------------------------------------------------
(* The event log *)

\* No process is killed inside the write of the audit log.
NoTornWrites == "torn_write" \notin FaultKinds

\* The audit log has a webhook resolution of the order of e, as e calls for.
Told(e) ==
    \E i \in DOMAIN auditLog :
        /\ auditLog[i].order = e.order
        /\ auditLog[i].method = "webhook"
        /\ auditLog[i].result = Verdict(RecoveredBy(e.type))

\* A worker that will record its event as a resolution has that resolution to
\* log, or has logged it; so has every worker whose event is recorded.
EventsTold ==
    /\ \A w \in Workers :
         /\ hook[w].pc = "append" =>
              /\ claim[w].order = hook[w].event.order
              /\ claim[w].method = "webhook"
              /\ claim[w].result = Verdict(RecoveredBy(hook[w].event.type))
         /\ hook[w].pc = "log" /\ hook[w].resolved => Told(hook[w].event)
    /\ EventLogAgrees

\* Without torn writes, the audit log only grows.
LEMMA LogUntorn ==
    ASSUME NoTornWrites, TypeOK, [Next]_vars
    PROVE  auditLog' = auditLog \/ \E e : LogOutcome(e)
<1> USE DEF fileVars
<1>1. \A p \in Pipelines : PipelineNext(p) => auditLog' = auditLog \/ LogOutcome(pipe[p].out)
  BY DEF PipelineNext, StartRun, FetchBatch, AddPending, AppendOutcome, EndRun, PipelineDies,
         TornWrite, Fault, NoTornWrites, Simulate, InitiationFails, CreateOrder, ResponseLost
<1>2. \A w \in Workers : WorkerNext(w) => auditLog' = auditLog \/ LogOutcome(claim[w])
  BY DEF WorkerNext, WorkerStep, ClaimByEvent, RaiseOnEvent, PassOverEvent, AppendResolution,
         LogClaim, LogEvent, RequestDies, Killed, LockTimesOut, TornWrite, Fault, NoTornWrites
<1>3. \A r \in Reconcilers : ReconcilerNext(r) => auditLog' = auditLog \/ LogOutcome(claim[r])
  BY DEF ReconcilerNext, ReconcilerStep, BeginPass, CheckOrder, ClaimByPoll, RaiseOnPoll,
         LoseRace, Resolve, LogClaim, EndPass, ResolveTimesOut, ReconcilerDies, Killed,
         LockTimesOut, TornWrite, Fault, NoTornWrites
<1>4. CASE RazorpayNext \/ Tick \/ (\E o \in Orders : RegisterManually(o)) \/ UNCHANGED vars
  BY <1>4 DEF RazorpayNext, Authorize, Capture, FailAttempt, Tick, RegisterManually, vars
<1> QED
  BY <1>1, <1>2, <1>3, <1>4 DEF Next

\* What the log tells it tells for good, unless a write of it is torn.
LEMMA ToldForGood ==
    ASSUME NoTornWrites, TypeOK, [Next]_vars PROVE \A e : Told(e) => Told(e)'
<1>1. auditLog \in Seq(Outcomes)
  BY DEF TypeOK
<1>2. auditLog' = auditLog \/ \E out : auditLog' = Append(auditLog, out)
  BY LogUntorn DEF LogOutcome
<1>3. \A i \in DOMAIN auditLog : i \in DOMAIN auditLog' /\ auditLog'[i] = auditLog[i]
  BY <1>1, <1>2
<1> QED
  BY <1>3 DEF Told

\* A worker's step keeps EventsTold if its new place does its part.
LEMMA ToldStep ==
    ASSUME TypeOK, EventsTold, \A e : Told(e) => Told(e)',
           NEW w \in Workers, NEW k, hook' = [hook EXCEPT ![w] = k],
           \A v \in Workers : v # w => claim'[v] = claim[v],
           k.pc = "append" =>
             /\ claim'[w].order = k.event.order
             /\ claim'[w].method = "webhook"
             /\ claim'[w].result = Verdict(RecoveredBy(k.event.type)),
           k.pc = "log" /\ k.resolved => Told(k.event)',
           \A e \in eventLog' : e \in eventLog \/ Told(e)
    PROVE  EventsTold'
<1>1. EventLogAgrees'
  BY DEF EventsTold, EventLogAgrees, Told
<1>2. \A v \in Workers : hook'[v] = IF v = w THEN k ELSE hook[v]
  BY DEF TypeOK
<1> QED
  BY <1>1, <1>2 DEF EventsTold

\* So does every step that leaves the workers and their claims alone.
LEMMA ToldFrame ==
    ASSUME EventsTold, \A e : Told(e) => Told(e)', UNCHANGED <<hook, eventLog>>,
           \A v \in Workers : claim'[v] = claim[v]
    PROVE  EventsTold'
BY DEF EventsTold, EventLogAgrees, Told

\* A worker records an event as a resolution only once the resolution is logged.
LEMMA NextTold ==
    ASSUME NoTornWrites, IInv, EventsTold, [Next]_vars PROVE EventsTold'
<1> USE DEF fileVars
<1> TypeOK
  BY DEF IInv
<1>1. \A e : Told(e) => Told(e)'
  BY ToldForGood
<1>2. CASE RazorpayNext \/ Tick \/ (\E o \in Orders : RegisterManually(o)) \/ UNCHANGED vars
  BY <1>1, <1>2, ToldFrame
     DEF RazorpayNext, Authorize, Capture, FailAttempt, Tick, RegisterManually, vars
<1>3. ASSUME NEW p \in Pipelines, PipelineNext(p) PROVE EventsTold'
  BY <1>1, <1>3, ToldFrame
     DEF PipelineNext, StartRun, FetchBatch, AddPending, AppendOutcome, EndRun, PipelineDies,
         Simulate, InitiationFails, CreateOrder, ResponseLost
<1>4. ASSUME NEW r \in Reconcilers, ReconcilerNext(r) PROVE EventsTold'
  <2>1. UNCHANGED <<hook, eventLog>>
    BY <1>4 DEF ReconcilerNext, ReconcilerStep, BeginPass, CheckOrder, ClaimByPoll,
                RaiseOnPoll, LoseRace, Resolve, EndPass, ResolveTimesOut, ReconcilerDies
  <2>2. claim' = claim \/ \E e : claim' = [claim EXCEPT ![r] = e]
    BY <1>4 DEF ReconcilerNext, ReconcilerStep, BeginPass, CheckOrder, ClaimByPoll,
                PopAndClaim, RaiseOnPoll, PopAndRaise, LoseRace, Resolve, LogClaim, EndPass,
                ResolveTimesOut, LockTimesOut, ReconcilerDies, Killed
  <2>3. \A v \in Workers : claim'[v] = claim[v]
    <3>1. \A v \in Workers : v # r /\ v \in Handlers
      BY ConstantsAssumption DEF Handlers
    <3>2. ASSUME NEW e, claim' = [claim EXCEPT ![r] = e], NEW v \in Workers
          PROVE  claim'[v] = claim[v]
      BY <3>1, <3>2 DEF TypeOK
    <3> QED
      BY <2>2, <3>2
  <2> QED
    BY <1>1, <2>1, <2>3, ToldFrame
<1>5. ASSUME NEW w \in Workers, WorkerNext(w) PROVE EventsTold'
  <2> w \in Handlers
    BY DEF Handlers
  <2>1. \A pc, e, resolved : /\ Hook(pc, e, resolved).pc = pc
                            /\ Hook(pc, e, resolved).event = e
                            /\ Hook(pc, e, resolved).resolved = resolved
    BY DEF Hook
  <2>2. ASSUME NEW out, claim' = [claim EXCEPT ![w] = out]
        PROVE  claim'[w] = out /\ \A v \in Workers : v # w => claim'[v] = claim[v]
    BY <2>2 DEF TypeOK, Handlers
  <2>3. ASSUME NEW e \in emitted, ClaimByEvent(w, e) PROVE EventsTold'
    <3>1. PICK k : k = Hook("append", e, TRUE)
      OBVIOUS
    <3>2. PICK out : out = Resolution("webhook", RecoveredBy(e.type), e.order)
      OBVIOUS
    <3>3. /\ hook' = [hook EXCEPT ![w] = k]
          /\ claim' = [claim EXCEPT ![w] = out]
          /\ eventLog' = eventLog
      BY <2>3, <3>1, <3>2 DEF ClaimByEvent, PopAndClaim
    <3>4. /\ out.order = e.order /\ out.method = "webhook"
          /\ out.result = Verdict(RecoveredBy(e.type))
      BY <3>2, OutcomeFields DEF Resolution
    <3>5. k.pc = "append" /\ k.event = e
      BY ZenonT(60), <2>1, <3>1
    <3> QED
      BY <1>1, <2>2, <3>3, <3>4, <3>5, ToldStep
  <2>4. ASSUME NEW e \in emitted, RaiseOnEvent(w, e) PROVE EventsTold'
    BY <1>1, <2>4, ToldFrame DEF RaiseOnEvent, PopAndRaise
  <2>5. ASSUME NEW e \in emitted, PassOverEvent(w, e) PROVE EventsTold'
    <3>1. PICK k : k = Hook("log", e, FALSE)
      OBVIOUS
    <3>2. hook' = [hook EXCEPT ![w] = k] /\ UNCHANGED <<claim, eventLog>>
      BY <2>5, <3>1 DEF PassOverEvent
    <3>3. k.pc = "log" /\ ~ k.resolved
      BY <2>1, <3>1
    <3> QED
      BY <1>1, <3>2, <3>3, ToldStep
  <2>6. CASE AppendResolution(w)
    <3>1. PICK k : k = Hook("log", hook[w].event, hook[w].resolved)
      OBVIOUS
    <3>2. /\ hook' = [hook EXCEPT ![w] = k]
          /\ claim' = [claim EXCEPT ![w] = NoOutcome]
          /\ eventLog' = eventLog
          /\ auditLog' = Append(auditLog, claim[w])
          /\ hook[w].pc = "append"
      BY <2>6, <3>1 DEF AppendResolution, LogClaim, LogOutcome
    <3>3. k.pc = "log" /\ k.event = hook[w].event
      BY <2>1, <3>1
    <3>4. PICK n : n = Len(auditLog) + 1
      OBVIOUS
    <3>5. n \in DOMAIN auditLog' /\ auditLog'[n] = claim[w]
      <4>1. auditLog \in Seq(Outcomes) /\ claim[w] \in Outcomes
        BY DEF TypeOK
      <4> QED
        BY <3>2, <3>4, <4>1
    <3>6. Told(k.event)'
      BY <3>2, <3>3, <3>5 DEF Told, EventsTold
    <3> QED
      BY <1>1, <2>2, <3>2, <3>3, <3>6, ToldStep
  <2>7. CASE LogEvent(w)
    <3>1. PICK k : k = IdleHook
      OBVIOUS
    <3>2. hook' = [hook EXCEPT ![w] = k] /\ claim' = claim /\ hook[w].pc = "log"
      BY <2>7, <3>1 DEF LogEvent
    <3>3. k.pc = "idle"
      BY <2>1, <3>1 DEF IdleHook
    <3>4. \A e \in eventLog' : e \in eventLog \/ Told(e)
      BY <2>7 DEF LogEvent, EventsTold
    <3> QED
      BY <1>1, <3>2, <3>3, <3>4, ToldStep
  <2>8. CASE RequestDies(w)
    <3>1. PICK k : k = IdleHook
      OBVIOUS
    <3>2. /\ hook' = [hook EXCEPT ![w] = k]
          /\ claim' = [claim EXCEPT ![w] = NoOutcome]
          /\ eventLog' = eventLog
      BY <2>8, <3>1 DEF RequestDies, Killed, LockTimesOut
    <3>3. k.pc = "idle"
      BY <2>1, <3>1 DEF IdleHook
    <3> QED
      BY <1>1, <2>2, <3>2, <3>3, ToldStep
  <2> QED
    BY <1>5, <2>3, <2>4, <2>5, <2>6, <2>7, <2>8 DEF WorkerNext, WorkerStep
<1> QED
  BY <1>2, <1>3, <1>4, <1>5 DEF Next

\* As long as no write of the audit log is torn, an event is recorded as having
\* resolved a retry only when the audit log has that resolution.
THEOREM EventLogTrue == ASSUME NoTornWrites PROVE Spec => []EventLogAgrees
<1>1. Init => EventsTold
  BY DEF Init, EventsTold, EventLogAgrees, IdleHook, Hook
<1>2. IInv /\ EventsTold /\ [Next]_vars => EventsTold'
  BY NextTold
<1>3. EventsTold => EventLogAgrees
  BY DEF EventsTold
<1> QED
  BY <1>1, <1>2, <1>3, Invariance, PTL DEF Spec

-----------------------------------------------------------------------------
(***************************************************************************)
(* How often a payment is retried: never when it is logged, as long as     *)
(* nothing fails and runs do not overlap; and in any case no more often    *)
(* than the overlapping runs and the faults explain.                       *)
(***************************************************************************)

-----------------------------------------------------------------------------
(* A single pipeline *)

\* No two runs of the pipeline overlap.
OneAtATime == \A p, q \in Pipelines : p = q

\* Payment y is the one whose outcome the pipeline of record q is working on.
WorksOn(q, y) == q.pc \in {"register", "append"} /\ q.out.payment = y

\* What is logged is skipped, or not among the records of the run; nor is the
\* payment that the run is working on.
Skips(q) ==
    /\ q.pc = "fetch" => \A y \in Payments : y \in ProcessedIds => y \in q.seen
    /\ q.pc \in {"loop", "register", "append"} =>
         \A y \in q.batch : y \notin ProcessedIds
    /\ q.pc \in {"register", "append"} => q.out.payment \notin q.batch

\* A payment with a retry order is logged, or the pipeline is about to log it.
Fresh ==
    /\ \A o \in Orders : retryFor[o] # None =>
         retryFor[o] \in ProcessedIds \/ \E p \in Pipelines : WorksOn(pipe[p], retryFor[o])
    /\ \A p \in Pipelines : Skips(pipe[p])
    /\ \A h \in Handlers :
         claim[h] # NoOutcome => claim[h].payment = retryFor[claim[h].order]

\* An append adds the payment of its outcome to the processed ids.
LEMMA ProcessedStep ==
    ASSUME TypeOK, NEW e \in Outcomes, LogOutcome(e)
    PROVE  ProcessedIds' = ProcessedIds \cup {e.payment}
<1>1. /\ auditLog \in Seq(Outcomes)
      /\ auditLog' = Append(auditLog, e)
  BY DEF TypeOK, LogOutcome
<1>2. /\ Len(auditLog) \in Nat
      /\ \A i \in DOMAIN auditLog : auditLog'[i] = auditLog[i]
      /\ auditLog'[Len(auditLog) + 1] = e
      /\ \A i \in DOMAIN auditLog' : i \in DOMAIN auditLog \/ i = Len(auditLog) + 1
      /\ \A i \in DOMAIN auditLog : i \in DOMAIN auditLog'
      /\ Len(auditLog) + 1 \in DOMAIN auditLog'
  BY <1>1
<1> QED
  BY <1>2 DEF ProcessedIds

\* A step that leaves the log alone leaves the processed ids alone.
LEMMA ProcessedFrame == auditLog' = auditLog => ProcessedIds' = ProcessedIds
BY DEF ProcessedIds

\* What a handler holds is a resolution of an order that exists.
LEMMA ClaimedExists ==
    ASSUME IInv, NEW h \in Handlers, claim[h] # NoOutcome
    PROVE  claim[h].order \in Orders /\ status[claim[h].order] # "absent"
<1>1. claim[h].order \in Orders
  BY DEF IInv, Carried, AgentOrders
<1>2. claim[h].order \in HeldByHandler
  BY <1>1 DEF HeldByHandler, Claims
<1> QED
  BY <1>1, <1>2 DEF IInv, OwnedExists, Tracked

\* A step of the pipeline keeps Fresh if its new record does its part.
LEMMA FreshPipeline ==
    ASSUME OneAtATime, IInv, Fresh, NEW p \in Pipelines, NEW k,
           pipe' = [pipe EXCEPT ![p] = k], Skips(k)', claim' = claim,
           \A o \in Orders : status[o] # "absent" => retryFor'[o] = retryFor[o],
           \A o \in Orders : retryFor'[o] # None =>
             retryFor'[o] \in ProcessedIds' \/ WorksOn(k, retryFor'[o])
    PROVE  Fresh'
<1>1. pipe'[p] = k /\ \A q \in Pipelines : q = p
  BY DEF IInv, TypeOK, OneAtATime
<1>2. \A q \in Pipelines : Skips(pipe[q])'
  BY <1>1 DEF Skips
<1>3. \A h \in Handlers :
        claim'[h] # NoOutcome => claim'[h].payment = retryFor'[claim'[h].order]
  BY ClaimedExists DEF Fresh
<1>4. \A o \in Orders : retryFor'[o] # None =>
        retryFor'[o] \in ProcessedIds' \/ \E q \in Pipelines : WorksOn(pipe'[q], retryFor'[o])
  BY <1>1
<1> QED
  BY <1>2, <1>3, <1>4 DEF Fresh, WorksOn

\* A step of anyone else keeps it if it neither logs nor takes up an outcome.
LEMMA FreshFrame ==
    ASSUME Fresh, UNCHANGED <<retryFor, pipe, claim, auditLog>> PROVE Fresh'
BY ProcessedFrame DEF Fresh, Skips, WorksOn

\* A handler that pops an order holds the outcome of the payment it is for.
LEMMA FreshPop ==
    ASSUME IInv, Fresh, NEW h \in Handlers, NEW o, NEW method, NEW recovered,
           PopAndClaim(h, o, Resolution(method, recovered, o)),
           UNCHANGED <<retryFor, pipe, auditLog>>
    PROVE  Fresh'
<1>1. PICK e : e = Resolution(method, recovered, o)
  OBVIOUS
<1>2. e.order = o /\ e.payment = retryFor[o]
  BY <1>1, OutcomeFields DEF Resolution
<1>3. claim' = [claim EXCEPT ![h] = e]
  BY <1>1 DEF PopAndClaim
<1>4. \A g \in Handlers :
        claim'[g] # NoOutcome => claim'[g].payment = retryFor'[claim'[g].order]
  BY <1>2, <1>3 DEF Fresh, IInv, TypeOK
<1> QED
  BY <1>4, ProcessedFrame DEF Fresh, Skips, WorksOn

\* What a handler logs is of a payment that is logged already, or that the
\* pipeline has taken off its records.
LEMMA FreshLog ==
    ASSUME OneAtATime, IInv, Fresh, NEW h \in Handlers, LogClaim(h),
           UNCHANGED <<retryFor, pipe>>
    PROVE  Fresh'
<1>1. PICK y : y = claim[h].payment
  OBVIOUS
<1>2. /\ claim[h] \in Outcomes /\ claim[h] # NoOutcome
      /\ LogOutcome(claim[h])
      /\ claim' = [claim EXCEPT ![h] = NoOutcome]
  BY DEF LogClaim, IInv, TypeOK
<1>3. ProcessedIds' = ProcessedIds \cup {y}
  BY <1>1, <1>2, ProcessedStep DEF IInv
<1>4. y # None => y \in ProcessedIds \/ \E p \in Pipelines : WorksOn(pipe[p], y)
  BY <1>1, <1>2, ClaimedExists DEF Fresh
<1>5. ASSUME NEW p \in Pipelines PROVE Skips(pipe[p])'
  <2>1. pipe[p] \in PipeType /\ pipe[p].batch \subseteq Payments
    BY FieldTypes DEF IInv, TypeOK
  <2>2. None \notin Payments
    BY ConstantsAssumption
  <2>3. y \in Payments => y \in ProcessedIds \/ WorksOn(pipe[p], y)
    BY <1>4, <2>2 DEF OneAtATime
  <2>4. Skips(pipe[p])
    BY DEF Fresh
  <2> QED
    BY <1>3, <2>1, <2>2, <2>3, <2>4 DEF Skips, WorksOn
<1>6. \A g \in Handlers :
        claim'[g] # NoOutcome => claim'[g].payment = retryFor'[claim'[g].order]
  BY <1>2 DEF Fresh, IInv, TypeOK
<1>7. \A o \in Orders : retryFor'[o] # None =>
        retryFor'[o] \in ProcessedIds' \/ \E p \in Pipelines : WorksOn(pipe'[p], retryFor'[o])
  BY <1>3 DEF Fresh
<1> QED
  BY <1>5, <1>6, <1>7 DEF Fresh, WorksOn

\* The fields of a pipeline's record are what it was made of.
LEMMA PipeFields ==
    \A pc, seen, batch, e :
        /\ Pipe(pc, seen, batch, e).pc = pc
        /\ Pipe(pc, seen, batch, e).seen = seen
        /\ Pipe(pc, seen, batch, e).batch = batch
        /\ Pipe(pc, seen, batch, e).out = e
BY DEF Pipe

\* A run that takes payment x off its records takes up x, and x is not logged.
LEMMA FreshTake ==
    ASSUME OneAtATime, IInv, Fresh, NEW p \in Pipelines, NEW x,
           NEW pc \in {"register", "append"}, NEW e, e.payment = x, Take(p, x, pc, e),
           UNCHANGED <<claim, auditLog>>,
           \A o \in Orders : status[o] # "absent" => retryFor'[o] = retryFor[o],
           \A o \in Orders : retryFor'[o] = retryFor[o] \/ retryFor'[o] = x
    PROVE  Fresh' /\ x \notin ProcessedIds
<1>1. PICK k : k = Pipe(pc, {}, pipe[p].batch \ {x}, e)
  OBVIOUS
<1>2. /\ pipe[p].pc = "loop" /\ x \in pipe[p].batch
      /\ pipe' = [pipe EXCEPT ![p] = k]
  BY <1>1 DEF Take
<1>3. k.pc = pc /\ k.batch = pipe[p].batch \ {x} /\ k.out.payment = x
  BY <1>1, PipeFields
<1>4. \A y \in pipe[p].batch : y \notin ProcessedIds
  BY <1>2 DEF Fresh, Skips
<1>5. ProcessedIds' = ProcessedIds
  BY ProcessedFrame
<1>6. Skips(k)'
  BY <1>3, <1>4, <1>5 DEF Skips
<1>7. \A o \in Orders : retryFor[o] # None => retryFor[o] \in ProcessedIds
  BY <1>2 DEF Fresh, WorksOn, OneAtATime
<1>8. \A o \in Orders : retryFor'[o] # None =>
        retryFor'[o] \in ProcessedIds' \/ WorksOn(k, retryFor'[o])
  BY <1>3, <1>5, <1>7 DEF WorksOn
<1> QED
  BY <1>2, <1>4, <1>6, <1>8, FreshPipeline

\* Without faults, every step of the single pipeline keeps Fresh.
LEMMA FreshRun ==
    ASSUME OneAtATime, IInv, Fresh, NEW p \in Pipelines, PipelineNext(p), faults' = faults
    PROVE  Fresh'
<1> USE DEF razorpayVars, fileVars
<1>1. faults \in Nat /\ \A kind : ~ Fault(kind)
  BY ConstantsAssumption DEF IInv, TypeOK, Fault
<1>2. ASSUME pipe[p].pc \notin {"register", "append"}
      PROVE  \A o \in Orders : retryFor[o] # None => retryFor[o] \in ProcessedIds
  BY <1>2 DEF Fresh, WorksOn, OneAtATime
<1>3. CASE StartRun(p)
  <2>1. PICK k : k = Pipe("fetch", ProcessedIds, {}, NoOutcome)
    OBVIOUS
  <2>2. /\ pipe' = [pipe EXCEPT ![p] = k] /\ pipe[p].pc = "idle"
        /\ UNCHANGED <<retryFor, auditLog, claim>>
    BY <1>1, <1>3, <2>1 DEF StartRun
  <2>3. k.pc = "fetch" /\ k.seen = ProcessedIds
    BY <2>1, PipeFields
  <2>4. Skips(k)'
    BY <2>2, <2>3, ProcessedFrame DEF Skips
  <2> QED
    BY <1>2, <2>2, <2>4, ProcessedFrame, FreshPipeline
<1>4. CASE FetchBatch(p)
  <2>1. PICK got \in SUBSET rzpFailed :
          pipe' = [pipe EXCEPT ![p] =
                     Pipe("loop", {}, (got \cup Synthetic) \ pipe[p].seen, NoOutcome)]
    BY <1>4 DEF FetchBatch
  <2>2. PICK k : k = Pipe("loop", {}, (got \cup Synthetic) \ pipe[p].seen, NoOutcome)
    OBVIOUS
  <2>3. /\ pipe' = [pipe EXCEPT ![p] = k] /\ pipe[p].pc = "fetch"
        /\ UNCHANGED <<retryFor, auditLog, claim>>
    BY <1>4, <2>1, <2>2 DEF FetchBatch
  <2>4. k.pc = "loop" /\ k.batch = (got \cup Synthetic) \ pipe[p].seen
    BY <2>2, PipeFields
  <2>5. \A y \in k.batch : y \in Payments /\ y \notin ProcessedIds
    BY <2>3, <2>4, ConstantsAssumption DEF IInv, TypeOK, Fresh, Skips
  <2>6. Skips(k)'
    BY <2>3, <2>4, <2>5, ProcessedFrame DEF Skips
  <2> QED
    BY <1>2, <2>3, <2>6, ProcessedFrame, FreshPipeline
<1>5. ASSUME NEW x \in Payments, Simulate(p, x) PROVE Fresh'
  <2>1. PICK e : e.payment = x /\ Take(p, x, "append", e)
    BY <1>5, OutcomeFields DEF Simulate
  <2> QED
    BY <1>5, <2>1, FreshTake DEF Simulate
<1>6. ASSUME NEW x \in Payments, InitiationFails(p, x) PROVE Fresh'
  <2>1. PICK e : e.payment = x /\ Take(p, x, "append", e)
    BY <1>6, OutcomeFields DEF InitiationFails, InitiationFailed
  <2> QED
    BY <1>6, <2>1, FreshTake DEF InitiationFails
<1>7. ASSUME NEW x \in Payments, NEW o \in Orders, CreateOrder(p, x, o) PROVE Fresh'
  <2>1. PICK e : e.payment = x /\ Take(p, x, "register", e)
    BY <1>7, OutcomeFields DEF CreateOrder
  <2>2. \A u \in Orders :
          /\ status[u] # "absent" => retryFor'[u] = retryFor[u]
          /\ retryFor'[u] = retryFor[u] \/ retryFor'[u] = x
    BY <1>7 DEF CreateOrder, NewOrder, IInv, TypeOK
  <2> QED
    BY <1>7, <2>1, <2>2, FreshTake DEF CreateOrder
<1>8. CASE AddPending(p)
  <2>1. PICK k : k = Pipe("append", {}, pipe[p].batch, pipe[p].out)
    OBVIOUS
  <2>2. /\ pipe' = [pipe EXCEPT ![p] = k] /\ pipe[p].pc = "register"
        /\ UNCHANGED <<retryFor, auditLog, claim>>
    BY <1>8, <2>1 DEF AddPending
  <2>3. k.pc = "append" /\ k.batch = pipe[p].batch /\ k.out = pipe[p].out
    BY <2>1, PipeFields
  <2>4. Skips(k)'
    BY <2>2, <2>3, ProcessedFrame DEF Fresh, Skips
  <2>5. \A o \in Orders : retryFor'[o] # None =>
          retryFor'[o] \in ProcessedIds' \/ WorksOn(k, retryFor'[o])
    BY <2>2, <2>3, ProcessedFrame DEF Fresh, WorksOn, OneAtATime
  <2> QED
    BY <2>2, <2>4, <2>5, FreshPipeline
<1>9. CASE AppendOutcome(p)
  <2>1. PICK k : k = Pipe("loop", {}, pipe[p].batch, NoOutcome)
    OBVIOUS
  <2>2. /\ pipe' = [pipe EXCEPT ![p] = k] /\ pipe[p].pc = "append"
        /\ LogOutcome(pipe[p].out)
        /\ UNCHANGED <<retryFor, claim>>
    BY <1>9, <2>1 DEF AppendOutcome
  <2>3. k.pc = "loop" /\ k.batch = pipe[p].batch
    BY <2>1, PipeFields
  <2>4. ProcessedIds' = ProcessedIds \cup {pipe[p].out.payment}
    BY <2>2, FieldTypes, ProcessedStep DEF IInv, TypeOK
  <2>5. Skips(k)'
    BY <2>2, <2>3, <2>4 DEF Fresh, Skips
  <2>6. \A o \in Orders : retryFor'[o] # None => retryFor'[o] \in ProcessedIds'
    BY <2>2, <2>4 DEF Fresh, WorksOn, OneAtATime
  <2> QED
    BY <2>2, <2>5, <2>6, FreshPipeline
<1>10. CASE EndRun(p)
  <2>1. PICK k : k = IdlePipe
    OBVIOUS
  <2>2. /\ pipe' = [pipe EXCEPT ![p] = k] /\ pipe[p].pc = "loop"
        /\ UNCHANGED <<retryFor, auditLog, claim>>
    BY <1>10, <2>1 DEF EndRun
  <2>3. k.pc = "idle"
    BY <2>1, PipeFields DEF IdlePipe
  <2>4. Skips(k)'
    BY <2>3 DEF Skips
  <2> QED
    BY <1>2, <2>2, <2>4, ProcessedFrame, FreshPipeline
<1>11. ~ PipelineDies(p) /\ \A x \in Payments, o \in Orders : ~ ResponseLost(p, x, o)
  BY <1>1 DEF PipelineDies, TornWrite, ResponseLost
<1> QED
  BY <1>3, <1>4, <1>5, <1>6, <1>7, <1>8, <1>9, <1>10, <1>11 DEF PipelineNext

\* Without faults, no step makes a payment that is logged one to be retried.
LEMMA NextFresh ==
    ASSUME OneAtATime, IInv, Fresh, [Next]_vars, faults' = faults PROVE Fresh'
<1> USE DEF razorpayVars, fileVars
<1>1. faults \in Nat /\ \A kind : ~ Fault(kind)
  BY ConstantsAssumption DEF IInv, TypeOK, Fault
<1>2. CASE RazorpayNext \/ Tick \/ (\E o \in Orders : RegisterManually(o)) \/ UNCHANGED vars
  BY <1>2, FreshFrame
     DEF RazorpayNext, Authorize, Capture, FailAttempt, Tick, RegisterManually, vars
<1>3. ASSUME NEW w \in Workers, WorkerNext(w) PROVE Fresh'
  <2> w \in Handlers
    BY DEF Handlers
  <2>1. ASSUME NEW e \in emitted, ClaimByEvent(w, e) PROVE Fresh'
    BY <2>1, FreshPop DEF ClaimByEvent
  <2>2. ASSUME NEW e \in emitted, RaiseOnEvent(w, e) \/ PassOverEvent(w, e) PROVE Fresh'
    BY <2>2, FreshFrame DEF RaiseOnEvent, PopAndRaise, PassOverEvent
  <2>3. CASE AppendResolution(w)
    BY <2>3, FreshLog DEF AppendResolution
  <2>4. CASE LogEvent(w)
    BY <2>4, FreshFrame DEF LogEvent
  <2>5. ~ RequestDies(w)
    BY <1>1 DEF RequestDies, Killed, LockTimesOut, TornWrite
  <2> QED
    BY <1>3, <2>1, <2>2, <2>3, <2>4, <2>5 DEF WorkerNext, WorkerStep
<1>4. ASSUME NEW r \in Reconcilers, ReconcilerNext(r) PROVE Fresh'
  <2> r \in Handlers
    BY DEF Handlers
  <2>1. CASE ClaimByPoll(r)
    BY <2>1, FreshPop DEF ClaimByPoll
  <2>2. CASE RaiseOnPoll(r)
    BY <2>2, FreshFrame DEF RaiseOnPoll, PopAndRaise
  <2>3. CASE Resolve(r)
    BY <2>3, FreshLog DEF Resolve
  <2>4. CASE BeginPass(r) \/ LoseRace(r) \/ EndPass(r) \/ \E o \in Orders : CheckOrder(r, o)
    BY <2>4, FreshFrame DEF BeginPass, LoseRace, EndPass, CheckOrder
  <2>5. ~ ResolveTimesOut(r) /\ ~ ReconcilerDies(r)
    BY <1>1 DEF ResolveTimesOut, ReconcilerDies, Killed, LockTimesOut, TornWrite
  <2> QED
    BY <1>4, <2>1, <2>2, <2>3, <2>4, <2>5 DEF ReconcilerNext, ReconcilerStep
<1> QED
  BY <1>2, <1>3, <1>4, FreshRun DEF Next

\* An order that does not exist retries nothing.
Unmade == \A o \in Orders : status[o] = "absent" => retryFor[o] = None

\* Only the creation of an order says what it retries.
LEMMA RetryForStep ==
    ASSUME [Next]_vars
    PROVE  \/ retryFor' = retryFor
           \/ \E p \in Pipelines, x \in Payments, o \in Orders :
                CreateOrder(p, x, o) \/ ResponseLost(p, x, o)
<1> USE DEF razorpayVars
<1>1. ASSUME NEW p \in Pipelines, PipelineNext(p)
      PROVE  \/ retryFor' = retryFor
             \/ \E x \in Payments, o \in Orders : CreateOrder(p, x, o) \/ ResponseLost(p, x, o)
  BY <1>1 DEF PipelineNext, StartRun, FetchBatch, AddPending, AppendOutcome, EndRun,
              PipelineDies, Simulate, InitiationFails
<1>2. \A w \in Workers : WorkerNext(w) => retryFor' = retryFor
  BY DEF WorkerNext, WorkerStep, ClaimByEvent, RaiseOnEvent, PassOverEvent,
         AppendResolution, LogEvent, RequestDies
<1>3. \A r \in Reconcilers : ReconcilerNext(r) => retryFor' = retryFor
  BY DEF ReconcilerNext, ReconcilerStep, BeginPass, CheckOrder, ClaimByPoll,
         RaiseOnPoll, LoseRace, Resolve, EndPass, ResolveTimesOut, ReconcilerDies
<1>4. CASE RazorpayNext \/ Tick \/ (\E o \in Orders : RegisterManually(o)) \/ UNCHANGED vars
  BY <1>4 DEF RazorpayNext, Authorize, Capture, FailAttempt, Tick, RegisterManually, vars
<1> QED
  BY <1>1, <1>2, <1>3, <1>4 DEF Next

\* Every step keeps it so.
LEMMA NextUnmade == ASSUME TypeOK, Unmade, [Next]_vars PROVE Unmade'
<1>1. CASE retryFor' = retryFor
  BY <1>1, WorldGrows DEF Unmade
<1>2. ASSUME NEW x, NEW o \in Orders, NewOrder(x, o) PROVE Unmade'
  BY <1>2 DEF NewOrder, Unmade, TypeOK
<1> QED
  BY <1>1, <1>2, RetryForStep DEF CreateOrder, ResponseLost

\* The only step that makes a retry order without a fault makes it for a payment
\* that is not logged.
LEMMA NextNeverRetries ==
    ASSUME OneAtATime, IInv, Fresh, Unmade, [Next]_vars, faults' = faults,
           NEW o \in Orders, status[o] = "absent", retryFor'[o] # None
    PROVE  retryFor'[o] \notin ProcessedIds
<1>1. retryFor' # retryFor
  BY DEF Unmade
<1>2. ASSUME NEW p \in Pipelines, NEW x \in Payments, NEW u \in Orders, ResponseLost(p, x, u)
      PROVE  FALSE
  BY <1>2, ConstantsAssumption DEF ResponseLost, Fault, IInv, TypeOK
<1>3. PICK p \in Pipelines, x \in Payments, u \in Orders : CreateOrder(p, x, u)
  BY <1>1, <1>2, RetryForStep
<1>4. retryFor'[o] = x
  BY <1>3 DEF CreateOrder, NewOrder, Unmade, IInv, TypeOK
<1>5. x \notin ProcessedIds
  BY <1>3 DEF CreateOrder, Take, Fresh, Skips
<1> QED
  BY <1>4, <1>5

\* A step counts at most one fault.
LEMMA FaultsGrow ==
    ASSUME TypeOK, [Next]_vars PROVE faults' = faults \/ faults' = faults + 1
<1>1. ASSUME NEW p \in Pipelines, PipelineNext(p)
      PROVE  faults' = faults \/ faults' = faults + 1
  BY <1>1 DEF PipelineNext, StartRun, FetchBatch, AddPending, AppendOutcome, EndRun,
              PipelineDies, TornWrite, Fault, Simulate, InitiationFails, CreateOrder, ResponseLost
<1>2. ASSUME NEW w \in Workers, WorkerNext(w) PROVE faults' = faults \/ faults' = faults + 1
  BY <1>2 DEF WorkerNext, WorkerStep, ClaimByEvent, RaiseOnEvent, PassOverEvent,
              AppendResolution, LogEvent, RequestDies, Killed, LockTimesOut, TornWrite, Fault
<1>3. ASSUME NEW r \in Reconcilers, ReconcilerNext(r)
      PROVE  faults' = faults \/ faults' = faults + 1
  BY <1>3 DEF ReconcilerNext, ReconcilerStep, BeginPass, CheckOrder, ClaimByPoll, RaiseOnPoll,
              LoseRace, Resolve, EndPass, ResolveTimesOut, ReconcilerDies, Killed,
              LockTimesOut, TornWrite, Fault
<1>4. CASE RazorpayNext \/ Tick \/ (\E o \in Orders : RegisterManually(o)) \/ UNCHANGED vars
  BY <1>4 DEF RazorpayNext, Authorize, Capture, FailAttempt, Tick, RegisterManually, vars
<1> QED
  BY <1>1, <1>2, <1>3, <1>4 DEF Next

\* As long as nothing fails and no two runs overlap, a payment that the audit log
\* has an entry of is never retried.
THEOREM NeverRetriesLogged ==
    ASSUME OneAtATime PROVE Spec => NeverRetriesLoggedPayment
<1> DEFINE Inv == Unmade /\ (faults = 0 => Fresh)
           Step == \A o \in Orders :
                     faults' = 0 /\ status[o] = "absent" /\ retryFor'[o] # None
                       => \A i \in DOMAIN auditLog : auditLog[i].payment # retryFor'[o]
<1>1. Init => Inv
  BY DEF Init, Unmade, Fresh, Skips, IdlePipe, Pipe
<1>2. ASSUME IInv, [Next]_vars, faults' = 0 PROVE faults' = faults
  BY <1>2, FaultsGrow, ConstantsAssumption DEF IInv, TypeOK
<1>3. IInv /\ Inv /\ [Next]_vars => Inv'
  BY <1>2, NextFresh, NextUnmade DEF IInv
<1>4. IInv /\ Inv /\ [Next]_vars => [Step]_vars
  BY <1>2, NextNeverRetries DEF ProcessedIds
<1> QED
  BY <1>1, <1>3, <1>4, Invariance, PTL DEF Spec, NeverRetriesLoggedPayment

-----------------------------------------------------------------------------
(* Overlapping runs and faults *)

OrdersFor(x) == {o \in Orders : retryFor[o] = x}

\* A pipeline of record q may still make a retry order for payment x.
May(q, x) == \/ q.pc = "fetch" /\ x \notin q.seen
             \/ q.pc \in {"loop", "register", "append"} /\ x \in q.batch

MayRetry(x) == {p \in Pipelines : May(pipe[p], x)}

Busy(x) == {p \in Pipelines : WorksOn(pipe[p], x)}

\* Of a payment that is not logged, every order is the work of a run under way,
\* or of one that failed; once it is logged, only the runs that read the log
\* before that may add one each.
Within(O, P, W, logged, f) ==
    IF logged THEN Cardinality(O) + Cardinality(P) <= Cardinality(Pipelines) + f
              ELSE Cardinality(O) <= Cardinality(W) + f

Bounded ==
    \A x \in Payments :
        /\ IsFiniteSet(OrdersFor(x))
        /\ MayRetry(x) \cap Busy(x) = {}
        /\ Within(OrdersFor(x), MayRetry(x), Busy(x), x \in ProcessedIds, faults)

\* The sizes of sets of pipelines.
LEMMA PipelineSets ==
    ASSUME IsFiniteSet(Pipelines), NEW S, S \subseteq Pipelines
    PROVE  IsFiniteSet(S) /\ Cardinality(S) \in Nat /\ Cardinality(Pipelines) \in Nat
           /\ Cardinality(S) <= Cardinality(Pipelines)
BY FS_Subset, FS_CardinalityType

\* A step that takes no more chances, and no pipeline from its work, keeps the bound.
LEMMA WithinStays ==
    ASSUME IsFiniteSet(Pipelines), NEW O, IsFiniteSet(O), NEW P, NEW Q, NEW W, NEW V,
           P \subseteq Pipelines, V \subseteq Pipelines, Q \subseteq P, W \subseteq V,
           NEW logged \in BOOLEAN, NEW f \in Nat, NEW g \in Nat, f <= g,
           Within(O, P, W, logged, f)
    PROVE  Within(O, Q, V, logged, g)
<1>1. Cardinality(O) \in Nat /\ Cardinality(Pipelines) \in Nat
  BY FS_CardinalityType
<1>2. IsFiniteSet(P) /\ IsFiniteSet(V) /\ Cardinality(P) \in Nat /\ Cardinality(V) \in Nat
  BY PipelineSets
<1>3. /\ Cardinality(Q) \in Nat /\ Cardinality(Q) <= Cardinality(P)
      /\ Cardinality(W) \in Nat /\ Cardinality(W) <= Cardinality(V)
  BY <1>2, FS_Subset, FS_CardinalityType
<1> QED
  BY <1>1, <1>2, <1>3 DEF Within

\* A step that logs the payment leaves the busy runs no chance of a second order.
LEMMA WithinLogged ==
    ASSUME IsFiniteSet(Pipelines), NEW O, IsFiniteSet(O), NEW P, NEW Q, NEW W,
           P \subseteq Pipelines, W \subseteq Pipelines, Q \subseteq P, P \cap W = {},
           NEW f \in Nat, Within(O, P, W, FALSE, f)
    PROVE  Within(O, Q, W, TRUE, f)
<1>1. Cardinality(O) \in Nat /\ Cardinality(Pipelines) \in Nat
  BY FS_CardinalityType
<1>2. /\ IsFiniteSet(P) /\ Cardinality(P) \in Nat
      /\ IsFiniteSet(W) /\ Cardinality(W) \in Nat
  BY PipelineSets
<1>3. Cardinality(Q) \in Nat /\ Cardinality(Q) <= Cardinality(P)
  BY <1>2, FS_Subset, FS_CardinalityType
<1>4. Cardinality(P \cup W) = Cardinality(P) + Cardinality(W)
  <2>1. Cardinality(P \cup W) = Cardinality(P) + Cardinality(W) - Cardinality(P \cap W)
    BY <1>2, FS_Union
  <2>2. Cardinality(P \cap W) = 0
    BY FS_EmptySet
  <2> QED
    BY <1>2, <2>1, <2>2
<1>5. Cardinality(P \cup W) <= Cardinality(Pipelines)
  BY PipelineSets
<1> QED
  BY <1>1, <1>2, <1>3, <1>4, <1>5 DEF Within

\* One more element is at most one more.
LEMMA OneMore ==
    ASSUME NEW S, IsFiniteSet(S), NEW e
    PROVE  /\ IsFiniteSet(S \cup {e})
           /\ Cardinality(S) \in Nat /\ Cardinality(S \cup {e}) \in Nat
           /\ Cardinality(S \cup {e}) <= Cardinality(S) + 1
           /\ e \notin S => Cardinality(S \cup {e}) = Cardinality(S) + 1
<1> DEFINE c == Cardinality(S)
           d == Cardinality(S \cup {e})
<1>1. IsFiniteSet(S \cup {e}) /\ d = IF e \in S THEN c ELSE c + 1
  BY FS_AddElement
<1>2. c \in Nat
  BY FS_CardinalityType
<1> HIDE DEF c, d
<1>3. d \in Nat /\ d <= c + 1 /\ (e \notin S => d = c + 1)
  BY <1>1, <1>2
<1> QED
  BY <1>1, <1>2, <1>3 DEF c, d

\* A fault gives one run another chance, or takes it from its work.
LEMMA WithinFails ==
    ASSUME IsFiniteSet(Pipelines), NEW O, IsFiniteSet(O), NEW P, NEW Q, NEW W, NEW V,
           NEW p \in Pipelines, P \subseteq Pipelines, V \subseteq Pipelines,
           Q \subseteq P \cup {p}, W \subseteq V \cup {p},
           NEW logged \in BOOLEAN, NEW f \in Nat, Within(O, P, W, logged, f)
    PROVE  Within(O, Q, V, logged, f + 1)
<1>1. Cardinality(O) \in Nat /\ Cardinality(Pipelines) \in Nat
  BY FS_CardinalityType
<1>2. ASSUME NEW S, NEW T, S \subseteq Pipelines, T \subseteq S \cup {p}
      PROVE  /\ Cardinality(S) \in Nat /\ Cardinality(T) \in Nat
             /\ Cardinality(T) <= Cardinality(S) + 1
  <2> DEFINE c == Cardinality(S)
             d == Cardinality(S \cup {p})
             t == Cardinality(T)
  <2>1. IsFiniteSet(S) /\ c \in Nat
    BY <1>2, PipelineSets
  <2>2. IsFiniteSet(S \cup {p}) /\ d = IF p \in S THEN c ELSE c + 1
    BY <2>1, FS_AddElement
  <2>3. d \in Nat /\ t \in Nat /\ t <= d
    BY <1>2, <2>2, FS_Subset, FS_CardinalityType
  <2> HIDE DEF c, d, t
  <2>4. t <= c + 1
    BY <2>1, <2>2, <2>3
  <2> QED
    BY <2>1, <2>3, <2>4 DEF c, t
<1>3. Cardinality(P) \in Nat /\ Cardinality(Q) \in Nat /\ Cardinality(Q) <= Cardinality(P) + 1
  BY <1>2
<1>4. Cardinality(V) \in Nat /\ Cardinality(W) \in Nat /\ Cardinality(W) <= Cardinality(V) + 1
  BY <1>2
<1> QED
  BY <1>1, <1>3, <1>4 DEF Within

\* A step that makes no order.
LEMMA BoundedStays ==
    ASSUME IsFiniteSet(Pipelines), TypeOK, Bounded,
           retryFor' = retryFor, faults' = faults \/ faults' = faults + 1,
           ProcessedIds \subseteq ProcessedIds',
           \A x \in Payments :
             /\ MayRetry(x)' \cap Busy(x)' = {}
             /\ x \in ProcessedIds' => MayRetry(x)' \subseteq MayRetry(x)
             /\ x \notin ProcessedIds' => Busy(x) \subseteq Busy(x)'
    PROVE  Bounded'
<1> SUFFICES ASSUME NEW x \in Payments
             PROVE  Within(OrdersFor(x)', MayRetry(x)', Busy(x)', x \in ProcessedIds', faults')
                    /\ IsFiniteSet(OrdersFor(x))'
  BY DEF Bounded, Within
<1> PICK O, P, W, Q, V : /\ O = OrdersFor(x) /\ P = MayRetry(x) /\ W = Busy(x)
                         /\ Q = MayRetry(x)' /\ V = Busy(x)'
  OBVIOUS
<1>1. /\ IsFiniteSet(O) /\ OrdersFor(x)' = O
      /\ P \subseteq Pipelines /\ W \subseteq Pipelines
      /\ Q \subseteq Pipelines /\ V \subseteq Pipelines /\ P \cap W = {}
  BY DEF Bounded, MayRetry, Busy, OrdersFor
<1> PICK f, g : f = faults /\ g = faults'
  OBVIOUS
<1>2. f \in Nat /\ g \in Nat /\ f <= g /\ Within(O, P, W, x \in ProcessedIds, f)
  BY DEF TypeOK, Bounded
<1>3. CASE x \in ProcessedIds
  <2>1. x \in ProcessedIds' /\ Q \subseteq P /\ Within(O, P, V, TRUE, f)
    BY <1>2, <1>3 DEF Within
  <2>2. Within(O, Q, V, TRUE, g)
    BY <1>1, <1>2, <2>1, WithinStays
  <2> QED
    BY <1>1, <2>1, <2>2 DEF Within
<1>4. CASE x \notin ProcessedIds /\ x \in ProcessedIds'
  <2>1. Q \subseteq P /\ Within(O, P, W, FALSE, f)
    BY <1>2, <1>4 DEF Within
  <2>2. Within(O, Q, W, TRUE, f)
    BY <1>1, <1>2, <2>1, WithinLogged
  <2>3. Within(O, Q, V, TRUE, f) /\ Q \subseteq Q /\ V \subseteq V
    BY <2>2 DEF Within
  <2>4. Within(O, Q, V, TRUE, g)
    BY <1>1, <1>2, <2>3, WithinStays
  <2> QED
    BY <1>1, <1>4, <2>4 DEF Within
<1>5. CASE x \notin ProcessedIds'
  <2>1. x \notin ProcessedIds /\ W \subseteq V /\ Within(O, Q, W, FALSE, f)
    BY <1>2, <1>5 DEF Within
  <2>2. Within(O, Q, V, FALSE, g)
    BY <1>1, <1>2, <2>1, WithinStays
  <2> QED
    BY <1>1, <1>5, <2>2 DEF Within
<1> QED
  BY <1>3, <1>4, <1>5

\* A step that a fault of pipeline p, or of no pipeline, explains.
LEMMA BoundedFails ==
    ASSUME IsFiniteSet(Pipelines), TypeOK, Bounded, NEW p \in Pipelines,
           retryFor' = retryFor, faults' = faults + 1, ProcessedIds' = ProcessedIds,
           \A x \in Payments :
             /\ MayRetry(x)' \cap Busy(x)' = {}
             /\ MayRetry(x)' \subseteq MayRetry(x) \cup {p}
             /\ Busy(x) \subseteq Busy(x)' \cup {p}
    PROVE  Bounded'
<1> SUFFICES ASSUME NEW x \in Payments
             PROVE  Within(OrdersFor(x)', MayRetry(x)', Busy(x)', x \in ProcessedIds', faults')
                    /\ IsFiniteSet(OrdersFor(x))'
  BY DEF Bounded, Within
<1> PICK O, P, W, Q, V : /\ O = OrdersFor(x) /\ P = MayRetry(x) /\ W = Busy(x)
                         /\ Q = MayRetry(x)' /\ V = Busy(x)'
  OBVIOUS
<1>1. /\ IsFiniteSet(O) /\ OrdersFor(x)' = O
      /\ P \subseteq Pipelines /\ V \subseteq Pipelines
      /\ Q \subseteq P \cup {p} /\ W \subseteq V \cup {p}
  BY DEF Bounded, MayRetry, Busy, OrdersFor
<1>2. PICK logged \in BOOLEAN : logged <=> x \in ProcessedIds
  OBVIOUS
<1>3. faults \in Nat /\ Within(O, P, W, logged, faults)
  BY <1>2 DEF TypeOK, Bounded, Within
<1>4. Within(O, Q, V, logged, faults + 1)
  BY <1>1, <1>3, WithinFails
<1> QED
  BY <1>1, <1>2, <1>4 DEF Within

\* A run that makes an order, whether or not it hears of it.
LEMMA BoundedCreates ==
    ASSUME IsFiniteSet(Pipelines), TypeOK, Bounded, NEW p \in Pipelines,
           NEW x \in Payments, NEW o \in Orders,
           retryFor' = [retryFor EXCEPT ![o] = x], retryFor[o] = None,
           faults' = faults \/ faults' = faults + 1, ProcessedIds' = ProcessedIds,
           p \in MayRetry(x), p \notin Busy(x),
           MayRetry(x)' = MayRetry(x) \ {p}, Busy(x)' = Busy(x) \cup {p},
           \A y \in Payments \ {x} : MayRetry(y)' = MayRetry(y) /\ Busy(y)' = Busy(y)
    PROVE  Bounded'
<1>1. /\ OrdersFor(x)' = OrdersFor(x) \cup {o}
      /\ \A y \in Payments \ {x} : OrdersFor(y)' = OrdersFor(y)
  BY ConstantsAssumption DEF OrdersFor, TypeOK
<1>2. faults \in Nat /\ faults' \in Nat /\ faults <= faults'
  BY DEF TypeOK
<1>3. ASSUME NEW y \in Payments
      PROVE  /\ MayRetry(y) \subseteq Pipelines /\ Busy(y) \subseteq Pipelines
             /\ IsFiniteSet(OrdersFor(y))
             /\ MayRetry(y) \cap Busy(y) = {}
             /\ Within(OrdersFor(y), MayRetry(y), Busy(y), y \in ProcessedIds, faults)
  BY DEF Bounded, MayRetry, Busy
<1>4. ASSUME NEW y \in Payments \ {x}
      PROVE  /\ IsFiniteSet(OrdersFor(y)')
             /\ MayRetry(y)' \cap Busy(y)' = {}
             /\ Within(OrdersFor(y)', MayRetry(y)', Busy(y)', y \in ProcessedIds', faults')
  <2>1. PICK logged \in BOOLEAN : logged <=> y \in ProcessedIds
    OBVIOUS
  <2>2. Within(OrdersFor(y), MayRetry(y), Busy(y), logged, faults)
    BY <1>3, <2>1 DEF Within
  <2>3. Within(OrdersFor(y), MayRetry(y), Busy(y), logged, faults')
    <3> PICK O, P, W, f, g : /\ O = OrdersFor(y) /\ P = MayRetry(y) /\ W = Busy(y)
                             /\ f = faults /\ g = faults'
      OBVIOUS
    <3>1. /\ P \subseteq P /\ W \subseteq W /\ P \subseteq Pipelines /\ W \subseteq Pipelines
          /\ IsFiniteSet(O) /\ f \in Nat /\ g \in Nat /\ f <= g /\ Within(O, P, W, logged, f)
      BY <1>2, <1>3, <2>2
    <3>2. Within(O, P, W, logged, g)
      BY <3>1, WithinStays
    <3> QED
      BY <3>2
  <2> QED
    BY <1>1, <1>3, <2>1, <2>3 DEF Within
<1>5. /\ IsFiniteSet(OrdersFor(x)')
      /\ MayRetry(x)' \cap Busy(x)' = {}
      /\ Within(OrdersFor(x)', MayRetry(x)', Busy(x)', x \in ProcessedIds', faults')
  <2>1. PICK logged \in BOOLEAN : logged <=> x \in ProcessedIds
    OBVIOUS
  <2>2. Within(OrdersFor(x), MayRetry(x), Busy(x), logged, faults)
    BY <1>3, <2>1 DEF Within
  <2>3. Within(OrdersFor(x) \cup {o}, MayRetry(x) \ {p}, Busy(x) \cup {p}, logged, faults')
    <3>1. /\ Cardinality(OrdersFor(x)) \in Nat
          /\ Cardinality(OrdersFor(x) \cup {o}) \in Nat
          /\ Cardinality(OrdersFor(x) \cup {o}) <= Cardinality(OrdersFor(x)) + 1
      BY <1>3, OneMore
    <3>2. /\ IsFiniteSet(MayRetry(x)) /\ Cardinality(MayRetry(x)) \in Nat
          /\ IsFiniteSet(Busy(x)) /\ Cardinality(Busy(x)) \in Nat
          /\ Cardinality(Pipelines) \in Nat
      BY <1>3, PipelineSets
    <3>3. Cardinality(MayRetry(x) \ {p}) = Cardinality(MayRetry(x)) - 1
      BY <3>2, FS_RemoveElement
    <3>4. Cardinality(Busy(x) \cup {p}) = Cardinality(Busy(x)) + 1
      BY <3>2, OneMore
    <3> QED
      BY <1>2, <2>2, <3>1, <3>2, <3>3, <3>4 DEF Within
  <2>4. IsFiniteSet(OrdersFor(x) \cup {o})
    BY <1>3, OneMore
  <2> QED
    BY <1>1, <1>3, <2>1, <2>3, <2>4 DEF Within
<1> QED
  BY <1>4, <1>5 DEF Bounded

\* Where the step of a pipeline leaves the runs that may retry and those at work.
LEMMA RunMoves ==
    ASSUME TypeOK, NEW p \in Pipelines, NEW k, pipe' = [pipe EXCEPT ![p] = k]
    PROVE  \A q \in Pipelines, x \in Payments :
             /\ q \in MayRetry(x)' <=> IF q = p THEN May(k, x) ELSE q \in MayRetry(x)
             /\ q \in Busy(x)' <=> IF q = p THEN WorksOn(k, x) ELSE q \in Busy(x)
<1>1. \A q \in Pipelines : pipe'[q] = IF q = p THEN k ELSE pipe[q]
  BY DEF TypeOK
<1> QED
  BY <1>1 DEF MayRetry, Busy, May, WorksOn

\* A pipeline's step that makes no order and is no fault.
LEMMA RunStays ==
    ASSUME IsFiniteSet(Pipelines), TypeOK, Bounded, NEW p \in Pipelines, NEW k,
           pipe' = [pipe EXCEPT ![p] = k],
           retryFor' = retryFor, faults' = faults, ProcessedIds \subseteq ProcessedIds',
           \A x \in Payments :
             /\ ~ (May(k, x) /\ WorksOn(k, x))
             /\ x \in ProcessedIds' /\ May(k, x) => May(pipe[p], x)
             /\ x \notin ProcessedIds' /\ WorksOn(pipe[p], x) => WorksOn(k, x)
    PROVE  Bounded'
<1>1. \A q \in Pipelines, x \in Payments :
        /\ q \in MayRetry(x)' <=> IF q = p THEN May(k, x) ELSE q \in MayRetry(x)
        /\ q \in Busy(x)' <=> IF q = p THEN WorksOn(k, x) ELSE q \in Busy(x)
  BY RunMoves
<1>2. \A x \in Payments : /\ MayRetry(x)' \subseteq Pipelines /\ Busy(x)' \subseteq Pipelines
                          /\ Busy(x) \subseteq Pipelines
                          /\ MayRetry(x) \cap Busy(x) = {}
                          /\ p \in MayRetry(x) <=> May(pipe[p], x)
                          /\ p \in Busy(x) <=> WorksOn(pipe[p], x)
  BY DEF MayRetry, Busy, Bounded
<1>3. ASSUME NEW x \in Payments
      PROVE  /\ MayRetry(x)' \cap Busy(x)' = {}
             /\ x \in ProcessedIds' => MayRetry(x)' \subseteq MayRetry(x)
             /\ x \notin ProcessedIds' => Busy(x) \subseteq Busy(x)'
  BY <1>1, <1>2
<1> QED
  BY <1>3, BoundedStays

\* A pipeline's step that is a fault and makes no order.
LEMMA RunFails ==
    ASSUME IsFiniteSet(Pipelines), TypeOK, Bounded, NEW p \in Pipelines, NEW k,
           pipe' = [pipe EXCEPT ![p] = k],
           retryFor' = retryFor, faults' = faults + 1, ProcessedIds' = ProcessedIds,
           \A x \in Payments : ~ (May(k, x) /\ WorksOn(k, x))
    PROVE  Bounded'
<1>1. \A q \in Pipelines, x \in Payments :
        /\ q \in MayRetry(x)' <=> IF q = p THEN May(k, x) ELSE q \in MayRetry(x)
        /\ q \in Busy(x)' <=> IF q = p THEN WorksOn(k, x) ELSE q \in Busy(x)
  BY RunMoves
<1>2. \A x \in Payments : /\ MayRetry(x)' \subseteq Pipelines /\ Busy(x)' \subseteq Pipelines
                          /\ Busy(x) \subseteq Pipelines
                          /\ MayRetry(x) \cap Busy(x) = {}
  BY DEF MayRetry, Busy, Bounded
<1>3. ASSUME NEW x \in Payments
      PROVE  /\ MayRetry(x)' \cap Busy(x)' = {}
             /\ MayRetry(x)' \subseteq MayRetry(x) \cup {p}
             /\ Busy(x) \subseteq Busy(x)' \cup {p}
  BY <1>1, <1>2
<1> QED
  BY <1>3, BoundedFails

\* A pipeline's step that makes an order for a payment of its records.
LEMMA RunCreates ==
    ASSUME IsFiniteSet(Pipelines), TypeOK, Bounded, Unmade, NEW p \in Pipelines,
           NEW x \in Payments, NEW o \in Orders, NewOrder(x, o),
           NEW pc \in {"register", "append"}, NEW e, e.payment = x, Take(p, x, pc, e),
           faults' = faults \/ faults' = faults + 1, auditLog' = auditLog
    PROVE  Bounded'
<1>1. PICK k : k = Pipe(pc, {}, pipe[p].batch \ {x}, e)
  OBVIOUS
<1>2. /\ pipe[p].pc = "loop" /\ x \in pipe[p].batch
      /\ pipe' = [pipe EXCEPT ![p] = k]
  BY <1>1 DEF Take
<1>3. k.pc = pc /\ k.batch = pipe[p].batch \ {x} /\ k.out = e
  BY <1>1, PipeFields
<1>4. \A y \in Payments : /\ May(k, y) <=> May(pipe[p], y) /\ y # x
                          /\ WorksOn(k, y) <=> y = x
                          /\ ~ WorksOn(pipe[p], y)
  BY <1>2, <1>3 DEF May, WorksOn
<1>5. \A q \in Pipelines, y \in Payments :
        /\ q \in MayRetry(y)' <=> IF q = p THEN May(k, y) ELSE q \in MayRetry(y)
        /\ q \in Busy(y)' <=> IF q = p THEN WorksOn(k, y) ELSE q \in Busy(y)
  BY <1>2, RunMoves
<1>6. \A y \in Payments : /\ MayRetry(y)' \subseteq Pipelines /\ Busy(y)' \subseteq Pipelines
                          /\ MayRetry(y) \subseteq Pipelines /\ Busy(y) \subseteq Pipelines
                          /\ p \in MayRetry(y) <=> May(pipe[p], y)
                          /\ p \in Busy(y) <=> WorksOn(pipe[p], y)
  BY DEF MayRetry, Busy
<1>7. p \in MayRetry(x) /\ p \notin Busy(x)
  BY <1>2, <1>4, <1>6 DEF May
<1>8. MayRetry(x)' = MayRetry(x) \ {p} /\ Busy(x)' = Busy(x) \cup {p}
  BY <1>4, <1>5, <1>6
<1>9. \A y \in Payments \ {x} : MayRetry(y)' = MayRetry(y) /\ Busy(y)' = Busy(y)
  <2> SUFFICES ASSUME NEW y \in Payments \ {x}
               PROVE  MayRetry(y)' = MayRetry(y) /\ Busy(y)' = Busy(y)
    OBVIOUS
  <2>1. \A q \in Pipelines : /\ q \in MayRetry(y)' <=> q \in MayRetry(y)
                             /\ q \in Busy(y)' <=> q \in Busy(y)
    <3>1. \A q \in Pipelines : q # p => /\ q \in MayRetry(y)' <=> q \in MayRetry(y)
                                        /\ q \in Busy(y)' <=> q \in Busy(y)
      BY <1>5
    <3>2. /\ p \in MayRetry(y)' <=> p \in MayRetry(y)
          /\ p \in Busy(y)' <=> p \in Busy(y)
      BY <1>4, <1>5, <1>6
    <3> QED BY <3>1, <3>2
  <2>2. /\ MayRetry(y)' \subseteq Pipelines /\ Busy(y)' \subseteq Pipelines
        /\ MayRetry(y) \subseteq Pipelines /\ Busy(y) \subseteq Pipelines
    BY <1>6
  <2> QED BY ONLY <2>1, <2>2
<1>10. retryFor' = [retryFor EXCEPT ![o] = x] /\ retryFor[o] = None
  BY DEF NewOrder, Unmade
<1> QED
  BY <1>7, <1>8, <1>9, <1>10, ProcessedFrame, BoundedCreates

\* What is processed stays so, unless a write of the log is torn.
LEMMA ProcessedGrows ==
    ASSUME NoTornWrites, TypeOK, [Next]_vars PROVE ProcessedIds \subseteq ProcessedIds'
<1>1. auditLog \in Seq(Outcomes)
  BY DEF TypeOK
<1>2. auditLog' = auditLog \/ \E e : auditLog' = Append(auditLog, e)
  BY LogUntorn DEF LogOutcome
<1>3. \A i \in DOMAIN auditLog : i \in DOMAIN auditLog' /\ auditLog'[i] = auditLog[i]
  BY <1>1, <1>2
<1> QED
  BY <1>3 DEF ProcessedIds

\* A run of the pipeline makes one order for a payment at most, unless it fails.
LEMMA BoundedRun ==
    ASSUME IsFiniteSet(Pipelines), NoTornWrites, IInv, Unmade, Bounded,
           NEW p \in Pipelines, PipelineNext(p)
    PROVE  Bounded'
<1> USE DEF razorpayVars, fileVars
<1> TypeOK
  BY DEF IInv
<1>1. \A pc, seen, batch, e : \A y \in Payments :
        LET k == Pipe(pc, seen, batch, e) IN
        /\ May(k, y) <=> \/ pc = "fetch" /\ y \notin seen
                         \/ pc \in {"loop", "register", "append"} /\ y \in batch
        /\ WorksOn(k, y) <=> pc \in {"register", "append"} /\ e.payment = y
  BY PipeFields DEF May, WorksOn
<1>2. CASE StartRun(p) /\ faults' = faults
  <2>1. PICK k : k = Pipe("fetch", ProcessedIds, {}, NoOutcome)
    OBVIOUS
  <2>2. /\ pipe' = [pipe EXCEPT ![p] = k] /\ pipe[p].pc = "idle"
        /\ UNCHANGED <<retryFor, auditLog, faults>>
    BY <1>2, <2>1, ConstantsAssumption DEF StartRun, Fault, TypeOK
  <2>3. \A y \in Payments : (May(k, y) <=> y \notin ProcessedIds) /\ ~ WorksOn(k, y)
    BY <1>1, <2>1
  <2>4. \A y \in Payments : ~ WorksOn(pipe[p], y)
    BY <2>2 DEF WorksOn
  <2>5. ProcessedIds' = ProcessedIds
    BY <2>2, ProcessedFrame
  <2> QED
    BY <2>2, <2>3, <2>4, <2>5, RunStays
<1>3. CASE StartRun(p) /\ faults' # faults
  <2>1. PICK k : k = Pipe("fetch", {}, {}, NoOutcome)
    OBVIOUS
  <2>2. /\ pipe' = [pipe EXCEPT ![p] = k]
        /\ UNCHANGED <<retryFor, auditLog>> /\ faults' = faults + 1
    BY <1>3, <2>1 DEF StartRun, Fault
  <2>3. \A y \in Payments : ~ WorksOn(k, y)
    BY <1>1, <2>1
  <2> QED
    BY <2>2, <2>3, ProcessedFrame, RunFails
<1>4. CASE FetchBatch(p)
  <2>1. PICK got \in SUBSET rzpFailed :
          pipe' = [pipe EXCEPT ![p] =
                     Pipe("loop", {}, (got \cup Synthetic) \ pipe[p].seen, NoOutcome)]
    BY <1>4 DEF FetchBatch
  <2>2. PICK batch : batch = (got \cup Synthetic) \ pipe[p].seen
    OBVIOUS
  <2>3. PICK k : k = Pipe("loop", {}, batch, NoOutcome)
    OBVIOUS
  <2>4. /\ pipe' = [pipe EXCEPT ![p] = k] /\ pipe[p].pc = "fetch"
        /\ UNCHANGED <<retryFor, auditLog, faults>>
    BY <1>4, <2>1, <2>2, <2>3 DEF FetchBatch
  <2>5. \A y \in Payments : (May(k, y) <=> y \in batch) /\ ~ WorksOn(k, y)
    BY <1>1, <2>3
  <2>6. \A y \in Payments : (May(k, y) => May(pipe[p], y)) /\ ~ WorksOn(pipe[p], y)
    BY <2>2, <2>4, <2>5 DEF May, WorksOn
  <2>7. ProcessedIds' = ProcessedIds
    BY <2>4, ProcessedFrame
  <2> QED
    BY <2>4, <2>5, <2>6, <2>7, RunStays
<1>5. ASSUME NEW x \in Payments, Simulate(p, x) \/ InitiationFails(p, x) PROVE Bounded'
  <2>1. PICK e : e.payment = x /\ Take(p, x, "append", e)
    BY <1>5, OutcomeFields DEF Simulate, InitiationFails, InitiationFailed
  <2>2. PICK k : k = Pipe("append", {}, pipe[p].batch \ {x}, e)
    OBVIOUS
  <2>3. /\ pipe' = [pipe EXCEPT ![p] = k] /\ pipe[p].pc = "loop"
        /\ UNCHANGED <<retryFor, auditLog, faults>>
    BY <1>5, <2>1, <2>2 DEF Simulate, InitiationFails, Take
  <2>4. \A y \in Payments : /\ May(k, y) <=> y \in pipe[p].batch /\ y # x
                            /\ WorksOn(k, y) <=> y = x
    BY <1>1, <2>1, <2>2
  <2>5. \A y \in Payments : /\ y \in pipe[p].batch => May(pipe[p], y)
                            /\ ~ WorksOn(pipe[p], y)
    BY <2>3 DEF May, WorksOn
  <2>6. ProcessedIds' = ProcessedIds
    BY <2>3, ProcessedFrame
  <2>7. \A y \in Payments :
          /\ ~ (May(k, y) /\ WorksOn(k, y))
          /\ y \in ProcessedIds' /\ May(k, y) => May(pipe[p], y)
          /\ y \notin ProcessedIds' /\ WorksOn(pipe[p], y) => WorksOn(k, y)
    BY <2>4, <2>5
  <2> QED
    BY <2>3, <2>6, <2>7, RunStays
<1>6. ASSUME NEW x \in Payments, NEW o \in Orders, CreateOrder(p, x, o) PROVE Bounded'
  <2>1. PICK e : e.payment = x /\ Take(p, x, "register", e)
    BY <1>6, OutcomeFields DEF CreateOrder
  <2> QED
    BY <1>6, <2>1, RunCreates DEF CreateOrder
<1>7. ASSUME NEW x \in Payments, NEW o \in Orders, ResponseLost(p, x, o) PROVE Bounded'
  <2>1. PICK e : e.payment = x /\ Take(p, x, "append", e)
    BY <1>7, OutcomeFields DEF ResponseLost, InitiationFailed
  <2> QED
    BY <1>7, <2>1, RunCreates DEF ResponseLost, Fault
<1>8. CASE AddPending(p)
  <2>1. PICK k : k = Pipe("append", {}, pipe[p].batch, pipe[p].out)
    OBVIOUS
  <2>2. /\ pipe' = [pipe EXCEPT ![p] = k] /\ pipe[p].pc = "register"
        /\ UNCHANGED <<retryFor, auditLog, faults>>
    BY <1>8, <2>1 DEF AddPending
  <2>3. \A y \in Payments : /\ May(k, y) <=> y \in pipe[p].batch
                            /\ WorksOn(k, y) <=> pipe[p].out.payment = y
    BY <1>1, <2>1
  <2>4. \A y \in Payments : /\ May(k, y) <=> May(pipe[p], y)
                            /\ WorksOn(k, y) <=> WorksOn(pipe[p], y)
    BY <2>2, <2>3 DEF May, WorksOn
  <2>5. \A y \in Payments : ~ (May(pipe[p], y) /\ WorksOn(pipe[p], y))
    BY DEF Bounded, MayRetry, Busy
  <2>6. ProcessedIds' = ProcessedIds
    BY <2>2, ProcessedFrame
  <2>7. \A y \in Payments :
          /\ ~ (May(k, y) /\ WorksOn(k, y))
          /\ y \in ProcessedIds' /\ May(k, y) => May(pipe[p], y)
          /\ y \notin ProcessedIds' /\ WorksOn(pipe[p], y) => WorksOn(k, y)
    BY <2>4, <2>5
  <2> QED
    BY <2>2, <2>6, <2>7, RunStays
<1>9. CASE AppendOutcome(p)
  <2>1. PICK k : k = Pipe("loop", {}, pipe[p].batch, NoOutcome)
    OBVIOUS
  <2>2. /\ pipe' = [pipe EXCEPT ![p] = k] /\ pipe[p].pc = "append"
        /\ LogOutcome(pipe[p].out)
        /\ UNCHANGED <<retryFor, faults>>
    BY <1>9, <2>1 DEF AppendOutcome
  <2>3. \A y \in Payments : (May(k, y) <=> y \in pipe[p].batch) /\ ~ WorksOn(k, y)
    BY <1>1, <2>1
  <2>4. \A y \in Payments : /\ May(k, y) <=> May(pipe[p], y)
                            /\ WorksOn(pipe[p], y) => y = pipe[p].out.payment
    BY <2>2, <2>3 DEF May, WorksOn
  <2>5. ProcessedIds' = ProcessedIds \cup {pipe[p].out.payment}
    BY <2>2, FieldTypes, ProcessedStep DEF TypeOK
  <2>6. \A y \in Payments :
          /\ ~ (May(k, y) /\ WorksOn(k, y))
          /\ y \in ProcessedIds' /\ May(k, y) => May(pipe[p], y)
          /\ y \notin ProcessedIds' /\ WorksOn(pipe[p], y) => WorksOn(k, y)
    BY <2>3, <2>4, <2>5
  <2>7. ProcessedIds \subseteq ProcessedIds'
    BY <2>5
  <2> QED
    BY <2>2, <2>6, <2>7, RunStays
<1>10. \A y \in Payments : ~ May(IdlePipe, y) /\ ~ WorksOn(IdlePipe, y)
  BY <1>1 DEF IdlePipe
<1>11. CASE EndRun(p)
  <2>1. /\ pipe' = [pipe EXCEPT ![p] = IdlePipe] /\ pipe[p].pc = "loop"
        /\ UNCHANGED <<retryFor, auditLog, faults>>
    BY <1>11 DEF EndRun
  <2>2. \A y \in Payments : ~ WorksOn(pipe[p], y)
    BY <2>1 DEF WorksOn
  <2>3. ProcessedIds' = ProcessedIds
    BY <2>1, ProcessedFrame
  <2> QED
    BY <1>10, <2>1, <2>2, <2>3, RunStays
<1>12. CASE PipelineDies(p)
  <2>1. /\ pipe' = [pipe EXCEPT ![p] = IdlePipe]
        /\ UNCHANGED <<retryFor, auditLog>> /\ faults' = faults + 1
    BY <1>12 DEF PipelineDies, TornWrite, Fault, NoTornWrites
  <2> QED
    BY <1>10, <2>1, ProcessedFrame, RunFails
<1> QED
  BY <1>2, <1>3, <1>4, <1>5, <1>6, <1>7, <1>8, <1>9, <1>11, <1>12 DEF PipelineNext

\* Nobody else makes orders, nor starts runs.
LEMMA NextBounded ==
    ASSUME IsFiniteSet(Pipelines), NoTornWrites, IInv, Unmade, Bounded, [Next]_vars
    PROVE  Bounded'
<1> TypeOK
  BY DEF IInv
<1>1. ASSUME UNCHANGED <<pipe, retryFor>> PROVE Bounded'
  <2>1. \A x \in Payments : /\ MayRetry(x)' = MayRetry(x) /\ Busy(x)' = Busy(x)
                            /\ MayRetry(x) \cap Busy(x) = {}
    BY <1>1 DEF MayRetry, Busy, Bounded
  <2>2. ProcessedIds \subseteq ProcessedIds' /\ (faults' = faults \/ faults' = faults + 1)
    BY ProcessedGrows, FaultsGrow
  <2> QED
    BY <1>1, <2>1, <2>2, BoundedStays
<1>2. CASE RazorpayNext \/ Tick \/ (\E o \in Orders : RegisterManually(o)) \/ UNCHANGED vars
  BY <1>1, <1>2
     DEF RazorpayNext, Authorize, Capture, FailAttempt, Tick, RegisterManually, vars,
         razorpayVars
<1>3. ASSUME NEW w \in Workers, WorkerNext(w) PROVE UNCHANGED <<pipe, retryFor>>
  BY <1>3 DEF WorkerNext, WorkerStep, ClaimByEvent, RaiseOnEvent, PassOverEvent,
              AppendResolution, LogEvent, RequestDies, razorpayVars
<1>4. ASSUME NEW r \in Reconcilers, ReconcilerNext(r) PROVE UNCHANGED <<pipe, retryFor>>
  BY <1>4 DEF ReconcilerNext, ReconcilerStep, BeginPass, CheckOrder, ClaimByPoll, RaiseOnPoll,
              LoseRace, Resolve, EndPass, ResolveTimesOut, ReconcilerDies, razorpayVars
<1> QED
  BY <1>1, <1>2, <1>3, <1>4, BoundedRun DEF Next

\* As long as no write of the audit log is torn, a payment has no more retry orders
\* than there are overlapping runs of the pipeline, and one more per fault.
THEOREM RetriesBounded ==
    ASSUME IsFiniteSet(Pipelines), NoTornWrites PROVE Spec => []OrdersPerPayment
<1>1. Init => Unmade /\ Bounded
  <2> SUFFICES ASSUME Init PROVE Unmade /\ Bounded
    OBVIOUS
  <2>1. ASSUME NEW x \in Payments
        PROVE  OrdersFor(x) = {} /\ Busy(x) = {} /\ x \notin ProcessedIds /\ faults = 0
    BY <2>1, ConstantsAssumption
       DEF Init, OrdersFor, Busy, WorksOn, IdlePipe, Pipe, ProcessedIds
  <2>2. Bounded
    BY <2>1, FS_EmptySet DEF Bounded, Within
  <2> QED
    BY <2>2 DEF Init, Unmade
<1>2. IInv /\ Unmade /\ Bounded /\ [Next]_vars => (Unmade /\ Bounded)'
  BY NextBounded, NextUnmade DEF IInv
<1>3. IInv /\ Bounded => OrdersPerPayment
  <2> SUFFICES ASSUME IInv, Bounded, NEW x \in Payments
               PROVE  Cardinality(OrdersFor(x)) <= Cardinality(Pipelines) + faults
    BY DEF OrdersPerPayment, OrdersFor
  <2>1. /\ IsFiniteSet(OrdersFor(x)) /\ Cardinality(OrdersFor(x)) \in Nat
        /\ Within(OrdersFor(x), MayRetry(x), Busy(x), x \in ProcessedIds, faults)
    BY FS_CardinalityType DEF Bounded
  <2>2. /\ Cardinality(MayRetry(x)) \in Nat /\ Cardinality(Busy(x)) \in Nat
        /\ Cardinality(Pipelines) \in Nat /\ Cardinality(Busy(x)) <= Cardinality(Pipelines)
    BY PipelineSets DEF MayRetry, Busy
  <2>3. faults \in Nat
    BY DEF IInv, TypeOK
  <2> QED
    BY <2>1, <2>2, <2>3 DEF Within
<1> QED
  BY <1>1, <1>2, <1>3, Invariance, PTL DEF Spec

=============================================================================
