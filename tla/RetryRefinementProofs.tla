------------------------- MODULE RetryRefinementProofs -------------------------
(***************************************************************************)
(* RetryLifecycle implements PendingCase as long as no write of the audit  *)
(* log is torn, for any number of payments, orders, processes and faults.  *)
(***************************************************************************)
EXTENDS RetryRefinement, RetryLifecycleProofs

-----------------------------------------------------------------------------
(* Where the claims are *)

\* A worker's step keeps ClaimsPlaced if it ends in front of its append, or
\* without an outcome.
LEMMA PlacedWorker ==
    ASSUME TypeOK, ClaimsPlaced, NEW w \in Workers, NEW e, NEW pc, NEW v, NEW resolved,
           claim' = [claim EXCEPT ![w] = e],
           hook' = [hook EXCEPT ![w] = Hook(pc, v, resolved)],
           recon' = recon,
           e # NoOutcome => pc = "append"
    PROVE  ClaimsPlaced'
<1>1. Hook(pc, v, resolved).pc = pc
  BY DEF Hook
<1>2. \A r \in Reconcilers : r # w
  BY ConstantsAssumption
<1> QED
  BY <1>1, <1>2 DEF TypeOK, ClaimsPlaced, Handlers

\* A reconciler's step likewise.
LEMMA PlacedReconciler ==
    ASSUME TypeOK, ClaimsPlaced, NEW r \in Reconcilers, NEW e, NEW k,
           claim' = [claim EXCEPT ![r] = e],
           recon' = [recon EXCEPT ![r] = k],
           hook' = hook,
           e # NoOutcome => k.pc = "append"
    PROVE  ClaimsPlaced'
<1>1. \A w \in Workers : r # w
  BY ConstantsAssumption
<1> QED
  BY <1>1 DEF TypeOK, ClaimsPlaced, Handlers

\* Who holds nothing still holds nothing when it holds nothing again.
LEMMA NothingClaimed ==
    ASSUME TypeOK, NEW h \in Handlers, claim[h] = NoOutcome, claim' = claim
    PROVE  claim' = [claim EXCEPT ![h] = NoOutcome]
BY DEF TypeOK

\* Every step leaves what a handler holds in front of its append.
LEMMA NextPlaced == ASSUME TypeOK, ClaimsPlaced, [Next]_vars PROVE ClaimsPlaced'
<1>1. CASE UNCHANGED <<claim, hook, recon>>
  BY <1>1 DEF ClaimsPlaced
<1>2. CASE RazorpayNext \/ Tick \/ (\E u \in Orders : RegisterManually(u)) \/ UNCHANGED vars
  BY <1>1, <1>2 DEF RazorpayNext, Authorize, Capture, FailAttempt, Tick, RegisterManually,
                    vars
<1>3. ASSUME NEW p \in Pipelines, PipelineNext(p) PROVE ClaimsPlaced'
  BY <1>1, <1>3 DEF PipelineNext, StartRun, FetchBatch, AddPending, AppendOutcome, EndRun,
                    PipelineDies, Simulate, InitiationFails, CreateOrder, ResponseLost
<1>4. ASSUME NEW w \in Workers, WorkerNext(w) PROVE ClaimsPlaced'
  <2> w \in Handlers
    BY DEF Handlers
  <2>1. ASSUME NEW e \in emitted, ClaimByEvent(w, e) PROVE ClaimsPlaced'
    BY <2>1, PlacedWorker DEF ClaimByEvent, PopAndClaim
  <2>2. ASSUME NEW e \in emitted, RaiseOnEvent(w, e) PROVE ClaimsPlaced'
    BY <1>1, <2>2 DEF RaiseOnEvent, PopAndRaise
  <2>3. ASSUME NEW e \in emitted, PassOverEvent(w, e) PROVE ClaimsPlaced'
    <3>1. claim[w] = NoOutcome
      BY <2>3 DEF PassOverEvent, Receive, ClaimsPlaced
    <3> QED
      BY <2>3, <3>1, NothingClaimed, PlacedWorker DEF PassOverEvent
  <2>4. CASE AppendResolution(w)
    BY <2>4, PlacedWorker DEF AppendResolution, LogClaim
  <2>5. CASE LogEvent(w)
    <3>1. claim[w] = NoOutcome
      BY <2>5 DEF LogEvent, ClaimsPlaced
    <3> QED
      BY <2>5, <3>1, NothingClaimed, PlacedWorker DEF LogEvent, IdleHook
  <2>6. CASE RequestDies(w)
    BY <2>6, PlacedWorker DEF RequestDies, Killed, LockTimesOut, IdleHook
  <2> QED
    BY <1>4, <2>1, <2>2, <2>3, <2>4, <2>5, <2>6 DEF WorkerNext, WorkerStep
<1>5. ASSUME NEW r \in Reconcilers, ReconcilerNext(r) PROVE ClaimsPlaced'
  <2> r \in Handlers
    BY DEF Handlers
  <2>1. ASSUME NEW k, recon' = [recon EXCEPT ![r] = k], UNCHANGED <<claim, hook>>,
               recon[r].pc # "append"
        PROVE  ClaimsPlaced'
    BY <2>1, NothingClaimed, PlacedReconciler DEF ClaimsPlaced
  <2>2. CASE BeginPass(r) \/ LoseRace(r) \/ EndPass(r) \/ RaiseOnPoll(r)
    BY <2>1, <2>2 DEF BeginPass, LoseRace, EndPass, RaiseOnPoll, ScanOn, PopAndRaise
  <2>3. ASSUME NEW o \in Orders, CheckOrder(r, o) PROVE ClaimsPlaced'
    <3>1. PICK s \in OrderStatus(o) : recon' = [recon EXCEPT ![r] = NextInScan(r, o, s)]
      BY <2>3 DEF CheckOrder
    <3> QED
      BY <2>1, <2>3, <3>1 DEF CheckOrder
  <2>4. CASE ClaimByPoll(r)
    <3> DEFINE k == Recon("append", recon[r].todo, recon[r].expired, None, FALSE)
    <3>1. k.pc = "append"
      BY DEF Recon
    <3>2. recon' = [recon EXCEPT ![r] = k]
      BY <2>4 DEF ClaimByPoll
    <3> HIDE DEF k
    <3> QED
      BY <2>4, <3>1, <3>2, PlacedReconciler DEF ClaimByPoll, PopAndClaim
  <2>5. CASE Resolve(r) \/ ResolveTimesOut(r) \/ ReconcilerDies(r)
    <3>1. claim' = [claim EXCEPT ![r] = NoOutcome] /\ hook' = hook
      BY <2>5 DEF Resolve, LogClaim, ResolveTimesOut, LockTimesOut, ReconcilerDies, Killed
    <3>2. \E k : recon' = [recon EXCEPT ![r] = k]
      BY <2>5 DEF Resolve, ResolveTimesOut, ScanOn, ReconcilerDies
    <3> QED
      BY <3>1, <3>2, PlacedReconciler
  <2> QED
    BY <1>5, <2>2, <2>3, <2>4, <2>5 DEF ReconcilerNext, ReconcilerStep
<1> QED
  BY <1>2, <1>3, <1>4, <1>5 DEF Next

\* In every behaviour, a handler holds an outcome only in front of its append.
LEMMA ClaimsArePlaced == Spec => []ClaimsPlaced
<1>1. Init => ClaimsPlaced
  BY DEF Init, ClaimsPlaced, Handlers
<1>2. IInv /\ ClaimsPlaced /\ [Next]_vars => ClaimsPlaced'
  BY NextPlaced DEF IInv
<1> QED
  BY <1>1, <1>2, Invariance, PTL DEF Spec

-----------------------------------------------------------------------------
(* Where a step moves the owners *)

\* The orders in the hands of the pipelines stay where they are when pipe does.
LEMMA HeldFrame == pipe' = pipe => HeldByPipeline' = HeldByPipeline
BY HoldsFrame DEF HeldByPipeline

\* A pipeline that held no order and takes none up leaves them alone too.
LEMMA HeldStay ==
    ASSUME TypeOK, NEW p \in Pipelines, NEW pc, NEW seen, NEW batch, NEW e,
           pipe' = [pipe EXCEPT ![p] = Pipe(pc, seen, batch, e)],
           pipe[p].pc # "register", pc # "register"
    PROVE  HeldByPipeline' = HeldByPipeline
<1>1. \A o \in Orders : ~ Holds(p, o)
  BY DEF Holds
<1> QED
  BY <1>1, HoldsStep DEF HeldByPipeline

\* A pipeline that made an order holds it.
LEMMA HeldGrow ==
    ASSUME TypeOK, NEW p \in Pipelines, NEW seen, NEW batch, NEW e,
           pipe' = [pipe EXCEPT ![p] = Pipe("register", seen, batch, e)],
           pipe[p].pc # "register", e.order \in Orders
    PROVE  HeldByPipeline' = HeldByPipeline \cup {e.order}
<1>1. \A o \in Orders : ~ Holds(p, o)
  BY DEF Holds
<1>2. \A q \in Pipelines, o \in Orders :
        Holds(q, o)' <=> IF q = p THEN e.order = o ELSE Holds(q, o)
  BY HoldsStep
<1> QED
  BY <1>1, <1>2 DEF HeldByPipeline

\* A pipeline that leaves its order behind was the only one to hold it.
LEMMA HeldShrink ==
    ASSUME TypeOK, OneOwner, NEW p \in Pipelines, NEW pc, NEW seen, NEW batch, NEW e,
           pipe' = [pipe EXCEPT ![p] = Pipe(pc, seen, batch, e)],
           pc # "register", NEW o1 \in Orders, Holds(p, o1)
    PROVE  HeldByPipeline' = HeldByPipeline \ {o1}
<1>1. \A q \in Pipelines, o \in Orders : Holds(q, o)' <=> q # p /\ Holds(q, o)
  <2>1. \A q \in Pipelines, o \in Orders :
          Holds(q, o)' <=> IF q = p THEN pc = "register" /\ e.order = o ELSE Holds(q, o)
    BY HoldsStep
  <2> QED
    BY <2>1
<1>2. \A o \in Orders : Holds(p, o) <=> o = o1
  BY DEF Holds
<1>3. \A q \in Pipelines : Holds(q, o1) => q = p
  BY DEF OneOwner
<1> QED
  BY <1>1, <1>2, <1>3 DEF HeldByPipeline

\* The orders in the hands of the handlers stay where they are when claim does.
LEMMA ClaimedFrame == claim' = claim => HeldByHandler' = HeldByHandler
BY ClaimsFrame DEF HeldByHandler

\* A handler that held nothing and popped an order holds it.
LEMMA ClaimedGrow ==
    ASSUME TypeOK, NEW h \in Handlers, NEW e, claim' = [claim EXCEPT ![h] = e],
           claim[h] = NoOutcome, e # NoOutcome, e.order \in Orders
    PROVE  HeldByHandler' = HeldByHandler \cup {e.order}
<1>1. \A o \in Orders : ~ Claims(h, o)
  BY DEF Claims
<1> QED
  BY SMTT(30), ZenonT(60), <1>1, ClaimsStep DEF HeldByHandler

\* A handler that leaves an order behind was the only one to hold it.
LEMMA ClaimedShrink ==
    ASSUME TypeOK, OneOwner, NEW h \in Handlers, claim' = [claim EXCEPT ![h] = NoOutcome],
           NEW o1 \in Orders, Claims(h, o1)
    PROVE  HeldByHandler' = HeldByHandler \ {o1}
<1>1. \A g \in Handlers, o \in Orders : Claims(g, o)' <=> g # h /\ Claims(g, o)
  BY ClaimsStep
<1>2. \A o \in Orders : Claims(h, o) <=> o = o1
  BY DEF Claims
<1>3. \A g \in Handlers : Claims(g, o1) => g = h
  BY DEF OneOwner
<1> QED
  BY <1>1, <1>2, <1>3 DEF HeldByHandler

\* The orders recovered in the audit log stay so when the log does.
LEMMA RecoveredFrame == auditLog' = auditLog => RecoveredInLog' = RecoveredInLog
BY DEF RecoveredInLog

\* An append that reports a recovery adds its order, and nothing else.
LEMMA RecoveredStep ==
    ASSUME TypeOK, NEW e \in Outcomes, LogOutcome(e)
    PROVE  RecoveredInLog' =
             RecoveredInLog \cup {o \in Orders : e.result = "recovered" /\ e.order = o}
<1>1. /\ auditLog \in Seq(Outcomes)
      /\ auditLog' = Append(auditLog, e)
  BY DEF TypeOK, LogOutcome
<1>2. /\ Len(auditLog) \in Nat
      /\ \A i \in DOMAIN auditLog : auditLog'[i] = auditLog[i]
      /\ auditLog'[Len(auditLog) + 1] = e
      /\ \A i \in DOMAIN auditLog' : i \in DOMAIN auditLog \/ i = Len(auditLog) + 1
      /\ \A i \in DOMAIN auditLog : i \in DOMAIN auditLog'
      /\ Len(auditLog) + 1 \in DOMAIN auditLog'
  BY <1>1
<1> QED
  BY <1>2 DEF RecoveredInLog

\* What is recovered is resolved.
LEMMA RecoveredIsResolved == RecoveredInLog \subseteq ResolvedInLog
BY DEF RecoveredInLog, ResolvedInLog, Resolved

-----------------------------------------------------------------------------
(* Steps of the promise *)

\* A step that changes nothing that the stage of u is read off.
Untouched(u) ==
    /\ status'[u] = "absent" <=> status[u] = "absent"
    /\ u \in HeldByPipeline' <=> u \in HeldByPipeline
    /\ u \in pending' <=> u \in pending
    /\ u \in HeldByHandler' <=> u \in HeldByHandler
    /\ u \in RecoveredInLog' <=> u \in RecoveredInLog
    /\ u \in ResolvedInLog' <=> u \in ResolvedInLog

\* Such a step leaves u in its stage.
LEMMA SameStage == ASSUME NEW u, Untouched(u) PROVE StageOf(u)' = StageOf(u)
BY DEF Untouched, StageOf

\* Razorpay counts as paid what it did before.
PaidStays == \A u \in AgentOrders : status'[u] = "paid" <=> status[u] = "paid"

\* A step that touches no case is invisible, unless it was a fault.
LEMMA Invisible ==
    ASSUME \A u \in AgentOrders : Untouched(u), PaidStays
    PROVE  /\ faults' = faults => UNCHANGED Case!caseVars
           /\ faults' = faults + 1 => Case!Survive
<1>1. \A u \in AgentOrders : StageOf(u)' = StageOf(u)
  BY SameStage
<1> QED
  BY <1>1 DEF PaidStays, Case!caseVars, Case!Survive

\* A step that touches one case moves it.
LEMMA Moves ==
    ASSUME NEW o \in AgentOrders, NEW from, NEW to, StageOf(o) = from, StageOf(o)' = to,
           \A u \in AgentOrders \ {o} : Untouched(u), PaidStays
    PROVE  Case!Move(o, from, to)
<1>1. \A u \in AgentOrders : StageOf(u)' = IF u = o THEN to ELSE StageOf(u)
  BY SameStage
<1> QED
  BY <1>1 DEF PaidStays, Case!Move

-----------------------------------------------------------------------------
(* One step of the program, one step of the promise *)

Implemented == [Case!Next]_(Case!caseVars)

\* A step that moves no order of the agent is invisible, or a fault survived.
LEMMA Quiet ==
    ASSUME \A u \in AgentOrders :
             /\ status'[u] = status[u]
             /\ u \in pending' <=> u \in pending,
           HeldByPipeline' = HeldByPipeline, HeldByHandler' = HeldByHandler,
           RecoveredInLog' = RecoveredInLog, ResolvedInLog' = ResolvedInLog,
           faults' = faults \/ faults' = faults + 1
    PROVE  Implemented
<1>1. (\A u \in AgentOrders : Untouched(u)) /\ PaidStays
  BY DEF Untouched, PaidStays
<1>2. UNCHANGED Case!caseVars \/ Case!Survive
  BY <1>1, Invisible
<1> QED
  BY <1>2 DEF Implemented, Case!Next

\* So is one that touches neither the store, nor the log, nor who holds what.
LEMMA QuietFrame ==
    ASSUME UNCHANGED <<status, pending, pipe, claim, auditLog>>,
           faults' = faults \/ faults' = faults + 1
    PROVE  Implemented
BY Quiet, HeldFrame, ClaimedFrame, RecoveredFrame, ResolvedFrame

\* A move that loses a case is a fault.
LEMMA Loses ==
    ASSUME NEW o \in AgentOrders, NEW from \in {"none", "initiated", "claimed"},
           Case!Move(o, from, "lost"), faults' = faults + 1
    PROVE  Implemented
<1>1. Case!Lose(o)
  BY DEF Case!Lose, Case!Move
<1> QED
  BY <1>1 DEF Implemented, Case!Next

\* A customer who pays pays an order of the agent, or does nothing to a case.
LEMMA RazorpayRefines == ASSUME TypeOK, RazorpayNext PROVE Implemented
<1> USE DEF fileVars
<1>1. UNCHANGED <<pipe, claim, pending, auditLog, faults>>
  BY DEF RazorpayNext, Authorize, Capture, FailAttempt
<1>2. /\ HeldByPipeline' = HeldByPipeline /\ HeldByHandler' = HeldByHandler
      /\ RecoveredInLog' = RecoveredInLog /\ ResolvedInLog' = ResolvedInLog
  BY <1>1, HeldFrame, ClaimedFrame, RecoveredFrame, ResolvedFrame
<1>3. \A u \in Orders : status'[u] = "absent" <=> status[u] = "absent"
  BY DEF RazorpayNext, Authorize, Capture, FailAttempt, TypeOK
<1>4. \A u \in AgentOrders : Untouched(u)
  BY <1>1, <1>2, <1>3 DEF Untouched, AgentOrders
<1>5. CASE PaidStays
  BY <1>1, <1>4, <1>5, Invisible DEF Implemented
<1>6. ASSUME NEW o \in Orders, Authorize(o) \/ \E x \in Payments : FailAttempt(o, x)
      PROVE  PaidStays
  BY <1>6 DEF Authorize, FailAttempt, TypeOK, PaidStays, AgentOrders
<1>7. ASSUME NEW o \in Orders, Capture(o) PROVE Implemented
  <2>1. \A u \in Orders : status'[u] = IF u = o THEN "paid" ELSE status[u]
    BY <1>7 DEF Capture, TypeOK
  <2>2. CASE o \in AgentOrders
    <3>1. \A u \in AgentOrders : StageOf(u)' = StageOf(u)
      BY <1>4, SameStage
    <3>2. StageOf(o) # "none"
      BY <1>7 DEF Capture, StageOf
    <3>3. {u \in AgentOrders : status[u] = "paid"}' =
            {u \in AgentOrders : status[u] = "paid"} \cup {o}
      BY <2>1, <2>2 DEF AgentOrders
    <3>4. Case!Pay(o)
      BY <1>1, <2>2, <3>1, <3>2, <3>3 DEF Case!Pay
    <3> QED
      BY <2>2, <3>4 DEF Implemented, Case!Next
  <2>3. CASE o \notin AgentOrders
    BY <1>5, <2>1, <2>3 DEF PaidStays, AgentOrders
  <2> QED
    BY <2>2, <2>3
<1> QED
  BY <1>5, <1>6, <1>7 DEF RazorpayNext

\* A run of the pipeline initiates cases and registers them.  It loses a case when
\* it dies in between, and another when the answer to its creation is lost.
LEMMA PipelineRefines ==
    ASSUME NoTornWrites, IInv, NEW p \in Pipelines, PipelineNext(p)
    PROVE  Implemented
<1> USE DEF IInv
<1>1. ASSUME NEW pc \in {"idle", "fetch", "loop", "append"}, NEW seen, NEW batch, NEW e,
             pipe' = [pipe EXCEPT ![p] = Pipe(pc, seen, batch, e)],
             pipe[p].pc # "register",
             UNCHANGED <<status, pending, claim, auditLog>>,
             faults' = faults \/ faults' = faults + 1
      PROVE  Implemented
  <2>1. HeldByPipeline' = HeldByPipeline
    BY <1>1, HeldStay
  <2> QED
    BY <1>1, <2>1, ClaimedFrame, RecoveredFrame, ResolvedFrame, Quiet
<1>2. CASE StartRun(p)
  BY <1>1, <1>2 DEF StartRun, Fault, razorpayVars, fileVars
<1>3. CASE FetchBatch(p)
  <2>1. PICK got \in SUBSET rzpFailed :
          pipe' = [pipe EXCEPT ![p] =
                     Pipe("loop", {}, (got \cup Synthetic) \ pipe[p].seen, NoOutcome)]
    BY <1>3 DEF FetchBatch
  <2> QED
    BY <1>1, <1>3, <2>1 DEF FetchBatch, razorpayVars, fileVars
<1>4. ASSUME NEW x \in Payments, Simulate(p, x) PROVE Implemented
  <2>1. PICK recovered \in BOOLEAN :
          Take(p, x, "append", Outcome(Verdict(recovered), "simulated", x, None))
    BY <1>4 DEF Simulate
  <2> QED
    BY <1>1, <1>4, <2>1 DEF Simulate, Take, razorpayVars, fileVars
<1>5. ASSUME NEW x \in Payments, InitiationFails(p, x) PROVE Implemented
  BY <1>1, <1>5 DEF InitiationFails, Take, razorpayVars, fileVars
<1>6. CASE EndRun(p)
  BY <1>1, <1>6 DEF EndRun, IdlePipe, razorpayVars, fileVars
<1>7. ASSUME NEW x \in Payments, NEW o \in Orders, NewOrder(x, o), o \notin ManualOrders
      PROVE  /\ o \in AgentOrders
             /\ o \notin Tracked
             /\ status[o] = "absent" /\ status'[o] # "absent"
             /\ \A u \in AgentOrders \ {o} : status'[u] = status[u]
             /\ PaidStays
  BY <1>7 DEF NewOrder, AgentOrders, TypeOK, OwnedExists, PaidStays
<1>8. ASSUME NEW x \in Payments, NEW o \in Orders, CreateOrder(p, x, o) PROVE Implemented
  <2> DEFINE e == Outcome("pending", "none", x, o)
  <2>1. e.order = o
    BY OutcomeFields
  <2>2. pipe' = [pipe EXCEPT ![p] = Pipe("register", {}, pipe[p].batch \ {x}, e)]
    BY <1>8 DEF CreateOrder, Take
  <2>3. /\ pipe[p].pc # "register" /\ o \notin ManualOrders /\ NewOrder(x, o)
        /\ UNCHANGED <<pending, claim, auditLog, faults>>
    BY <1>8 DEF CreateOrder, Take, fileVars
  <2> HIDE DEF e
  <2>4. HeldByPipeline' = HeldByPipeline \cup {o}
    BY <2>1, <2>2, <2>3, HeldGrow
  <2>5. /\ HeldByHandler' = HeldByHandler
        /\ RecoveredInLog' = RecoveredInLog /\ ResolvedInLog' = ResolvedInLog
    BY <2>3, ClaimedFrame, RecoveredFrame, ResolvedFrame
  <2>6. \A u \in AgentOrders \ {o} : Untouched(u)
    BY <1>7, <2>3, <2>4, <2>5 DEF Untouched
  <2>7. StageOf(o) = "none" /\ StageOf(o)' = "initiated"
    BY <1>7, <2>3, <2>4 DEF StageOf
  <2>8. Case!Initiate(o)
    BY <1>7, <2>3, <2>6, <2>7, Moves DEF Case!Initiate
  <2> QED
    BY <1>7, <2>3, <2>8 DEF Implemented, Case!Next
<1>9. ASSUME NEW x \in Payments, NEW o \in Orders, ResponseLost(p, x, o) PROVE Implemented
  <2>1. pipe' = [pipe EXCEPT ![p] = Pipe("append", {}, pipe[p].batch \ {x},
                                         InitiationFailed(x))]
    BY <1>9 DEF ResponseLost, Take
  <2>2. /\ pipe[p].pc # "register" /\ o \notin ManualOrders /\ NewOrder(x, o)
        /\ UNCHANGED <<pending, claim, auditLog>>
        /\ faults' = faults + 1
    BY <1>9 DEF ResponseLost, Take, Fault, fileVars
  <2>3. /\ HeldByPipeline' = HeldByPipeline /\ HeldByHandler' = HeldByHandler
        /\ RecoveredInLog' = RecoveredInLog /\ ResolvedInLog' = ResolvedInLog
    BY <2>1, <2>2, HeldStay, ClaimedFrame, RecoveredFrame, ResolvedFrame
  <2>4. \A u \in AgentOrders \ {o} : Untouched(u)
    BY <1>7, <2>2, <2>3 DEF Untouched
  <2>5. StageOf(o) = "none" /\ StageOf(o)' = "lost"
    BY <1>7, <2>2, <2>3, RecoveredIsResolved DEF StageOf, Tracked
  <2> QED
    BY <1>7, <2>2, <2>4, <2>5, Moves, Loses
<1>10. ASSUME pipe[p].pc = "register"
       PROVE  /\ pipe[p].out.order \in AgentOrders
              /\ Holds(p, pipe[p].out.order)
              /\ StageOf(pipe[p].out.order) = "initiated"
              /\ pipe[p].out.order \notin pending \cup HeldByHandler \cup ResolvedInLog
  <2> DEFINE o1 == pipe[p].out.order
  <2>1. o1 \in AgentOrders /\ o1 \in Orders /\ Holds(p, o1)
    BY <1>10 DEF Carried, AgentOrders, Holds
  <2> HIDE DEF o1
  <2>2. o1 \in HeldByPipeline
    BY <2>1 DEF HeldByPipeline
  <2>3. status[o1] # "absent" /\ o1 \notin pending \cup HeldByHandler \cup ResolvedInLog
    BY <2>2 DEF OwnedExists, Tracked, OneOwner
  <2>4. StageOf(o1) = "initiated"
    BY <2>2, <2>3 DEF StageOf
  <2> QED
    BY <2>1, <2>3, <2>4 DEF o1
<1>11. CASE AddPending(p)
  <2>0. PICK o1 : o1 = pipe[p].out.order
    OBVIOUS
  <2>1. /\ pipe' = [pipe EXCEPT ![p] = Pipe("append", {}, pipe[p].batch, pipe[p].out)]
        /\ pipe[p].pc = "register"
        /\ pending' = pending \cup {o1}
        /\ UNCHANGED <<status, claim, auditLog, faults>>
    BY <1>11, <2>0 DEF AddPending, Added, razorpayVars
  <2>2. o1 \in AgentOrders /\ o1 \in Orders /\ Holds(p, o1) /\ StageOf(o1) = "initiated"
    BY <1>10, <2>0, <2>1 DEF AgentOrders
  <2>3. HeldByPipeline' = HeldByPipeline \ {o1}
    BY <2>1, <2>2, HeldShrink
  <2>4. /\ HeldByHandler' = HeldByHandler
        /\ RecoveredInLog' = RecoveredInLog /\ ResolvedInLog' = ResolvedInLog
    BY <2>1, ClaimedFrame, RecoveredFrame, ResolvedFrame
  <2>5. \A u \in AgentOrders \ {o1} : Untouched(u)
    BY <2>1, <2>3, <2>4 DEF Untouched
  <2>6. StageOf(o1)' = "pending"
    <3>1. status[o1] # "absent"
      BY <2>2 DEF StageOf
    <3> QED
      BY <2>1, <2>3, <3>1 DEF StageOf
  <2>7. Case!Register(o1)
    BY <2>1, <2>2, <2>5, <2>6, Moves DEF PaidStays, Case!Register
  <2> QED
    BY <2>2, <2>7 DEF Implemented, Case!Next
<1>12. CASE AppendOutcome(p)
  <2>1. /\ pipe' = [pipe EXCEPT ![p] = Pipe("loop", {}, pipe[p].batch, NoOutcome)]
        /\ pipe[p].pc # "register"
        /\ LogOutcome(pipe[p].out)
        /\ UNCHANGED <<status, pending, claim, faults>>
    BY <1>12 DEF AppendOutcome, razorpayVars
  <2>2. pipe[p].out \in Outcomes
    BY FieldTypes DEF TypeOK
  <2>3. \A o \in Orders : ~ (Resolved(pipe[p].out) /\ pipe[p].out.order = o)
    BY ConstantsAssumption DEF Carried
  <2>4. ResolvedInLog' = ResolvedInLog
    BY <2>1, <2>2, <2>3, ResolvedStep
  <2>5. RecoveredInLog' = RecoveredInLog
    BY <2>1, <2>2, <2>3, RecoveredStep DEF Resolved
  <2>6. HeldByPipeline' = HeldByPipeline
    BY <2>1, HeldStay
  <2> QED
    BY <2>1, <2>4, <2>5, <2>6, ClaimedFrame, Quiet
<1>13. CASE PipelineDies(p)
  <2>1. /\ pipe' = [pipe EXCEPT ![p] = Pipe("idle", {}, {}, NoOutcome)]
        /\ UNCHANGED <<status, pending, claim, auditLog>>
        /\ faults' = faults + 1
    BY <1>13 DEF PipelineDies, TornWrite, Fault, NoTornWrites, IdlePipe, razorpayVars
  <2>2. CASE pipe[p].pc # "register"
    BY <1>1, <2>1, <2>2
  <2>3. CASE pipe[p].pc = "register"
    <3>0. PICK o1 : o1 = pipe[p].out.order
      OBVIOUS
    <3>1. /\ o1 \in AgentOrders /\ o1 \in Orders /\ Holds(p, o1)
          /\ StageOf(o1) = "initiated"
          /\ o1 \notin pending \cup HeldByHandler \cup ResolvedInLog
      BY <1>10, <2>3, <3>0 DEF AgentOrders
    <3>2. HeldByPipeline' = HeldByPipeline \ {o1}
      BY <2>1, <3>1, HeldShrink
    <3>3. /\ HeldByHandler' = HeldByHandler
          /\ RecoveredInLog' = RecoveredInLog /\ ResolvedInLog' = ResolvedInLog
      BY <2>1, ClaimedFrame, RecoveredFrame, ResolvedFrame
    <3>4. \A u \in AgentOrders \ {o1} : Untouched(u)
      BY <2>1, <3>2, <3>3 DEF Untouched
    <3>5. StageOf(o1)' = "lost"
      <4>1. status[o1] # "absent"
        BY <3>1 DEF StageOf
      <4> QED
        BY <2>1, <3>1, <3>2, <3>3, <4>1, RecoveredIsResolved DEF StageOf
    <3> QED
      BY <2>1, <3>1, <3>4, <3>5, Moves, Loses DEF PaidStays
  <2> QED
    BY <2>2, <2>3
<1> QED
  BY <1>2, <1>3, <1>4, <1>5, <1>6, <1>8, <1>9, <1>11, <1>12, <1>13 DEF PipelineNext

\* A handler that pops a pending order of the agent claims its case.
LEMMA PopRefines ==
    ASSUME IInv, NEW h \in Handlers, claim[h] = NoOutcome,
           NEW o, NEW method, NEW recovered \in BOOLEAN,
           PopAndClaim(h, o, Resolution(method, recovered, o)),
           UNCHANGED <<status, pipe, auditLog, faults>>
    PROVE  Implemented
<1> USE DEF IInv
<1>1. o \in pending /\ o \in Orders /\ o \in AgentOrders /\ pending' = pending \ {o}
  BY DEF PopAndClaim, Claimable, Malformed, Popped, TypeOK, AgentOrders
<1>2. PICK e : e = Resolution(method, recovered, o)
  OBVIOUS
<1>3. e.order = o /\ e # NoOutcome
  BY <1>2, OutcomeFields, Unresolved DEF Resolution
<1>4. claim' = [claim EXCEPT ![h] = e]
  BY <1>2 DEF PopAndClaim
<1>5. HeldByHandler' = HeldByHandler \cup {o}
  BY <1>1, <1>3, <1>4, ClaimedGrow
<1>6. /\ HeldByPipeline' = HeldByPipeline
      /\ RecoveredInLog' = RecoveredInLog /\ ResolvedInLog' = ResolvedInLog
  BY HeldFrame, RecoveredFrame, ResolvedFrame
<1>7. \A u \in AgentOrders \ {o} : Untouched(u)
  BY <1>1, <1>5, <1>6 DEF Untouched
<1>8. o \notin HeldByPipeline /\ status[o] # "absent"
  BY <1>1 DEF OneOwner, OwnedExists, Tracked
<1>9. StageOf(o) = "pending" /\ StageOf(o)' = "claimed"
  BY <1>1, <1>5, <1>6, <1>8 DEF StageOf
<1>10. Case!Claim(o)
  BY <1>1, <1>7, <1>9, Moves DEF PaidStays, Case!Claim
<1> QED
  BY <1>1, <1>10 DEF Implemented, Case!Next

\* An entry that a handler cannot read is no order of the agent.
LEMMA RaiseRefines ==
    ASSUME NEW o, PopAndRaise(o), UNCHANGED <<status, pipe, auditLog, faults>>
    PROVE  Implemented
<1>1. /\ HeldByPipeline' = HeldByPipeline /\ HeldByHandler' = HeldByHandler
      /\ RecoveredInLog' = RecoveredInLog /\ ResolvedInLog' = ResolvedInLog
  BY HeldFrame, ClaimedFrame, RecoveredFrame, ResolvedFrame DEF PopAndRaise
<1>2. \A u \in AgentOrders : u \in pending' <=> u \in pending
  BY DEF PopAndRaise, Malformed, Popped, AgentOrders
<1> QED
  BY <1>1, <1>2, Quiet

\* What a handler holds is a claimed case.
LEMMA ClaimedCase ==
    ASSUME IInv, NEW h \in Handlers, claim[h] # NoOutcome,
           NEW o, o = claim[h].order
    PROVE  /\ o \in AgentOrders /\ o \in Orders
           /\ Claims(h, o)
           /\ status[o] # "absent"
           /\ o \notin HeldByPipeline \cup pending \cup ResolvedInLog
           /\ StageOf(o) = "claimed"
<1> USE DEF IInv
<1>1. o \in AgentOrders /\ o \in Orders /\ Claims(h, o)
  BY DEF Carried, AgentOrders, Claims
<1>2. o \in HeldByHandler
  BY <1>1 DEF HeldByHandler
<1>3. status[o] # "absent" /\ o \notin HeldByPipeline \cup pending \cup ResolvedInLog
  BY <1>2 DEF OneOwner, OwnedExists, Tracked
<1> QED
  BY <1>1, <1>2, <1>3 DEF StageOf

\* Logging the outcome settles the case, as recovered only if the order is paid.
LEMMA LogRefines ==
    ASSUME IInv, NEW h \in Handlers, LogClaim(h),
           UNCHANGED <<status, pending, pipe, faults>>
    PROVE  Implemented
<1> USE DEF IInv
<1>1. PICK o : o = claim[h].order
  OBVIOUS
<1>2. PICK e : e = claim[h]
  OBVIOUS
<1>3. /\ claim[h] # NoOutcome /\ LogOutcome(e)
      /\ claim' = [claim EXCEPT ![h] = NoOutcome]
      /\ e \in Outcomes /\ e.order = o /\ Resolved(e) /\ Justified(e)
  BY <1>1, <1>2 DEF LogClaim, TypeOK, Carried, OutcomesTrue
<1>4. /\ o \in AgentOrders /\ o \in Orders /\ Claims(h, o) /\ status[o] # "absent"
      /\ o \notin HeldByPipeline \cup pending \cup ResolvedInLog
      /\ StageOf(o) = "claimed"
  BY <1>1, <1>3, ClaimedCase
<1>5. HeldByHandler' = HeldByHandler \ {o} /\ HeldByPipeline' = HeldByPipeline
  BY <1>3, <1>4, ClaimedShrink, HeldFrame
<1>6. ResolvedInLog' = ResolvedInLog \cup {o}
  BY <1>3, <1>4, ResolvedStep
<1>7. RecoveredInLog' =
        RecoveredInLog \cup {u \in Orders : e.result = "recovered" /\ e.order = u}
  BY <1>3, RecoveredStep
<1>8. \A u \in AgentOrders \ {o} : Untouched(u)
  BY <1>3, <1>5, <1>6, <1>7 DEF Untouched
<1>9. StageOf(o)' = e.result
  <2>1. o \notin HeldByPipeline' /\ o \notin pending' /\ o \notin HeldByHandler'
    BY <1>4, <1>5
  <2>2. o \in ResolvedInLog' /\ (o \in RecoveredInLog' <=> e.result = "recovered")
    BY <1>3, <1>4, <1>6, <1>7, RecoveredIsResolved
  <2>3. status'[o] # "absent"
    BY <1>4
  <2> QED
    BY <1>3, <2>1, <2>2, <2>3 DEF StageOf, Resolved
<1>10. e.result = "recovered" => status[o] = "paid"
  BY <1>3, <1>4, ConstantsAssumption DEF Justified
<1>11. Case!Settle(o, e.result)
  BY <1>4, <1>8, <1>9, <1>10, Moves DEF PaidStays, Case!Settle
<1>12. e.result \in Case!Settled
  BY <1>3 DEF Resolved, Case!Settled
<1> QED
  BY <1>4, <1>11, <1>12 DEF Implemented, Case!Next

\* A handler that fails loses the case it has claimed, if it has claimed one.
LEMMA FailRefines ==
    ASSUME NoTornWrites, IInv, NEW h \in Handlers, Killed(h) \/ LockTimesOut(h),
           UNCHANGED <<status, pending, pipe>>
    PROVE  Implemented
<1> USE DEF IInv
<1>1. /\ claim' = [claim EXCEPT ![h] = NoOutcome]
      /\ auditLog' = auditLog
      /\ faults' = faults + 1
  BY DEF Killed, LockTimesOut, TornWrite, Fault, NoTornWrites
<1>2. CASE claim[h] = NoOutcome
  <2>1. claim' = claim
    BY <1>1, <1>2 DEF TypeOK
  <2> QED
    BY <1>1, <2>1, QuietFrame
<1>3. CASE claim[h] # NoOutcome
  <2>1. PICK o : o = claim[h].order
    OBVIOUS
  <2>2. /\ o \in AgentOrders /\ o \in Orders /\ Claims(h, o) /\ status[o] # "absent"
        /\ o \notin HeldByPipeline \cup pending \cup ResolvedInLog
        /\ StageOf(o) = "claimed"
    BY <1>3, <2>1, ClaimedCase
  <2>3. /\ HeldByHandler' = HeldByHandler \ {o} /\ HeldByPipeline' = HeldByPipeline
        /\ RecoveredInLog' = RecoveredInLog /\ ResolvedInLog' = ResolvedInLog
    BY <1>1, <2>2, ClaimedShrink, HeldFrame, RecoveredFrame, ResolvedFrame
  <2>4. \A u \in AgentOrders \ {o} : Untouched(u)
    BY <2>3 DEF Untouched
  <2>5. StageOf(o)' = "lost"
    BY <2>2, <2>3, RecoveredIsResolved DEF StageOf
  <2> QED
    BY <1>1, <2>2, <2>4, <2>5, Moves, Loses DEF PaidStays
<1> QED
  BY <1>2, <1>3

\* A webhook worker claims cases, settles them and loses them.
LEMMA WorkerRefines ==
    ASSUME NoTornWrites, IInv, ClaimsPlaced, NEW w \in Workers, WorkerNext(w)
    PROVE  Implemented
<1> w \in Handlers
  BY DEF Handlers
<1> USE DEF razorpayVars, fileVars
<1>1. ASSUME NEW e \in emitted, ClaimByEvent(w, e) PROVE Implemented
  <2>1. claim[w] = NoOutcome
    BY <1>1 DEF ClaimByEvent, Receive, ClaimsPlaced
  <2>2. RecoveredBy(e.type) \in BOOLEAN
    BY DEF RecoveredBy
  <2> QED
    BY <1>1, <2>1, <2>2, PopRefines DEF ClaimByEvent
<1>2. ASSUME NEW e \in emitted, RaiseOnEvent(w, e) PROVE Implemented
  BY <1>2, RaiseRefines DEF RaiseOnEvent
<1>3. ASSUME NEW e \in emitted, PassOverEvent(w, e) PROVE Implemented
  BY <1>3, QuietFrame DEF PassOverEvent
<1>4. CASE AppendResolution(w)
  BY <1>4, LogRefines DEF AppendResolution
<1>5. CASE LogEvent(w)
  BY <1>5, QuietFrame DEF LogEvent
<1>6. CASE RequestDies(w)
  BY <1>6, FailRefines DEF RequestDies
<1> QED
  BY <1>1, <1>2, <1>3, <1>4, <1>5, <1>6 DEF WorkerNext, WorkerStep

\* So does a reconciler.
LEMMA ReconcilerRefines ==
    ASSUME NoTornWrites, IInv, ClaimsPlaced, NEW r \in Reconcilers, ReconcilerNext(r)
    PROVE  Implemented
<1> r \in Handlers
  BY DEF Handlers
<1> USE DEF razorpayVars, fileVars
<1>1. CASE ClaimByPoll(r)
  <2>1. claim[r] = NoOutcome
    BY <1>1 DEF ClaimByPoll, ClaimsPlaced
  <2>2. recon[r].paid \in BOOLEAN
    BY FieldTypes DEF IInv, TypeOK
  <2> QED
    BY <1>1, <2>1, <2>2, PopRefines DEF ClaimByPoll
<1>2. CASE RaiseOnPoll(r)
  BY <1>2, RaiseRefines DEF RaiseOnPoll
<1>3. CASE Resolve(r)
  BY <1>3, LogRefines DEF Resolve
<1>4. CASE ResolveTimesOut(r) \/ ReconcilerDies(r)
  BY <1>4, FailRefines DEF ResolveTimesOut, ReconcilerDies
<1>5. CASE BeginPass(r) \/ LoseRace(r) \/ EndPass(r) \/ \E o \in Orders : CheckOrder(r, o)
  BY <1>5, QuietFrame DEF BeginPass, LoseRace, EndPass, CheckOrder
<1> QED
  BY <1>1, <1>2, <1>3, <1>4, <1>5 DEF ReconcilerNext, ReconcilerStep

\* Every step of the program is a step of the promise, or invisible to it.
LEMMA NextRefines ==
    ASSUME NoTornWrites, IInv, ClaimsPlaced, [Next]_vars PROVE Implemented
<1>1. CASE Tick
  BY <1>1, QuietFrame DEF Tick, fileVars
<1>2. ASSUME NEW o \in Orders, RegisterManually(o) PROVE Implemented
  <2>1. /\ HeldByPipeline' = HeldByPipeline /\ HeldByHandler' = HeldByHandler
        /\ RecoveredInLog' = RecoveredInLog /\ ResolvedInLog' = ResolvedInLog
    BY <1>2, HeldFrame, ClaimedFrame, RecoveredFrame, ResolvedFrame DEF RegisterManually
  <2>2. \A u \in AgentOrders :
          status'[u] = status[u] /\ (u \in pending' <=> u \in pending)
    BY <1>2 DEF RegisterManually, Added, AgentOrders, IInv, TypeOK
  <2> QED
    BY <1>2, <2>1, <2>2, Quiet DEF RegisterManually
<1>3. CASE UNCHANGED vars
  BY <1>3, QuietFrame DEF vars, razorpayVars, fileVars
<1> QED
  BY <1>1, <1>2, <1>3, RazorpayRefines, PipelineRefines, WorkerRefines, ReconcilerRefines
     DEF Next, IInv

-----------------------------------------------------------------------------
(* The program keeps the promise *)

\* As long as no write of the audit log is torn, whatever else fails, the processes
\* and the files together do with every order what the promise says.
THEOREM KeepsPromise == ASSUME NoTornWrites PROVE Spec => ImplementsPendingCase
<1>1. Init => Case!Init
  <2> SUFFICES ASSUME Init PROVE Case!Init
    OBVIOUS
  <2>1. \A o \in AgentOrders : status[o] = "absent"
    BY DEF Init, AgentOrders
  <2>2. \A o \in AgentOrders : StageOf(o) = "none"
    BY <2>1 DEF StageOf
  <2> QED
    BY <2>1, <2>2 DEF Init, Case!Init
<1>2. IInv /\ ClaimsPlaced /\ [Next]_vars => [Case!Next]_(Case!caseVars)
  BY NextRefines DEF Implemented
<1> QED
  BY <1>1, <1>2, Invariance, ClaimsArePlaced, PTL DEF Spec, ImplementsPendingCase, Case!Spec

\* Each fault costs at most one case: the others are with the pipeline that made
\* the order, in the store, with the handler that popped it, or resolved.
THEOREM FaultsBoundLosses == ASSUME NoTornWrites PROVE Spec => []UntrackedBounded
<1>1. Untracked = Case!Lost
  BY RecoveredIsResolved DEF Untracked, Tracked, Case!Lost, StageOf, AgentOrders
<1>2. Case!LostBounded => UntrackedBounded
  <2>1. Case!Cardinality(Case!Lost) = Cardinality(Case!Lost)
    BY DEF Case!Cardinality, Cardinality
  <2> QED
    BY <1>1, <2>1 DEF Case!LostBounded, UntrackedBounded
<1>3. Spec => Case!Spec
  BY KeepsPromise, PTL DEF ImplementsPendingCase
<1> QED
  BY <1>2, <1>3, Case!LostIsBounded, PTL

=============================================================================
