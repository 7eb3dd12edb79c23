---------------------------- MODULE RetryRefinement ----------------------------
(***************************************************************************)
(* RetryLifecycle implements PendingCase: the stage of an order's case is  *)
(* read off the processes and the files.  The orders registered by hand    *)
(* are left out, their entries cannot be resolved; and so are torn writes, *)
(* which erase settled cases.                                              *)
(***************************************************************************)
EXTENDS RetryLifecycle

RecoveredInLog ==
    {o \in Orders : \E i \in DOMAIN auditLog :
        auditLog[i].result = "recovered" /\ auditLog[i].order = o}

StageOf(o) ==
    IF status[o] = "absent" THEN "none"
    ELSE IF o \in HeldByPipeline THEN "initiated"
    ELSE IF o \in pending THEN "pending"
    ELSE IF o \in HeldByHandler THEN "claimed"
    ELSE IF o \in RecoveredInLog THEN "recovered"
    ELSE IF o \in ResolvedInLog THEN "unrecovered"
    ELSE "lost"

Case == INSTANCE PendingCase WITH
    Orders <- AgentOrders,
    stage <- [o \in AgentOrders |-> StageOf(o)],
    paid <- {o \in AgentOrders : status[o] = "paid"},
    faults <- faults

\* Every step of the pipelines, the webhook workers, the reconcilers and
\* Razorpay is a step of the promised case machine, or invisible to it.
ImplementsPendingCase == Case!Spec

-----------------------------------------------------------------------------
(* The invariant behind it, beside IInv *)

\* A handler holds an outcome only in front of its append, so the one that pops
\* an order forgets no other.
ClaimsPlaced ==
    /\ \A w \in Workers : claim[w] # NoOutcome => hook[w].pc = "append"
    /\ \A r \in Reconcilers : claim[r] # NoOutcome => recon[r].pc = "append"

=============================================================================
