------------------------------- MODULE Decision -------------------------------
(***************************************************************************)
(* decide.choose_action as a function of the cause, the amount and the two *)
(* settings: what RecoveryBatch and Evaluation have in common.             *)
(***************************************************************************)
EXTENDS Naturals

CONSTANT AfaLimit   \* AFA_REQUIRED_ABOVE_AMOUNT

ActionMap(cause) ==
    CASE cause = "INSUFFICIENT_FUNDS" -> "RETRY_AFTER_DELAY"
      [] cause = "BANK_TIMEOUT"       -> "RETRY_IMMEDIATE"
      [] cause = "CARD_DECLINED"      -> "RETRY_IMMEDIATE"
      [] cause = "INVALID_CVV"        -> "NOTIFY_USER"
      [] cause = "EXPIRED_CARD"       -> "NOTIFY_USER_CARD_UPDATE"
      [] OTHER                        -> "ESCALATE"

Retries == {"RETRY_AFTER_DELAY", "RETRY_IMMEDIATE"}

Action(type, cap, cause, approved) ==
    [type |-> type, max_attempts |-> cap, cause |-> cause, policy_approved |-> approved]

\* Mutant: the configurable gate alone.
Rejected_NoAfaGate(type, amount, min) == type \in Retries /\ amount < min

\* The two policy gates: no retry above the AFA limit, none below the minimum.
Rejected(type, amount, min) ==
    type \in Retries /\ (amount > AfaLimit \/ amount < min)

\* The action for a cause, given the settings that were read.
Chosen(cause, amount, min, cap) ==
    IF Rejected(ActionMap(cause), amount, min)
    THEN Action("ESCALATE", 0, cause, FALSE)
    ELSE Action(ActionMap(cause), cap, cause, TRUE)

=============================================================================
