---------------------------- MODULE MCEvaluation ----------------------------
(***************************************************************************)
(* Evaluation on small instances.                                          *)
(***************************************************************************)
EXTENDS Evaluation

\* The default caps.
MCCaps ==
    [c \in KnownCauses |->
        CASE c = "INSUFFICIENT_FUNDS" -> 2
          [] c \in {"BANK_TIMEOUT", "CARD_DECLINED"} -> 1
          [] OTHER -> 0]

Labelled(code, truth, amount) ==
    [code |-> code, ground_truth |-> truth, amount |-> amount]

\* Retries of one and of two attempts, one below the minimum amount, an action
\* that is no retry, and a code that no rule maps.
MCRecords ==
    {Labelled("CARD_DECLINED", "CARD_DECLINED", 199),
     Labelled("INSUFFICIENT_FUNDS", "INSUFFICIENT_FUNDS", 199),
     Labelled("INSUFFICIENT_FUNDS", "INSUFFICIENT_FUNDS", 99),
     Labelled("EXPIRED_CARD", "EXPIRED_CARD", 199),
     Labelled("unmapped", "BANK_TIMEOUT", 199)}

=============================================================================
