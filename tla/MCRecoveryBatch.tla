--------------------------- MODULE MCRecoveryBatch ---------------------------
(***************************************************************************)
(* RecoveryBatch on small instances.                                       *)
(***************************************************************************)
EXTENDS RecoveryBatch, TLC

\* Amounts at the settings, at the AFA limit and above it.
LowAmount == 1
HighAmount == 2
Afa == 2
AboveAfa == 3

MCDefaultCaps ==
    [c \in {"INSUFFICIENT_FUNDS", "CARD_DECLINED", "EXPIRED_CARD"} |->
        CASE c = "INSUFFICIENT_FUNDS" -> 2 [] c = "CARD_DECLINED" -> 1 [] OTHER -> 0]

MCMinAmounts == {LowAmount, HighAmount}

Synthetic(amount, code) == [amount |-> amount, live |-> FALSE, code |-> code]
Live(amount, code) == [amount |-> amount, live |-> TRUE, code |-> code]

\* A retry between the two minimum amounts, one above the AFA limit, and a live
\* payment whose code only the LLM may classify, as any cause.
MCRecords ==
    {Synthetic(LowAmount, "CARD_DECLINED"), Synthetic(AboveAfa, "CARD_DECLINED"),
     Live(HighAmount, "unmapped")}

AdminSymmetry == Permutations(Admins)

=============================================================================
