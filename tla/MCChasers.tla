------------------------------ MODULE MCChasers ------------------------------
(***************************************************************************)
(* Chasers on small instances.                                             *)
(***************************************************************************)
EXTENDS Chasers, TLC

Record(wait, amount) == [wait |-> wait, amount |-> amount]

\* On either side of the costly rung's limits, with amounts on either side of
\* its gate.
MCRecords ==
    [k \in Pipelines |->
        IF k = "receivables"
        THEN {Record(30, 9999), Record(31, 9999), Record(31, 10000)}
        ELSE {Record(1, 999), Record(24, 1000)}]

WriterSymmetry == Permutations(Writers)

=============================================================================
