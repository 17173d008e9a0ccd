------------------------------- MODULE MCSell -------------------------------
(***************************************************************************)
(* Instances of Sell for TLC.                                              *)
(***************************************************************************)
EXTENDS Sell, TLC

CONSTANTS s1, r1, r2

MCExact == s1 :> 2
MCFee == s1 :> 1
MCPayout == s1 :> 2
MCProceeds == s1 :> 2

\* Of the crypto the company owes its users no more than it has, or more, so that
\* settling a sale leaves a record; or it knows of less than what is sold.
Owes(internal) == [total |-> 3, reserved |-> 0, internal |-> internal]
Excessive == {Owes(6)}
Uneven == {Owes(1), Owes(6)}

EveryBudget == [f \in Faults |-> 1]

\* The runs of a job are interchangeable.
RunSymmetry == Permutations({r1, r2})
=============================================================================
