--------------------------- MODULE MCPaidInference ---------------------------
(***************************************************************************)
(* Instances of PaidInference for TLC.                                       *)
(***************************************************************************)
EXTENDS PaidInference, TLC

CONSTANTS w1, w2, hands, voice, p, q

\* Two decisions of one WorkItem.
OneItem == (w1 :> "item") @@ (w2 :> "item")

\* What an admission holds of the budget.
Costs == [i \in Rows |-> 1]

\* One incarnation is like another, and one decision of the item like the other:
\* their permutations may be identified.
Alike == Permutations(Procs) \cup Permutations(Work)
=============================================================================
