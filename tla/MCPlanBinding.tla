--------------------------- MODULE MCPlanBinding ---------------------------
(* Small instances of PlanBinding for TLC.                                 *)
EXTENDS PlanBinding, TLC

CONSTANTS p1, p2

Unlimited == [a \in Accounts |-> 0]
NoLimit == [u \in Users |-> 0]

(* p1 starts on account 1; p2 does not exist yet.                          *)
BoundStart == [p \in Plans |-> IF p = p1 THEN 1 ELSE Unbound]

(* p1 was created without an account.                                      *)
UnboundStart == [p \in Plans |-> Unbound]

Symmetry == Permutations(Quiescers) \cup Permutations(Requests)
=============================================================================
