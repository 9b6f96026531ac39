-------------------------- MODULE MCAccountTraffic --------------------------
(* Small instances of AccountTraffic for TLC.                              *)
EXTENDS AccountTraffic, TLC

CONSTANTS u1, u2

(* Account 1 is the contended one: two slots, one of them u1's base.       *)
MCMaxConcurrency == [a \in Accounts |-> IF a = 1 THEN 2 ELSE 0]
MCRPMLimit == [a \in Accounts |-> IF a = 1 THEN 2 ELSE 0]
MCBaseLimit == [u \in Users |-> IF u = u1 THEN 1 ELSE 0]
MCMemberMax == [u \in Users |-> IF u = u1 THEN 2 ELSE 0]

Symmetry == Permutations(Requests) \cup Permutations(Quiescers)
=============================================================================
