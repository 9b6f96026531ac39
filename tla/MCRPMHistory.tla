---------------------------- MODULE MCRPMHistory ----------------------------
(* One account with one request per minute and three callers.              *)
EXTENDS RPMHistory, TLC

One == [a \in Accounts |-> 1]
None == [a \in Accounts |-> 0]
NoLimit == [u \in Users |-> 0]
=============================================================================
