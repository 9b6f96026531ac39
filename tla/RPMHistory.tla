----------------------------- MODULE RPMHistory -----------------------------
(***************************************************************************)
(* AccountTraffic with a history variable: how many requests were charged  *)
(* to each account and natural minute.  The controller only keeps the      *)
(* count of the window in force; the history tells whether the limit per   *)
(* natural minute was kept.                                                *)
(***************************************************************************)
EXTENDS AccountTraffic

VARIABLE charged

HistoryInit == Init /\ charged = [a \in Accounts |-> [m \in Minutes |-> 0]]

Charge(r) == charged' = [charged EXCEPT ![req[r].acct][req[r].now] = @ + 1]

HistoryNext ==
  /\ Next
  /\ \/ \E r \in Requests : req[r].pc = "held" /\ req'[r].pc = "committed" /\ Charge(r)
     \/ /\ \A r \in Requests : ~(req[r].pc = "held" /\ req'[r].pc = "committed")
        /\ UNCHANGED charged

HistorySpec == HistoryInit /\ [][HistoryNext]_<<vars, charged>>

(* No natural minute has more requests charged to it than the RPM limit.   *)
(* The comment on prepare promises that concurrent callers are not         *)
(* over-admitted; a caller that sampled the clock before a minute boundary *)
(* and takes the mutex after it moves the window back and clears the count *)
(* of the newer minute.                                                    *)
RPMPerMinute ==
  \A a \in Accounts, m \in Minutes : RPMLimit[a] > 0 => charged[a][m] <= RPMLimit[a]
=============================================================================
