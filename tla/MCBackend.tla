----------------------------- MODULE MCBackend -----------------------------
(* An instance for TLC of the backend's components that share no state     *)
(* here: a behaviour is one of one component, the others stay as they are. *)
EXTENDS TokenRefresh, QuotaResetVotes, QuotaWindows, Membership, ConcurrencyHistory, PlanSharing

VARIABLE component   \* the one that takes steps

Parts == {"tokens", "votes", "quota", "membership", "history", "sharing"}

BackendInit ==
  /\ RefreshInit /\ VotesInit /\ QuotaInit /\ MembershipInit /\ HistoryInit /\ Init
  /\ component \in Parts
  /\ component = "sharing" \/ CreatePlan("shared", 0)

BackendNext ==
  /\ UNCHANGED component
  /\ \/ component = "tokens" /\ RefreshNext
        /\ UNCHANGED <<voteVars, quotaVars, membershipVars, historyVars, vars>>
     \/ component = "votes" /\ VotesNext
        /\ UNCHANGED <<refreshVars, quotaVars, membershipVars, historyVars, vars>>
     \/ component = "quota" /\ QuotaNext
        /\ UNCHANGED <<refreshVars, voteVars, membershipVars, historyVars, vars>>
     \/ component = "membership" /\ MembershipNext
        /\ UNCHANGED <<refreshVars, voteVars, quotaVars, historyVars, vars>>
     \/ component = "history" /\ HistoryNext
        /\ UNCHANGED <<refreshVars, voteVars, quotaVars, membershipVars, vars>>
     \/ component = "sharing" /\ Next
        /\ UNCHANGED <<refreshVars, voteVars, quotaVars, membershipVars, historyVars>>

BackendSpec ==
  BackendInit
    /\ [][BackendNext]_<<component, refreshVars, voteVars, quotaVars, membershipVars, historyVars, vars>>
=============================================================================
