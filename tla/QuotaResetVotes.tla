-------------------------- MODULE QuotaResetVotes --------------------------
(***************************************************************************)
(* Resets of a plan's quota, by a vote of its members or by its owner or   *)
(* an administrator: the votes, the execution lease and the requests that  *)
(* carry a reset out (quota_reset_votes.go, management_handlers.go).       *)
(*                                                                         *)
(* One plan in shared mode, so that a majority is counted in members.      *)
(* Every store call is one serializable transaction; a request may die     *)
(* between two of them.  Time is counted in execution terms of 15 minutes. *)
(*                                                                         *)
(* Not modelled: fixed shares as weights, and the draining of the account  *)
(* around a reset (AccountTraffic), which only excludes requests of the    *)
(* same process; its failure is the failed preflight.                      *)
(***************************************************************************)
EXTENDS Integers, FiniteSets

CONSTANTS
  Members,       \* users that may be members of the plan
  Resets,        \* requests that carry out a reset
  Votes,         \* 1 .. n, the ids of votes in the order they are created
  NoVote,
  VoteTTL,       \* quotaResetVoteTTL, 2 h
  LeaseTTL,      \* quotaResetExecutionLeaseTTL, 15 min
  MaxTime

ASSUME VotesAssumption ==
  /\ NoVote \notin Votes /\ Votes \subseteq Nat
  /\ VoteTTL \in Nat \ {0} /\ LeaseTTL \in Nat \ {0} /\ MaxTime \in Nat

VARIABLES
  clock,
  joined,       \* the plan's active members
  generation,   \* shared_plans.account_binding_generation
  vote,         \* the quota_reset_votes rows and their members' choices
  lease,        \* the plan's quota_reset_execution_leases row
  reset,        \* each request: where it is and what it executes
  spent         \* reset credits consumed upstream, by vote

voteVars == <<clock, joined, generation, vote, lease, reset, spent>>

NotCreated == [status |-> "none", eligible |-> {}, support |-> {}, generation |-> 0, created |-> 0,
               started |-> 0]

NoLease == [of |-> NoVote, acquired |-> 0, held |-> FALSE]

NoReset == [at |-> "idle", vote |-> NoVote, generation |-> 0, acquired |-> 0]

VotesInit ==
  /\ clock = 0 /\ generation = 0
  /\ joined = Members
  /\ vote = [v \in Votes |-> NotCreated]
  /\ lease = NoLease
  /\ reset = [e \in Resets |-> NoReset]
  /\ spent = [v \in Votes |-> 0]

quotaResetVotePassed(v) == Cardinality(v.support) * 2 > Cardinality(v.eligible)

-----------------------------------------------------------------------------
(* Shared parts of the transactions                                        *)

(* MUTANT: a change of the members does not cancel the vote.               *)
ReconcileBinding(v) ==
  CASE v.status = "executing" /\ v.started + LeaseTTL <= clock -> [v EXCEPT !.status = "outcome_unknown"]
    [] v.status = "active" /\ v.created + VoteTTL <= clock -> [v EXCEPT !.status = "expired"]
    [] v.status = "active" /\ v.created + VoteTTL > clock /\ v.generation # generation ->
         [v EXCEPT !.status = "cancelled"]
    [] OTHER -> v

(* What reconcileQuotaResetVote makes of a vote: an execution that was     *)
(* interrupted, a vote whose time is up, one whose plan has changed.       *)
reconcileQuotaResetVote(v) ==
  CASE v.status = "executing" /\ v.started + LeaseTTL <= clock -> [v EXCEPT !.status = "outcome_unknown"]
    [] v.status = "active" /\ v.created + VoteTTL <= clock -> [v EXCEPT !.status = "expired"]
    [] v.status = "active" /\ v.created + VoteTTL > clock
         /\ (v.generation # generation \/ v.eligible # joined) -> [v EXCEPT !.status = "cancelled"]
    [] OTHER -> v

Reconciled == [v \in Votes |-> reconcileQuotaResetVote(vote[v])]

(* rejectActiveQuotaResetExecution                                         *)
LeaseActive == lease.held /\ lease.acquired + LeaseTTL > clock

Open(votes) == {v \in Votes : votes[v].status \in {"active", "executing"}}

-----------------------------------------------------------------------------
(* The members                                                             *)

(* The request e creates a vote; when its own support is a majority it     *)
(* goes on to execute it.                                                  *)
CreateQuotaResetVote(e, m, v) ==
  LET new == [status |-> "active", eligible |-> joined, support |-> {m}, generation |-> generation,
              created |-> clock, started |-> 0]
      passed == quotaResetVotePassed(new)
  IN  /\ reset[e].at = "idle" /\ m \in joined
      /\ vote[v].status = "none" /\ \A w \in Votes : w < v => vote[w].status # "none"
      /\ Open(Reconciled) = {} /\ ~LeaseActive
      /\ vote' = [Reconciled EXCEPT ![v] = IF passed THEN [new EXCEPT !.status = "executing", !.started = clock]
                                           ELSE new]
      /\ lease' = NoLease
      /\ reset' = IF passed THEN [reset EXCEPT ![e] = [NoReset EXCEPT !.at = "passed", !.vote = v]] ELSE reset
      /\ UNCHANGED <<clock, joined, generation, spent>>

(* A member of the plan and of the vote supports or opposes it.  A vote    *)
(* that is closed meanwhile is left as reconciled.                         *)
CastQuotaResetVote(e, m, v, support) ==
  LET old == Reconciled[v]
      cast == [old EXCEPT !.support = IF support THEN @ \cup {m} ELSE @ \ {m}]
      passed == quotaResetVotePassed(cast)
  IN  /\ reset[e].at = "idle" /\ vote[v].status # "none"
      /\ IF old.status # "active" THEN vote' = Reconciled /\ UNCHANGED reset
         ELSE /\ m \in old.eligible \cap joined
              /\ vote' = [Reconciled EXCEPT ![v] = IF passed THEN [cast EXCEPT !.status = "executing", !.started = clock]
                                                   ELSE cast]
              /\ reset' = IF passed THEN [reset EXCEPT ![e] = [NoReset EXCEPT !.at = "passed", !.vote = v]]
                          ELSE reset
      /\ UNCHANGED <<clock, joined, generation, lease, spent>>

(* QuotaResetVote, the view of a member, also reconciles.                  *)
ViewQuotaResetVote ==
  /\ joined # {} /\ Reconciled # vote
  /\ vote' = Reconciled
  /\ UNCHANGED <<clock, joined, generation, lease, reset, spent>>

-----------------------------------------------------------------------------
(* The execution of a reset                                                *)

(* CompleteQuotaResetVote: only an executing vote is settled.              *)
Completed(v, status) ==
  IF v # NoVote /\ vote[v].status = "executing" THEN [vote EXCEPT ![v].status = status] ELSE vote

(* The account cannot be drained.                                          *)
PreflightFails(e) ==
  /\ reset[e].at = "passed"
  /\ vote' = Completed(reset[e].vote, "cancelled")
  /\ reset' = [reset EXCEPT ![e] = NoReset]
  /\ UNCHANGED <<clock, joined, generation, lease, spent>>

(* QuiescePlanQuotaForMember, or the start of a manual reset: the account  *)
(* and the generation the request will work on are read here.              *)
Prepare(e) ==
  /\ reset[e].at \in {"passed", "idle"}
  /\ reset' = [reset EXCEPT ![e].at = "prepared", ![e].generation = generation]
  /\ UNCHANGED <<clock, joined, generation, vote, lease, spent>>

(* The lease is taken; the generation is not read again.                   *)
Reserved(e) == [reset EXCEPT ![e].at = "reserved", ![e].generation = 0, ![e].acquired = clock]

(* MUTANT: a vote that is being executed does not stop a manual reset.     *)
ReserveManualOverVote(e) ==
  /\ reset[e].at = "prepared" /\ reset[e].vote = NoVote
  /\ IF reset[e].generation = generation /\ ~LeaseActive
     THEN /\ vote' = [v \in Votes |-> IF Reconciled[v].status = "active"
                                      THEN [Reconciled[v] EXCEPT !.status = "cancelled"] ELSE Reconciled[v]]
          /\ lease' = [of |-> NoVote, acquired |-> clock, held |-> TRUE]
          /\ reset' = Reserved(e)
     ELSE reset' = [reset EXCEPT ![e] = NoReset] /\ UNCHANGED <<vote, lease>>
  /\ UNCHANGED <<clock, joined, generation, spent>>

(* A manual reset cancels a vote that is still open, and is refused while  *)
(* another reset is executed.                                              *)
ReserveManualQuotaReset(e) ==
  /\ reset[e].at = "prepared" /\ reset[e].vote = NoVote
  /\ IF /\ reset[e].generation = generation /\ ~LeaseActive
        /\ \A v \in Votes : Reconciled[v].status # "executing"
     THEN /\ vote' = [v \in Votes |-> IF Reconciled[v].status = "active"
                                      THEN [Reconciled[v] EXCEPT !.status = "cancelled"] ELSE Reconciled[v]]
          /\ lease' = [of |-> NoVote, acquired |-> clock, held |-> TRUE]
          /\ reset' = Reserved(e)
     ELSE reset' = [reset EXCEPT ![e] = NoReset] /\ UNCHANGED <<vote, lease>>
  /\ UNCHANGED <<clock, joined, generation, spent>>

ReserveVotedQuotaReset(e) ==
  LET v == reset[e].vote
  IN  /\ reset[e].at = "prepared" /\ v # NoVote
      /\ IF /\ reset[e].generation = generation /\ ~LeaseActive
            /\ vote[v].status = "executing" /\ vote[v].generation = generation
         THEN /\ lease' = [of |-> v, acquired |-> clock, held |-> TRUE]
              /\ reset' = Reserved(e)
              /\ UNCHANGED vote
         ELSE /\ vote' = Completed(v, "cancelled")
              /\ reset' = [reset EXCEPT ![e] = NoReset]
              /\ UNCHANGED lease
      /\ UNCHANGED <<clock, joined, generation, spent>>

(* The credit is consumed, with an answer or without one.                  *)
ConsumeQuotaResetCredit(e, answered) ==
  LET v == reset[e].vote
  IN  /\ reset[e].at = "reserved"
      /\ spent' = IF v = NoVote THEN spent ELSE [spent EXCEPT ![v] = @ + 1]
      /\ reset' = [reset EXCEPT ![e].at = IF answered THEN "consumed" ELSE "unanswered"]
      /\ UNCHANGED <<clock, joined, generation, vote, lease>>

(* MUTANT: an unanswered consumption is settled as a failed preflight.     *)
CompleteAsCancelled(e, synced) ==
  /\ reset[e].at \in {"consumed", "unanswered"}
  /\ vote' = Completed(reset[e].vote, IF reset[e].at = "unanswered" THEN "cancelled"
                                      ELSE IF synced THEN "succeeded" ELSE "succeeded_unsynced")
  /\ reset' = [reset EXCEPT ![e].at = "settled"]
  /\ UNCHANGED <<clock, joined, generation, lease, spent>>

(* The result of a voted reset is recorded, synced when the new quota was  *)
(* recorded too; a manual one has nothing to settle.                       *)
CompleteQuotaResetVote(e, synced) ==
  /\ reset[e].at \in {"consumed", "unanswered"}
  /\ vote' = Completed(reset[e].vote, IF reset[e].at = "unanswered" THEN "outcome_unknown"
                                      ELSE IF synced THEN "succeeded" ELSE "succeeded_unsynced")
  /\ reset' = [reset EXCEPT ![e].at = "settled"]
  /\ UNCHANGED <<clock, joined, generation, lease, spent>>

(* The lease is deleted if it is still that of this operation.             *)
ReleaseQuotaResetExecution(e) ==
  /\ reset[e].at = "settled"
  /\ lease' = IF lease.held /\ lease.acquired = reset[e].acquired /\ lease.of = reset[e].vote
              THEN NoLease ELSE lease
  /\ reset' = [reset EXCEPT ![e] = NoReset]
  /\ UNCHANGED <<clock, joined, generation, vote, spent>>

(* The process of a request dies.                                          *)
RequestDies(e) ==
  /\ reset[e].at # "idle"
  /\ reset' = [reset EXCEPT ![e] = NoReset]
  /\ UNCHANGED <<clock, joined, generation, vote, lease, spent>>

-----------------------------------------------------------------------------
(* The plan and the time                                                   *)

LeavePlan(m) ==
  /\ m \in joined /\ joined' = joined \ {m}
  /\ UNCHANGED <<clock, generation, vote, lease, reset, spent>>

JoinPlan(m) ==
  /\ m \notin joined /\ joined' = joined \cup {m}
  /\ UNCHANGED <<clock, generation, vote, lease, reset, spent>>

(* Another account is bound, which happens at most once here.              *)
RebindPlan ==
  /\ generation = 0 /\ generation' = 1
  /\ UNCHANGED <<clock, joined, vote, lease, reset, spent>>

TermPasses ==
  /\ clock < MaxTime /\ clock' = clock + 1
  /\ UNCHANGED <<joined, generation, vote, lease, reset, spent>>

VotesNext ==
  \/ \E e \in Resets :
       \/ \E m \in Members, v \in Votes : \/ CreateQuotaResetVote(e, m, v)
                                          \/ \E support \in BOOLEAN : CastQuotaResetVote(e, m, v, support)
       \/ PreflightFails(e) \/ Prepare(e) \/ ReserveManualQuotaReset(e) \/ ReserveVotedQuotaReset(e)
       \/ \E b \in BOOLEAN : ConsumeQuotaResetCredit(e, b) \/ CompleteQuotaResetVote(e, b)
       \/ ReleaseQuotaResetExecution(e) \/ RequestDies(e)
  \/ ViewQuotaResetVote \/ RebindPlan \/ TermPasses
  \/ \E m \in Members : LeavePlan(m) \/ JoinPlan(m)

VotesSpec == VotesInit /\ [][VotesNext]_voteVars

-----------------------------------------------------------------------------
(* Properties                                                              *)

(* A vote passes only with the support of a strict majority of those who   *)
(* are members at that moment, although members come and go while it runs  *)
(* (reconcileQuotaResetVote inside CastQuotaResetVote).                    *)
MajorityOfMembers ==
  [][\A v \in Votes : vote[v].status # "executing" /\ vote'[v].status = "executing"
        => Cardinality(vote'[v].support \cap joined) * 2 > Cardinality(joined)]_voteVars

(* Members who are told that a vote was cancelled or expired, and that     *)
(* nothing was consumed, are told the truth; and no vote consumes twice.   *)
CancelledSpendsNothing ==
  \A v \in Votes : /\ spent[v] <= 1
                   /\ vote[v].status \in {"active", "expired", "cancelled"} => spent[v] = 0

Reserving(e) == reset[e].at \in {"reserved", "consumed", "unanswered"} /\ reset[e].acquired + LeaseTTL > clock

(* Within its 15 minutes a reset is alone: no second request has reserved  *)
(* one, nor has any other than its own while a vote is being executed,     *)
(* even if the request that was to execute it has died.                    *)
OneExecution ==
  \A e \in Resets : Reserving(e) =>
    /\ \A f \in Resets \ {e} : ~Reserving(f)
    /\ \A v \in Votes : vote[v].status = "executing" /\ vote[v].started + LeaseTTL > clock => reset[e].vote = v
=============================================================================
