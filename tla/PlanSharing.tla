---------------------------- MODULE PlanSharing ----------------------------
(***************************************************************************)
(* One shared plan: its members and their shares, its invitations, its     *)
(* public seats and the applications for them                              *)
(* (backend/internal/postgres/plan_collaboration.go, lifecycle.go,         *)
(* plan_queries.go, resource_cleanup.go).                                  *)
(*                                                                         *)
(* Each operation is one SERIALIZABLE transaction that locks the plan row, *)
(* hence one action.  A refused call leaves no trace, so only successful   *)
(* calls are steps; requireOwnerMembership only ever refuses and is taken  *)
(* to be satisfied.  The dollar limit and the concurrency limits of a      *)
(* member row are left out: joining resets them and no rule here reads     *)
(* them.                                                                   *)
(***************************************************************************)
EXTENDS Integers, FiniteSets

CONSTANTS
  Users,
  FirstOwner,    \* the user that created the plan
  Invites,       \* invitation rows, the live and the deleted
  Applications,  \* application rows, the live and the deleted
  RetentionElapses,  \* whether rows get as old as RetentionPolicy.TerminalRecords
  MaxShare,      \* domain.MaxShareBPS, 100 %
  Shares,        \* the shares that callers submit
  SlotCounts     \* the numbers of public seats that owners submit

ASSUME UsersAssumption == FirstOwner \in Users /\ IsFiniteSet(Users)
ASSUME RowsAssumption == IsFiniteSet(Invites) /\ IsFiniteSet(Applications)
ASSUME SharesAssumption == MaxShare \in Nat /\ Shares \subseteq 0 .. MaxShare /\ 0 \in Shares
ASSUME InputsAssumption ==
  /\ RetentionElapses \in BOOLEAN
  /\ SlotCounts \subseteq Nat \ {0}

VARIABLES
  plan,     \* the shared_plans row
  mem,      \* the plan_members rows, one per user
  invite,   \* the plan_invites rows; "lapsed" is pending past its expires_at
  app       \* the plan_join_applications rows

vars == <<plan, mem, invite, app>>

NoMember == [status |-> "none", role |-> "member", share |-> 0]

(* The row a user gets by joining, whether inserted or reactivated.        *)
Joined(share) == [status |-> "active", role |-> "member", share |-> share]

NoInvite == [status |-> "none", share |-> 0]
NoApplication == [status |-> "none", user |-> FirstOwner]

Active == {u \in Users : mem[u].status = "active"}

CreatePlan(mode, share) ==
  /\ mode = "shared" => share = 0
  /\ plan = [owner |-> FirstOwner, status |-> "active", visibility |-> "private", slots |-> 0,
             share |-> 0, mode |-> mode]
  /\ mem = [u \in Users |-> IF u = FirstOwner THEN [Joined(share) EXCEPT !.role = "owner"]
                                              ELSE NoMember]

Init ==
  /\ \E mode \in {"fixed", "shared"}, share \in Shares : CreatePlan(mode, share)
  /\ invite = [i \in Invites |-> NoInvite]
  /\ app = [j \in Applications |-> NoApplication]

-----------------------------------------------------------------------------
(* What is reserved                                                        *)

(* The seats that approvals occupy: one per approved application whose     *)
(* member row is active.                                                   *)
Approved == Cardinality({j \in Applications : app[j].status = "approved" /\ app[j].user \in Active})

(* The sum of some rows' shares, as SQL's sum(share_bps): the number of    *)
(* units that they hold, each the n-th unit of one row.                    *)
ShareUnits(share) == UNION {{x} \X (1 .. share[x]) : x \in DOMAIN share}

SumShares(share) == Cardinality(ShareUnits(share))

MemberShares(users) == SumShares([u \in users |-> mem[u].share])

InviteShares == SumShares([i \in {k \in Invites : invite[k].status = "pending"} |-> invite[i].share])

OpenSeats == IF plan.slots > Approved THEN plan.slots - Approved ELSE 0

(* Active members, invitations that can still be accepted and open seats.  *)
Allocated(users) == MemberShares(users) + InviteShares + OpenSeats * plan.share

(* Mutant of ShareAllowed: the mode is not looked at.                      *)
ShareUnchecked(share) == TRUE

(* The share a caller submits: zero in shared mode.                        *)
ShareAllowed(share) == plan.mode = "shared" => share = 0

-----------------------------------------------------------------------------
(* Public seats                                                            *)

UpdatePlanPublication(visibility, slots, share) ==
  /\ plan.status = "active"
  /\ visibility = "private" => slots = 0 /\ share = 0
  /\ ShareAllowed(share)
  /\ slots >= Approved
  /\ plan.mode = "fixed" =>
       MemberShares(Active) + InviteShares + (slots - Approved) * share <= MaxShare
  /\ plan' = [plan EXCEPT !.visibility = visibility, !.slots = slots, !.share = share]
  /\ UNCHANGED <<mem, invite, app>>

CreateJoinApplication(j, u) ==
  /\ plan.status = "active" /\ plan.visibility = "public"
  /\ u # plan.owner /\ u \notin Active
  /\ Approved < plan.slots
  /\ app[j].status = "none"
  /\ ~\E k \in Applications : app[k] = [status |-> "pending", user |-> u]
  /\ app' = [app EXCEPT ![j] = [status |-> "pending", user |-> u]]
  /\ UNCHANGED <<plan, mem, invite>>

(* Mutant of ApproveJoinApplication: the seats are not counted.            *)
ApproveBeyondSeats(j) ==
  /\ app[j].status = "pending" /\ plan.visibility = "public"
  /\ app[j].user \notin Active
  /\ mem' = [mem EXCEPT ![app[j].user] = Joined(plan.share)]
  /\ app' = [app EXCEPT ![j].status = "approved"]
  /\ UNCHANGED <<plan, invite>>

(* Approval does not ask whether the plan is active: archiving has made it *)
(* private.                                                                *)
ApproveJoinApplication(j) ==
  LET u == app[j].user IN
  /\ app[j].status = "pending"
  /\ plan.visibility = "public"
  /\ Approved < plan.slots
  /\ ShareAllowed(plan.share)
  /\ u \notin Active
  /\ mem' = [mem EXCEPT ![u] = Joined(plan.share)]
  /\ app' = [app EXCEPT ![j].status = "approved"]
  /\ UNCHANGED <<plan, invite>>

RejectJoinApplication(j) ==
  /\ app[j].status = "pending"
  /\ app' = [app EXCEPT ![j].status = "rejected"]
  /\ UNCHANGED <<plan, mem, invite>>

-----------------------------------------------------------------------------
(* Invitations                                                             *)

Expire(i) == IF invite[i].status = "lapsed" THEN [invite[i] EXCEPT !.status = "expired"] ELSE invite[i]

CreateInvite(i, share) ==
  /\ plan.status = "active"
  /\ invite[i].status = "none"
  /\ ShareAllowed(share)
  /\ plan.mode = "fixed" => Allocated(Active) + share <= MaxShare
  /\ invite' = [k \in Invites |-> IF k = i THEN [status |-> "pending", share |-> share] ELSE Expire(k)]
  /\ UNCHANGED <<plan, mem, app>>

(* Seven days pass.                                                        *)
InviteLapses(i) ==
  /\ invite[i].status = "pending"
  /\ invite' = [invite EXCEPT ![i].status = "lapsed"]
  /\ UNCHANGED <<plan, mem, app>>

AcceptInvite(i, u) ==
  /\ \/ /\ invite[i].status = "pending" /\ plan.status = "active"
        /\ u \notin Active
        /\ mem' = [mem EXCEPT ![u] = Joined(invite[i].share)]
        /\ invite' = [invite EXCEPT ![i].status = "accepted"]
     \/ /\ invite[i].status = "lapsed"
        /\ invite' = [invite EXCEPT ![i] = Expire(i)]
        /\ UNCHANGED mem
  /\ UNCHANGED <<plan, app>>

(* Mutant of RevokeInvite: settled invitations are revoked too.            *)
RevokeAnyInvite(i) ==
  /\ invite[i].status # "none"
  /\ invite' = [invite EXCEPT ![i].status = "revoked"]
  /\ UNCHANGED <<plan, mem, app>>

RevokeInvite(i) ==
  /\ invite[i].status = "pending"
  /\ invite' = [invite EXCEPT ![i].status = "revoked"]
  /\ UNCHANGED <<plan, mem, app>>

-----------------------------------------------------------------------------
(* Members                                                                 *)

UpdateMemberShare(u, share) ==
  /\ plan.status # "deleted"
  /\ u \in Active
  /\ ShareAllowed(share)
  /\ plan.mode = "fixed" => Allocated(Active \ {u}) + share <= MaxShare
  /\ mem' = [mem EXCEPT ![u].share = share]
  /\ UNCHANGED <<plan, invite, app>>

(* Members without an allocation, pending invitations and public seats     *)
(* get the share 0.                                                        *)
ConvertPlanToFixed(allocation) ==
  /\ plan.status # "deleted" /\ plan.mode = "shared"
  /\ SumShares(allocation) <= MaxShare
  /\ mem' = [u \in Users |-> IF u \in Active THEN [mem[u] EXCEPT !.share = allocation[u]] ELSE mem[u]]
  /\ invite' = [i \in Invites |-> IF invite[i].status \in {"pending", "lapsed"}
                                    THEN [invite[i] EXCEPT !.share = 0] ELSE invite[i]]
  /\ plan' = [plan EXCEPT !.mode = "fixed", !.share = 0]
  /\ UNCHANGED <<app>>

(* Mutant of TransferPlanOwnership: the old owner keeps the role.          *)
TransferKeepsRole(u) ==
  /\ u \in Active /\ mem[u].role = "member"
  /\ mem' = [mem EXCEPT ![u].role = "owner"]
  /\ plan' = [plan EXCEPT !.owner = u]
  /\ UNCHANGED <<invite, app>>

TransferPlanOwnership(u) ==
  /\ plan.status # "deleted"
  /\ u \in Active /\ mem[u].role = "member" /\ u # plan.owner
  /\ mem' = [v \in Users |->
               IF v = u THEN [mem[v] EXCEPT !.role = "owner"]
               ELSE IF v = plan.owner /\ mem[v].role = "owner" /\ v \in Active
                 THEN [mem[v] EXCEPT !.role = "member"]
               ELSE mem[v]]
  /\ plan' = [plan EXCEPT !.owner = u]
  /\ UNCHANGED <<invite, app>>

(* The owner removes a member, or the member leaves.  The share stays in   *)
(* the removed row.  (Module KeyRoutes adds the routes it switches off.)   *)
RemovePlanMember(u) ==
  /\ u \in Active /\ mem[u].role # "owner"
  /\ mem' = [mem EXCEPT ![u].status = "removed"]
  /\ UNCHANGED <<plan, invite, app>>

-----------------------------------------------------------------------------
(* The plan's life                                                         *)

(* Mutant of Archive: pending applications are left alone.                 *)
ArchiveKeepsApplications ==
  /\ plan.status = "active"
  /\ plan' = [plan EXCEPT !.status = "archived", !.visibility = "private", !.slots = 0, !.share = 0]
  /\ invite' = [i \in Invites |-> IF invite[i].status \in {"pending", "lapsed"}
                                    THEN [invite[i] EXCEPT !.status = "revoked"] ELSE invite[i]]
  /\ UNCHANGED <<mem, app>>

Archive ==
  /\ plan.status = "active"
  /\ plan' = [plan EXCEPT !.status = "archived", !.visibility = "private", !.slots = 0, !.share = 0]
  /\ invite' = [i \in Invites |-> IF invite[i].status \in {"pending", "lapsed"}
                                    THEN [invite[i] EXCEPT !.status = "revoked"] ELSE invite[i]]
  /\ app' = [j \in Applications |-> IF app[j].status = "pending"
                                      THEN [app[j] EXCEPT !.status = "rejected"] ELSE app[j]]
  /\ UNCHANGED <<mem>>

Restore ==
  /\ plan.status = "archived"
  /\ plan' = [plan EXCEPT !.status = "active"]
  /\ UNCHANGED <<mem, invite, app>>

(* The foreign keys delete everything that hangs on the plan.              *)
DeletePlan ==
  /\ plan.status = "archived"
  /\ plan' = [plan EXCEPT !.status = "deleted"]
  /\ mem' = [u \in Users |-> NoMember]
  /\ invite' = [i \in Invites |-> NoInvite]
  /\ app' = [j \in Applications |-> NoApplication]

(* CleanupResources deletes old rows in their final status, approved       *)
(* applications included.                                                  *)
CleanupInvite(i) ==
  /\ RetentionElapses
  /\ invite[i].status \in {"lapsed", "expired", "accepted", "revoked"}
  /\ invite' = [invite EXCEPT ![i] = NoInvite]
  /\ UNCHANGED <<plan, mem, app>>

CleanupApplication(j) ==
  /\ RetentionElapses
  /\ app[j].status \in {"approved", "rejected"}
  /\ app' = [app EXCEPT ![j] = NoApplication]
  /\ UNCHANGED <<plan, mem, invite>>

-----------------------------------------------------------------------------
PublicNext ==
  \/ \E slots \in SlotCounts, share \in Shares : UpdatePlanPublication("public", slots, share)
  \/ UpdatePlanPublication("private", 0, 0)
  \/ \E j \in Applications, u \in Users : CreateJoinApplication(j, u)
  \/ \E j \in Applications : ApproveJoinApplication(j) \/ RejectJoinApplication(j) \/ CleanupApplication(j)

InviteNext ==
  \/ \E i \in Invites, share \in Shares : CreateInvite(i, share)
  \/ \E i \in Invites, u \in Users : AcceptInvite(i, u)
  \/ \E i \in Invites : InviteLapses(i) \/ RevokeInvite(i) \/ CleanupInvite(i)

ShareNext ==
  \/ \E u \in Users, share \in Shares : UpdateMemberShare(u, share)
  \/ \E allocation \in [Active -> Shares] : ConvertPlanToFixed(allocation)

MemberNext == ShareNext \/ \E u \in Users : TransferPlanOwnership(u) \/ RemovePlanMember(u)

LifeNext == Archive \/ Restore \/ DeletePlan

Next == PublicNext \/ InviteNext \/ MemberNext \/ LifeNext

Spec == Init /\ [][Next]_vars
-----------------------------------------------------------------------------
(* Properties                                                              *)

(* Every row keeps its type (migrations 001 to 035).                       *)
SharingTypeOK ==
  /\ plan \in [owner : Users, status : {"active", "archived", "deleted"},
               visibility : {"private", "public"}, slots : SlotCounts \cup {0}, share : 0 .. MaxShare,
               mode : {"fixed", "shared"}]
  /\ mem \in [Users -> [status : {"none", "active", "removed"}, role : {"owner", "member"},
                        share : 0 .. MaxShare]]
  /\ invite \in [Invites -> [status : {"none", "pending", "lapsed", "expired", "accepted", "revoked"},
                             share : 0 .. MaxShare]]
  /\ app \in [Applications -> [status : {"none", "pending", "approved", "rejected"}, user : Users]]

(* The plan has exactly one owner, an active member, and it is the user    *)
(* the plan row names, through transfers, removals and rejoinings.         *)
OneOwner ==
  plan.status # "deleted" =>
    {u \in Users : mem[u].role = "owner"} = {plan.owner} /\ plan.owner \in Active

(* An archived plan takes nobody in: archiving settles every invitation    *)
(* and application, and none is made or accepted afterwards.               *)
ArchivedTakesNobody ==
  plan.status = "archived" =>
    /\ plan.visibility = "private" /\ plan.slots = 0
    /\ \A i \in Invites : invite[i].status \notin {"pending", "lapsed"}
    /\ \A j \in Applications : app[j].status # "pending"

(* In shared mode nothing that can still be used carries a share.          *)
SharedModeHasNoShares ==
  plan.mode = "shared" =>
    /\ plan.share = 0
    /\ \A u \in Active : mem[u].share = 0
    /\ \A i \in Invites : invite[i].status = "pending" => invite[i].share = 0

(* Joining, by invitation or by approval, uses what was reserved for it:   *)
(* it never raises the plan's allocated total.                             *)
JoiningUsesReservation ==
  [][plan'.mode = "fixed" /\ Active' # Active /\ Active \subseteq Active'
       => Allocated(Active)' <= Allocated(Active)]_vars

(* An invitation admits at most once: what is accepted, revoked or expired *)
(* is final until the row is deleted.                                      *)
InvitesSettleOnce ==
  [][\A i \in Invites : invite[i].status \in {"accepted", "revoked", "expired"} =>
       invite'[i].status \in {invite[i].status, "none"}]_vars

(* Members' shares of a fixed plan stay within 100 %.                      *)
MemberSharesWithin100 == plan.mode = "fixed" => MemberShares(Active) <= MaxShare
=============================================================================
