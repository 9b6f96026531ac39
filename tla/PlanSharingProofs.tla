-------------------------- MODULE PlanSharingProofs --------------------------
(***************************************************************************)
(* Proofs about PlanSharing, for any users, rows, shares and seat counts.  *)
(***************************************************************************)
EXTENDS PlanSharing, FiniteSetTheorems, TLAPS

(* The inductive invariant.  The parts lean on each other only through the *)
(* types and OneOwner; each says what a different table owes the plan row. *)
SharingInv ==
  /\ SharingTypeOK
  /\ OneOwner
  /\ ArchivedTakesNobody
  /\ SharedModeHasNoShares

-----------------------------------------------------------------------------

LEMMA SharingStarts == Init => SharingInv
<1> SUFFICES ASSUME Init PROVE SharingInv
  OBVIOUS
<1>1. PICK mode \in {"fixed", "shared"}, share \in Shares : CreatePlan(mode, share)
  BY DEF Init
<1>2. share \in 0 .. MaxShare /\ 0 \in 0 .. MaxShare /\ FirstOwner \in Users
  BY SharesAssumption, UsersAssumption
<1>3. SharingTypeOK
  BY <1>1, <1>2 DEF Init, CreatePlan, SharingTypeOK, Joined, NoMember, NoInvite, NoApplication
<1>4. OneOwner
  BY <1>1, <1>2 DEF CreatePlan, OneOwner, Active, Joined, NoMember
<1>5. ArchivedTakesNobody
  BY <1>1 DEF CreatePlan, ArchivedTakesNobody
<1>6. SharedModeHasNoShares
  BY <1>1, <1>2 DEF Init, CreatePlan, SharedModeHasNoShares, Active, Joined, NoMember, NoInvite
<1> QED BY <1>3, <1>4, <1>5, <1>6 DEF SharingInv

(* A user who is not a member joins with a share that the mode allows.     *)
LEMMA JoinStep ==
  ASSUME SharingInv, NEW u \in Users, u \notin Active, NEW share \in 0 .. MaxShare,
         plan.mode = "shared" => share = 0, plan' = plan,
         mem' = [mem EXCEPT ![u] = Joined(share)]
  PROVE  /\ mem' \in [Users -> [status : {"none", "active", "removed"}, role : {"owner", "member"},
                                share : 0 .. MaxShare]]
         /\ OneOwner'
         /\ plan.mode = "shared" => \A v \in Active' : mem'[v].share = 0
<1> USE DEF SharingInv
<1>1. mem' \in [Users -> [status : {"none", "active", "removed"}, role : {"owner", "member"},
                          share : 0 .. MaxShare]]
  BY DEF SharingTypeOK, Joined
<1>2. /\ mem'[u] = Joined(share)
      /\ \A v \in Users : v # u => mem'[v] = mem[v]
  BY DEF SharingTypeOK
<1>3. OneOwner'
  BY <1>2 DEF OneOwner, Active, Joined
<1>4. plan.mode = "shared" => \A v \in Active' : mem'[v].share = 0
  BY <1>2 DEF SharedModeHasNoShares, Active, Joined
<1> QED BY <1>1, <1>3, <1>4

-----------------------------------------------------------------------------
(* Public seats                                                            *)

LEMMA PublicationStep ==
  ASSUME SharingInv, NEW visibility \in {"private", "public"}, NEW slots \in SlotCounts \cup {0},
         NEW share \in 0 .. MaxShare, UpdatePlanPublication(visibility, slots, share)
  PROVE  SharingInv'
<1>1. /\ plan.status = "active" /\ (plan.mode = "shared" => share = 0)
      /\ plan' = [plan EXCEPT !.visibility = visibility, !.slots = slots, !.share = share]
      /\ UNCHANGED <<mem, invite, app>>
  BY DEF UpdatePlanPublication, ShareAllowed
<1>2. SharingTypeOK'
  BY <1>1 DEF SharingInv, SharingTypeOK
<1>3. OneOwner'
  BY <1>1 DEF SharingInv, SharingTypeOK, OneOwner, Active
<1>4. ArchivedTakesNobody'
  BY <1>1 DEF SharingInv, SharingTypeOK, ArchivedTakesNobody
<1>5. SharedModeHasNoShares'
  BY <1>1 DEF SharingInv, SharingTypeOK, SharedModeHasNoShares, Active
<1> QED BY <1>2, <1>3, <1>4, <1>5 DEF SharingInv

LEMMA ApplicationStep ==
  ASSUME SharingInv, NEW j \in Applications,
         \/ \E u \in Users : CreateJoinApplication(j, u)
         \/ RejectJoinApplication(j) \/ CleanupApplication(j)
  PROVE  SharingInv'
<1>1. /\ UNCHANGED <<plan, mem, invite>>
      /\ \E x \in [status : {"none", "pending", "approved", "rejected"}, user : Users] :
           /\ app' = [app EXCEPT ![j] = x]
           /\ x.status = "pending" => plan.status = "active"
  <2>1. CASE \E u \in Users : CreateJoinApplication(j, u)
    <3>1. PICK u \in Users : CreateJoinApplication(j, u)
      BY <2>1
    <3>2. [status |-> "pending", user |-> u] \in [status : {"none", "pending", "approved", "rejected"}, user : Users]
      OBVIOUS
    <3> QED BY <3>1, <3>2, Zenon DEF CreateJoinApplication
  <2>2. CASE RejectJoinApplication(j)
    <3>1. PICK x : x = [app[j] EXCEPT !.status = "rejected"]
      OBVIOUS
    <3>2. /\ x \in [status : {"none", "pending", "approved", "rejected"}, user : Users]
          /\ x.status = "rejected"
      BY <3>1 DEF SharingInv, SharingTypeOK
    <3>3. app' = [app EXCEPT ![j] = x] /\ UNCHANGED <<plan, mem, invite>>
      BY <2>2, <3>1 DEF RejectJoinApplication
    <3> QED BY <3>2, <3>3
  <2>3. CASE CleanupApplication(j)
    <3>1. /\ NoApplication \in [status : {"none", "pending", "approved", "rejected"}, user : Users]
          /\ NoApplication.status = "none"
      BY UsersAssumption DEF NoApplication
    <3> QED BY <2>3, <3>1 DEF CleanupApplication
  <2> QED BY <2>1, <2>2, <2>3
<1>2. SharingTypeOK' /\ ArchivedTakesNobody'
  BY <1>1 DEF SharingInv, SharingTypeOK, ArchivedTakesNobody
<1>3. OneOwner' /\ SharedModeHasNoShares'
  BY <1>1 DEF SharingInv, OneOwner, SharedModeHasNoShares, Active
<1> QED BY <1>2, <1>3 DEF SharingInv

LEMMA ApproveStep ==
  ASSUME SharingInv, NEW j \in Applications, ApproveJoinApplication(j)
  PROVE  SharingInv'
<1>1. app[j].user \in Users /\ plan.share \in 0 .. MaxShare
  BY DEF SharingInv, SharingTypeOK
<1>2. /\ plan.visibility = "public" /\ (plan.mode = "shared" => plan.share = 0)
      /\ app[j].user \notin Active
      /\ mem' = [mem EXCEPT ![app[j].user] = Joined(plan.share)]
      /\ app' = [app EXCEPT ![j].status = "approved"]
      /\ UNCHANGED <<plan, invite>>
  BY <1>1 DEF ApproveJoinApplication, ShareAllowed
<1>3. /\ mem' \in [Users -> [status : {"none", "active", "removed"}, role : {"owner", "member"},
                             share : 0 .. MaxShare]]
      /\ OneOwner'
      /\ plan.mode = "shared" => \A v \in Active' : mem'[v].share = 0
  BY <1>1, <1>2, JoinStep
<1>4. SharingTypeOK'
  BY <1>1, <1>2, <1>3 DEF SharingInv, SharingTypeOK
<1>5. ArchivedTakesNobody'
  BY <1>2 DEF SharingInv, ArchivedTakesNobody
<1>6. SharedModeHasNoShares'
  BY <1>2, <1>3 DEF SharingInv, SharedModeHasNoShares
<1> QED BY <1>3, <1>4, <1>5, <1>6 DEF SharingInv

-----------------------------------------------------------------------------
(* Invitations                                                             *)

InviteRows == [status : {"none", "pending", "lapsed", "expired", "accepted", "revoked"}, share : 0 .. MaxShare]

(* What an operation on invitations leaves of one row.  A row becomes      *)
(* pending only when it is created, in an active plan, with a share that   *)
(* the mode allows; what is settled stays so until it is deleted.          *)
InviteRowStep(old, new) ==
  \/ new = old
  \/ old.status = "pending" /\ plan.status # "archived" /\ new = [old EXCEPT !.status = "lapsed"]
  \/ old.status \in {"pending", "lapsed"} /\ new.status \in {"expired", "accepted", "revoked", "none"}
  \/ old.status # "none" /\ new = NoInvite
  \/ /\ old.status = "none" /\ plan.status = "active" /\ new.status = "pending"
     /\ plan.mode = "shared" => new.share = 0

LEMMA InviteRowsStep ==
  ASSUME SharingInv, UNCHANGED plan, invite' \in [Invites -> InviteRows],
         \A i \in Invites : InviteRowStep(invite[i], invite'[i])
  PROVE  /\ plan.status = "archived" => \A i \in Invites : invite'[i].status \notin {"pending", "lapsed"}
         /\ plan.mode = "shared" => \A i \in Invites : invite'[i].status = "pending" => invite'[i].share = 0
<1> SUFFICES ASSUME NEW i \in Invites
             PROVE  /\ plan.status = "archived" => invite'[i].status \notin {"pending", "lapsed"}
                    /\ plan.mode = "shared" /\ invite'[i].status = "pending" => invite'[i].share = 0
  OBVIOUS
<1>1. PICK old, new \in InviteRows : old = invite[i] /\ new = invite'[i]
  BY DEF SharingInv, SharingTypeOK, InviteRows
<1>2. /\ InviteRowStep(old, new)
      /\ plan.status = "archived" => old.status \notin {"pending", "lapsed"}
      /\ plan.mode = "shared" /\ old.status = "pending" => old.share = 0
  BY <1>1 DEF SharingInv, ArchivedTakesNobody, SharedModeHasNoShares
<1> QED BY <1>1, <1>2 DEF InviteRowStep, InviteRows, NoInvite

LEMMA InviteSteps ==
  ASSUME SharingInv, NEW i \in Invites,
         \/ \E share \in Shares : CreateInvite(i, share)
         \/ \E u \in Users : AcceptInvite(i, u)
         \/ InviteLapses(i) \/ RevokeInvite(i) \/ CleanupInvite(i)
  PROVE  /\ UNCHANGED <<plan, app>>
         /\ invite' \in [Invites -> InviteRows]
         /\ \A k \in Invites : InviteRowStep(invite[k], invite'[k])
<1>0. invite \in [Invites -> InviteRows] /\ NoInvite \in InviteRows
  BY SharesAssumption DEF SharingInv, SharingTypeOK, InviteRows, NoInvite
<1>1. CASE \E share \in Shares : CreateInvite(i, share)
  <2>1. PICK share \in Shares : CreateInvite(i, share)
    BY <1>1
  <2>2. share \in 0 .. MaxShare
    BY SharesAssumption
  <2>3. \A k \in Invites : Expire(k) \in InviteRows /\ InviteRowStep(invite[k], Expire(k))
    BY <1>0 DEF Expire, InviteRows, InviteRowStep
  <2>4. InviteRowStep(invite[i], [status |-> "pending", share |-> share])
    BY <2>1 DEF CreateInvite, ShareAllowed, InviteRowStep
  <2> QED BY <2>1, <2>2, <2>3, <2>4 DEF CreateInvite, InviteRows
<1>2. CASE \E u \in Users : AcceptInvite(i, u)
  BY <1>0, <1>2 DEF AcceptInvite, Expire, InviteRows, InviteRowStep
<1>3. CASE InviteLapses(i)
  <2>1. plan.status # "archived"
    BY <1>3 DEF InviteLapses, SharingInv, ArchivedTakesNobody
  <2> QED BY <1>0, <1>3, <2>1 DEF InviteLapses, InviteRows, InviteRowStep
<1>4. CASE RevokeInvite(i)
  BY <1>0, <1>4 DEF RevokeInvite, InviteRows, InviteRowStep
<1>5. CASE CleanupInvite(i)
  BY <1>0, <1>5 DEF CleanupInvite, InviteRowStep
<1> QED BY <1>1, <1>2, <1>3, <1>4, <1>5

LEMMA InviteStep ==
  ASSUME SharingInv, NEW i \in Invites,
         \/ \E share \in Shares : CreateInvite(i, share)
         \/ \E u \in Users : AcceptInvite(i, u)
         \/ InviteLapses(i) \/ RevokeInvite(i) \/ CleanupInvite(i)
  PROVE  SharingInv'
<1>1. /\ UNCHANGED <<plan, app>>
      /\ invite' \in [Invites -> InviteRows]
      /\ plan.status = "archived" => \A k \in Invites : invite'[k].status \notin {"pending", "lapsed"}
      /\ plan.mode = "shared" => \A k \in Invites : invite'[k].status = "pending" => invite'[k].share = 0
  BY InviteSteps, InviteRowsStep
<1>2. /\ mem' \in [Users -> [status : {"none", "active", "removed"}, role : {"owner", "member"},
                             share : 0 .. MaxShare]]
      /\ OneOwner'
      /\ plan.mode = "shared" => \A v \in Active' : mem'[v].share = 0
  <2>1. CASE UNCHANGED mem
    BY <1>1, <2>1 DEF SharingInv, SharingTypeOK, OneOwner, SharedModeHasNoShares, Active
  <2>2. CASE mem' # mem
    <3>1. PICK u \in Users : AcceptInvite(i, u)
      BY <2>2 DEF CreateInvite, InviteLapses, RevokeInvite, CleanupInvite
    <3>2. /\ u \notin Active /\ invite[i].status = "pending"
          /\ mem' = [mem EXCEPT ![u] = Joined(invite[i].share)]
      BY <2>2, <3>1 DEF AcceptInvite
    <3>3. /\ invite[i].share \in 0 .. MaxShare
          /\ plan.mode = "shared" => invite[i].share = 0
      BY <3>2 DEF SharingInv, SharingTypeOK, SharedModeHasNoShares
    <3> QED BY <1>1, <3>2, <3>3, JoinStep
  <2> QED BY <2>1, <2>2
<1>3. SharingTypeOK'
  BY <1>1, <1>2 DEF SharingInv, SharingTypeOK, InviteRows
<1>4. ArchivedTakesNobody' /\ SharedModeHasNoShares'
  BY <1>1, <1>2 DEF SharingInv, ArchivedTakesNobody, SharedModeHasNoShares
<1> QED BY <1>2, <1>3, <1>4 DEF SharingInv

-----------------------------------------------------------------------------
(* Members                                                                 *)

LEMMA ShareStep ==
  ASSUME SharingInv, NEW u \in Users, NEW share \in Shares, UpdateMemberShare(u, share)
  PROVE  SharingInv'
<1>1. /\ share \in 0 .. MaxShare /\ (plan.mode = "shared" => share = 0)
      /\ mem' = [mem EXCEPT ![u].share = share]
      /\ UNCHANGED <<plan, invite, app>>
  BY SharesAssumption DEF UpdateMemberShare, ShareAllowed
<1>2. SharingTypeOK'
  BY <1>1 DEF SharingInv, SharingTypeOK
<1>3. OneOwner'
  BY <1>1 DEF SharingInv, SharingTypeOK, OneOwner, Active
<1>4. ArchivedTakesNobody'
  BY <1>1 DEF SharingInv, ArchivedTakesNobody
<1>5. SharedModeHasNoShares'
  BY <1>1 DEF SharingInv, SharingTypeOK, SharedModeHasNoShares, Active
<1> QED BY <1>2, <1>3, <1>4, <1>5 DEF SharingInv

LEMMA ConvertStep ==
  ASSUME SharingInv, NEW allocation \in [Active -> Shares], ConvertPlanToFixed(allocation)
  PROVE  SharingInv'
<1>1. /\ mem' = [u \in Users |-> IF u \in Active THEN [mem[u] EXCEPT !.share = allocation[u]] ELSE mem[u]]
      /\ invite' = [i \in Invites |-> IF invite[i].status \in {"pending", "lapsed"}
                                        THEN [invite[i] EXCEPT !.share = 0] ELSE invite[i]]
      /\ plan' = [plan EXCEPT !.mode = "fixed", !.share = 0]
      /\ UNCHANGED app
  BY DEF ConvertPlanToFixed
<1>2. /\ 0 \in 0 .. MaxShare
      /\ \A u \in Active : allocation[u] \in 0 .. MaxShare
  BY SharesAssumption
<1>3. plan' \in [owner : Users, status : {"active", "archived", "deleted"},
                visibility : {"private", "public"}, slots : SlotCounts \cup {0}, share : 0 .. MaxShare,
                mode : {"fixed", "shared"}]
  BY <1>1, <1>2 DEF SharingInv, SharingTypeOK
<1>4. \A u \in Users : /\ mem'[u] \in [status : {"none", "active", "removed"}, role : {"owner", "member"},
                                       share : 0 .. MaxShare]
                       /\ mem'[u].role = mem[u].role /\ mem'[u].status = mem[u].status
  BY <1>1, <1>2 DEF SharingInv, SharingTypeOK
<1>5. invite' \in [Invites -> [status : {"none", "pending", "lapsed", "expired", "accepted", "revoked"},
                               share : 0 .. MaxShare]]
  BY <1>1, <1>2 DEF SharingInv, SharingTypeOK
<1>6. SharingTypeOK'
  BY <1>1, <1>3, <1>4, <1>5 DEF SharingInv, SharingTypeOK
<1>7. OneOwner'
  BY <1>1, <1>4 DEF SharingInv, SharingTypeOK, OneOwner, Active
<1>8. ArchivedTakesNobody'
  BY <1>1 DEF SharingInv, SharingTypeOK, ArchivedTakesNobody
<1>9. SharedModeHasNoShares'
  BY <1>1 DEF SharingInv, SharingTypeOK, SharedModeHasNoShares
<1> QED BY <1>6, <1>7, <1>8, <1>9 DEF SharingInv

LEMMA TransferStep ==
  ASSUME SharingInv, NEW u \in Users, TransferPlanOwnership(u)
  PROVE  SharingInv'
<1>1. /\ plan.status # "deleted"
      /\ u \in Active /\ mem[u].role = "member" /\ u # plan.owner
      /\ mem' = [v \in Users |->
                   IF v = u THEN [mem[v] EXCEPT !.role = "owner"]
                   ELSE IF v = plan.owner /\ mem[v].role = "owner" /\ v \in Active
                     THEN [mem[v] EXCEPT !.role = "member"]
                   ELSE mem[v]]
      /\ plan' = [plan EXCEPT !.owner = u]
      /\ UNCHANGED <<invite, app>>
  BY DEF TransferPlanOwnership
<1>2. \A v \in Users : /\ mem'[v] \in [status : {"none", "active", "removed"}, role : {"owner", "member"},
                                       share : 0 .. MaxShare]
                       /\ mem'[v].share = mem[v].share /\ mem'[v].status = mem[v].status
  BY <1>1 DEF SharingInv, SharingTypeOK
<1>3. plan.owner \in Active /\ \A v \in Users : mem[v].role = "owner" <=> v = plan.owner
  BY <1>1 DEF SharingInv, OneOwner, Active
<1>4. \A v \in Users : mem'[v].role = "owner" <=> v = u
  BY <1>1, <1>3 DEF SharingInv, SharingTypeOK
<1>5. plan' \in [owner : Users, status : {"active", "archived", "deleted"},
                visibility : {"private", "public"}, slots : SlotCounts \cup {0}, share : 0 .. MaxShare,
                mode : {"fixed", "shared"}]
      /\ plan'.owner = u /\ plan'.mode = plan.mode /\ plan'.share = plan.share /\ plan'.slots = plan.slots
      /\ plan'.status = plan.status /\ plan'.visibility = plan.visibility
  BY <1>1 DEF SharingInv, SharingTypeOK
<1>6. SharingTypeOK'
  BY <1>1, <1>2, <1>5 DEF SharingInv, SharingTypeOK
<1>7. OneOwner'
  BY <1>1, <1>2, <1>4, <1>5 DEF OneOwner, Active
<1>8. ArchivedTakesNobody'
  BY <1>1, <1>5 DEF SharingInv, ArchivedTakesNobody
<1>9. SharedModeHasNoShares'
  BY <1>1, <1>2, <1>5 DEF SharingInv, SharedModeHasNoShares, Active
<1> QED BY <1>6, <1>7, <1>8, <1>9 DEF SharingInv

LEMMA RemoveStep ==
  ASSUME SharingInv, NEW u \in Users, RemovePlanMember(u)
  PROVE  SharingInv'
<1>1. /\ u \in Active /\ mem[u].role # "owner"
      /\ mem' = [mem EXCEPT ![u].status = "removed"]
      /\ UNCHANGED <<plan, invite, app>>
  BY DEF RemovePlanMember
<1>2. SharingTypeOK'
  <2>1. \A v \in Users : mem'[v] \in [status : {"none", "active", "removed"}, role : {"owner", "member"},
                                      share : 0 .. MaxShare]
    BY <1>1 DEF SharingInv, SharingTypeOK
  <2>2. mem' = [v \in Users |-> mem'[v]]
    BY <1>1 DEF SharingInv, SharingTypeOK
  <2> QED BY <1>1, <2>1, <2>2 DEF SharingInv, SharingTypeOK
<1>3. OneOwner'
  BY <1>1 DEF SharingInv, SharingTypeOK, OneOwner, Active
<1>4. ArchivedTakesNobody'
  BY <1>1 DEF SharingInv, ArchivedTakesNobody
<1>5. SharedModeHasNoShares'
  BY <1>1 DEF SharingInv, SharingTypeOK, SharedModeHasNoShares, Active
<1> QED BY <1>2, <1>3, <1>4, <1>5 DEF SharingInv

-----------------------------------------------------------------------------
(* The plan's life                                                         *)

LEMMA LifeStep ==
  ASSUME SharingInv, LifeNext
  PROVE  SharingInv'
<1>1. CASE Archive
  <2>1. SharingTypeOK'
    <3>1. plan' \in [owner : Users, status : {"active", "archived", "deleted"},
                     visibility : {"private", "public"}, slots : SlotCounts \cup {0}, share : 0 .. MaxShare,
                     mode : {"fixed", "shared"}]
      BY <1>1, SharesAssumption DEF Archive, SharingInv, SharingTypeOK
    <3>2. invite' \in [Invites -> InviteRows]
      BY <1>1 DEF Archive, SharingInv, SharingTypeOK, InviteRows
    <3>3. app' \in [Applications -> [status : {"none", "pending", "approved", "rejected"}, user : Users]]
      BY <1>1 DEF Archive, SharingInv, SharingTypeOK
    <3> QED BY <1>1, <3>1, <3>2, <3>3 DEF Archive, SharingInv, SharingTypeOK, InviteRows
  <2>2. OneOwner'
    BY <1>1 DEF Archive, SharingInv, SharingTypeOK, OneOwner, Active
  <2>3. ArchivedTakesNobody'
    BY <1>1 DEF Archive, SharingInv, SharingTypeOK, ArchivedTakesNobody
  <2>4. SharedModeHasNoShares'
    BY <1>1 DEF Archive, SharingInv, SharingTypeOK, SharedModeHasNoShares, Active
  <2> QED BY <2>1, <2>2, <2>3, <2>4 DEF SharingInv
<1>2. CASE Restore
  <2>1. SharingTypeOK'
    BY <1>2 DEF Restore, SharingInv, SharingTypeOK
  <2>2. OneOwner' /\ ArchivedTakesNobody' /\ SharedModeHasNoShares'
    BY <1>2 DEF Restore, SharingInv, SharingTypeOK, OneOwner, ArchivedTakesNobody, SharedModeHasNoShares, Active
  <2> QED BY <2>1, <2>2 DEF SharingInv
<1>3. CASE DeletePlan
  <2>1. SharingTypeOK'
    BY <1>3, UsersAssumption, SharesAssumption
       DEF DeletePlan, SharingInv, SharingTypeOK, NoMember, NoInvite, NoApplication
  <2>2. OneOwner' /\ ArchivedTakesNobody'
    BY <1>3 DEF DeletePlan, SharingInv, SharingTypeOK, OneOwner, ArchivedTakesNobody
  <2>3. SharedModeHasNoShares'
    BY <1>3 DEF DeletePlan, SharingInv, SharingTypeOK, SharedModeHasNoShares, Active, NoMember, NoInvite
  <2> QED BY <2>1, <2>2, <2>3 DEF SharingInv
<1> QED BY <1>1, <1>2, <1>3 DEF LifeNext

LEMMA SharingStep == SharingInv /\ [Next]_vars => SharingInv'
<1> SUFFICES ASSUME SharingInv, [Next]_vars PROVE SharingInv'
  OBVIOUS
<1>1. CASE PublicNext
  <2>1. ASSUME NEW slots \in SlotCounts, NEW share \in Shares, UpdatePlanPublication("public", slots, share)
        PROVE SharingInv'
    BY <2>1, SharesAssumption, PublicationStep
  <2>2. CASE UpdatePlanPublication("private", 0, 0)
    BY <2>2, SharesAssumption, PublicationStep
  <2> QED BY <1>1, <2>1, <2>2, ApplicationStep, ApproveStep, Zenon DEF PublicNext
<1>2. CASE InviteNext
  BY <1>2, InviteStep, Zenon DEF InviteNext
<1>3. CASE MemberNext
  BY <1>3, ShareStep, ConvertStep, TransferStep, RemoveStep, Zenon DEF MemberNext, ShareNext
<1>4. CASE LifeNext
  BY <1>4, LifeStep
<1>5. CASE UNCHANGED vars
  BY <1>5 DEF vars, SharingInv, SharingTypeOK, OneOwner, ArchivedTakesNobody, SharedModeHasNoShares, Active
<1> QED BY <1>1, <1>2, <1>3, <1>4, <1>5 DEF Next

-----------------------------------------------------------------------------
(* The theorems                                                            *)

(* The invariant holds of every reachable state.                           *)
THEOREM SharingInvariant == Spec => []SharingInv
<1>1. Init => SharingInv
  BY SharingStarts
<1>2. SharingInv /\ [Next]_vars => SharingInv'
  BY SharingStep
<1> QED BY <1>1, <1>2, PTL DEF Spec

(* Every row keeps the type that the migrations give it.                   *)
THEOREM SharingTypeCorrect == Spec => []SharingTypeOK
<1>1. SharingInv => SharingTypeOK
  BY DEF SharingInv
<1> QED BY <1>1, SharingInvariant, PTL

(* Through transfers, removals, rejoining and retention a plan keeps       *)
(* exactly one owner, an active member that the plan row names.            *)
THEOREM AlwaysOneOwner == Spec => []OneOwner
<1>1. SharingInv => OneOwner
  BY DEF SharingInv
<1> QED BY <1>1, SharingInvariant, PTL

(* Nothing of an archived plan can still be accepted or approved, although *)
(* approval itself does not ask whether the plan is active.                *)
THEOREM ArchivedNeverTakesAnybody == Spec => []ArchivedTakesNobody
<1>1. SharingInv => ArchivedTakesNobody
  BY DEF SharingInv
<1> QED BY <1>1, SharingInvariant, PTL

(* Whatever is invited, published, approved or converted, nothing usable   *)
(* of a plan in shared mode carries a share.                               *)
THEOREM SharedModeNeverHasShares == Spec => []SharedModeHasNoShares
<1>1. SharingInv => SharedModeHasNoShares
  BY DEF SharingInv
<1> QED BY <1>1, SharingInvariant, PTL

(* An invitation that was accepted, revoked or expired is never usable     *)
(* again, by no interleaving of acceptance, revocation and retention.      *)
THEOREM InvitesAlwaysSettleOnce == Spec => InvitesSettleOnce
<1> DEFINE Settles == \A i \in Invites : invite[i].status \in {"accepted", "revoked", "expired"} =>
                        invite'[i].status \in {invite[i].status, "none"}
<1>1. SharingInv /\ [Next]_vars => [Settles]_vars
  <2> SUFFICES ASSUME SharingInv, Next PROVE Settles
    OBVIOUS
  <2>1. CASE UNCHANGED invite
    BY <2>1
  <2>2. CASE InviteNext
    <3>1. \A k \in Invites : InviteRowStep(invite[k], invite'[k])
      BY <2>2, InviteSteps, Zenon DEF InviteNext
    <3> SUFFICES ASSUME NEW i \in Invites, invite[i].status \in {"accepted", "revoked", "expired"}
                 PROVE invite'[i].status \in {invite[i].status, "none"}
      OBVIOUS
    <3>2. invite'[i] = invite[i] \/ invite'[i] = NoInvite
      BY <3>1 DEF InviteRowStep, SharingInv, SharingTypeOK
    <3> QED BY <3>2 DEF NoInvite
  <2>3. CASE ShareNext
    <3>1. \/ UNCHANGED invite
          \/ invite' = [i \in Invites |-> IF invite[i].status \in {"pending", "lapsed"}
                                          THEN [invite[i] EXCEPT !.share = 0] ELSE invite[i]]
      BY <2>3, Zenon DEF ShareNext, UpdateMemberShare, ConvertPlanToFixed
    <3> QED BY <2>1, <3>1 DEF SharingInv, SharingTypeOK
  <2>4. CASE LifeNext
    BY <2>4 DEF LifeNext, Archive, Restore, DeletePlan, NoInvite
  <2>5. CASE PublicNext \/ \E u \in Users : TransferPlanOwnership(u) \/ RemovePlanMember(u)
    <3>1. UNCHANGED invite
      BY <2>5 DEF PublicNext, UpdatePlanPublication, CreateJoinApplication, ApproveJoinApplication,
                  RejectJoinApplication, CleanupApplication, TransferPlanOwnership, RemovePlanMember
    <3> QED BY <2>1, <3>1
  <2> QED BY <2>2, <2>3, <2>4, <2>5 DEF Next, MemberNext
<1> QED BY <1>1, SharingInvariant, PTL DEF Spec, InvitesSettleOnce

-----------------------------------------------------------------------------
(* What joining does to the allocated total                                *)

(* Finitely many rows hold finitely many units.                            *)
LEMMA UnitsFinite ==
  ASSUME NEW S, IsFiniteSet(S), NEW f \in [S -> Nat]
  PROVE  IsFiniteSet(ShareUnits(f)) /\ SumShares(f) \in Nat
<1>1. PICK g : g = [x \in S |-> {x} \X (1 .. f[x])]
  OBVIOUS
<1>2. PICK T : T = {{x} \X (1 .. f[x]) : x \in S}
  OBVIOUS
<1>3. g \in Surjection(S, T)
  BY <1>1, <1>2 DEF Surjection
<1>4. IsFiniteSet(T)
  BY <1>3, FS_Surjection
<1>5. ASSUME NEW t \in T PROVE IsFiniteSet(t)
  <2>1. PICK x \in S : t = {x} \X (1 .. f[x])
    BY <1>2
  <2>2. 1 \in Int /\ f[x] \in Int
    OBVIOUS
  <2>3. IsFiniteSet(1 .. f[x])
    BY ONLY <2>2, FS_Interval
  <2>4. IsFiniteSet({x})
    BY ONLY FS_Singleton
  <2> QED BY <2>1, <2>3, <2>4, FS_Product
<1>6. ShareUnits(f) = UNION T
  BY <1>2 DEF ShareUnits
<1> QED BY <1>4, <1>5, <1>6, FS_UNION, FS_CardinalityType DEF SumShares

(* One row more adds its share to the sum.                                 *)
LEMMA SumAdds ==
  ASSUME NEW S, IsFiniteSet(S), NEW f \in [S -> Nat], NEW x, x \notin S, NEW n \in Nat,
         NEW g \in [S \cup {x} -> Nat], \A y \in S : g[y] = f[y], g[x] = n
  PROVE  SumShares(g) = SumShares(f) + n
<1>1. PICK own, rest : own = {x} \X (1 .. n) /\ rest = ShareUnits(f)
  OBVIOUS
<1>2. IsFiniteSet(own) /\ Cardinality(own) = n
  <2>1. 1 \in Int /\ n \in Int /\ n >= 0
    OBVIOUS
  <2>2. IsFiniteSet(1 .. n) /\ Cardinality(1 .. n) = IF 1 > n THEN 0 ELSE n - 1 + 1
    BY ONLY <2>1, FS_Interval
  <2>3. IsFiniteSet(1 .. n) /\ Cardinality(1 .. n) = n
    BY ONLY <2>1, <2>2
  <2>4. IsFiniteSet({x}) /\ Cardinality({x}) = 1
    BY ONLY FS_Singleton
  <2>5. IsFiniteSet({x} \X (1 .. n)) /\ Cardinality({x} \X (1 .. n)) = 1 * n
    <3>1. PICK A, B : A = {x} /\ B = 1 .. n
      OBVIOUS
    <3>2. IsFiniteSet(A \X B) /\ Cardinality(A \X B) = Cardinality(A) * Cardinality(B)
      BY <2>3, <2>4, <3>1, FS_Product
    <3>3. IsFiniteSet(A \X B) /\ Cardinality(A \X B) = 1 * n
      BY <2>3, <2>4, <3>1, <3>2
    <3> QED BY <3>1, <3>3
  <2> QED BY <1>1, <2>5
<1>3. IsFiniteSet(rest) /\ Cardinality(rest) = SumShares(f) /\ SumShares(f) \in Nat
  BY <1>1, UnitsFinite DEF SumShares
<1>4. ShareUnits(g) = rest \cup own
  <2>1. ASSUME NEW p \in ShareUnits(g) PROVE p \in rest \cup own
    <3>1. PICK y \in S \cup {x} : p \in {y} \X (1 .. g[y])
      BY DEF ShareUnits
    <3> QED BY <1>1, <3>1 DEF ShareUnits
  <2>2. ASSUME NEW p \in rest PROVE p \in ShareUnits(g)
    <3>1. PICK y \in S : p \in {y} \X (1 .. f[y])
      BY <1>1, <2>2 DEF ShareUnits
    <3> QED BY <3>1 DEF ShareUnits
  <2>3. ASSUME NEW p \in own PROVE p \in ShareUnits(g)
    BY <1>1, <2>3 DEF ShareUnits
  <2> QED BY <2>1, <2>2, <2>3
<1>5. rest \cap own = {}
  <2> SUFFICES ASSUME NEW p \in rest, p \in own PROVE FALSE
    OBVIOUS
  <2>1. PICK y \in S : p \in {y} \X (1 .. f[y])
    BY <1>1 DEF ShareUnits
  <2> QED BY <1>1, <2>1
<1>6. Cardinality(rest \cap own) = 0
  BY <1>5, FS_EmptySet
<1>7. Cardinality(rest \cup own) = Cardinality(rest) + Cardinality(own) - Cardinality(rest \cap own)
  BY ONLY <1>2, <1>3, FS_Union
<1> QED BY <1>2, <1>3, <1>4, <1>6, <1>7 DEF SumShares

(* A seat that is taken frees at least its own share.                      *)
LEMMA SeatTaken ==
  ASSUME NEW n \in Nat, NEW k \in Nat, NEW share \in Nat, k + 1 <= n
  PROVE  k * share + share <= n * share
<1>1. PICK d \in Nat : n = k + 1 + d
  <2>1. n - (k + 1) \in Nat /\ n = k + 1 + (n - (k + 1))
    OBVIOUS
  <2> QED BY <2>1
<1>2. n * share = k * share + share + d * share
  BY <1>1
<1>3. d * share \in Nat /\ k * share \in Nat
  OBVIOUS
<1> QED BY <1>2, <1>3

(* Fewer open seats reserve no more.                                       *)
LEMMA FewerSeats ==
  ASSUME NEW n \in Nat, NEW k \in Nat, NEW share \in Nat, k <= n
  PROVE  k * share <= n * share
<1>1. PICK d \in Nat : n = k + d
  <2>1. n - k \in Nat /\ n = k + (n - k)
    OBVIOUS
  <2> QED BY <2>1
<1>2. n * share = k * share + d * share
  BY <1>1
<1>3. d * share \in Nat /\ k * share \in Nat
  OBVIOUS
<1> QED BY <1>2, <1>3

(* The sums are taken over finitely many rows.                             *)
LEMMA SumsAreNumbers ==
  ASSUME SharingTypeOK
  PROVE  /\ MemberShares(Active) \in Nat /\ InviteShares \in Nat
         /\ Approved \in Nat /\ OpenSeats \in Nat /\ plan.slots \in Nat /\ plan.share \in Nat
<1>1. IsFiniteSet(Active) /\ IsFiniteSet({k \in Invites : invite[k].status = "pending"})
      /\ IsFiniteSet({j \in Applications : app[j].status = "approved" /\ app[j].user \in Active})
  BY UsersAssumption, RowsAssumption, FS_Subset DEF Active
<1>2. [u \in Active |-> mem[u].share] \in [Active -> Nat]
  BY DEF Active, SharingTypeOK
<1>3. MemberShares(Active) \in Nat
  BY <1>1, <1>2, UnitsFinite DEF MemberShares
<1>4. PICK P : P = {k \in Invites : invite[k].status = "pending"}
  OBVIOUS
<1>5. [i \in P |-> invite[i].share] \in [P -> Nat]
  BY <1>4 DEF SharingTypeOK
<1>6. InviteShares \in Nat
  BY <1>1, <1>4, <1>5, UnitsFinite DEF InviteShares
<1>7. Approved \in Nat
  BY <1>1, FS_CardinalityType DEF Approved
<1>8. plan.slots \in Nat /\ plan.share \in Nat
  <2>1. plan.slots \in SlotCounts \cup {0} /\ plan.share \in 0 .. MaxShare
    BY DEF SharingTypeOK
  <2>2. plan.slots \in Nat
    <3>1. \A n \in SlotCounts \cup {0} : n \in Nat
      BY InputsAssumption
    <3> QED BY <2>1, <3>1, Zenon
  <2>3. plan.share \in Nat
    BY <2>1, SharesAssumption
  <2> QED BY <2>2, <2>3
<1>9. OpenSeats \in Nat
  BY <1>7, <1>8 DEF OpenSeats
<1> QED BY <1>3, <1>6, <1>7, <1>8, <1>9

LEMMA SumsStayNumbers ==
  SharingTypeOK' => (InviteShares \in Nat /\ Approved \in Nat /\ OpenSeats \in Nat)'
<1>1. SharingTypeOK => InviteShares \in Nat /\ Approved \in Nat /\ OpenSeats \in Nat
  BY SumsAreNumbers
<1> QED BY <1>1, PTL

(* A user who joins adds the share that the row gets.                      *)
LEMMA JoinAddsShare ==
  ASSUME SharingTypeOK, NEW u \in Users, u \notin Active, NEW share \in 0 .. MaxShare,
         mem' = [mem EXCEPT ![u] = Joined(share)]
  PROVE  /\ Active' = Active \cup {u}
         /\ MemberShares(Active)' = MemberShares(Active) + share
<1>1. mem'[u] = Joined(share) /\ \A v \in Users : v # u => mem'[v] = mem[v]
  BY DEF SharingTypeOK
<1>2. Active' = Active \cup {u}
  BY <1>1 DEF Active, Joined
<1>3. IsFiniteSet(Active) /\ share \in Nat
  BY UsersAssumption, SharesAssumption, FS_Subset DEF Active
<1>4. PICK f \in [Active -> Nat] : f = [v \in Active |-> mem[v].share]
  <2>1. [v \in Active |-> mem[v].share] \in [Active -> Nat]
    BY DEF Active, SharingTypeOK
  <2> QED BY <2>1
<1>5. PICK g : g = [v \in Active' |-> mem'[v].share]
  OBVIOUS
<1>6. (\A v \in Active : g[v] = f[v]) /\ g[u] = share
  BY <1>1, <1>2, <1>4, <1>5 DEF Active, Joined
<1>7. g \in [Active \cup {u} -> Nat]
  BY <1>2, <1>3, <1>4, <1>5, <1>6
<1>8. SumShares(g) = SumShares(f) + share
  BY <1>3, <1>6, <1>7, SumAdds
<1> QED BY <1>2, <1>4, <1>5, <1>8 DEF MemberShares

(* An invitation that stops pending gives up its share.                    *)
LEMMA AcceptFreesShare ==
  ASSUME SharingTypeOK, NEW i \in Invites, invite[i].status = "pending",
         invite' = [invite EXCEPT ![i].status = "accepted"]
  PROVE  InviteShares = InviteShares' + invite[i].share
<1>1. invite'[i].status = "accepted" /\ \A k \in Invites : k # i => invite'[k] = invite[k]
  BY DEF SharingTypeOK
<1>2. PICK P : P = {k \in Invites : invite'[k].status = "pending"}
  OBVIOUS
<1>3. {k \in Invites : invite[k].status = "pending"} = P \cup {i} /\ i \notin P /\ P \subseteq Invites
  BY <1>1, <1>2
<1>4. IsFiniteSet(P)
  BY <1>3, RowsAssumption, FS_Subset
<1>5. PICK f : f = [k \in P |-> invite'[k].share]
  OBVIOUS
<1>6. PICK g : g = [k \in P \cup {i} |-> invite[k].share]
  OBVIOUS
<1>7. f \in [P -> Nat] /\ g \in [P \cup {i} -> Nat] /\ g[i] = invite[i].share /\ g[i] \in Nat
      /\ \A k \in P : g[k] = f[k]
  <2>1. \A k \in Invites : invite[k].share \in Nat
    BY SharesAssumption DEF SharingTypeOK
  <2> QED BY <1>1, <1>3, <1>5, <1>6, <2>1
<1>8. SumShares(g) = SumShares(f) + g[i]
  <2>1. PICK n \in Nat : n = g[i]
    BY <1>7
  <2>2. SumShares(g) = SumShares(f) + n
    <3>1. f \in [P -> Nat] /\ g \in [P \cup {i} -> Nat] /\ (\A k \in P : g[k] = f[k]) /\ i \notin P /\ g[i] = n
      BY <1>3, <1>7, <2>1
    <3>2. n \in Nat
      OBVIOUS
    <3> QED BY ONLY <1>4, <3>1, <3>2, SumAdds
  <2> QED BY <2>1, <2>2
<1>9. InviteShares = SumShares(g)
  BY <1>3, <1>6 DEF InviteShares
<1>10. InviteShares' = SumShares(f)
  BY <1>2, <1>5 DEF InviteShares
<1> QED BY <1>7, <1>8, <1>9, <1>10

(* Who joins takes no seat away from an approved application.              *)
LEMMA ApprovedStays ==
  ASSUME SharingTypeOK, SharingTypeOK', Active \subseteq Active',
         \A j \in Applications : app[j].status = "approved" => app'[j] = app[j]
  PROVE  Approved <= Approved'
<1>1. PICK S : S = {j \in Applications : app[j].status = "approved" /\ app[j].user \in Active}
  OBVIOUS
<1>2. PICK T : T = {j \in Applications : app'[j].status = "approved" /\ app'[j].user \in Active'}
  OBVIOUS
<1>3. IsFiniteSet(T) /\ S \subseteq T
  BY <1>1, <1>2, RowsAssumption, FS_Subset
<1> QED BY <1>1, <1>2, <1>3, FS_Subset DEF Approved

(* Acceptance moves a share from the invitation to the member.             *)
LEMMA AcceptUsesReservation ==
  ASSUME SharingInv, SharingInv', NEW i \in Invites, NEW u \in Users, AcceptInvite(i, u), mem' # mem
  PROVE  Allocated(Active)' <= Allocated(Active)
<1>1. /\ invite[i].status = "pending" /\ u \notin Active
      /\ mem' = [mem EXCEPT ![u] = Joined(invite[i].share)]
      /\ invite' = [invite EXCEPT ![i].status = "accepted"]
      /\ UNCHANGED <<plan, app>>
  BY DEF AcceptInvite
<1>2. PICK share \in 0 .. MaxShare : share = invite[i].share
  BY DEF SharingInv, SharingTypeOK
<1>3. share \in Nat /\ mem' = [mem EXCEPT ![u] = Joined(share)]
  BY <1>1, <1>2, SharesAssumption
<1>4. Active' = Active \cup {u} /\ MemberShares(Active)' = MemberShares(Active) + share
  BY <1>1, <1>3, JoinAddsShare DEF SharingInv
<1>5. InviteShares = InviteShares' + share
  BY <1>1, <1>2, AcceptFreesShare DEF SharingInv
<1>6. Approved <= Approved'
  BY <1>1, <1>4, ApprovedStays DEF SharingInv
<1>7. /\ MemberShares(Active) \in Nat /\ InviteShares \in Nat /\ Approved \in Nat
      /\ OpenSeats \in Nat /\ plan.slots \in Nat /\ plan.share \in Nat
  BY SumsAreNumbers DEF SharingInv
<1>8. InviteShares' \in Nat /\ Approved' \in Nat /\ OpenSeats' \in Nat
  BY SumsStayNumbers DEF SharingInv
<1>9. OpenSeats' <= OpenSeats
  BY <1>1, <1>6, <1>7, <1>8 DEF OpenSeats
<1>10. OpenSeats' * plan.share <= OpenSeats * plan.share
  BY <1>7, <1>8, <1>9, FewerSeats
<1>11. PICK x \in Nat, y \in Nat : x = OpenSeats' * plan.share /\ y = OpenSeats * plan.share
  BY <1>7, <1>8
<1>12. Allocated(Active)' = MemberShares(Active)' + InviteShares' + x
  BY <1>1, <1>11 DEF Allocated
<1>13. Allocated(Active) = MemberShares(Active) + InviteShares + y
  BY <1>11 DEF Allocated
<1> QED BY <1>3, <1>4, <1>5, <1>7, <1>8, <1>10, <1>11, <1>12, <1>13

(* Approval turns an open seat into a member with the seat's share.        *)
LEMMA ApproveUsesReservation ==
  ASSUME SharingInv, SharingInv', NEW j \in Applications, ApproveJoinApplication(j)
  PROVE  Allocated(Active)' <= Allocated(Active)
<1>1. PICK u \in Users : u = app[j].user
  BY DEF SharingInv, SharingTypeOK
<1>2. /\ app[j].status = "pending" /\ u \notin Active /\ Approved < plan.slots
      /\ mem' = [mem EXCEPT ![u] = Joined(plan.share)]
      /\ app' = [app EXCEPT ![j].status = "approved"]
      /\ UNCHANGED <<plan, invite>>
  BY <1>1 DEF ApproveJoinApplication
<1>3. PICK share \in 0 .. MaxShare : share = plan.share
  BY DEF SharingInv, SharingTypeOK
<1>4. Active' = Active \cup {u} /\ MemberShares(Active)' = MemberShares(Active) + share
  BY <1>2, <1>3, JoinAddsShare DEF SharingInv
<1>5. Approved' >= Approved + 1
  <2>1. PICK S : S = {k \in Applications : app[k].status = "approved" /\ app[k].user \in Active}
    OBVIOUS
  <2>2. PICK T : T = {k \in Applications : app'[k].status = "approved" /\ app'[k].user \in Active'}
    OBVIOUS
  <2>3. /\ app'[j].status = "approved" /\ app'[j].user = u
        /\ \A k \in Applications : k # j => app'[k] = app[k]
    BY <1>1, <1>2 DEF SharingInv, SharingTypeOK
  <2>4. S \cup {j} \subseteq T /\ j \notin S /\ S \subseteq Applications /\ T \subseteq Applications
    BY <1>2, <1>4, <2>1, <2>2, <2>3
  <2>5. IsFiniteSet(S) /\ IsFiniteSet(T)
    BY <2>4, RowsAssumption, FS_Subset
  <2>6. IsFiniteSet(S \cup {j}) /\ Cardinality(S \cup {j}) = Cardinality(S) + 1
    BY <2>4, <2>5, FS_AddElement
  <2>7. Cardinality(S \cup {j}) <= Cardinality(T)
    BY <2>4, <2>5, FS_Subset
  <2>8. Cardinality(S) \in Nat /\ Cardinality(T) \in Nat
    BY <2>5, FS_CardinalityType
  <2> QED BY <2>1, <2>2, <2>6, <2>7, <2>8 DEF Approved
<1>6. InviteShares' = InviteShares
  BY <1>2 DEF InviteShares
<1>7. /\ MemberShares(Active) \in Nat /\ InviteShares \in Nat /\ Approved \in Nat
      /\ OpenSeats \in Nat /\ plan.slots \in Nat /\ plan.share \in Nat
  BY SumsAreNumbers DEF SharingInv
<1>8. Approved' \in Nat /\ OpenSeats' \in Nat
  BY SumsStayNumbers DEF SharingInv
<1>9. OpenSeats' + 1 <= OpenSeats
  BY <1>2, <1>5, <1>7, <1>8 DEF OpenSeats
<1>10. OpenSeats' * plan.share + plan.share <= OpenSeats * plan.share
  BY <1>7, <1>8, <1>9, SeatTaken
<1>11. PICK x \in Nat, y \in Nat : x = OpenSeats' * plan.share /\ y = OpenSeats * plan.share
  BY <1>7, <1>8
<1>12. Allocated(Active)' = MemberShares(Active)' + InviteShares' + x
  BY <1>2, <1>11 DEF Allocated
<1>13. Allocated(Active) = MemberShares(Active) + InviteShares + y
  BY <1>11 DEF Allocated
<1> QED BY <1>3, <1>4, <1>6, <1>7, <1>10, <1>11, <1>12, <1>13

(* Nobody else joins: every other operation keeps the active members, or   *)
(* loses one.                                                              *)
LEMMA OthersAdmitNobody ==
  ASSUME SharingInv, Next, Active \subseteq Active', Active' # Active
  PROVE  \/ \E i \in Invites, u \in Users : AcceptInvite(i, u) /\ mem' # mem
         \/ \E j \in Applications : ApproveJoinApplication(j)
<1>1. mem' # mem
  BY DEF Active
<1>2. ASSUME NEW u \in Users, RemovePlanMember(u) \/ TransferPlanOwnership(u) PROVE FALSE
  <2>1. CASE RemovePlanMember(u)
    BY <2>1 DEF RemovePlanMember, Active, SharingInv, SharingTypeOK
  <2>2. CASE TransferPlanOwnership(u)
    <3>1. \A v \in Users : mem'[v].status = mem[v].status
      BY <2>2 DEF TransferPlanOwnership, SharingInv, SharingTypeOK
    <3> QED BY <3>1 DEF Active
  <2> QED BY <1>2, <2>1, <2>2
<1>3. ASSUME NEW u \in Users, NEW share, UpdateMemberShare(u, share) PROVE FALSE
  <2>1. \A v \in Users : mem'[v].status = mem[v].status
    BY <1>3 DEF UpdateMemberShare, SharingInv, SharingTypeOK
  <2> QED BY <2>1 DEF Active
<1>4. ASSUME NEW allocation, ConvertPlanToFixed(allocation) PROVE FALSE
  <2>1. \A v \in Users : mem'[v].status = mem[v].status
    BY <1>4 DEF ConvertPlanToFixed, SharingInv, SharingTypeOK
  <2> QED BY <2>1 DEF Active
<1>5. ASSUME DeletePlan PROVE FALSE
  <2>1. plan.owner \in Active
    BY <1>5 DEF DeletePlan, SharingInv, OneOwner
  <2>2. Active' = {}
    BY <1>5 DEF DeletePlan, Active, NoMember
  <2> QED BY <2>1, <2>2
<1> QED
  BY <1>1, <1>2, <1>3, <1>4, <1>5, Zenon
  DEF Next, PublicNext, InviteNext, MemberNext, ShareNext, LifeNext, UpdatePlanPublication,
      CreateJoinApplication, RejectJoinApplication, CleanupApplication, CreateInvite, InviteLapses,
      RevokeInvite, CleanupInvite, Archive, Restore

(* acceptInvite and approveJoinApplication: whoever joins, by invitation   *)
(* or by approval, uses what the plan had reserved; the plan's allocated   *)
(* total never rises by it, whatever was published, removed, rejoined or   *)
(* cleaned up before.                                                      *)
THEOREM JoiningAlwaysUsesReservation == Spec => JoiningUsesReservation
<1> DEFINE Uses == plan'.mode = "fixed" /\ Active' # Active /\ Active \subseteq Active'
                     => Allocated(Active)' <= Allocated(Active)
<1>1. SharingInv /\ SharingInv' /\ [Next]_vars => [Uses]_vars
  <2> SUFFICES ASSUME SharingInv, SharingInv', Next, Active' # Active, Active \subseteq Active'
               PROVE  Allocated(Active)' <= Allocated(Active)
    OBVIOUS
  <2> QED BY OthersAdmitNobody, AcceptUsesReservation, ApproveUsesReservation
<1> QED BY <1>1, SharingInvariant, PTL DEF Spec, JoiningUsesReservation
=============================================================================
