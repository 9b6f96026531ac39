----------------------------- MODULE Membership -----------------------------
(***************************************************************************)
(* The platform membership of one user and the orders that pay for it      *)
(* (membership.go, membership_orders.go, membership_fulfillment.go).       *)
(*                                                                         *)
(* The provider reports a payment any number of times and at any time:     *)
(* its notification, the user's own check and the periodic reconciliation  *)
(* all end in ConfirmMembershipPayment.  Every store call locks the user.  *)
(* Time is counted in half terms, so that a term of 30 days is two.        *)
(*                                                                         *)
(* Not modelled: amounts, merchant and trade numbers (a report that does   *)
(* not match its order is refused), the limit on owned plans, reminders.   *)
(***************************************************************************)
EXTENDS Integers

CONSTANTS
  Orders,           \* 1 .. n, in the order they are created
  MaxMembershipTime,
  MaxAdjustments

ASSUME MembershipAssumption ==
  Orders \subseteq Nat /\ MaxMembershipTime \in Nat /\ MaxAdjustments \in Nat

VARIABLES
  member,         \* user_memberships: tier, expiry and revision
  order,          \* membership_payment_orders
  collected,      \* orders the provider has collected the money of
  today,
  adjustments

membershipVars == <<member, order, collected, today, adjustments>>

Term == 2   \* 720 hours

Memberships == [tier : {"none", "vip", "svip"}, expires : Nat, revision : Nat]

OrderRows == [status : {"none", "pending", "expired", "paid", "review_required"},
              product : {"none", "vip", "svip", "upgrade"}, revision : Nat, upgradeExpires : Nat]

NotOrdered == [status |-> "none", product |-> "none", revision |-> 0, upgradeExpires |-> 0]

MembershipInit ==
  /\ member = [tier |-> "none", expires |-> 0, revision |-> 0]
  /\ order = [o \in Orders |-> NotOrdered]
  /\ collected = {}
  /\ today = 0
  /\ adjustments = 0

Entitled == member.tier # "none" /\ member.expires > today

(* What the user may buy: no other tier beside an active one, but for the  *)
(* upgrade of a VIP.                                                       *)
Allowed(product) ==
  CASE product = "vip" -> ~(Entitled /\ member.tier = "svip")
    [] product = "svip" -> ~(Entitled /\ member.tier = "vip")
    [] product = "upgrade" -> Entitled /\ member.tier = "vip"

(* A pending order of the same product is handed out again instead.        *)
CreateMembershipOrder(o, product) ==
  /\ order[o].status = "none" /\ \A p \in Orders : p < o => order[p].status # "none"
  /\ \A p \in Orders : order[p].status # "pending"
  /\ Allowed(product)
  /\ order' = [order EXCEPT ![o] = [status |-> "pending", product |-> product, revision |-> member.revision,
                                    upgradeExpires |-> IF product = "upgrade" THEN member.expires ELSE 0]]
  /\ UNCHANGED <<member, collected, today, adjustments>>

(* The user cancels, or the order is found to be 30 minutes old by         *)
(* CreateMembershipOrder or MembershipReconciliationBatch.                 *)
CancelMembershipOrder(o) ==
  /\ order[o].status = "pending"
  /\ order' = [order EXCEPT ![o].status = "expired"]
  /\ UNCHANGED <<member, collected, today, adjustments>>

(* The user pays at the provider, whatever has become of the order.        *)
Pay(o) ==
  /\ order[o].status \in {"pending", "expired"} /\ o \notin collected
  /\ collected' = collected \cup {o}
  /\ UNCHANGED <<member, order, today, adjustments>>

Grant(tier, expires) == [tier |-> tier, expires |-> expires, revision |-> member.revision + 1]

(* MUTANT: an upgrade does not compare the membership with the order's.    *)
FulfilledUnchecked(x) ==
  IF x.product = "upgrade"
  THEN IF Entitled /\ member.tier = "vip" /\ x.upgradeExpires > today
       THEN [status |-> "paid", member |-> Grant("svip", x.upgradeExpires)]
       ELSE [status |-> "review_required", member |-> member]
  ELSE IF Entitled /\ member.tier # x.product THEN [status |-> "review_required", member |-> member]
  ELSE [status |-> "paid", member |-> Grant(x.product, (IF Entitled THEN member.expires ELSE today) + Term)]

(* What a payment is worth now: an upgrade only of the membership it was   *)
(* ordered for, a term only beside no other tier; else a manual review.    *)
Fulfilled(x) ==
  IF x.product = "upgrade"
  THEN IF Entitled /\ member.tier = "vip" /\ member.revision = x.revision /\ x.upgradeExpires > today
       THEN [status |-> "paid", member |-> Grant("svip", x.upgradeExpires)]
       ELSE [status |-> "review_required", member |-> member]
  ELSE IF Entitled /\ member.tier # x.product THEN [status |-> "review_required", member |-> member]
  ELSE [status |-> "paid", member |-> Grant(x.product, (IF Entitled THEN member.expires ELSE today) + Term)]

(* MUTANT: a repeated report of a payment is fulfilled again.              *)
ConfirmAgain(o) ==
  /\ o \in collected
  /\ member' = Fulfilled(order[o]).member
  /\ order' = [order EXCEPT ![o].status = Fulfilled(order[o]).status]
  /\ UNCHANGED <<collected, today, adjustments>>

(* A report of a payment; once it was fulfilled or set aside for review a  *)
(* report is only acknowledged.                                            *)
ConfirmMembershipPayment(o) ==
  /\ o \in collected /\ order[o].status \notin {"paid", "review_required"}
  /\ member' = Fulfilled(order[o]).member
  /\ order' = [order EXCEPT ![o].status = Fulfilled(order[o]).status]
  /\ UNCHANGED <<collected, today, adjustments>>

(* An administrator sets the membership, by the way settling a payment     *)
(* that was set aside.                                                     *)
AdjustMembership(tier, expires, reviewed) ==
  /\ adjustments < MaxAdjustments /\ adjustments' = adjustments + 1
  /\ \A o \in reviewed : order[o].status = "review_required"
  /\ member' = Grant(tier, expires)
  /\ order' = [o \in Orders |-> IF o \in reviewed THEN [order[o] EXCEPT !.status = "paid"] ELSE order[o]]
  /\ UNCHANGED <<collected, today>>

HalfTermPasses ==
  /\ today < MaxMembershipTime /\ today' = today + 1
  /\ UNCHANGED <<member, order, collected, adjustments>>

MembershipNext ==
  \/ \E o \in Orders :
       \/ \E product \in {"vip", "svip", "upgrade"} : CreateMembershipOrder(o, product)
       \/ CancelMembershipOrder(o) \/ Pay(o) \/ ConfirmMembershipPayment(o)
  \/ \E tier \in {"none", "vip", "svip"}, expires \in 0 .. MaxMembershipTime + Term,
        reviewed \in {{}} \cup {{o} : o \in Orders} : AdjustMembership(tier, expires, reviewed)
  \/ HalfTermPasses

MembershipSpec == MembershipInit /\ [][MembershipNext]_membershipVars

-----------------------------------------------------------------------------
(* Properties                                                              *)

MembershipTypeOK ==
  /\ member \in Memberships /\ order \in [Orders -> OrderRows]
  /\ collected \subseteq Orders /\ today \in 0 .. MaxMembershipTime /\ adjustments \in 0 .. MaxAdjustments

(* A payment that arrives late, twice, or after its order was cancelled    *)
(* and another one paid never takes anything from an active member: the    *)
(* tier stays or rises, and the term is not shortened.                     *)
EntitlementKept ==
  [][Entitled /\ adjustments' = adjustments =>
       /\ member'.expires >= member.expires
       /\ member'.tier = member.tier \/ (member.tier = "vip" /\ member'.tier = "svip")]_membershipVars

(* Every collected payment counts once: the membership changes only with   *)
(* the one order that becomes paid, and a paid order stays paid, no report *)
(* of it counting again.                                                   *)
PaidCountsOnce ==
  [][/\ member' # member /\ adjustments' = adjustments
          => \E o \in collected : order[o].status \in {"pending", "expired"} /\ order'[o].status = "paid"
     /\ \A o \in Orders : order[o].status = "paid" => order'[o].status = "paid"]_membershipVars
=============================================================================
