-------------------------- MODULE MembershipProofs --------------------------
(***************************************************************************)
(* Proofs about Membership, for any number of orders and any time.         *)
(***************************************************************************)
EXTENDS Membership, TLAPS

(* What an upgrade records of the membership it is ordered for is true of  *)
(* it as long as the revision is the same: the revision counts every       *)
(* change of the membership.  Only orders are paid.                        *)
OrderedFor ==
  \A o \in Orders :
    /\ order[o].revision <= member.revision
    /\ order[o].product = "upgrade" /\ order[o].revision = member.revision
         => order[o].upgradeExpires = member.expires
    /\ o \in collected => order[o].status # "none"
    /\ order[o].status # "none" => order[o].product # "none"

MembershipInv == MembershipTypeOK /\ OrderedFor

-----------------------------------------------------------------------------

LEMMA MembershipStarts == MembershipInit => MembershipInv
<1> SUFFICES ASSUME MembershipInit PROVE MembershipInv
  OBVIOUS
<1> USE MembershipAssumption DEF MembershipInit
<1>1. MembershipTypeOK
  <2>1. NotOrdered \in OrderRows /\ member \in Memberships
    BY DEF OrderRows, NotOrdered, Memberships
  <2>2. order \in [Orders -> OrderRows]
    BY <2>1, Zenon
  <2>3. collected \subseteq Orders /\ today \in 0 .. MaxMembershipTime /\ adjustments \in 0 .. MaxAdjustments
    OBVIOUS
  <2> QED BY <2>1, <2>2, <2>3 DEF MembershipTypeOK
<1>2. OrderedFor
  <2>1. ASSUME NEW o \in Orders PROVE order[o] = NotOrdered /\ o \notin collected
    OBVIOUS
  <2>2. member.revision = 0
    OBVIOUS
  <2>3. NotOrdered.revision <= 0 /\ NotOrdered.product = "none" /\ NotOrdered.status = "none"
    BY DEF NotOrdered
  <2> QED BY <2>1, <2>2, <2>3, Zenon DEF OrderedFor
<1> QED BY <1>1, <1>2 DEF MembershipInv

(* A fulfilled payment leaves the membership or is a new revision of it.   *)
LEMMA FulfilledValue ==
  ASSUME MembershipTypeOK, NEW x \in OrderRows, x.product # "none", today \in Nat
  PROVE  /\ Fulfilled(x).status \in {"paid", "review_required"}
         /\ Fulfilled(x).member \in Memberships
         /\ \/ Fulfilled(x).member = member
            \/ Fulfilled(x).status = "paid" /\ Fulfilled(x).member.revision = member.revision + 1
  BY DEF MembershipTypeOK, Memberships, OrderRows, Fulfilled, Grant, Term

(* What a payment gives an active member is at least what there was.       *)
LEMMA FulfilledKeeps ==
  ASSUME MembershipTypeOK, NEW x \in OrderRows, x.product # "none", today \in Nat, Entitled,
         x.product = "upgrade" /\ x.revision = member.revision => x.upgradeExpires = member.expires
  PROVE  /\ Fulfilled(x).member.expires >= member.expires
         /\ \/ Fulfilled(x).member.tier = member.tier
            \/ member.tier = "vip" /\ Fulfilled(x).member.tier = "svip"
  BY DEF MembershipTypeOK, Memberships, OrderRows, Fulfilled, Grant, Term, Entitled

-----------------------------------------------------------------------------

LEMMA MembershipStep == MembershipInv /\ [MembershipNext]_membershipVars => MembershipInv'
<1> SUFFICES ASSUME MembershipTypeOK, OrderedFor, [MembershipNext]_membershipVars
             PROVE MembershipTypeOK' /\ OrderedFor'
  BY DEF MembershipInv
<1>0. today \in Nat
  BY MembershipAssumption DEF MembershipTypeOK
<1>1. ASSUME NEW o \in Orders, NEW product \in {"vip", "svip", "upgrade"}, CreateMembershipOrder(o, product)
      PROVE MembershipTypeOK' /\ OrderedFor'
  <2>1. MembershipTypeOK'
    BY <1>1 DEF CreateMembershipOrder, MembershipTypeOK, Memberships, OrderRows
  <2>2. OrderedFor'
    BY <1>1 DEF CreateMembershipOrder, OrderedFor, MembershipTypeOK, Memberships, OrderRows
  <2> QED BY <2>1, <2>2
<1>2. ASSUME NEW o \in Orders, CancelMembershipOrder(o) PROVE MembershipTypeOK' /\ OrderedFor'
  BY <1>2 DEF CancelMembershipOrder, MembershipTypeOK, OrderedFor, OrderRows
<1>3. ASSUME NEW o \in Orders, Pay(o) PROVE MembershipTypeOK' /\ OrderedFor'
  BY <1>3 DEF Pay, MembershipTypeOK, OrderedFor
<1>4. ASSUME NEW o \in Orders, ConfirmMembershipPayment(o) PROVE MembershipTypeOK' /\ OrderedFor'
  <2>1. PICK status, m : status = Fulfilled(order[o]).status /\ m = Fulfilled(order[o]).member
    OBVIOUS
  <2>2. order[o] \in OrderRows
    BY DEF MembershipTypeOK
  <2>3. CASE order[o].product # "none"
    <3>1. /\ status \in {"paid", "review_required"} /\ m \in Memberships
          /\ m = member \/ m.revision = member.revision + 1
      BY <1>0, <2>1, <2>2, <2>3, FulfilledValue
    <3>2. member' = m /\ order' = [order EXCEPT ![o].status = status] /\ UNCHANGED <<collected, today, adjustments>>
      BY <1>4, <2>1 DEF ConfirmMembershipPayment
    <3>3. MembershipTypeOK'
      BY <3>1, <3>2 DEF MembershipTypeOK, OrderRows
    <3>4. OrderedFor'
      BY <2>3, <3>1, <3>2 DEF OrderedFor, MembershipTypeOK, Memberships, OrderRows
    <3> QED BY <3>3, <3>4
  <2>4. CASE order[o].product = "none"
    BY <1>4, <2>4 DEF OrderedFor, ConfirmMembershipPayment
  <2> QED BY <2>3, <2>4
<1>5. ASSUME NEW tier \in {"none", "vip", "svip"}, NEW expires \in 0 .. MaxMembershipTime + Term,
             NEW reviewed \in {{}} \cup {{o} : o \in Orders}, AdjustMembership(tier, expires, reviewed)
      PROVE MembershipTypeOK' /\ OrderedFor'
  <2>1. MembershipTypeOK'
    BY <1>5, MembershipAssumption
       DEF AdjustMembership, Grant, Term, MembershipTypeOK, Memberships, OrderRows
  <2>2. OrderedFor'
    BY <1>5 DEF AdjustMembership, Grant, OrderedFor, MembershipTypeOK, Memberships, OrderRows
  <2> QED BY <2>1, <2>2
<1>6. CASE HalfTermPasses
  BY <1>6, MembershipAssumption DEF HalfTermPasses, MembershipTypeOK, OrderedFor
<1>7. CASE UNCHANGED membershipVars
  BY <1>7 DEF membershipVars, MembershipTypeOK, OrderedFor
<1> QED BY <1>1, <1>2, <1>3, <1>4, <1>5, <1>6, <1>7, Zenon DEF MembershipNext

-----------------------------------------------------------------------------
(* The theorems                                                            *)

(* The invariant holds of every reachable state.                           *)
THEOREM MembershipInvariant == MembershipSpec => []MembershipInv
<1>1. MembershipInit => MembershipInv
  BY MembershipStarts
<1>2. MembershipInv /\ [MembershipNext]_membershipVars => MembershipInv'
  BY MembershipStep
<1> QED BY <1>1, <1>2, PTL DEF MembershipSpec

(* For any number of orders, no payment, however late it is reported,      *)
(* takes a tier or a part of the term from an active member                *)
(* (ConfirmMembershipPayment).                                             *)
THEOREM EntitlementAlwaysKept == MembershipSpec => EntitlementKept
<1> DEFINE Kept == Entitled /\ adjustments' = adjustments =>
                     /\ member'.expires >= member.expires
                     /\ member'.tier = member.tier \/ (member.tier = "vip" /\ member'.tier = "svip")
<1>1. MembershipInv /\ [MembershipNext]_membershipVars => [Kept]_membershipVars
  <2> SUFFICES ASSUME MembershipTypeOK, OrderedFor, MembershipNext, Entitled, adjustments' = adjustments
               PROVE /\ member'.expires >= member.expires
                     /\ member'.tier = member.tier \/ (member.tier = "vip" /\ member'.tier = "svip")
    BY DEF MembershipInv
  <2>1. CASE UNCHANGED member
    BY <2>1 DEF MembershipTypeOK, Memberships
  <2>2. ASSUME NEW o \in Orders, ConfirmMembershipPayment(o)
        PROVE /\ member'.expires >= member.expires
              /\ member'.tier = member.tier \/ (member.tier = "vip" /\ member'.tier = "svip")
    <3>1. order[o] \in OrderRows /\ today \in Nat
      BY MembershipAssumption DEF MembershipTypeOK
    <3>2. order[o].product # "none"
      BY <2>2 DEF OrderedFor, ConfirmMembershipPayment
    <3>3. order[o].product = "upgrade" /\ order[o].revision = member.revision
            => order[o].upgradeExpires = member.expires
      BY DEF OrderedFor
    <3>4. member' = Fulfilled(order[o]).member
      BY <2>2 DEF ConfirmMembershipPayment
    <3> QED BY <3>1, <3>2, <3>3, <3>4, FulfilledKeeps
  <2>3. ASSUME NEW tier, NEW expires, NEW reviewed, AdjustMembership(tier, expires, reviewed) PROVE FALSE
    BY <2>3 DEF AdjustMembership, MembershipTypeOK
  <2> QED
    BY <2>1, <2>2, <2>3
       DEF MembershipNext, CreateMembershipOrder, CancelMembershipOrder, Pay, HalfTermPasses
<1> QED BY <1>1, MembershipInvariant, PTL DEF MembershipSpec, EntitlementKept

(* For any number of orders and reports, the membership changes only with  *)
(* one order that becomes paid, and a paid order stays paid.               *)
THEOREM PaidAlwaysCountsOnce == MembershipSpec => PaidCountsOnce
<1> DEFINE Once == /\ member' # member /\ adjustments' = adjustments
                        => \E o \in collected : order[o].status \in {"pending", "expired"} /\ order'[o].status = "paid"
                   /\ \A o \in Orders : order[o].status = "paid" => order'[o].status = "paid"
<1>1. MembershipInv /\ [MembershipNext]_membershipVars => [Once]_membershipVars
  <2> SUFFICES ASSUME MembershipTypeOK, OrderedFor, MembershipNext PROVE Once
    BY DEF MembershipInv
  <2>1. ASSUME NEW o \in Orders, NEW product \in {"vip", "svip", "upgrade"}, CreateMembershipOrder(o, product)
        PROVE Once
    BY <2>1 DEF CreateMembershipOrder, MembershipTypeOK, OrderRows
  <2>2. ASSUME NEW o \in Orders, CancelMembershipOrder(o) PROVE Once
    BY <2>2 DEF CancelMembershipOrder, MembershipTypeOK, OrderRows
  <2>3. ASSUME NEW o \in Orders, Pay(o) PROVE Once
    BY <2>3 DEF Pay
  <2>4. ASSUME NEW o \in Orders, ConfirmMembershipPayment(o) PROVE Once
    <3>1. order[o] \in OrderRows /\ today \in Nat
      BY MembershipAssumption DEF MembershipTypeOK
    <3>2. order[o].product # "none"
      BY <2>4 DEF OrderedFor, ConfirmMembershipPayment
    <3>3. PICK status, m : status = Fulfilled(order[o]).status /\ m = Fulfilled(order[o]).member
      OBVIOUS
    <3>4. m = member \/ status = "paid"
      BY <3>1, <3>2, <3>3, FulfilledValue
    <3>5. member' = m /\ order' = [order EXCEPT ![o].status = status] /\ o \in collected
      BY <2>4, <3>3 DEF ConfirmMembershipPayment
    <3>6. order[o].status \in {"pending", "expired"}
      BY <2>4, <3>1 DEF ConfirmMembershipPayment, OrderRows, OrderedFor
    <3> QED BY <2>4, <3>4, <3>5, <3>6 DEF MembershipTypeOK, OrderRows, ConfirmMembershipPayment
  <2>5. ASSUME NEW tier, NEW expires, NEW reviewed, AdjustMembership(tier, expires, reviewed) PROVE Once
    BY <2>5 DEF AdjustMembership, MembershipTypeOK, OrderRows
  <2>6. CASE HalfTermPasses
    BY <2>6 DEF HalfTermPasses
  <2> HIDE DEF Once
  <2> QED BY <2>1, <2>2, <2>3, <2>4, <2>5, <2>6, Zenon DEF MembershipNext
<1> QED BY <1>1, MembershipInvariant, PTL DEF MembershipSpec, PaidCountsOnce
=============================================================================
