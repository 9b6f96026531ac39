------------------------- MODULE TokenRefreshProofs -------------------------
(***************************************************************************)
(* Proofs about TokenRefresh, for any number of refreshers, tokens and     *)
(* mishaps.                                                                *)
(***************************************************************************)
EXTENDS TokenRefresh, TLAPS

-----------------------------------------------------------------------------
(* The inductive invariant                                                 *)

(* Tokens are those that were issued, and the one a worker was given is    *)
(* younger than the one it used up.                                        *)
TokensOrdered ==
  /\ stored <= issued
  /\ \A r \in Refreshers :
       /\ refresher[r].read <= issued /\ refresher[r].got <= issued
       /\ refresher[r].at = "exchanged" => refresher[r].read < refresher[r].got

Busy(r) == refresher[r].at \notin {"idle", "listed"}

(* Only the holder of a lease that has not expired is past its             *)
(* acquisition; the account it exchanges a token of is healthy, and the    *)
(* token it was given is accepted.                                         *)
HolderAlone ==
  mishaps = 0 =>
    \A r \in Refreshers :
      /\ Busy(r) => holder = r /\ expired = FALSE
      /\ refresher[r].at \in {"exchanging", "exchanged"} => healthy = TRUE
      /\ refresher[r].at = "exchanged" => refresher[r].got \in alive

RefreshInv == RefreshTypeOK /\ TokensOrdered /\ HolderAlone /\ TokenUsable

-----------------------------------------------------------------------------

LEMMA InitEstablishes == RefreshInit => RefreshInv
<1> SUFFICES ASSUME RefreshInit PROVE RefreshInv
  OBVIOUS
<1> USE DEF RefreshInit
<1>1. 0 \in 0 .. MaxTokens /\ 0 \in 0 .. MaxMishaps /\ NotCalled \in Calls
  BY RefreshAssumption DEF NotCalled, Calls
<1>2. RefreshTypeOK
  BY <1>1, Zenon DEF RefreshTypeOK
<1>3. TokensOrdered
  BY DEF TokensOrdered, NotCalled
<1>4. HolderAlone
  BY DEF HolderAlone, Busy, NotCalled
<1>5. TokenUsable
  BY DEF TokenUsable
<1> QED BY <1>2, <1>3, <1>4, <1>5 DEF RefreshInv

(* Each step keeps the types.                                              *)
LEMMA TypeStep == RefreshTypeOK /\ [RefreshNext]_refreshVars => RefreshTypeOK'
<1> SUFFICES ASSUME RefreshTypeOK, [RefreshNext]_refreshVars PROVE RefreshTypeOK'
  OBVIOUS
<1> USE DEF RefreshTypeOK
<1>0. 0 \in 0 .. MaxTokens /\ NotCalled \in Calls
  BY RefreshAssumption DEF NotCalled, Calls
<1>1. CASE TokenExpires BY <1>1, Zenon DEF TokenExpires
<1>2. CASE UpdateAccountAuthorization
  <2>1. issued' \in 0 .. MaxTokens
    BY <1>2, RefreshAssumption DEF UpdateAccountAuthorization
  <2> QED BY <1>2, <2>1, Zenon DEF UpdateAccountAuthorization
<1>3. CASE LeaseExpires
  <2>1. mishaps' \in 0 .. MaxMishaps
    BY <1>3, RefreshAssumption DEF LeaseExpires
  <2> QED BY <1>3, <2>1, Zenon DEF LeaseExpires
<1>4. ASSUME NEW r \in Refreshers, List(r) PROVE RefreshTypeOK' BY <1>4 DEF List, Calls
<1>5. ASSUME NEW r \in Refreshers, TryAcquireAccountRefreshLease(r) PROVE RefreshTypeOK'
  <2>1. refresher' \in [Refreshers -> Calls]
    BY <1>0, <1>5 DEF TryAcquireAccountRefreshLease, Calls
  <2> QED BY <1>5, <2>1, Zenon DEF TryAcquireAccountRefreshLease
<1>6. ASSUME NEW r \in Refreshers, ReadLatest(r) PROVE RefreshTypeOK' BY <1>6, RefreshAssumption DEF ReadLatest, Calls
<1>7. ASSUME NEW r \in Refreshers, Exchange(r) PROVE RefreshTypeOK'
  <2>1. issued' \in 0 .. MaxTokens
    BY <1>7, RefreshAssumption DEF Exchange
  <2>2. refresher' \in [Refreshers -> Calls]
    BY <1>7, <2>1 DEF Exchange, Calls
  <2>3. alive' \in SUBSET (0 .. MaxTokens)
    BY <1>7, <2>1 DEF Exchange
  <2> QED BY <1>7, <2>1, <2>2, <2>3, Zenon DEF Exchange
<1>8. ASSUME NEW r \in Refreshers, ExchangeFails(r) PROVE RefreshTypeOK' BY <1>8 DEF ExchangeFails, Calls
<1>9. ASSUME NEW r \in Refreshers, UpdateAccountTokensIfRefreshTokenUnchanged(r) PROVE RefreshTypeOK'
  <2>1. refresher' \in [Refreshers -> Calls] /\ stored' \in 0 .. MaxTokens
    BY <1>9 DEF UpdateAccountTokensIfRefreshTokenUnchanged, Calls
  <2> QED BY <1>9, <2>1, Zenon DEF UpdateAccountTokensIfRefreshTokenUnchanged
<1>10. ASSUME NEW r \in Refreshers, ReleaseAccountRefreshLease(r) PROVE RefreshTypeOK'
  BY <1>0, <1>10 DEF ReleaseAccountRefreshLease
<1>11. ASSUME NEW r \in Refreshers, RefresherDies(r) PROVE RefreshTypeOK' 
  <2>1. mishaps' \in 0 .. MaxMishaps
    BY <1>11, RefreshAssumption DEF RefresherDies
  <2> QED BY <1>0, <1>11, <2>1 DEF RefresherDies
<1>12. ASSUME NEW r \in Refreshers, NEW mark \in BOOLEAN, MarkAccountErrorIfRefreshTokenUnchanged(r, mark)
       PROVE RefreshTypeOK'
  <2>1. refresher' \in [Refreshers -> Calls]
    BY <1>12 DEF MarkAccountErrorIfRefreshTokenUnchanged, Calls
  <2>2. healthy' \in BOOLEAN
    BY <1>12 DEF MarkAccountErrorIfRefreshTokenUnchanged
  <2> QED BY <1>12, <2>1, <2>2, Zenon DEF MarkAccountErrorIfRefreshTokenUnchanged
<1>13. CASE UNCHANGED refreshVars BY <1>13, Zenon DEF refreshVars
<1>14. ASSUME NEW active \in BOOLEAN, SetStatus(active) PROVE RefreshTypeOK'
  <2>1. mishaps' \in 0 .. MaxMishaps
    BY <1>14, RefreshAssumption DEF SetStatus
  <2> QED BY <1>14, <2>1, Zenon DEF SetStatus
<1>15. ASSUME NEW r \in Refreshers, ExchangeReplyLost(r) PROVE RefreshTypeOK'
  <2>1. issued' \in 0 .. MaxTokens /\ mishaps' \in 0 .. MaxMishaps
    BY <1>15, RefreshAssumption DEF ExchangeReplyLost
  <2>2. alive' \in SUBSET (0 .. MaxTokens)
    BY <1>15, <2>1 DEF ExchangeReplyLost
  <2> QED BY <1>15, <2>1, <2>2, Zenon DEF ExchangeReplyLost
<1>16. ASSUME NEW r \in Refreshers, CallFails(r) PROVE RefreshTypeOK'
  <2>1. refresher' \in [Refreshers -> Calls] /\ mishaps' \in 0 .. MaxMishaps
    BY <1>16, RefreshAssumption DEF CallFails, Calls
  <2> QED BY <1>16, <2>1, Zenon DEF CallFails
<1> QED BY <1>1, <1>2, <1>3, <1>4, <1>5, <1>6, <1>7, <1>8, <1>9, <1>10, <1>11, <1>12, <1>13, <1>14, <1>15,
            <1>16, Zenon DEF RefreshNext

(* A new token is younger than all the others.                             *)
LEMMA OrderedStep == RefreshTypeOK /\ TokensOrdered /\ RefreshTypeOK' /\ [RefreshNext]_refreshVars => TokensOrdered'
<1> SUFFICES ASSUME RefreshTypeOK /\ TokensOrdered, RefreshTypeOK', [RefreshNext]_refreshVars PROVE TokensOrdered'
  OBVIOUS
<1> USE DEF RefreshTypeOK, TokensOrdered, Calls
<1>1. CASE TokenExpires BY <1>1 DEF TokenExpires
<1>2. CASE UpdateAccountAuthorization BY <1>2 DEF UpdateAccountAuthorization
<1>3. CASE LeaseExpires BY <1>3 DEF LeaseExpires
<1>4. ASSUME NEW r \in Refreshers, List(r) PROVE TokensOrdered'
  BY <1>4 DEF List
<1>5. ASSUME NEW r \in Refreshers, TryAcquireAccountRefreshLease(r) PROVE TokensOrdered'
  BY <1>5 DEF TryAcquireAccountRefreshLease, NotCalled
<1>6. ASSUME NEW r \in Refreshers, ReadLatest(r) PROVE TokensOrdered'
  BY <1>6 DEF ReadLatest
<1>7. ASSUME NEW r \in Refreshers, Exchange(r) PROVE TokensOrdered'
  BY <1>7 DEF Exchange
<1>8. ASSUME NEW r \in Refreshers, ExchangeFails(r) PROVE TokensOrdered'
  BY <1>8 DEF ExchangeFails
<1>9. ASSUME NEW r \in Refreshers, UpdateAccountTokensIfRefreshTokenUnchanged(r) PROVE TokensOrdered'
  BY <1>9 DEF UpdateAccountTokensIfRefreshTokenUnchanged
<1>10. ASSUME NEW r \in Refreshers, ReleaseAccountRefreshLease(r) PROVE TokensOrdered'
  BY <1>10 DEF ReleaseAccountRefreshLease, NotCalled
<1>11. ASSUME NEW r \in Refreshers, RefresherDies(r) PROVE TokensOrdered'
  BY <1>11 DEF RefresherDies, NotCalled
<1>12. ASSUME NEW r \in Refreshers, NEW mark \in BOOLEAN, MarkAccountErrorIfRefreshTokenUnchanged(r, mark)
       PROVE TokensOrdered'
  BY <1>12 DEF MarkAccountErrorIfRefreshTokenUnchanged
<1>13. CASE UNCHANGED refreshVars BY <1>13 DEF refreshVars
<1>14. ASSUME NEW active \in BOOLEAN, SetStatus(active) PROVE TokensOrdered'
  BY <1>14 DEF SetStatus, Exchanging
<1>15. ASSUME NEW r \in Refreshers, ExchangeReplyLost(r) PROVE TokensOrdered'
  BY <1>15 DEF ExchangeReplyLost
<1>16. ASSUME NEW r \in Refreshers, CallFails(r) PROVE TokensOrdered'
  BY <1>16 DEF CallFails
<1> QED BY <1>1, <1>2, <1>3, <1>4, <1>5, <1>6, <1>7, <1>8, <1>9, <1>10, <1>11, <1>12, <1>13, <1>14, <1>15,
            <1>16, Zenon DEF RefreshNext

(* A lease is taken only when no other worker is past its acquisition.     *)
LEMMA AloneStep == RefreshTypeOK /\ HolderAlone /\ RefreshTypeOK' /\ [RefreshNext]_refreshVars => HolderAlone'
<1> SUFFICES ASSUME RefreshTypeOK /\ HolderAlone, RefreshTypeOK', [RefreshNext]_refreshVars PROVE HolderAlone'
  OBVIOUS
<1> USE DEF RefreshTypeOK, HolderAlone, Busy, Calls
<1>1. CASE TokenExpires BY <1>1 DEF TokenExpires
<1>2. CASE UpdateAccountAuthorization BY <1>2 DEF UpdateAccountAuthorization
<1>3. CASE LeaseExpires BY <1>3 DEF LeaseExpires
<1>4. ASSUME NEW r \in Refreshers, List(r) PROVE HolderAlone'
  BY <1>4 DEF List
<1>5. ASSUME NEW r \in Refreshers, TryAcquireAccountRefreshLease(r) PROVE HolderAlone'
  BY <1>5, RefreshAssumption DEF TryAcquireAccountRefreshLease, NotCalled
<1>6. ASSUME NEW r \in Refreshers, ReadLatest(r) PROVE HolderAlone'
  BY <1>6 DEF ReadLatest
<1>7. ASSUME NEW r \in Refreshers, Exchange(r) PROVE HolderAlone'
  BY <1>7 DEF Exchange
<1>8. ASSUME NEW r \in Refreshers, ExchangeFails(r) PROVE HolderAlone'
  BY <1>8 DEF ExchangeFails
<1>9. ASSUME NEW r \in Refreshers, UpdateAccountTokensIfRefreshTokenUnchanged(r) PROVE HolderAlone'
  BY <1>9 DEF UpdateAccountTokensIfRefreshTokenUnchanged
<1>10. ASSUME NEW r \in Refreshers, ReleaseAccountRefreshLease(r) PROVE HolderAlone'
  BY <1>10 DEF ReleaseAccountRefreshLease, NotCalled
<1>11. ASSUME NEW r \in Refreshers, RefresherDies(r) PROVE HolderAlone'
  BY <1>11 DEF RefresherDies, NotCalled
<1>12. ASSUME NEW r \in Refreshers, NEW mark \in BOOLEAN, MarkAccountErrorIfRefreshTokenUnchanged(r, mark)
       PROVE HolderAlone'
  BY <1>12 DEF MarkAccountErrorIfRefreshTokenUnchanged
<1>13. CASE UNCHANGED refreshVars BY <1>13 DEF refreshVars
<1>14. ASSUME NEW active \in BOOLEAN, SetStatus(active) PROVE HolderAlone'
  BY <1>14 DEF SetStatus, Exchanging
<1>15. ASSUME NEW r \in Refreshers, ExchangeReplyLost(r) PROVE HolderAlone'
  BY <1>15 DEF ExchangeReplyLost
<1>16. ASSUME NEW r \in Refreshers, CallFails(r) PROVE HolderAlone'
  BY <1>16 DEF CallFails
<1> QED BY <1>1, <1>2, <1>3, <1>4, <1>5, <1>6, <1>7, <1>8, <1>9, <1>10, <1>11, <1>12, <1>13, <1>14, <1>15,
            <1>16, Zenon DEF RefreshNext

(* The only worker that can have used the stored token up has the next.    *)
LEMMA UsableStep == RefreshTypeOK /\ HolderAlone /\ TokenUsable /\ RefreshTypeOK' /\ [RefreshNext]_refreshVars => TokenUsable'
<1> SUFFICES ASSUME RefreshTypeOK /\ HolderAlone /\ TokenUsable, RefreshTypeOK', [RefreshNext]_refreshVars PROVE TokenUsable'
  OBVIOUS
<1> USE DEF RefreshTypeOK, HolderAlone, TokenUsable, Busy, Calls
<1>1. CASE TokenExpires BY <1>1 DEF TokenExpires
<1>2. CASE UpdateAccountAuthorization BY <1>2 DEF UpdateAccountAuthorization
<1>3. CASE LeaseExpires BY <1>3 DEF LeaseExpires
<1>4. ASSUME NEW r \in Refreshers, List(r) PROVE TokenUsable'
  BY <1>4 DEF List
<1>5. ASSUME NEW r \in Refreshers, TryAcquireAccountRefreshLease(r) PROVE TokenUsable'
  BY <1>5 DEF TryAcquireAccountRefreshLease, NotCalled
<1>6. ASSUME NEW r \in Refreshers, ReadLatest(r) PROVE TokenUsable'
  BY <1>6 DEF ReadLatest
<1>7. ASSUME NEW r \in Refreshers, Exchange(r) PROVE TokenUsable'
  BY <1>7 DEF Exchange
<1>8. ASSUME NEW r \in Refreshers, ExchangeFails(r) PROVE TokenUsable'
  BY <1>8 DEF ExchangeFails
<1>9. ASSUME NEW r \in Refreshers, UpdateAccountTokensIfRefreshTokenUnchanged(r) PROVE TokenUsable'
  BY <1>9 DEF UpdateAccountTokensIfRefreshTokenUnchanged
<1>10. ASSUME NEW r \in Refreshers, ReleaseAccountRefreshLease(r) PROVE TokenUsable'
  BY <1>10 DEF ReleaseAccountRefreshLease, NotCalled
<1>11. ASSUME NEW r \in Refreshers, RefresherDies(r) PROVE TokenUsable'
  BY <1>11 DEF RefresherDies, NotCalled
<1>12. ASSUME NEW r \in Refreshers, NEW mark \in BOOLEAN, MarkAccountErrorIfRefreshTokenUnchanged(r, mark)
       PROVE TokenUsable'
  BY <1>12 DEF MarkAccountErrorIfRefreshTokenUnchanged
<1>13. CASE UNCHANGED refreshVars BY <1>13 DEF refreshVars
<1>14. ASSUME NEW active \in BOOLEAN, SetStatus(active) PROVE TokenUsable'
  BY <1>14 DEF SetStatus, Exchanging
<1>15. ASSUME NEW r \in Refreshers, ExchangeReplyLost(r) PROVE TokenUsable'
  BY <1>15 DEF ExchangeReplyLost
<1>16. ASSUME NEW r \in Refreshers, CallFails(r) PROVE TokenUsable'
  BY <1>16 DEF CallFails
<1> QED BY <1>1, <1>2, <1>3, <1>4, <1>5, <1>6, <1>7, <1>8, <1>9, <1>10, <1>11, <1>12, <1>13, <1>14, <1>15,
            <1>16, Zenon DEF RefreshNext

-----------------------------------------------------------------------------
(* The theorems                                                            *)

(* The invariant holds of every reachable state.                           *)
THEOREM RefreshInvariant == RefreshSpec => []RefreshInv
<1>1. RefreshInit => RefreshInv
  BY InitEstablishes
<1>2. RefreshInv /\ [RefreshNext]_refreshVars => RefreshInv'
  BY TypeStep, OrderedStep, AloneStep, UsableStep DEF RefreshInv
<1> QED BY <1>1, <1>2, PTL DEF RefreshSpec

(* For any number of workers the account's token is one the provider       *)
(* accepts, or its successor is about to be stored, until a lease is       *)
(* outlived, a worker dies or cannot write, a reply is lost or the status  *)
(* is written without the lease (refreshAccountTokenWithAttempts).         *)
THEOREM TokenAlwaysUsable == RefreshSpec => []TokenUsable
<1>1. RefreshInv => TokenUsable
  BY DEF RefreshInv
<1> QED BY <1>1, RefreshInvariant, PTL

(* For any number of workers and however many leases are outlived, a       *)
(* stored token is never replaced by an older one                          *)
(* (UpdateAccountTokensIfRefreshTokenUnchanged).                           *)
THEOREM NewerTokenAlwaysKept == RefreshSpec => NewerTokenKept
<1>1. RefreshInv /\ [RefreshNext]_refreshVars => [stored' >= stored]_refreshVars
  <2> SUFFICES ASSUME RefreshTypeOK, TokensOrdered, RefreshNext PROVE stored' >= stored
    BY DEF RefreshInv
  <2> USE DEF RefreshTypeOK, TokensOrdered, Calls
  <2>1. CASE UpdateAccountAuthorization
    BY <2>1 DEF UpdateAccountAuthorization
  <2>2. ASSUME NEW r \in Refreshers, UpdateAccountTokensIfRefreshTokenUnchanged(r) PROVE stored' >= stored
    BY <2>2 DEF UpdateAccountTokensIfRefreshTokenUnchanged
  <2>3. CASE UNCHANGED stored
    BY <2>3
  <2> QED
    BY <2>1, <2>2, <2>3
       DEF RefreshNext, TokenExpires, LeaseExpires, List, TryAcquireAccountRefreshLease, ReadLatest, Exchange,
           ExchangeReplyLost, ExchangeFails, CallFails, SetStatus, ReleaseAccountRefreshLease,
           RefresherDies, MarkAccountErrorIfRefreshTokenUnchanged
<1> QED BY <1>1, RefreshInvariant, PTL DEF RefreshSpec, NewerTokenKept
=============================================================================
