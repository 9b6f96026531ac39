---------------------------- MODULE TokenRefresh ----------------------------
(***************************************************************************)
(* The refresh of one account's OAuth tokens: the workers of the periodic  *)
(* refresh and of manual ones, in every instance of the service, against   *)
(* the refresh lease, the account row, those who write its status without  *)
(* a lease, and the provider.                                              *)
(*                                                                         *)
(* Refresh tokens are numbered in the order the provider issues them.  The *)
(* provider rotates: a refresh uses its token up.  Time is left out: the   *)
(* token is due or not, a lease has expired or not.                        *)
(***************************************************************************)
EXTENDS Integers

CONSTANTS
  Refreshers,    \* refreshAccountTokenWithAttempts calls that may overlap
  NoHolder,
  MaxTokens,     \* bound on the tokens the provider issues
  MaxMishaps     \* bound on the mishaps below

ASSUME RefreshAssumption == NoHolder \notin Refreshers /\ MaxTokens \in Nat /\ MaxMishaps \in Nat

VARIABLES
  stored,       \* refresh_token_ciphertext of the account
  due,          \* whether token_expires_at is within refreshBefore
  healthy,      \* status = 'active', as opposed to refresh_required or disabled
  holder,       \* account_token_refresh_leases.holder_id
  expired,      \* whether that lease's expires_at has passed
  refresher,    \* each call: where it is, the token it read, the one it was given
  issued,       \* tokens issued by the provider
  alive,        \* issued tokens that the provider still accepts
  mishaps       \* leases outlived, workers that die, successors that could not be
                \* written, replies of the provider lost, and accounts taken out of
                \* service while a worker exchanges their token

refreshVars == <<stored, due, healthy, holder, expired, refresher, issued, alive, mishaps>>

Calls == [at : {"idle", "listed", "holding", "exchanging", "exchanged", "failed", "done"},
          read : 0 .. MaxTokens, got : 0 .. MaxTokens]

NotCalled == [at |-> "idle", read |-> 0, got |-> 0]

RefreshInit ==
  /\ stored = 0 /\ due = FALSE /\ healthy = TRUE
  /\ holder = NoHolder /\ expired = FALSE
  /\ refresher = [r \in Refreshers |-> NotCalled]
  /\ issued = 0 /\ alive = {0}
  /\ mishaps = 0

TokenExpires ==
  /\ ~due /\ due' = TRUE
  /\ UNCHANGED <<stored, healthy, holder, expired, refresher, issued, alive, mishaps>>

(* ListExpiringAccounts, or the read of a manual refresh: the account was  *)
(* active and due then.                                                    *)
List(r) ==
  /\ refresher[r].at = "idle" /\ healthy /\ due
  /\ refresher' = [refresher EXCEPT ![r].at = "listed"]
  /\ UNCHANGED <<stored, due, healthy, holder, expired, issued, alive, mishaps>>

(* MUTANT: the lease is taken over although it has not expired.            *)
LeaseTakenOver(r) ==
  /\ refresher[r].at = "listed"
  /\ holder' = r /\ expired' = FALSE /\ refresher' = [refresher EXCEPT ![r].at = "holding"]
  /\ UNCHANGED <<stored, due, healthy, issued, alive, mishaps>>

(* A call that does not get the lease gives up, or waits and only reads.   *)
TryAcquireAccountRefreshLease(r) ==
  /\ refresher[r].at = "listed"
  /\ IF holder = NoHolder \/ expired
     THEN holder' = r /\ expired' = FALSE /\ refresher' = [refresher EXCEPT ![r].at = "holding"]
     ELSE refresher' = [refresher EXCEPT ![r] = NotCalled] /\ UNCHANGED <<holder, expired>>
  /\ UNCHANGED <<stored, due, healthy, issued, alive, mishaps>>

(* The account is read again under the lease.                              *)
ReadLatest(r) ==
  /\ refresher[r].at = "holding"
  /\ refresher' = [refresher EXCEPT ![r] = IF healthy /\ due THEN [at |-> "exchanging", read |-> stored, got |-> 0]
                                           ELSE [@ EXCEPT !.at = "done"]]
  /\ UNCHANGED <<stored, due, healthy, holder, expired, issued, alive, mishaps>>

(* oauth.Refresh succeeds at one of its attempts.                          *)
Exchange(r) ==
  LET c == refresher[r]
  IN  /\ c.at = "exchanging" /\ c.read \in alive /\ issued < MaxTokens
      /\ issued' = issued + 1
      /\ alive' = (alive \ {c.read}) \cup {issued'}
      /\ refresher' = [refresher EXCEPT ![r] = [c EXCEPT !.at = "exchanged", !.got = issued']]
      /\ UNCHANGED <<stored, due, healthy, holder, expired, mishaps>>

(* An attempt after which the provider has rotated the token although its  *)
(* reply never comes: oauth.Refresh fails, and the next attempt presents   *)
(* the token that is used up.                                              *)
ExchangeReplyLost(r) ==
  LET c == refresher[r]
  IN  /\ c.at = "exchanging" /\ c.read \in alive /\ issued < MaxTokens
      /\ mishaps < MaxMishaps /\ mishaps' = mishaps + 1
      /\ issued' = issued + 1
      /\ alive' = (alive \ {c.read}) \cup {issued'}
      /\ UNCHANGED <<stored, due, healthy, holder, expired, refresher>>

(* The last attempt fails, because the provider refuses or does not answer.*)
ExchangeFails(r) ==
  /\ refresher[r].at = "exchanging"
  /\ refresher' = [refresher EXCEPT ![r].at = "failed"]
  /\ UNCHANGED <<stored, due, healthy, holder, expired, issued, alive, mishaps>>

(* MUTANT: the new tokens are stored unconditionally.                      *)
UpdateAccountTokens(r) ==
  /\ refresher[r].at = "exchanged"
  /\ stored' = refresher[r].got /\ due' = FALSE
  /\ refresher' = [refresher EXCEPT ![r].at = "done"]
  /\ UNCHANGED <<healthy, holder, expired, issued, alive, mishaps>>

UpdateAccountTokensIfRefreshTokenUnchanged(r) ==
  /\ refresher[r].at = "exchanged"
  /\ IF stored = refresher[r].read /\ healthy
     THEN stored' = refresher[r].got /\ due' = FALSE
     ELSE UNCHANGED <<stored, due>>
  /\ refresher' = [refresher EXCEPT ![r].at = "done"]
  /\ UNCHANGED <<healthy, holder, expired, issued, alive, mishaps>>

(* A manual refresh of a token that has not expired leaves the account be. *)
MarkAccountErrorIfRefreshTokenUnchanged(r, markAccountError) ==
  /\ refresher[r].at = "failed"
  /\ healthy' = (healthy /\ ~(markAccountError /\ stored = refresher[r].read))
  /\ refresher' = [refresher EXCEPT ![r].at = "done"]
  /\ UNCHANGED <<stored, due, holder, expired, issued, alive, mishaps>>

(* A database error or the end of its context makes a call return early;   *)
(* the new tokens, when it has them, are gone.                             *)
CallFails(r) ==
  /\ refresher[r].at \in {"holding", "exchanging", "exchanged"}
  /\ IF refresher[r].at # "exchanged" THEN UNCHANGED mishaps
     ELSE mishaps < MaxMishaps /\ mishaps' = mishaps + 1
  /\ refresher' = [refresher EXCEPT ![r].at = "done"]
  /\ UNCHANGED <<stored, due, healthy, holder, expired, issued, alive>>

ReleaseAccountRefreshLease(r) ==
  /\ refresher[r].at = "done"
  /\ holder' = IF holder = r THEN NoHolder ELSE holder
  /\ refresher' = [refresher EXCEPT ![r] = NotCalled]
  /\ UNCHANGED <<stored, due, healthy, expired, issued, alive, mishaps>>

(* The owner authorizes the account anew: tokens of another grant.         *)
UpdateAccountAuthorization ==
  /\ issued < MaxTokens
  /\ issued' = issued + 1 /\ alive' = alive \cup {issued'}
  /\ stored' = issued' /\ due' = FALSE /\ healthy' = TRUE
  /\ UNCHANGED <<holder, expired, refresher, mishaps>>

Exchanging == \E r \in Refreshers : refresher[r].at \in {"exchanging", "exchanged"}

(* MarkGatewayAccountRefreshRequired (for a gateway request whose          *)
(* credential is still the stored one), UpdateAccountConfig and            *)
(* AdminUpdateAccountStatus write the status without asking for the lease. *)
SetStatus(active) ==
  /\ healthy # active /\ healthy' = active
  /\ IF active \/ ~Exchanging THEN UNCHANGED mishaps
     ELSE mishaps < MaxMishaps /\ mishaps' = mishaps + 1
  /\ UNCHANGED <<stored, due, holder, expired, refresher, issued, alive>>

(* Three minutes are over.  Three attempts of up to 120 s can outlive them.*)
LeaseExpires ==
  /\ holder # NoHolder /\ ~expired /\ expired' = TRUE
  /\ IF refresher[holder].at = "idle" THEN UNCHANGED mishaps
     ELSE mishaps < MaxMishaps /\ mishaps' = mishaps + 1
  /\ UNCHANGED <<stored, due, healthy, holder, refresher, issued, alive>>

(* The instance dies, or its release fails: the lease stays.               *)
RefresherDies(r) ==
  /\ refresher[r].at # "idle" /\ mishaps < MaxMishaps
  /\ refresher' = [refresher EXCEPT ![r] = NotCalled]
  /\ mishaps' = mishaps + 1
  /\ UNCHANGED <<stored, due, healthy, holder, expired, issued, alive>>

RefreshNext ==
  \/ TokenExpires \/ UpdateAccountAuthorization \/ LeaseExpires
  \/ \E active \in BOOLEAN : SetStatus(active)
  \/ \E r \in Refreshers :
       \/ List(r) \/ TryAcquireAccountRefreshLease(r) \/ ReadLatest(r) \/ Exchange(r)
       \/ ExchangeReplyLost(r) \/ ExchangeFails(r) \/ CallFails(r)
       \/ UpdateAccountTokensIfRefreshTokenUnchanged(r) \/ ReleaseAccountRefreshLease(r) \/ RefresherDies(r)
       \/ \E mark \in BOOLEAN : MarkAccountErrorIfRefreshTokenUnchanged(r, mark)

RefreshSpec == RefreshInit /\ [][RefreshNext]_refreshVars

-----------------------------------------------------------------------------
(* Properties                                                              *)

RefreshTypeOK ==
  /\ stored \in 0 .. MaxTokens /\ due \in BOOLEAN /\ healthy \in BOOLEAN
  /\ holder \in Refreshers \cup {NoHolder} /\ expired \in BOOLEAN
  /\ refresher \in [Refreshers -> Calls]
  /\ issued \in 0 .. MaxTokens /\ alive \in SUBSET (0 .. MaxTokens) /\ mishaps \in 0 .. MaxMishaps

(* A late worker never puts an older token over a newer one, in particular *)
(* not over that of a new authorization, however long it was away and      *)
(* whoever held the lease meanwhile (the comparison in                     *)
(* UpdateAccountTokensIfRefreshTokenUnchanged).                            *)
NewerTokenKept == [][stored' >= stored]_refreshVars

(* Refreshes alone never lose an account: two overlapping ones cannot use  *)
(* up its only token and drop its successor.  The stored token is one the  *)
(* provider accepts, or the worker that exchanged it is about to store the *)
(* next, unless one of the mishaps came between: an outlived lease, a dead *)
(* worker, a failed write, a lost reply, or a status written without the   *)
(* lease, after which the compare-and-set finds no active row.             *)
TokenUsable ==
  mishaps = 0 => stored \in alive \/ \E r \in Refreshers : refresher[r].at = "exchanged" /\ refresher[r].read = stored
=============================================================================
