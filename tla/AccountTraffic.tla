--------------------------- MODULE AccountTraffic ---------------------------
(***************************************************************************)
(* The process-wide traffic controller of the gateway                      *)
(* (backend/internal/application/account_traffic.go).                      *)
(*                                                                         *)
(* Gateway requests, and the server's own quota and STATE probes, are      *)
(* admitted to an OpenAI account, hold a concurrency slot while they run   *)
(* and give it back.  Management operations (rebind, delete, create, quota *)
(* reset) quiesce one or more accounts: they close them to new admissions, *)
(* wait for the requests in flight to drain, run, and reopen them.  Every  *)
(* method body runs under one mutex, so each lock region is one action;    *)
(* what a goroutine does between two regions (sampling the clock, waiting  *)
(* on a channel) is a state of its own.                                    *)
(***************************************************************************)
EXTENDS Integers, FiniteSets, FiniteSetsExt

CONSTANTS
  Accounts,        \* account ids; numbers, because quiesce sorts them
  Requests,        \* gateway request and probe goroutines
  Quiescers,       \* management operation goroutines
  Users,           \* users that send gateway requests
  Probe,           \* stands for "no credential": a quota probe (reserve)
  StateProbe,      \* no credential either: a Codex STATE probe (acquire)
  MaxMinute,       \* bound on the wall clock, in minutes
  StateTTL,        \* accountTrafficStateTTL, in minutes
  CleanupPeriod,   \* accountTrafficCleanupPeriod, in minutes
  MaxConcurrency,  \* Account.MaxConcurrency per account, 0 = unlimited
  RPMLimit,        \* Account.RPMLimit per account, 0 = unlimited
  PolicyEnabled,   \* ConcurrencyPolicy.Enabled
  PolicyMembers,   \* the users ConcurrencyPolicy.Members lists
  BaseLimit,       \* reserved slots per user
  MemberMax        \* personal ceiling per user, 0 = none

ASSUME AccountsAssumption == Accounts \subseteq Nat /\ Accounts # {} /\ IsFiniteSet(Accounts)
ASSUME RequestsAssumption == IsFiniteSet(Requests)
ASSUME UsersAssumption ==
  /\ Probe \notin Users /\ StateProbe \notin Users /\ Probe # StateProbe
  /\ PolicyMembers \subseteq Users /\ IsFiniteSet(Users)
ASSUME ClockAssumption ==
  /\ MaxMinute \in Nat
  /\ StateTTL \in Nat \ {0}
  /\ CleanupPeriod \in Nat \ {0}
ASSUME LimitsAssumption ==
  /\ MaxConcurrency \in [Accounts -> Nat]
  /\ RPMLimit \in [Accounts -> Nat]
  /\ PolicyEnabled \in BOOLEAN
  /\ BaseLimit \in [Users -> Nat]
  /\ MemberMax \in [Users -> Nat]

VARIABLES
  minute,       \* the wall clock
  st,           \* accountTrafficController.states
  nextCleanup,  \* accountTrafficController.nextCleanup
  req,          \* each request goroutine: where it is, the account it asks for, the
                \* user of its credential (or its kind of probe) and the clock value it sampled
  qpc,          \* where each quiescing goroutine is
  qwant,        \* accounts it has still to quiesce
  qlocked       \* accounts in its "locked" slice

quiesceVars == <<qpc, qwant, qlocked>>
vars == <<minute, st, nextCleanup, req, qpc, qwant, qlocked>>

Minutes == 0 .. MaxMinute

(* Go's zero time.Time: further in the past than any TTL.                  *)
ZeroTime == 0 - StateTTL

(* A newly made accountTrafficState; idle says that its channel is closed. *)
FreshState ==
  [active |-> 0, members |-> [u \in Users |-> 0], quiescing |-> FALSE, idle |-> TRUE,
   window |-> ZeroTime, used |-> 0, pending |-> [m \in Minutes |-> 0], lastSeen |-> ZeroTime]

State ==
  [active : Nat, members : [Users -> Nat], quiescing : BOOLEAN, idle : BOOLEAN,
   window : Minutes \cup {ZeroTime}, used : Nat, pending : [Minutes -> Nat],
   lastSeen : Minutes \cup {ZeroTime}]

(* The users, and the two kinds of caller that have no credential.         *)
Callers == Users \cup {Probe, StateProbe}

Request ==
  [pc : {"idle", "ready", "held", "committed", "done"}, acct : Accounts,
   user : Callers, now : Minutes]

QuiesceStates ==
  {"idle", "acquire", "draining", "blocked", "woken", "holding", "cancelling", "done"}

(* A goroutine before its call and after it.                               *)
NoRequest(pc) == [pc |-> pc, acct |-> CHOOSE a \in Accounts : TRUE, user |-> Probe, now |-> 0]

Init ==
  /\ minute = 0
  /\ st = [a \in Accounts |-> FreshState]
  /\ nextCleanup = ZeroTime
  /\ req = [r \in Requests |-> NoRequest("idle")]
  /\ qpc = [q \in Quiescers |-> "idle"]
  /\ qwant = [q \in Quiescers |-> {}]
  /\ qlocked = [q \in Quiescers |-> {}]

-----------------------------------------------------------------------------
(* Admission                                                               *)

(* Mutants of Expired: the cleanup forgets a busy, or a quiescing, state.  *)
ExpiredBusy(s, now) == ~s.quiescing /\ now - s.lastSeen >= StateTTL
ExpiredQuiescing(s, now) == s.active = 0 /\ now - s.lastSeen >= StateTTL

(* prepareRequest first drops the states of accounts long unused; a        *)
(* dropped state is made afresh when it is next asked for.                 *)
Expired(s, now) == ~s.quiescing /\ s.active = 0 /\ now - s.lastSeen >= StateTTL

CleanupDue(now) == nextCleanup = ZeroTime \/ now >= nextCleanup

Cleaned(now) ==
  [a \in Accounts |-> IF CleanupDue(now) /\ Expired(st[a], now) THEN FreshState ELSE st[a]]

(* lastSeen moves to the sampled time; a counted request also opens its    *)
(* own minute's window when that is not the window in force.               *)
Seen(s, now, counts) ==
  [s EXCEPT !.lastSeen = now,
            !.window = IF counts THEN now ELSE @,
            !.used = IF counts /\ s.window # now THEN 0 ELSE @]

AtCapacity(s, max) == max > 0 /\ s.active >= max

(* Mutant of RateLimited: tentative admissions are not counted.            *)
RateLimitedByUsed(s, now, rpm) == rpm > 0 /\ s.used >= rpm

RateLimited(s, now, rpm) == rpm > 0 /\ s.used + s.pending[now] >= rpm

(* A slot is a user and a number: u's base slots are <<u, 1>> up to        *)
(* <<u, BaseLimit[u]>>.  A user off the policy has none.                   *)
Base(u) == IF u \in PolicyMembers THEN BaseLimit[u] ELSE 0

ReservedSlots == UNION {{u} \X (1 .. BaseLimit[u]) : u \in PolicyMembers}

Reserved == Cardinality(ReservedSlots)

(* The slots that users hold beyond their base.                            *)
SharedSlots(members) == UNION {{u} \X (Base(u) + 1 .. members[u]) : u \in Users}

SharedUsed(members) == Cardinality(SharedSlots(members))

(* Mutant of AdmitMember: one shared slot too many.                        *)
AdmitMemberLoose(s, u, max) ==
  \/ ~PolicyEnabled
  \/ u \in PolicyMembers /\ SharedUsed(s.members) <= max - Reserved

AdmitMember(s, u, max) ==
  \/ ~PolicyEnabled
  \/ /\ u \in PolicyMembers
     /\ max > 0 /\ Reserved <= max
     /\ MemberMax[u] > 0 => s.members[u] < MemberMax[u]
     /\ s.members[u] < Base(u) \/ SharedUsed(s.members) < max - Reserved

(* signalChangedLocked wakes every quiescer that waits for a change.       *)
Woken(pc) == [q \in Quiescers |-> IF pc[q] = "blocked" THEN "woken" ELSE pc[q]]

(* The caller picks an account and reads the clock, then waits for the     *)
(* mutex: the clock may move on in between.                                *)
Arrive(r, a, u) ==
  /\ req[r].pc = "idle"
  /\ req' = [req EXCEPT ![r] = [pc |-> "ready", acct |-> a, user |-> u, now |-> minute]]
  /\ UNCHANGED <<minute, st, nextCleanup, quiesceVars>>

(* countRPM: every caller but a quota probe has limits and is charged.     *)
Counted(r) == req[r].user # Probe

(* The limits a request meets, once its time has been seen.  A quota probe *)
(* meets none (reserve passes no limits); a STATE probe meets the          *)
(* account's but no member's (acquire passes no credential).               *)
Admissible(r, s) ==
  LET a == req[r].acct IN
  /\ Counted(r) => /\ ~AtCapacity(s, MaxConcurrency[a])
                   /\ ~RateLimited(s, req[r].now, RPMLimit[a])
  /\ req[r].user \in Users => AdmitMember(s, req[r].user, MaxConcurrency[a])

Admitted(s, now, u) ==
  [s EXCEPT !.active = @ + 1,
            !.idle = FALSE,
            !.members = [v \in Users |-> IF v = u THEN @[v] + 1 ELSE @[v]],
            !.pending = [m \in Minutes |-> IF u # Probe /\ m = now THEN @[m] + 1 ELSE @[m]]]

Prepare(r) ==
  LET a == req[r].acct
      now == req[r].now
      kept == Cleaned(now)
      seen == Seen(kept[a], now, Counted(r))
  IN
  /\ req[r].pc = "ready"
  /\ nextCleanup' = IF CleanupDue(now) THEN now + CleanupPeriod ELSE nextCleanup
  /\ \/ /\ kept[a].quiescing
        /\ st' = kept
        /\ req' = [req EXCEPT ![r] = NoRequest("done")]
        /\ UNCHANGED qpc
     \/ /\ ~kept[a].quiescing
        /\ ~Admissible(r, seen)
        /\ st' = [kept EXCEPT ![a] = seen]
        /\ req' = [req EXCEPT ![r] = NoRequest("done")]
        /\ UNCHANGED qpc
     \/ /\ ~kept[a].quiescing
        /\ Admissible(r, seen)
        /\ st' = [kept EXCEPT ![a] = Admitted(seen, now, req[r].user)]
        /\ req' = [req EXCEPT ![r].pc = "held"]
        /\ qpc' = Woken(qpc)
  /\ UNCHANGED <<minute, qwant, qlocked>>

(* Mutant of Settled: the tentative admission stays.                       *)
SettledPending(s, now) == [s EXCEPT !.used = IF s.window = now THEN @ + 1 ELSE @]

(* The RPM admission turns from tentative to charged, unless the account's *)
(* window has moved on to another minute.                                  *)
Settled(s, now) ==
  [s EXCEPT !.pending[now] = @ - 1,
            !.used = IF s.window = now THEN @ + 1 ELSE @]

Commit(r) ==
  /\ req[r].pc = "held" /\ Counted(r)
  /\ st' = [st EXCEPT ![req[r].acct] = Settled(@, req[r].now)]
  /\ req' = [req EXCEPT ![r].pc = "committed"]
  /\ UNCHANGED <<minute, nextCleanup, quiesceVars>>

(* Releasing before the commit takes the tentative admission back.  A      *)
(* STATE probe gets its release function only once acquire has committed.  *)
Returned(s, now, u, committed) ==
  [s EXCEPT !.active = @ - 1,
            !.idle = s.active = 1,
            !.members = [v \in Users |-> IF v = u THEN @[v] - 1 ELSE @[v]],
            !.pending = [m \in Minutes |->
                           IF u # Probe /\ ~committed /\ m = now THEN @[m] - 1 ELSE @[m]]]

Release(r) ==
  /\ req[r].pc \in {"held", "committed"}
  /\ req[r].user = StateProbe => req[r].pc = "committed"
  /\ st' = [st EXCEPT ![req[r].acct] = Returned(@, req[r].now, req[r].user, req[r].pc = "committed")]
  /\ req' = [req EXCEPT ![r] = NoRequest("done")]
  /\ qpc' = Woken(qpc)
  /\ UNCHANGED <<minute, nextCleanup, qwant, qlocked>>

-----------------------------------------------------------------------------
(* Quiescing                                                               *)

(* quiesce drops duplicates and empty ids and goes through the rest in     *)
(* sorted order.                                                           *)
QuiesceStart(q, ids) ==
  /\ qpc[q] = "idle"
  /\ qwant' = [qwant EXCEPT ![q] = ids]
  /\ qlocked' = [qlocked EXCEPT ![q] = {}]
  /\ qpc' = [qpc EXCEPT ![q] = IF ids = {} THEN "holding" ELSE "acquire"]
  /\ UNCHANGED <<minute, st, nextCleanup, req>>

(* Mutant of NextId: the ids are not sorted the same way by everyone.      *)
NextIdUnsorted(q) ==
  IF q = CHOOSE p \in Quiescers : TRUE THEN Max(qwant[q]) ELSE Min(qwant[q])

NextId(q) == Min(qwant[q])

(* One pass of the inner loop: close the account if nobody has, else wait  *)
(* for a change.                                                           *)
QuiesceAcquire(q) ==
  LET a == NextId(q) IN
  /\ qpc[q] \in {"acquire", "woken"}
  /\ \/ /\ ~st[a].quiescing
        /\ st' = [st EXCEPT ![a].quiescing = TRUE]
        /\ qpc' = [Woken(qpc) EXCEPT ![q] = "draining"]
     \/ /\ st[a].quiescing
        /\ qpc' = [qpc EXCEPT ![q] = "blocked"]
        /\ UNCHANGED st
  /\ UNCHANGED <<minute, nextCleanup, req, qwant, qlocked>>

QuiesceDrained(q) ==
  LET a == NextId(q) IN
  /\ qpc[q] = "draining"
  /\ st[a].idle
  /\ qwant' = [qwant EXCEPT ![q] = @ \ {a}]
  /\ qlocked' = [qlocked EXCEPT ![q] = @ \cup {a}]
  /\ qpc' = [qpc EXCEPT ![q] = IF qwant[q] = {a} THEN "holding" ELSE "acquire"]
  /\ UNCHANGED <<minute, st, nextCleanup, req>>

(* Mutant of Reopened: the flags stay set.                                 *)
ReopenedNone(ids) == st

(* releaseQuiesced *)
Reopened(ids) == [a \in Accounts |-> [st[a] EXCEPT !.quiescing = @ /\ a \notin ids]]

(* The context ends while the operation waits: what it holds is reopened;  *)
(* the account it was draining follows in a lock region of its own.        *)
QuiesceCancel(q) ==
  /\ qpc[q] \in {"draining", "blocked", "woken"}
  /\ st' = Reopened(qlocked[q])
  /\ qlocked' = [qlocked EXCEPT ![q] = {}]
  /\ qpc' = [Woken(qpc) EXCEPT ![q] = IF qpc[q] = "draining" THEN "cancelling" ELSE "done"]
  /\ UNCHANGED <<minute, nextCleanup, req, qwant>>

QuiesceCancelOwn(q) ==
  /\ qpc[q] = "cancelling"
  /\ st' = Reopened({NextId(q)})
  /\ qpc' = [Woken(qpc) EXCEPT ![q] = "done"]
  /\ UNCHANGED <<minute, nextCleanup, req, qwant, qlocked>>

(* The operation calls the release function it was given, to end or to     *)
(* quiesce again.                                                          *)
QuiesceReleaseTo(q, pc) ==
  /\ qpc[q] = "holding"
  /\ st' = Reopened(qlocked[q])
  /\ qlocked' = [qlocked EXCEPT ![q] = {}]
  /\ qpc' = [Woken(qpc) EXCEPT ![q] = pc]
  /\ UNCHANGED <<minute, nextCleanup, req, qwant>>

QuiesceRelease(q) == QuiesceReleaseTo(q, "done")

-----------------------------------------------------------------------------
Tick ==
  /\ minute < MaxMinute
  /\ minute' = minute + 1
  /\ UNCHANGED <<st, nextCleanup, req, quiesceVars>>

(* Every goroutine has ended: the only state the system may rest in.       *)
Finished ==
  /\ \A r \in Requests : req[r].pc = "done"
  /\ \A q \in Quiescers : qpc[q] = "done"
  /\ minute = MaxMinute
  /\ UNCHANGED vars

RequestStep(r) == Prepare(r) \/ Commit(r) \/ Release(r)

QuiesceStep(q) ==
  QuiesceAcquire(q) \/ QuiesceDrained(q) \/ QuiesceCancelOwn(q) \/ QuiesceRelease(q)

Next ==
  \/ \E r \in Requests, a \in Accounts, u \in Callers : Arrive(r, a, u)
  \/ \E r \in Requests : RequestStep(r)
  \/ \E q \in Quiescers, ids \in SUBSET Accounts : QuiesceStart(q, ids)
  \/ \E q \in Quiescers : QuiesceStep(q) \/ QuiesceCancel(q)
  \/ Tick
  \/ Finished

Spec == Init /\ [][Next]_vars

(* A goroutine that can run does run; requests end (the upstream calls     *)
(* have timeouts) and so do operations.  Nobody has to arrive and no       *)
(* context has to be cancelled.                                            *)
Fairness ==
  /\ \A r \in Requests : WF_vars(RequestStep(r))
  /\ \A q \in Quiescers : WF_vars(QuiesceStep(q))

FairSpec == Spec /\ Fairness
-----------------------------------------------------------------------------
(* Properties                                                              *)

InFlight(a) == {r \in Requests : req[r].pc \in {"held", "committed"} /\ req[r].acct = a}

InFlightOf(a, u) == {r \in InFlight(a) : req[r].user = u}

MembersInFlight(a) == {r \in InFlight(a) : req[r].user \in Users}

Tentative(a, m) == {r \in InFlight(a) : req[r].pc = "held" /\ Counted(r) /\ req[r].now = m}

(* The accounts a quiescer has closed: the ones it locked and the one it   *)
(* is draining or about to reopen.                                         *)
Closed(q) ==
  qlocked[q] \cup (IF qpc[q] \in {"draining", "cancelling"} THEN {NextId(q)} ELSE {})

(* Every variable keeps its type (the controller's structs).               *)
TypeOK ==
  /\ minute \in Minutes
  /\ st \in [Accounts -> State]
  /\ nextCleanup \in Int
  /\ req \in [Requests -> Request]
  /\ qpc \in [Quiescers -> QuiesceStates]
  /\ qwant \in [Quiescers -> SUBSET Accounts]
  /\ qlocked \in [Quiescers -> SUBSET Accounts]

(* While an operation holds an account it quiesced, no request or probe    *)
(* runs on that account: nothing slips in between the drain and the        *)
(* release, whatever is cancelled, cleaned up or woken meanwhile.          *)
DrainedExclusive ==
  \A q \in Quiescers : \A a \in qlocked[q] : InFlight(a) = {}

(* An account is closed to traffic exactly while one quiescer owns it:     *)
(* cancelled and finished operations leave no account closed behind them   *)
(* and no two operations own the same account.                             *)
QuiesceFlagOwned ==
  /\ \A a \in Accounts : st[a].quiescing <=> \E q \in Quiescers : a \in Closed(q)
  /\ \A p, q \in Quiescers : p # q => Closed(p) \cap Closed(q) = {}

(* A state's counters are what is really in flight on the account.         *)
CountsInFlight(s, a) ==
  /\ s.active = Cardinality(InFlight(a))
  /\ s.idle <=> s.active = 0
  /\ \A u \in Users : s.members[u] = Cardinality(InFlightOf(a, u))
  /\ \A m \in Minutes : s.pending[m] = Cardinality(Tentative(a, m))

(* The controller's counters are what is really in flight: commits,        *)
(* early releases, window changes and cleanups neither leak a slot nor     *)
(* free one twice, and the idle channel is closed exactly at zero.         *)
CountersExact == \A a \in Accounts : CountsInFlight(st[a], a)

(* A member's base slots are never lent to another member: while a member  *)
(* is below its base limit the members' requests together leave a slot of  *)
(* the account free.  Only the server's own probes, which belong to no     *)
(* member, can still make such a member find the account full.             *)
BaseSlotGuaranteed ==
  \A a \in Accounts, u \in PolicyMembers :
    (/\ PolicyEnabled /\ MaxConcurrency[a] > 0 /\ Reserved <= MaxConcurrency[a]
     /\ st[a].members[u] < BaseLimit[u])
    => Cardinality(MembersInFlight(a)) < MaxConcurrency[a]

(* The requests in flight that have limits, STATE probes included, never   *)
(* exceed the account's concurrency.                                       *)
ConcurrencyBounded ==
  \A a \in Accounts :
    MaxConcurrency[a] > 0 =>
      Cardinality({r \in InFlight(a) : Counted(r)}) <= MaxConcurrency[a]

(* In the window in force, charged and tentative admissions together stay  *)
(* within the account's RPM limit.                                         *)
WindowWithinRPM ==
  \A a \in Accounts :
    RPMLimit[a] > 0 =>
      /\ st[a].window \in Minutes =>
           st[a].used + st[a].pending[st[a].window] <= RPMLimit[a]
      /\ \A m \in Minutes : st[a].pending[m] <= RPMLimit[a]

Gate == INSTANCE AccountGate WITH
          running <- [a \in Accounts |-> InFlight(a)],
          closed <- [q \in Quiescers |-> Closed(q)],
          held <- qlocked

(* The controller is a gate in front of every account: whatever is sampled *)
(* before the mutex is taken, cleaned up, woken or cancelled, a request    *)
(* gets in only where nobody has closed, and an operation closes in order, *)
(* holds only what is drained and opens only what it closed.               *)
ImplementsGate == Gate!GateSpec

(* Every operation that starts to quiesce gets its accounts or gives up:   *)
(* sorted acquisition leaves no cycle of operations waiting on each other, *)
(* and no wake-up is lost.                                                 *)
QuiesceCompletes ==
  \A q \in Quiescers :
    qpc[q] \in {"acquire", "draining", "blocked", "woken"} ~> qpc[q] \in {"holding", "done"}

(* Every account closed to traffic is opened again.                        *)
AccountsReopen == \A a \in Accounts : st[a].quiescing ~> ~st[a].quiescing
=============================================================================
