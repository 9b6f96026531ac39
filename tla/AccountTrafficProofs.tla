------------------------ MODULE AccountTrafficProofs ------------------------
(***************************************************************************)
(* Proofs about the traffic controller, for every set of accounts,         *)
(* requests, users and quiescing operations.                               *)
(***************************************************************************)
EXTENDS AccountTraffic, FiniteSetTheorems, WellFoundedInduction, TLAPS

(* A nonempty set of account ids has a least member: the id that quiesce   *)
(* takes next is one that it still wants, and before all the others.       *)
LEMMA MinIn ==
  ASSUME NEW S, S \subseteq Nat, S # {}
  PROVE  Min(S) \in S /\ \A y \in S : Min(S) <= y
<1> DEFINE R == {p \in Nat \X Nat : p[1] < p[2]}
<1>1. IsWellFoundedOn(R, Nat)
  BY NatLessThanWellFounded DEF OpToRel
<1> HIDE DEF R
<1>2. PICK x \in S : \A y \in S : ~(<<y, x>> \in R)
  BY <1>1, WFMin
<1>3. ASSUME NEW y \in S PROVE x <= y
  <2>1. ~(<<y, x>> \in R)
    BY <1>2
  <2>2. ~(y < x)
    BY <2>1 DEF R
  <2>3. QED
    BY <2>2
<1>4. QED
  BY <1>3 DEF Min

(* What a quiescing operation still wants is disjoint from what it has     *)
(* locked, is there as long as it looks for accounts, and locks are held   *)
(* only between the first drain and the release.                           *)
QuiesceShape ==
  \A q \in Quiescers :
    /\ qpc[q] \in {"acquire", "draining", "blocked", "woken", "cancelling"} => qwant[q] # {}
    /\ qlocked[q] # {} => qpc[q] \in {"acquire", "draining", "blocked", "woken", "holding"}
    /\ qlocked[q] \cap qwant[q] = {}

(* The inductive invariant.  TypeOK is not inductive alone: a counter      *)
(* stays a natural number because it counts requests that exist, and no    *)
(* request is admitted to a locked account because the account is flagged. *)
TrafficInv ==
  /\ TypeOK
  /\ CountersExact
  /\ QuiesceShape
  /\ QuiesceFlagOwned
  /\ DrainedExclusive

(* The sets that the counters count are finite.                            *)
LEMMA InFlightFinite ==
  ASSUME NEW a, NEW u, NEW m
  PROVE  /\ IsFiniteSet(InFlight(a)) /\ Cardinality(InFlight(a)) \in Nat
         /\ IsFiniteSet(InFlightOf(a, u)) /\ Cardinality(InFlightOf(a, u)) \in Nat
         /\ IsFiniteSet(Tentative(a, m)) /\ Cardinality(Tentative(a, m)) \in Nat
<1>1. InFlight(a) \in SUBSET Requests /\ InFlightOf(a, u) \in SUBSET Requests
      /\ Tentative(a, m) \in SUBSET Requests
  BY DEF InFlight, InFlightOf, Tentative
<1>2. QED
  BY <1>1, RequestsAssumption, FS_Subset, FS_CardinalityType

(* A newly made state is well-typed and counts an account with no request. *)
LEMMA FreshCounts ==
  ASSUME NEW a, InFlight(a) = {}
  PROVE  FreshState \in State /\ CountsInFlight(FreshState, a) /\ FreshState.quiescing = FALSE
<1>1. FreshState \in State
  BY ClockAssumption DEF FreshState, State, ZeroTime, Minutes
<1>2. \A u : InFlightOf(a, u) = {}
  BY DEF InFlightOf
<1>3. \A m : Tentative(a, m) = {}
  BY DEF Tentative
<1>4. CountsInFlight(FreshState, a)
  BY <1>2, <1>3, FS_EmptySet DEF CountsInFlight, FreshState
<1>5. QED
  BY <1>1, <1>4 DEF FreshState

(* The cleanup forgets only states that count nothing, so every counter    *)
(* stays exact and no account changes its quiescing flag.                  *)
LEMMA CleanedCounts ==
  ASSUME TypeOK, CountersExact, NEW now
  PROVE  /\ Cleaned(now) \in [Accounts -> State]
         /\ \A a \in Accounts : /\ CountsInFlight(Cleaned(now)[a], a)
                                /\ Cleaned(now)[a].quiescing = st[a].quiescing
<1>1. ASSUME NEW a \in Accounts
      PROVE  /\ Cleaned(now)[a] \in State
             /\ CountsInFlight(Cleaned(now)[a], a)
             /\ Cleaned(now)[a].quiescing = st[a].quiescing
  <2>1. CASE CleanupDue(now) /\ Expired(st[a], now)
    <3>1. st[a].active = 0 /\ ~st[a].quiescing
      BY <2>1 DEF Expired
    <3>2. Cardinality(InFlight(a)) = 0
      BY <3>1 DEF CountersExact, CountsInFlight
    <3>3. InFlight(a) = {}
      BY <3>2, InFlightFinite, FS_EmptySet
    <3>4. Cleaned(now)[a] = FreshState
      BY <2>1 DEF Cleaned
    <3>5. st[a].quiescing = FALSE
      BY <3>1 DEF TypeOK, State
    <3>6. QED
      BY <3>3, <3>4, <3>5, FreshCounts
  <2>2. CASE ~(CleanupDue(now) /\ Expired(st[a], now))
    BY <2>2 DEF Cleaned, TypeOK, CountersExact
  <2>3. QED
    BY <2>1, <2>2
<1>2. QED
  BY <1>1 DEF Cleaned

(* A step that moves no request in or out of flight, nor commits one,      *)
(* leaves exact counters exact.                                            *)
LEMMA SameCounts ==
  ASSUME NEW r \in Requests, TypeOK, NEW x, req' = [req EXCEPT ![r] = x],
         req[r].pc \notin {"held", "committed"}, x.pc \notin {"held", "committed"},
         NEW a, NEW s, CountsInFlight(s, a)
  PROVE  CountsInFlight(s, a)'
<1>1. \A p \in Requests : p # r => req'[p] = req[p]
  BY DEF TypeOK
<1>2. req'[r] = x
  BY DEF TypeOK
<1>3. InFlight(a)' = InFlight(a)
  BY <1>1, <1>2 DEF InFlight
<1>4. ASSUME NEW u PROVE InFlightOf(a, u)' = InFlightOf(a, u)
  BY <1>1, <1>2 DEF InFlight, InFlightOf
<1>5. ASSUME NEW m PROVE Tentative(a, m)' = Tentative(a, m)
  BY <1>1, <1>2 DEF InFlight, Tentative, Counted
<1>6. QED
  BY <1>3, <1>4, <1>5 DEF CountsInFlight

(* A step that touches no request leaves exact counters exact.             *)
LEMMA UnchangedCounts ==
  ASSUME UNCHANGED req, NEW a, NEW s, CountsInFlight(s, a)
  PROVE  CountsInFlight(s, a)'
BY DEF CountsInFlight, InFlight, InFlightOf, Tentative, Counted

(* A state with new counters is a state.                                   *)
LEMMA RecountedType ==
  ASSUME NEW s \in State, NEW n \in Nat, NEW i \in BOOLEAN,
         NEW f \in [Users -> Nat], NEW g \in [Minutes -> Nat]
  PROVE  [s EXCEPT !.active = n, !.idle = i, !.members = f, !.pending = g] \in State
BY DEF State

(* A state with another charge and other tentative counts is a state.      *)
LEMMA ChargedType ==
  ASSUME NEW s \in State, NEW k \in Nat, NEW g \in [Minutes -> Nat]
  PROVE  [s EXCEPT !.pending = g, !.used = k] \in State
BY DEF State

(* Admitting a request adds it to the sets of its account, user and        *)
(* minute, as Admitted adds it to their counters.                          *)
LEMMA AdmittedCounts ==
  ASSUME NEW r \in Requests, TypeOK, req[r].pc = "ready", req' = [req EXCEPT ![r].pc = "held"],
         NEW a, NEW s \in State, CountsInFlight(s, a),
         NEW now \in Minutes, now = req[r].now,
         NEW u \in Callers, u = req[r].user,
         NEW t, t = IF a = req[r].acct THEN Admitted(s, now, u) ELSE s
  PROVE  t \in State /\ CountsInFlight(t, a)'
<1>1. \A p \in Requests : p # r => req'[p] = req[p]
  BY DEF TypeOK
<1>2. /\ req'[r].pc = "held" /\ req'[r].acct = req[r].acct
      /\ req'[r].user = req[r].user /\ req'[r].now = req[r].now
  BY DEF TypeOK, Request
<1>3. CASE a # req[r].acct
  <2>1. InFlight(a)' = InFlight(a)
    BY <1>1, <1>2, <1>3 DEF InFlight
  <2>2. ASSUME NEW v PROVE InFlightOf(a, v)' = InFlightOf(a, v)
    BY <1>1, <1>2, <1>3 DEF InFlight, InFlightOf
  <2>3. ASSUME NEW m PROVE Tentative(a, m)' = Tentative(a, m)
    BY <1>1, <1>2, <1>3 DEF InFlight, Tentative, Counted
  <2>4. QED
    BY <1>3, <2>1, <2>2, <2>3 DEF CountsInFlight
<1>4. CASE a = req[r].acct
  <2>1. t = Admitted(s, now, u)
    BY <1>4
  <2>2. /\ t.active = s.active + 1 /\ t.idle = FALSE
        /\ t.members = [v \in Users |-> IF v = u THEN s.members[v] + 1 ELSE s.members[v]]
        /\ t.pending = [m \in Minutes |-> IF u # Probe /\ m = now THEN s.pending[m] + 1 ELSE s.pending[m]]
    BY <2>1 DEF Admitted, State
  <2>3. t \in State
    <3>1. [v \in Users |-> IF v = u THEN s.members[v] + 1 ELSE s.members[v]] \in [Users -> Nat]
      BY DEF State
    <3>2. [m \in Minutes |-> IF u # Probe /\ m = now THEN s.pending[m] + 1 ELSE s.pending[m]]
             \in [Minutes -> Nat]
      BY DEF State
    <3>3. PICK f \in [Users -> Nat], g \in [Minutes -> Nat] :
            t = [s EXCEPT !.active = @ + 1, !.idle = FALSE, !.members = f, !.pending = g]
      BY <2>1, <3>1, <3>2 DEF Admitted
    <3>4. PICK n \in Nat : n = s.active + 1
      BY DEF State
    <3>5. [s EXCEPT !.active = n, !.idle = FALSE, !.members = f, !.pending = g] \in State
      BY RecountedType, Zenon
    <3>6. QED
      BY <3>3, <3>4, <3>5
  <2>4. /\ t.active = Cardinality(InFlight(a)')
        /\ t.idle <=> t.active = 0
    <3>1. InFlight(a)' = InFlight(a) \cup {r} /\ r \notin InFlight(a)
      BY <1>1, <1>2, <1>4 DEF InFlight
    <3>2. Cardinality(InFlight(a)') = Cardinality(InFlight(a)) + 1
      BY <3>1, InFlightFinite, FS_AddElement
    <3>3. s.active = Cardinality(InFlight(a)) /\ Cardinality(InFlight(a)) \in Nat
      BY InFlightFinite DEF CountsInFlight
    <3>4. QED
      BY <2>2, <3>2, <3>3
  <2>5. ASSUME NEW v \in Users PROVE t.members[v] = Cardinality(InFlightOf(a, v)')
    <3>1. CASE v = u
      <4>1. InFlightOf(a, v)' = InFlightOf(a, v) \cup {r} /\ r \notin InFlightOf(a, v)
        BY <1>1, <1>2, <1>4, <3>1 DEF InFlight, InFlightOf
      <4>2. Cardinality(InFlightOf(a, v)') = Cardinality(InFlightOf(a, v)) + 1
        BY <4>1, InFlightFinite, FS_AddElement
      <4>3. QED
        BY <2>2, <3>1, <4>2 DEF CountsInFlight
    <3>2. CASE v # u
      <4>1. InFlightOf(a, v)' = InFlightOf(a, v)
        BY <1>1, <1>2, <3>2 DEF InFlight, InFlightOf
      <4>2. QED
        BY <2>2, <3>2, <4>1 DEF CountsInFlight
    <3>3. QED
      BY <3>1, <3>2
  <2>6. ASSUME NEW m \in Minutes PROVE t.pending[m] = Cardinality(Tentative(a, m)')
    <3>1. CASE u # Probe /\ m = now
      <4>1. Tentative(a, m)' = Tentative(a, m) \cup {r} /\ r \notin Tentative(a, m)
        BY <1>1, <1>2, <1>4, <3>1 DEF InFlight, Tentative, Counted
      <4>2. Cardinality(Tentative(a, m)') = Cardinality(Tentative(a, m)) + 1
        BY <4>1, InFlightFinite, FS_AddElement
      <4>3. QED
        BY <2>2, <3>1, <4>2 DEF CountsInFlight
    <3>2. CASE ~(u # Probe /\ m = now)
      <4>1. Tentative(a, m)' = Tentative(a, m)
        BY <1>1, <1>2, <3>2 DEF InFlight, Tentative, Counted
      <4>2. QED
        BY <2>2, <3>2, <4>1 DEF CountsInFlight
    <3>3. QED
      BY <3>1, <3>2
  <2>7. QED
    BY <2>3, <2>4, <2>5, <2>6 DEF CountsInFlight
<1>5. QED
  BY <1>3, <1>4

(* Seeing a request's time touches no counter.                             *)
LEMMA SeenCounts ==
  ASSUME NEW s \in State, NEW a, NEW now \in Minutes, NEW counts \in BOOLEAN, CountsInFlight(s, a)
  PROVE  /\ Seen(s, now, counts) \in State
         /\ CountsInFlight(Seen(s, now, counts), a)
<1>1. Seen(s, now, counts) \in State
  BY DEF Seen, State
<1>2. /\ Seen(s, now, counts).active = s.active /\ Seen(s, now, counts).idle = s.idle
      /\ Seen(s, now, counts).members = s.members /\ Seen(s, now, counts).pending = s.pending
  BY DEF Seen, State
<1>3. QED
  BY <1>1, <1>2 DEF CountsInFlight

(* The record of a goroutine that is not in a call is well-typed.          *)
LEMMA NoRequestType ==
  ASSUME NEW pc \in {"idle", "done"}
  PROVE  NoRequest(pc) \in Request /\ NoRequest(pc).pc = pc
<1>1. (CHOOSE a \in Accounts : TRUE) \in Accounts
  BY AccountsAssumption
<1>2. QED
  BY <1>1, ClockAssumption DEF NoRequest, Request, Callers, Minutes

(* Waking the waiting quiescers keeps the program counters well-typed.     *)
LEMMA WokenType ==
  ASSUME TypeOK
  PROVE  Woken(qpc) \in [Quiescers -> QuiesceStates]
BY DEF TypeOK, Woken, QuiesceStates

(* The counters stay exact, and every variable well-typed, through an      *)
(* admission decision.                                                     *)
LEMMA PrepareCounts ==
  ASSUME TypeOK, CountersExact, NEW r \in Requests, Prepare(r)
  PROVE  TypeOK' /\ CountersExact'
<1>1. PICK a \in Accounts, now \in Minutes, u \in Callers :
        a = req[r].acct /\ now = req[r].now /\ u = req[r].user
  BY DEF TypeOK, Request
<1> DEFINE kept == Cleaned(now)
           seen == Seen(kept[a], now, Counted(r))
<1>2. kept \in [Accounts -> State] /\ \A b \in Accounts : CountsInFlight(kept[b], b)
  BY <1>1, CleanedCounts
<1>3. seen \in State /\ CountsInFlight(seen, a)
  <2>1. Counted(r) \in BOOLEAN
    BY DEF Counted
  <2>2. QED
    BY <1>2, <2>1, SeenCounts
<1>4. /\ req[r].pc = "ready" /\ nextCleanup' \in Int
      /\ minute' \in Minutes /\ qwant' \in [Quiescers -> SUBSET Accounts]
      /\ qlocked' \in [Quiescers -> SUBSET Accounts]
  BY <1>1, ClockAssumption DEF Prepare, TypeOK, Minutes
<1>5. CASE st' = kept /\ req' = [req EXCEPT ![r] = NoRequest("done")] /\ UNCHANGED qpc
  <2>1. TypeOK'
    BY <1>2, <1>4, <1>5, NoRequestType DEF TypeOK
  <2>2. ASSUME NEW b \in Accounts PROVE CountsInFlight(st[b], b)'
    <3>1. PICK s : s = kept[b]
      OBVIOUS
    <3>2. CountsInFlight(s, b)'
      BY <1>2, <1>4, <1>5, <3>1, NoRequestType, SameCounts
    <3>3. QED
      BY <1>5, <3>1, <3>2 DEF CountsInFlight
  <2>3. QED
    BY <2>1, <2>2 DEF CountersExact
<1>6. CASE /\ st' = [kept EXCEPT ![a] = seen]
           /\ req' = [req EXCEPT ![r] = NoRequest("done")] /\ UNCHANGED qpc
  <2>1. TypeOK'
    BY <1>2, <1>3, <1>4, <1>6, NoRequestType DEF TypeOK
  <2>2. ASSUME NEW b \in Accounts PROVE CountsInFlight(st[b], b)'
    <3>1. PICK s : s = st'[b]
      OBVIOUS
    <3>2. CountsInFlight(s, b)
      BY <1>2, <1>3, <1>6, <3>1
    <3>3. CountsInFlight(s, b)'
      BY <1>4, <1>6, <3>2, NoRequestType, SameCounts
    <3>4. QED
      BY <3>1, <3>3 DEF CountsInFlight
  <2>3. QED
    BY <2>1, <2>2 DEF CountersExact
<1>7. CASE /\ st' = [kept EXCEPT ![a] = Admitted(seen, now, u)]
           /\ req' = [req EXCEPT ![r].pc = "held"] /\ qpc' = Woken(qpc)
  <2>1. ASSUME NEW b \in Accounts PROVE st'[b] \in State /\ CountsInFlight(st[b], b)'
    <3>1. PICK s, t : /\ s = (IF b = a THEN seen ELSE kept[b])
                      /\ t = (IF b = a THEN Admitted(s, now, u) ELSE s)
      OBVIOUS
    <3>2. s \in State /\ CountsInFlight(s, b)
      BY <1>2, <1>3, <3>1
    <3>3. t \in State /\ CountsInFlight(t, b)'
      BY <1>1, <1>4, <1>7, <3>1, <3>2, AdmittedCounts
    <3>4. st'[b] = t
      BY <1>2, <1>7, <3>1
    <3>5. QED
      BY <3>3, <3>4 DEF CountsInFlight
  <2>2. req' \in [Requests -> Request]
    BY <1>7 DEF TypeOK, Request
  <2>3. st' \in [Accounts -> State]
    BY <1>2, <1>7, <2>1
  <2>4. TypeOK'
    BY <1>4, <1>7, <2>2, <2>3, WokenType DEF TypeOK
  <2>5. QED
    BY <2>1, <2>4 DEF CountersExact
<1>8. QED
  BY <1>1, <1>5, <1>6, <1>7 DEF Prepare

(* Charging a request takes it out of the tentative ones of its minute,    *)
(* as Settled takes it out of pending; it stays in flight.                 *)
LEMMA SettledCounts ==
  ASSUME NEW r \in Requests, TypeOK, req[r].pc = "held", Counted(r),
         req' = [req EXCEPT ![r].pc = "committed"],
         NEW a, NEW s \in State, CountsInFlight(s, a),
         NEW now \in Minutes, now = req[r].now,
         NEW t, t = IF a = req[r].acct THEN Settled(s, now) ELSE s
  PROVE  t \in State /\ CountsInFlight(t, a)'
<1>1. \A p \in Requests : p # r => req'[p] = req[p]
  BY DEF TypeOK
<1>2. /\ req'[r].pc = "committed" /\ req'[r].acct = req[r].acct
      /\ req'[r].user = req[r].user /\ req'[r].now = req[r].now
  BY DEF TypeOK, Request
<1>3. InFlight(a)' = InFlight(a)
  BY <1>1, <1>2 DEF InFlight
<1>4. ASSUME NEW v PROVE InFlightOf(a, v)' = InFlightOf(a, v)
  BY <1>1, <1>2 DEF InFlight, InFlightOf
<1>5. CASE a # req[r].acct
  <2>1. ASSUME NEW m PROVE Tentative(a, m)' = Tentative(a, m)
    BY <1>1, <1>2, <1>5 DEF InFlight, Tentative, Counted
  <2>2. QED
    BY <1>3, <1>4, <1>5, <2>1 DEF CountsInFlight
<1>6. CASE a = req[r].acct
  <2>1. t = Settled(s, now)
    BY <1>6
  <2>2. r \in Tentative(a, now) /\ Tentative(a, now)' = Tentative(a, now) \ {r}
    BY <1>1, <1>2, <1>6 DEF InFlight, Tentative, Counted
  <2>3. PICK n \in Nat : n = Cardinality(Tentative(a, now)') /\ n = s.pending[now] - 1
    <3>1. Cardinality(Tentative(a, now) \ {r}) = Cardinality(Tentative(a, now)) - 1
          /\ Cardinality(Tentative(a, now) \ {r}) \in Nat
      BY <2>2, InFlightFinite, FS_RemoveElement, FS_CardinalityType
    <3>2. QED
      BY <2>2, <3>1 DEF CountsInFlight
  <2>4. PICK k \in Nat : k = IF s.window = now THEN s.used + 1 ELSE s.used
    BY DEF State
  <2>5. PICK g \in [Minutes -> Nat] : g = [s.pending EXCEPT ![now] = n]
    BY <2>3 DEF State
  <2>6. t = [s EXCEPT !.pending = g, !.used = k]
    BY <2>1, <2>3, <2>4, <2>5 DEF Settled, State
  <2>7. t \in State /\ t.active = s.active /\ t.idle = s.idle /\ t.members = s.members
        /\ t.pending = g
    <3>1. [s EXCEPT !.pending = g, !.used = k] \in State
      BY ChargedType, Zenon
    <3>2. QED
      BY <2>6, <3>1 DEF State
  <2>8. ASSUME NEW m \in Minutes PROVE t.pending[m] = Cardinality(Tentative(a, m)')
    <3>1. CASE m = now
      BY <2>3, <2>5, <2>7, <3>1 DEF State
    <3>2. CASE m # now
      <4>1. Tentative(a, m)' = Tentative(a, m)
        BY <1>1, <1>2, <3>2 DEF InFlight, Tentative, Counted
      <4>2. QED
        BY <2>5, <2>7, <3>2, <4>1 DEF CountsInFlight, State
    <3>3. QED
      BY <3>1, <3>2
  <2>9. QED
    BY <1>3, <1>4, <2>7, <2>8 DEF CountsInFlight
<1>7. QED
  BY <1>5, <1>6

(* A release takes the request out of every set it is in, as Returned      *)
(* takes it out of their counters.                                         *)
LEMMA ReturnedCounts ==
  ASSUME NEW r \in Requests, TypeOK, req[r].pc \in {"held", "committed"},
         req' = [req EXCEPT ![r] = NoRequest("done")],
         NEW a, NEW s \in State, CountsInFlight(s, a),
         NEW now \in Minutes, now = req[r].now,
         NEW u \in Callers, u = req[r].user,
         NEW committed \in BOOLEAN, committed <=> req[r].pc = "committed",
         NEW t, t = IF a = req[r].acct THEN Returned(s, now, u, committed) ELSE s
  PROVE  t \in State /\ CountsInFlight(t, a)'
<1>1. \A p \in Requests : p # r => req'[p] = req[p]
  BY DEF TypeOK
<1>2. req'[r].pc = "done"
  BY NoRequestType DEF TypeOK
<1>3. CASE a # req[r].acct
  <2>1. InFlight(a)' = InFlight(a)
    BY <1>1, <1>2, <1>3 DEF InFlight
  <2>2. ASSUME NEW v PROVE InFlightOf(a, v)' = InFlightOf(a, v)
    BY <1>1, <1>2, <1>3 DEF InFlight, InFlightOf
  <2>3. ASSUME NEW m PROVE Tentative(a, m)' = Tentative(a, m)
    BY <1>1, <1>2, <1>3 DEF InFlight, Tentative, Counted
  <2>4. QED
    BY <1>3, <2>1, <2>2, <2>3 DEF CountsInFlight
<1>4. CASE a = req[r].acct
  <2>1. t = Returned(s, now, u, committed)
    BY <1>4
  <2>2. PICK n \in Nat : n = Cardinality(InFlight(a)') /\ n = s.active - 1
    <3>1. r \in InFlight(a) /\ InFlight(a)' = InFlight(a) \ {r}
      BY <1>1, <1>2, <1>4 DEF InFlight
    <3>2. Cardinality(InFlight(a) \ {r}) = Cardinality(InFlight(a)) - 1
          /\ Cardinality(InFlight(a) \ {r}) \in Nat
      BY <3>1, InFlightFinite, FS_RemoveElement, FS_CardinalityType
    <3>3. QED
      BY <3>1, <3>2 DEF CountsInFlight
  <2>3. ASSUME NEW v \in Users
        PROVE  /\ Cardinality(InFlightOf(a, v)') \in Nat
               /\ Cardinality(InFlightOf(a, v)') = IF v = u THEN s.members[v] - 1 ELSE s.members[v]
    <3>1. CASE v = u
      <4>1. r \in InFlightOf(a, v) /\ InFlightOf(a, v)' = InFlightOf(a, v) \ {r}
        BY <1>1, <1>2, <1>4, <3>1 DEF InFlight, InFlightOf
      <4>2. Cardinality(InFlightOf(a, v) \ {r}) = Cardinality(InFlightOf(a, v)) - 1
            /\ Cardinality(InFlightOf(a, v) \ {r}) \in Nat
        BY <4>1, InFlightFinite, FS_RemoveElement, FS_CardinalityType
      <4>3. QED
        BY <3>1, <4>1, <4>2 DEF CountsInFlight
    <3>2. CASE v # u
      <4>1. InFlightOf(a, v)' = InFlightOf(a, v)
        BY <1>1, <1>2, <3>2 DEF InFlight, InFlightOf
      <4>2. QED
        BY <3>2, <4>1, InFlightFinite DEF CountsInFlight
    <3>3. QED
      BY <3>1, <3>2
  <2>4. ASSUME NEW m \in Minutes
        PROVE  /\ Cardinality(Tentative(a, m)') \in Nat
               /\ Cardinality(Tentative(a, m)') =
                    IF u # Probe /\ ~committed /\ m = now THEN s.pending[m] - 1 ELSE s.pending[m]
    <3>1. CASE u # Probe /\ ~committed /\ m = now
      <4>1. r \in Tentative(a, m) /\ Tentative(a, m)' = Tentative(a, m) \ {r}
        BY <1>1, <1>2, <1>4, <3>1 DEF InFlight, Tentative, Counted
      <4>2. Cardinality(Tentative(a, m) \ {r}) = Cardinality(Tentative(a, m)) - 1
            /\ Cardinality(Tentative(a, m) \ {r}) \in Nat
        BY <4>1, InFlightFinite, FS_RemoveElement, FS_CardinalityType
      <4>3. QED
        BY <3>1, <4>1, <4>2 DEF CountsInFlight
    <3>2. CASE ~(u # Probe /\ ~committed /\ m = now)
      <4>1. Tentative(a, m)' = Tentative(a, m)
        BY <1>1, <1>2, <3>2 DEF InFlight, Tentative, Counted
      <4>2. QED
        BY <3>2, <4>1, InFlightFinite DEF CountsInFlight
    <3>3. QED
      BY <3>1, <3>2
  <2>5. PICK f \in [Users -> Nat] :
          f = [v \in Users |-> IF v = u THEN s.members[v] - 1 ELSE s.members[v]]
    BY <2>3
  <2>6. PICK g \in [Minutes -> Nat] :
          g = [m \in Minutes |->
                 IF u # Probe /\ ~committed /\ m = now THEN s.pending[m] - 1 ELSE s.pending[m]]
    BY <2>4
  <2>7. PICK i \in BOOLEAN : i = (s.active = 1)
    OBVIOUS
  <2>8. t = [s EXCEPT !.active = n, !.idle = i, !.members = f, !.pending = g]
    BY <2>1, <2>2, <2>5, <2>6, <2>7 DEF Returned
  <2>9. t \in State
    <3>1. [s EXCEPT !.active = n, !.idle = i, !.members = f, !.pending = g] \in State
      BY RecountedType, Zenon
    <3>2. QED
      BY <2>8, <3>1
  <2>10. t.active = n /\ t.idle = i /\ t.members = f /\ t.pending = g
    BY <2>8 DEF State
  <2>11. t.active = Cardinality(InFlight(a)') /\ (t.idle <=> t.active = 0)
    <3>1. n = 0 <=> s.active = 1
      BY <2>2 DEF State
    <3>2. QED
      BY <2>2, <2>7, <2>10, <3>1, Zenon
  <2>12. QED
    BY <2>3, <2>4, <2>5, <2>6, <2>9, <2>10, <2>11 DEF CountsInFlight
<1>5. QED
  BY <1>3, <1>4

(* The counters stay exact when a request is charged (commit).             *)
LEMMA CommitCounts ==
  ASSUME TypeOK, CountersExact, NEW r \in Requests, Commit(r)
  PROVE  TypeOK' /\ CountersExact'
<1>1. PICK a \in Accounts, now \in Minutes : a = req[r].acct /\ now = req[r].now
  BY DEF TypeOK, Request
<1>2. /\ req[r].pc = "held" /\ Counted(r)
      /\ st' = [st EXCEPT ![a] = Settled(st[a], now)]
      /\ req' = [req EXCEPT ![r].pc = "committed"]
      /\ UNCHANGED <<minute, nextCleanup, quiesceVars>>
  BY <1>1 DEF Commit
<1>3. ASSUME NEW b \in Accounts PROVE st'[b] \in State /\ CountsInFlight(st[b], b)'
  <2>1. PICK s, t : s = st[b] /\ t = (IF b = a THEN Settled(s, now) ELSE s)
    OBVIOUS
  <2>2. s \in State /\ CountsInFlight(s, b)
    BY <2>1 DEF TypeOK, CountersExact
  <2>3. t \in State /\ CountsInFlight(t, b)'
    BY <1>1, <1>2, <2>1, <2>2, SettledCounts
  <2>4. st'[b] = t
    BY <1>2, <2>1 DEF TypeOK
  <2>5. QED
    BY <2>3, <2>4 DEF CountsInFlight
<1>4. req' \in [Requests -> Request]
  <2>1. req[r] \in Request /\ req' = [req EXCEPT ![r] = [req[r] EXCEPT !.pc = "committed"]]
    BY <1>1, <1>2 DEF TypeOK
  <2>2. [req[r] EXCEPT !.pc = "committed"] \in Request
    BY <2>1 DEF Request
  <2>3. QED
    BY <2>1, <2>2 DEF TypeOK
<1>5. st' \in [Accounts -> State]
  BY <1>2, <1>3 DEF TypeOK
<1>6. QED
  BY <1>2, <1>3, <1>4, <1>5 DEF TypeOK, CountersExact, quiesceVars

(* The counters stay exact when a request gives its slot back (release).   *)
LEMMA ReleaseCounts ==
  ASSUME TypeOK, CountersExact, NEW r \in Requests, Release(r)
  PROVE  TypeOK' /\ CountersExact'
<1>1. PICK a \in Accounts, now \in Minutes, u \in Callers, committed \in BOOLEAN :
        /\ a = req[r].acct /\ now = req[r].now /\ u = req[r].user
        /\ committed = (req[r].pc = "committed")
  BY DEF TypeOK, Request
<1>2. /\ req[r].pc \in {"held", "committed"}
      /\ st' = [st EXCEPT ![a] = Returned(st[a], now, u, committed)]
      /\ req' = [req EXCEPT ![r] = NoRequest("done")]
      /\ qpc' = Woken(qpc)
      /\ UNCHANGED <<minute, nextCleanup, qwant, qlocked>>
  BY <1>1 DEF Release
<1>3. ASSUME NEW b \in Accounts PROVE st'[b] \in State /\ CountsInFlight(st[b], b)'
  <2>1. PICK s, t : s = st[b] /\ t = (IF b = a THEN Returned(s, now, u, committed) ELSE s)
    OBVIOUS
  <2>2. s \in State /\ CountsInFlight(s, b)
    BY <2>1 DEF TypeOK, CountersExact
  <2>3. t \in State /\ CountsInFlight(t, b)'
    BY <1>1, <1>2, <2>1, <2>2, ReturnedCounts, ZenonT(60)
  <2>4. st'[b] = t
    BY <1>2, <2>1 DEF TypeOK
  <2>5. QED
    BY <2>3, <2>4 DEF CountsInFlight
<1>4. req' \in [Requests -> Request]
  BY <1>2, NoRequestType DEF TypeOK
<1>5. st' \in [Accounts -> State]
  BY <1>2, <1>3 DEF TypeOK
<1>6. QED
  BY <1>2, <1>3, <1>4, <1>5, WokenType DEF TypeOK, CountersExact

(* A caller that arrives is not in flight yet.                             *)
LEMMA ArriveCounts ==
  ASSUME TypeOK, CountersExact, NEW r \in Requests, NEW a \in Accounts,
         NEW u \in Callers, Arrive(r, a, u)
  PROVE  TypeOK' /\ CountersExact'
<1>1. PICK x : x = [pc |-> "ready", acct |-> a, user |-> u, now |-> minute]
  OBVIOUS
<1>2. /\ req[r].pc = "idle" /\ req' = [req EXCEPT ![r] = x]
      /\ UNCHANGED <<minute, st, nextCleanup, quiesceVars>>
  BY <1>1 DEF Arrive
<1>3. x \in Request /\ x.pc = "ready"
  BY <1>1 DEF TypeOK, Request
<1>4. TypeOK'
  BY <1>2, <1>3 DEF TypeOK, quiesceVars
<1>5. ASSUME NEW b \in Accounts PROVE CountsInFlight(st[b], b)'
  <2>1. PICK s : s = st[b]
    OBVIOUS
  <2>2. CountsInFlight(s, b)
    BY <2>1 DEF CountersExact
  <2>3. CountsInFlight(s, b)'
    BY <1>2, <1>3, <2>2, SameCounts
  <2>4. QED
    BY <1>2, <2>1, <2>3 DEF CountsInFlight
<1>6. QED
  BY <1>4, <1>5 DEF CountersExact

(* Closing or reopening an account touches no counter.                     *)
LEMMA FlaggedState ==
  ASSUME NEW s \in State, NEW b \in BOOLEAN
  PROVE  /\ [s EXCEPT !.quiescing = b] \in State
         /\ [s EXCEPT !.quiescing = b].active = s.active
         /\ [s EXCEPT !.quiescing = b].idle = s.idle
         /\ [s EXCEPT !.quiescing = b].members = s.members
         /\ [s EXCEPT !.quiescing = b].pending = s.pending
BY DEF State

(* A step that only sets quiescing flags keeps types and exact counters.   *)
LEMMA FlaggedCounts ==
  ASSUME TypeOK, CountersExact, UNCHANGED req, NEW flag \in [Accounts -> BOOLEAN],
         st' = [a \in Accounts |-> [st[a] EXCEPT !.quiescing = flag[a]]]
  PROVE  st' \in [Accounts -> State] /\ CountersExact'
<1>1. ASSUME NEW a \in Accounts PROVE st'[a] \in State /\ CountsInFlight(st[a], a)'
  <2>1. PICK s, t : s = st[a] /\ t = [s EXCEPT !.quiescing = flag[a]]
    OBVIOUS
  <2>2. s \in State /\ CountsInFlight(s, a) /\ flag[a] \in BOOLEAN
    BY <2>1 DEF TypeOK, CountersExact
  <2>3. /\ t \in State /\ t.active = s.active /\ t.idle = s.idle /\ t.members = s.members
        /\ t.pending = s.pending
    BY <2>1, <2>2, FlaggedState, Zenon
  <2>4. CountsInFlight(t, a)
    BY <2>2, <2>3 DEF CountsInFlight
  <2>5. CountsInFlight(t, a)'
    BY <2>4, UnchangedCounts
  <2>6. st'[a] = t
    BY <2>1
  <2>7. QED
    BY <2>3, <2>5, <2>6 DEF CountsInFlight
<1>2. QED
  BY <1>1 DEF CountersExact

(* A step that leaves states and requests alone leaves the counters exact. *)
LEMMA SameStateCounts ==
  ASSUME CountersExact, UNCHANGED <<st, req>>
  PROVE  CountersExact'
<1>1. ASSUME NEW a \in Accounts PROVE CountsInFlight(st[a], a)'
  <2>1. PICK s : s = st[a]
    OBVIOUS
  <2>2. CountsInFlight(s, a)'
    BY <2>1, UnchangedCounts DEF CountersExact
  <2>3. QED
    BY <2>1, <2>2 DEF CountsInFlight
<1>2. QED
  BY <1>1 DEF CountersExact

(* Reopened switches flags, and nothing else.                              *)
LEMMA ReopenedFlags ==
  ASSUME TypeOK, NEW ids
  PROVE  \E flag \in [Accounts -> BOOLEAN] :
           /\ Reopened(ids) = [a \in Accounts |-> [st[a] EXCEPT !.quiescing = flag[a]]]
           /\ \A a \in Accounts : flag[a] <=> st[a].quiescing /\ a \notin ids
<1> DEFINE flag == [a \in Accounts |-> st[a].quiescing /\ a \notin ids]
<1>1. flag \in [Accounts -> BOOLEAN]
  BY DEF TypeOK, State
<1>2. \A a \in Accounts : flag[a] = (st[a].quiescing /\ a \notin ids)
  OBVIOUS
<1> HIDE DEF flag
<1>3. Reopened(ids) = [a \in Accounts |-> [st[a] EXCEPT !.quiescing = flag[a]]]
  BY <1>2 DEF Reopened
<1>4. QED
  BY <1>1, <1>2, <1>3

(* The account a waiting operation takes next is one it still wants.       *)
LEMMA NextIdWanted ==
  ASSUME TypeOK, QuiesceShape, NEW q \in Quiescers,
         qpc[q] \in {"acquire", "draining", "blocked", "woken", "cancelling"}
  PROVE  NextId(q) \in qwant[q] /\ NextId(q) \in Accounts
<1>1. qwant[q] # {} /\ qwant[q] \subseteq Accounts
  BY DEF TypeOK, QuiesceShape
<1>2. qwant[q] \subseteq Nat
  BY <1>1, AccountsAssumption
<1>3. QED
  BY <1>1, <1>2, MinIn DEF NextId

(* The quiescing protocol keeps types and counters.                        *)
LEMMA QuiesceCounts ==
  ASSUME TypeOK, CountersExact, QuiesceShape, NEW q \in Quiescers,
         \/ \E ids \in SUBSET Accounts : QuiesceStart(q, ids)
         \/ QuiesceStep(q) \/ QuiesceCancel(q)
  PROVE  TypeOK' /\ CountersExact'
<1>1. ASSUME NEW ids \in SUBSET Accounts, QuiesceStart(q, ids) PROVE TypeOK' /\ CountersExact'
  <2>1. CountersExact'
    BY <1>1, SameStateCounts DEF QuiesceStart
  <2>2. QED
    BY <1>1, <2>1 DEF TypeOK, QuiesceStart, QuiesceStates
<1>2. CASE QuiesceAcquire(q)
  <2>1. PICK a \in Accounts : a = NextId(q)
    BY <1>2, NextIdWanted DEF QuiesceAcquire
  <2>2. CASE st' = [st EXCEPT ![a].quiescing = TRUE] /\ qpc' = [Woken(qpc) EXCEPT ![q] = "draining"]
    <3>1. PICK flag \in [Accounts -> BOOLEAN] :
            flag = [b \in Accounts |-> IF b = a THEN TRUE ELSE st[b].quiescing]
      BY DEF TypeOK, State
    <3>2. st' = [b \in Accounts |-> [st[b] EXCEPT !.quiescing = flag[b]]]
      BY <2>2, <3>1 DEF TypeOK, State
    <3>3. UNCHANGED <<minute, nextCleanup, req, qwant, qlocked>>
      BY <1>2 DEF QuiesceAcquire
    <3>4. st' \in [Accounts -> State] /\ CountersExact'
      BY <3>2, <3>3, FlaggedCounts
    <3>5. qpc' \in [Quiescers -> QuiesceStates]
      BY <2>2, WokenType DEF QuiesceStates
    <3>6. QED
      BY <3>3, <3>4, <3>5 DEF TypeOK
  <2>3. CASE qpc' = [qpc EXCEPT ![q] = "blocked"] /\ UNCHANGED st
    <3>1. UNCHANGED <<minute, nextCleanup, req, qwant, qlocked>>
      BY <1>2 DEF QuiesceAcquire
    <3>2. CountersExact'
      BY <2>3, <3>1, SameStateCounts
    <3>3. QED
      BY <2>3, <3>1, <3>2 DEF TypeOK, QuiesceStates
  <2>4. QED
    BY <1>2, <2>1, <2>2, <2>3 DEF QuiesceAcquire
<1>3. CASE QuiesceDrained(q)
  <2>1. CountersExact'
    BY <1>3, SameStateCounts DEF QuiesceDrained
  <2>2. NextId(q) \in Accounts
    BY <1>3, NextIdWanted DEF QuiesceDrained
  <2>3. QED
    BY <1>3, <2>1, <2>2 DEF TypeOK, QuiesceDrained, QuiesceStates
<1>4. ASSUME NEW ids, NEW pc \in QuiesceStates, st' = Reopened(ids),
             qpc' = [Woken(qpc) EXCEPT ![q] = pc],
             qlocked' \in [Quiescers -> SUBSET Accounts],
             UNCHANGED <<minute, nextCleanup, req, qwant>>
      PROVE  TypeOK' /\ CountersExact'
  <2>1. PICK flag \in [Accounts -> BOOLEAN] :
          st' = [a \in Accounts |-> [st[a] EXCEPT !.quiescing = flag[a]]]
    BY <1>4, ReopenedFlags
  <2>2. st' \in [Accounts -> State] /\ CountersExact'
    BY <1>4, <2>1, FlaggedCounts
  <2>3. qpc' \in [Quiescers -> QuiesceStates]
    BY <1>4, WokenType
  <2>4. QED
    BY <1>4, <2>2, <2>3 DEF TypeOK
<1>5. CASE QuiesceCancel(q)
  BY <1>4, <1>5 DEF QuiesceCancel, TypeOK, QuiesceStates
<1>6. CASE QuiesceCancelOwn(q)
  BY <1>4, <1>6 DEF QuiesceCancelOwn, TypeOK, QuiesceStates
<1>7. CASE QuiesceRelease(q)
  BY <1>4, <1>7 DEF QuiesceRelease, QuiesceReleaseTo, TypeOK, QuiesceStates
<1>8. QED
  BY <1>1, <1>2, <1>3, <1>5, <1>6, <1>7 DEF QuiesceStep

(* Types and counters are kept by every step.                              *)
LEMMA CountsStep ==
  ASSUME TypeOK, CountersExact, QuiesceShape, [Next]_vars
  PROVE  TypeOK' /\ CountersExact'
<1>1. CASE Tick
  <2>1. CountersExact'
    BY <1>1, SameStateCounts DEF Tick
  <2>2. QED
    BY <1>1, <2>1, ClockAssumption DEF TypeOK, Tick, Minutes, quiesceVars
<1>2. CASE UNCHANGED vars
  <2>1. CountersExact'
    BY <1>2, SameStateCounts DEF vars
  <2>2. QED
    BY <1>2, <2>1 DEF TypeOK, vars
<1>3. QED
  BY <1>1, <1>2, ArriveCounts, PrepareCounts, CommitCounts, ReleaseCounts, QuiesceCounts
  DEF Next, RequestStep, Finished

(* The shape of the quiescing operations is kept by every step.            *)
LEMMA ShapeStep ==
  ASSUME TypeOK, QuiesceShape, [Next]_vars
  PROVE  QuiesceShape'
<1>1. CASE UNCHANGED quiesceVars
  BY <1>1 DEF QuiesceShape, quiesceVars
<1>2. CASE qpc' = Woken(qpc) /\ UNCHANGED <<qwant, qlocked>>
  BY <1>2 DEF QuiesceShape, Woken, TypeOK
<1>3. ASSUME NEW r \in Requests, RequestStep(r) PROVE QuiesceShape'
  BY <1>1, <1>2, <1>3 DEF RequestStep, Prepare, Commit, Release, quiesceVars
<1>4. ASSUME NEW q \in Quiescers, NEW ids \in SUBSET Accounts, QuiesceStart(q, ids)
      PROVE  QuiesceShape'
  BY <1>4 DEF QuiesceStart, QuiesceShape, TypeOK
<1>5. ASSUME NEW q \in Quiescers, QuiesceAcquire(q) PROVE QuiesceShape'
  BY <1>5 DEF QuiesceAcquire, QuiesceShape, TypeOK, Woken
<1>6. ASSUME NEW q \in Quiescers, QuiesceDrained(q) PROVE QuiesceShape'
  <2>1. NextId(q) \in qwant[q]
    BY <1>6, NextIdWanted DEF QuiesceDrained
  <2>2. QED
    BY <1>6, <2>1 DEF QuiesceDrained, QuiesceShape, TypeOK
<1>7. ASSUME NEW q \in Quiescers, QuiesceCancel(q) PROVE QuiesceShape'
  BY <1>7 DEF QuiesceCancel, QuiesceShape, TypeOK, Woken
<1>8. ASSUME NEW q \in Quiescers, QuiesceCancelOwn(q) PROVE QuiesceShape'
  BY <1>8 DEF QuiesceCancelOwn, QuiesceShape, TypeOK, Woken
<1>9. ASSUME NEW q \in Quiescers, QuiesceRelease(q) PROVE QuiesceShape'
  BY <1>9 DEF QuiesceRelease, QuiesceReleaseTo, QuiesceShape, TypeOK, Woken
<1>10. QED
  BY <1>1, <1>3, <1>4, <1>5, <1>6, <1>7, <1>8, <1>9
  DEF Next, QuiesceStep, Arrive, Tick, Finished, vars, quiesceVars

(* A step that changes no flag and lets nobody close or open an account    *)
(* keeps the ownership of the flags.                                       *)
LEMMA SameFlags ==
  ASSUME TypeOK, QuiesceFlagOwned,
         \A a \in Accounts : st'[a].quiescing <=> st[a].quiescing,
         qpc' = qpc \/ qpc' = Woken(qpc), UNCHANGED <<qwant, qlocked>>
  PROVE  QuiesceFlagOwned'
<1>1. ASSUME NEW q \in Quiescers PROVE Closed(q)' = Closed(q)
  BY DEF Closed, NextId, Woken, TypeOK
<1>2. QED
  BY <1>1 DEF QuiesceFlagOwned

(* One operation, q, goes from the accounts old to the accounts new, opens *)
(* what it drops and closes what it takes, which nobody had closed.        *)
LEMMA OwnerStep ==
  ASSUME QuiesceFlagOwned, NEW q \in Quiescers, NEW new,
         Closed(q)' = new,
         \A p \in Quiescers : p # q => Closed(p)' = Closed(p),
         \A a \in new : a \in Closed(q) \/ (a \in Accounts /\ ~st[a].quiescing),
         Closed(q) \subseteq Accounts, \A p \in Quiescers : Closed(p) \subseteq Accounts,
         \A a \in Accounts : st'[a].quiescing <=>
           a \in new \/ (st[a].quiescing /\ a \notin Closed(q))
  PROVE  QuiesceFlagOwned'
<1>1. ASSUME NEW a \in Accounts PROVE st'[a].quiescing <=> \E p \in Quiescers : a \in Closed(p)'
  BY DEF QuiesceFlagOwned
<1>2. ASSUME NEW p \in Quiescers, NEW o \in Quiescers, p # o PROVE Closed(p)' \cap Closed(o)' = {}
  BY <1>2 DEF QuiesceFlagOwned
<1>3. QED
  BY <1>1, <1>2 DEF QuiesceFlagOwned

(* Requests never change a quiescing flag.                                 *)
LEMMA RequestFlags ==
  ASSUME TypeOK, CountersExact, NEW r \in Requests, RequestStep(r), NEW a \in Accounts
  PROVE  st'[a].quiescing <=> st[a].quiescing
<1>1. \A s \in State : \A now, counts : Seen(s, now, counts).quiescing = s.quiescing
  BY DEF Seen, State
<1>2. \A s \in State : \A now, u : Admitted(s, now, u).quiescing = s.quiescing
  BY DEF Admitted, State
<1>3. \A s \in State : \A now : Settled(s, now).quiescing = s.quiescing
  BY DEF Settled, State
<1>4. \A s \in State : \A now, u, c : Returned(s, now, u, c).quiescing = s.quiescing
  BY DEF Returned, State
<1>5. CASE Prepare(r)
  <2>1. PICK b \in Accounts, now \in Minutes : b = req[r].acct /\ now = req[r].now
    BY DEF TypeOK, Request
  <2>2. PICK kept : kept = Cleaned(now)
    OBVIOUS
  <2>3. kept \in [Accounts -> State] /\ kept[a].quiescing = st[a].quiescing
    BY <2>2, CleanedCounts
  <2>4. PICK seen : seen = Seen(kept[b], now, Counted(r))
    OBVIOUS
  <2>5. seen \in State /\ seen.quiescing = kept[b].quiescing
    <3>1. kept[b] \in State /\ CountsInFlight(kept[b], b) /\ Counted(r) \in BOOLEAN
      BY <2>2, <2>3, CleanedCounts DEF Counted
    <3>2. QED
      BY <1>1, <2>4, <3>1, SeenCounts
  <2>6. st' = kept \/ st' = [kept EXCEPT ![b] = seen]
        \/ st' = [kept EXCEPT ![b] = Admitted(seen, now, req[r].user)]
    BY <1>5, <2>1, <2>2, <2>4 DEF Prepare
  <2>7. QED
    BY <1>2, <2>3, <2>5, <2>6
<1>6. CASE Commit(r)
  BY <1>3, <1>6 DEF Commit, TypeOK
<1>7. CASE Release(r)
  BY <1>4, <1>7 DEF Release, TypeOK
<1>8. QED
  BY <1>5, <1>6, <1>7 DEF RequestStep

(* Every step keeps the ownership of the flags.                            *)
LEMMA FlagStep ==
  ASSUME TypeOK, CountersExact, QuiesceShape, QuiesceFlagOwned, [Next]_vars
  PROVE  QuiesceFlagOwned'
<1>1. ASSUME NEW r \in Requests, RequestStep(r) PROVE QuiesceFlagOwned'
  <2>1. \A a \in Accounts : st'[a].quiescing <=> st[a].quiescing
    BY <1>1, RequestFlags
  <2>2. (qpc' = qpc \/ qpc' = Woken(qpc)) /\ UNCHANGED <<qwant, qlocked>>
    BY <1>1 DEF RequestStep, Prepare, Commit, Release, quiesceVars
  <2>3. QED
    BY <2>1, <2>2, SameFlags
<1>2. CASE UNCHANGED <<st, quiesceVars>>
  BY <1>2, SameFlags DEF quiesceVars
<1>3. \A p \in Quiescers : Closed(p) \subseteq Accounts
  BY NextIdWanted DEF Closed, TypeOK
<1>4. ASSUME NEW q \in Quiescers, NEW ids \in SUBSET Accounts, QuiesceStart(q, ids)
      PROVE  QuiesceFlagOwned'
  <2>1. Closed(q)' = {} /\ Closed(q) = {}
    BY <1>4 DEF QuiesceStart, QuiesceShape, Closed, TypeOK
  <2>2. \A p \in Quiescers : p # q => Closed(p)' = Closed(p)
    BY <1>4 DEF QuiesceStart, Closed, NextId, TypeOK
  <2>3. QED
    BY <1>3, <1>4, <2>1, <2>2, OwnerStep DEF QuiesceStart
<1>5. ASSUME NEW q \in Quiescers, QuiesceAcquire(q) PROVE QuiesceFlagOwned'
  <2>1. PICK a \in Accounts : a = NextId(q)
    BY <1>5, NextIdWanted DEF QuiesceAcquire
  <2>2. CASE /\ ~st[a].quiescing /\ st' = [st EXCEPT ![a].quiescing = TRUE]
             /\ qpc' = [Woken(qpc) EXCEPT ![q] = "draining"]
    <3>1. Closed(q)' = Closed(q) \cup {a}
      BY <1>5, <2>1, <2>2 DEF QuiesceAcquire, Closed, NextId, TypeOK, Woken
    <3>2. \A p \in Quiescers : p # q => Closed(p)' = Closed(p)
      BY <1>5, <2>2 DEF QuiesceAcquire, Closed, NextId, TypeOK, Woken
    <3>3. ASSUME NEW b \in Accounts
          PROVE  st'[b].quiescing <=> b = a \/ st[b].quiescing
      BY <2>2 DEF TypeOK, State
    <3>4. \A b \in Closed(q) : st[b].quiescing
      BY <1>3 DEF QuiesceFlagOwned
    <3>5. PICK new : new = Closed(q) \cup {a}
      OBVIOUS
    <3>6. \A b \in Accounts : st'[b].quiescing <=> b \in new \/ (st[b].quiescing /\ b \notin Closed(q))
      BY <3>3, <3>4, <3>5
    <3>7. QED
      BY <1>3, <2>2, <3>1, <3>2, <3>5, <3>6, OwnerStep
  <2>3. CASE qpc' = [qpc EXCEPT ![q] = "blocked"] /\ UNCHANGED st
    <3>1. ASSUME NEW p \in Quiescers PROVE Closed(p)' = Closed(p)
      BY <1>5, <2>3 DEF QuiesceAcquire, Closed, NextId, TypeOK
    <3>2. QED
      BY <2>3, <3>1 DEF QuiesceFlagOwned
  <2>4. QED
    BY <1>5, <2>1, <2>2, <2>3 DEF QuiesceAcquire
<1>6. ASSUME NEW q \in Quiescers, QuiesceDrained(q) PROVE QuiesceFlagOwned'
  <2>1. ASSUME NEW p \in Quiescers PROVE Closed(p)' = Closed(p)
    BY <1>6 DEF QuiesceDrained, Closed, NextId, TypeOK
  <2>2. QED
    BY <1>6, <2>1 DEF QuiesceFlagOwned, QuiesceDrained
<1>7. ASSUME NEW q \in Quiescers, NEW ids, NEW new, st' = Reopened(ids), Closed(q)' = new,
             new = Closed(q) \ ids, ids \subseteq Closed(q),
             NEW pc, qpc' = [Woken(qpc) EXCEPT ![q] = pc],
             NEW held, qlocked' = [qlocked EXCEPT ![q] = held], UNCHANGED qwant
      PROVE  QuiesceFlagOwned'
  <2>1. \A p \in Quiescers : p # q => Closed(p)' = Closed(p)
    BY <1>7 DEF Closed, NextId, TypeOK, Woken
  <2>2. \A a \in Accounts : st'[a].quiescing <=> st[a].quiescing /\ a \notin ids
    <3>1. PICK flag \in [Accounts -> BOOLEAN] :
           /\ st' = [a \in Accounts |-> [st[a] EXCEPT !.quiescing = flag[a]]]
           /\ \A a \in Accounts : flag[a] <=> st[a].quiescing /\ a \notin ids
      BY <1>7, ReopenedFlags
    <3>2. \A a \in Accounts : st'[a].quiescing = flag[a]
      BY <3>1 DEF TypeOK, State
    <3>3. QED
      BY <3>1, <3>2
  <2>3. \A a \in Closed(q) : st[a].quiescing
    BY <1>3 DEF QuiesceFlagOwned
  <2>4. \A a \in Accounts : st'[a].quiescing <=> a \in new \/ (st[a].quiescing /\ a \notin Closed(q))
    BY <1>7, <2>2, <2>3
  <2>5. QED
    BY <1>3, <1>7, <2>1, <2>4, OwnerStep
<1>8. ASSUME NEW q \in Quiescers, QuiesceCancel(q) PROVE QuiesceFlagOwned'
  <2>1. NextId(q) \notin qlocked[q]
    BY <1>8, NextIdWanted DEF QuiesceCancel, QuiesceShape
  <2>2. qlocked[q] \subseteq Closed(q) /\ Closed(q)' = Closed(q) \ qlocked[q]
    BY <1>8, <2>1 DEF QuiesceCancel, Closed, NextId, TypeOK, Woken
  <2>3. QED
    BY <1>7, <1>8, <2>2 DEF QuiesceCancel
<1>9. ASSUME NEW q \in Quiescers, QuiesceCancelOwn(q) PROVE QuiesceFlagOwned'
  <2>1. {NextId(q)} \subseteq Closed(q) /\ Closed(q)' = Closed(q) \ {NextId(q)}
    BY <1>9 DEF QuiesceCancelOwn, Closed, NextId, TypeOK, Woken, QuiesceShape
  <2>2. qlocked' = [qlocked EXCEPT ![q] = qlocked[q]]
    BY <1>9 DEF QuiesceCancelOwn, TypeOK
  <2>3. QED
    BY <1>7, <1>9, <2>1, <2>2 DEF QuiesceCancelOwn
<1>10. ASSUME NEW q \in Quiescers, QuiesceRelease(q) PROVE QuiesceFlagOwned'
  <2>1. qlocked[q] \subseteq Closed(q) /\ Closed(q)' = Closed(q) \ qlocked[q]
    BY <1>10 DEF QuiesceRelease, QuiesceReleaseTo, Closed, TypeOK, Woken
  <2>2. QED
    BY <1>7, <1>10, <2>1 DEF QuiesceRelease, QuiesceReleaseTo
<1>11. QED
  BY <1>1, <1>2, <1>4, <1>5, <1>6, <1>8, <1>9, <1>10
  DEF Next, QuiesceStep, Arrive, Tick, Finished, vars, quiesceVars

(* Nothing is admitted to an account that an operation has drained, and an *)
(* operation takes an account for drained only when nothing runs on it.    *)
LEMMA DrainedStep ==
  ASSUME TypeOK, CountersExact, QuiesceShape, QuiesceFlagOwned, DrainedExclusive, [Next]_vars
  PROVE  DrainedExclusive'
<1>1. ASSUME UNCHANGED req, \A q \in Quiescers : qlocked'[q] \subseteq qlocked[q]
      PROVE  DrainedExclusive'
  BY <1>1 DEF DrainedExclusive, InFlight
<1>2. ASSUME UNCHANGED qlocked, \A a \in Accounts : InFlight(a)' \subseteq InFlight(a)
      PROVE  DrainedExclusive'
  BY <1>2 DEF DrainedExclusive, TypeOK
<1>3. ASSUME NEW r \in Requests, Prepare(r) PROVE DrainedExclusive'
  <2>1. PICK a \in Accounts, now \in Minutes : a = req[r].acct /\ now = req[r].now
    BY DEF TypeOK, Request
  <2>2. UNCHANGED qlocked
    BY <1>3 DEF Prepare
  <2>3. CASE req' = [req EXCEPT ![r] = NoRequest("done")]
    <3>1. req'[r].pc = "done" /\ \A p \in Requests : p # r => req'[p] = req[p]
      BY <2>3, NoRequestType DEF TypeOK
    <3>2. \A b \in Accounts : InFlight(b)' \subseteq InFlight(b)
      BY <3>1 DEF InFlight
    <3>3. QED
      BY <1>2, <2>2, <3>2
  <2>4. CASE ~Cleaned(now)[a].quiescing /\ req' = [req EXCEPT ![r].pc = "held"]
    <3>1. ~st[a].quiescing
      BY <2>4, CleanedCounts
    <3>2. \A q \in Quiescers : a \notin qlocked[q]
      BY <3>1 DEF QuiesceFlagOwned, Closed
    <3>3. ASSUME NEW b, b # a PROVE InFlight(b)' = InFlight(b)
      BY <2>1, <2>4, <3>3 DEF InFlight, TypeOK, Request
    <3>4. QED
      BY <2>2, <3>2, <3>3 DEF DrainedExclusive
  <2>5. QED
    BY <1>3, <2>1, <2>3, <2>4 DEF Prepare
<1>4. ASSUME NEW r \in Requests, Commit(r) PROVE DrainedExclusive'
  <2>1. \A a \in Accounts : InFlight(a)' \subseteq InFlight(a)
    BY <1>4 DEF Commit, InFlight, TypeOK, Request
  <2>2. QED
    BY <1>2, <1>4, <2>1 DEF Commit, quiesceVars
<1>5. ASSUME NEW r \in Requests, Release(r) PROVE DrainedExclusive'
  <2>1. req'[r].pc = "done" /\ \A p \in Requests : p # r => req'[p] = req[p]
    BY <1>5, NoRequestType DEF Release, TypeOK
  <2>2. \A a \in Accounts : InFlight(a)' \subseteq InFlight(a)
    BY <2>1 DEF InFlight
  <2>3. QED
    BY <1>2, <1>5, <2>2 DEF Release
<1>6. ASSUME NEW r \in Requests, NEW a \in Accounts, NEW u \in Callers, Arrive(r, a, u)
      PROVE  DrainedExclusive'
  <2>1. req'[r].pc = "ready" /\ \A p \in Requests : p # r => req'[p] = req[p]
    BY <1>6 DEF Arrive, TypeOK
  <2>2. \A b \in Accounts : InFlight(b)' \subseteq InFlight(b)
    BY <2>1 DEF InFlight
  <2>3. QED
    BY <1>2, <1>6, <2>2 DEF Arrive, quiesceVars
<1>7. ASSUME NEW q \in Quiescers, QuiesceDrained(q) PROVE DrainedExclusive'
  <2>1. PICK a \in Accounts : a = NextId(q)
    BY <1>7, NextIdWanted DEF QuiesceDrained
  <2>2. InFlight(a) = {}
    <3>1. Cardinality(InFlight(a)) = 0
      BY <1>7, <2>1 DEF QuiesceDrained, CountersExact, CountsInFlight
    <3>2. QED
      BY <3>1, InFlightFinite, FS_EmptySet
  <2>3. ASSUME NEW b PROVE InFlight(b)' = InFlight(b)
    BY <1>7 DEF QuiesceDrained, InFlight
  <2>4. QED
    BY <1>7, <2>1, <2>2, <2>3 DEF QuiesceDrained, DrainedExclusive, TypeOK
<1>8. CASE UNCHANGED <<req, qlocked>>
  BY <1>1, <1>8
<1>9. ASSUME NEW q \in Quiescers,
             \/ \E ids \in SUBSET Accounts : QuiesceStart(q, ids)
             \/ QuiesceAcquire(q) \/ QuiesceCancel(q) \/ QuiesceCancelOwn(q) \/ QuiesceRelease(q)
      PROVE  DrainedExclusive'
  <2>1. UNCHANGED req /\ \A p \in Quiescers : qlocked'[p] \subseteq qlocked[p]
    BY <1>9 DEF QuiesceStart, QuiesceAcquire, QuiesceCancel, QuiesceCancelOwn, QuiesceRelease,
                QuiesceReleaseTo, TypeOK
  <2>2. QED
    BY <1>1, <2>1
<1>10. QED
  BY <1>3, <1>4, <1>5, <1>6, <1>7, <1>8, <1>9
  DEF Next, RequestStep, QuiesceStep, Tick, Finished, vars, quiesceVars

-----------------------------------------------------------------------------
(* The controller starts in a state that satisfies the invariant.          *)
LEMMA TrafficInit ==
  ASSUME Init
  PROVE  TrafficInv
<1>1. ASSUME NEW r \in Requests PROVE req[r] = NoRequest("idle") /\ req[r].pc = "idle"
  BY NoRequestType DEF Init
<1>2. ASSUME NEW a PROVE InFlight(a) = {}
  BY <1>1 DEF InFlight
<1>3. ASSUME NEW a \in Accounts
      PROVE  st[a] \in State /\ CountsInFlight(st[a], a) /\ st[a].quiescing = FALSE
  <2>1. st[a] = FreshState
    BY DEF Init
  <2>2. QED
    BY <1>2, <2>1, FreshCounts
<1>4. TypeOK
  <2>1. req \in [Requests -> Request]
    BY <1>1, NoRequestType DEF Init
  <2>2. st \in [Accounts -> State]
    BY <1>3 DEF Init
  <2>3. QED
    BY <2>1, <2>2, ClockAssumption DEF Init, TypeOK, Minutes, ZeroTime, QuiesceStates
<1>5. CountersExact
  BY <1>3 DEF CountersExact
<1>6. QuiesceShape
  BY DEF Init, QuiesceShape
<1>7. QuiesceFlagOwned
  <2>1. \A q \in Quiescers : Closed(q) = {}
    BY DEF Init, Closed
  <2>2. QED
    BY <1>3, <2>1 DEF QuiesceFlagOwned
<1>8. DrainedExclusive
  BY <1>2 DEF DrainedExclusive
<1>9. QED
  BY <1>4, <1>5, <1>6, <1>7, <1>8 DEF TrafficInv

(* The invariant holds in every reachable state of the controller, for     *)
(* every number of accounts, requests, users and operations.               *)
THEOREM TrafficInvariant == Spec => []TrafficInv
<1>1. Init => TrafficInv
  BY TrafficInit
<1>2. TrafficInv /\ [Next]_vars => TrafficInv'
  BY CountsStep, ShapeStep, FlagStep, DrainedStep DEF TrafficInv
<1>3. QED
  BY <1>1, <1>2, PTL DEF Spec

(* The structs of account_traffic.go keep their types: in particular no    *)
(* counter that release or commit decrements ever goes below zero.         *)
THEOREM TypeCorrect == Spec => []TypeOK
<1>1. TrafficInv => TypeOK
  BY DEF TrafficInv
<1>2. QED
  BY <1>1, TrafficInvariant, PTL

(* active, members, pending and the idle channel are always what is really *)
(* in flight, through commits, early releases and state cleanups.          *)
THEOREM CountersAlwaysExact == Spec => []CountersExact
<1>1. TrafficInv => CountersExact
  BY DEF TrafficInv
<1>2. QED
  BY <1>1, TrafficInvariant, PTL

(* A quiescing flag always belongs to exactly one operation that is still  *)
(* there to clear it: cancellations and releases leave none behind.        *)
THEOREM FlagsAlwaysOwned == Spec => []QuiesceFlagOwned
<1>1. TrafficInv => QuiesceFlagOwned
  BY DEF TrafficInv
<1>2. QED
  BY <1>1, TrafficInvariant, PTL

(* No request or probe runs on an account between the moment quiesce found *)
(* it drained and the moment its operation reopens it.                     *)
THEOREM DrainedAlwaysExclusive == Spec => []DrainedExclusive
<1>1. TrafficInv => DrainedExclusive
  BY DEF TrafficInv
<1>2. QED
  BY <1>1, TrafficInvariant, PTL

-----------------------------------------------------------------------------
(* The limits                                                              *)

(* WindowWithinRPM for one state of the account a.                         *)
WithinRPM(s, a) ==
  RPMLimit[a] > 0 =>
    /\ s.window \in Minutes => s.used + s.pending[s.window] <= RPMLimit[a]
    /\ \A m \in Minutes : s.pending[m] <= RPMLimit[a]

(* A state made afresh has no window and nothing pending.                  *)
LEMMA FreshWithin ==
  ASSUME NEW a \in Accounts
  PROVE  WithinRPM(FreshState, a)
<1>1. FreshState.window \notin Minutes /\ \A m \in Minutes : FreshState.pending[m] = 0
  BY ClockAssumption DEF FreshState, ZeroTime, Minutes
<1>2. QED
  BY <1>1, LimitsAssumption DEF WithinRPM

(* A window that opens has nothing charged yet, and what is tentative in   *)
(* it was within the limit already.                                        *)
LEMMA SeenWithin ==
  ASSUME NEW s \in State, NEW a \in Accounts, NEW now \in Minutes, NEW counts \in BOOLEAN, WithinRPM(s, a)
  PROVE  /\ WithinRPM(Seen(s, now, counts), a)
         /\ counts => Seen(s, now, counts).window = now
<1>1. PICK t : t = Seen(s, now, counts)
  OBVIOUS
<1>2. /\ t.pending = s.pending
      /\ t.window = IF counts THEN now ELSE s.window
      /\ t.used = IF counts /\ s.window # now THEN 0 ELSE s.used
  BY <1>1 DEF Seen, State
<1>3. s.used \in Nat /\ s.pending \in [Minutes -> Nat] /\ RPMLimit[a] \in Nat
  BY LimitsAssumption DEF State
<1>4. WithinRPM(t, a)
  BY <1>2, <1>3 DEF WithinRPM
<1>5. QED
  BY <1>1, <1>2, <1>4

(* An admission counts in the window in force, below the limit.            *)
LEMMA AdmittedWithin ==
  ASSUME NEW s \in State, NEW a \in Accounts, NEW now \in Minutes, NEW u, WithinRPM(s, a),
         u # Probe => s.window = now /\ ~RateLimited(s, now, RPMLimit[a])
  PROVE  WithinRPM(Admitted(s, now, u), a)
<1>1. PICK t : t = Admitted(s, now, u)
  OBVIOUS
<1>2. /\ t.used = s.used /\ t.window = s.window
      /\ t.pending = [m \in Minutes |-> IF u # Probe /\ m = now THEN s.pending[m] + 1 ELSE s.pending[m]]
  BY <1>1 DEF Admitted, State
<1>3. s.used \in Nat /\ s.pending \in [Minutes -> Nat] /\ RPMLimit[a] \in Nat
  BY LimitsAssumption DEF State
<1>4. WithinRPM(t, a)
  BY <1>2, <1>3 DEF WithinRPM, RateLimited
<1>5. QED
  BY <1>1, <1>4

(* A charge moves an admission from pending to used, a release takes it    *)
(* away.                                                                   *)
LEMMA SettledWithin ==
  ASSUME NEW s \in State, NEW a \in Accounts, NEW now \in Minutes, WithinRPM(s, a)
  PROVE  WithinRPM(Settled(s, now), a)
<1>1. PICK t : t = Settled(s, now)
  OBVIOUS
<1>2. /\ t.used = (IF s.window = now THEN s.used + 1 ELSE s.used) /\ t.window = s.window
      /\ t.pending = [s.pending EXCEPT ![now] = s.pending[now] - 1]
  BY <1>1 DEF Settled, State
<1>3. s.used \in Nat /\ s.pending \in [Minutes -> Nat] /\ RPMLimit[a] \in Nat
  BY LimitsAssumption DEF State
<1>4. \A m \in Minutes : t.pending[m] = IF m = now THEN s.pending[m] - 1 ELSE s.pending[m]
  BY <1>2, <1>3
<1>5. WithinRPM(t, a)
  BY <1>2, <1>3, <1>4 DEF WithinRPM
<1>6. QED
  BY <1>1, <1>5

LEMMA ReturnedWithin ==
  ASSUME NEW s \in State, NEW a \in Accounts, NEW now \in Minutes, NEW u, NEW committed, WithinRPM(s, a)
  PROVE  WithinRPM(Returned(s, now, u, committed), a)
<1>1. PICK t : t = Returned(s, now, u, committed)
  OBVIOUS
<1>2. /\ t.used = s.used /\ t.window = s.window
      /\ t.pending = [m \in Minutes |->
                        IF u # Probe /\ ~committed /\ m = now THEN s.pending[m] - 1 ELSE s.pending[m]]
  BY <1>1 DEF Returned, State
<1>3. s.used \in Nat /\ s.pending \in [Minutes -> Nat] /\ RPMLimit[a] \in Nat
  BY LimitsAssumption DEF State
<1>4. \A m \in Minutes : t.pending[m] <= s.pending[m] /\ t.pending[m] \in Int
  BY <1>2, <1>3
<1>5. WithinRPM(t, a)
  BY <1>2, <1>3, <1>4 DEF WithinRPM
<1>6. QED
  BY <1>1, <1>5

(* Closing or reopening an account leaves its window alone.                *)
LEMMA FlaggedWithin ==
  ASSUME NEW s \in State, NEW a, NEW b, WithinRPM(s, a)
  PROVE  WithinRPM([s EXCEPT !.quiescing = b], a)
<1>1. PICK t : t = [s EXCEPT !.quiescing = b]
  OBVIOUS
<1>2. t.used = s.used /\ t.window = s.window /\ t.pending = s.pending
  BY <1>1 DEF State
<1>3. WithinRPM(t, a)
  BY <1>2 DEF WithinRPM
<1>4. QED
  BY <1>1, <1>3

(* Every step keeps every account's window within its limit.               *)
LEMMA WindowStep ==
  ASSUME TrafficInv, WindowWithinRPM, [Next]_vars
  PROVE  WindowWithinRPM'
<1>1. st \in [Accounts -> State] /\ \A a \in Accounts : WithinRPM(st[a], a)
  BY DEF TrafficInv, TypeOK, WindowWithinRPM, WithinRPM
<1> SUFFICES ASSUME NEW a \in Accounts PROVE WithinRPM(st'[a], a)
  BY DEF WindowWithinRPM, WithinRPM
<1>2. ASSUME NEW r \in Requests, Prepare(r) PROVE WithinRPM(st'[a], a)
  <2>1. PICK b \in Accounts, now \in Minutes, u \in Callers :
          b = req[r].acct /\ now = req[r].now /\ u = req[r].user
    BY DEF TrafficInv, TypeOK, Request
  <2>2. PICK kept \in [Accounts -> State] : kept = Cleaned(now)
    BY CleanedCounts DEF TrafficInv
  <2>3. \A c \in Accounts : WithinRPM(kept[c], c)
    BY <1>1, <2>2, FreshWithin DEF Cleaned
  <2>4. PICK counts \in BOOLEAN : counts <=> Counted(r)
    BY Zenon
  <2>5. PICK seen : seen = Seen(kept[b], now, counts)
    OBVIOUS
  <2>6. seen \in State /\ WithinRPM(seen, b) /\ (counts => seen.window = now)
    <3>1. kept[b] \in State /\ CountsInFlight(kept[b], b)
      BY <2>2, CleanedCounts DEF TrafficInv
    <3>2. QED
      BY <2>3, <2>5, <3>1, SeenCounts, SeenWithin
  <2>7. \/ st' = kept
        \/ st' = [kept EXCEPT ![b] = seen]
        \/ Admissible(r, seen) /\ st' = [kept EXCEPT ![b] = Admitted(seen, now, u)]
    <3>1. counts = Counted(r)
      BY <2>4 DEF Counted
    <3>2. QED
      BY <1>2, <2>1, <2>2, <2>5, <3>1, Zenon DEF Prepare
  <2>8. CASE Admissible(r, seen) /\ st' = [kept EXCEPT ![b] = Admitted(seen, now, u)]
    <3>1. u # Probe => seen.window = now /\ ~RateLimited(seen, now, RPMLimit[b])
      BY <2>1, <2>4, <2>6, <2>8 DEF Admissible, Counted
    <3>2. WithinRPM(Admitted(seen, now, u), b)
      BY <2>6, <3>1, AdmittedWithin
    <3>3. QED
      BY <2>2, <2>3, <2>8, <3>2
  <2>9. QED
    BY <2>2, <2>3, <2>6, <2>7, <2>8
<1>3. ASSUME NEW r \in Requests, Commit(r) PROVE WithinRPM(st'[a], a)
  <2>1. req[r].now \in Minutes
    BY DEF TrafficInv, TypeOK, Request
  <2>2. st'[a] = IF a = req[r].acct THEN Settled(st[a], req[r].now) ELSE st[a]
    BY <1>1, <1>3 DEF Commit
  <2>3. QED
    BY <1>1, <2>1, <2>2, SettledWithin
<1>4. ASSUME NEW r \in Requests, Release(r) PROVE WithinRPM(st'[a], a)
  <2>1. req[r].now \in Minutes
    BY DEF TrafficInv, TypeOK, Request
  <2>2. st'[a] = IF a = req[r].acct
                 THEN Returned(st[a], req[r].now, req[r].user, req[r].pc = "committed") ELSE st[a]
    BY <1>1, <1>4 DEF Release
  <2>3. QED
    BY <1>1, <2>1, <2>2, ReturnedWithin
<1>5. ASSUME NEW ids, st' = Reopened(ids) PROVE WithinRPM(st'[a], a)
  BY <1>1, <1>5, FlaggedWithin DEF Reopened
<1>6. ASSUME NEW q \in Quiescers, QuiesceAcquire(q) PROVE WithinRPM(st'[a], a)
  <2>1. st'[a] = st[a] \/ st'[a] = [st[a] EXCEPT !.quiescing = TRUE]
    BY <1>1, <1>6 DEF QuiesceAcquire
  <2>2. QED
    BY <1>1, <2>1, FlaggedWithin
<1>7. CASE UNCHANGED st
  BY <1>1, <1>7
<1>8. QED
  BY <1>2, <1>3, <1>4, <1>5, <1>6, <1>7
  DEF Next, RequestStep, QuiesceStep, Arrive, QuiesceStart, QuiesceDrained, QuiesceCancel, QuiesceCancelOwn,
      QuiesceRelease, QuiesceReleaseTo, Tick, Finished, vars

(* prepareRequest and commit: charged and tentative admissions together    *)
(* never exceed the RPM limit of the window in force, whatever the order   *)
(* in which requests of different minutes are admitted, charged, released. *)
THEOREM WindowAlwaysWithinRPM == Spec => []WindowWithinRPM
<1>1. Init => WindowWithinRPM
  BY FreshWithin DEF Init, WindowWithinRPM, WithinRPM
<1>2. QED
  BY <1>1, TrafficInvariant, WindowStep, PTL DEF Spec

(* The gateway requests among those in flight.                             *)
CountedInFlight(a) == {r \in InFlight(a) : Counted(r)}

(* Gateway requests enter below the account's concurrency; the counter     *)
(* they are compared with counts the probes too, so it is never too low.   *)
LEMMA ConcurrencyStep ==
  ASSUME TrafficInv, TrafficInv', ConcurrencyBounded, [Next]_vars
  PROVE  ConcurrencyBounded'
<1> SUFFICES ASSUME NEW a \in Accounts, MaxConcurrency[a] > 0
             PROVE  Cardinality(CountedInFlight(a)') <= MaxConcurrency[a]
  BY DEF ConcurrencyBounded, CountedInFlight
<1>1. MaxConcurrency[a] \in Nat
  BY LimitsAssumption
<1>2. ASSUME CountedInFlight(a)' \subseteq CountedInFlight(a)
      PROVE  Cardinality(CountedInFlight(a)') <= MaxConcurrency[a]
  <2>1. PICK S : S = CountedInFlight(a)
    OBVIOUS
  <2>2. IsFiniteSet(S) /\ Cardinality(S) \in Nat
    <3>1. S \subseteq InFlight(a)
      BY <2>1 DEF CountedInFlight
    <3>2. QED
      BY <3>1, InFlightFinite, FS_Subset, FS_CardinalityType
  <2>3. Cardinality(S) <= MaxConcurrency[a]
    BY <2>1 DEF ConcurrencyBounded, CountedInFlight
  <2>4. Cardinality(CountedInFlight(a)') <= Cardinality(S) /\ Cardinality(CountedInFlight(a)') \in Nat
    BY <1>2, <2>1, <2>2, FS_Subset, FS_CardinalityType
  <2>5. QED
    BY <1>1, <2>2, <2>3, <2>4
<1>3. ASSUME NEW r \in Requests, \A p \in Requests : p # r => req'[p] = req[p],
             req'[r].pc \notin {"held", "committed"}
      PROVE  CountedInFlight(a)' \subseteq CountedInFlight(a)
  BY <1>3 DEF CountedInFlight, InFlight, Counted
<1>4. ASSUME NEW r \in Requests, Prepare(r)
      PROVE  Cardinality(CountedInFlight(a)') <= MaxConcurrency[a]
  <2>1. CASE req' = [req EXCEPT ![r] = NoRequest("done")]
    <3>1. req'[r].pc = "done" /\ \A p \in Requests : p # r => req'[p] = req[p]
      BY <2>1, NoRequestType DEF TrafficInv, TypeOK
    <3>2. QED
      BY <1>2, <1>3, <3>1
  <2>2. CASE req' # [req EXCEPT ![r] = NoRequest("done")]
    <3>1. PICK b \in Accounts, now \in Minutes : b = req[r].acct /\ now = req[r].now
      BY DEF TrafficInv, TypeOK, Request
    <3>2. PICK kept \in [Accounts -> State] : kept = Cleaned(now)
      BY CleanedCounts DEF TrafficInv
    <3>3. PICK seen : seen = Seen(kept[b], now, Counted(r))
      OBVIOUS
    <3>4. req[r].pc = "ready" /\ req' = [req EXCEPT ![r].pc = "held"] /\ Admissible(r, seen)
      BY <1>4, <2>2, <3>1, <3>2, <3>3 DEF Prepare
    <3>5. /\ req'[r].pc = "held" /\ req'[r].acct = b /\ req'[r].user = req[r].user
          /\ \A p \in Requests : p # r => req'[p] = req[p]
      BY <3>1, <3>4 DEF TrafficInv, TypeOK, Request
    <3>6. CASE a # b \/ ~Counted(r)
      <4>1. CountedInFlight(a)' \subseteq CountedInFlight(a)
        BY <3>5, <3>6 DEF CountedInFlight, InFlight, Counted
      <4>2. QED
        BY <1>2, <4>1
    <3>7. CASE a = b /\ Counted(r)
      <4>1. seen.active = Cardinality(InFlight(a)) /\ Cardinality(InFlight(a)) \in Nat
        <5>1. kept[b] \in State /\ CountsInFlight(kept[b], b) /\ Counted(r) \in BOOLEAN
          BY <3>2, CleanedCounts DEF TrafficInv, Counted
        <5>2. CountsInFlight(seen, b)
          BY <3>3, <5>1, SeenCounts
        <5>3. QED
          BY <3>7, <5>2, InFlightFinite DEF CountsInFlight
      <4>2. Cardinality(InFlight(a)) < MaxConcurrency[a]
        BY <1>1, <3>1, <3>4, <3>7, <4>1 DEF Admissible, AtCapacity
      <4>3. PICK S : S = InFlight(a) \cup {r}
        OBVIOUS
      <4>4. IsFiniteSet(S) /\ Cardinality(S) <= MaxConcurrency[a] /\ Cardinality(S) \in Nat
        <5>1. r \notin InFlight(a)
          BY <3>4 DEF InFlight
        <5>2. IsFiniteSet(S) /\ Cardinality(S) = Cardinality(InFlight(a)) + 1
          BY <4>3, <5>1, InFlightFinite, FS_AddElement
        <5>3. QED
          BY <1>1, <4>1, <4>2, <5>2
      <4>5. CountedInFlight(a)' \subseteq S
        BY <3>5, <4>3 DEF CountedInFlight, InFlight
      <4>6. Cardinality(CountedInFlight(a)') <= Cardinality(S) /\ Cardinality(CountedInFlight(a)') \in Nat
        BY <4>4, <4>5, FS_Subset, FS_CardinalityType
      <4>7. QED
        BY <1>1, <4>4, <4>6
    <3>8. QED
      BY <3>6, <3>7
  <2>3. QED
    BY <2>1, <2>2
<1>5. ASSUME NEW r \in Requests, Commit(r) PROVE CountedInFlight(a)' \subseteq CountedInFlight(a)
  BY <1>5 DEF Commit, CountedInFlight, InFlight, Counted, TrafficInv, TypeOK, Request
<1>6. ASSUME NEW r \in Requests, Release(r) PROVE CountedInFlight(a)' \subseteq CountedInFlight(a)
  BY <1>3, <1>6, NoRequestType DEF Release, TrafficInv, TypeOK
<1>7. ASSUME NEW r \in Requests, NEW b \in Accounts, NEW u \in Callers, Arrive(r, b, u)
      PROVE  CountedInFlight(a)' \subseteq CountedInFlight(a)
  <2>1. req'[r].pc = "ready" /\ \A p \in Requests : p # r => req'[p] = req[p]
    BY <1>7 DEF Arrive, TrafficInv, TypeOK
  <2>2. QED
    BY <1>3, <2>1
<1>8. CASE UNCHANGED req
  BY <1>2, <1>8 DEF CountedInFlight, InFlight, Counted
<1>9. QED
  BY <1>2, <1>4, <1>5, <1>6, <1>7, <1>8
  DEF Next, RequestStep, QuiesceStep, QuiesceStart, QuiesceAcquire, QuiesceDrained, QuiesceCancel,
      QuiesceCancelOwn, QuiesceRelease, QuiesceReleaseTo, Tick, Finished, vars

(* prepareRequest: the gateway requests in flight on an account never      *)
(* exceed its MaxConcurrency, for any number of requests, through cleanups *)
(* of the account's state and beside probes, which no limit applies to.    *)
THEOREM ConcurrencyAlwaysBounded == Spec => []ConcurrencyBounded
<1>1. Init => ConcurrencyBounded
  <2> SUFFICES ASSUME Init, NEW a \in Accounts, MaxConcurrency[a] > 0
               PROVE  Cardinality(CountedInFlight(a)) <= MaxConcurrency[a]
    BY DEF ConcurrencyBounded, CountedInFlight
  <2>1. \A r \in Requests : req[r].pc = "idle"
    BY NoRequestType DEF Init
  <2>2. CountedInFlight(a) = {}
    BY <2>1 DEF CountedInFlight, InFlight
  <2>3. MaxConcurrency[a] \in Nat
    BY LimitsAssumption
  <2>4. QED
    BY <2>2, <2>3, FS_EmptySet
<1>2. QED
  BY <1>1, TrafficInvariant, ConcurrencyStep, PTL DEF Spec

-----------------------------------------------------------------------------
(* The controller implements the gate                                      *)

(* quiesce goes through its accounts in order: what an operation has       *)
(* locked comes before all that it still wants.                            *)
LockedBelow ==
  \A q \in Quiescers : \A a \in qlocked[q], b \in qwant[q] : a < b

LEMMA OrderStep ==
  ASSUME TrafficInv, LockedBelow, [Next]_vars
  PROVE  LockedBelow'
<1>1. ASSUME \A q \in Quiescers : qlocked'[q] \subseteq qlocked[q] /\ qwant'[q] \subseteq qwant[q]
      PROVE  LockedBelow'
  BY <1>1 DEF LockedBelow
<1>2. ASSUME NEW q \in Quiescers, NEW ids \in SUBSET Accounts, QuiesceStart(q, ids) PROVE LockedBelow'
  BY <1>2 DEF QuiesceStart, LockedBelow, TrafficInv, TypeOK
<1>3. ASSUME NEW q \in Quiescers, QuiesceDrained(q) PROVE LockedBelow'
  <2>1. qwant[q] \subseteq Nat /\ qwant[q] # {}
    BY <1>3, AccountsAssumption DEF QuiesceDrained, TrafficInv, TypeOK, QuiesceShape
  <2>2. PICK a \in qwant[q] : a = NextId(q) /\ \A b \in qwant[q] : a <= b
    BY <2>1, MinIn DEF NextId
  <2>3. /\ qwant' = [qwant EXCEPT ![q] = @ \ {a}]
        /\ qlocked' = [qlocked EXCEPT ![q] = @ \cup {a}]
    BY <1>3, <2>2 DEF QuiesceDrained
  <2>4. \A b \in qwant[q] \ {a} : a < b
    BY <2>1, <2>2
  <2>5. QED
    BY <2>3, <2>4 DEF LockedBelow, TrafficInv, TypeOK
<1>4. CASE UNCHANGED <<qwant, qlocked>>
  BY <1>1, <1>4
<1>5. ASSUME NEW q \in Quiescers, QuiesceCancel(q) \/ QuiesceRelease(q) PROVE LockedBelow'
  BY <1>1, <1>5 DEF QuiesceCancel, QuiesceRelease, QuiesceReleaseTo, TrafficInv, TypeOK
<1>6. QED
  BY <1>2, <1>3, <1>4, <1>5
  DEF Next, RequestStep, QuiesceStep, Prepare, Commit, Release, Arrive, QuiesceAcquire, QuiesceCancelOwn, Tick,
      Finished, vars, quiesceVars

(* Steps of the controller that the gate does not see.                     *)
LEMMA GateStutter ==
  ASSUME \A a \in Accounts : InFlight(a)' = InFlight(a),
         \A q \in Quiescers : Closed(q)' = Closed(q), UNCHANGED qlocked
  PROVE  UNCHANGED Gate!gateVars
<1>1. [a \in Accounts |-> InFlight(a)]' = [a \in Accounts |-> InFlight(a)]
  OBVIOUS
<1>2. [q \in Quiescers |-> Closed(q)]' = [q \in Quiescers |-> Closed(q)]
  OBVIOUS
<1>3. QED
  BY <1>1, <1>2 DEF Gate!gateVars

(* What a quiescer has closed depends on its program counter and sets, and *)
(* a wake-up does not change it.                                           *)
LEMMA SameClosed ==
  ASSUME TypeOK, qpc' = qpc \/ qpc' = Woken(qpc), UNCHANGED <<qwant, qlocked>>, NEW q \in Quiescers
  PROVE  Closed(q)' = Closed(q)
BY DEF Closed, NextId, Woken, TypeOK

(* A request's step is an Enter, a Leave or nothing.                       *)
LEMMA GateRequest ==
  ASSUME TrafficInv, NEW r \in Requests, RequestStep(r)
  PROVE  [Gate!GateNext]_(Gate!gateVars)
<1>1. TypeOK /\ req \in [Requests -> Request]
  BY DEF TrafficInv, TypeOK
<1>2. /\ UNCHANGED qlocked
      /\ \A q \in Quiescers : Closed(q)' = Closed(q)
  <2>1. UNCHANGED <<qwant, qlocked>> /\ (qpc' = qpc \/ qpc' = Woken(qpc))
    BY DEF RequestStep, Prepare, Commit, Release, quiesceVars
  <2>2. QED
    BY <1>1, <2>1, SameClosed
<1>3. PICK a \in Accounts, now \in Minutes : a = req[r].acct /\ now = req[r].now
  BY <1>1 DEF Request
<1>4. [q \in Quiescers |-> Closed(q)]' = [q \in Quiescers |-> Closed(q)]
  BY <1>2
<1>5. CASE req' = [req EXCEPT ![r] = NoRequest("done")]
  <2>1. req'[r].pc = "done" /\ \A p \in Requests : p # r => req'[p] = req[p]
    BY <1>1, <1>5, NoRequestType
  <2>2. CASE req[r].pc \in {"held", "committed"}
    <3>1. r \in InFlight(a) /\ InFlight(a)' = InFlight(a) \ {r}
      BY <1>3, <2>1, <2>2 DEF InFlight
    <3>2. \A b \in Accounts : b # a => InFlight(b)' = InFlight(b)
      BY <1>3, <2>1, <2>2 DEF InFlight
    <3>3. [b \in Accounts |-> InFlight(b)]'
            = [[b \in Accounts |-> InFlight(b)] EXCEPT ![a] = @ \ {r}]
      BY <3>1, <3>2
    <3>4. Gate!Leave(r, a)
      BY <1>2, <1>4, <3>1, <3>3 DEF Gate!Leave
    <3>5. QED
      BY <3>4 DEF Gate!GateNext
  <2>3. CASE req[r].pc \notin {"held", "committed"}
    <3>1. \A b \in Accounts : InFlight(b)' = InFlight(b)
      BY <2>1, <2>3 DEF InFlight
    <3>2. QED
      BY <1>2, <3>1, GateStutter
  <2>4. QED
    BY <2>2, <2>3
<1>6. CASE /\ req[r].pc = "ready" /\ ~Cleaned(now)[a].quiescing
           /\ req' = [req EXCEPT ![r].pc = "held"]
  <2>1. ~st[a].quiescing
    BY <1>6, CleanedCounts DEF TrafficInv
  <2>2. \A q \in Quiescers : a \notin Closed(q)
    BY <2>1 DEF TrafficInv, QuiesceFlagOwned
  <2>3. /\ req'[r].pc = "held" /\ req'[r].acct = a
        /\ \A p \in Requests : p # r => req'[p] = req[p]
    BY <1>1, <1>3, <1>6 DEF Request
  <2>4. \A b \in Accounts : r \notin InFlight(b)
    BY <1>6 DEF InFlight
  <2>5. InFlight(a)' = InFlight(a) \cup {r}
    BY <2>3 DEF InFlight
  <2>6. \A b \in Accounts : b # a => InFlight(b)' = InFlight(b)
    BY <2>3, <2>4 DEF InFlight
  <2>7. [b \in Accounts |-> InFlight(b)]'
          = [[b \in Accounts |-> InFlight(b)] EXCEPT ![a] = @ \cup {r}]
    BY <2>5, <2>6
  <2>8. Gate!Enter(r, a)
    BY <1>2, <1>4, <2>2, <2>4, <2>7 DEF Gate!Enter, Gate!IsOpen
  <2>9. QED
    BY <2>8 DEF Gate!GateNext
<1>7. CASE Commit(r)
  <2>1. \A b \in Accounts : InFlight(b)' = InFlight(b)
    BY <1>1, <1>7 DEF Commit, InFlight, Request
  <2>2. QED
    BY <1>2, <2>1, GateStutter
<1>8. QED
  BY <1>3, <1>5, <1>6, <1>7 DEF RequestStep, Prepare, Release

LEMMA GateOpens ==
  ASSUME TrafficInv, NEW q \in Quiescers, NEW ids \in SUBSET Accounts, UNCHANGED req,
         ids \subseteq Closed(q), Closed(q)' = Closed(q) \ ids,
         \A p \in Quiescers : p # q => Closed(p)' = Closed(p),
         qlocked' = [qlocked EXCEPT ![q] = qlocked[q] \ ids]
  PROVE  Gate!GateNext
<1>1. [a \in Accounts |-> InFlight(a)]' = [a \in Accounts |-> InFlight(a)]
  BY DEF InFlight
<1>2. [p \in Quiescers |-> Closed(p)]' = [[p \in Quiescers |-> Closed(p)] EXCEPT ![q] = @ \ ids]
  OBVIOUS
<1>3. Gate!Open(q, ids)
  BY <1>1, <1>2 DEF Gate!Open
<1>4. QED
  BY <1>3 DEF Gate!GateNext

(* An operation's step is a Close, a Hold, an Open or nothing.             *)
LEMMA GateQuiesce ==
  ASSUME TrafficInv, LockedBelow, NEW q \in Quiescers,
         \/ \E ids \in SUBSET Accounts : QuiesceStart(q, ids)
         \/ QuiesceStep(q) \/ QuiesceCancel(q)
  PROVE  [Gate!GateNext]_(Gate!gateVars)
<1>1. /\ qpc \in [Quiescers -> QuiesceStates]
      /\ qwant \in [Quiescers -> SUBSET Accounts]
      /\ qlocked \in [Quiescers -> SUBSET Accounts]
      /\ TypeOK /\ QuiesceShape
  BY DEF TrafficInv, TypeOK
<1>2. UNCHANGED req
  BY DEF QuiesceStart, QuiesceStep, QuiesceAcquire, QuiesceDrained, QuiesceCancel, QuiesceCancelOwn,
         QuiesceRelease, QuiesceReleaseTo
<1>3. \A a \in Accounts : InFlight(a)' = InFlight(a)
  BY <1>2 DEF InFlight
<1>4. [a \in Accounts |-> InFlight(a)]' = [a \in Accounts |-> InFlight(a)]
  BY <1>3
<1>5. ASSUME NEW ids \in SUBSET Accounts, QuiesceStart(q, ids) PROVE UNCHANGED Gate!gateVars
  <2>1. qlocked[q] = {}
    BY <1>1, <1>5 DEF QuiesceStart, QuiesceShape
  <2>2. UNCHANGED qlocked
    BY <1>1, <1>5, <2>1 DEF QuiesceStart
  <2>3. \A p \in Quiescers : Closed(p)' = Closed(p)
    BY <1>1, <1>5, <2>1 DEF QuiesceStart, Closed, NextId
  <2>4. QED
    BY <1>3, <2>2, <2>3, GateStutter
<1>6. CASE QuiesceAcquire(q)
  <2>1. PICK a \in Accounts : a = NextId(q) /\ a \in qwant[q]
    BY <1>1, <1>6, NextIdWanted DEF QuiesceAcquire
  <2>2. UNCHANGED <<qwant, qlocked>>
    BY <1>6 DEF QuiesceAcquire
  <2>3. CASE ~st[a].quiescing /\ qpc' = [Woken(qpc) EXCEPT ![q] = "draining"]
    <3>1. Closed(q) = qlocked[q] /\ Closed(q)' = qlocked[q] \cup {a}
      BY <1>1, <1>6, <2>1, <2>2, <2>3 DEF QuiesceAcquire, Closed, NextId, Woken
    <3>2. \A p \in Quiescers : p # q => Closed(p)' = Closed(p)
      BY <1>1, <2>2, <2>3 DEF Closed, NextId, Woken
    <3>3. [p \in Quiescers |-> Closed(p)]' = [[p \in Quiescers |-> Closed(p)] EXCEPT ![q] = @ \cup {a}]
      BY <3>1, <3>2
    <3>4. \A p \in Quiescers : a \notin Closed(p)
      BY <2>3 DEF TrafficInv, QuiesceFlagOwned
    <3>5. \A b \in qlocked[q] : b < a
      BY <2>1 DEF LockedBelow
    <3>6. Gate!Close(q, a)
      BY <1>4, <2>2, <3>1, <3>3, <3>4, <3>5 DEF Gate!Close, Gate!IsOpen
    <3>7. QED
      BY <3>6 DEF Gate!GateNext
  <2>4. CASE qpc' = [qpc EXCEPT ![q] = "blocked"]
    <3>1. \A p \in Quiescers : Closed(p)' = Closed(p)
      BY <1>1, <1>6, <2>2, <2>4 DEF QuiesceAcquire, Closed, NextId
    <3>2. QED
      BY <1>3, <2>2, <3>1, GateStutter
  <2>5. QED
    BY <1>6, <2>1, <2>3, <2>4 DEF QuiesceAcquire
<1>7. CASE QuiesceDrained(q)
  <2>1. PICK a \in Accounts : a = NextId(q) /\ a \in qwant[q]
    BY <1>1, <1>7, NextIdWanted DEF QuiesceDrained
  <2>2. a \in Closed(q) /\ a \notin qlocked[q]
    BY <1>1, <1>7, <2>1 DEF QuiesceDrained, Closed, QuiesceShape
  <2>3. InFlight(a) = {}
    <3>1. Cardinality(InFlight(a)) = 0
      BY <1>7, <2>1 DEF QuiesceDrained, TrafficInv, CountersExact, CountsInFlight
    <3>2. QED
      BY <3>1, InFlightFinite, FS_EmptySet
  <2>4. [p \in Quiescers |-> Closed(p)]' = [p \in Quiescers |-> Closed(p)]
    <3>1. \A p \in Quiescers : Closed(p)' = Closed(p)
      BY <1>1, <1>7 DEF QuiesceDrained, Closed, NextId
    <3>2. QED
      BY <3>1
  <2>5. qlocked' = [qlocked EXCEPT ![q] = @ \cup {a}]
    BY <1>7, <2>1 DEF QuiesceDrained
  <2>6. Gate!Hold(q, a)
    BY <1>4, <2>2, <2>3, <2>4, <2>5 DEF Gate!Hold
  <2>7. QED
    BY <2>6 DEF Gate!GateNext
<1>8. CASE QuiesceCancel(q)
  <2>1. NextId(q) \notin qlocked[q]
    BY <1>1, <1>8, NextIdWanted DEF QuiesceCancel, QuiesceShape
  <2>2. qlocked[q] \subseteq Closed(q) /\ Closed(q)' = Closed(q) \ qlocked[q]
    BY <1>1, <1>8, <2>1 DEF QuiesceCancel, Closed, NextId, Woken
  <2>3. \A p \in Quiescers : p # q => Closed(p)' = Closed(p)
    BY <1>1, <1>8 DEF QuiesceCancel, Closed, NextId, Woken
  <2>4. qlocked' = [qlocked EXCEPT ![q] = qlocked[q] \ qlocked[q]]
    BY <1>8 DEF QuiesceCancel
  <2>5. QED
    BY <1>1, <1>2, <2>2, <2>3, <2>4, GateOpens
<1>9. CASE QuiesceCancelOwn(q)
  <2>1. NextId(q) \in Accounts /\ qlocked[q] = {}
    BY <1>1, <1>9, NextIdWanted DEF QuiesceCancelOwn, QuiesceShape
  <2>2. {NextId(q)} \subseteq Closed(q) /\ Closed(q)' = Closed(q) \ {NextId(q)}
    BY <1>1, <1>9, <2>1 DEF QuiesceCancelOwn, Closed, NextId, Woken
  <2>3. \A p \in Quiescers : p # q => Closed(p)' = Closed(p)
    BY <1>1, <1>9 DEF QuiesceCancelOwn, Closed, NextId, Woken
  <2>4. qlocked' = [qlocked EXCEPT ![q] = qlocked[q] \ {NextId(q)}]
    BY <1>1, <1>9, <2>1 DEF QuiesceCancelOwn
  <2>5. QED
    BY <1>2, <2>1, <2>2, <2>3, <2>4, GateOpens
<1>10. CASE QuiesceRelease(q)
  <2>1. qlocked[q] \subseteq Closed(q) /\ Closed(q)' = Closed(q) \ qlocked[q]
    BY <1>1, <1>10 DEF QuiesceRelease, QuiesceReleaseTo, Closed, NextId, Woken
  <2>2. \A p \in Quiescers : p # q => Closed(p)' = Closed(p)
    BY <1>1, <1>10 DEF QuiesceRelease, QuiesceReleaseTo, Closed, NextId, Woken
  <2>3. qlocked' = [qlocked EXCEPT ![q] = qlocked[q] \ qlocked[q]]
    BY <1>10 DEF QuiesceRelease, QuiesceReleaseTo
  <2>4. QED
    BY <1>1, <1>2, <2>1, <2>2, <2>3, GateOpens
<1>11. QED
  BY <1>5, <1>6, <1>7, <1>8, <1>9, <1>10 DEF QuiesceStep

(* Every step of the controller is a step of the gate or unseen by it.     *)
LEMMA GateStep ==
  ASSUME TrafficInv, LockedBelow, [Next]_vars
  PROVE  [Gate!GateNext]_(Gate!gateVars)
<1>1. ASSUME UNCHANGED quiesceVars, \A a \in Accounts : InFlight(a)' = InFlight(a)
      PROVE  UNCHANGED Gate!gateVars
  BY <1>1, SameClosed, GateStutter DEF TrafficInv, quiesceVars
<1>2. ASSUME NEW r \in Requests, NEW a \in Accounts, NEW u \in Callers, Arrive(r, a, u)
      PROVE  UNCHANGED Gate!gateVars
  <2>1. /\ req[r].pc = "idle" /\ req'[r].pc = "ready"
        /\ \A p \in Requests : p # r => req'[p] = req[p]
    BY <1>2 DEF Arrive, TrafficInv, TypeOK
  <2>2. \A b \in Accounts : InFlight(b)' = InFlight(b)
    BY <2>1 DEF InFlight
  <2>3. QED
    BY <1>1, <1>2, <2>2 DEF Arrive
<1>3. CASE UNCHANGED <<req, quiesceVars>>
  BY <1>1, <1>3 DEF InFlight
<1>4. QED
  BY <1>2, <1>3, GateRequest, GateQuiesce DEF Next, Tick, Finished, vars, quiesceVars

LEMMA GateStart == Init => Gate!GateInit /\ LockedBelow
<1> SUFFICES ASSUME Init PROVE Gate!GateInit /\ LockedBelow
  OBVIOUS
<1>1. \A r \in Requests : req[r].pc = "idle"
  BY NoRequestType DEF Init
<1>2. \A a \in Accounts : InFlight(a) = {}
  BY <1>1 DEF InFlight
<1>3. \A q \in Quiescers : Closed(q) = {} /\ qlocked[q] = {}
  BY DEF Init, Closed
<1>4. QED
  BY <1>2, <1>3 DEF Init, Gate!GateInit, LockedBelow

(* account_traffic.go implements AccountGate: every behaviour of the       *)
(* controller, for any accounts, requests and operations, is a behaviour   *)
(* of a gate that lets requests in only where nobody has closed, and whose *)
(* operations close in order, hold what is drained and open their own.     *)
THEOREM TrafficImplementsGate == Spec => ImplementsGate
<1>1. TrafficInv /\ LockedBelow /\ [Next]_vars => LockedBelow' /\ [Gate!GateNext]_(Gate!gateVars)
  BY OrderStep, GateStep
<1>2. QED
  BY <1>1, GateStart, TrafficInvariant, PTL DEF Spec, ImplementsGate, Gate!GateSpec

-----------------------------------------------------------------------------
(* Base slots                                                              *)

(* The slots that a member count stands for, whoever's base they are in.   *)
HeldSlots(members) == UNION {{u} \X (1 .. members[u]) : u \in Users}

(* Membership in the three sets of slots.                                  *)
LEMMA SlotsMembers ==
  ASSUME NEW m \in [Users -> Nat], NEW u, NEW k
  PROVE  /\ <<u, k>> \in HeldSlots(m) <=> u \in Users /\ k \in 1 .. m[u]
         /\ <<u, k>> \in SharedSlots(m) <=> u \in Users /\ k \in Base(u) + 1 .. m[u]
         /\ <<u, k>> \in ReservedSlots <=> u \in PolicyMembers /\ k \in 1 .. BaseLimit[u]
BY DEF HeldSlots, SharedSlots, ReservedSlots

(* Every slot is a pair.                                                   *)
LEMMA SlotsPairs ==
  ASSUME NEW m \in [Users -> Nat], NEW p
  PROVE  /\ p \in HeldSlots(m) => p = <<p[1], p[2]>>
         /\ p \in SharedSlots(m) => p = <<p[1], p[2]>>
         /\ p \in ReservedSlots => p = <<p[1], p[2]>>
BY DEF HeldSlots, SharedSlots, ReservedSlots

(* Finitely many finite sets have a finite union.                          *)
LEMMA FiniteUnion ==
  ASSUME NEW U, IsFiniteSet(U), NEW f \in [U -> SUBSET (U \X Int)], \A u \in U : IsFiniteSet(f[u])
  PROVE  IsFiniteSet(UNION {f[u] : u \in U})
<1>1. PICK T : T = {f[u] : u \in U}
  OBVIOUS
<1>2. f \in Surjection(U, T)
  BY <1>1 DEF Surjection
<1>3. IsFiniteSet(T)
  BY <1>2, FS_Surjection
<1>4. QED
  BY <1>1, <1>3, FS_UNION

(* The slots of each user numbered from lo[u] to hi[u] are finitely many.  *)
LEMMA FiniteSlots ==
  ASSUME NEW U, IsFiniteSet(U), NEW lo \in [U -> Nat], NEW hi \in [U -> Nat]
  PROVE  IsFiniteSet(UNION {{u} \X (lo[u] .. hi[u]) : u \in U})
<1>1. PICK f : f = [u \in U |-> {u} \X (lo[u] .. hi[u])]
  OBVIOUS
<1>2. f \in [U -> SUBSET (U \X Int)]
  BY <1>1
<1>3. ASSUME NEW u \in U PROVE IsFiniteSet(f[u])
  <2>1. IsFiniteSet({u}) /\ IsFiniteSet(lo[u] .. hi[u])
    <3>1. lo[u] \in Int /\ hi[u] \in Int
      OBVIOUS
    <3>2. IsFiniteSet(lo[u] .. hi[u])
      BY ONLY <3>1, FS_Interval
    <3>3. IsFiniteSet({u})
      BY ONLY FS_Singleton
    <3>4. QED
      BY <3>2, <3>3
  <2>2. QED
    BY <1>1, <2>1, FS_Product
<1>4. IsFiniteSet(UNION {f[u] : u \in U})
  BY <1>2, <1>3, FiniteUnion
<1>5. {f[u] : u \in U} = {{u} \X (lo[u] .. hi[u]) : u \in U}
  BY <1>1
<1>6. QED
  BY <1>4, <1>5

(* There are finitely many slots in each set.                              *)
LEMMA SlotsFinite ==
  ASSUME NEW m \in [Users -> Nat]
  PROVE  /\ IsFiniteSet(HeldSlots(m)) /\ Cardinality(HeldSlots(m)) \in Nat
         /\ IsFiniteSet(SharedSlots(m)) /\ SharedUsed(m) \in Nat
         /\ IsFiniteSet(ReservedSlots) /\ Reserved \in Nat
<1>1. IsFiniteSet(HeldSlots(m))
  <2>1. PICK lo \in [Users -> Nat] : lo = [u \in Users |-> 1]
    OBVIOUS
  <2>2. IsFiniteSet(UNION {{u} \X (lo[u] .. m[u]) : u \in Users})
    BY UsersAssumption, FiniteSlots
  <2>3. {{u} \X (lo[u] .. m[u]) : u \in Users} = {{u} \X (1 .. m[u]) : u \in Users}
    BY <2>1
  <2>4. QED
    BY <2>2, <2>3 DEF HeldSlots
<1>2. SharedSlots(m) \subseteq HeldSlots(m)
  BY UsersAssumption, LimitsAssumption DEF SharedSlots, HeldSlots, Base
<1>3. IsFiniteSet(SharedSlots(m))
  BY <1>1, <1>2, FS_Subset
<1>4. IsFiniteSet(ReservedSlots)
  <2>1. PICK lo \in [PolicyMembers -> Nat] : lo = [u \in PolicyMembers |-> 1]
    OBVIOUS
  <2>2. PICK hi \in [PolicyMembers -> Nat] : hi = [u \in PolicyMembers |-> BaseLimit[u]]
    BY UsersAssumption, LimitsAssumption
  <2>3. IsFiniteSet(PolicyMembers)
    BY UsersAssumption, FS_Subset
  <2>4. IsFiniteSet(UNION {{u} \X (lo[u] .. hi[u]) : u \in PolicyMembers})
    BY <2>3, FiniteSlots
  <2>5. {{u} \X (lo[u] .. hi[u]) : u \in PolicyMembers} = {{u} \X (1 .. BaseLimit[u]) : u \in PolicyMembers}
    BY <2>1, <2>2
  <2>6. QED
    BY <2>4, <2>5 DEF ReservedSlots
<1>5. QED
  BY <1>1, <1>3, <1>4, FS_CardinalityType DEF SharedUsed, Reserved

(* The slots lent out fit into what the base slots leave of the account,   *)
(* whenever the policy is one that admits anybody.                         *)
SharesLeft(s, a) ==
  PolicyEnabled /\ Reserved <= MaxConcurrency[a] => SharedUsed(s.members) <= MaxConcurrency[a] - Reserved

SharedWithin == \A a \in Accounts : SharesLeft(st[a], a)

(* Fewer slots held, fewer lent out.                                       *)
LEMMA FewerShares ==
  ASSUME NEW m \in [Users -> Nat], NEW n \in [Users -> Nat], SharedSlots(n) \subseteq SharedSlots(m)
  PROVE  SharedUsed(n) <= SharedUsed(m)
BY SlotsFinite, FS_Subset DEF SharedUsed

(* A state made afresh has lent out nothing.                               *)
LEMMA FreshShares ==
  ASSUME NEW a \in Accounts
  PROVE  SharesLeft(FreshState, a)
<1>1. PICK m \in [Users -> Nat] : m = FreshState.members /\ \A u \in Users : m[u] = 0
  <2>1. FreshState.members = [u \in Users |-> 0]
    BY DEF FreshState
  <2>2. [u \in Users |-> 0] \in [Users -> Nat]
    OBVIOUS
  <2>3. QED
    BY <2>1, <2>2
<1>2. ASSUME NEW p \in SharedSlots(m) PROVE FALSE
  <2>1. PICK u \in Users : p \in {u} \X (Base(u) + 1 .. m[u])
    BY DEF SharedSlots
  <2>2. Base(u) \in Nat /\ m[u] = 0
    BY <1>1, UsersAssumption, LimitsAssumption DEF Base
  <2>3. QED
    BY <2>1, <2>2
<1>3. SharedUsed(m) = 0
  BY <1>2, FS_EmptySet DEF SharedUsed
<1>4. Reserved \in Nat /\ MaxConcurrency[a] \in Nat
  BY <1>1, SlotsFinite, LimitsAssumption
<1>5. QED
  BY <1>1, <1>3, <1>4 DEF SharesLeft

(* An admission below the member's base lends out nothing; one at or above *)
(* it takes one of the slots still left.                                   *)
LEMMA AdmittedShares ==
  ASSUME NEW s \in State, NEW a \in Accounts, NEW now, NEW u \in Callers, SharesLeft(s, a),
         u \in Users => AdmitMember(s, u, MaxConcurrency[a])
  PROVE  SharesLeft(Admitted(s, now, u), a)
<1> SUFFICES ASSUME PolicyEnabled, Reserved <= MaxConcurrency[a], NEW t, t = Admitted(s, now, u)
             PROVE  SharedUsed(t.members) <= MaxConcurrency[a] - Reserved
  BY DEF SharesLeft
<1>1. PICK m \in [Users -> Nat] : m = s.members
  BY DEF State
<1>2. PICK n \in [Users -> Nat] : n = [v \in Users |-> IF v = u THEN m[v] + 1 ELSE m[v]]
  <2>1. [v \in Users |-> IF v = u THEN m[v] + 1 ELSE m[v]] \in [Users -> Nat]
    OBVIOUS
  <2>2. QED
    BY <2>1
<1>3. t.members = n
  BY <1>1, <1>2 DEF Admitted, State
<1>4. SharedUsed(m) <= MaxConcurrency[a] - Reserved
  BY <1>1 DEF SharesLeft
<1>5. SharedUsed(m) \in Nat /\ SharedUsed(n) \in Nat /\ Reserved \in Nat /\ MaxConcurrency[a] \in Nat
  BY SlotsFinite, LimitsAssumption
<1>6. CASE u \notin Users
  <2>1. n = m
    BY <1>2, <1>6
  <2>2. QED
    BY <1>3, <1>4, <2>1
<1>7. CASE u \in Users
  <2>1. u \in Users /\ AdmitMember(s, u, MaxConcurrency[a])
    BY <1>7
  <2>2. m[u] < Base(u) \/ SharedUsed(m) < MaxConcurrency[a] - Reserved
    BY <1>1, <2>1 DEF AdmitMember
  <2>3. Base(u) \in Nat
    BY <2>1, UsersAssumption, LimitsAssumption DEF Base
  <2>4. CASE m[u] < Base(u)
    <3>1. ASSUME NEW p \in SharedSlots(n) PROVE p \in SharedSlots(m)
      <4>1. PICK v \in Users : p \in {v} \X (Base(v) + 1 .. n[v])
        BY DEF SharedSlots
      <4>2. CASE v = u
        BY <1>2, <2>1, <2>3, <2>4, <4>1, <4>2
      <4>3. CASE v # u
        BY <1>2, <4>1, <4>3 DEF SharedSlots
      <4>4. QED
        BY <4>2, <4>3
    <3>2. SharedUsed(n) <= SharedUsed(m)
      BY <3>1, FewerShares
    <3>3. QED
      BY <1>3, <1>4, <1>5, <3>2
  <2>5. CASE SharedUsed(m) < MaxConcurrency[a] - Reserved
    <3>1. PICK S : S = SharedSlots(m) \cup {<<u, m[u] + 1>>}
      OBVIOUS
    <3>2. ASSUME NEW p \in SharedSlots(n) PROVE p \in S
      <4>1. PICK v \in Users : p \in {v} \X (Base(v) + 1 .. n[v])
        BY DEF SharedSlots
      <4>2. PICK k \in Base(v) + 1 .. n[v] : p = <<v, k>>
        BY <4>1
      <4>3. Base(v) \in Nat
        BY UsersAssumption, LimitsAssumption DEF Base
      <4>4. (v = u /\ k = m[u] + 1) \/ k \in Base(v) + 1 .. m[v]
        BY <1>2, <4>3
      <4>5. QED
        BY <3>1, <4>2, <4>4, SlotsMembers
    <3>3. IsFiniteSet(S) /\ Cardinality(S) \in Nat /\ Cardinality(S) <= SharedUsed(m) + 1
      <4>1. IsFiniteSet(SharedSlots(m)) /\ SharedUsed(m) \in Nat
        BY SlotsFinite
      <4>2. PICK T, x : T = SharedSlots(m) /\ x = <<u, m[u] + 1>>
        OBVIOUS
      <4>3. /\ IsFiniteSet(T \cup {x}) /\ Cardinality(T) \in Nat
            /\ Cardinality(T \cup {x}) = IF x \in T THEN Cardinality(T) ELSE Cardinality(T) + 1
        BY <4>1, <4>2, FS_AddElement, FS_CardinalityType
      <4>4. QED
        BY <3>1, <4>2, <4>3 DEF SharedUsed
    <3>4. SharedUsed(n) <= Cardinality(S)
      BY <3>2, <3>3, FS_Subset DEF SharedUsed
    <3>5. QED
      BY <1>3, <1>5, <2>5, <3>3, <3>4
  <2>6. QED
    BY <2>2, <2>4, <2>5
<1>8. QED
  BY <1>6, <1>7

(* A release gives back a slot that was lent out, or none.                 *)
LEMMA ReturnedShares ==
  ASSUME NEW s \in State, NEW a \in Accounts, NEW now, NEW u, NEW committed, SharesLeft(s, a),
         u \in Users => s.members[u] > 0
  PROVE  SharesLeft(Returned(s, now, u, committed), a)
<1>1. PICK m \in [Users -> Nat] : m = s.members
  BY DEF State
<1>2. PICK n \in [Users -> Nat] : n = [v \in Users |-> IF v = u THEN m[v] - 1 ELSE m[v]]
  <2>1. \A v \in Users : v = u => m[v] - 1 \in Nat
    BY <1>1
  <2>2. [v \in Users |-> IF v = u THEN m[v] - 1 ELSE m[v]] \in [Users -> Nat]
    BY <2>1
  <2>3. QED
    BY <2>2
<1>3. PICK t : t = Returned(s, now, u, committed)
  OBVIOUS
<1>4. t.members = n
  BY <1>1, <1>2, <1>3 DEF Returned, State
<1>5. ASSUME NEW p \in SharedSlots(n) PROVE p \in SharedSlots(m)
  <2>1. PICK v \in Users : p \in {v} \X (Base(v) + 1 .. n[v])
    BY DEF SharedSlots
  <2>2. Base(v) \in Nat
    BY UsersAssumption, LimitsAssumption DEF Base
  <2>3. p \in {v} \X (Base(v) + 1 .. m[v])
    BY <1>2, <2>1, <2>2
  <2>4. QED
    BY <2>3 DEF SharedSlots
<1>6. SharedUsed(n) <= SharedUsed(m)
  BY <1>5, FewerShares
<1>7. SharedUsed(m) \in Nat /\ SharedUsed(n) \in Nat /\ Reserved \in Nat /\ MaxConcurrency[a] \in Nat
  BY SlotsFinite, LimitsAssumption
<1>8. SharesLeft(t, a)
  BY <1>1, <1>4, <1>6, <1>7 DEF SharesLeft
<1>9. QED
  BY <1>3, <1>8

(* A state with the same member counts has lent out the same slots.        *)
LEMMA SameShares ==
  ASSUME NEW s, NEW t, NEW a, t.members = s.members, SharesLeft(s, a)
  PROVE  SharesLeft(t, a)
BY DEF SharesLeft

(* Every step keeps the slots lent out within what the base slots leave.   *)
LEMMA SharedStep ==
  ASSUME TrafficInv, SharedWithin, [Next]_vars
  PROVE  SharedWithin'
<1>1. st \in [Accounts -> State] /\ \A a \in Accounts : SharesLeft(st[a], a)
  BY DEF TrafficInv, TypeOK, SharedWithin
<1> SUFFICES ASSUME NEW a \in Accounts PROVE SharesLeft(st'[a], a)
  BY DEF SharedWithin, SharesLeft
<1>2. ASSUME NEW r \in Requests, Prepare(r) PROVE SharesLeft(st'[a], a)
  <2>1. PICK b \in Accounts, now \in Minutes, u \in Callers :
          b = req[r].acct /\ now = req[r].now /\ u = req[r].user
    BY DEF TrafficInv, TypeOK, Request
  <2>2. PICK kept \in [Accounts -> State] : kept = Cleaned(now)
    BY CleanedCounts DEF TrafficInv
  <2>3. \A c \in Accounts : SharesLeft(kept[c], c)
    BY <1>1, <2>2, FreshShares DEF Cleaned
  <2>4. Counted(r) \in BOOLEAN
    BY DEF Counted
  <2>5. PICK seen : seen = Seen(kept[b], now, Counted(r))
    OBVIOUS
  <2>6. seen \in State /\ SharesLeft(seen, b)
    <3>1. kept[b] \in State /\ CountsInFlight(kept[b], b)
      BY <2>2, CleanedCounts DEF TrafficInv
    <3>2. seen \in State
      BY <2>4, <2>5, <3>1, SeenCounts
    <3>3. seen.members = kept[b].members
      BY <2>5, <3>1 DEF Seen, State
    <3>4. QED
      BY <2>3, <3>2, <3>3, SameShares
  <2>7. \/ st' = kept
        \/ st' = [kept EXCEPT ![b] = seen]
        \/ Admissible(r, seen) /\ st' = [kept EXCEPT ![b] = Admitted(seen, now, u)]
    BY <1>2, <2>1, <2>2, <2>5, Zenon DEF Prepare
  <2>8. CASE Admissible(r, seen) /\ st' = [kept EXCEPT ![b] = Admitted(seen, now, u)]
    <3>1. u \in Users => AdmitMember(seen, u, MaxConcurrency[b])
      BY <2>1, <2>8 DEF Admissible
    <3>2. SharesLeft(Admitted(seen, now, u), b)
      BY <2>6, <3>1, AdmittedShares
    <3>3. QED
      BY <2>2, <2>3, <2>8, <3>2
  <2>9. QED
    BY <2>2, <2>3, <2>6, <2>7, <2>8
<1>3. ASSUME NEW r \in Requests, Commit(r) PROVE SharesLeft(st'[a], a)
  <2>1. st'[a] = IF a = req[r].acct THEN Settled(st[a], req[r].now) ELSE st[a]
    BY <1>1, <1>3 DEF Commit
  <2>2. st'[a].members = st[a].members
    BY <1>1, <2>1 DEF Settled, State
  <2>3. QED
    BY <1>1, <2>2, SameShares
<1>4. ASSUME NEW r \in Requests, Release(r) PROVE SharesLeft(st'[a], a)
  <2>1. st'[a] = IF a = req[r].acct
                 THEN Returned(st[a], req[r].now, req[r].user, req[r].pc = "committed") ELSE st[a]
    BY <1>1, <1>4 DEF Release
  <2>2. ASSUME a = req[r].acct, req[r].user \in Users PROVE st[a].members[req[r].user] > 0
    <3>1. PICK u \in Users : u = req[r].user
      BY <2>2
    <3>2. r \in InFlightOf(a, u)
      BY <1>4, <2>2, <3>1 DEF Release, InFlight, InFlightOf
    <3>3. Cardinality(InFlightOf(a, u)) # 0 /\ Cardinality(InFlightOf(a, u)) \in Nat
      BY <3>2, InFlightFinite, FS_EmptySet
    <3>4. st[a].members[u] = Cardinality(InFlightOf(a, u))
      BY DEF TrafficInv, CountersExact, CountsInFlight
    <3>5. QED
      BY <3>1, <3>3, <3>4
  <2>3. QED
    BY <1>1, <2>1, <2>2, ReturnedShares
<1>5. ASSUME NEW b, st'[a] = [st[a] EXCEPT !.quiescing = b] PROVE SharesLeft(st'[a], a)
  <2>1. st'[a].members = st[a].members
    BY <1>1, <1>5 DEF State
  <2>2. QED
    BY <1>1, <2>1, SameShares
<1>6. ASSUME NEW ids, st' = Reopened(ids) PROVE SharesLeft(st'[a], a)
  BY <1>5, <1>6 DEF Reopened
<1>7. ASSUME NEW q \in Quiescers, QuiesceAcquire(q) PROVE SharesLeft(st'[a], a)
  <2>1. st'[a] = st[a] \/ st'[a] = [st[a] EXCEPT !.quiescing = TRUE]
    BY <1>1, <1>7 DEF QuiesceAcquire
  <2>2. QED
    BY <1>1, <1>5, <2>1
<1>8. CASE UNCHANGED st
  BY <1>1, <1>8
<1>9. QED
  BY <1>2, <1>3, <1>4, <1>6, <1>7, <1>8
  DEF Next, RequestStep, QuiesceStep, Arrive, QuiesceStart, QuiesceDrained, QuiesceCancel, QuiesceCancelOwn,
      QuiesceRelease, QuiesceReleaseTo, Tick, Finished, vars

(* Every member's request in flight occupies a slot of its user (map the   *)
(* k-th slot of a user to its k-th request), so an account serves no more  *)
(* requests of members than slots are held.                                *)
LEMMA ActiveHeld ==
  ASSUME TrafficInv, NEW a \in Accounts, NEW m \in [Users -> Nat],
         m = st[a].members
  PROVE  /\ Cardinality(MembersInFlight(a)) \in Nat
         /\ Cardinality(MembersInFlight(a)) <= Cardinality(HeldSlots(m))
<1> DEFINE Counts(u) == Bijection(1 .. m[u], InFlightOf(a, u))
<1>1. ASSUME NEW u \in Users PROVE \E g : g \in Counts(u)
  <2>1. IsFiniteSet(InFlightOf(a, u)) /\ IsFiniteSet(1 .. m[u]) /\ Cardinality(1 .. m[u]) = m[u]
    <3>1. 1 \in Int /\ m[u] \in Int /\ m[u] >= 0
      OBVIOUS
    <3>2. IsFiniteSet(1 .. m[u]) /\ Cardinality(1 .. m[u]) = IF 1 > m[u] THEN 0 ELSE m[u] - 1 + 1
      BY ONLY <3>1, FS_Interval
    <3>3. IsFiniteSet(1 .. m[u]) /\ Cardinality(1 .. m[u]) = m[u]
      BY ONLY <3>1, <3>2
    <3>4. QED
      BY <3>3, InFlightFinite
  <2>2. Cardinality(InFlightOf(a, u)) = m[u]
    BY DEF TrafficInv, CountersExact, CountsInFlight
  <2>3. ExistsBijection(1 .. m[u], InFlightOf(a, u))
    BY <2>1, <2>2, FS_SameCardinalityBij
  <2>4. QED
    BY <2>3 DEF ExistsBijection
<1>2. PICK f : f = [u \in Users |-> CHOOSE g : g \in Counts(u)]
  OBVIOUS
<1>3. ASSUME NEW u \in Users
      PROVE  /\ \A k \in 1 .. m[u] : f[u][k] \in InFlightOf(a, u)
             /\ \A r \in InFlightOf(a, u) : \E k \in 1 .. m[u] : f[u][k] = r
  <2>1. f[u] \in Counts(u)
    BY <1>1, <1>2
  <2>2. QED
    BY <2>1 DEF Bijection, Injection, Surjection, IsInjective
<1>4. PICK h : h = [p \in HeldSlots(m) |-> f[p[1]][p[2]]]
  OBVIOUS
<1>5. h \in Surjection(HeldSlots(m), MembersInFlight(a))
  <2>1. ASSUME NEW p \in HeldSlots(m) PROVE h[p] \in MembersInFlight(a)
    <3>1. p[1] \in Users /\ p[2] \in 1 .. m[p[1]]
      BY SlotsMembers, SlotsPairs
    <3>2. QED
      BY <1>3, <1>4, <3>1 DEF InFlightOf, MembersInFlight
  <2>2. ASSUME NEW r \in MembersInFlight(a) PROVE \E p \in HeldSlots(m) : h[p] = r
    <3>1. PICK u \in Users : u = req[r].user
      BY DEF MembersInFlight
    <3>2. r \in InFlightOf(a, u)
      BY <3>1 DEF InFlightOf, MembersInFlight
    <3>3. PICK k \in 1 .. m[u] : f[u][k] = r
      BY <1>3, <3>2
    <3>4. <<u, k>> \in HeldSlots(m)
      BY SlotsMembers
    <3>5. h[<<u, k>>] = r
      BY <1>4, <3>3, <3>4
    <3>6. QED
      BY <3>4, <3>5
  <2>3. h \in [HeldSlots(m) -> MembersInFlight(a)]
    BY <1>4, <2>1
  <2>4. QED
    BY <2>2, <2>3 DEF Surjection
<1>6. QED
  BY <1>5, SlotsFinite, FS_Surjection, FS_CardinalityType

(* A member below its base leaves one of its base slots unused; the slots  *)
(* held are base slots or slots lent out, and together they are fewer than *)
(* the account has.                                                        *)
LEMMA BaseSlotFree ==
  ASSUME TrafficInv, SharedWithin
  PROVE  BaseSlotGuaranteed
<1> SUFFICES ASSUME NEW a \in Accounts, NEW u \in PolicyMembers, PolicyEnabled,
                    Reserved <= MaxConcurrency[a],
                    st[a].members[u] < BaseLimit[u]
             PROVE  Cardinality(MembersInFlight(a)) < MaxConcurrency[a]
  BY DEF BaseSlotGuaranteed
<1>1. PICK m \in [Users -> Nat] : m = st[a].members
  BY DEF TrafficInv, TypeOK, State
<1>2. u \in Users /\ BaseLimit[u] \in Nat /\ m[u] < BaseLimit[u]
  BY <1>1, UsersAssumption, LimitsAssumption
<1>3. PICK below, x : below = HeldSlots(m) \ SharedSlots(m) /\ x = <<u, BaseLimit[u]>>
  OBVIOUS
<1>4. ASSUME NEW p \in below PROVE p \in ReservedSlots /\ p # x
  <2>1. PICK v, k : p = <<v, k>> /\ <<v, k>> \in HeldSlots(m) /\ <<v, k>> \notin SharedSlots(m)
    BY <1>3, SlotsPairs
  <2>2. v \in Users /\ k \in 1 .. m[v] /\ ~(k \in Base(v) + 1 .. m[v])
    BY <2>1, SlotsMembers
  <2>3. Base(v) \in Nat /\ (v \notin PolicyMembers => Base(v) = 0)
        /\ (v \in PolicyMembers => Base(v) = BaseLimit[v])
    BY <2>2, UsersAssumption, LimitsAssumption DEF Base
  <2>4. v \in PolicyMembers /\ k \in 1 .. BaseLimit[v]
    BY <2>2, <2>3
  <2>5. p \in ReservedSlots
    BY <2>1, <2>4, SlotsMembers
  <2>6. p # x
    BY <1>2, <1>3, <2>1, <2>2
  <2>7. QED
    BY <2>5, <2>6
<1>5. x \in ReservedSlots
  <2>1. BaseLimit[u] \in 1 .. BaseLimit[u]
    BY <1>2
  <2>2. QED
    BY <1>1, <1>3, <2>1, SlotsMembers
<1>6. /\ IsFiniteSet(HeldSlots(m)) /\ IsFiniteSet(SharedSlots(m)) /\ IsFiniteSet(ReservedSlots)
      /\ SharedUsed(m) \in Nat /\ Reserved \in Nat
  BY SlotsFinite
<1>7. PICK rest : rest = ReservedSlots \ {x}
  OBVIOUS
<1>8. IsFiniteSet(rest) /\ Cardinality(rest) = Reserved - 1
  BY <1>5, <1>6, <1>7, FS_RemoveElement DEF Reserved
<1>9. IsFiniteSet(below) /\ Cardinality(below) \in Nat /\ Cardinality(below) <= Reserved - 1
  <2>1. below \in SUBSET rest
    BY <1>4, <1>7
  <2>2. IsFiniteSet(below) /\ Cardinality(below) <= Cardinality(rest)
    BY <1>8, <2>1, FS_Subset
  <2>3. QED
    BY <1>8, <2>2, FS_CardinalityType
<1>10. SharedUsed(m) <= MaxConcurrency[a] - Reserved
  BY <1>1 DEF SharedWithin, SharesLeft
<1>11. PICK shared : shared = SharedSlots(m)
  OBVIOUS
<1>12. Cardinality(HeldSlots(m)) <= Cardinality(below) + SharedUsed(m)
  <2>1. HeldSlots(m) \subseteq below \cup shared
    BY <1>3, <1>11
  <2>2. /\ IsFiniteSet(below \cup shared)
        /\ Cardinality(below \cup shared) = Cardinality(below) + Cardinality(shared) - Cardinality(below \cap shared)
    BY <1>6, <1>9, <1>11, FS_Union
  <2>3. below \cap shared = {}
    BY <1>3, <1>11
  <2>4. Cardinality(below \cap shared) = 0
    BY <2>3, FS_EmptySet
  <2>5. Cardinality(HeldSlots(m)) <= Cardinality(below \cup shared)
    BY <2>1, <2>2, FS_Subset
  <2>6. Cardinality(shared) = SharedUsed(m)
    BY <1>11 DEF SharedUsed
  <2>7. Cardinality(HeldSlots(m)) \in Nat
    BY SlotsFinite
  <2>8. QED
    BY <1>6, <1>9, <2>2, <2>4, <2>5, <2>6, <2>7
<1>13. /\ Cardinality(MembersInFlight(a)) \in Nat
       /\ Cardinality(MembersInFlight(a)) <= Cardinality(HeldSlots(m))
  BY <1>1, ActiveHeld
<1>14. MaxConcurrency[a] \in Nat /\ Cardinality(HeldSlots(m)) \in Nat
  BY SlotsFinite, LimitsAssumption
<1>15. QED
  BY <1>6, <1>9, <1>10, <1>12, <1>13, <1>14

(* admitMemberConcurrency: base slots are never lent to another member.    *)
(* The members' requests leave a slot to a member below its base limit,    *)
(* whatever probes run beside them, for any number of members, base        *)
(* limits, personal ceilings and accounts.                                 *)
THEOREM BaseSlotAlwaysGuaranteed == Spec => []BaseSlotGuaranteed
<1>1. Init => SharedWithin
  BY FreshShares DEF Init, SharedWithin
<1>2. TrafficInv /\ SharedWithin => BaseSlotGuaranteed
  BY BaseSlotFree
<1>3. QED
  BY <1>1, <1>2, TrafficInvariant, SharedStep, PTL DEF Spec
=============================================================================
