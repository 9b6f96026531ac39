------------------------- MODULE PlanBindingProofs -------------------------
(***************************************************************************)
(* Proofs about the operations that read and change plan bindings, on top  *)
(* of those about the traffic controller, for any plans, accounts,         *)
(* requests and operations.                                                *)
(***************************************************************************)
EXTENDS PlanBinding, AccountTrafficProofs

PlanRows ==
  [status : {"absent", "active", "archived", "deleted"}, acct : Accounts \cup {Unbound}, gen : 0 .. MaxGeneration]

SeenBindings == [acct : Accounts \cup {Unbound}, gen : 0 .. MaxGeneration]

OpRows ==
  [stage : {"idle", "reading", "quiescing", "section", "committed", "ended"},
   kind : {"none", "create", "rebind", "delete", "reset", "voted"}, plan : Plans,
   target : Accounts \cup {Unbound}, seen : SeenBindings]

RouteRows == [plan : Plans, gen : 0 .. MaxGeneration, checked : BOOLEAN]

(* What an operation has to hold in its section.                           *)
Wanted(q) == {op[q].seen.acct, op[q].target} \ {Unbound}

(* Where an operation is in the controller at each of its stages; it has   *)
(* locked, or still wants, exactly the accounts of the binding it read and *)
(* of its target, and wants none any more once it holds them.              *)
StageOK(q) ==
  /\ op[q].stage \in {"idle", "reading"} => qpc[q] = "idle"
  /\ op[q].stage \in {"section", "committed"} => qpc[q] = "holding"
  /\ op[q].stage = "quiescing" =>
       qpc[q] \in {"acquire", "draining", "blocked", "woken", "cancelling", "holding"}
  /\ qpc[q] = "holding" => qwant[q] = {}
  /\ op[q].stage \in {"quiescing", "section", "committed"} /\ qpc[q] # "cancelling" =>
       qlocked[q] \cup qwant[q] = Wanted(q)

StageInv == \A q \in Quiescers : StageOK(q)

(* A probe compares its route only once it is admitted, with a plan that   *)
(* has been created.                                                       *)
ProbeInv ==
  \A r \in Requests :
    /\ req[r].pc = "ready" => ~route[r].checked
    /\ route[r].checked => plan[route[r].plan].status # "absent"

(* The inductive invariant.                                                *)
BindingInv == TrafficInv /\ BindingTypeOK /\ StageInv /\ AccountBoundOnce /\ ProbeInv

LEMMA RowTypes ==
  BindingTypeOK <=> /\ TypeOK
                    /\ plan \in [Plans -> PlanRows]
                    /\ op \in [Quiescers -> OpRows]
                    /\ route \in [Requests -> RouteRows]
BY DEF BindingTypeOK, PlanRows, OpRows, SeenBindings, RouteRows

-----------------------------------------------------------------------------
(* The controller under the operations                                     *)

(* An operation that opens what it holds, to end or to quiesce again.      *)
LEMMA ReleaseToTraffic ==
  ASSUME TrafficInv, NEW q \in Quiescers, NEW pc \in {"idle", "done"}, QuiesceReleaseTo(q, pc)
  PROVE  TrafficInv'
<1>1. /\ TypeOK /\ CountersExact /\ QuiesceShape /\ QuiesceFlagOwned /\ DrainedExclusive
      /\ qpc \in [Quiescers -> QuiesceStates] /\ qwant \in [Quiescers -> SUBSET Accounts]
      /\ qlocked \in [Quiescers -> SUBSET Accounts]
  BY DEF TrafficInv, TypeOK
<1>2. /\ qpc[q] = "holding" /\ st' = Reopened(qlocked[q])
      /\ qlocked' = [qlocked EXCEPT ![q] = {}] /\ qpc' = [Woken(qpc) EXCEPT ![q] = pc]
      /\ UNCHANGED <<minute, nextCleanup, req, qwant>>
  BY DEF QuiesceReleaseTo
<1>3. PICK flag \in [Accounts -> BOOLEAN] :
        /\ st' = [a \in Accounts |-> [st[a] EXCEPT !.quiescing = flag[a]]]
        /\ \A a \in Accounts : flag[a] <=> st[a].quiescing /\ a \notin qlocked[q]
  BY <1>1, <1>2, ReopenedFlags
<1>4. st' \in [Accounts -> State] /\ CountersExact'
  BY <1>1, <1>2, <1>3, FlaggedCounts
<1>5. TypeOK'
  BY <1>1, <1>2, <1>4, WokenType DEF TypeOK, QuiesceStates
<1>6. QuiesceShape'
  BY <1>1, <1>2 DEF QuiesceShape, Woken
<1>7. QuiesceFlagOwned'
  <2>1. Closed(q) = qlocked[q] /\ Closed(q)' = {}
    BY <1>1, <1>2 DEF Closed, Woken
  <2>2. \A p \in Quiescers : p # q => Closed(p)' = Closed(p)
    BY <1>1, <1>2 DEF Closed, NextId, Woken
  <2>3. \A p \in Quiescers : Closed(p) \subseteq Accounts
    BY <1>1, NextIdWanted DEF Closed
  <2>4. \A a \in Accounts : st'[a].quiescing = flag[a]
    BY <1>1, <1>3 DEF TypeOK, State
  <2>5. PICK new : new = {}
    OBVIOUS
  <2>6. \A a \in Accounts : st'[a].quiescing <=> a \in new \/ (st[a].quiescing /\ a \notin Closed(q))
    BY <1>3, <2>1, <2>4, <2>5
  <2>7. QED
    BY <1>1, <2>1, <2>2, <2>3, <2>5, <2>6, OwnerStep
<1>8. DrainedExclusive'
  BY <1>1, <1>2 DEF DrainedExclusive, InFlight
<1>9. QED
  BY <1>4, <1>5, <1>6, <1>7, <1>8 DEF TrafficInv

(* An operation that ends before it has quiesced anything.                 *)
LEMMA GiveUpTraffic ==
  ASSUME TrafficInv, NEW q \in Quiescers, qpc[q] = "idle", qpc' = [qpc EXCEPT ![q] = "done"],
         UNCHANGED <<minute, st, nextCleanup, req, qwant, qlocked>>
  PROVE  TrafficInv'
<1>1. TypeOK'
  BY DEF TrafficInv, TypeOK, QuiesceStates
<1>2. CountersExact'
  BY SameStateCounts DEF TrafficInv
<1>3. QuiesceShape'
  BY DEF TrafficInv, TypeOK, QuiesceShape
<1>4. QuiesceFlagOwned'
  <2>1. \A p \in Quiescers : Closed(p)' = Closed(p)
    BY DEF TrafficInv, TypeOK, Closed, NextId
  <2>2. QED
    BY <2>1 DEF TrafficInv, QuiesceFlagOwned
<1>5. DrainedExclusive'
  BY DEF TrafficInv, DrainedExclusive, InFlight
<1>6. QED
  BY <1>1, <1>2, <1>3, <1>4, <1>5 DEF TrafficInv

(* Steps of the controller itself.                                         *)
LEMMA NextTraffic ==
  ASSUME TrafficInv, [Next]_vars
  PROVE  TrafficInv'
BY CountsStep, ShapeStep, FlagStep, DrainedStep DEF TrafficInv

(* What the operations do to the controller, beside steps of its own: one  *)
(* that reads again keeps its goroutine for another quiesce, and one that  *)
(* finds nothing ends without any.                                         *)
GivesUp(q) ==
  /\ qpc[q] = "idle" /\ qpc' = [qpc EXCEPT ![q] = "done"]
  /\ UNCHANGED <<minute, st, nextCleanup, req, qwant, qlocked>>

LEMMA ControllerMoves ==
  ASSUME BindingInv, [BindingNext]_bindingVars
  PROVE  [Next]_vars \/ \E q \in Quiescers : QuiesceReleaseTo(q, "idle") \/ GivesUp(q)
<1>1. plan \in [Plans -> PlanRows] /\ op \in [Quiescers -> OpRows]
  BY RowTypes DEF BindingInv
<1>2. ASSUME NEW r \in Requests, NEW p \in Plans, NEW u \in Users \cup {Probe}, ReadRoute(r, p, u)
      PROVE  Next
  <2>1. plan[p].acct \in Accounts /\ Arrive(r, plan[p].acct, u)
    BY <1>1, <1>2 DEF ReadRoute, PlanRows
  <2>2. QED
    BY <2>1 DEF Next, Callers
<1>11. ASSUME NEW r \in Requests, NEW a \in Accounts, ReadAccount(r, a) PROVE Next
  BY <1>11 DEF ReadAccount, Next, Callers
<1>3. ASSUME NEW r \in Requests, RequestRuns(r) \/ ProbeConflict(r) PROVE Next
  <2>1. RequestStep(r)
    BY <1>3 DEF RequestRuns, ProbeConflict, RequestStep
  <2>2. QED
    BY <2>1 DEF Next
<1>4. ASSUME NEW q \in Quiescers, NEW ids \in SUBSET Accounts, QuiesceStart(q, ids) PROVE Next
  BY <1>4 DEF Next
<1>5. ASSUME NEW q \in Quiescers, NEW p \in Plans, NEW a \in CreateWith, CreateStart(q, p, a)
      PROVE  Next
  <2>1. {a} \ {Unbound} \in SUBSET Accounts
    BY PlansAssumption
  <2>2. QED
    BY <1>4, <1>5, <2>1 DEF CreateStart
<1>6. ASSUME NEW q \in Quiescers, ReadBinding(q) PROVE Next \/ GivesUp(q)
  <2>1. CASE Findable(q)
    <3>1. {plan[op[q].plan].acct, op[q].target} \ {Unbound} \in SUBSET Accounts
      BY <1>1 DEF PlanRows, OpRows
    <3>2. QuiesceStart(q, {plan[op[q].plan].acct, op[q].target} \ {Unbound})
      BY <1>6, <2>1, Zenon DEF ReadBinding
    <3>3. QED
      BY <1>4, <3>1, <3>2
  <2>2. CASE ~Findable(q)
    <3>1. qpc[q] = "idle"
      BY <1>6 DEF ReadBinding, BindingInv, StageInv, StageOK
    <3>2. /\ qpc' = [qpc EXCEPT ![q] = "done"]
          /\ UNCHANGED <<minute, st, nextCleanup, req, qwant, qlocked>>
      BY <1>6, <2>2, Zenon DEF ReadBinding
    <3>3. QED
      BY <3>1, <3>2, Zenon DEF GivesUp
  <2>3. QED
    BY <2>1, <2>2
<1>7. ASSUME NEW q \in Quiescers, Quiescing(q) PROVE Next
  <2>1. QuiesceStep(q) \/ QuiesceCancel(q)
    BY <1>7 DEF Quiescing, QuiesceStep
  <2>2. QED
    BY <2>1 DEF Next
<1>8. ASSUME NEW q \in Quiescers, VerifyBinding(q)
      PROVE  [Next]_vars \/ QuiesceReleaseTo(q, "idle")
  <2>1. UNCHANGED vars \/ QuiesceReleaseTo(q, "idle") \/ QuiesceRelease(q)
    BY <1>8, Zenon DEF VerifyBinding
  <2>2. QED
    BY <2>1, Zenon DEF Next, QuiesceStep
<1>9. ASSUME NEW q \in Quiescers, SectionEnd(q) PROVE Next
  BY <1>9, Zenon DEF SectionEnd, Next, QuiesceStep
<1>10. QED
  BY <1>2, <1>3, <1>5, <1>6, <1>7, <1>8, <1>9, <1>11
  DEF BindingNext, ProbeRecheck, OpStart, SectionCommit, UpdatePlanStatus, bindingVars

(* Every step of the operations keeps the controller's invariant.          *)
LEMMA BindingTraffic ==
  ASSUME BindingInv, [BindingNext]_bindingVars
  PROVE  TrafficInv'
<1>1. TrafficInv
  BY DEF BindingInv
<1>2. CASE [Next]_vars
  BY <1>1, <1>2, NextTraffic
<1>3. ASSUME NEW q \in Quiescers, QuiesceReleaseTo(q, "idle") PROVE TrafficInv'
  BY <1>1, <1>3, ReleaseToTraffic
<1>4. ASSUME NEW q \in Quiescers, GivesUp(q) PROVE TrafficInv'
  BY <1>1, <1>4, GiveUpTraffic DEF GivesUp
<1>5. QED
  BY <1>2, <1>3, <1>4, ControllerMoves

-----------------------------------------------------------------------------
(* The stages                                                              *)

(* The record of an operation that is not there, and of one that starts.   *)
LEMMA NoOpRow ==
  ASSUME NEW s \in {"idle", "reading", "quiescing", "ended"}
  PROVE  /\ NoOp(s) \in OpRows /\ NoOp(s).stage = s /\ NoOp(s).target = Unbound
         /\ NoOp(s).seen.acct = Unbound
<1>1. (CHOOSE p \in Plans : TRUE) \in Plans
  BY PlansAssumption
<1>2. QED
  BY <1>1, PlansAssumption DEF NoOp, OpRows, SeenBindings

Started(s, kind, p, a) == [NoOp(s) EXCEPT !.kind = kind, !.plan = p, !.target = a]

LEMMA StartedOp ==
  ASSUME NEW s \in {"reading", "quiescing"}, NEW kind \in {"create", "rebind", "delete", "reset", "voted"},
         NEW p \in Plans, NEW a \in Accounts \cup {Unbound}
  PROVE  /\ Started(s, kind, p, a) \in OpRows
         /\ Started(s, kind, p, a).stage = s
         /\ Started(s, kind, p, a).target = a
         /\ Started(s, kind, p, a).seen.acct = Unbound
<1>1. PICK y \in OpRows : y = NoOp(s) /\ y.stage = s /\ y.seen.acct = Unbound
  BY NoOpRow
<1>2. Started(s, kind, p, a) = [y EXCEPT !.kind = kind, !.plan = p, !.target = a]
  BY <1>1, Zenon DEF Started
<1>3. QED
  BY <1>1, <1>2 DEF OpRows

(* An operation that does nothing is at most woken.                        *)
Moved(p) ==
  /\ qwant'[p] = qwant[p] /\ qlocked'[p] = qlocked[p]
  /\ qpc'[p] = qpc[p] \/ (qpc[p] = "blocked" /\ qpc'[p] = "woken")

LEMMA RequestMoves ==
  ASSUME TypeOK, NEW r \in Requests, RequestStep(r), NEW p \in Quiescers
  PROVE  Moved(p)
BY DEF RequestStep, Prepare, Commit, Release, quiesceVars, Woken, TypeOK, Moved

LEMMA QuiesceMoves ==
  ASSUME TypeOK, NEW q \in Quiescers, NEW ids, NEW pc,
         \/ QuiesceStart(q, ids) \/ QuiesceAcquire(q) \/ QuiesceDrained(q) \/ QuiesceCancelOwn(q)
         \/ QuiesceCancel(q) \/ QuiesceReleaseTo(q, pc),
         NEW p \in Quiescers, p # q
  PROVE  Moved(p)
BY DEF QuiesceStart, QuiesceAcquire, QuiesceDrained, QuiesceCancelOwn, QuiesceCancel, QuiesceReleaseTo, Woken,
       TypeOK, Moved

LEMMA MovedStage ==
  ASSUME NEW p \in Quiescers, StageOK(p), op'[p] = op[p], Moved(p)
  PROVE  StageOK(p)'
BY DEF StageOK, Moved, Wanted

(* The stage of the operation q that moves.                                *)
LEMMA StartStage ==
  ASSUME TypeOK, NEW q \in Quiescers, NEW ids, QuiesceStart(q, ids), op'[q].stage = "quiescing",
         ids = {op'[q].seen.acct, op'[q].target} \ {Unbound}
  PROVE  StageOK(q)'
BY DEF QuiesceStart, TypeOK, StageOK, Wanted

LEMMA QuiescingStage ==
  ASSUME TrafficInv, NEW q \in Quiescers, StageOK(q), Quiescing(q), op \in [Quiescers -> OpRows]
  PROVE  StageOK(q)'
<1>1. /\ op[q].stage = "quiescing"
      /\ op'[q] = IF qpc'[q] = "done" THEN NoOp("ended") ELSE op[q]
  BY DEF Quiescing
<1>2. /\ qpc \in [Quiescers -> QuiesceStates] /\ qwant \in [Quiescers -> SUBSET Accounts]
      /\ qlocked \in [Quiescers -> SUBSET Accounts] /\ TypeOK /\ QuiesceShape
  BY DEF TrafficInv, TypeOK
<1>3. CASE qpc'[q] = "done"
  <2>1. op'[q].stage = "ended"
    BY <1>1, <1>3, NoOpRow
  <2>2. QED
    BY <1>3, <2>1 DEF StageOK
<1>4. CASE qpc'[q] # "done"
  <2>1. op'[q] = op[q]
    BY <1>1, <1>4
  <2>2. CASE QuiesceAcquire(q)
    BY <1>1, <1>2, <2>1, <2>2 DEF QuiesceAcquire, StageOK, Wanted, Woken
  <2>3. CASE QuiesceDrained(q)
    <3>1. NextId(q) \in qwant[q]
      BY <1>2, <2>3, NextIdWanted DEF QuiesceDrained
    <3>2. QED
      BY <1>1, <1>2, <2>1, <2>3, <3>1 DEF QuiesceDrained, StageOK, Wanted
  <2>4. CASE QuiesceCancel(q)
    <3>1. qpc'[q] = "cancelling"
      BY <1>2, <1>4, <2>4 DEF QuiesceCancel, Woken
    <3>2. QED
      BY <1>1, <2>1, <3>1 DEF StageOK
  <2>5. CASE QuiesceCancelOwn(q)
    BY <1>2, <1>4, <2>5 DEF QuiesceCancelOwn, Woken
  <2>6. QED
    BY <2>2, <2>3, <2>4, <2>5 DEF Quiescing
<1>5. QED
  BY <1>3, <1>4

LEMMA ReleasedStage ==
  ASSUME TypeOK, NEW q \in Quiescers, NEW pc, QuiesceReleaseTo(q, pc),
         \/ pc = "idle" /\ op'[q].stage = "reading"
         \/ pc = "done" /\ op'[q].stage = "ended"
  PROVE  StageOK(q)'
<1>1. qpc'[q] = pc
  BY DEF QuiesceReleaseTo, TypeOK, Woken
<1>2. QED
  BY <1>1 DEF StageOK

(* Every step keeps every operation's stage and its record well-typed.     *)
LEMMA StageStep ==
  ASSUME BindingInv, [BindingNext]_bindingVars
  PROVE  op' \in [Quiescers -> OpRows] /\ StageInv'
<1>1. /\ TypeOK /\ TrafficInv /\ plan \in [Plans -> PlanRows] /\ op \in [Quiescers -> OpRows]
      /\ \A p \in Quiescers : StageOK(p)
  BY RowTypes DEF BindingInv, StageInv
<1> DEFINE Kept == op' \in [Quiescers -> OpRows] /\ StageInv'
<1>2. ASSUME UNCHANGED op, \A p \in Quiescers : Moved(p) PROVE Kept
  BY <1>1, <1>2, MovedStage DEF StageInv
<1>3. ASSUME NEW q \in Quiescers, NEW x \in OpRows, op' = [op EXCEPT ![q] = x],
             \A p \in Quiescers : p # q => Moved(p), StageOK(q)'
      PROVE  Kept
  <2>1. ASSUME NEW p \in Quiescers PROVE StageOK(p)'
    <3>1. CASE p = q
      BY <1>3, <3>1
    <3>2. CASE p # q
      BY <1>1, <1>3, <3>2, MovedStage
    <3>3. QED
      BY <3>1, <3>2
  <2>2. QED
    BY <1>1, <1>3, <2>1 DEF StageInv
<1>4. ASSUME NEW r \in Requests, RequestRuns(r) \/ ProbeConflict(r) PROVE Kept
  <2>1. RequestStep(r) /\ UNCHANGED op
    BY <1>4 DEF RequestRuns, ProbeConflict, RequestStep
  <2>2. QED
    BY <1>1, <1>2, <2>1, RequestMoves
<1>5. CASE UNCHANGED <<op, quiesceVars>>
  BY <1>2, <1>5 DEF Moved, quiesceVars
<1>6. ASSUME NEW q \in Quiescers, NEW p \in Plans, NEW a \in CreateWith, CreateStart(q, p, a)
      PROVE  Kept
  <2>1. PICK x : x = Started("quiescing", "create", p, a)
    OBVIOUS
  <2>2. x \in OpRows /\ x.stage = "quiescing" /\ x.target = a /\ x.seen.acct = Unbound
    BY <2>1, StartedOp, PlansAssumption
  <2>3. op' = [op EXCEPT ![q] = x] /\ QuiesceStart(q, {a} \ {Unbound})
    BY <1>6, <2>1, Zenon DEF CreateStart, Started
  <2>4. op'[q] = x
    BY <1>1, <2>3
  <2>5. StageOK(q)'
    BY <1>1, <2>2, <2>3, <2>4, StartStage
  <2>6. \A o \in Quiescers : o # q => Moved(o)
    BY <1>1, <2>3, QuiesceMoves
  <2>7. QED
    BY <1>3, <2>2, <2>3, <2>5, <2>6
<1>7. ASSUME NEW q \in Quiescers, NEW kind \in {"rebind", "delete", "reset", "voted"}, NEW p \in Plans,
             NEW a \in Accounts \cup {Unbound}, OpStart(q, kind, p, a)
      PROVE  Kept
  <2>1. PICK x : x = Started("reading", kind, p, a)
    OBVIOUS
  <2>2. x \in OpRows /\ x.stage = "reading"
    BY <2>1, StartedOp
  <2>3. op[q].stage = "idle" /\ op' = [op EXCEPT ![q] = x] /\ UNCHANGED <<qpc, qwant, qlocked>>
    BY <1>7, <2>1, Zenon DEF OpStart, Started, vars
  <2>4. StageOK(q)'
    BY <1>1, <2>2, <2>3 DEF StageOK
  <2>5. QED
    BY <1>3, <2>2, <2>3, <2>4 DEF Moved
<1>8. ASSUME NEW q \in Quiescers, ReadBinding(q) PROVE Kept
  <2>1. CASE Findable(q)
    <3>1. PICK b : b = Binding(op[q].plan)
      OBVIOUS
    <3>2. b \in SeenBindings /\ b.acct = plan[op[q].plan].acct
      BY <1>1, <3>1 DEF Binding, PlanRows, OpRows, SeenBindings
    <3>3. PICK x : x = [op[q] EXCEPT !.stage = "quiescing", !.seen = b]
      OBVIOUS
    <3>4. x \in OpRows /\ x.stage = "quiescing" /\ x.seen = b /\ x.target = op[q].target
      BY <1>1, <3>2, <3>3 DEF OpRows
    <3>5. op' = [op EXCEPT ![q] = x]
      BY <1>1, <1>8, <2>1, <3>1, <3>3 DEF ReadBinding
    <3>6. QuiesceStart(q, {plan[op[q].plan].acct, op[q].target} \ {Unbound})
      BY <1>8, <2>1, Zenon DEF ReadBinding
    <3>7. op'[q] = x
      BY <1>1, <3>5
    <3>8. StageOK(q)'
      BY <1>1, <3>2, <3>4, <3>6, <3>7, StartStage
    <3>9. \A o \in Quiescers : o # q => Moved(o)
      BY <1>1, <3>6, QuiesceMoves
    <3>10. QED
      BY <1>3, <3>4, <3>5, <3>8, <3>9
  <2>2. CASE ~Findable(q)
    <3>1. /\ op' = [op EXCEPT ![q] = NoOp("ended")]
          /\ qpc' = [qpc EXCEPT ![q] = "done"]
          /\ UNCHANGED <<qwant, qlocked>>
      BY <1>8, <2>2, Zenon DEF ReadBinding
    <3>2. op'[q].stage = "ended" /\ qpc'[q] = "done"
      BY <1>1, <3>1, NoOpRow DEF TypeOK
    <3>3. StageOK(q)'
      BY <3>2 DEF StageOK
    <3>4. \A o \in Quiescers : o # q => Moved(o)
      BY <1>1, <3>1 DEF Moved, TypeOK
    <3>5. QED
      BY <1>3, <3>1, <3>3, <3>4, NoOpRow
  <2>3. QED
    BY <2>1, <2>2
<1>9. ASSUME NEW q \in Quiescers, Quiescing(q) PROVE Kept
  <2>1. PICK x \in OpRows : op' = [op EXCEPT ![q] = x]
    <3>1. (IF qpc'[q] = "done" THEN NoOp("ended") ELSE op[q]) \in OpRows
      BY <1>1, NoOpRow
    <3>2. QED
      BY <1>9, <3>1 DEF Quiescing
  <2>2. \A o \in Quiescers : o # q => Moved(o)
    BY <1>1, <1>9, QuiesceMoves DEF Quiescing
  <2>3. QED
    BY <1>1, <1>3, <1>9, <2>1, <2>2, QuiescingStage
<1>10. ASSUME NEW q \in Quiescers, NEW pc \in {"idle", "done"}, QuiesceReleaseTo(q, pc), NEW x \in OpRows,
              op' = [op EXCEPT ![q] = x],
              (pc = "idle" /\ x.stage = "reading") \/ (pc = "done" /\ x.stage = "ended")
       PROVE  Kept
  <2>1. op'[q] = x
    BY <1>1, <1>10
  <2>2. StageOK(q)'
    BY <1>1, <1>10, <2>1, ReleasedStage
  <2>3. \A o \in Quiescers : o # q => Moved(o)
    BY <1>1, <1>10, QuiesceMoves
  <2>4. QED
    BY <1>3, <1>10, <2>2, <2>3
<1>11. ASSUME NEW q \in Quiescers, NEW s \in {"section", "committed"},
              op[q].stage \in {"quiescing", "section"}, qpc[q] = "holding",
              op' = [op EXCEPT ![q].stage = s], UNCHANGED vars
       PROVE  Kept
  <2>1. PICK x : x = [op[q] EXCEPT !.stage = s]
    OBVIOUS
  <2>2. x \in OpRows /\ x.stage = s /\ x.seen = op[q].seen /\ x.target = op[q].target
    BY <1>1, <2>1 DEF OpRows
  <2>3. op' = [op EXCEPT ![q] = x] /\ op'[q] = x
    BY <1>1, <1>11, <2>1
  <2>4. StageOK(q)'
    BY <1>1, <1>11, <2>2, <2>3 DEF StageOK, Wanted, vars
  <2>5. QED
    BY <1>3, <1>11, <2>2, <2>3, <2>4 DEF Moved, vars
<1>12. ASSUME NEW q \in Quiescers, VerifyBinding(q) PROVE Kept
  <2>1. PICK x : x = [op[q] EXCEPT !.stage = "reading"]
    OBVIOUS
  <2>2. x \in OpRows /\ x.stage = "reading"
    BY <1>1, <2>1 DEF OpRows
  <2>3. /\ op[q].stage = "quiescing" /\ qpc[q] = "holding"
        /\ \/ op' = [op EXCEPT ![q].stage = "section"] /\ UNCHANGED vars
           \/ op' = [op EXCEPT ![q] = x] /\ QuiesceReleaseTo(q, "idle")
           \/ op' = [op EXCEPT ![q] = NoOp("ended")] /\ QuiesceReleaseTo(q, "done")
    BY <1>1, <1>12, <2>1 DEF VerifyBinding, QuiesceRelease
  <2>4. CASE op' = [op EXCEPT ![q].stage = "section"] /\ UNCHANGED vars
    <3>1. PICK s \in {"section", "committed"} : op' = [op EXCEPT ![q].stage = s]
      BY <2>4, Zenon
    <3>2. QED
      BY <1>11, <2>3, <2>4, <3>1
  <2>5. QED
    BY <1>10, <2>2, <2>3, <2>4, NoOpRow
<1>13. ASSUME NEW q \in Quiescers, SectionCommit(q) PROVE Kept
  <2>1. op[q].stage = "section" /\ op' = [op EXCEPT ![q].stage = "committed"] /\ UNCHANGED vars
    BY <1>13 DEF SectionCommit
  <2>2. qpc[q] = "holding"
    BY <1>1, <2>1 DEF StageOK
  <2>3. QED
    BY <1>11, <2>1, <2>2
<1>14. ASSUME NEW q \in Quiescers, SectionEnd(q) PROVE Kept
  BY <1>10, <1>14, NoOpRow DEF SectionEnd, QuiesceRelease
<1>15. QED
  BY <1>4, <1>5, <1>6, <1>7, <1>8, <1>9, <1>12, <1>13, <1>14
  DEF BindingNext, ReadRoute, ReadAccount, Arrive, ProbeRecheck, UpdatePlanStatus, bindingVars, vars, quiesceVars

-----------------------------------------------------------------------------
(* The plans and the routes                                                *)

(* A transaction writes the row x of one plan, with an account that no     *)
(* other plan has.                                                         *)
LEMMA WriteRow ==
  ASSUME plan \in [Plans -> PlanRows], AccountBoundOnce, NEW p \in Plans, NEW x \in PlanRows,
         plan' = [plan EXCEPT ![p] = x], x.status # "absent",
         x.status \in {"active", "archived"} /\ x.acct # Unbound => ~BoundElsewhere(x.acct, p)
  PROVE  /\ plan' \in [Plans -> PlanRows] /\ AccountBoundOnce'
         /\ \A o \in Plans : plan[o].status # "absent" => plan'[o].status # "absent"
<1>1. plan'[p] = x /\ \A o \in Plans \ {p} : plan'[o] = plan[o]
  OBVIOUS
<1>2. AccountBoundOnce'
  BY <1>1 DEF AccountBoundOnce, Exists, BoundElsewhere
<1>3. QED
  BY <1>1, <1>2

(* Every step keeps the plans' rows well-typed and their accounts apart,   *)
(* and never makes a plan absent.                                          *)
LEMMA PlanRowsStep ==
  ASSUME BindingInv, [BindingNext]_bindingVars
  PROVE  /\ plan' \in [Plans -> PlanRows] /\ AccountBoundOnce'
         /\ \A o \in Plans : plan[o].status # "absent" => plan'[o].status # "absent"
<1>1. /\ plan \in [Plans -> PlanRows] /\ op \in [Quiescers -> OpRows] /\ AccountBoundOnce
  BY RowTypes DEF BindingInv
<1> DEFINE Kept == /\ plan' \in [Plans -> PlanRows] /\ AccountBoundOnce'
                   /\ \A o \in Plans : plan[o].status # "absent" => plan'[o].status # "absent"
<1>2. CASE UNCHANGED plan
  BY <1>1, <1>2 DEF AccountBoundOnce, Exists
<1>3. ASSUME NEW p \in Plans, NEW a \in Accounts \cup {Unbound}, RebindPlanAccount(p, a) PROVE Kept
  <2>1. PICK x : x = [plan[p] EXCEPT !.acct = a, !.gen = plan[p].gen + 1]
    OBVIOUS
  <2>2. plan[p] \in PlanRows /\ plan[p].gen < MaxGeneration /\ Exists(p) /\ ~BoundElsewhere(a, p)
    BY <1>1, <1>3 DEF RebindPlanAccount
  <2>3. x \in PlanRows /\ x.status = plan[p].status /\ x.acct = a
    <3>1. plan[p].gen \in 0 .. MaxGeneration
      BY ONLY <2>2 DEF PlanRows
    <3>2. PICK g \in 0 .. MaxGeneration : g = plan[p].gen + 1
      BY ONLY <2>2, <3>1, PlansAssumption
    <3>3. x = [plan[p] EXCEPT !.acct = a, !.gen = g]
      BY ONLY <2>1, <3>2, Zenon
    <3>4. QED
      BY ONLY <2>2, <3>3, a \in Accounts \cup {Unbound}, g \in 0 .. MaxGeneration DEF PlanRows
  <2>4. plan' = [plan EXCEPT ![p] = x]
    BY <1>1, <1>3, <2>1 DEF RebindPlanAccount
  <2>5. x.status # "absent" /\ ~BoundElsewhere(x.acct, p)
    BY <2>2, <2>3 DEF Exists, BoundElsewhere
  <2>6. x \in PlanRows
    BY <2>3
  <2>7. QED
    BY ONLY <1>1, <2>4, <2>5, <2>6, p \in Plans, WriteRow
<1>4. ASSUME NEW p \in Plans, DeletePlan(p) PROVE Kept
  <2>1. PICK x : x = [status |-> "deleted", acct |-> Unbound, gen |-> 0]
    OBVIOUS
  <2>2. plan' = [plan EXCEPT ![p] = x]
    BY <1>4, <2>1 DEF DeletePlan
  <2>3. x \in PlanRows /\ x.status = "deleted"
    BY <2>1, PlansAssumption DEF PlanRows
  <2>4. QED
    BY <1>1, <2>2, <2>3, WriteRow
<1>5. ASSUME NEW p \in Plans, NEW a \in Accounts \cup {Unbound}, CreatePlan(p, a) PROVE Kept
  <2>1. PICK x : x = [status |-> "active", acct |-> a, gen |-> IF a = Unbound THEN 0 ELSE 1]
    OBVIOUS
  <2>2. plan' = [plan EXCEPT ![p] = x] /\ (a # Unbound => ~BoundElsewhere(a, p))
    BY <1>5, <2>1 DEF CreatePlan
  <2>3. x \in PlanRows /\ x.status = "active" /\ x.acct = a
    BY <2>1, PlansAssumption DEF PlanRows
  <2>4. x.acct # Unbound => ~BoundElsewhere(x.acct, p)
    BY <2>2, <2>3 DEF BoundElsewhere
  <2>5. QED
    BY <1>1, <2>2, <2>3, <2>4, WriteRow
<1>6. ASSUME NEW p \in Plans, NEW status \in {"active", "archived"}, UpdatePlanStatus(p, status) PROVE Kept
  <2>1. PICK x : x = [plan[p] EXCEPT !.status = status]
    OBVIOUS
  <2>2. x \in PlanRows /\ x.status = status /\ x.acct = plan[p].acct
    BY <1>1, <2>1 DEF PlanRows
  <2>3. plan' = [plan EXCEPT ![p] = x] /\ Exists(p)
    BY <1>1, <1>6, <2>1 DEF UpdatePlanStatus
  <2>4. x.acct # Unbound => ~BoundElsewhere(x.acct, p)
    BY <1>1, <2>2, <2>3 DEF AccountBoundOnce, BoundElsewhere
  <2>5. QED
    BY <1>1, <2>2, <2>3, <2>4, WriteRow
<1>7. ASSUME NEW q \in Quiescers, SectionCommit(q) PROVE Kept
  <2>1. op[q].plan \in Plans /\ op[q].target \in Accounts \cup {Unbound}
    BY <1>1 DEF OpRows
  <2>2. QED
    BY <1>3, <1>4, <1>5, <1>7, <2>1 DEF SectionCommit
<1>8. QED
  BY <1>2, <1>6, <1>7
  DEF BindingNext, ReadRoute, ReadAccount, RequestRuns, ProbeRecheck, ProbeConflict, CreateStart, OpStart, ReadBinding,
      Quiescing, VerifyBinding, SectionEnd, bindingVars

LEMMA NoRouteRow == NoRoute \in RouteRows /\ NoRoute.checked = FALSE
<1>1. (CHOOSE p \in Plans : TRUE) \in Plans
  BY PlansAssumption
<1>2. QED
  BY <1>1, PlansAssumption DEF NoRoute, RouteRows

(* Every step keeps the routes well-typed, and what the probes compared.   *)
LEMMA RouteStep ==
  ASSUME BindingInv, [BindingNext]_bindingVars
  PROVE  route' \in [Requests -> RouteRows] /\ ProbeInv'
<1>1. /\ req \in [Requests -> Request] /\ plan \in [Plans -> PlanRows] /\ route \in [Requests -> RouteRows]
      /\ TypeOK /\ ProbeInv
      /\ \A o \in Plans : plan[o].status # "absent" => plan'[o].status # "absent"
  BY RowTypes, PlanRowsStep DEF BindingInv, TypeOK
<1> DEFINE Kept == route' \in [Requests -> RouteRows] /\ ProbeInv'
<1>2. ASSUME NEW r \in Requests, NEW x \in RouteRows, route' = [route EXCEPT ![r] = x],
             \A p \in Requests : p # r => req'[p] = req[p],
             req'[r].pc = "ready" => ~x.checked,
             x.checked => plan[x.plan].status # "absent"
      PROVE  Kept
  <2>1. route' \in [Requests -> RouteRows] /\ route'[r] = x /\ \A p \in Requests : p # r => route'[p] = route[p]
    BY <1>1, <1>2
  <2>2. \A p \in Requests : route'[p].plan \in Plans
    BY <2>1 DEF RouteRows
  <2>3. QED
    BY <1>1, <1>2, <2>1, <2>2 DEF ProbeInv
<1>3. CASE UNCHANGED <<req, route>>
  <2>1. \A p \in Requests : route[p].plan \in Plans
    BY <1>1 DEF RouteRows
  <2>2. QED
    BY <1>1, <1>3, <2>1 DEF ProbeInv
<1>4. ASSUME NEW r \in Requests, NEW p \in Plans, NEW u \in Users \cup {Probe}, ReadRoute(r, p, u) PROVE Kept
  <2>1. PICK x : x = [plan |-> p, gen |-> plan[p].gen, checked |-> FALSE]
    OBVIOUS
  <2>2. x \in RouteRows /\ x.checked = FALSE
    BY <1>1, <2>1 DEF RouteRows, PlanRows
  <2>3. route' = [route EXCEPT ![r] = x] /\ \A o \in Requests : o # r => req'[o] = req[o]
    BY <1>1, <1>4, <2>1 DEF ReadRoute, Arrive
  <2>4. QED
    BY <1>2, <2>2, <2>3
<1>10. ASSUME NEW r \in Requests, NEW a \in Accounts, ReadAccount(r, a) PROVE Kept
  <2>1. route' = [route EXCEPT ![r] = NoRoute] /\ \A o \in Requests : o # r => req'[o] = req[o]
    BY <1>1, <1>10 DEF ReadAccount, Arrive
  <2>2. QED
    BY <1>2, <2>1, NoRouteRow
<1>5. ASSUME NEW r \in Requests, ProbeRecheck(r) PROVE Kept
  <2>1. PICK x : x = [route[r] EXCEPT !.checked = TRUE]
    OBVIOUS
  <2>2. x \in RouteRows /\ x.plan = route[r].plan
    BY <1>1, <2>1 DEF RouteRows
  <2>3. /\ route' = [route EXCEPT ![r] = x] /\ UNCHANGED req /\ req[r].pc = "held"
        /\ plan[x.plan].status = "active"
    BY <1>1, <1>5, <2>1, <2>2 DEF ProbeRecheck, CurrentRoute, vars
  <2>4. QED
    BY <1>2, <2>2, <2>3
<1>6. ASSUME NEW r \in Requests, RequestStep(r)
      PROVE  /\ req'[r].pc \in {"held", "committed", "done"}
             /\ \A p \in Requests : p # r => req'[p] = req[p]
  <2>1. CASE req' = [req EXCEPT ![r] = NoRequest("done")]
    BY <1>1, <2>1, NoRequestType
  <2>2. CASE req' = [req EXCEPT ![r].pc = "held"] \/ req' = [req EXCEPT ![r].pc = "committed"]
    BY <1>1, <2>2 DEF Request
  <2>3. QED
    BY <1>6, <2>1, <2>2 DEF RequestStep, Prepare, Commit, Release
<1>7. ASSUME NEW r \in Requests, RequestRuns(r) PROVE Kept
  <2>1. RequestStep(r)
    BY <1>7 DEF RequestRuns, RequestStep
  <2>2. PICK x : x = IF req'[r].pc = "done" THEN NoRoute ELSE route[r]
    OBVIOUS
  <2>3. route' = [route EXCEPT ![r] = x]
    BY <1>7, <2>2 DEF RequestRuns
  <2>4. x \in RouteRows /\ (x.checked => x = route[r])
    BY <1>1, <2>2, NoRouteRow
  <2>5. QED
    BY <1>1, <1>2, <1>6, <2>1, <2>3, <2>4 DEF ProbeInv
<1>8. ASSUME NEW r \in Requests, ProbeConflict(r) PROVE Kept
  <2>1. RequestStep(r) /\ route' = [route EXCEPT ![r] = NoRoute]
    BY <1>8 DEF ProbeConflict, RequestStep
  <2>2. QED
    BY <1>2, <1>6, <2>1, NoRouteRow
<1>9. QED
  BY <1>3, <1>4, <1>5, <1>7, <1>8, <1>10
  DEF BindingNext, CreateStart, OpStart, ReadBinding, Quiescing, VerifyBinding, SectionCommit, SectionEnd,
      UpdatePlanStatus, QuiesceStart, QuiesceAcquire, QuiesceDrained, QuiesceCancelOwn, QuiesceCancel,
      QuiesceRelease, QuiesceReleaseTo, bindingVars, vars

-----------------------------------------------------------------------------
(* What holds for every plan                                               *)

LEMMA BindingStart == BindingInit => BindingInv
<1> SUFFICES ASSUME BindingInit PROVE BindingInv
  OBVIOUS
<1>1. TrafficInv /\ TypeOK
  BY TrafficInit DEF BindingInit, TrafficInv
<1>2. /\ \A q \in Quiescers : op[q] = NoOp("idle") /\ qpc[q] = "idle"
      /\ \A r \in Requests : route[r] = NoRoute
  BY DEF BindingInit, Init
<1>3. op \in [Quiescers -> OpRows] /\ route \in [Requests -> RouteRows]
  BY NoOpRow, NoRouteRow DEF BindingInit
<1>4. ASSUME NEW p \in Plans
      PROVE  /\ plan[p] \in PlanRows
             /\ Exists(p) => p \notin Absent /\ plan[p].acct = StartBinding[p]
  BY PlansAssumption DEF BindingInit, PlanRows, Exists
<1>5. plan \in [Plans -> PlanRows]
  BY <1>4 DEF BindingInit
<1>6. BindingTypeOK
  BY <1>1, <1>3, <1>5, RowTypes
<1>7. StageInv
  BY <1>2, NoOpRow DEF StageInv, StageOK
<1>8. AccountBoundOnce
  BY <1>4, PlansAssumption DEF AccountBoundOnce
<1>9. ProbeInv
  BY <1>2, NoRouteRow DEF ProbeInv
<1>10. QED
  BY <1>1, <1>6, <1>7, <1>8, <1>9 DEF BindingInv

LEMMA BindingStep == BindingInv /\ [BindingNext]_bindingVars => BindingInv'
<1> SUFFICES ASSUME BindingInv, [BindingNext]_bindingVars PROVE BindingInv'
  OBVIOUS
<1>1. TrafficInv' /\ TypeOK'
  BY BindingTraffic DEF TrafficInv
<1>2. BindingTypeOK'
  BY <1>1, StageStep, PlanRowsStep, RouteStep
  DEF BindingTypeOK, PlanRows, OpRows, SeenBindings, RouteRows
<1>3. QED
  BY <1>1, <1>2, StageStep, PlanRowsStep, RouteStep DEF BindingInv

(* The invariant holds in every state of the operations.                   *)
THEOREM BindingInvariant == BindingSpec => []BindingInv
BY BindingStart, BindingStep, PTL DEF BindingSpec

(* Plans, operations and routes keep their types; a generation counts one  *)
(* binding at a time.                                                      *)
THEOREM BindingTypeCorrect == BindingSpec => []BindingTypeOK
<1>1. BindingInv => BindingTypeOK
  BY DEF BindingInv
<1>2. QED
  BY <1>1, BindingInvariant, PTL

(* The operations keep the controller's promise, although they use it in   *)
(* a way of their own (a retry releases and quiesces again): composed with *)
(* them it is still the gate of AccountGate.                               *)
THEOREM BindingImplementsGate == BindingSpec => ImplementsGate
<1>1. BindingInit => Gate!GateInit /\ LockedBelow
  BY GateStart DEF BindingInit
<1>2. ASSUME BindingInv, LockedBelow, [BindingNext]_bindingVars
      PROVE  LockedBelow' /\ [Gate!GateNext]_(Gate!gateVars)
  <2>1. /\ TrafficInv /\ TypeOK /\ qpc \in [Quiescers -> QuiesceStates]
        /\ qlocked \in [Quiescers -> SUBSET Accounts]
    BY <1>2 DEF BindingInv, TrafficInv, TypeOK
  <2>2. CASE [Next]_vars
    BY <1>2, <2>1, <2>2, OrderStep, GateStep
  <2>3. ASSUME NEW q \in Quiescers, QuiesceReleaseTo(q, "idle")
        PROVE  LockedBelow' /\ [Gate!GateNext]_(Gate!gateVars)
    <3>1. /\ qpc[q] = "holding" /\ qlocked' = [qlocked EXCEPT ![q] = {}]
          /\ qpc' = [Woken(qpc) EXCEPT ![q] = "idle"] /\ UNCHANGED <<req, qwant>>
      BY <2>3 DEF QuiesceReleaseTo
    <3>2. qlocked[q] \subseteq Closed(q) /\ Closed(q)' = Closed(q) \ qlocked[q]
      BY <2>1, <3>1 DEF Closed, Woken
    <3>3. \A p \in Quiescers : p # q => Closed(p)' = Closed(p)
      BY <2>1, <3>1 DEF Closed, NextId, Woken
    <3>4. qlocked[q] \in SUBSET Accounts /\ qlocked' = [qlocked EXCEPT ![q] = qlocked[q] \ qlocked[q]]
      BY <2>1, <3>1
    <3>5. Gate!GateNext
      BY <2>1, <3>1, <3>2, <3>3, <3>4, GateOpens
    <3>6. LockedBelow'
      BY <1>2, <2>1, <3>1 DEF LockedBelow
    <3>7. QED
      BY <3>5, <3>6
  <2>4. ASSUME NEW q \in Quiescers, GivesUp(q)
        PROVE  LockedBelow' /\ [Gate!GateNext]_(Gate!gateVars)
    <3>1. /\ qpc[q] = "idle" /\ qpc' = [qpc EXCEPT ![q] = "done"]
          /\ UNCHANGED <<req, qwant, qlocked>>
      BY <2>4 DEF GivesUp
    <3>2. \A p \in Quiescers : Closed(p)' = Closed(p)
      BY <2>1, <3>1 DEF Closed, NextId
    <3>3. \A a \in Accounts : InFlight(a)' = InFlight(a)
      BY <3>1 DEF InFlight
    <3>4. UNCHANGED Gate!gateVars
      BY <3>1, <3>2, <3>3, GateStutter
    <3>5. QED
      BY <1>2, <3>1, <3>4 DEF LockedBelow
  <2>5. QED
    BY <1>2, <2>2, <2>3, <2>4, ControllerMoves
<1>3. QED
  BY <1>1, <1>2, BindingInvariant, PTL DEF BindingSpec, ImplementsGate, Gate!GateSpec

(* postgres/lifecycle.go: an account serves at most one plan, archived     *)
(* ones included, for any number of operations at any stage.               *)
THEOREM AccountAlwaysBoundOnce == BindingSpec => []AccountBoundOnce
<1>1. BindingInv => AccountBoundOnce
  BY DEF BindingInv
<1>2. QED
  BY <1>1, BindingInvariant, PTL

-----------------------------------------------------------------------------
(* Plans that always have an account                                       *)

(* No plan starts or is created without an account.  The operations do not *)
(* exclude each other on a plan without one, for it gives them no account  *)
(* to close: what follows needs this hypothesis.                           *)
AlwaysBound == Unbound \notin CreateWith /\ \A p \in Plans \ Absent : StartBinding[p] # Unbound

PlansBound == \A p \in Plans : Exists(p) => plan[p].acct # Unbound

CreatesBound == \A q \in Quiescers : op[q].kind = "create" => op[q].target # Unbound

SectionVerified ==
  \A q \in Quiescers : op[q].stage = "section" /\ op[q].kind # "create" => Verified(q)

(* The inductive invariant: a section holds the account of its plan, so no *)
(* other section and no probe is on that plan when the binding changes.    *)
BoundInv == BindingInv /\ PlansBound /\ CreatesBound /\ SectionVerified /\ ProbeBindingStable

(* An operation in its section has locked all it wants; so it has the      *)
(* account of its plan, and nothing runs there.                            *)
LEMMA SectionHolds ==
  ASSUME BindingInv, NEW q \in Quiescers, op[q].stage = "section"
  PROVE  qlocked[q] = Wanted(q) /\ \A a \in Wanted(q) : InFlight(a) = {}
<1>1. StageOK(q) /\ DrainedExclusive
  BY DEF BindingInv, StageInv, TrafficInv
<1>2. qpc[q] = "holding" /\ qwant[q] = {} /\ qlocked[q] \cup qwant[q] = Wanted(q)
  BY <1>1 DEF StageOK
<1>3. QED
  BY <1>1, <1>2 DEF DrainedExclusive

LEMMA SectionHoldsPlan ==
  ASSUME BindingInv, PlansBound, NEW q \in Quiescers, op[q].stage = "section", Verified(q)
  PROVE  plan[op[q].plan].acct \in qlocked[q] /\ InFlight(plan[op[q].plan].acct) = {}
<1>1. op[q].plan \in Plans
  BY RowTypes DEF BindingInv, OpRows
<1>2. plan[op[q].plan].acct # Unbound /\ op[q].seen.acct = plan[op[q].plan].acct
  BY <1>1 DEF PlansBound, Verified, Binding
<1>3. op[q].seen.acct \in Wanted(q)
  BY <1>2 DEF Wanted
<1>4. QED
  BY <1>2, <1>3, SectionHolds

(* Two verified sections are about two plans.                              *)
LEMMA SectionsApart ==
  ASSUME BindingInv, PlansBound, NEW q \in Quiescers, NEW o \in Quiescers,
         op[q].stage = "section", Verified(q), op[o].stage = "section", Verified(o), op[q].plan = op[o].plan
  PROVE  q = o
<1>1. plan[op[q].plan].acct \in Closed(q) /\ plan[op[q].plan].acct \in Closed(o)
  BY SectionHoldsPlan DEF Closed
<1>2. QuiesceFlagOwned
  BY DEF BindingInv, TrafficInv
<1>3. QED
  BY <1>1, <1>2 DEF QuiesceFlagOwned

(* What a step may do to the record of an operation.                       *)
OpKept(o) ==
  /\ op'[o].kind = "create" =>
       \/ op[o].kind = "create" /\ op'[o].target = op[o].target
       \/ op'[o].target \in CreateWith
  /\ op'[o].stage = "section" =>
       /\ op'[o].plan = op[o].plan /\ op'[o].kind = op[o].kind /\ op'[o].seen = op[o].seen
       /\ op[o].stage = "section" \/ (MayEnter(o) /\ UNCHANGED plan)

(* The record of an operation that is not there asks for no account.       *)
LEMMA NoOpKind == \A s \in {"idle", "reading", "quiescing", "ended"} : NoOp(s).kind = "none"
BY DEF NoOp

LEMMA StartedKind ==
  ASSUME NEW s \in {"reading", "quiescing"}, NEW kind \in {"create", "rebind", "delete", "reset", "voted"},
         NEW p \in Plans, NEW a \in Accounts \cup {Unbound}
  PROVE  Started(s, kind, p, a).kind = kind
<1>1. PICK y \in OpRows : y = NoOp(s)
  BY NoOpRow
<1>2. Started(s, kind, p, a) = [y EXCEPT !.kind = kind, !.plan = p, !.target = a]
  BY <1>1, Zenon DEF Started
<1>3. QED
  BY <1>1, <1>2 DEF OpRows

LEMMA OpStep ==
  ASSUME BindingInv, [BindingNext]_bindingVars, NEW o \in Quiescers
  PROVE  OpKept(o)
<1>1. /\ op \in [Quiescers -> OpRows] /\ plan \in [Plans -> PlanRows]
  BY RowTypes DEF BindingInv
<1>2. ASSUME op'[o] = op[o] PROVE OpKept(o)
  BY <1>2 DEF OpKept
<1>3. ASSUME NEW q \in Quiescers, NEW x \in OpRows, op' = [op EXCEPT ![q] = x],
             x.stage # "section",
             x.kind = "create" => (op[q].kind = "create" /\ x.target = op[q].target) \/ x.target \in CreateWith
      PROVE  OpKept(o)
  <2>1. op'[q] = x /\ (o # q => op'[o] = op[o])
    BY <1>1, <1>3
  <2>2. CASE o = q
    BY <1>3, <2>1, <2>2 DEF OpKept
  <2>3. QED
    BY <1>2, <2>1, <2>2
<1>4. CASE UNCHANGED op
  BY <1>2, <1>4
<1>5. ASSUME NEW q \in Quiescers, NEW p \in Plans, NEW a \in CreateWith, CreateStart(q, p, a)
      PROVE  OpKept(o)
  <2>1. PICK x : x = Started("quiescing", "create", p, a)
    OBVIOUS
  <2>2. x \in OpRows /\ x.stage = "quiescing" /\ x.target = a
    BY <2>1, StartedOp, PlansAssumption
  <2>3. op' = [op EXCEPT ![q] = x]
    BY <1>5, <2>1, Zenon DEF CreateStart, Started
  <2>4. QED
    BY <1>3, <2>2, <2>3
<1>6. ASSUME NEW q \in Quiescers, NEW kind \in {"rebind", "delete", "reset", "voted"}, NEW p \in Plans,
             NEW a \in Accounts \cup {Unbound}, OpStart(q, kind, p, a)
      PROVE  OpKept(o)
  <2>1. PICK x : x = Started("reading", kind, p, a)
    OBVIOUS
  <2>2. x \in OpRows /\ x.stage = "reading" /\ x.kind = kind
    BY <2>1, StartedOp, StartedKind
  <2>3. op' = [op EXCEPT ![q] = x]
    BY <1>6, <2>1, Zenon DEF OpStart, Started
  <2>4. QED
    BY <1>3, <2>2, <2>3
<1>7. ASSUME NEW q \in Quiescers, op' = [op EXCEPT ![q] = NoOp("ended")] PROVE OpKept(o)
  BY <1>3, <1>7, NoOpRow, NoOpKind
<1>8. ASSUME NEW q \in Quiescers, ReadBinding(q) PROVE OpKept(o)
  <2>1. CASE Findable(q)
    <3>1. PICK b : b = Binding(op[q].plan)
      OBVIOUS
    <3>2. b \in SeenBindings
      BY <1>1, <3>1 DEF Binding, PlanRows, OpRows, SeenBindings
    <3>3. PICK x : x = [op[q] EXCEPT !.stage = "quiescing", !.seen = b]
      OBVIOUS
    <3>4. x \in OpRows /\ x.stage = "quiescing" /\ x.kind = op[q].kind /\ x.target = op[q].target
      BY <1>1, <3>2, <3>3 DEF OpRows
    <3>5. op' = [op EXCEPT ![q] = x]
      BY <1>1, <1>8, <2>1, <3>1, <3>3 DEF ReadBinding
    <3>6. QED
      BY <1>3, <3>4, <3>5
  <2>2. CASE ~Findable(q)
    <3>1. op' = [op EXCEPT ![q] = NoOp("ended")]
      BY <1>8, <2>2, Zenon DEF ReadBinding
    <3>2. QED
      BY <1>7, <3>1
  <2>3. QED
    BY <2>1, <2>2
<1>9. ASSUME NEW q \in Quiescers, Quiescing(q) PROVE OpKept(o)
  <2>1. op' = [op EXCEPT ![q] = NoOp("ended")] \/ op' = [op EXCEPT ![q] = op[q]]
    BY <1>9 DEF Quiescing
  <2>2. CASE op' = [op EXCEPT ![q] = op[q]]
    BY <1>1, <1>2, <2>2
  <2>3. QED
    BY <1>7, <2>1, <2>2
<1>10. ASSUME NEW q \in Quiescers, NEW s \in {"reading", "committed"}, op' = [op EXCEPT ![q].stage = s]
       PROVE  OpKept(o)
  <2>1. PICK x : x = [op[q] EXCEPT !.stage = s]
    OBVIOUS
  <2>2. x \in OpRows /\ x.stage = s /\ x.kind = op[q].kind /\ x.target = op[q].target
    BY <1>1, <2>1 DEF OpRows
  <2>3. op' = [op EXCEPT ![q] = x]
    BY <1>1, <1>10, <2>1
  <2>4. QED
    BY <1>3, <2>2, <2>3
<1>11. ASSUME NEW q \in Quiescers, MayEnter(q), op' = [op EXCEPT ![q].stage = "section"], UNCHANGED plan
       PROVE  OpKept(o)
  <2>1. PICK x : x = [op[q] EXCEPT !.stage = "section"]
    OBVIOUS
  <2>2. x.kind = op[q].kind /\ x.target = op[q].target /\ x.plan = op[q].plan /\ x.seen = op[q].seen
    BY <1>1, <2>1 DEF OpRows
  <2>3. op' = [op EXCEPT ![q] = x]
    BY <1>1, <1>11, <2>1
  <2>4. op'[q] = x /\ (o # q => op'[o] = op[o])
    BY <1>1, <2>3
  <2>5. CASE o = q
    BY <1>11, <2>2, <2>4, <2>5 DEF OpKept
  <2>6. QED
    BY <1>2, <2>4, <2>5
<1>12. ASSUME NEW q \in Quiescers, VerifyBinding(q) PROVE OpKept(o)
  <2>1. \/ MayEnter(q) /\ op' = [op EXCEPT ![q].stage = "section"] /\ UNCHANGED plan
        \/ \E s \in {"reading", "committed"} : op' = [op EXCEPT ![q].stage = s]
        \/ op' = [op EXCEPT ![q] = NoOp("ended")]
    BY <1>12, Zenon DEF VerifyBinding
  <2>2. QED
    BY <1>7, <1>10, <1>11, <2>1
<1>13. ASSUME NEW q \in Quiescers, SectionCommit(q) PROVE OpKept(o)
  BY <1>10, <1>13 DEF SectionCommit
<1>14. ASSUME NEW q \in Quiescers, SectionEnd(q) PROVE OpKept(o)
  BY <1>7, <1>14 DEF SectionEnd
<1>15. QED
  BY <1>4, <1>5, <1>6, <1>8, <1>9, <1>12, <1>13, <1>14
  DEF BindingNext, ReadRoute, ReadAccount, RequestRuns, ProbeRecheck, ProbeConflict, UpdatePlanStatus, bindingVars

(* What a step may do to the binding of a plan: it stays, or the plan is   *)
(* created, or a verified section of the plan commits.                     *)
PlanKept(p) ==
  \/ (Exists(p) <=> Exists(p)') /\ Binding(p)' = Binding(p)
  \/ plan[p].status = "absent" /\ plan'[p].acct # Unbound
  \/ /\ ~Exists(p)' \/ plan'[p].acct # Unbound
     /\ \E q \in Quiescers :
          /\ op[q].stage = "section" /\ op[q].kind # "create" /\ op[q].plan = p
          /\ op'[q].stage = "committed" /\ UNCHANGED <<vars, route>>

LEMMA PlanStep ==
  ASSUME BindingInv, CreatesBound, [BindingNext]_bindingVars, NEW p \in Plans
  PROVE  PlanKept(p)
<1>1. plan \in [Plans -> PlanRows] /\ op \in [Quiescers -> OpRows]
  BY RowTypes DEF BindingInv
<1>2. CASE plan'[p] = plan[p]
  BY <1>2 DEF PlanKept, Exists, Binding
<1>3. ASSUME NEW o \in Plans, NEW status \in {"active", "archived"}, UpdatePlanStatus(o, status)
      PROVE  PlanKept(p)
  <2>1. PICK x : x = [plan[o] EXCEPT !.status = status]
    OBVIOUS
  <2>2. x.status = status /\ x.acct = plan[o].acct /\ x.gen = plan[o].gen
    BY <1>1, <2>1 DEF PlanRows
  <2>3. plan' = [plan EXCEPT ![o] = x] /\ Exists(o)
    BY <1>1, <1>3, <2>1 DEF UpdatePlanStatus
  <2>4. plan'[o] = x /\ (o # p => plan'[p] = plan[p])
    BY <1>1, <2>3
  <2>5. CASE o = p
    BY <2>2, <2>3, <2>4, <2>5 DEF PlanKept, Exists, Binding
  <2>6. QED
    BY <1>2, <2>4, <2>5
<1>4. ASSUME NEW q \in Quiescers, SectionCommit(q) PROVE PlanKept(p)
  <2>1. /\ op[q].stage = "section" /\ UNCHANGED <<vars, route>>
        /\ op' = [op EXCEPT ![q].stage = "committed"]
    BY <1>4 DEF SectionCommit
  <2>2. op'[q].stage = "committed"
    BY <1>1, <2>1 DEF OpRows
  <2>3. op[q].plan \in Plans /\ plan[p] \in PlanRows
    BY <1>1 DEF OpRows
  <2>4. CASE op[q].plan # p
    <3>1. plan'[p] = plan[p]
      <4>1. CASE RebindPlanAccount(op[q].plan, op[q].target)
        BY <1>1, <2>4, <4>1 DEF RebindPlanAccount
      <4>2. CASE DeletePlan(op[q].plan)
        BY <1>1, <2>4, <4>2 DEF DeletePlan
      <4>3. CASE CreatePlan(op[q].plan, op[q].target)
        BY <1>1, <2>4, <4>3 DEF CreatePlan
      <4>4. QED
        BY <1>4, <4>1, <4>2, <4>3 DEF SectionCommit
    <3>2. QED
      BY <1>2, <3>1
  <2>5. CASE op[q].plan = p /\ op[q].kind = "rebind"
    <3>1. PICK a : a = op[q].target
      OBVIOUS
    <3>2. RebindPlanAccount(p, a)
      BY <1>4, <2>5, <3>1 DEF SectionCommit
    <3>3. plan'[p].acct = a /\ a # Unbound
      BY <1>1, <3>2 DEF RebindPlanAccount, PlanRows
    <3>4. QED
      BY <2>1, <2>2, <2>5, <3>3 DEF PlanKept
  <2>6. CASE op[q].plan = p /\ op[q].kind = "delete"
    <3>1. DeletePlan(p)
      BY <1>4, <2>6 DEF SectionCommit
    <3>2. ~Exists(p)'
      BY <1>1, <3>1 DEF DeletePlan, Exists
    <3>3. QED
      BY <2>1, <2>2, <2>6, <3>2 DEF PlanKept
  <2>7. CASE op[q].plan = p /\ op[q].kind = "create"
    <3>1. PICK a : a = op[q].target
      OBVIOUS
    <3>2. CreatePlan(p, a) /\ a # Unbound
      BY <1>4, <2>7, <3>1 DEF SectionCommit, CreatesBound
    <3>3. plan'[p].acct = a /\ plan[p].status = "absent"
      BY <1>1, <3>2 DEF CreatePlan
    <3>4. QED
      BY <3>2, <3>3 DEF PlanKept
  <2>8. QED
    BY <1>4, <2>4, <2>5, <2>6, <2>7 DEF SectionCommit
<1>5. CASE UNCHANGED plan
  BY <1>2, <1>5
<1>6. QED
  BY <1>3, <1>4, <1>5
  DEF BindingNext, ReadRoute, ReadAccount, RequestRuns, ProbeRecheck, ProbeConflict, CreateStart, OpStart, ReadBinding,
      Quiescing, VerifyBinding, SectionEnd, bindingVars

(* A probe that has compared its binding did so in this step, or before it *)
(* and keeps its account and route.                                        *)
ProbeKept(r) ==
  req'[r].pc = "held" /\ route'[r].checked =>
    /\ req[r].pc = "held" /\ req'[r].acct = req[r].acct
    /\ route'[r].plan = route[r].plan /\ route'[r].gen = route[r].gen
    /\ route[r].checked \/ (CurrentRoute(r) /\ UNCHANGED plan)

LEMMA ProbeStep ==
  ASSUME BindingInv, [BindingNext]_bindingVars, NEW r \in Requests
  PROVE  ProbeKept(r)
<1>1. /\ req \in [Requests -> Request] /\ route \in [Requests -> RouteRows] /\ TypeOK
      /\ req[r].pc = "ready" => ~route[r].checked
  BY RowTypes DEF BindingInv, TypeOK, ProbeInv
<1>2. CASE req'[r] = req[r] /\ route'[r] = route[r]
  BY <1>2 DEF ProbeKept
<1>3. ASSUME NEW o \in Requests, NEW p \in Plans, NEW u \in Users \cup {Probe}, ReadRoute(o, p, u)
      PROVE  ProbeKept(r)
  <2>1. PICK x : x = [plan |-> p, gen |-> plan[p].gen, checked |-> FALSE]
    OBVIOUS
  <2>2. route' = [route EXCEPT ![o] = x] /\ x.checked = FALSE /\ (o # r => req'[r] = req[r])
    BY <1>1, <1>3, <2>1 DEF ReadRoute, Arrive
  <2>3. CASE o = r
    BY <1>1, <2>2, <2>3 DEF ProbeKept
  <2>4. QED
    BY <1>1, <1>2, <2>2, <2>3
<1>9. ASSUME NEW o \in Requests, NEW a \in Accounts, ReadAccount(o, a) PROVE ProbeKept(r)
  <2>1. route' = [route EXCEPT ![o] = NoRoute] /\ (o # r => req'[r] = req[r])
    BY <1>1, <1>9 DEF ReadAccount, Arrive
  <2>2. CASE o = r
    BY <1>1, <2>1, <2>2, NoRouteRow DEF ProbeKept
  <2>3. QED
    BY <1>1, <1>2, <2>1, <2>2
<1>4. ASSUME NEW o \in Requests, ProbeRecheck(o) PROVE ProbeKept(r)
  <2>1. PICK x : x = [route[o] EXCEPT !.checked = TRUE]
    OBVIOUS
  <2>2. x.plan = route[o].plan /\ x.gen = route[o].gen
    BY <1>1, <2>1 DEF RouteRows
  <2>3. route' = [route EXCEPT ![o] = x] /\ CurrentRoute(o) /\ UNCHANGED <<req, plan>>
    BY <1>1, <1>4, <2>1 DEF ProbeRecheck, vars
  <2>4. CASE o = r
    BY <1>1, <2>2, <2>3, <2>4 DEF ProbeKept
  <2>5. QED
    BY <1>1, <1>2, <2>3, <2>4
<1>5. ASSUME NEW o \in Requests, RequestStep(o)
      PROVE  /\ req'[o].pc = "held" => req[o].pc = "ready"
             /\ o # r => req'[r] = req[r]
  <2>1. CASE req' = [req EXCEPT ![o] = NoRequest("done")]
    BY <1>1, <2>1, NoRequestType
  <2>2. CASE req' = [req EXCEPT ![o].pc = "held"] /\ req[o].pc = "ready"
    BY <1>1, <2>2 DEF Request
  <2>3. CASE req' = [req EXCEPT ![o].pc = "committed"]
    BY <1>1, <2>3 DEF Request
  <2>4. QED
    BY <1>5, <2>1, <2>2, <2>3 DEF RequestStep, Prepare, Commit, Release
<1>6. ASSUME NEW o \in Requests, RequestRuns(o) \/ ProbeConflict(o) PROVE ProbeKept(r)
  <2>1. RequestStep(o)
    BY <1>6 DEF RequestRuns, ProbeConflict, RequestStep
  <2>2. PICK x : route' = [route EXCEPT ![o] = x] /\ (x = NoRoute \/ x = route[o])
    BY <1>6 DEF RequestRuns, ProbeConflict
  <2>3. CASE o = r
    BY <1>1, <1>5, <2>1, <2>2, <2>3, NoRouteRow DEF ProbeKept
  <2>4. QED
    BY <1>1, <1>2, <1>5, <2>1, <2>2, <2>3
<1>7. CASE UNCHANGED <<req, route>>
  BY <1>2, <1>7
<1>8. QED
  BY <1>3, <1>4, <1>6, <1>7, <1>9
  DEF BindingNext, CreateStart, OpStart, ReadBinding, Quiescing, VerifyBinding, SectionCommit, SectionEnd,
      UpdatePlanStatus, QuiesceStart, QuiesceAcquire, QuiesceDrained, QuiesceCancelOwn, QuiesceCancel,
      QuiesceRelease, QuiesceReleaseTo, bindingVars, vars

-----------------------------------------------------------------------------
(* What holds for plans that always have an account                        *)

LEMMA BoundInit ==
  ASSUME AlwaysBound, BindingInit
  PROVE  BoundInv
<1>1. BindingInv
  BY BindingStart
<1>2. /\ \A q \in Quiescers : op[q] = NoOp("idle")
      /\ \A r \in Requests : route[r] = NoRoute
  BY DEF BindingInit
<1>3. PlansBound
  BY DEF BindingInit, PlansBound, Exists, AlwaysBound
<1>4. CreatesBound /\ SectionVerified
  BY <1>2, NoOpRow, NoOpKind DEF CreatesBound, SectionVerified
<1>5. ProbeBindingStable
  BY <1>2, NoRouteRow DEF ProbeBindingStable
<1>6. QED
  BY <1>1, <1>3, <1>4, <1>5 DEF BoundInv

LEMMA BoundStep ==
  ASSUME AlwaysBound, BoundInv, [BindingNext]_bindingVars
  PROVE  BoundInv'
<1>1. /\ BindingInv /\ BindingInv' /\ PlansBound /\ CreatesBound /\ SectionVerified /\ ProbeBindingStable
      /\ op \in [Quiescers -> OpRows] /\ route \in [Requests -> RouteRows] /\ op' \in [Quiescers -> OpRows]
  BY BindingStep, RowTypes, StageStep DEF BoundInv, BindingInv
<1>2. PlansBound'
  <2>1. ASSUME NEW p \in Plans, Exists(p)' PROVE plan'[p].acct # Unbound
    <3>1. PlanKept(p)
      BY <1>1, PlanStep
    <3>2. CASE Exists(p) /\ Binding(p)' = Binding(p)
      BY <1>1, <3>2 DEF PlansBound, Binding
    <3>3. QED
      BY <2>1, <3>1, <3>2 DEF PlanKept
  <2>2. QED
    BY <2>1 DEF PlansBound
<1>3. CreatesBound'
  BY <1>1, OpStep DEF OpKept, CreatesBound, AlwaysBound
<1>4. SectionVerified'
  <2>1. ASSUME NEW q \in Quiescers, op'[q].stage = "section", op'[q].kind # "create" PROVE Verified(q)'
    <3>1. OpKept(q) /\ op[q].plan \in Plans /\ PlanKept(op[q].plan)
      BY <1>1, OpStep, PlanStep DEF OpRows
    <3>2. op'[q].plan = op[q].plan /\ op'[q].seen = op[q].seen /\ op[q].kind # "create" /\ Verified(q)
      BY <1>1, <2>1, <3>1 DEF OpKept, MayEnter, SectionVerified
    <3>3. CASE (Exists(op[q].plan) <=> Exists(op[q].plan)') /\ Binding(op[q].plan)' = Binding(op[q].plan)
      BY <3>2, <3>3 DEF Verified
    <3>4. CASE plan' = plan
      BY <3>2, <3>4 DEF Verified, Binding, Exists
    <3>5. CASE plan[op[q].plan].status = "absent"
      BY <3>2, <3>5 DEF Verified, Exists
    <3>6. ASSUME NEW o \in Quiescers, op[o].stage = "section", op[o].kind # "create",
                 op[o].plan = op[q].plan, op'[o].stage = "committed", op[q].stage = "section"
          PROVE  FALSE
      <4>1. Verified(o)
        BY <1>1, <3>6 DEF SectionVerified
      <4>2. q = o
        BY <1>1, <3>2, <3>6, <4>1, SectionsApart
      <4>3. QED
        BY <2>1, <3>6, <4>2
    <3>7. QED
      BY <2>1, <3>1, <3>3, <3>4, <3>5, <3>6 DEF PlanKept, OpKept
  <2>2. QED
    BY <2>1 DEF SectionVerified
<1>5. ProbeBindingStable'
  <2>1. ASSUME NEW r \in Requests, NEW p \in Plans, route'[r].plan = p, req'[r].pc = "held", route'[r].checked,
               Exists(p)'
        PROVE  plan'[p].acct = req'[r].acct /\ plan'[p].gen = route'[r].gen
    <3>1. ProbeKept(r) /\ PlanKept(p)
      BY <1>1, ProbeStep, PlanStep
    <3>2. /\ req[r].pc = "held" /\ req'[r].acct = req[r].acct
          /\ route[r].plan = p /\ route'[r].gen = route[r].gen
          /\ route[r].checked \/ (CurrentRoute(r) /\ UNCHANGED plan)
      BY <2>1, <3>1 DEF ProbeKept
    <3>3. CASE CurrentRoute(r) /\ UNCHANGED plan
      BY <3>2, <3>3 DEF CurrentRoute, Binding
    <3>4. CASE route[r].checked
      <4>1. plan[p].status # "absent"
        BY <1>1, <3>2, <3>4 DEF BindingInv, ProbeInv
      <4>2. Exists(p) => plan[p].acct = req[r].acct /\ plan[p].gen = route[r].gen
        BY <1>1, <3>2, <3>4 DEF ProbeBindingStable, Binding
      <4>3. ASSUME NEW q \in Quiescers, op[q].stage = "section", op[q].kind # "create", op[q].plan = p
            PROVE  FALSE
        <5>1. Verified(q)
          BY <1>1, <4>3 DEF SectionVerified
        <5>2. Exists(p) /\ InFlight(plan[p].acct) = {}
          BY <1>1, <4>3, <5>1, SectionHoldsPlan DEF Verified
        <5>3. QED
          BY <3>2, <4>2, <5>2 DEF InFlight
      <4>4. (Exists(p) <=> Exists(p)') /\ Binding(p)' = Binding(p)
        BY <3>1, <4>1, <4>3 DEF PlanKept
      <4>5. QED
        BY <2>1, <3>2, <4>2, <4>4 DEF Binding
    <3>5. QED
      BY <3>2, <3>3, <3>4
  <2>2. route' \in [Requests -> RouteRows]
    BY RouteStep, <1>1
  <2>3. \A r \in Requests : route'[r].plan \in Plans
    BY <2>2 DEF RouteRows
  <2>4. QED
    BY <2>1, <2>3 DEF ProbeBindingStable, Exists, Binding
<1>6. QED
  BY <1>1, <1>2, <1>3, <1>4, <1>5 DEF BoundInv

(* The invariant holds in every state of operations on plans with accounts. *)
THEOREM BoundInvariant == ASSUME AlwaysBound PROVE BindingSpec => []BoundInv
<1>1. BindingInit => BoundInv
  BY BoundInit
<1>2. BoundInv /\ [BindingNext]_bindingVars => BoundInv'
  BY BoundStep
<1>3. QED
  BY <1>1, <1>2, PTL DEF BindingSpec

(* application/lifecycle.go: in its section an operation has the binding   *)
(* it verified and nothing runs on the accounts it works with, for any     *)
(* number of operations on plans that have an account.                     *)
THEOREM SectionAlwaysOwnsBinding == ASSUME AlwaysBound PROVE BindingSpec => []SectionOwnsBinding
<1>1. BoundInv => SectionOwnsBinding
  BY SectionHolds DEF BoundInv, SectionVerified, SectionOwnsBinding, Wanted
<1>2. QED
  BY <1>1, BoundInvariant, PTL

(* reserveQuotaProbe: a probe that compared its binding and still runs     *)
(* works for the binding the plan has now.                                 *)
THEOREM ProbeAlwaysStable == ASSUME AlwaysBound PROVE BindingSpec => []ProbeBindingStable
<1>1. BoundInv => ProbeBindingStable
  BY DEF BoundInv
<1>2. QED
  BY <1>1, BoundInvariant, PTL

(* quiesceBinding: an account is only given up by a plan when nothing runs *)
(* on it.                                                                  *)
THEOREM BindingAlwaysChangesDrained == ASSUME AlwaysBound PROVE BindingSpec => BindingChangesDrained
<1> DEFINE Drained ==
      \A p \in Plans :
        Exists(p) /\ plan[p].acct # Unbound /\ plan'[p].acct # plan[p].acct => InFlight(plan[p].acct) = {}
<1>1. ASSUME BoundInv, [BindingNext]_bindingVars PROVE Drained
  <2>1. ASSUME NEW p \in Plans, Exists(p), plan'[p].acct # plan[p].acct PROVE InFlight(plan[p].acct) = {}
    <3>1. BindingInv /\ PlansBound /\ SectionVerified /\ PlanKept(p)
      BY <1>1, PlanStep DEF BoundInv
    <3>2. Binding(p)' # Binding(p) /\ plan[p].status # "absent"
      BY <2>1 DEF Binding, Exists
    <3>3. PICK q \in Quiescers : op[q].stage = "section" /\ op[q].kind # "create" /\ op[q].plan = p
      BY <3>1, <3>2 DEF PlanKept
    <3>4. QED
      BY <3>1, <3>3, SectionHoldsPlan DEF SectionVerified
  <2>2. QED
    BY <2>1
<1>2. BoundInv /\ [BindingNext]_bindingVars => [Drained]_bindingVars
  BY <1>1
<1>3. QED
  BY <1>2, BoundInvariant, PTL DEF BindingSpec, BindingChangesDrained
=============================================================================
