---------------------------- MODULE PlanBinding ----------------------------
(***************************************************************************)
(* Plans, the OpenAI account each is bound to, and the operations that     *)
(* read or change a binding while requests run                             *)
(* (application/lifecycle.go, application/plans.go, application/admin.go   *)
(* over account_traffic.go's quiesceBinding; the store's transactions in   *)
(* postgres/lifecycle.go and postgres/plan_queries.go).                    *)
(*                                                                         *)
(* A store transaction is serializable and therefore one action.  What an  *)
(* operation read before it may be stale when it commits: that is what the *)
(* quiescing protocol of AccountTraffic is there to prevent.               *)
(***************************************************************************)
EXTENDS AccountTraffic

CONSTANTS
  Plans,          \* plan ids
  Unbound,        \* stands for the empty account id
  Absent,         \* the plans that do not exist yet
  StartBinding,   \* the account each other plan starts with, or Unbound
  CreateWith,     \* the account ids CreatePlan is given; Unbound is the empty one
  MaxGeneration   \* bound on account_binding_generation

ASSUME PlansAssumption ==
  /\ Unbound \notin Accounts
  /\ Plans # {} /\ Absent \subseteq Plans
  /\ StartBinding \in [Plans -> Accounts \cup {Unbound}]
  /\ \A p, o \in Plans \ Absent :
       p # o /\ StartBinding[p] # Unbound => StartBinding[p] # StartBinding[o]
  /\ CreateWith \subseteq Accounts \cup {Unbound}
  /\ MaxGeneration \in Nat \ {0}

VARIABLES
  plan,   \* shared_plans: status, account_id and account_binding_generation
  op,     \* each management operation: its stage, kind, plan, target account and
          \* the binding it read
  route   \* each request: its plan, the generation it read, and whether a probe
          \* has compared that with the plan again

bindingVars == <<vars, plan, op, route>>

Binding(p) == [acct |-> plan[p].acct, gen |-> plan[p].gen]

Exists(p) == plan[p].status \in {"active", "archived"}

NoOp(stage) ==
  [stage |-> stage, kind |-> "none", plan |-> CHOOSE p \in Plans : TRUE,
   target |-> Unbound, seen |-> [acct |-> Unbound, gen |-> 0]]

NoRoute == [plan |-> CHOOSE p \in Plans : TRUE, gen |-> 0, checked |-> FALSE]

BindingInit ==
  /\ Init
  /\ plan = [p \in Plans |->
               IF p \in Absent THEN [status |-> "absent", acct |-> Unbound, gen |-> 0]
               ELSE [status |-> "active", acct |-> StartBinding[p],
                     gen |-> IF StartBinding[p] = Unbound THEN 0 ELSE 1]]
  /\ op = [q \in Quiescers |-> NoOp("idle")]
  /\ route = [r \in Requests |-> NoRoute]

-----------------------------------------------------------------------------
(* Requests and probes                                                     *)

(* ResolveGatewayRoutes, or PlanQuotaCredential for a quota probe: the     *)
(* caller reads the binding of an active plan before it asks for admission.*)
ReadRoute(r, p, u) ==
  /\ plan[p].status = "active" /\ plan[p].acct # Unbound
  /\ Arrive(r, plan[p].acct, u)
  /\ route' = [route EXCEPT ![r] = [plan |-> p, gen |-> plan[p].gen, checked |-> FALSE]]
  /\ UNCHANGED <<plan, op>>

(* A STATE probe reads an account, not a plan: no binding is compared.     *)
ReadAccount(r, a) ==
  /\ Arrive(r, a, StateProbe)
  /\ route' = [route EXCEPT ![r] = NoRoute]
  /\ UNCHANGED <<plan, op>>

(* Mutant of CurrentRoute: only the plan's status is compared.             *)
CurrentRouteActive(r) == plan[route[r].plan].status = "active"

CurrentRoute(r) ==
  /\ plan[route[r].plan].status = "active"
  /\ Binding(route[r].plan) = [acct |-> req[r].acct, gen |-> route[r].gen]

(* reserveQuotaProbe reads the binding again once it holds a slot, and     *)
(* gives up with a conflict when it has changed.                           *)
ProbeRecheck(r) ==
  /\ req[r].pc = "held" /\ req[r].user = Probe /\ ~route[r].checked
  /\ CurrentRoute(r)
  /\ route' = [route EXCEPT ![r].checked = TRUE]
  /\ UNCHANGED <<vars, plan, op>>

ProbeConflict(r) ==
  /\ req[r].user = Probe /\ ~route[r].checked
  /\ ~CurrentRoute(r)
  /\ Release(r)
  /\ route' = [route EXCEPT ![r] = NoRoute]
  /\ UNCHANGED <<plan, op>>

RequestRuns(r) ==
  /\ \/ Prepare(r) \/ Commit(r)
     \/ Release(r) /\ (req[r].user # Probe \/ route[r].checked)
  /\ route' = [route EXCEPT ![r] = IF req'[r].pc = "done" THEN NoRoute ELSE @]
  /\ UNCHANGED <<plan, op>>

-----------------------------------------------------------------------------
(* Management operations                                                   *)

(* CreatePlan quiesces the account it was given without a binding to       *)
(* compare; the others read the plan's binding first.                      *)
CreateStart(q, p, a) ==
  /\ op[q].stage = "idle"
  /\ plan[p].status = "absent"
  /\ op' = [op EXCEPT ![q] = [NoOp("quiescing") EXCEPT !.kind = "create", !.plan = p, !.target = a]]
  /\ QuiesceStart(q, {a} \ {Unbound})
  /\ UNCHANGED <<plan, route>>

OpStart(q, kind, p, a) ==
  /\ op[q].stage = "idle"
  /\ op' = [op EXCEPT ![q] = [NoOp("reading") EXCEPT !.kind = kind, !.plan = p, !.target = a]]
  /\ UNCHANGED <<vars, plan, route>>

(* PlanQuotaCredential and its member variant only find an active plan     *)
(* that has an account.                                                    *)
HasCredential(p) == plan[p].status = "active" /\ plan[p].acct # Unbound

Findable(q) == IF op[q].kind = "voted" THEN HasCredential(op[q].plan) ELSE Exists(op[q].plan)

(* quiesceBinding (and QuiescePlanQuotaForMember for a voted reset): read  *)
(* the binding, quiesce its account and the rebind target.                 *)
ReadBinding(q) ==
  LET p == op[q].plan IN
  /\ op[q].stage = "reading"
  /\ \/ /\ Findable(q)
        /\ op' = [op EXCEPT ![q].stage = "quiescing", ![q].seen = Binding(p)]
        /\ QuiesceStart(q, {plan[p].acct, op[q].target} \ {Unbound})
     \/ /\ ~Findable(q)
        /\ op' = [op EXCEPT ![q] = NoOp("ended")]
        /\ qpc' = [qpc EXCEPT ![q] = "done"]
        /\ UNCHANGED <<minute, st, nextCleanup, req, qwant, qlocked>>
  /\ UNCHANGED <<plan, route>>

(* The controller's own steps; a cancelled wait ends the operation.        *)
Quiescing(q) ==
  /\ op[q].stage = "quiescing"
  /\ QuiesceAcquire(q) \/ QuiesceDrained(q) \/ QuiesceCancelOwn(q) \/ QuiesceCancel(q)
  /\ op' = [op EXCEPT ![q] = IF qpc'[q] = "done" THEN NoOp("ended") ELSE @]
  /\ UNCHANGED <<plan, route>>

(* Everything is drained: read the binding again and go on only if it is   *)
(* the one read before.  quiesceBinding starts over when it has changed; a *)
(* voted reset gives up with a conflict.  Both resets then need the plan's *)
(* quota credential.                                                       *)
Verified(q) == Exists(op[q].plan) /\ Binding(op[q].plan) = op[q].seen

(* Mutant of MayEnter: the binding is not compared.                        *)
MayEnterUnverified(q) ==
  /\ Exists(op[q].plan) \/ op[q].kind = "create"
  /\ op[q].kind \in {"reset", "voted"} => HasCredential(op[q].plan)

MayEnter(q) ==
  \/ op[q].kind = "create"
  \/ Verified(q) /\ (op[q].kind \in {"reset", "voted"} => HasCredential(op[q].plan))

MayRetry(q) ==
  op[q].kind \in {"rebind", "delete", "reset"} /\ Exists(op[q].plan) /\ ~Verified(q)

VerifyBinding(q) ==
  /\ op[q].stage = "quiescing" /\ qpc[q] = "holding"
  /\ \/ /\ MayEnter(q)
        /\ op' = [op EXCEPT ![q].stage = "section"]
        /\ UNCHANGED vars
     \/ /\ MayRetry(q)
        /\ op' = [op EXCEPT ![q].stage = "reading"]
        /\ QuiesceReleaseTo(q, "idle")
     \/ /\ ~MayEnter(q) /\ ~MayRetry(q)
        /\ op' = [op EXCEPT ![q] = NoOp("ended")]
        /\ QuiesceRelease(q)
  /\ UNCHANGED <<plan, route>>

(* Mutant of BoundElsewhere: archived plans are forgotten.                 *)
BoundActively(a, p) == \E o \in Plans \ {p} : plan[o].status = "active" /\ plan[o].acct = a

BoundElsewhere(a, p) == \E o \in Plans \ {p} : Exists(o) /\ plan[o].acct = a

(* Mutant of RebindPlanAccount: the generation is counted twice.           *)
RebindCountedTwice(p, a) ==
  /\ Exists(p) /\ a # Unbound /\ plan[p].acct # a /\ ~BoundElsewhere(a, p)
  /\ plan' = [plan EXCEPT ![p].acct = a, ![p].gen = @ + 2]

(* Store.RebindPlanAccount *)
RebindPlanAccount(p, a) ==
  /\ Exists(p) /\ a # Unbound
  /\ plan[p].acct # a
  /\ ~BoundElsewhere(a, p)
  /\ plan[p].gen < MaxGeneration
  /\ plan' = [plan EXCEPT ![p].acct = a, ![p].gen = @ + 1]

(* Store.DeletePlan *)
DeletePlan(p) ==
  /\ plan[p].status = "archived"
  /\ plan' = [plan EXCEPT ![p] = [status |-> "deleted", acct |-> Unbound, gen |-> 0]]

(* Store.CreatePlan *)
CreatePlan(p, a) ==
  /\ plan[p].status = "absent"
  /\ a # Unbound => ~BoundElsewhere(a, p)
  /\ plan' = [plan EXCEPT ![p] = [status |-> "active", acct |-> a,
                                  gen |-> IF a = Unbound THEN 0 ELSE 1]]

(* The section: the upstream quota probe and the store's transaction.      *)
(* Either may fail, and the operation ends all the same: release is        *)
(* deferred.                                                               *)
SectionCommit(q) ==
  /\ op[q].stage = "section"
  /\ \/ op[q].kind = "rebind" /\ RebindPlanAccount(op[q].plan, op[q].target)
     \/ op[q].kind = "delete" /\ DeletePlan(op[q].plan)
     \/ op[q].kind = "create" /\ CreatePlan(op[q].plan, op[q].target)
  /\ op' = [op EXCEPT ![q].stage = "committed"]
  /\ UNCHANGED <<vars, route>>

SectionEnd(q) ==
  /\ op[q].stage \in {"section", "committed"}
  /\ QuiesceRelease(q)
  /\ op' = [op EXCEPT ![q] = NoOp("ended")]
  /\ UNCHANGED <<plan, route>>

(* Store.UpdatePlanStatus needs no drained account; restoring looks for    *)
(* another plan with the same account.                                     *)
UpdatePlanStatus(p, status) ==
  /\ Exists(p) /\ plan[p].status # status
  /\ status = "active" /\ plan[p].acct # Unbound => ~BoundElsewhere(plan[p].acct, p)
  /\ plan' = [plan EXCEPT ![p].status = status]
  /\ UNCHANGED <<vars, op, route>>

-----------------------------------------------------------------------------
BindingNext ==
  \/ \E r \in Requests, p \in Plans, u \in Users \cup {Probe} : ReadRoute(r, p, u)
  \/ \E r \in Requests, a \in Accounts : ReadAccount(r, a)
  \/ \E r \in Requests : RequestRuns(r) \/ ProbeRecheck(r) \/ ProbeConflict(r)
  \/ \E q \in Quiescers, p \in Plans, a \in CreateWith : CreateStart(q, p, a)
  \/ \E q \in Quiescers, p \in Plans, a \in Accounts : OpStart(q, "rebind", p, a)
  \/ \E q \in Quiescers, p \in Plans, kind \in {"delete", "reset", "voted"} : OpStart(q, kind, p, Unbound)
  \/ \E q \in Quiescers :
       ReadBinding(q) \/ Quiescing(q) \/ VerifyBinding(q) \/ SectionCommit(q) \/ SectionEnd(q)
  \/ \E p \in Plans, status \in {"active", "archived"} : UpdatePlanStatus(p, status)

BindingSpec == BindingInit /\ [][BindingNext]_bindingVars

-----------------------------------------------------------------------------
(* Properties                                                              *)

(* Plans, operations and routes keep their types.                          *)
BindingTypeOK ==
  /\ TypeOK
  /\ plan \in [Plans -> [status : {"absent", "active", "archived", "deleted"},
                         acct : Accounts \cup {Unbound}, gen : 0 .. MaxGeneration]]
  /\ op \in [Quiescers ->
               [stage : {"idle", "reading", "quiescing", "section", "committed", "ended"},
                kind : {"none", "create", "rebind", "delete", "reset", "voted"}, plan : Plans,
                target : Accounts \cup {Unbound},
                seen : [acct : Accounts \cup {Unbound}, gen : 0 .. MaxGeneration]]]
  /\ route \in [Requests -> [plan : Plans, gen : 0 .. MaxGeneration, checked : BOOLEAN]]

(* An account serves at most one plan, archived plans included, whatever   *)
(* creations, rebinds, archivings and restorations interleave.             *)
AccountBoundOnce ==
  \A p, o \in Plans :
    p # o /\ Exists(p) /\ Exists(o) /\ plan[p].acct # Unbound => plan[p].acct # plan[o].acct

(* Inside its section an operation still has the binding it verified, and  *)
(* nothing runs on the account or on the rebind target: what it measures   *)
(* upstream and commits is about this binding alone.                       *)
SectionOwnsBinding ==
  \A q \in Quiescers :
    op[q].stage = "section" =>
      /\ op[q].kind # "create" => Verified(q)
      /\ \A a \in {op[q].seen.acct, op[q].target} \ {Unbound} : InFlight(a) = {}

(* A quota probe that compared its binding and still runs works for the    *)
(* binding the plan has now: what it records is never about another one.   *)
ProbeBindingStable ==
  \A r \in Requests :
    req[r].pc = "held" /\ route[r].checked /\ Exists(route[r].plan) =>
      Binding(route[r].plan) = [acct |-> req[r].acct, gen |-> route[r].gen]

(* A binding is only replaced or dropped while nothing runs on the account *)
(* that is given up.                                                       *)
BindingChangesDrained ==
  [][\A p \in Plans :
       Exists(p) /\ plan[p].acct # Unbound /\ plan'[p].acct # plan[p].acct
         => InFlight(plan[p].acct) = {}]_bindingVars

(* Whatever account the plan has when a rebind is in its section, the      *)
(* rebind holds it: the requests on the account it gives up are drained.   *)
(* quiesceBinding is tested to hold the plan's newest binding, but a plan  *)
(* without an account gives it nothing to hold, and two first bindings of  *)
(* such a plan do not exclude each other.                                  *)
RebindHoldsAccount ==
  \A q \in Quiescers :
    op[q].stage = "section" /\ op[q].kind = "rebind" /\ plan[op[q].plan].acct # Unbound
      => plan[op[q].plan].acct \in qlocked[q]
=============================================================================
