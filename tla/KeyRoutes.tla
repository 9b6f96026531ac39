----------------------------- MODULE KeyRoutes -----------------------------
(***************************************************************************)
(* The API key routes that lead to a shared plan                           *)
(* (backend/internal/postgres/key_metrics.go), beside the plan's members.  *)
(*                                                                         *)
(* CreateAPIKey and UpdateAPIKey run at READ COMMITTED and take no lock on *)
(* the plan or the member row, so the statement that checks the membership *)
(* while it inserts a new route and the commit that makes the route        *)
(* visible are two actions.  The plan is taken to have an account.         *)
(***************************************************************************)
EXTENDS PlanSharing

VARIABLES
  route,  \* the route of each user's API key to the plan
  keyTx   \* the users whose route insertion has run but not committed

routeVars == <<route, keyTx>>
allVars == <<vars, routeVars>>

RouteInit ==
  /\ Init
  /\ route = [u \in Users |-> "none"]
  /\ keyTx = {}

(* insertAPIKeyRoutes for a plan the key has no route to                   *)
InsertRoute(u) ==
  /\ u \notin keyTx /\ route[u] = "none"
  /\ plan.status = "active" /\ u \in Active
  /\ keyTx' = keyTx \cup {u}
  /\ UNCHANGED <<vars, route>>

CommitRoute(u) ==
  /\ u \in keyTx
  /\ route' = [route EXCEPT ![u] = "on"]
  /\ keyTx' = keyTx \ {u}
  /\ UNCHANGED vars

(* UpdateAPIKey locks and replaces the routes the key has, so it cannot    *)
(* overlap a removal; a route it had may stay on an archived plan.         *)
ReplaceRoute(u, new) ==
  /\ u \notin keyTx /\ route[u] # "none"
  /\ new # "none" => u \in Active
  /\ route' = [route EXCEPT ![u] = new]
  /\ UNCHANGED <<vars, keyTx>>

(* RemovePlanMember switches off the routes that its snapshot shows.       *)
RemoveRoutedMember(u) ==
  /\ RemovePlanMember(u)
  /\ route' = [route EXCEPT ![u] = IF @ = "on" THEN "off" ELSE @]
  /\ UNCHANGED keyTx

(* Deleting the plan deletes its routes and fails open insertions.         *)
DeleteRoutedPlan ==
  /\ DeletePlan
  /\ route' = [u \in Users |-> "none"]
  /\ keyTx' = {}

OtherSteps ==
  PublicNext \/ InviteNext \/ ShareNext \/ (\E u \in Users : TransferPlanOwnership(u)) \/ Archive \/ Restore

RouteNext ==
  \/ OtherSteps /\ UNCHANGED routeVars
  \/ DeleteRoutedPlan
  \/ \E u \in Users : InsertRoute(u) \/ CommitRoute(u) \/ RemoveRoutedMember(u)
  \/ \E u \in Users, new \in {"none", "off", "on"} : ReplaceRoute(u, new)

RouteSpec == RouteInit /\ [][RouteNext]_allVars
-----------------------------------------------------------------------------
(* A user that left the plan has no enabled route to it: the test          *)
(* store_integration_test.go requires it after RemovePlanMember, and       *)
(* docs/api.md says that a later rejoin does not revive old routes.        *)
LeaversUnrouted == \A u \in Users : mem[u].status = "removed" => route[u] # "on"
=============================================================================
