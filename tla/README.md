# ShareSub: a TLA+ verification project

ShareSub lets the owner of an OpenAI account share it with the members of a *plan*: members reach the
account through API keys of their own, and a Go backend (`backend/internal`) admits, routes, meters and
limits their requests over PostgreSQL. The repository also carries the *live mode* of a design tool
(`.agents/skills/impeccable/scripts`, JavaScript): a browser page on which a user picks an element and
asks for variants of it, a helper server, and coding agents that long-poll the server for work and write
the source. This directory holds TLA+ models of both, TLC configurations that check them on small
instances, and TLAPS proofs. Source paths below are relative to `backend/internal/` or, for live mode, to
`.agents/skills/impeccable/scripts/`.

## 1. The system

| component | state it keeps | operations | what is hard |
| --- | --- | --- | --- |
| account traffic controller (`application/account_traffic.go`) | per account: requests in flight, per member, tentative and charged RPM, quiescing flag, idle channel | prepare, commit, release, acquire, reserve, quiesce, quiesceBinding | goroutines between lock regions, cancellation, cleanup of idle states, lock order |
| plan bindings (`application/lifecycle.go`, `postgres/lifecycle.go`) | plan status, account id, binding generation | create, rebind, delete, quota reset, voted reset, archive, restore | what was read before waiting for the account is stale afterwards |
| plan sharing (`postgres/plan_collaboration.go`, `postgres/lifecycle.go`) | members, roles, shares, invitations, public seats, applications | publish, apply, review, invite, accept, revoke, share, convert, transfer, remove, retention cleanup | long sequences of legal calls; reservations that several tables add up to |
| API keys and routes (`postgres/key_metrics.go`) | routes of a key to plans | create, update, revoke, resolve | READ COMMITTED beside SERIALIZABLE transactions |
| gateway access (`application/gateway_access.go`) | - | resolve, reacquire, refresh, record usage | failover, preflight failures, pinned sessions |
| member concurrency policy (`application/concurrency.go`, `postgres/concurrency.go`) | base and maximum slots per member | update, validate against the account | policy, account limit and traffic change separately |
| concurrency history (`application/concurrency_history.go`) | minute buckets with revisions | advance, flush, acknowledge | a failed flush beside new samples |
| token refresh (`application/token_refresh.go`) | tokens, status, lease | lease, refresh, compare-and-set, wait for a peer | several instances, lease expiry, lost replies, status written without the lease, reauthorization |
| quota snapshots (`postgres/key_metrics.go`) | snapshots per account and window, baselines per binding | bind, record, merge, reconcile, reset | signals out of order, of other windows or bindings |
| quota reset votes (`postgres/quota_reset_votes.go`) | vote, ballots, execution lease | create, cast, reserve, complete, reconcile | crash between reserve and complete |
| membership and payment (`postgres/membership*.go`, `payment/easypay.go`) | membership rows, orders | order, cancel, claim, confirm, reconcile, adjust | duplicate and late payment notices |
| WebSocket sessions, HTTP gateway, Codex STATE, identity, billing, monitor, configuration, mail, frontend | | | see `PROJECT.json` |
| live session store (`live/session-store.mjs`) | a journal per session, reduced to a snapshot | append, reduce, list the unfinished | the snapshot is all that survives a crash; late events of a finished phase |
| live helper server (`live-server.mjs`) | event queue with leases, parked polls, lease timer, event stream | POST /events, GET and POST /poll, scaffolding, broadcast, recovery at start | an await between lease and delivery, lapsed leases, restarts, stale replies |
| live agents (`live-poll.mjs`, `live-accept.mjs`, `live-complete.mjs`) | what they hold; accept receipts | poll, write variants, accept, discard, reply, complete | redelivery after a lapse or a crash, lost replies |
| live page (`live-browser.js`) | session state machine, a copy in localStorage | Go, choose, accept, discard, checkpoint, reload, resume, adopt | stream, observer, source reads and answers race each other and the user |
| manual edits, component previews, source rewriting, design detector, hooks | | | see `PROJECT.json` |

How they interact: the gateway resolves a key's routes in the store, asks the traffic controller for
admission, refreshes the account's token if it is about to expire, commits the admission, forwards, and
releases. Management operations quiesce the accounts they touch through the same controller, so that no
request runs while a binding or a quota baseline changes. The store's sharing operations decide which
members, and hence which routes, exist. The concurrency history is fed by every admission and release;
quota signals come with every response, from probes and from resets.

In live mode the page POSTs an event; the server journals it, queues it and hands it to a parked poll
under a lease. Before a generate is handed out its scaffold is computed and journaled (the handler's only
await); the source is not touched (`--defer-source-write`). The agent writes wrapper and variants into the
source in one edit and replies; an accept or discard retires the generate, runs `live-accept`, which writes source
and a receipt, and is acknowledged by a reply or by `live-complete`. Replies are journaled and broadcast
to the page over SSE; what the page misses it recovers from checkpoints' answers, source reads and the
status it reads after a reload.

## 2. Modules

| module | models | extends |
| --- | --- | --- |
| `AccountGate` | what the traffic controller promises, as an abstract specification | |
| `AccountTraffic`, `AccountTrafficProofs` | the traffic controller; it instantiates `AccountGate` as `Gate` | |
| `RPMHistory` | the controller with the number of requests charged per natural minute | `AccountTraffic` |
| `PlanBinding`, `PlanBindingProofs` | bindings and the operations that read or change them, over the controller | `AccountTraffic` |
| `PlanSharing`, `PlanSharingProofs` | one plan's members, invitations, seats and applications | |
| `KeyRoutes` | the routes of members' keys to the plan, beside its members | `PlanSharing` |
| `TokenRefresh`, `TokenRefreshProofs` | the refresh of one account's tokens by several workers | |
| `QuotaResetVotes`, `QuotaProofs` | votes, execution lease and the requests that reset a plan's quota | |
| `QuotaWindows`, `QuotaProofs` | quota snapshots of one account and the baselines of its bindings | |
| `Membership`, `MembershipProofs` | one user's membership and its orders | |
| `ConcurrencyHistory`, `ConcurrencyHistoryProofs` | minute buckets, flush and reader of one series | |
| `LiveSession` | the reducer of the session journal, as operators | |
| `LiveServer` | helper server, agents and source | `LiveSession` |
| `LivePage`, `LiveProofs` | the page, composed with the server | `LiveServer` |
| `MC*` | the small instances (`plan_shares` runs `PlanSharing` itself) | |

A `*Proofs` module extends the module it is about and TLAPS (`PlanBindingProofs` also
`AccountTrafficProofs`, whose invariant it needs; `QuotaProofs` takes in both quota modules, which share
no variable).

`MCBackend` extends the six backend components that share no variable. Its variable `component` picks
the one whose steps a behaviour takes, so their states add up instead of multiplying.

**AccountTraffic.** `st[a]` is `accountTrafficState`; a state that the cleanup drops is `FreshState`,
which is also what a missing map entry is created as. `req[r]` is a goroutine in `prepareRequest`: it
samples the clock in `Arrive` (`gateway_access.go:200`), takes the mutex in `Prepare`, and then holds
`commit` and `release`. Two callers have no credential: a user `Probe` is `reserve` (quota probes: no limits,
no RPM), a user `StateProbe` is `acquire` (Codex STATE probes, `codex_state.go:185`: the account's
concurrency and RPM, but no member's policy). Each lock region is one action. `qpc[q]` is a goroutine in `quiesce`: `acquire` (about to look at the next id), `draining`
(flag set, waiting for `idle`), `blocked`/`woken` (waiting for `changed`), `holding` (returned),
`cancelling` (what it had locked is reopened; the account it was draining follows in a second region).
A call of `commit` after a release, or a second call of either, changes nothing in the code and is not a
step. Times are minutes: the RPM window, the state TTL and the cleanup period are all counted in them.

**AccountGate.** For each account the requests `running` on it; for each operation the accounts it has
`closed` and those of them it has `held` drained. Requests enter open accounts and leave; an operation
closes one account at a time, in order, holds it when nothing runs on it, and opens only its own. The
refinement mapping is `running` <- `InFlight(a)`, `closed` <- `Closed(q)` (what is locked and the account
being drained or given back), `held` <- `qlocked`; counters, channels, RPM windows and cleanups are not
seen.

**PlanBinding.** An operation is `reading`, `quiescing`, in its `section` (upstream probe and
transaction), `committed` and `ended`. `quiesceBinding` retries when the binding has changed; a voted
reset (`QuiescePlanQuotaForMember`) gives up. Transactions are SERIALIZABLE and therefore one action.
Account ownership, account status and the concurrency capacity check of a rebind are left out: they only
refuse. A plan that is deleted never comes back.

**PlanSharing.** One plan; every operation is one SERIALIZABLE transaction that locks the plan row. A
refused call leaves no trace. `lapsed` is an invitation that is pending past `expires_at`, which the
code tells by the clock. Basis points are scaled to 0..`MaxShare`.

**KeyRoutes.** `InsertRoute` is the statement that checks the membership, `CommitRoute` the commit of the
same READ COMMITTED transaction; `RemoveRoutedMember` switches off the routes that its snapshot shows.

**TokenRefresh.** `refresher[r]` is a call of `refreshAccountTokenWithAttempts` in any instance: `List` (the account was
due), `TryAcquireAccountRefreshLease`, `ReadLatest` (the second read, under the lease), `Exchange` at the
provider, `UpdateAccountTokensIfRefreshTokenUnchanged` or
`MarkAccountErrorIfRefreshTokenUnchanged`, and the release. Refresh tokens are numbered as the provider
issues them; an exchange uses its token up, also when its reply is lost (`ExchangeReplyLost`). A call may
return early (`CallFails`), a lease may expire under a worker, a worker may die, the owner may authorize the
account anew at any point, and gateway, owner and administrator write the account's status without the
lease (`SetStatus`). `mishaps` counts what can cost the account its token; the bound is `MaxMishaps`.

**QuotaResetVotes.** A vote has its electorate, support, binding generation and creation time;
`reset[e]` is a request that carries out a voted or a manual reset: prepared, reserved (with the lease of
15 minutes), consumed or unanswered, completed, released. `reconcileQuotaResetVote` is applied where the
code calls it: when a vote is created, cast, viewed or reserved.

**QuotaWindows.** `snapshot` and `baseline` are the rows of the five-hour and the weekly window; a window
is known by its reset time, equal within a tolerance. `initializePlanAccountBinding` starts a binding, also
of an account that was bound before and has snapshots: it writes the rows and baselines of its batch and
removes nothing. Passive signals merge, a probe's batch is all or nothing, counts from the start of the
probe and is refused when the binding has changed, a reset starts the baselines anew.

**Membership.** `member` is the row, `order[o]` the orders; `ConfirmMembershipPayment` is the one place
where notification, the user's check and reconciliation end, and may happen again at any time after the
user has paid. Time is counted in half terms.

**ConcurrencyHistory.** `series` and `bucket` are the collector's memory, `flush` a flush between its copy
and its acknowledgement (the save may commit without an answer), `saved` the rows per instance, `reader`
a `PlanConcurrency` call between its two reads. `truth` is what really happened in each minute. An admission
counts from the tick of its lock region; the code passes the clock that the caller read a moment earlier
(`gateway_access.go:200`) and clamps it to the series' last advance, a difference within the minute that is
still being collected.

**LiveSession, LiveServer.** `snap` is what the journal of a session reduces to; the operators of
`LiveSession` are the cases of its `applyEvent`. The server is single-threaded, so a handler is one
action up to its await: a lease that waits for the scaffolding is in `preparing`, with the agent that
waits for it or nobody once that agent has died. `Flush` is the loop of `flushPendingPolls` in closed
form: the n-th parked poll gets the n-th free event in the order of `selectAvailablePendingEvent` (`Rank`),
the entries are claimed (`Claimed`) before any await, and each poll has the event (`leaseEvent`) or waits
for its scaffolding. `queue` is `pendingEvents`, `polls` the parked responses, `timer` the lease timer. `agent[w]` is what an agent holds
and how far it is: variants written, `live-accept` run, receipt written, reply due. `source[s]` says
whether the session's element is plain, wrapped with `n` variants or accepted with the one kept. Only
agents write it: `Publish` is the edit of `instructions.mjs:98`, at any time while the agent works on the
generate, decided or not, and the history field `late` marks one that came after the decision. Faults
(a lapsed lease, a dead agent, a crash of the server, a reload, a broken stream) share the bound `MaxFaults`.

**LivePage.** `page` is the state machine of `live-browser.js` (`PICKING`, `GENERATING`, `CYCLING`,
`SAVING`), `saved` its copy in localStorage, `handled` the last session it finished. Requests (`posts`),
their `answers` and reads of the source (`reads`) are sets: the network reorders them, and a request may
be lost with the server. `Update` is the document changing under the page's observer. The comparison is
repaired by `ensureCyclingRenderable` where the code calls it.

## 3. Runs

| run | configuration | result |
| --- | --- | --- |
| `traffic` | 1 account, 4 requests or probes, 2 operations, 2 users, 2 minutes, TTL and cleanup period of 1 minute, 2 slots of which 1 is reserved, 2 RPM | passes, 0.9 million states |
| `traffic_live` | 2 accounts, 2 requests, 2 operations, weak fairness | passes, 0.18 million states |
| `rpm_history` | 1 account, RPM limit 1, 3 requests, 2 minutes | `RPMPerMinute` is violated |
| `binding` | 2 plans (1 not created yet), 2 accounts, 3 operations, 1 request or probe, at most 3 generations | passes |
| `first_binding` | the same with a plan that has no account and 2 operations | `RebindHoldsAccount` is violated |
| `plan_shares` | 3 users, 1 invitation row, 2 application rows, shares of 0, 50 and 100 %, 1 seat, retention | `MemberSharesWithin100` is violated |
| `key_routes` | 2 users, 1 invitation, 1 application | `LeaversUnrouted` is violated |
| `components` | 2 refreshers, 3 tokens, 2 mishaps; 3 members, 2 resets, 1 vote, terms of 1; 2 probes, 2 bindings, reset times 0 to 2 (batches 0 and 2) with tolerance 1; 3 orders over 2 half terms, 1 adjustment; minutes of 2 ticks, 4 ticks, 2 requests, 2 instances; 3 users, 1 invitation row, 2 application rows, shares 0 and half, 1 public seat, retention | passes, 1.4 million states |
| `live` | 1 session, 2 agents, 2 variants, 1 fault, 1 unread message, 2 checkpoint revisions, 2 requests under way, 1 click | passes, 2.8 million states |
| `live_progress` | 1 session, 1 agent, 1 variant, 1 fault, weak fairness | passes, 0.13 million states |
| `live_decision` | 2 agents, 1 variant, 1 fault | `DecisionDurable` is violated |
| `live_publish` | 2 agents, 2 variants, no fault | `PublicationsFenced` is violated |

What the properties say:

- `DrainedExclusive`: no request or probe runs on an account that an operation has drained and holds.
- `QuiesceFlagOwned`: an account is closed exactly while one operation owns it; cancellation leaves none closed.
- `CountersExact`: all counters and the idle channel agree with the requests in flight, through commits, early releases, window changes and cleanups.
- `BaseSlotGuaranteed`: while a member is below its base, the members' requests leave a slot free (`docs/architecture.md:129`). The server's own quota and STATE probes are outside the policy and can still fill the account.
- `ConcurrencyBounded`, `WindowWithinRPM`: gateway requests and STATE probes stay within the account's concurrency, charged and tentative admissions of the window in force within its RPM limit.
- `ImplementsGate`: the controller is the gate of `AccountGate`.
- `QuiesceCompletes`, `AccountsReopen`: no deadlock between operations, no lost wake-up, no account closed for ever.
- `AccountBoundOnce`, `SectionOwnsBinding`, `ProbeBindingStable`, `BindingChangesDrained`: an account serves one plan; an operation in its section still has the binding it verified, with nothing running on its accounts; a probe that compared its binding keeps it; a binding is given up only on a drained account.
- `OneOwner`, `ArchivedTakesNobody`, `SharedModeHasNoShares`, `JoiningUsesReservation`, `InvitesSettleOnce`: ownership is unique through transfers and rejoining; an archived plan has nothing left to accept; shared mode carries no shares; joining never raises the allocated total; an invitation admits once.
- `TokenUsable`, `NewerTokenKept`: overlapping refreshes and authorizations alone never lose the account: the stored token is usable or its successor is about to be stored, until a lease is outlived, a worker dies, a write fails, a reply of the provider is lost, or the account is taken out of service while its token is exchanged (the compare-and-set then finds no active row, `store.go:313`). After any of these the account may need a new authorization; no worker, however late, puts an older token over a newer one.
- `MajorityOfMembers`, `CancelledSpendsNothing`, `OneExecution`: a vote passes only with a strict majority of those who are members then; a vote reported as cancelled or expired has consumed nothing, and none consumes twice; a reset is alone within its 15 minutes, also beside a vote whose request has died.
- `BatchWhole`, `BaselineInWindow`, `UseNotForgotten`: the authoritative rows are those of the last batch, and an overtaken probe, or one of an earlier binding, leaves no part of itself; a baseline belongs to the window its account is in and every known window has one. Both except what an account brings along when it is bound again with a weekly-only batch: the five-hour row stays, without a baseline, until the next batch or response. Responses out of order neither lower a window's use nor bring an earlier window back.
- `EntitlementKept`, `PaidCountsOnce`: late, repeated and superseded payments take nothing from an active member; a payment counts once.
- `AcknowledgedIsStored`, `HistoryExact`: a minute that counts as saved is stored as it is; a reader is shown of each complete minute exactly what happened in it, wherever flush, eviction and restart fall.
- `LiveTypeOK`: types, in particular that journal, server and page share one vocabulary of phases.
- `NoLostWakeup`: no step leaves a poll parked beside an event, free or leased, without the timer that wakes it, except the two that set the timer anew without a flush: a generate is retired (an orphaned discard), or the scaffolding of a retired one ends, while the lease of another session has just lapsed (`scheduleLeaseFlush`, `live-server.mjs:517`, arms it only for leases still in the future). The poll then takes the event when it times out and asks again, so nothing is lost for ever. With one session neither exception is met; the theorem `WakeupsKept` states the property for any number of them.
- `HandedOutOnce`: a generate has one agent although its delivery waits for the scaffolding; each further one needs a fault.
- `CyclingHasVariants`: the comparison of a session is never empty and shows one of its variants, whichever of stream, observer, source read (also a late one of another session, `live-browser.js:6203`), reload or refused accept led to it. A page that has been left without a session shows no bar and is not meant: the failure of an accept whose session was cleaned up meanwhile leaves `CYCLING` that way.
- `AcceptedIsChosen`, `AppliedOnce`: the variant left in the source is the one the journal says was chosen; after its receipt no redelivery of the decision changes source or receipt again. A publication after the decision does (see `live_publish`).
- `NotStranded`, `DecisionApplied`: a page does not show a finished generation as running for ever; a journaled decision is carried out or reported as failed.

**Why the bounds are enough.** Four requests on one account are the least for which two members and a
probe hold slots when a fourth is refused, or triggers the cleanup; two accounts and two operations are the least for a cycle of
waiting, three operations for one that waits for a retry of another. Two minutes have one boundary, which
is all the RPM window and the (shortened) TTL see. One invitation row is reused after its cleanup; two
application rows give two applicants at once. Identical requests and operations are symmetric
(not in the liveness run). Two refreshers and one outlived lease are the least for a late compare-and-set,
a second mishap for one that meets a lost reply; two bindings for an account that brings rows along;
three members the least for a majority that a departure changes; two probes for one that overtakes the
other; three orders for two of them to be stale when the third is paid; two ticks to a minute for a
change inside one, four for a minute to be evicted. In live mode two agents are the least for a
redelivery that races the first delivery, two variants for a choice that can be wrong, and one fault of
any kind reaches each recovery path; combinations of two faults are not explored. `live` has one session;
the proofs have no bound on them.

**Deadlock.** `traffic` and `traffic_live` check it: the only state without a successor but itself is the
one in which every goroutine has ended. The others do not: each operation, row, session or unit of time is
used once, and a system that nobody calls rests.

**Fairness** (`FairSpec`): a goroutine that can take its next step takes it, which the Go scheduler and a
mutex that is held only briefly give; requests end because upstream calls have timeouts
(`openai/response_body_timeout.go`) and handlers release with `defer`; management operations end because
their sections are bounded by a request context. Nobody has to arrive and no context has to be cancelled.
In live mode (`Spec` of `LivePage`) agents keep polling and answer what they took, which is the loop of
`live-poll.mjs`; scaffolding ends and the lease timer fires, which are promises and timeouts of one event
loop; a dead server is started again; requests, answers, source reads and the stream are delivered or
lost, and `EventSource` reconnects by itself. Nothing makes the user act or the development server update
the document, and no fault has to happen.

## 4. Where code and documentation disagree

- `rpm_history`: the clock is sampled before the mutex. A caller of the older minute that gets in late
  moves the window back and sets its count to zero; the next caller moves it forward, to zero again
  (`account_traffic.go:91`). A minute then admits more than the limit, against the comment at
  `account_traffic.go:57`.
- `first_binding`: a plan without an account gives `quiesce` nothing to close, so two first bindings run
  their sections together; the later one replaces a binding whose account it does not hold, while the
  retry loop is tested to hold the newest binding (`account_traffic_test.go:296`). `AccountBoundOnce` and
  the store's row locks still hold.
- `plan_shares`: the retention job deletes approved applications, by which occupied seats are counted
  (`resource_cleanup.go:110`), so a seat is given twice and the members' shares pass 100 %, against
  `README.md:18`. Without retention there is a second route: seats published at 0 % and approved, the
  seat's share raised, a member removed, another approved at the new share.
- `key_routes`: a route inserted while its owner is removed stays enabled, against `docs/api.md:205`. The
  gateway refuses it as long as the user is not a member, and serves it again after a rejoin.
- `live_decision`: a generate's worker that reports an error after an accept or discard has retired the
  generate acknowledges nothing (`live-server.mjs:1250`), as the comment at line 1246 wants. But
  `handlePollPost` journals the `agent_error` all the same, without the type of the event (line 1406),
  and the reducer takes it for a failure of the decision and clears `pendingEvent`
  (`live/session-store.mjs:527`). The decision stays queued in memory but a restart does not bring it
  back, against `live-browser.js:8496`, by which the intent is durable when the POST returns.
- `live_publish`: the accept fences journal and queue, and `reference/live.md:199` says that later
  publications are rejected. But the agent edits the source itself (`live/instructions.mjs:98`, the
  preflight defers the write), and nothing it runs looks at the decision: the agent of a retired generate
  may put wrapper and variants back after `live-accept` and its receipt.

Two more disagreements are in the models, as exceptions that the properties make, and have no run of
their own:

- `docs/architecture.md:42` says that the lease serializes the refreshes of an account. It lasts three
  minutes and is not renewed (`token_refresh.go:15`), while its holder makes up to three attempts
  (`config.go:128`) of up to 120 s (`openai/oauth.go:34`): a second instance then presents the same
  refresh token (`LeaseExpires` of `TokenRefresh`). The conditional update keeps the row in order
  (`NewerTokenKept`).
- The comment at `key_metrics.go:458` says that a weekly-only observation is the complete state and that a
  five-hour window recorded earlier is removed. `initializePlanAccountBinding` (`key_metrics.go:15`) does
  not: an account bound again with a weekly-only observation keeps the authoritative five-hour snapshot of
  its earlier binding until the next probe or reset (the exception in `BatchWhole` and
  `BaselineInWindow`).

## 5. Proofs

Every theorem holds for all values of the constants that satisfy the assumptions named in the modules
(finite sets where something is counted, account ids that are numbers so that they can be sorted, limits
and times that are natural numbers).

**AccountTrafficProofs.** `TypeCorrect`, `CountersAlwaysExact`, `FlagsAlwaysOwned`,
`DrainedAlwaysExclusive`: `Spec => []TypeOK`, `[]CountersExact`, `[]QuiesceFlagOwned`,
`[]DrainedExclusive`. The inductive invariant is `TrafficInv`: the four together with `QuiesceShape` (an
operation that looks for accounts still wants one; locks are held only between the first drain and the
release; what is locked is no longer wanted). None of the four is inductive alone. A counter is a natural
number after a decrement only because it counts a set that contains the request (`CountersExact`);
`DrainedExclusive` survives an admission because an admitted account is not flagged and a locked one is
(`QuiesceFlagOwned`), survives the cleanup because a flagged state is not dropped, and starts at a drain
because `idle` means that nothing is in flight; a flag survives a cancellation because the account being
drained is not among the locked ones (`QuiesceShape`). The lemmas follow the code: `CleanedCounts`,
`SeenCounts`, `AdmittedCounts`, `SettledCounts`, `ReturnedCounts` and `FlaggedCounts` say what each
update does to the counters, `MinIn` that the next id is one that is wanted.

`WindowAlwaysWithinRPM` and `ConcurrencyAlwaysBounded` follow from it: admission compares the counters
with the limits, and the counters are exact. Every other update keeps the sum of charged and tentative
admissions or lowers it (`SeenWithin` ... `FlaggedWithin`, one lemma per update); the number of requests
with limits grows only at an admission, at most to the total that was compared.

`BaseSlotAlwaysGuaranteed` (`[]BaseSlotGuaranteed`): the base slots that are reserved and the slots that
users hold beyond their base are counted as sets (`ReservedSlots`, `SharedSlots`), as are the requests in
flight. The invariant (`SharedWithin`) is that the shared slots in use are at most `MaxConcurrency - Reserved` wherever the
reservations fit the account; admission compares exactly that, a release and a cleanup only take slots
away. A member below its base leaves one of the reserved slots unused, so fewer than `MaxConcurrency`
requests of members are in flight; probes, which hold no member's slot, are not counted.

`TrafficImplementsGate` (`Spec => ImplementsGate`) is the refinement. It needs one more invariant,
`LockedBelow`: what an operation has locked lies below all that it still wants, since `quiesce` goes
through its sorted ids. `GateRequest` and `GateQuiesce` map each lock region to an `Enter`, `Leave`,
`Close`, `Hold` or `Open`, or to no step; a `Close` finds the account open because flags have one owner.

**PlanBindingProofs.** `BindingTypeCorrect`, `AccountAlwaysBoundOnce` and `BindingImplementsGate` hold
without further hypotheses. By `ControllerMoves` a step of an operation is, for the controller, a step of
its own, a release that keeps the goroutine for another attempt, or an end before anything was quiesced;
so `TrafficInv` and the gate carry over to the composition. `BindingInv` adds `StageInv`: where an
operation in a given stage is inside the controller, and that the accounts it has locked or still wants
are those of the binding it read and of its target.

`SectionAlwaysOwnsBinding`, `ProbeAlwaysStable` and `BindingAlwaysChangesDrained` have the hypothesis
`AlwaysBound`: no plan starts, or is created, without an account. It cannot be dropped: the run
`first_binding` shows two operations in their sections at once when there is nothing to quiesce. Under
it, `BoundInv` is inductive: an operation in its section has verified its binding and holds the plan's
account; a second section of the same plan would hold the same account, which `QuiesceFlagOwned`
excludes; a verified probe runs on the account and is excluded by `DrainedExclusive`; a creation has a
plan that did not exist.

**PlanSharingProofs.** `SharingTypeCorrect`, `AlwaysOneOwner`, `ArchivedNeverTakesAnybody`,
`SharedModeNeverHasShares` (their conjunction is inductive) and the action properties
`InvitesAlwaysSettleOnce` and `JoiningAlwaysUsesReservation`. `JoinStep` is what every way of joining
does; `InviteRowStep` says what may become of an invitation, which covers archiving, revocation, lapse and
cleanup at once. What is allocated is a sum over rows. `Sum` counts units (the n-th unit of a row), so
that adding and removing a row is a disjoint union and no induction over the rows is needed: the invited
member's units are those the invitation had, the applicant's share is that of one seat less.

**QuotaProofs, votes.** `CancelledNeverSpent`, `AlwaysOneExecution` and `PassesOnlyWithMajority`. The
invariant: one vote is open at a time and its support is within its electorate (`OneOpenVote`); a vote
that has passed has at most one request (`OneRequest`); a request consumes once, after a reservation that
puts its vote past cancellation (`SpentByRequest`); whoever is between reservation and release within the
lease's time is alone, holds the lease row, and has no active vote beside it (`HolderAlone`).
`ReconciledRow` says what reconciliation may do to a vote, since it is part of most transactions.

**ConcurrencyHistoryProofs.** `AcknowledgedAlwaysStored`. A minute that a flush has copied stays dirty
until the flush has stored it; a change after the copy clears the mark of the copy, so that the
acknowledgement does not clear the dirty mark (`MinutesInv`); and a flush belongs to the series that is
in memory (`SeriesInv`), because only its own acknowledgement, or a restart that ends the flush too,
forgets a series.

`HistoryAlwaysExact` (`[]HistoryExact`). The invariant `ExactInv` says of every minute that is still kept
that its rows (stored, or live for the instance of the series) and the ticks since `series.last` make up
what happened (`TruthOK`, with `Accounted` for ticks and peak); that a minute the series does not have
was not stored under its instance (`OwnOK`), so that a new bucket continues nothing, and later instances
have stored nothing (`InstanceOK`); and that a row in the reader's hand is still what is stored, unless
the series has the minute and will replace it (`ReaderOK`). That last part is what an eviction between the
two reads endangers: it survives because an evicted series was idle for longer than anything that is
shown (`QuietOK`, `ShownQuiet`), which is where `HistoryAssumption` is needed: what is kept must cover the window, a
minute and twice the reader's patience (once because the clock moves on while the reader waits, once
because a late reader sets `lastUsed` back). The other lemmas follow the operators: `SumReplaced` and
`HighestPeak` for the totals, `TicksSplit`, `TicksStep` and `TicksOver` for the ticks of a minute,
`AdvancedKnown` and `OpenedKnown` for `advance` and a new series.

**TokenRefreshProofs.** `TokenAlwaysUsable` (`[]TokenUsable`) and `NewerTokenAlwaysKept` (the action
property `NewerTokenKept`). The invariant adds to `TokenUsable` that tokens are ordered (a worker's token
was issued before the one it got in exchange, and nothing exceeds what was issued) and that, before the
first mishap, whoever is between acquiring and releasing is the one holder and, while it exchanges, the
account stays in service unless it is authorized anew: only then can no second exchange use the token up
and no write of the status make the compare-and-set drop the successor.

**QuotaProofs, windows.** `BaselineAlwaysInWindow`, `BatchAlwaysWhole` and `UseNeverForgotten`. The
invariant is the type together with the first two, from the first binding through any number of others; the action property follows from what merging does to
a row, in the lemmas `PassiveRowKeeps` and `BaselineFollows`.

**MembershipProofs.** `EntitlementAlwaysKept` and `PaidAlwaysCountsOnce`. The invariant adds `OrderedFor`:
an order's revision is not ahead of the membership's, and an upgrade whose revision is still current
carries the membership's own expiry; that is why granting an upgrade cannot shorten a term.

**LiveProofs.** `LiveTypeCorrect`, `GenerateHandedOutOnce`, `AcceptedAlwaysChosen`,
`CyclingAlwaysHasVariants` (invariants), `DecisionAppliedOnce` and `WakeupsKept` (action properties) hold
for any number of sessions, agents, variants, faults and requests under way. `FlushDispatches` and the lemmas before it say what a flush does, without saying in
which order it did it: each entry it takes was free and becomes claimed, goes to one poll, and each poll
gets one entry. Every step of `Next` is then one of a few kinds (`NextKinds`): an agent's routine work, a
lapse, a scaffolding that ends, a publication, an application to the source, a crash, a restart, an event
that arrives, a click, Go, or a step the server does not see; each layer of the invariant is proved over
the kinds and not over the thirty actions. The layers of `LiveInv` are

- `ServerInv`, `PageInv`: types, the shape of what an agent holds, and that a dead server holds nothing;
- `CreatedOnce`: one request at most creates a session, and before it arrives the server knows nothing of
  the session;
- `GenerateInv`: one generate of a session at most is in the queue and one is being scaffolded, it is
  claimed as long as it is (a lease is longer than the preflight), and what has been handed out is marked
  as ready in the journal, so that a restart does not scaffold it again;
- `DecidedInv`: a receipt, or an agent that has applied a decision and not yet written its receipt, excludes
  a second such agent, and what the source then holds is what the decision left, or a publication marked as
  late;
- `ChoiceInv`: up to the first click every trace of an accept (queue entry, agent, source) names the
  variant of the journal, which is fenced against later checkpoints, and an accept still under way has no
  trace at the server;
- `CopiesInv`: agents at work on a generate, and one more if a copy is still to be handed out, are at most
  one more than the faults so far.

Neither `AppliedOnce` nor `HandedOutOnce` is inductive without these layers: the former fails if two agents
can apply one decision, the latter if two entries of one generate are queued.

`CyclingAlwaysHasVariants` needs only the types. `Shows` is kept by every step of the page: whatever sets
the counts to zero either leaves the comparison or is followed by `ensureCyclingRenderable`, which shows one of
the variants or gives the session up (`RenderableShows`).

`WakeupsKept` needs only `ServerInv`. After a flush with a poll to spare (`FlushWatches`) there were more
polls than free events, each event has a rank among the free ones and is taken, so what is left is leased
and the timer armed. A poll that asks by itself leaves the timer or arms it for what it took
(`AskingWatches`). What remains are the two exceptions of the property.

Only model-checked, and why:

- liveness (`QuiesceCompletes`, `AccountsReopen`, `NotStranded`, `DecisionApplied`): formulas with
  fairness are outside the prover's reach.

## 6. What is not modelled, and the plan

Backend: payload parsing and streaming, cryptography, HTML and mail, billing arithmetic, the monitor's
reads, configuration and the frontend (pure I/O, library calls or no state of their own). Audit events and
notifications are rows that no operation reads back. Left out of modelled components: fixed shares as
weights of a vote, the amounts and trade numbers of a payment (a report that does not match is refused),
the seconds observed in a concurrency minute, the subscription query after a token refresh.

Live mode: exit events, steering, insert mode, component previews and their mounts, and the staged manual
edits are other events of the same queue or other views of the page; of the document only the number of
variants it shows is kept; `CONFIGURING` is part of Go; the retries of a source read are its last read;
the rewriting of source text is the fact that it was written. A poll may be limited to some types of event
(`--types`) and a reply `retry` releases a lease early; nothing in the repository uses either, and both are
left out. Choosing a variant and accepting it are one step each: the await of `variantSelectionPromise`
(`live-browser.js:8452`) waits only for component previews. The design detector, hooks and context
tools, which are most of the repository's JavaScript, are stateless rules over text or command-line I/O:
a model checker reaches nothing there that a unit test does not.

An observation that is an assumption of `ConcurrencyHistory` (`HistoryAssumption`): minutes must be kept
in memory longer than the window shown, by twice the patience of a reader and a minute, or a reader could
find a minute neither stored nor live. The code keeps one hour more than it shows.

Next, in this order:

1. An abstract queue of live work (an event is owed, taken, settled) that `LiveServer` implements.
2. The manual-edit protocol: stash, chunked apply, repair and rollback.
3. `ConcurrencyPolicy` composed with `AccountTraffic`: reservations fit the account through rebinds and
   account changes; gateway failover over several routes.
4. WebSocket sessions (turns, pinning, shutdown); Codex STATE; verification tokens.
