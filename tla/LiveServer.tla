----------------------------- MODULE LiveServer -----------------------------
(***************************************************************************)
(* The live helper process (live-server.mjs), the agents that long-poll it *)
(* (live-poll.mjs, live-complete.mjs) and the source they write.           *)
(*                                                                         *)
(* The server is single-threaded: a handler is one action up to its only   *)
(* await, the scaffolding of a generate before it is handed out.  Leases   *)
(* lapse and timers fire at any time after they may.  The page's requests  *)
(* and its event stream are here only as PostEvent and sse; LivePage adds  *)
(* the page.                                                               *)
(*                                                                         *)
(* Not modelled: tokens, origins and validation (they only refuse), manual *)
(* edits, steering and exit (other events of the same queue), static       *)
(* routes; two options that nothing in the repository uses, the types a    *)
(* poll is limited to (--types: here every poll takes every event) and the *)
(* "retry" reply, which releases a lease before it lapses.                 *)
(***************************************************************************)
EXTENDS LiveSession, Sequences, SequencesExt

CONSTANTS
  Sessions,
  Workers,      \* agent processes
  None,         \* no session, no agent
  MaxFaults,    \* lapsed leases, dead agents and server crashes in a behaviour
  MaxStream     \* messages of the event stream not yet read by the page

ASSUME ServerAssumption ==
  /\ IsFiniteSet(Sessions) /\ IsFiniteSet(Workers) /\ None \notin Sessions \cup Workers
  /\ MaxFaults \in Nat /\ MaxStream \in Nat \ {0}

VARIABLES
  up,          \* whether the process runs
  snap,        \* sessionStore: what the journal of each session says
  queue,       \* state.pendingEvents, oldest first
  polls,       \* state.pendingPolls: the agents whose poll is parked
  preparing,   \* leases that wait for runGenerationPreflight: session and agent,
               \* None once the agent is gone
  timer,       \* whether state.leaseTimer is armed
  client,      \* whether the page's event stream is open
  sse,         \* what was written to the open event stream and not yet read
  agent,       \* what each agent does
  source,      \* the variants of a session in the project's files
  receipt,     \* accept-receipts/<id>.json: what live-accept did for a session
  faults

serverVars == <<up, snap, queue, polls, preparing, timer, client, sse, agent, source, receipt,
                faults>>

Types == {"generate", "accept", "discard"}

Entries == [sess : Sessions, type : Types, variant : 0 .. Variants,
            lease : {"none", "live", "lapsed"}, ready : BOOLEAN]

Idle == [st |-> "idle", sess |-> None, type |-> "none", variant |-> 0]

(* What live-poll reports once live-accept has run; "carbonize" is an      *)
(* agent_done whose cleanup is still to be completed.                      *)
Completions == {"complete", "carbonize", "agent_done", "discarded", "error"}

Agents ==
  [st : {"idle", "parked", "waiting", "work", "written", "cleanup"} \cup Completions,
   sess : Sessions \cup {None}, type : Types \cup {"none"}, variant : 0 .. Variants]

(* A wrapper around n variants, or the one variant that an accept kept;    *)
(* late (history) tells that a generation was published after live-accept  *)
(* had written the decision.                                               *)
Sources == [st : {"plain", "wrapped", "accepted"}, n : 0 .. Variants, kept : 0 .. Variants, late : BOOLEAN]

NoReceipt == [op |-> "none", variant |-> 0, carbonize |-> FALSE]

Receipts == [op : {"none", "accept", "discard"}, variant : 0 .. Variants, carbonize : BOOLEAN]

Messages == [type : {"done", "complete", "agent_done", "discarded", "error"}, sess : Sessions,
             carbonize : BOOLEAN]

ServerInit ==
  /\ up = TRUE
  /\ snap = [s \in Sessions |-> baseSnapshot]
  /\ queue = <<>>
  /\ polls = <<>>
  /\ preparing = {}
  /\ timer = FALSE
  /\ client = TRUE
  /\ sse = <<>>
  /\ agent = [w \in Workers |-> Idle]
  /\ source = [s \in Sessions |-> [st |-> "plain", n |-> 0, kept |-> 0, late |-> FALSE]]
  /\ receipt = [s \in Sessions |-> NoReceipt]
  /\ faults = 0

-----------------------------------------------------------------------------
(* The queue                                                               *)

eventPriority(type) == IF type = "generate" THEN 2 ELSE 0

Available(q) == {i \in 1 .. Len(q) : q[i].lease # "live"}

(* selectAvailablePendingEvent: the most urgent free event comes first,    *)
(* the oldest of its priority.                                             *)
precedes(q, i, j) ==
  \/ eventPriority(q[i].type) < eventPriority(q[j].type)
  \/ eventPriority(q[i].type) = eventPriority(q[j].type) /\ i < j

Rank(q, i) == Cardinality({j \in Available(q) : j = i \/ precedes(q, j, i)})

Leased(q) == \E i \in 1 .. Len(q) : q[i].lease = "live"

Position(q, s, types) ==
  CHOOSE i \in 1 .. Len(q) : /\ q[i].sess = s /\ q[i].type \in types
                             /\ \A j \in 1 .. i - 1 : ~(q[j].sess = s /\ q[j].type \in types)

Queued(q, s, types) == \E i \in 1 .. Len(q) : q[i].sess = s /\ q[i].type \in types

(* A generate is handed out only after its scaffold has been computed and  *)
(* journaled.                                                              *)
Scaffolds(e) == e.type = "generate" /\ ~e.ready

(* What the poll that leases e has got when leaseEvent comes to its await  *)
(* or, without one, to its end.                                            *)
leaseEvent(e) ==
  IF Scaffolds(e) THEN [Idle EXCEPT !.st = "waiting"]
                  ELSE [st |-> "work", sess |-> e.sess, type |-> e.type, variant |-> e.variant]

(* MUTANT: the claim is made only after the await of the scaffolding.      *)
ClaimedLate(q, taken) ==
  [i \in 1 .. Len(q) |-> IF i \in taken /\ ~Scaffolds(q[i]) THEN [q[i] EXCEPT !.lease = "live"] ELSE q[i]]

(* leaseEvent claims its entry before the await.                           *)
Claimed(q, taken) ==
  [i \in 1 .. Len(q) |-> IF i \in taken THEN [q[i] EXCEPT !.lease = "live"] ELSE q[i]]

(* flushPendingPolls: the polls in waiting get in turn the most urgent     *)
(* event that is still free, the n-th poll the n-th free event.            *)
Flush(q, waiting, prep, agents) ==
  LET taken == {i \in Available(q) : Rank(q, i) <= Len(waiting)}
      to == [i \in taken |-> waiting[Rank(q, i)]]
  IN  [queue |-> Claimed(q, taken),
       rest |-> SubSeq(waiting, Cardinality(Available(q)) + 1, Len(waiting)),
       preparing |-> prep \cup {[sess |-> q[i].sess, to |-> to[i]] : i \in {k \in taken : Scaffolds(q[k])}},
       agent |-> [w \in Workers |-> IF \E i \in taken : to[i] = w
                                    THEN leaseEvent(q[CHOOSE i \in taken : to[i] = w]) ELSE agents[w]]]

(* MUTANT: scheduleLeaseFlush clears the timer and does not arm it again.  *)
FlushWithoutTimer(q, prep, agents) ==
  LET d == Flush(q, polls, prep, agents)
  IN  /\ queue' = d.queue /\ polls' = d.rest /\ preparing' = d.preparing /\ agent' = d.agent
      /\ timer' = FALSE

(* The outcome of a flush, and scheduleLeaseFlush after it.                *)
FlushPendingPolls(q, prep, agents) ==
  LET d == Flush(q, polls, prep, agents)
  IN  /\ queue' = d.queue /\ polls' = d.rest /\ preparing' = d.preparing /\ agent' = d.agent
      /\ timer' = Leased(d.queue)

(* enqueueEvent: a session has at most one queued event of a type.         *)
Enqueued(q, s, type, variant, ready) ==
  IF Queued(q, s, {type}) THEN q
  ELSE Append(q, [sess |-> s, type |-> type, variant |-> variant, lease |-> "none", ready |-> ready])

(* The one generate that a session may have in the queue leaves it.        *)
retirePendingGeneration(q, s) ==
  IF Queued(q, s, {"generate"}) THEN RemoveAt(q, Position(q, s, {"generate"})) ELSE q

broadcast(m) == IF client THEN Append(sse, m) ELSE sse

Room == client => Len(sse) < MaxStream

-----------------------------------------------------------------------------
(* POST /events                                                            *)

(* Only a generate may start a journal; m is a request of the page.        *)
KnownSession(m) == m.type = "generate" \/ snap[m.sess].exists

Journaled(snapshot, m) ==
  CASE m.type = "generate" -> ApplyGenerate(snapshot, FALSE)
    [] m.type = "checkpoint" -> ApplyCheckpoint(snapshot, m)
    [] m.type = "accept" -> ApplyAccept(snapshot, m.visible)
    [] m.type = "discard" /\ ~m.orphaned -> ApplyDiscard(snapshot)
    [] m.type = "discard" /\ m.orphaned -> ApplyTerminal(ApplyDiscard(snapshot), "discarded")

(* A page that says it still generates although the generation completed   *)
(* has missed the answer: it is sent again.                                *)
detectMissedGenerationCompletion(snapshot, m) ==
  /\ m.type = "checkpoint" /\ m.phase = "generating" /\ m.arrived < Variants
  /\ snapshot.completed /\ snapshot.file /\ ~Fenced(snapshot)

PostEvent(m) ==
  LET retired == IF m.type \in {"accept", "discard"} THEN retirePendingGeneration(queue, m.sess) ELSE queue
      queued == IF m.type = "checkpoint" \/ m.orphaned THEN retired
                ELSE Enqueued(retired, m.sess, m.type, m.visible, FALSE)
  IN  /\ up /\ KnownSession(m) /\ Room
      /\ snap' = [snap EXCEPT ![m.sess] = Journaled(@, m)]
      /\ sse' = IF detectMissedGenerationCompletion(snap[m.sess], m)
                THEN broadcast([type |-> "done", sess |-> m.sess, carbonize |-> FALSE]) ELSE sse
      /\ IF queued # retired THEN FlushPendingPolls(queued, preparing, agent)
         ELSE /\ queue' = retired /\ timer' = IF retired # queue THEN Leased(retired) ELSE timer
              /\ UNCHANGED <<polls, preparing, agent>>
      /\ UNCHANGED <<up, client, source, receipt, faults>>

-----------------------------------------------------------------------------
(* GET /poll and the leases                                                *)

(* handlePollGet: the poll gets a free event at once or is parked.         *)
PollGet(w) ==
  LET d == Flush(queue, <<w>>, preparing, agent)
  IN  /\ up /\ agent[w] = Idle
      /\ IF Available(queue) # {}
         THEN /\ queue' = d.queue /\ preparing' = d.preparing /\ agent' = d.agent /\ polls' = polls
              /\ timer' = IF d.agent[w].st = "work" THEN Leased(d.queue) ELSE timer
         ELSE /\ polls' = Append(polls, w)
              /\ agent' = [agent EXCEPT ![w].st = "parked"]
              /\ timer' = Leased(queue)
              /\ UNCHANGED <<queue, preparing>>
      /\ UNCHANGED <<up, snap, client, sse, source, receipt, faults>>

(* A parked poll times out and live-poll asks again, which matters only    *)
(* when an event is free.                                                  *)
PollTimeout(w) ==
  LET d == Flush(queue, <<w>>, preparing, agent)
  IN  /\ agent[w].st = "parked" /\ Available(queue) # {}
      /\ queue' = d.queue /\ preparing' = d.preparing /\ agent' = d.agent
      /\ polls' = RemoveFirst(polls, w)
      /\ timer' = IF d.agent[w].st = "work" THEN Leased(d.queue) ELSE timer
      /\ UNCHANGED <<up, snap, client, sse, source, receipt, faults>>

(* The scaffolding of a generate ends and leaseEvent goes on: the event is *)
(* journaled again with the scaffold or the failure (the source is not     *)
(* written: --defer-source-write), its lease starts anew and the agent     *)
(* that still waits receives it, retired or not.                           *)
LeaseReady(p) ==
  LET i == Position(queue, p.sess, {"generate"})
      stamped == IF Queued(queue, p.sess, {"generate"})
                 THEN [queue EXCEPT ![i].lease = "live", ![i].ready = TRUE] ELSE queue
  IN  /\ up /\ p \in preparing
      /\ preparing' = preparing \ {p}
      /\ snap' = [snap EXCEPT ![p.sess] = ApplyGenerate(@, TRUE)]
      /\ queue' = stamped /\ timer' = Leased(stamped)
      /\ agent' = IF p.to = None THEN agent
                  ELSE [agent EXCEPT ![p.to] = [st |-> "work", sess |-> p.sess, type |-> "generate",
                                                variant |-> 0]]
      /\ UNCHANGED <<up, polls, client, sse, source, receipt, faults>>

(* The journal cannot be written: the poll is answered "timeout" and the   *)
(* claim stays until it lapses.  The entry is then prepared again, which   *)
(* for one whose scaffold is already in memory (scaffoldAttempted) is only *)
(* the append of recordGenerateDelivery: ready means journaled.            *)
LeaseFails(p) ==
  /\ up /\ p \in preparing /\ faults < MaxFaults
  /\ preparing' = preparing \ {p}
  /\ agent' = IF p.to = None THEN agent ELSE [agent EXCEPT ![p.to] = Idle]
  /\ faults' = faults + 1
  /\ UNCHANGED <<up, snap, queue, polls, timer, client, sse, source, receipt>>

(* A lease runs out, while its agent still works (a fault) or after it is  *)
(* gone.  Never during scaffolding: the preflight is cut off after 15 s,   *)
(* the shortest lease is 30 s.                                             *)
Held(e) == \E w \in Workers : agent[w].sess = e.sess /\ agent[w].type = e.type

LeaseLapses(i) ==
  /\ up /\ i \in 1 .. Len(queue) /\ queue[i].lease = "live"
  /\ \A p \in preparing : p.sess # queue[i].sess
  /\ queue' = [queue EXCEPT ![i].lease = "lapsed"]
  /\ IF Held(queue[i]) THEN faults < MaxFaults /\ faults' = faults + 1 ELSE UNCHANGED faults
  /\ UNCHANGED <<up, snap, polls, preparing, timer, client, sse, agent, source, receipt>>

LeaseTimerFires ==
  /\ up /\ timer /\ \E i \in 1 .. Len(queue) : queue[i].lease = "lapsed"
  /\ FlushPendingPolls([i \in 1 .. Len(queue) |->
                           IF queue[i].lease = "lapsed" THEN [queue[i] EXCEPT !.lease = "none"] ELSE queue[i]],
                       preparing, agent)
  /\ UNCHANGED <<up, snap, client, sse, source, receipt, faults>>

AgentDies(w) ==
  /\ agent[w] # Idle /\ faults < MaxFaults
  /\ agent' = [agent EXCEPT ![w] = Idle]
  /\ polls' = RemoveFirst(polls, w)
  /\ preparing' = {IF p.to = w THEN [p EXCEPT !.to = None] ELSE p : p \in preparing}
  /\ faults' = faults + 1
  /\ UNCHANGED <<up, snap, queue, timer, client, sse, source, receipt>>

-----------------------------------------------------------------------------
(* The agent's work on the source                                          *)

Undecided(s) ==
  receipt[s] = NoReceipt /\ ~\E v \in Workers : agent[v].st = "written" /\ agent[v].sess = s

(* The agent of a generate writes the source: the wrapper and variants in  *)
(* one edit of the lines it was given, the wrapper alone (n = 0,           *)
(* live-wrap) when the preflight has failed, or further variants.  Nothing *)
(* tells it of a decision.                                                 *)
Publish(w, n) ==
  LET s == agent[w].sess
      src == source[s]
  IN  /\ agent[w].st = "work" /\ agent[w].type = "generate"
      /\ src.st = "wrapped" => n > src.n
      /\ source' = [source EXCEPT ![s] = [st |-> "wrapped", n |-> n, kept |-> 0, late |-> src.late \/ ~Undecided(s)]]
      /\ UNCHANGED <<up, snap, queue, polls, preparing, timer, client, sse, agent, receipt, faults>>

(* completionTypeForAcceptResult, for a decision that live-accept handled. *)
Handled(type, carbonize) ==
  CASE type = "discard" -> "discarded"
    [] type = "accept" /\ carbonize -> "carbonize"
    [] type = "accept" /\ ~carbonize -> "complete"

(* MUTANT: no receipt is read, and the markers that a carbonize step still *)
(* needs are taken for those of an undecided session.                      *)
AcceptAnsweredByMarkers(a) ==
  IF source[a.sess].st = "plain" THEN (IF a.type = "accept" THEN "agent_done" ELSE "error") ELSE "apply"

(* live-accept answers from its receipt, or finds nothing to work on.      *)
AcceptAnswered(a) ==
  LET r == receipt[a.sess]
      src == source[a.sess]
      same == r.op = a.type /\ (a.type = "discard" \/ r.variant = a.variant)
  IN  IF r # NoReceipt THEN (IF same THEN Handled(a.type, r.carbonize) ELSE "error")
      ELSE IF src.st # "wrapped" \/ (a.type = "accept" /\ a.variant \notin 1 .. src.n)
           THEN (IF a.type = "accept" THEN "agent_done" ELSE "error")
      ELSE "apply"

AcceptWrites(a) ==
  [source[a.sess] EXCEPT !.st = IF a.type = "accept" THEN "accepted" ELSE "plain", !.n = 0,
                         !.kept = IF a.type = "accept" THEN a.variant ELSE 0]

(* live-accept, up to the source it has written.                           *)
RunAccept(w) ==
  LET a == agent[w]
      answer == AcceptAnswered(a)
  IN  /\ a.st = "work" /\ a.type \in {"accept", "discard"}
      /\ IF answer = "apply"
         THEN /\ source' = [source EXCEPT ![a.sess] = AcceptWrites(a)]
              /\ agent' = [agent EXCEPT ![w].st = "written"]
         ELSE /\ agent' = [agent EXCEPT ![w].st = answer]
              /\ UNCHANGED source
      /\ UNCHANGED <<up, snap, queue, polls, preparing, timer, client, sse, receipt, faults>>

(* The source is locked by another writer for too long: operationFailure.  *)
AcceptFails(w) ==
  /\ agent[w].st = "work" /\ agent[w].type \in {"accept", "discard"} /\ faults < MaxFaults
  /\ agent' = [agent EXCEPT ![w].st = "error"]
  /\ faults' = faults + 1
  /\ UNCHANGED <<up, snap, queue, polls, preparing, timer, client, sse, source, receipt>>

(* The receipt, and with it the result.  An accepted variant with styles   *)
(* of its own still needs the carbonize step.                              *)
WriteReceipt(w, carbonize) ==
  LET a == agent[w]
  IN  /\ a.st = "written"
      /\ carbonize => a.type = "accept"
      /\ receipt' = [receipt EXCEPT ![a.sess] =
                        [op |-> a.type, variant |-> IF a.type = "accept" THEN a.variant ELSE 0,
                         carbonize |-> carbonize]]
      /\ agent' = [agent EXCEPT ![w].st = Handled(a.type, carbonize)]
      /\ UNCHANGED <<up, snap, queue, polls, preparing, timer, client, sse, source, faults>>

-----------------------------------------------------------------------------
(* POST /poll                                                              *)

(* inferSourceEventType: the types of queued event a reply may answer.     *)
inferSourceEventType(s, type) ==
  LET held == {"generate", "accept", "discard"}
      leased == {i \in 1 .. Len(queue) : queue[i].sess = s /\ queue[i].lease = "live"}
  IN  CASE type = "discarded" -> {"discard"}
        [] type = "complete" -> IF Queued(queue, s, {"accept"}) THEN {"accept"}
                                ELSE IF Queued(queue, s, {"generate"}) THEN {"generate"} ELSE held
        [] type \in {"done", "agent_done"} -> {"generate"}
        [] type = "error" -> IF leased = {} THEN {"generate"}
                             ELSE {queue[CHOOSE i \in leased : \A j \in leased : i <= j].type}

(* What the reply adds to the journal; source is the acknowledged type.    *)
JournaledReply(snapshot, type, carbonize, acked) ==
  CASE type = "discarded" -> ApplyTerminal(snapshot, "discarded")
    [] type = "complete" -> ApplyTerminal(snapshot, "completed")
    [] type = "error" -> ApplyError(snapshot, acked)
    [] type \in {"done", "agent_done"} -> ApplyDone(snapshot, carbonize)

(* handlePollPost, for the agent w that goes on as next.  types are the    *)
(* event types the reply names or is inferred to answer.  A reply that     *)
(* acknowledges nothing leaves a finished journal alone.                   *)
handlePollPost(w, type, carbonize, types, next) ==
  LET s == agent[w].sess
      acked == Queued(queue, s, types)
      i == Position(queue, s, types)
  IN  /\ up /\ Room
      /\ snap' = IF ~acked /\ snap[s].phase \in CompletedPhases THEN snap
                 ELSE [snap EXCEPT ![s] = JournaledReply(@, type, carbonize,
                                                         IF acked THEN queue[i].type ELSE "none")]
      /\ FlushPendingPolls(IF acked THEN RemoveAt(queue, i) ELSE queue, preparing,
                           [agent EXCEPT ![w] = next])
      /\ sse' = broadcast([type |-> type, sess |-> s, carbonize |-> carbonize])
      /\ UNCHANGED <<up, client, source, receipt, faults>>

(* The agent of a generate answers: done once its variants are written or  *)
(* a decision has removed their wrapper, error at any time.                *)
ReplyGenerate(w, type) ==
  LET s == agent[w].sess
  IN  /\ agent[w].st = "work" /\ agent[w].type = "generate"
      /\ type = "done" => source[s].n = Variants \/ source[s].st = "accepted" \/ receipt[s] # NoReceipt
      /\ type = "error" => faults < MaxFaults
      /\ handlePollPost(w, type, FALSE, inferSourceEventType(s, type), Idle)

(* completeAcceptHandling: live-poll reports what live-accept did, naming  *)
(* the event it answers.                                                   *)
ReplyDecision(w) ==
  LET a == agent[w]
      carbonize == a.st = "carbonize"
  IN  /\ a.st \in Completions
      /\ handlePollPost(w, IF carbonize THEN "agent_done" ELSE a.st, carbonize, {a.type},
                        IF carbonize THEN [a EXCEPT !.st = "cleanup"] ELSE Idle)

(* live-complete, once the carbonize step is done.  When no server answers *)
(* it appends to the journal itself.                                       *)
Complete(w) ==
  LET s == agent[w].sess
  IN  /\ agent[w].st = "cleanup"
      /\ IF up THEN handlePollPost(w, "complete", FALSE, inferSourceEventType(s, "complete"), Idle)
         ELSE /\ snap' = [snap EXCEPT ![s] = ApplyTerminal(@, "completed")]
              /\ agent' = [agent EXCEPT ![w] = Idle]
              /\ UNCHANGED <<up, queue, polls, preparing, timer, client, sse, source, receipt,
                             faults>>

(* A reply finds no server; the agent gives up and will poll again.        *)
ReplyLost(w) ==
  /\ ~up
  /\ agent[w].st \in Completions \/ (agent[w].st = "work" /\ agent[w].type = "generate")
  /\ agent' = [agent EXCEPT ![w] = Idle]
  /\ UNCHANGED <<up, snap, queue, polls, preparing, timer, client, sse, source, receipt, faults>>

-----------------------------------------------------------------------------
(* The event stream and the life of the process                            *)

(* The process dies; what it kept in memory is gone.                       *)
Crash ==
  /\ up /\ faults < MaxFaults
  /\ up' = FALSE /\ faults' = faults + 1
  /\ queue' = <<>> /\ polls' = <<>> /\ preparing' = {} /\ timer' = FALSE
  /\ client' = FALSE /\ sse' = <<>>
  /\ agent' = [w \in Workers |-> IF agent[w].st \in {"parked", "waiting"} THEN Idle ELSE agent[w]]
  /\ UNCHANGED <<snap, source, receipt>>

(* MUTANT: only generates are restored.                                    *)
RestoredGenerates ==
  LET owed == {s \in Sessions : snap[s].phase \notin CompletedPhases /\ snap[s].pending = "generate"}
      order == SetToSeq(owed)
  IN  [i \in 1 .. Len(order) |-> [sess |-> order[i], type |-> "generate", variant |-> 0,
                                  lease |-> "none", ready |-> snap[order[i]].ready]]

(* restorePendingEventsFromStore: every event that an unfinished session   *)
(* is owed comes back, unleased.                                           *)
RestoredQueue ==
  LET owed == {s \in Sessions : snap[s].phase \notin CompletedPhases /\ snap[s].pending # "none"}
      entry(s) == [sess |-> s, type |-> snap[s].pending,
                   variant |-> IF snap[s].pending = "accept" THEN snap[s].visible ELSE 0,
                   lease |-> "none", ready |-> snap[s].ready]
      order == SetToSeq(owed)
  IN  [i \in 1 .. Len(order) |-> entry(order[i])]

Restart ==
  /\ ~up /\ up' = TRUE
  /\ queue' = RestoredQueue
  /\ UNCHANGED <<snap, polls, preparing, timer, client, sse, agent, source, receipt, faults>>

(* Every step of the server, its timers and the agents; a crash, and what   *)
(* comes from the page are LivePage's.                                     *)
ServerSteps ==
  \/ \E w \in Workers : \/ PollGet(w) \/ PollTimeout(w) \/ AgentDies(w) \/ RunAccept(w)
                        \/ AcceptFails(w) \/ ReplyDecision(w) \/ Complete(w) \/ ReplyLost(w)
                        \/ \E n \in 0 .. Variants : Publish(w, n)
                        \/ \E c \in BOOLEAN : WriteReceipt(w, c)
                        \/ \E type \in {"done", "error"} : ReplyGenerate(w, type)
  \/ \E p \in preparing : LeaseFails(p) \/ LeaseReady(p)
  \/ \E i \in 1 .. Len(queue) : LeaseLapses(i)
  \/ LeaseTimerFires \/ Restart

-----------------------------------------------------------------------------
(* Properties                                                              *)

ServerTypeOK ==
  /\ up \in BOOLEAN /\ timer \in BOOLEAN /\ client \in BOOLEAN
  /\ snap \in [Sessions -> Snapshots]
  /\ queue \in Seq(Entries) /\ polls \in Seq(Workers) /\ sse \in Seq(Messages)
  /\ preparing \in SUBSET [sess : Sessions, to : Workers \cup {None}]
  /\ agent \in [Workers -> Agents]
  /\ source \in [Sessions -> Sources] /\ receipt \in [Sessions -> Receipts]
  /\ faults \in 0 .. MaxFaults

(* While a poll is parked beside an event, be it free or leased to an      *)
(* agent that may never answer, the timer that will wake the poll is armed.*)
Watched == up /\ polls # <<>> /\ queue # <<>> => timer

(* No poll is left asleep beside an event (flushPendingPolls hands out all *)
(* that is free, scheduleLeaseFlush arms the timer for what is leased),    *)
(* except where the timer is set anew without a flush: a generate is       *)
(* retired, or the scaffolding of one that is retired ends, while the      *)
(* lease of another session's event has lapsed.  The poll then takes the   *)
(* event when it times out and asks again (PollTimeout).                   *)
NoLostWakeup ==
  [][Watched /\ ~Watched' =>
        \/ \E s \in Sessions : queue' # queue /\ queue' = retirePendingGeneration(queue, s)
        \/ \E p \in preparing \ preparing' : ~Queued(queue, p.sess, {"generate"})]_serverVars
=============================================================================
