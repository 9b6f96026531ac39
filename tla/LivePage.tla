------------------------------ MODULE LivePage ------------------------------
(***************************************************************************)
(* The page that drives a live session (live-browser.js), composed with    *)
(* the server, the agents and the source of LiveServer.                    *)
(*                                                                         *)
(* The page is single-threaded too: a handler is one action.  What it      *)
(* sends travels on concurrent requests that may overtake each other, so   *)
(* posts, answers and source reads are sets; only the event stream keeps   *)
(* its order.  Everything the page keeps in memory is lost by a reload,    *)
(* saved and handled are its localStorage.                                 *)
(*                                                                         *)
(* Not modelled: component (Svelte) previews, insert mode, steering and    *)
(* inline editing, the giving up of the stream after 20 retries, and the   *)
(* search for the picked element (it is always found).                     *)
(***************************************************************************)
EXTENDS LiveServer

CONSTANTS
  MaxRevision,   \* bound on the checkpoints of a page
  MaxPosts,      \* requests on their way when the page may send another
  MaxClicks      \* bound on the accepts and discards of the user

ASSUME PageAssumption == MaxRevision \in Nat /\ MaxPosts \in Nat /\ MaxClicks \in Nat

VARIABLES
  page,      \* the state machine of the page
  saved,     \* localStorage: the session to resume
  handled,   \* localStorage: the last session that was decided
  started,   \* sessions whose id has been drawn
  posts,     \* requests on their way to POST /events
  answers,   \* their answers on the way back
  reads,     \* GET /source requests on their way
  clicks     \* accepts and discards so far

pageVars == <<page, saved, handled, started, posts, answers, reads, clicks>>

vars == <<serverVars, pageVars>>

NoWrapper == -1

FreshPage ==
  [st |-> "PICKING", sess |-> None, arrived |-> 0, visible |-> 0, file |-> FALSE, pending |-> None,
   awaiting |-> None, revision |-> 0, gate |-> None, captures |-> {}, checkpoint |-> FALSE]

States == {"PICKING", "GENERATING", "CYCLING", "SAVING"}

Pages ==
  [st : States, sess : Sessions \cup {None}, arrived : 0 .. Variants, visible : 0 .. Variants, file : BOOLEAN,
   pending : Sessions \cup {None}, awaiting : Sessions \cup {None}, revision : Nat,
   gate : Sessions \cup {None}, captures : SUBSET Sessions, checkpoint : BOOLEAN]

Records ==
  [sess : Sessions \cup {None}, st : States, arrived : 0 .. Variants, visible : 0 .. Variants, file : BOOLEAN,
   revision : Nat]

NotSaved == [sess |-> None, st |-> "PICKING", arrived |-> 0, visible |-> 0, file |-> FALSE, revision |-> 0]

(* after is the session whose creation a request waits for, listening      *)
(* whether the page that sent it is still there for the answer.            *)
Requests ==
  [type : {"generate", "checkpoint", "accept", "discard"}, sess : Sessions, phase : Phases,
   arrived : 0 .. Variants, visible : 0 .. Variants, revision : Nat, file : BOOLEAN,
   orphaned : BOOLEAN, after : Sessions \cup {None}, listening : BOOLEAN]

Replies == [type : {"generate", "checkpoint", "accept", "discard"}, sess : Sessions, ok : BOOLEAN]

Reads == [sess : Sessions, completed : BOOLEAN, orphan : BOOLEAN]

Init ==
  /\ ServerInit
  /\ page = FreshPage
  /\ saved = NotSaved
  /\ handled = None
  /\ started = {}
  /\ posts = {}
  /\ answers = {}
  /\ reads = {}
  /\ clicks = 0

-----------------------------------------------------------------------------
(* What the handlers are made of                                           *)

(* sendEvent: everything but a creation waits for the creation that is on  *)
(* its way when the request is made (sessionCreationGate).                 *)
Post(pg, type, s, orphaned) ==
  [type |-> type, sess |-> s, phase |-> "new", arrived |-> 0, visible |-> IF type = "accept" THEN pg.visible ELSE 0,
   revision |-> 0, file |-> FALSE, orphaned |-> orphaned,
   after |-> IF type = "generate" THEN None ELSE pg.gate, listening |-> TRUE]

PhaseOf(st) ==
  CASE st = "PICKING" -> "picking" [] st = "GENERATING" -> "generating" [] st = "CYCLING" -> "cycling"
    [] st = "SAVING" -> "saving"

(* checkpointPayload, with the page's next revision.                       *)
Checkpoint(pg) ==
  [Post(pg, "checkpoint", pg.sess, FALSE) EXCEPT
     !.phase = PhaseOf(pg.st), !.arrived = pg.arrived, !.visible = pg.visible, !.file = pg.file,
     !.revision = pg.revision + 1]

Counted(pg) == [pg EXCEPT !.revision = @ + 1]

(* The bound on the requests that are on their way together.              *)
Uncongested == Cardinality(posts) < MaxPosts

(* saveSession                                                             *)
Save(pg) ==
  IF pg.sess = None THEN saved
  ELSE [sess |-> pg.sess, st |-> pg.st, arrived |-> pg.arrived, visible |-> pg.visible, file |-> pg.file,
        revision |-> pg.revision]

(* The page's new memory, stored, without and with a checkpoint.           *)
Keep(pg) == /\ page' = pg /\ saved' = Save(pg)

KeepAndSend(pg) == /\ Keep(Counted(pg)) /\ posts' = posts \cup {Checkpoint(pg)}

(* cleanup keeps the counts of the variants and a pending accept.          *)
cleanup(pg) == [pg EXCEPT !.st = "PICKING", !.sess = None, !.file = FALSE]

cleanupAcceptedSession(pg) == [cleanup(pg) EXCEPT !.pending = None]

markSessionHandled == handled' = IF page.sess = None THEN handled ELSE page.sess

(* The end of a session that is known to be decided.                       *)
Finish(pg) == /\ markSessionHandled /\ page' = pg /\ saved' = NotSaved

InRange(v, n) == v \in 1 .. n

(* The variant to show: the one shown before, the saved one, the first.    *)
Shown(s, n, before) ==
  CASE InRange(before, n) -> before
    [] ~InRange(before, n) /\ saved.sess = s /\ InRange(saved.visible, n) -> saved.visible
    [] OTHER -> IF n > 0 THEN 1 ELSE 0

(* ensureCyclingRenderable, by which the bar comes to show the comparison: *)
(* one of the variants is shown, and one without variants is given up.     *)
Repaired(pg) == [pg EXCEPT !.visible = IF InRange(@, pg.arrived) THEN @ ELSE 1]

ensureCyclingRenderable(pg) ==
  IF pg.arrived > 0 THEN page' = Repaired(pg) /\ UNCHANGED saved
                    ELSE page' = cleanup(pg) /\ saved' = NotSaved

-----------------------------------------------------------------------------
(* The user                                                                *)

(* handleGo, with the click that picked the element.  A request with       *)
(* annotations is sent by captureAndEmit after the screenshot; the first   *)
(* checkpoint is sent here in both cases.                                  *)
handleGo(s, annotated) ==
  LET pg == [page EXCEPT !.st = "GENERATING", !.sess = s, !.arrived = 0, !.visible = 0, !.file = FALSE,
                         !.pending = None, !.awaiting = None]
  IN  /\ page.st = "PICKING" /\ s \notin started
      /\ started' = started \cup {s}
      /\ Keep(Counted(IF annotated THEN [pg EXCEPT !.captures = @ \cup {s}] ELSE [pg EXCEPT !.gate = s]))
      /\ posts' = posts \cup {Checkpoint(pg)} \cup (IF annotated THEN {} ELSE {Post(pg, "generate", s, FALSE)})
      /\ UNCHANGED <<serverVars, handled, answers, reads, clicks>>

captureAndEmit(s) ==
  /\ s \in page.captures
  /\ page' = [page EXCEPT !.captures = @ \ {s}, !.gate = s]
  /\ posts' = posts \cup {Post(page, "generate", s, FALSE)}
  /\ UNCHANGED <<serverVars, saved, handled, started, answers, reads, clicks>>

selectVariant(v) ==
  /\ page.st = "CYCLING" /\ v \in 1 .. page.arrived /\ v # page.visible /\ page.revision < MaxRevision
  /\ Keep([page EXCEPT !.visible = v, !.checkpoint = TRUE])
  /\ UNCHANGED <<serverVars, handled, started, posts, answers, reads, clicks>>

(* The choice is used as it is read: the await of variantSelectionPromise  *)
(* waits for nothing but the mount of a component preview.                 *)
handleAccept ==
  LET pg == [page EXCEPT !.st = "SAVING", !.pending = page.sess]
  IN  /\ page.st = "CYCLING" /\ page.pending = None /\ page.sess # None /\ page.arrived > 0 /\ Uncongested
      /\ clicks < MaxClicks /\ clicks' = clicks + 1
      /\ Keep(pg)
      /\ posts' = posts \cup {Post(pg, "accept", page.sess, FALSE)}
      /\ UNCHANGED <<serverVars, handled, started, answers, reads>>

handleDiscard ==
  /\ page.st = "CYCLING" /\ page.sess # None /\ Uncongested
  /\ clicks < MaxClicks /\ clicks' = clicks + 1
  /\ posts' = posts \cup {Post(page, "discard", page.sess, FALSE)}
  /\ UNCHANGED <<serverVars, page, saved, handled, started, answers, reads>>

-----------------------------------------------------------------------------
(* Requests and their answers                                              *)

Answer(p, ok) == [type |-> p.type, sess |-> p.sess, ok |-> ok]

(* A checkpoint is only listened to for the refusal of an unknown session. *)
Answered(p, ok) ==
  IF p.listening /\ ~p.orphaned /\ (p.type # "checkpoint" \/ ~ok) THEN answers \cup {Answer(p, ok)} ELSE answers

Deliver(p) ==
  /\ up /\ p \in posts /\ p.after = None
  /\ posts' = posts \ {p}
  /\ IF KnownSession(p)
     THEN PostEvent(p) /\ answers' = Answered(p, TRUE)
     ELSE answers' = Answered(p, FALSE) /\ UNCHANGED serverVars
  /\ UNCHANGED <<page, saved, handled, started, reads, clicks>>

(* No server, or a page that has gone away with the request unsent.        *)
Lose(p) ==
  /\ p \in posts /\ p.after = None /\ (~up \/ ~p.listening)
  /\ posts' = posts \ {p}
  /\ answers' = IF p.type = "checkpoint" THEN answers ELSE Answered(p, FALSE)
  /\ UNCHANGED <<serverVars, page, saved, handled, started, reads, clicks>>

CreationAnswered(a) ==
  /\ a \in answers /\ a.type = "generate"
  /\ answers' = answers \ {a}
  /\ page' = [page EXCEPT !.gate = IF @ = a.sess THEN None ELSE @]
  /\ posts' = {IF p.after = a.sess THEN [p EXCEPT !.after = None] ELSE p : p \in posts}
  /\ UNCHANGED <<serverVars, saved, handled, started, reads, clicks>>

(* The server does not know the session: abandonForeignSession.            *)
CheckpointRefused(a) ==
  /\ a \in answers /\ a.type = "checkpoint"
  /\ answers' = answers \ {a}
  /\ IF a.sess = page.sess THEN Finish(cleanup(page)) ELSE UNCHANGED <<page, saved, handled>>
  /\ UNCHANGED <<serverVars, started, posts, reads, clicks>>

(* The accept is durable: the picker is free at once.  A failed one gives  *)
(* the comparison back, which is refused when it would be empty.           *)
AcceptAnsweredToPage(a) ==
  LET kept == [page EXCEPT !.st = "CYCLING", !.pending = IF @ = a.sess THEN None ELSE @]
  IN  /\ a \in answers /\ a.type = "accept"
      /\ answers' = answers \ {a}
      /\ \/ /\ a.ok /\ page.pending = a.sess
            /\ Finish(cleanupAcceptedSession([page EXCEPT !.awaiting = a.sess]))
         \/ /\ a.ok /\ page.pending # a.sess
            /\ UNCHANGED <<page, saved, handled>>
         \/ /\ ~a.ok /\ UNCHANGED handled
            /\ ensureCyclingRenderable(kept)
      /\ UNCHANGED <<serverVars, started, posts, reads, clicks>>

DiscardAnswered(a) ==
  /\ a \in answers /\ a.type = "discard"
  /\ answers' = answers \ {a}
  /\ IF a.ok THEN Finish(cleanup(page)) ELSE UNCHANGED <<page, saved, handled>>
  /\ UNCHANGED <<serverVars, started, posts, reads, clicks>>

(* queueCheckpoint's timer                                                 *)
CheckpointTimer ==
  LET pg == [page EXCEPT !.checkpoint = FALSE]
  IN  /\ page.checkpoint /\ Uncongested
      /\ IF page.sess = None THEN page' = pg /\ UNCHANGED <<saved, posts>>
         ELSE /\ page' = Counted(pg)
              /\ saved' = IF saved.sess = None THEN saved ELSE [saved EXCEPT !.revision = page.revision + 1]
              /\ posts' = posts \cup {Checkpoint(pg)}
      /\ UNCHANGED <<serverVars, handled, started, answers, reads, clicks>>

-----------------------------------------------------------------------------
(* The event stream                                                        *)

(* done: the variants are there already, or are read from the source when  *)
(* no update of the document brings them.                                  *)
OnDone(m) ==
  LET known == [page EXCEPT !.file = TRUE]
  IN  /\ m.type = "done"
      /\ IF page.arrived = Variants /\ page.st = "GENERATING"
         THEN ensureCyclingRenderable([known EXCEPT !.st = "CYCLING"])
         ELSE page' = known /\ UNCHANGED saved
      /\ reads' = IF page.arrived < Variants /\ page.st = "GENERATING" /\ page.sess = m.sess
                  THEN reads \cup {[sess |-> m.sess, completed |-> TRUE, orphan |-> FALSE]} ELSE reads
      /\ UNCHANGED handled

(* complete, and an agent_done that still carbonizes: the accept is final. *)
OnAccepted(m) ==
  LET pg == IF page.awaiting = m.sess THEN [page EXCEPT !.awaiting = None] ELSE page
  IN  /\ m.type = "complete" \/ (m.type = "agent_done" /\ m.carbonize)
      /\ \/ /\ page.pending = m.sess /\ page.sess \in {None, m.sess}
            /\ Finish(cleanupAcceptedSession(pg))
         \/ /\ page.pending = m.sess /\ page.sess \notin {None, m.sess}
            /\ page' = [pg EXCEPT !.pending = None] /\ UNCHANGED <<saved, handled>>
         \/ /\ page.pending # m.sess
            /\ page' = pg /\ UNCHANGED <<saved, handled>>
      /\ UNCHANGED reads

OnAgentDone(m) ==
  /\ m.type = "agent_done" /\ ~m.carbonize
  /\ UNCHANGED <<page, saved, handled, reads>>

OnDiscarded(m) ==
  /\ m.type = "discarded"
  /\ IF m.sess = page.sess THEN Finish(cleanup(page)) ELSE UNCHANGED <<page, saved, handled>>
  /\ UNCHANGED reads

(* The error of an accept gives the comparison back; without a session the *)
(* bar is hidden and nothing is rendered.                                  *)
OnError(m) ==
  /\ m.type = "error"
  /\ \/ /\ page.pending = m.sess /\ UNCHANGED handled
        /\ LET kept == [page EXCEPT !.pending = None, !.awaiting = None, !.st = "CYCLING"]
           IN  IF page.sess = None THEN page' = kept /\ UNCHANGED saved ELSE ensureCyclingRenderable(kept)
     \/ /\ page.pending # m.sess /\ page.awaiting = m.sess
        /\ page' = [page EXCEPT !.awaiting = None] /\ UNCHANGED <<saved, handled>>
     \/ /\ m.sess \notin {page.pending, page.awaiting} /\ page.sess = m.sess
        /\ Finish(cleanup(page))
     \/ /\ m.sess \notin {page.pending, page.awaiting, page.sess}
        /\ page' = [page EXCEPT !.st = "PICKING"]
        /\ saved' = IF saved.sess = m.sess THEN NotSaved ELSE saved
        /\ UNCHANGED handled
  /\ UNCHANGED reads

ReadStream ==
  /\ client /\ sse # <<>>
  /\ sse' = Tail(sse)
  /\ LET m == Head(sse) IN OnDone(m) \/ OnAccepted(m) \/ OnAgentDone(m) \/ OnDiscarded(m) \/ OnError(m)
  /\ UNCHANGED <<up, snap, queue, polls, preparing, timer, client, agent, source, receipt, faults>>
  /\ UNCHANGED <<started, posts, answers, clicks>>

-----------------------------------------------------------------------------
(* The document and the source                                             *)

(* injectVariantsFromSource, when the last of its reads answers.           *)
SourceUnread(r) == ~up /\ UNCHANGED <<page, saved, handled, posts>>

WrapperMissing(r) ==
  /\ up /\ source[r.sess].st # "wrapped"
  /\ IF r.orphan /\ r.sess = page.sess /\ page.st \in {"GENERATING", "CYCLING"}
     THEN /\ posts' = posts \cup {Post(page, "discard", r.sess, TRUE)}
          /\ Finish(cleanup(page))
     ELSE UNCHANGED <<page, saved, handled, posts>>

(* An empty wrapper ends the session once the generation is over.          *)
WrapperEmpty(r) ==
  LET pg == [page EXCEPT !.arrived = 0]
  IN  /\ up /\ source[r.sess].st = "wrapped" /\ source[r.sess].n = 0
      /\ IF page.st = "GENERATING" /\ ~r.completed THEN page' = pg /\ UNCHANGED saved
         ELSE page' = cleanup(pg) /\ saved' = NotSaved
      /\ UNCHANGED <<handled, posts>>

VariantsRead(r) ==
  LET n == source[r.sess].n
  IN  /\ up /\ source[r.sess].st = "wrapped" /\ n > 0
      /\ Keep([page EXCEPT !.st = "CYCLING", !.arrived = n, !.file = TRUE,
                           !.visible = Shown(r.sess, n, IF page.sess = r.sess THEN page.visible ELSE 0)])
      /\ UNCHANGED <<handled, posts>>

injectVariantsFromSource(r) ==
  /\ r \in reads
  /\ reads' = reads \ {r}
  /\ SourceUnread(r) \/ WrapperMissing(r) \/ WrapperEmpty(r) \/ VariantsRead(r)
  /\ UNCHANGED <<serverVars, started, answers, clicks>>

Rendered(s) == IF source[s].st = "wrapped" THEN source[s].n ELSE NoWrapper

(* MUTANT: a wrapper is resumed as a comparison although it is empty.      *)
ResumedCycling(pg, s) ==
  LET n == Rendered(s)
  IN  [pg EXCEPT !.sess = s, !.arrived = n, !.visible = Shown(s, n, 0),
                 !.file = @ \/ (saved.sess = s /\ saved.file), !.st = "CYCLING",
                 !.checkpoint = @ \/ ~(0 < n /\ n < Variants)]

(* resumeSession, for the wrapper of s that the document shows.            *)
Resumed(pg, s) ==
  LET n == Rendered(s)
      visible == Shown(s, n, 0)
  IN  [pg EXCEPT !.sess = s, !.arrived = n, !.visible = visible,
                 !.file = @ \/ (saved.sess = s /\ saved.file),
                 !.st = IF n > 0 THEN "CYCLING" ELSE "GENERATING",
                 !.checkpoint = @ \/ ~(0 < n /\ n < Variants)]

Resume(pg, s, kept) ==
  IF handled = s THEN page' = pg /\ saved' = saved /\ posts' = kept
  ELSE LET new == Resumed(pg, s)
       IN  IF 0 < new.arrived /\ new.arrived < Variants
           THEN Keep(Counted(new)) /\ posts' = kept \cup {Checkpoint(new)}
           ELSE Keep(new) /\ posts' = kept

(* An update of the document reaches the observer of the current session.  *)
Update ==
  LET n == Rendered(page.sess)
  IN  /\ page.sess # None /\ n > page.arrived /\ Uncongested
      /\ KeepAndSend(Repaired([page EXCEPT !.arrived = n, !.st = "CYCLING",
                                           !.visible = IF @ = 0 THEN Shown(page.sess, n, 0) ELSE @]))
      /\ UNCHANGED <<serverVars, handled, started, answers, reads, clicks>>

-----------------------------------------------------------------------------
(* Reloads and connections                                                 *)

TerminalSummary(s) == snap[s].phase \in {"completed", "discarded", "discard_requested", "accept_requested"}

ActiveSessions == {s \in Sessions : snap[s].exists /\ snap[s].phase \notin CompletedPhases}

(* restoreSessionWithoutWrapper: local is the local record or the shape of *)
(* the adopted server session, server what the server says, if known.      *)
Restored(pg, local, server) ==
  LET arrived == IF local.arrived > 0 THEN local.arrived ELSE server.arrived
      top == IF arrived > 0 THEN arrived ELSE Variants
  IN  [pg EXCEPT !.sess = local.sess, !.st = "GENERATING", !.file = @ \/ local.file \/ server.file,
                 !.arrived = arrived, !.checkpoint = TRUE,
                 !.visible = CASE InRange(local.visible, top) -> local.visible
                               [] ~InRange(local.visible, top) /\ InRange(server.visible, top) -> server.visible
                               [] OTHER -> IF arrived > 0 THEN 1 ELSE 0]

Restorable(local) == local.sess # None /\ handled # local.sess /\ local.st \in {"GENERATING", "CYCLING"}

RestoreReads(local, pg) ==
  IF pg.file THEN {[sess |-> local.sess, completed |-> FALSE, orphan |-> local.st = "CYCLING"]} ELSE {}

(* The page is loaded anew: memory, listeners and reads are gone, what was *)
(* sent stays on its way, and the document shows the source.               *)
Reload ==
  LET kept == {[p EXCEPT !.listening = FALSE] : p \in {p \in posts : p.after = None}}
      pg == [FreshPage EXCEPT !.revision = saved.revision]
      shown == {s \in Sessions : Rendered(s) # NoWrapper}
  IN  /\ faults < MaxFaults /\ faults' = faults + 1
      /\ client' = FALSE /\ sse' = <<>>
      /\ answers' = {}
      /\ \/ \E s \in shown : Resume(pg, s, kept) /\ reads' = {} /\ UNCHANGED handled
         \/ /\ shown = {} /\ Restorable(saved)
            /\ LET new == Restored(pg, saved, NotSaved)
               IN  Keep(new) /\ reads' = RestoreReads(saved, new)
            /\ posts' = kept /\ UNCHANGED handled
         \/ /\ shown = {} /\ ~Restorable(saved)
            /\ page' = pg /\ saved' = NotSaved /\ handled' = None /\ reads' = {} /\ posts' = kept
      /\ UNCHANGED <<up, snap, queue, polls, preparing, timer, agent, source, receipt, started, clicks>>

Summary(s) == [arrived |-> snap[s].arrived, visible |-> snap[s].visible, file |-> snap[s].file]

Adoptable ==
  {s \in ActiveSessions : /\ ~TerminalSummary(s) /\ handled # s /\ snap[s].file
                          /\ snap[s].phase \in {"generate_requested", "variants_ready", "generating", "cycling"}}

(* serverSessionAsSavedShape                                               *)
Adopted(s) ==
  [sess |-> s, st |-> "GENERATING", arrived |-> snap[s].arrived, visible |-> snap[s].visible,
   file |-> snap[s].file, revision |-> 0]

(* Whether the connected message may restore local: it does when the       *)
(* document shows no wrapper, which one that compares variants shows.      *)
MayRestore(local) ==
  /\ page.st \notin {"CYCLING", "SAVING"}
  /\ Restorable(local)
  /\ ActiveSessions # {} => local.sess \in ActiveSessions /\ ~TerminalSummary(local.sess)

Locals ==
  IF saved.sess # None THEN {saved} ELSE IF Adoptable = {} THEN {NotSaved} ELSE {Adopted(s) : s \in Adoptable}

(* MUTANT: a connection recovers nothing.                                  *)
NothingMissed(pg) == {}

(* recoverMissedGenerationCompletion                                       *)
Missed(pg) ==
  IF /\ pg.sess # None /\ pg.st = "GENERATING" /\ pg.sess \in ActiveSessions
     /\ snap[pg.sess].completed /\ ~snap[pg.sess].canceled /\ ~TerminalSummary(pg.sess)
     /\ pg.arrived < Variants /\ snap[pg.sess].file
  THEN {[sess |-> pg.sess, completed |-> TRUE, orphan |-> FALSE]} ELSE {}

(* The stream opens, and the page handles its first message, connected.    *)
Connect ==
  /\ up /\ ~client /\ client' = TRUE
  /\ \/ /\ page' = [page EXCEPT !.file = @ \/ Missed(page) # {}]
        /\ reads' = reads \cup Missed(page)
        /\ UNCHANGED saved
     \/ \E local \in Locals :
          LET server == IF local.sess \in ActiveSessions THEN Summary(local.sess) ELSE NotSaved
              new == Restored(page, local, server)
          IN  /\ MayRestore(local)
              /\ Keep(new)
              /\ reads' = reads \cup RestoreReads(local, new) \cup Missed(new)
  /\ UNCHANGED <<up, snap, queue, polls, preparing, timer, sse, agent, source, receipt, faults>>
  /\ UNCHANGED <<handled, started, posts, answers, clicks>>

(* The connection of the stream breaks; the browser will open another.     *)
Drop ==
  /\ faults < MaxFaults /\ faults' = faults + 1
  /\ client /\ client' = FALSE /\ sse' = <<>>
  /\ UNCHANGED <<up, snap, queue, polls, preparing, timer, agent, source, receipt, pageVars>>

(* With the server, the answers that were on their way are lost.           *)
ServerCrash ==
  /\ Crash
  /\ answers' = {[a EXCEPT !.ok = FALSE] : a \in {a \in answers : a.type # "checkpoint"}}
  /\ UNCHANGED <<page, saved, handled, started, posts, reads, clicks>>

-----------------------------------------------------------------------------

UserSteps ==
  \/ handleAccept \/ handleDiscard
  \/ \E s \in Sessions, annotated \in BOOLEAN : handleGo(s, annotated)
  \/ \E v \in 1 .. Variants : selectVariant(v)

PageSteps ==
  \/ \E s \in Sessions : captureAndEmit(s)
  \/ \E p \in posts : Deliver(p) \/ Lose(p)
  \/ \E a \in answers : CreationAnswered(a) \/ CheckpointRefused(a) \/ AcceptAnsweredToPage(a)
                         \/ DiscardAnswered(a)
  \/ \E r \in reads : injectVariantsFromSource(r)
  \/ CheckpointTimer \/ Update \/ ReadStream \/ Reload \/ Connect \/ Drop \/ ServerCrash

Next == (ServerSteps /\ UNCHANGED pageVars) \/ UserSteps \/ PageSteps

(* Agents keep polling and answer what they took; the network delivers,    *)
(* timers fire, a dead server is started again.  Nothing makes the user    *)
(* act, nor the development server update the document.                    *)
AgentProgress(w) ==
  \/ PollGet(w) \/ (\E n \in 0 .. Variants : Publish(w, n)) \/ RunAccept(w) \/ ReplyDecision(w) \/ Complete(w) \/ ReplyLost(w)
  \/ \E c \in BOOLEAN : WriteReceipt(w, c)
  \/ ReplyGenerate(w, "done")

ServerProgress ==
  \/ \E p \in preparing : LeaseReady(p)
  \/ \E i \in 1 .. Len(queue) : LeaseLapses(i) /\ ~Held(queue[i])
  \/ LeaseTimerFires \/ Restart

NetworkProgress ==
  \/ \E p \in posts : Deliver(p) \/ Lose(p)
  \/ \E a \in answers : CreationAnswered(a) \/ CheckpointRefused(a) \/ AcceptAnsweredToPage(a)
                         \/ DiscardAnswered(a)
  \/ \E r \in reads : injectVariantsFromSource(r)
  \/ \E s \in Sessions : captureAndEmit(s)
  \/ CheckpointTimer

Fairness ==
  /\ \A w \in Workers : WF_vars(AgentProgress(w) /\ UNCHANGED pageVars)
  /\ WF_vars(ServerProgress /\ UNCHANGED pageVars)
  /\ WF_vars(NetworkProgress)
  /\ WF_vars(ReadStream \/ Connect)

Spec == Init /\ [][Next]_vars /\ Fairness

-----------------------------------------------------------------------------
(* Properties                                                              *)

(* Every variable has its type; in particular the journal's phases and     *)
(* event types stay inside the vocabulary the page and the server share.   *)
LiveTypeOK ==
  /\ ServerTypeOK
  /\ page \in Pages /\ saved \in Records /\ handled \in Sessions \cup {None}
  /\ started \subseteq Sessions /\ clicks \in 0 .. MaxClicks
  /\ posts \subseteq Requests /\ answers \subseteq Replies /\ reads \subseteq Reads

(* One generate is worked on by one agent, although its delivery waits for *)
(* the scaffolding: a second copy needs a fault (a lapsed lease, a crash). *)
HandedOutOnce ==
  \A s \in Sessions :
    Cardinality({w \in Workers : agent[w].st = "work" /\ agent[w].type = "generate" /\ agent[w].sess = s})
      <= 1 + faults

(* The comparison of a session is never empty: whichever of the stream,    *)
(* the observer, a source read (of this session or a late one of another), *)
(* a reload or a refused accept leads to CYCLING, there are variants and   *)
(* one of them is shown (ensureCyclingRenderable).                         *)
CyclingHasVariants ==
  page.st = "CYCLING" /\ page.sess # None => page.arrived > 0 /\ page.visible \in 1 .. page.arrived

(* What an accept left in the source is the variant that the journal says  *)
(* the user chose, whatever checkpoints were still on their way and        *)
(* whichever restart delivered it; stated for the first decision, since a  *)
(* second accept after a lost answer is refused by the receipt.            *)
AcceptedIsChosen ==
  \A s \in Sessions :
    clicks <= 1 /\ source[s].st = "accepted" => snap[s].canceled /\ source[s].kept = snap[s].visible

(* A decision is applied once: when live-accept has written its receipt,   *)
(* no redelivery to another agent changes the source or the receipt again, *)
(* up to a publication of the generation after the decision.               *)
AppliedOnce ==
  [][\A s \in Sessions : receipt[s] # NoReceipt /\ ~source'[s].late => UNCHANGED <<receipt[s], source[s]>>]_vars

(* Accepting a variant fences the worker, so that later publications are   *)
(* rejected, says reference/live.md: an accepted session has no variants   *)
(* in the source any more.  The journal and the queue are fenced; the      *)
(* source, which the worker edits itself, is not.                          *)
PublicationsFenced == \A s \in Sessions : receipt[s].op = "accept" => source[s].n = 0

(* While a decision is queued the journal still owes it, so that a restart *)
(* brings it back (handleAccept: POST /events returns only after the       *)
(* accept intent is durable and the generation epoch is fenced).           *)
DecisionDurable ==
  \A i \in 1 .. Len(queue) :
    queue[i].type \in {"accept", "discard"} => snap[queue[i].sess].pending \in {"accept", "discard"}

Generating(s) == page.st = "GENERATING" /\ page.sess = s

(* A page does not show a generation as running for ever once it is over,  *)
(* even if the done message was lost with its stream                       *)
(* (recoverMissedGenerationCompletion).                                    *)
NotStranded ==
  \A s \in Sessions : (Generating(s) /\ snap[s].completed /\ ~snap[s].canceled) ~> ~Generating(s)

(* A journaled accept or discard is carried out or reported as failed, in  *)
(* spite of a dead agent, a crash of the server or a lost reply.           *)
DecisionApplied ==
  \A s \in Sessions : snap[s].canceled ~> (\/ snap[s].phase \in CompletedPhases \cup {"agent_error"}
                                         \/ source[s].st # "wrapped")
=============================================================================
