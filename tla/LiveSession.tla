---------------------------- MODULE LiveSession ----------------------------
(***************************************************************************)
(* The durable state of one live session: what the journal of the session  *)
(* says, as the reducer of live/session-store.mjs derives it.              *)
(*                                                                         *)
(* A snapshot keeps the fields that some decision reads: whether the       *)
(* journal exists, the phase, the type of the event an agent still owes an *)
(* answer to and whether it was scaffolded, the two monotone marks of a    *)
(* generation (completed, canceled), what has been published, and the      *)
(* revision of the newest browser checkpoint.  File paths are the fact     *)
(* that one is known; the page, timings, mounts, diagnostics and parameter *)
(* values are left out.                                                    *)
(*                                                                         *)
(* Only operators: the modules that own a store keep one snapshot each.    *)
(***************************************************************************)
EXTENDS Integers

CONSTANT Variants   \* how many variants a generation asks for (selectedCount)

ASSUME VariantsAssumption == Variants \in Nat \ {0}

FencedPhases == {"accept_requested", "discard_requested", "carbonize_required", "completed", "discarded"}

CompletedPhases == {"completed", "discarded"}

(* The phases of the store and, lower-cased, the states of the page that   *)
(* checkpoints carry.                                                      *)
Phases == FencedPhases \cup {"new", "generate_requested", "variants_ready", "agent_error",
                             "picking", "generating", "cycling", "saving"}

PendingTypes == {"none", "generate", "accept", "discard"}

Snapshots ==
  [exists : BOOLEAN, phase : Phases, pending : PendingTypes, ready : BOOLEAN, completed : BOOLEAN,
   canceled : BOOLEAN, file : BOOLEAN, arrived : 0 .. Variants, visible : 0 .. Variants,
   revision : Nat]

baseSnapshot ==
  [exists |-> FALSE, phase |-> "new", pending |-> "none", ready |-> FALSE, completed |-> FALSE,
   canceled |-> FALSE, file |-> FALSE, arrived |-> 0, visible |-> 0, revision |-> 0]

Fenced(snap) == snap.canceled \/ snap.phase \in FencedPhases

-----------------------------------------------------------------------------
(* applyEvent, one operator per group of event types.  Each takes the      *)
(* snapshot of a journal that has just grown by the event.                 *)

(* The page's generate, and the server's copies of it once its source is   *)
(* scaffolded (ready).  Unlike the later events it passes every fence.     *)
ApplyGenerate(snap, ready) ==
  [snap EXCEPT !.exists = TRUE, !.phase = "generate_requested", !.pending = "generate", !.ready = ready]

(* variants_ready and agent_done.  A late one is only a diagnostic, except *)
(* the acknowledgement of an Accept that still needs its carbonize step.   *)
ApplyDone(snap, carbonize) ==
  IF Fenced(snap) /\ ~(carbonize /\ snap.phase = "accept_requested") THEN snap
  ELSE [snap EXCEPT !.phase = IF carbonize THEN "carbonize_required" ELSE "variants_ready",
                    !.completed = TRUE, !.file = TRUE, !.arrived = Variants, !.pending = "none"]

(* MUTANT: a late checkpoint passes the fence of the user's answer.        *)
ApplyCheckpointUnfenced(snap, e) ==
  IF e.revision < snap.revision THEN snap
  ELSE [snap EXCEPT !.phase = e.phase, !.revision = e.revision, !.arrived = e.arrived,
                    !.visible = e.visible, !.file = @ \/ e.file]

(* A browser checkpoint counts unless an answer of the user fenced the     *)
(* generation or a newer revision has been seen.                           *)
ApplyCheckpoint(snap, e) ==
  IF Fenced(snap) \/ e.revision < snap.revision THEN snap
  ELSE [snap EXCEPT !.phase = e.phase, !.revision = e.revision, !.arrived = e.arrived,
                    !.visible = e.visible, !.file = @ \/ e.file]

ApplyAccept(snap, visible) ==
  [snap EXCEPT !.phase = "accept_requested", !.canceled = TRUE, !.pending = "accept",
               !.visible = visible]

ApplyDiscard(snap) ==
  [snap EXCEPT !.phase = "discard_requested", !.canceled = TRUE, !.pending = "discard"]

ApplyTerminal(snap, phase) == [snap EXCEPT !.phase = phase, !.pending = "none"]

(* MUTANT: the failure is stored under a phase outside the vocabulary.     *)
ApplyErrorUnknown(snap, source) ==
  IF snap.canceled /\ source = "generate" THEN snap ELSE ApplyTerminal(snap, "error")

(* An agent's failure.  Only one that is known to answer the generate of a *)
(* canceled generation is late; source is the type of the event that the   *)
(* reply acknowledged, "none" when it acknowledged nothing.                *)
ApplyError(snap, source) ==
  IF snap.canceled /\ source = "generate" THEN snap ELSE ApplyTerminal(snap, "agent_error")
=============================================================================
