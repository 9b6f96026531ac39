---------------------------- MODULE QuotaWindows ----------------------------
(***************************************************************************)
(* What is known of an account's quota windows and where a plan's own use  *)
(* of them starts: account_quota_snapshots and                             *)
(* plan_account_quota_baselines, written by the gateway for every response *)
(* (passive), by probes of the provider, after a reset, and when the       *)
(* account is bound.                                                       *)
(*                                                                         *)
(* One account and the plan it is bound to.  It may be given up and bound  *)
(* again: the snapshots are the account's and stay, the baselines are the  *)
(* binding's, and a probe of an earlier binding is refused as a whole.  A  *)
(* window is known by the time it resets at, which the provider reports    *)
(* with a tolerance.  The plan row is locked, so a record is one step, in  *)
(* any order with others.                                                  *)
(***************************************************************************)
EXTENDS Integers

CONSTANTS
  Probes,         \* probes and resets that may be under way
  ResetTimes,     \* times a window may reset at
  BatchTimes,     \* those of them that probes, resets and bindings observe
  Tolerance,      \* quotaWindowResetTolerance, 2 min
  MaxUsed,
  MaxProbeTime,
  MaxBindings     \* bound on account_binding_generation

ASSUME WindowsAssumption ==
  /\ ResetTimes \subseteq Nat /\ BatchTimes \subseteq ResetTimes
  /\ Tolerance \in Nat /\ MaxUsed \in Nat /\ MaxProbeTime \in Nat
  /\ MaxBindings \in Nat

VARIABLES
  snapshot,    \* account_quota_snapshots, by window type
  baseline,    \* plan_account_quota_baselines, by window type
  probe,       \* the observations of the provider under way
  probeTime,
  bindingGeneration,  \* account_binding_generation, 0 before the first binding
  accepted     \* history: the last authoritative batch that was recorded, and
               \* whether it is that of the binding itself

quotaVars == <<snapshot, baseline, probe, probeTime, bindingGeneration, accepted>>

Windows == {"5h", "7d"}

Signals == [reset : ResetTimes, used : 0 .. MaxUsed]

BatchSignals == [reset : BatchTimes, used : 0 .. MaxUsed]

(* A valid observation knows the week; the five hours are optional.        *)
Batches == [{"7d"} -> BatchSignals] \cup [Windows -> BatchSignals]

Snapshots == [known : BOOLEAN, reset : ResetTimes \cup {0}, used : 0 .. MaxUsed,
              authoritative : BOOLEAN, at : 0 .. MaxProbeTime]

Baselines == [known : BOOLEAN, reset : ResetTimes \cup {0}, used : 0 .. MaxUsed]

ProbeRows == [kind : {"none", "probe", "reset"}, at : 0 .. MaxProbeTime, gen : 0 .. MaxBindings]

NoSnapshot == [known |-> FALSE, reset |-> 0, used |-> 0, authoritative |-> FALSE, at |-> 0]

NoBaseline == [known |-> FALSE, reset |-> 0, used |-> 0]

NoProbe == [kind |-> "none", at |-> 0, gen |-> 0]

QuotaInit ==
  /\ snapshot = [w \in Windows |-> NoSnapshot]
  /\ baseline = [w \in Windows |-> NoBaseline]
  /\ probe = [p \in Probes |-> NoProbe]
  /\ probeTime = 0
  /\ bindingGeneration = 0
  /\ accepted = [windows |-> {}, at |-> 0, binding |-> FALSE]

sameQuotaWindow(left, right) == left - right <= Tolerance /\ right - left <= Tolerance

(* MUTANT: the use within a window is the one observed last.               *)
MergeLatest(old, signal) ==
  IF sameQuotaWindow(old.reset, signal.reset) THEN [reset |-> old.reset, used |-> signal.used]
  ELSE IF signal.reset > old.reset THEN signal ELSE [reset |-> old.reset, used |-> old.used]

(* Within a window the use only grows; of two windows the later counts.    *)
mergeAccountQuotaSignal(old, signal) ==
  IF sameQuotaWindow(old.reset, signal.reset)
  THEN [reset |-> old.reset, used |-> IF signal.used <= old.used THEN old.used ELSE signal.used]
  ELSE IF signal.reset > old.reset THEN signal ELSE [reset |-> old.reset, used |-> old.used]

Observed(signal, authoritative, at) ==
  [known |-> TRUE, reset |-> signal.reset, used |-> signal.used, authoritative |-> authoritative, at |-> at]

(* reconcileAccountQuotaSignal for a passive signal: whether it is taken,  *)
(* and the row it leaves.                                                  *)
PassiveTaken(old, signal) == ~(old.known /\ old.authoritative /\ ~sameQuotaWindow(old.reset, signal.reset))

PassiveRow(old, signal) ==
  IF old.known THEN Observed(mergeAccountQuotaSignal(old, signal), old.authoritative, old.at)
  ELSE Observed(signal, FALSE, 0)

(* ... and for one of a probe that began at the given time.                *)
ProbeTaken(old, at) == ~(old.known /\ old.authoritative /\ at <= old.at)

(* removeMissingOptionalQuotaWindows: a batch without the five hours says  *)
(* that there are none.                                                    *)
Removed(w, batch) == w = "5h" /\ "5h" \notin DOMAIN batch /\ "7d" \in DOMAIN batch

(* MUTANT: a baseline once set is kept for the whole binding.              *)
BaselineFixed(old, row) == IF old.known THEN old ELSE [known |-> TRUE, reset |-> row.reset, used |-> row.used]

(* The baseline of a row just written: the use found first, and none once  *)
(* another window has begun.                                               *)
Baseline(old, row) ==
  IF ~old.known THEN [known |-> TRUE, reset |-> row.reset, used |-> row.used]
  ELSE IF ~sameQuotaWindow(old.reset, row.reset) THEN [known |-> TRUE, reset |-> row.reset, used |-> 0]
  ELSE old

-----------------------------------------------------------------------------

(* initializePlanAccountBinding: the batch of the binding replaces the     *)
(* account's rows and starts the binding's baselines; unlike a probe or a  *)
(* reset it removes no window that it does not know.                       *)
initializePlanAccountBinding(batch) ==
  /\ bindingGeneration < MaxBindings /\ bindingGeneration' = bindingGeneration + 1
  /\ snapshot' = [w \in Windows |-> IF w \in DOMAIN batch THEN Observed(batch[w], TRUE, probeTime) ELSE snapshot[w]]
  /\ baseline' = [w \in Windows |-> IF w \in DOMAIN batch
                                    THEN [known |-> TRUE, reset |-> batch[w].reset, used |-> batch[w].used]
                                    ELSE NoBaseline]
  /\ accepted' = [windows |-> DOMAIN batch, at |-> probeTime, binding |-> TRUE]
  /\ UNCHANGED <<probe, probeTime>>

(* RecordAccountQuotaSignals: each signal of a response counts by itself,  *)
(* so that one of both windows is two responses of one window each.        *)
RecordAccountQuotaSignals(w, signal) ==
  LET row == PassiveRow(snapshot[w], signal)
  IN  /\ bindingGeneration > 0 /\ PassiveTaken(snapshot[w], signal)
      /\ snapshot' = [snapshot EXCEPT ![w] = row]
      /\ baseline' = [baseline EXCEPT ![w] = Baseline(@, row)]
      /\ UNCHANGED <<probe, probeTime, bindingGeneration, accepted>>

(* A probe counts from its start; a reset from when its result is stored.  *)
StartProbe(p, kind) ==
  /\ bindingGeneration > 0 /\ probe[p].kind = "none"
  /\ probe' = [probe EXCEPT ![p] = [kind |-> kind, at |-> probeTime, gen |-> bindingGeneration]]
  /\ UNCHANGED <<snapshot, baseline, probeTime, bindingGeneration, accepted>>

(* The rows after an authoritative batch has replaced what was known.      *)
Replaced(batch, at) ==
  [w \in Windows |-> IF w \in DOMAIN batch THEN Observed(batch[w], TRUE, at)
                     ELSE IF Removed(w, batch) THEN NoSnapshot ELSE snapshot[w]]

(* MUTANT: a stale batch only skips the signals that are stale, after its  *)
(* missing window was removed.                                             *)
RecordProbedPartly(p, batch) ==
  LET at == probe[p].at
      taken(w) == w \in DOMAIN batch /\ ProbeTaken(snapshot[w], at)
  IN  /\ probe[p].kind = "probe"
      /\ probe' = [probe EXCEPT ![p] = NoProbe]
      /\ snapshot' = [w \in Windows |-> IF taken(w) THEN Observed(batch[w], TRUE, at)
                                        ELSE IF Removed(w, batch) THEN NoSnapshot ELSE snapshot[w]]
      /\ baseline' = [w \in Windows |-> IF taken(w) THEN Baseline(baseline[w], Observed(batch[w], TRUE, at))
                                        ELSE IF Removed(w, batch) THEN NoBaseline ELSE baseline[w]]
      /\ accepted' = IF \A w \in DOMAIN batch : taken(w) THEN [windows |-> DOMAIN batch, at |-> at, binding |-> FALSE] ELSE accepted
      /\ UNCHANGED <<probeTime, bindingGeneration>>

(* RecordProbedAccountQuotaSignals: all of the batch, or nothing when a    *)
(* newer authoritative one or another binding has been recorded.           *)
RecordProbedAccountQuotaSignals(p, batch) ==
  LET at == probe[p].at
      rows == Replaced(batch, at)
  IN  /\ probe[p].kind = "probe"
      /\ probe' = [probe EXCEPT ![p] = NoProbe]
      /\ IF probe[p].gen = bindingGeneration /\ \A w \in DOMAIN batch : ProbeTaken(snapshot[w], at)
         THEN /\ snapshot' = rows
              /\ baseline' = [w \in Windows |-> IF w \in DOMAIN batch THEN Baseline(baseline[w], rows[w])
                                                ELSE IF Removed(w, batch) THEN NoBaseline ELSE baseline[w]]
              /\ accepted' = [windows |-> DOMAIN batch, at |-> at, binding |-> FALSE]
         ELSE UNCHANGED <<snapshot, baseline, accepted>>
      /\ UNCHANGED <<probeTime, bindingGeneration>>

(* RecordQuotaResetSignals: the reset decides, and the use starts anew.    *)
RecordQuotaResetSignals(p, batch) ==
  LET at == probe[p].at
  IN  /\ probe[p].kind = "reset"
      /\ probe' = [probe EXCEPT ![p] = NoProbe]
      /\ IF probe[p].gen = bindingGeneration
         THEN /\ snapshot' = Replaced(batch, at)
              /\ baseline' = [w \in Windows |-> IF w \in DOMAIN batch
                                                THEN [known |-> TRUE, reset |-> batch[w].reset, used |-> batch[w].used]
                                                ELSE IF Removed(w, batch) THEN NoBaseline ELSE baseline[w]]
              /\ accepted' = [windows |-> DOMAIN batch, at |-> at, binding |-> FALSE]
         ELSE UNCHANGED <<snapshot, baseline, accepted>>
      /\ UNCHANGED <<probeTime, bindingGeneration>>

ProbeTimePasses ==
  /\ probeTime < MaxProbeTime /\ probeTime' = probeTime + 1
  /\ UNCHANGED <<snapshot, baseline, probe, bindingGeneration, accepted>>

QuotaNext ==
  \/ \E batch \in Batches : initializePlanAccountBinding(batch)
  \/ \E w \in Windows, signal \in Signals : RecordAccountQuotaSignals(w, signal)
  \/ \E p \in Probes :
       \/ \E kind \in {"probe", "reset"} : StartProbe(p, kind)
       \/ \E batch \in Batches : RecordProbedAccountQuotaSignals(p, batch) \/ RecordQuotaResetSignals(p, batch)
  \/ ProbeTimePasses

QuotaSpec == QuotaInit /\ [][QuotaNext]_quotaVars

-----------------------------------------------------------------------------
(* Properties                                                              *)

QuotaTypeOK ==
  /\ snapshot \in [Windows -> Snapshots] /\ baseline \in [Windows -> Baselines]
  /\ probe \in [Probes -> ProbeRows]
  /\ probeTime \in 0 .. MaxProbeTime /\ bindingGeneration \in 0 .. MaxBindings
  /\ accepted \in [windows : SUBSET Windows, at : 0 .. MaxProbeTime, binding : BOOLEAN]

(* The authoritative rows are those of one batch, the last one accepted:   *)
(* a probe that is overtaken leaves no part of itself, not even the        *)
(* removal of a window it does not know (the roll-back in                  *)
(* recordAccountQuotaSignals), and passive signals do not disturb them.    *)
(* The one batch that may leave an older row beside its own is that of a   *)
(* binding, and only until the next batch.                                 *)
BatchWhole ==
  \A w \in Windows :
    /\ w \in accepted.windows => snapshot[w].known /\ snapshot[w].authoritative /\ snapshot[w].at = accepted.at
    /\ w \notin accepted.windows /\ ~accepted.binding => ~snapshot[w].authoritative

(* A plan's use is counted within the window the account is in: however    *)
(* reset times drift within the tolerance or change, the baseline's window *)
(* is the snapshot's (the 120 s of the baseline's upsert).  A window that  *)
(* is known has a baseline, unless it is one from before the binding of    *)
(* which neither the binding's batch nor a response has said anything.     *)
BaselineInWindow ==
  \A w \in Windows :
    /\ baseline[w].known => snapshot[w].known /\ sameQuotaWindow(baseline[w].reset, snapshot[w].reset)
    /\ snapshot[w].known => baseline[w].known \/ (accepted.binding /\ w \notin accepted.windows)

(* Between two authoritative batches responses that arrive out of order    *)
(* neither lower the use of a window nor bring an earlier window back.     *)
UseNotForgotten ==
  [][probe' = probe /\ bindingGeneration' = bindingGeneration => \A w \in Windows : snapshot[w].known =>
       /\ snapshot'[w].known
       /\ \/ snapshot'[w].reset = snapshot[w].reset /\ snapshot'[w].used >= snapshot[w].used
          \/ ~snapshot[w].authoritative /\ snapshot'[w].reset > snapshot[w].reset]_quotaVars
=============================================================================
