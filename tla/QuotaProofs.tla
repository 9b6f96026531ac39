---------------------------- MODULE QuotaProofs ----------------------------
(***************************************************************************)
(* Proofs about the two halves of the quota bookkeeping, which share no    *)
(* state: QuotaWindows, for any reset times, tolerance and number of       *)
(* probes, and QuotaResetVotes, for any members, requests, votes and times *)
(* to live.                                                                *)
(***************************************************************************)
EXTENDS QuotaWindows, QuotaResetVotes, TLAPS

-----------------------------------------------------------------------------
(* Quota windows                                                           *)

(* The baseline of a row is in the row's window, whatever it was before.   *)
LEMMA BaselineFollows ==
  ASSUME NEW old \in Baselines, NEW row \in Snapshots
  PROVE  /\ Baseline(old, row) \in Baselines
         /\ Baseline(old, row).known = TRUE
         /\ sameQuotaWindow(Baseline(old, row).reset, row.reset)
<1> USE DEF Baselines, Snapshots
<1>5. old.reset \in ResetTimes \cup {0} /\ row.reset \in ResetTimes \cup {0} /\ row.used \in 0 .. MaxUsed
  OBVIOUS
<1>6. ResetTimes \cup {0} \subseteq Int /\ 0 \in 0 .. MaxUsed /\ Tolerance \in Nat
  BY WindowsAssumption
<1>0. /\ old.reset \in Int /\ row.reset \in Int /\ row.reset \in ResetTimes \cup {0} /\ 0 \in 0 .. MaxUsed
      /\ row.used \in 0 .. MaxUsed /\ Tolerance \in Nat
  BY <1>5, <1>6, Zenon
<1>1. CASE old.known = FALSE
  <2>1. Baseline(old, row) = [known |-> TRUE, reset |-> row.reset, used |-> row.used]
    BY <1>1 DEF Baseline
  <2>2. sameQuotaWindow(row.reset, row.reset)
    BY <1>0 DEF sameQuotaWindow
  <2> QED BY <1>0, <2>1, <2>2
<1>2. CASE old.known = TRUE /\ ~sameQuotaWindow(old.reset, row.reset)
  <2>1. Baseline(old, row) = [known |-> TRUE, reset |-> row.reset, used |-> 0]
    BY <1>2 DEF Baseline
  <2>2. sameQuotaWindow(row.reset, row.reset)
    BY <1>0 DEF sameQuotaWindow
  <2> QED BY <1>0, <2>1, <2>2
<1>3. CASE old.known = TRUE /\ sameQuotaWindow(old.reset, row.reset)
  <2>1. Baseline(old, row) = old
    BY <1>3 DEF Baseline
  <2> QED BY <1>3, <2>1
<1>4. old.known \in BOOLEAN
  OBVIOUS
<1> QED BY <1>1, <1>2, <1>3, <1>4

(* A signal that is taken leaves a known row of its kind.                  *)
LEMMA PassiveRowType ==
  ASSUME NEW old \in Snapshots, NEW signal \in Signals
  PROVE  PassiveRow(old, signal) \in Snapshots /\ PassiveRow(old, signal).known = TRUE
  BY WindowsAssumption DEF PassiveRow, Observed, mergeAccountQuotaSignal, Snapshots, Signals

LEMMA ObservedType ==
  ASSUME NEW signal \in Signals, NEW at \in 0 .. MaxProbeTime
  PROVE  /\ Observed(signal, TRUE, at) \in Snapshots
         /\ Observed(signal, TRUE, at).known = TRUE /\ Observed(signal, TRUE, at).authoritative = TRUE
         /\ Observed(signal, TRUE, at).reset = signal.reset /\ Observed(signal, TRUE, at).at = at
  BY DEF Observed, Snapshots, Signals

(* Within a window the use grows, and of two windows the later one counts. *)
LEMMA PassiveRowKeeps ==
  ASSUME NEW old \in Snapshots, NEW signal \in Signals, old.known = TRUE, PassiveTaken(old, signal)
  PROVE  /\ PassiveRow(old, signal).authoritative = old.authoritative
         /\ PassiveRow(old, signal).at = old.at
         /\ \/ PassiveRow(old, signal).reset = old.reset /\ PassiveRow(old, signal).used >= old.used
            \/ old.authoritative = FALSE /\ PassiveRow(old, signal).reset > old.reset
  BY WindowsAssumption
     DEF PassiveRow, PassiveTaken, Observed, mergeAccountQuotaSignal, Snapshots, Signals

-----------------------------------------------------------------------------
(* The inductive invariant                                                 *)

QuotaInv == QuotaTypeOK /\ BaselineInWindow /\ BatchWhole

LEMMA QuotaStarts == QuotaInit => QuotaInv
<1> SUFFICES ASSUME QuotaInit PROVE QuotaInv
  OBVIOUS
<1>1. NoSnapshot \in Snapshots /\ NoBaseline \in Baselines
  BY WindowsAssumption DEF NoSnapshot, NoBaseline, Snapshots, Baselines
<1>2. NoProbe \in ProbeRows /\ 0 \in 0 .. MaxProbeTime /\ 0 \in 0 .. MaxBindings
  BY WindowsAssumption DEF NoProbe, ProbeRows
<1>3. QuotaTypeOK
  BY <1>1, <1>2 DEF QuotaInit, QuotaTypeOK
<1>4. NoSnapshot.known = FALSE /\ NoSnapshot.authoritative = FALSE /\ NoBaseline.known = FALSE
  BY DEF NoSnapshot, NoBaseline
<1>5. BaselineInWindow /\ BatchWhole
  BY <1>4 DEF QuotaInit, BaselineInWindow, BatchWhole
<1> QED BY <1>3, <1>5 DEF QuotaInv

(* A response disturbs neither the window of the baseline nor the batch.   *)
LEMMA PassiveStep ==
  ASSUME QuotaInv, NEW w \in Windows, NEW signal \in Signals, RecordAccountQuotaSignals(w, signal)
  PROVE  QuotaInv'
<1>1. PICK row : row = PassiveRow(snapshot[w], signal)
  OBVIOUS
<1>2. PICK base : base = Baseline(baseline[w], row)
  OBVIOUS
<1>3. snapshot[w] \in Snapshots /\ baseline[w] \in Baselines /\ row \in Snapshots /\ row.known = TRUE
  BY <1>1, PassiveRowType DEF QuotaInv, QuotaTypeOK
<1>4. base \in Baselines /\ base.known = TRUE /\ sameQuotaWindow(base.reset, row.reset)
  BY <1>2, <1>3, BaselineFollows
<1>5. /\ snapshot' = [snapshot EXCEPT ![w] = row] /\ baseline' = [baseline EXCEPT ![w] = base]
      /\ UNCHANGED <<probe, probeTime, bindingGeneration, accepted>>
  BY <1>1, <1>2 DEF RecordAccountQuotaSignals
<1>6. QuotaTypeOK'
  BY <1>3, <1>4, <1>5 DEF QuotaInv, QuotaTypeOK
<1>7. BaselineInWindow'
  BY <1>3, <1>4, <1>5 DEF QuotaInv, QuotaTypeOK, BaselineInWindow
<1>8. BatchWhole'
  <2>1. CASE snapshot[w].known = TRUE
    <3>1. row.authoritative = snapshot[w].authoritative /\ row.at = snapshot[w].at
      BY <1>1, <1>3, <2>1, PassiveRowKeeps DEF RecordAccountQuotaSignals
    <3> QED BY <1>3, <1>5, <3>1 DEF QuotaInv, QuotaTypeOK, BatchWhole
  <2>2. CASE snapshot[w].known = FALSE
    <3>1. row.authoritative = FALSE
      BY <1>1, <2>2 DEF PassiveRow, Observed
    <3>2. w \notin accepted.windows
      BY <2>2 DEF QuotaInv, BatchWhole
    <3> QED BY <1>5, <3>1, <3>2 DEF QuotaInv, QuotaTypeOK, BatchWhole
  <2>3. snapshot[w].known \in BOOLEAN
    BY <1>3 DEF Snapshots
  <2> QED BY <2>1, <2>2, <2>3
<1> QED BY <1>6, <1>7, <1>8 DEF QuotaInv

(* What an accepted batch makes of each window: the batch's own rows, or   *)
(* none at all.                                                            *)
LEMMA ReplacedRows ==
  ASSUME QuotaTypeOK, NEW batch \in Batches, NEW at \in 0 .. MaxProbeTime, NEW w \in Windows
  PROVE  /\ w \in DOMAIN batch => /\ batch[w] \in Signals /\ Replaced(batch, at)[w] = Observed(batch[w], TRUE, at)
         /\ w \notin DOMAIN batch => Removed(w, batch) /\ Replaced(batch, at)[w] = NoSnapshot
         /\ DOMAIN batch \in SUBSET Windows
<1>1. "7d" \in DOMAIN batch /\ DOMAIN batch \subseteq Windows /\ \A v \in DOMAIN batch : batch[v] \in Signals
  BY WindowsAssumption DEF Batches, BatchSignals, Signals, Windows
<1>2. w \notin DOMAIN batch => Removed(w, batch)
  BY <1>1 DEF Removed, Windows
<1> QED BY <1>1, <1>2 DEF Replaced

(* The step of an authoritative batch that is accepted: its rows, and for  *)
(* each of them a baseline in the row's window.                            *)
LEMMA AcceptedStep ==
  ASSUME QuotaInv, NEW batch \in Batches, NEW at \in 0 .. MaxProbeTime,
         NEW base \in [Windows -> Baselines], NEW p \in Probes,
         \A w \in Windows : w \in DOMAIN batch => base[w].known = TRUE /\ sameQuotaWindow(base[w].reset, batch[w].reset),
         \A w \in Windows : w \notin DOMAIN batch => base[w] = NoBaseline,
         snapshot' = Replaced(batch, at), baseline' = base, accepted' = [windows |-> DOMAIN batch, at |-> at, binding |-> FALSE],
         probe' = [probe EXCEPT ![p] = NoProbe], UNCHANGED <<probeTime, bindingGeneration>>
  PROVE  QuotaInv'
<1> USE DEF QuotaInv
<1>1. NoSnapshot \in Snapshots /\ NoSnapshot.known = FALSE /\ NoSnapshot.authoritative = FALSE /\ NoBaseline.known = FALSE
  BY WindowsAssumption DEF NoSnapshot, NoBaseline, Snapshots
<1>2. ASSUME NEW w \in Windows
      PROVE  /\ snapshot'[w] \in Snapshots
             /\ w \in DOMAIN batch => /\ snapshot'[w].known = TRUE /\ snapshot'[w].authoritative = TRUE
                                      /\ snapshot'[w].reset = batch[w].reset /\ snapshot'[w].at = at
             /\ w \notin DOMAIN batch => snapshot'[w].known = FALSE /\ snapshot'[w].authoritative = FALSE
  <2>1. CASE w \in DOMAIN batch
    <3>1. batch[w] \in Signals /\ snapshot'[w] = Observed(batch[w], TRUE, at)
      BY <2>1, ReplacedRows, ZenonT(60)
    <3>2. PICK row : row = Observed(batch[w], TRUE, at)
      OBVIOUS
    <3>3. row \in Snapshots /\ row.known = TRUE /\ row.authoritative = TRUE /\ row.reset = batch[w].reset /\ row.at = at
      BY <3>1, <3>2, ObservedType
    <3>4. snapshot'[w] = row
      BY <3>1, <3>2
    <3> QED BY <2>1, <3>3, <3>4
  <2>2. CASE w \notin DOMAIN batch
    <3>1. snapshot'[w] = NoSnapshot
      BY <2>2, ReplacedRows
    <3> QED BY <1>1, <2>2, <3>1, Zenon
  <2> QED BY <2>1, <2>2
<1>3. QuotaTypeOK'
  <2>1. snapshot' \in [Windows -> Snapshots]
    BY <1>2 DEF Replaced
  <2>2. probe' \in [Probes -> ProbeRows]
    BY WindowsAssumption DEF QuotaTypeOK, NoProbe, ProbeRows
  <2>3. accepted' \in [windows : SUBSET Windows, at : 0 .. MaxProbeTime, binding : BOOLEAN]
    BY ReplacedRows DEF Windows
  <2> QED BY <2>1, <2>2, <2>3 DEF QuotaTypeOK
<1>4. BaselineInWindow'
  <2> SUFFICES ASSUME NEW w \in Windows
               PROVE /\ base[w].known => snapshot'[w].known /\ sameQuotaWindow(base[w].reset, snapshot'[w].reset)
                     /\ snapshot'[w].known => base[w].known
    BY DEF BaselineInWindow
  <2>1. CASE w \in DOMAIN batch
    BY <1>2, <2>1, Zenon
  <2>2. CASE w \notin DOMAIN batch
    BY <1>1, <1>2, <2>2, Zenon
  <2> QED BY <2>1, <2>2
<1>5. BatchWhole'
  BY <1>2 DEF BatchWhole
<1> QED BY <1>3, <1>4, <1>5

(* A binding's own batch: the rows and baselines of the windows it knows,  *)
(* and for another window no baseline but whatever row there was.          *)
LEMMA BindingStep ==
  ASSUME QuotaInv, NEW batch \in Batches, initializePlanAccountBinding(batch)
  PROVE  QuotaInv'
<1> USE DEF QuotaInv
<1>1. PICK at : at = probeTime
  OBVIOUS
<1>2. /\ at \in 0 .. MaxProbeTime /\ snapshot \in [Windows -> Snapshots]
      /\ NoBaseline \in Baselines /\ NoBaseline.known = FALSE
  BY <1>1, WindowsAssumption DEF QuotaTypeOK, NoBaseline, Baselines
<1>3. ASSUME NEW w \in Windows
      PROVE  /\ w \in DOMAIN batch =>
                  /\ batch[w] \in Signals
                  /\ snapshot'[w] = Observed(batch[w], TRUE, at)
                  /\ baseline'[w] = [known |-> TRUE, reset |-> batch[w].reset, used |-> batch[w].used]
             /\ w \notin DOMAIN batch => snapshot'[w] = snapshot[w] /\ baseline'[w] = NoBaseline
             /\ DOMAIN batch \in SUBSET Windows
  <2>1. DOMAIN batch \subseteq Windows /\ \A v \in DOMAIN batch : batch[v] \in Signals
    BY WindowsAssumption DEF Batches, BatchSignals, Signals, Windows
  <2>2. /\ snapshot'[w] = IF w \in DOMAIN batch THEN Observed(batch[w], TRUE, at) ELSE snapshot[w]
        /\ baseline'[w] = IF w \in DOMAIN batch
                          THEN [known |-> TRUE, reset |-> batch[w].reset, used |-> batch[w].used] ELSE NoBaseline
    BY <1>1, Zenon DEF initializePlanAccountBinding
  <2> QED BY <2>1, <2>2, Zenon
<1>4. ASSUME NEW w \in Windows
      PROVE  /\ snapshot'[w] \in Snapshots /\ baseline'[w] \in Baselines
             /\ w \in DOMAIN batch => /\ snapshot'[w].known = TRUE /\ snapshot'[w].authoritative = TRUE
                                      /\ snapshot'[w].at = at /\ baseline'[w].known = TRUE
                                      /\ sameQuotaWindow(baseline'[w].reset, snapshot'[w].reset)
             /\ w \notin DOMAIN batch => baseline'[w].known = FALSE
  <2>1. CASE w \in DOMAIN batch
    <3>1. PICK signal \in Signals : signal = batch[w]
      BY <1>3, <2>1
    <3>2. PICK row : row = Observed(signal, TRUE, at)
      OBVIOUS
    <3>3. row \in Snapshots /\ row.known = TRUE /\ row.authoritative = TRUE /\ row.reset = signal.reset /\ row.at = at
      BY <1>2, <3>2, ObservedType
    <3>4. PICK base : base = [known |-> TRUE, reset |-> signal.reset, used |-> signal.used]
      OBVIOUS
    <3>5. base \in Baselines /\ base.known = TRUE /\ base.reset = signal.reset
      BY <3>4 DEF Baselines, Signals
    <3>6. sameQuotaWindow(signal.reset, signal.reset)
      <4>1. signal.reset \in ResetTimes
        BY DEF Signals
      <4>2. ResetTimes \subseteq Int /\ Tolerance \in Nat
        BY WindowsAssumption
      <4>3. signal.reset \in Int
        BY <4>1, <4>2, Zenon
      <4> QED BY <4>2, <4>3 DEF sameQuotaWindow
    <3>7. snapshot'[w] = row /\ baseline'[w] = base
      BY <1>3, <2>1, <3>1, <3>2, <3>4
    <3> QED BY <2>1, <3>3, <3>5, <3>6, <3>7, Zenon
  <2>2. CASE w \notin DOMAIN batch
    BY <1>2, <1>3, <2>2
  <2> QED BY <2>1, <2>2
<1>5. /\ accepted' = [windows |-> DOMAIN batch, at |-> at, binding |-> TRUE]
      /\ accepted'.windows = DOMAIN batch /\ accepted'.at = at /\ accepted'.binding = TRUE
  BY <1>1 DEF initializePlanAccountBinding
<1>6. QuotaTypeOK'
  <2>1. snapshot' \in [Windows -> Snapshots] /\ baseline' \in [Windows -> Baselines]
    BY <1>4 DEF initializePlanAccountBinding
  <2>2. accepted' \in [windows : SUBSET Windows, at : 0 .. MaxProbeTime, binding : BOOLEAN]
    BY <1>2, <1>3, <1>5 DEF Windows
  <2>3. bindingGeneration' \in 0 .. MaxBindings
    BY WindowsAssumption DEF initializePlanAccountBinding, QuotaTypeOK
  <2> QED BY <2>1, <2>2, <2>3 DEF QuotaTypeOK, initializePlanAccountBinding
<1>7. BaselineInWindow'
  BY <1>4, <1>5 DEF BaselineInWindow
<1>8. BatchWhole'
  BY <1>4, <1>5 DEF BatchWhole
<1> QED BY <1>6, <1>7, <1>8

-----------------------------------------------------------------------------
(* The steps                                                               *)

LEMMA QuotaStep == QuotaInv /\ [QuotaNext]_quotaVars => QuotaInv'
<1> SUFFICES ASSUME QuotaInv, [QuotaNext]_quotaVars PROVE QuotaInv'
  OBVIOUS
<1>7. QuotaTypeOK
  BY DEF QuotaInv
<1>0. NoBaseline \in Baselines
  BY WindowsAssumption DEF NoBaseline, Baselines
<1>1. ASSUME NEW w \in Windows, NEW signal \in Signals, RecordAccountQuotaSignals(w, signal) PROVE QuotaInv'
  BY <1>1, PassiveStep
<1>8. ASSUME NEW p \in Probes, probe' = [probe EXCEPT ![p] = NoProbe],
             UNCHANGED <<snapshot, baseline, accepted, probeTime, bindingGeneration>>
      PROVE  QuotaInv'
  <2>1. QuotaTypeOK'
    BY <1>7, <1>8, WindowsAssumption DEF QuotaTypeOK, NoProbe, ProbeRows
  <2> QED BY <1>8, <2>1, Zenon DEF QuotaInv, BaselineInWindow, BatchWhole
<1>9. ASSUME NEW batch \in Batches, initializePlanAccountBinding(batch) PROVE QuotaInv'
  BY <1>9, BindingStep
<1>2. ASSUME NEW p \in Probes, NEW kind \in {"probe", "reset"}, StartProbe(p, kind) PROVE QuotaInv'
  <2>1. QuotaTypeOK'
    BY <1>2, <1>7 DEF StartProbe, QuotaTypeOK, ProbeRows
  <2> QED BY <1>2, <2>1, Zenon DEF QuotaInv, StartProbe, BaselineInWindow, BatchWhole
<1>3. ASSUME NEW p \in Probes, NEW batch \in Batches, RecordProbedAccountQuotaSignals(p, batch) PROVE QuotaInv'
  <2>1. PICK at : at = probe[p].at
    OBVIOUS
  <2>2. at \in 0 .. MaxProbeTime
    BY <1>7, <2>1 DEF QuotaTypeOK, ProbeRows
  <2>3. PICK base : base = [w \in Windows |-> IF w \in DOMAIN batch THEN Baseline(baseline[w], Replaced(batch, at)[w])
                                              ELSE IF Removed(w, batch) THEN NoBaseline ELSE baseline[w]]
    OBVIOUS
  <2>4. CASE probe[p].gen = bindingGeneration /\ \A w \in DOMAIN batch : ProbeTaken(snapshot[w], at)
    <3>1. /\ snapshot' = Replaced(batch, at) /\ baseline' = base /\ accepted' = [windows |-> DOMAIN batch, at |-> at, binding |-> FALSE]
          /\ probe' = [probe EXCEPT ![p] = NoProbe] /\ UNCHANGED <<probeTime, bindingGeneration>>
      BY <1>3, <2>1, <2>3, <2>4 DEF RecordProbedAccountQuotaSignals
    <3>2. ASSUME NEW w \in Windows
          PROVE /\ base[w] \in Baselines
                /\ w \in DOMAIN batch => base[w].known = TRUE /\ sameQuotaWindow(base[w].reset, batch[w].reset)
                /\ w \notin DOMAIN batch => base[w] = NoBaseline
      <4>1. CASE w \in DOMAIN batch
        <5>1. PICK row : row = Replaced(batch, at)[w]
          OBVIOUS
        <5>2. row \in Snapshots /\ row.reset = batch[w].reset
          <6>1. batch[w] \in Signals /\ row = Observed(batch[w], TRUE, at)
            BY <1>7, <2>2, <4>1, <5>1, ReplacedRows
          <6> QED BY <2>2, <6>1, ObservedType
        <5>3. base[w] = Baseline(baseline[w], row) /\ baseline[w] \in Baselines
          BY <1>7, <2>3, <4>1, <5>1 DEF QuotaTypeOK
        <5> QED BY <4>1, <5>2, <5>3, BaselineFollows
      <4>2. CASE w \notin DOMAIN batch
        BY <1>0, <2>2, <2>3, <4>2, <1>7, ReplacedRows
      <4> QED BY <4>1, <4>2
    <3>3. base \in [Windows -> Baselines]
      BY <2>3, <3>2
    <3>4. /\ \A w \in Windows : w \in DOMAIN batch => base[w].known = TRUE /\ sameQuotaWindow(base[w].reset, batch[w].reset)
          /\ \A w \in Windows : w \notin DOMAIN batch => base[w] = NoBaseline
      BY <3>2, Zenon
    <3> QED BY <2>2, <3>1, <3>3, <3>4, AcceptedStep
  <2>5. CASE ~(probe[p].gen = bindingGeneration /\ \A w \in DOMAIN batch : ProbeTaken(snapshot[w], at))
    <3>1. UNCHANGED <<snapshot, baseline, accepted, probeTime, bindingGeneration>> /\ probe' = [probe EXCEPT ![p] = NoProbe]
      BY <1>3, <2>1, <2>5 DEF RecordProbedAccountQuotaSignals
    <3> QED BY <1>8, <3>1
  <2> QED BY <2>4, <2>5
<1>4. ASSUME NEW p \in Probes, NEW batch \in Batches, RecordQuotaResetSignals(p, batch) PROVE QuotaInv'
  <2>1. PICK at : at = probe[p].at
    OBVIOUS
  <2>2. at \in 0 .. MaxProbeTime
    BY <1>7, <2>1 DEF QuotaTypeOK, ProbeRows
  <2>3. PICK base : base = [w \in Windows |-> IF w \in DOMAIN batch
                                              THEN [known |-> TRUE, reset |-> batch[w].reset, used |-> batch[w].used]
                                              ELSE IF Removed(w, batch) THEN NoBaseline ELSE baseline[w]]
    OBVIOUS
  <2>8. CASE probe[p].gen # bindingGeneration
    <3>1. UNCHANGED <<snapshot, baseline, accepted, probeTime, bindingGeneration>> /\ probe' = [probe EXCEPT ![p] = NoProbe]
      BY <1>4, <2>8 DEF RecordQuotaResetSignals
    <3> QED BY <1>8, <3>1
  <2> SUFFICES ASSUME probe[p].gen = bindingGeneration PROVE QuotaInv'
    BY <2>8
  <2>4. /\ snapshot' = Replaced(batch, at) /\ baseline' = base /\ accepted' = [windows |-> DOMAIN batch, at |-> at, binding |-> FALSE]
        /\ probe' = [probe EXCEPT ![p] = NoProbe] /\ UNCHANGED <<probeTime, bindingGeneration>>
    BY <1>4, <2>1, <2>3 DEF RecordQuotaResetSignals
  <2>5. ASSUME NEW w \in Windows
        PROVE /\ base[w] \in Baselines
              /\ w \in DOMAIN batch => base[w].known = TRUE /\ sameQuotaWindow(base[w].reset, batch[w].reset)
              /\ w \notin DOMAIN batch => base[w] = NoBaseline
    <3>1. CASE w \in DOMAIN batch
      <4>1. base[w] = [known |-> TRUE, reset |-> batch[w].reset, used |-> batch[w].used]
        BY <2>3, <3>1
      <4>2. batch[w].reset \in ResetTimes /\ batch[w].used \in 0 .. MaxUsed
        BY <2>2, <3>1, <1>7, ReplacedRows DEF Signals
      <4>3. sameQuotaWindow(batch[w].reset, batch[w].reset)
        <5>1. batch[w].reset \in Int /\ Tolerance \in Nat
          <6>1. ResetTimes \subseteq Int /\ Tolerance \in Nat
            BY WindowsAssumption
          <6> QED BY <4>2, <6>1, Zenon
        <5> QED BY <5>1 DEF sameQuotaWindow
      <4> QED BY <3>1, <4>1, <4>2, <4>3 DEF Baselines
    <3>2. CASE w \notin DOMAIN batch
      BY <1>0, <2>2, <2>3, <3>2, <1>7, ReplacedRows
    <3> QED BY <3>1, <3>2
  <2>6. base \in [Windows -> Baselines]
    BY <2>3, <2>5
  <2>7. /\ \A w \in Windows : w \in DOMAIN batch => base[w].known = TRUE /\ sameQuotaWindow(base[w].reset, batch[w].reset)
        /\ \A w \in Windows : w \notin DOMAIN batch => base[w] = NoBaseline
    BY <2>5, Zenon
  <2> QED BY <2>2, <2>4, <2>6, <2>7, AcceptedStep
<1>5. CASE ProbeTimePasses
  <2>1. QuotaTypeOK'
    BY <1>5, <1>7, WindowsAssumption DEF ProbeTimePasses, QuotaTypeOK
  <2> QED BY <1>5, <2>1, Zenon DEF QuotaInv, ProbeTimePasses, BaselineInWindow, BatchWhole
<1>6. CASE UNCHANGED quotaVars
  BY <1>6, Zenon DEF QuotaInv, quotaVars, QuotaTypeOK, BaselineInWindow, BatchWhole
<1> QED BY <1>1, <1>2, <1>3, <1>4, <1>5, <1>6, <1>9, Zenon DEF QuotaNext

-----------------------------------------------------------------------------
(* The theorems                                                            *)

(* The invariant holds of every reachable state.                           *)
THEOREM QuotaInvariant == QuotaSpec => []QuotaInv
<1>1. QuotaInit => QuotaInv
  BY QuotaStarts
<1>2. QuotaInv /\ [QuotaNext]_quotaVars => QuotaInv'
  BY QuotaStep
<1> QED BY <1>1, <1>2, PTL DEF QuotaSpec

(* For any tolerance and any drift of the reset times a plan's baseline is *)
(* in the window its account is in (recordAccountQuotaSignals).            *)
THEOREM BaselineAlwaysInWindow == QuotaSpec => []BaselineInWindow
<1>1. QuotaInv => BaselineInWindow
  BY DEF QuotaInv
<1> QED BY <1>1, QuotaInvariant, PTL

(* For any number of probes that overtake each other, the authoritative    *)
(* rows are those of one batch (recordAccountQuotaSignals).                *)
THEOREM BatchAlwaysWhole == QuotaSpec => []BatchWhole
<1>1. QuotaInv => BatchWhole
  BY DEF QuotaInv
<1> QED BY <1>1, QuotaInvariant, PTL

(* For any number of responses that arrive out of order, between two       *)
(* authoritative batches the use of a window is not lowered and an earlier *)
(* window does not come back (mergeAccountQuotaSignal).                    *)
THEOREM UseNeverForgotten == QuotaSpec => UseNotForgotten
<1> DEFINE Kept == probe' = probe /\ bindingGeneration' = bindingGeneration => \A w \in Windows : snapshot[w].known =>
                     /\ snapshot'[w].known
                     /\ \/ snapshot'[w].reset = snapshot[w].reset /\ snapshot'[w].used >= snapshot[w].used
                        \/ ~snapshot[w].authoritative /\ snapshot'[w].reset > snapshot[w].reset
<1>1. QuotaInv /\ [QuotaNext]_quotaVars => [Kept]_quotaVars
  <2> SUFFICES ASSUME QuotaTypeOK, QuotaNext PROVE Kept
    BY DEF QuotaInv
  <2>1. ASSUME NEW v \in Windows, NEW signal \in Signals, RecordAccountQuotaSignals(v, signal) PROVE Kept
    <3>1. PICK row : row = PassiveRow(snapshot[v], signal)
      OBVIOUS
    <3>2. snapshot' = [snapshot EXCEPT ![v] = row] /\ PassiveTaken(snapshot[v], signal) /\ snapshot[v] \in Snapshots
      BY <2>1, <3>1 DEF RecordAccountQuotaSignals, QuotaTypeOK
    <3>3. row.known = TRUE
      BY <3>1, <3>2, PassiveRowType
    <3>4. snapshot[v].known = TRUE =>
            \/ row.reset = snapshot[v].reset /\ row.used >= snapshot[v].used
            \/ snapshot[v].authoritative = FALSE /\ row.reset > snapshot[v].reset
      BY <3>1, <3>2, PassiveRowKeeps
    <3>5. ASSUME NEW w \in Windows, snapshot[w].known = TRUE
          PROVE /\ snapshot'[w].known = TRUE
                /\ \/ snapshot'[w].reset = snapshot[w].reset /\ snapshot'[w].used >= snapshot[w].used
                   \/ snapshot[w].authoritative = FALSE /\ snapshot'[w].reset > snapshot[w].reset
      <4>1. CASE w = v
        BY <3>2, <3>3, <3>4, <3>5, <4>1 DEF QuotaTypeOK
      <4>2. CASE w # v
        BY <3>2, <3>5, <4>2 DEF QuotaTypeOK, Snapshots
      <4> QED BY <4>1, <4>2
    <3> QED BY <3>5
  <2>2. ASSUME NEW p \in Probes, probe'[p].kind # probe[p].kind PROVE Kept
    BY <2>2
  <2>3. CASE UNCHANGED snapshot
    BY <2>3 DEF QuotaTypeOK, Snapshots
  <2>4. ASSUME NEW p \in Probes, NEW kind \in {"probe", "reset"}, StartProbe(p, kind) PROVE Kept
    BY <2>3, <2>4 DEF StartProbe
  <2>5. ASSUME NEW p \in Probes, NEW batch \in Batches,
               RecordProbedAccountQuotaSignals(p, batch) \/ RecordQuotaResetSignals(p, batch)
        PROVE Kept
    <3>1. probe'[p].kind = "none" /\ probe[p].kind # "none"
      BY <2>5 DEF RecordProbedAccountQuotaSignals, RecordQuotaResetSignals, QuotaTypeOK, NoProbe
    <3> QED BY <2>2, <3>1
  <2>6. CASE ProbeTimePasses
    BY <2>3, <2>6 DEF ProbeTimePasses
  <2>7. ASSUME NEW batch \in Batches, initializePlanAccountBinding(batch) PROVE Kept
    <3>1. bindingGeneration' # bindingGeneration
      BY <2>7 DEF initializePlanAccountBinding, QuotaTypeOK
    <3> QED BY <3>1
  <2> HIDE DEF Kept
  <2> QED BY <2>1, <2>4, <2>5, <2>6, <2>7, Zenon DEF QuotaNext
<1> QED BY <1>1, QuotaInvariant, PTL DEF QuotaSpec, UseNotForgotten

-----------------------------------------------------------------------------
(* Quota reset votes                                                       *)

VoteRows ==
  [status : {"none", "active", "executing", "expired", "cancelled", "outcome_unknown", "succeeded",
             "succeeded_unsynced"},
   eligible : SUBSET Members, support : SUBSET Members, generation : {0, 1}, created : Nat, started : Nat]

ResetRequests ==
  [at : {"idle", "passed", "prepared", "reserved", "consumed", "unanswered", "settled"},
   vote : Votes \cup {NoVote}, generation : {0, 1}, acquired : Nat]

VotesTypeOK ==
  /\ clock \in Nat
  /\ joined \subseteq Members
  /\ generation \in {0, 1}
  /\ vote \in [Votes -> VoteRows]
  /\ lease \in [of : Votes \cup {NoVote}, acquired : Nat, held : BOOLEAN]
  /\ reset \in [Resets -> ResetRequests]
  /\ spent \in [Votes -> Nat]

(* Only one vote at a time is open, and only its members support it.       *)
OneOpenVote ==
  /\ \A v, w \in Votes : v # w /\ vote[v].status \in {"active", "executing"}
       => vote[w].status \notin {"active", "executing"}
  /\ \A v \in Votes : vote[v].support \subseteq vote[v].eligible

(* A vote that passed has at most one request to execute it; a request     *)
(* that is not there has none.                                             *)
OneRequest ==
  \A e \in Resets :
    /\ reset[e].at = "idle" => reset[e].vote = NoVote
    /\ reset[e].at = "passed" => reset[e].vote # NoVote
    /\ reset[e].vote # NoVote =>
         /\ vote[reset[e].vote].status \notin {"none", "active", "expired"}
         /\ \A f \in Resets : f # e => reset[f].vote # reset[e].vote

Unspent == {"none", "active", "expired", "cancelled"}

(* A request consumes once, after its reservation, by which its vote is    *)
(* past being cancelled.                                                   *)
SpentByRequest ==
  /\ \A v \in Votes : spent[v] \in {0, 1} /\ (vote[v].status \in Unspent => spent[v] = 0)
  /\ \A e \in Resets : reset[e].vote # NoVote =>
       /\ reset[e].at \in {"passed", "prepared", "reserved"} => spent[reset[e].vote] = 0
       /\ reset[e].at \in {"reserved", "consumed", "unanswered", "settled"} =>
            vote[reset[e].vote].status \notin Unspent

(* A request from its reservation to its release, within the lease.        *)
Holding(e) ==
  /\ reset[e].at \in {"reserved", "consumed", "unanswered", "settled"}
  /\ reset[e].acquired + LeaseTTL > clock

(* The lease is that of the one request that holds it; no vote is active   *)
(* beside it, and one that is being executed is its own.                   *)
HolderAlone ==
  \A e \in Resets : Holding(e) =>
    /\ lease.held = TRUE /\ lease.acquired = reset[e].acquired /\ lease.of = reset[e].vote
    /\ \A f \in Resets : Holding(f) => f = e
    /\ \A v \in Votes : vote[v].status # "active"
    /\ \A v \in Votes : vote[v].status = "executing" /\ vote[v].started + LeaseTTL > clock => reset[e].vote = v

(* The inductive invariant.                                                *)
VotesInv == VotesTypeOK /\ OneOpenVote /\ OneRequest /\ SpentByRequest /\ HolderAlone

-----------------------------------------------------------------------------

LEMMA VotesStart == VotesInit => VotesInv
<1> SUFFICES ASSUME VotesInit PROVE VotesInv
  OBVIOUS
<1>1. NotCreated \in VoteRows /\ NotCreated.status = "none" /\ NotCreated.support \subseteq NotCreated.eligible
  BY DEF NotCreated, VoteRows
<1>2. NoReset \in ResetRequests /\ NoReset.at = "idle" /\ NoReset.vote = NoVote
  BY DEF NoReset, ResetRequests
<1>3. /\ \A v \in Votes : vote[v] = NotCreated /\ spent[v] = 0
      /\ \A e \in Resets : reset[e] = NoReset
  BY DEF VotesInit
<1>4. VotesTypeOK
  BY <1>1, <1>2, <1>3 DEF VotesInit, VotesTypeOK, NoLease
<1>5. OneOpenVote /\ OneRequest /\ SpentByRequest /\ HolderAlone
  BY <1>1, <1>2, <1>3 DEF OneOpenVote, OneRequest, SpentByRequest, HolderAlone, Holding
<1> QED BY <1>4, <1>5 DEF VotesInv

(* What may become of a vote without its passing or its being cancelled    *)
(* after it has passed.                                                    *)
ClosesTo(old, new) ==
  /\ new.eligible = old.eligible /\ new.support = old.support /\ new.started = old.started
  /\ \/ new.status = old.status
     \/ old.status = "active" /\ new.status \in {"expired", "cancelled"}
     \/ old.status = "executing" /\ new.status \in {"outcome_unknown", "succeeded", "succeeded_unsynced"}

(* Reconciliation only closes votes; what it leaves active has exactly the *)
(* plan's members, and what it leaves executing has time left.             *)
LEMMA ReconciledRow ==
  ASSUME VotesTypeOK, NEW v \in Votes
  PROVE  /\ Reconciled[v] \in VoteRows
         /\ ClosesTo(vote[v], Reconciled[v])
         /\ Reconciled[v].status = "active" => vote[v].eligible = joined /\ vote[v].status = "active"
<1>1. PICK x \in VoteRows : x = vote[v]
  BY DEF VotesTypeOK
<1>2. /\ reconcileQuotaResetVote(x) \in VoteRows
      /\ ClosesTo(x, reconcileQuotaResetVote(x))
      /\ reconcileQuotaResetVote(x).status = "active" => x.eligible = joined /\ x.status = "active"
  BY VotesAssumption DEF VotesTypeOK, VoteRows, reconcileQuotaResetVote, ClosesTo
<1> QED BY <1>1, <1>2 DEF Reconciled

LEMMA NoRows ==
  /\ NoReset \in ResetRequests /\ NoReset.at = "idle" /\ NoReset.vote = NoVote
  /\ NoLease \in [of : Votes \cup {NoVote}, acquired : Nat, held : BOOLEAN] /\ NoLease.held = FALSE
BY DEF NoReset, ResetRequests, NoLease

LEMMA PassedRequest ==
  ASSUME NEW v \in Votes
  PROVE  /\ [NoReset EXCEPT !.at = "passed", !.vote = v] \in ResetRequests
         /\ [NoReset EXCEPT !.at = "passed", !.vote = v].at = "passed"
         /\ [NoReset EXCEPT !.at = "passed", !.vote = v].vote = v
BY DEF NoReset, ResetRequests

(* Nobody holds a lease that is not active.                                *)
LEMMA NoHolder ==
  ASSUME VotesInv, ~LeaseActive, NEW e \in Resets
  PROVE  ~Holding(e)
BY DEF VotesInv, HolderAlone, Holding, LeaseActive

-----------------------------------------------------------------------------
(* The steps                                                               *)

(* Votes are closed, and nothing else happens.                             *)
LEMMA ReconcileStep ==
  ASSUME VotesInv, vote' = Reconciled, UNCHANGED <<clock, joined, generation, lease, reset, spent>>
  PROVE  VotesInv'
<1>1. /\ vote' \in [Votes -> VoteRows]
      /\ \A v \in Votes : ClosesTo(vote[v], vote'[v])
  BY ReconciledRow DEF VotesInv, Reconciled
<1>2. VotesTypeOK'
  BY <1>1 DEF VotesInv, VotesTypeOK
<1>3. OneOpenVote'
  BY <1>1 DEF VotesInv, OneOpenVote, ClosesTo
<1>4. OneRequest'
  BY <1>1 DEF VotesInv, VotesTypeOK, ResetRequests, OneRequest, ClosesTo
<1>5. SpentByRequest'
  BY <1>1 DEF VotesInv, VotesTypeOK, ResetRequests, SpentByRequest, ClosesTo, Unspent
<1>6. HolderAlone'
  BY <1>1 DEF VotesInv, HolderAlone, Holding, ClosesTo
<1> QED BY <1>2, <1>3, <1>4, <1>5, <1>6 DEF VotesInv

(* A vote v, new or still active, is written with some support; if that is *)
(* a majority it passes and the request e, idle before, will execute it.   *)
LEMMA PassingStep ==
  ASSUME VotesInv, NEW e \in Resets, NEW v \in Votes, NEW x \in VoteRows, NEW passed \in BOOLEAN,
         reset[e].at = "idle", vote[v].status \in {"none", "active"},
         \A w \in Votes \ {v} : Reconciled[w].status \notin {"active", "executing"},
         x.support \subseteq x.eligible, x.status = IF passed THEN "executing" ELSE "active",
         \A f \in Resets : ~Holding(f),
         vote' = [Reconciled EXCEPT ![v] = x],
         reset' = IF passed THEN [reset EXCEPT ![e] = [NoReset EXCEPT !.at = "passed", !.vote = v]] ELSE reset,
         lease' \in {lease, NoLease}, UNCHANGED <<clock, joined, generation, spent>>
  PROVE  VotesInv'
<1>1. /\ vote' \in [Votes -> VoteRows] /\ vote'[v] = x
      /\ \A w \in Votes \ {v} : vote'[w] = Reconciled[w] /\ ClosesTo(vote[w], vote'[w])
  BY ReconciledRow DEF VotesInv, Reconciled
<1>2. PICK y \in ResetRequests : /\ y = [NoReset EXCEPT !.at = "passed", !.vote = v]
                                 /\ y.at = "passed" /\ y.vote = v
  BY PassedRequest, Zenon
<1>3. /\ reset' \in [Resets -> ResetRequests]
      /\ \A f \in Resets : reset'[f] = IF passed /\ f = e THEN y ELSE reset[f]
  <2>1. reset' = IF passed THEN [reset EXCEPT ![e] = y] ELSE reset
    BY <1>2, Zenon
  <2> QED BY <2>1 DEF VotesInv, VotesTypeOK
<1>4. \A f \in Resets : reset[f].vote # v
  BY VotesAssumption DEF VotesInv, VotesTypeOK, OneRequest
<1>5. VotesTypeOK'
  <2>1. lease' \in [of : Votes \cup {NoVote}, acquired : Nat, held : BOOLEAN]
    BY NoRows DEF VotesInv, VotesTypeOK
  <2> QED BY <1>1, <1>3, <2>1 DEF VotesInv, VotesTypeOK
<1>6. OneOpenVote'
  BY <1>1 DEF VotesInv, OneOpenVote, ClosesTo
<1>7. OneRequest'
  <2>1. v # NoVote /\ vote'[v].status \notin {"none", "expired"} /\ (passed => vote'[v].status # "active")
    BY <1>1, VotesAssumption
  <2>2. \A f \in Resets : reset[f] \in ResetRequests /\ reset[f].vote \in Votes \cup {NoVote}
    BY DEF VotesInv, VotesTypeOK, ResetRequests
  <2>3. ASSUME NEW f \in Resets
        PROVE /\ reset'[f].at = "idle" => reset'[f].vote = NoVote
              /\ reset'[f].at = "passed" => reset'[f].vote # NoVote
    BY <1>2, <1>3, <2>1 DEF VotesInv, OneRequest
  <2>4. ASSUME NEW f \in Resets, reset'[f].vote # NoVote
        PROVE vote'[reset'[f].vote].status \notin {"none", "active", "expired"}
    <3>1. CASE passed /\ f = e
      BY <1>2, <1>3, <2>1, <3>1
    <3>2. CASE ~(passed /\ f = e)
      <4>1. reset'[f] = reset[f] /\ reset[f].vote \in Votes \ {v}
        BY <1>3, <1>4, <2>2, <2>4, <3>2
      <4>2. vote[reset[f].vote].status \notin {"none", "active", "expired"}
        BY <2>4, <4>1 DEF VotesInv, OneRequest
      <4> QED BY <1>1, <4>1, <4>2 DEF ClosesTo
    <3> QED BY <3>1, <3>2
  <2>5. ASSUME NEW f \in Resets, reset'[f].vote # NoVote, NEW g \in Resets, g # f
        PROVE reset'[g].vote # reset'[f].vote
    <3>1. reset[f].vote # NoVote => reset[g].vote # reset[f].vote
      BY <2>5 DEF VotesInv, OneRequest
    <3> QED BY <1>2, <1>3, <1>4, <2>5, <3>1
  <2> QED BY <2>3, <2>4, <2>5 DEF OneRequest
<1>8. SpentByRequest'
  <2>1. \A w \in Votes : spent[w] \in {0, 1} /\ (vote'[w].status \in Unspent => spent[w] = 0)
    BY <1>1 DEF VotesInv, SpentByRequest, Unspent, ClosesTo
  <2>2. spent[v] = 0
    BY DEF VotesInv, SpentByRequest, Unspent
  <2>3. ASSUME NEW f \in Resets, reset'[f].vote # NoVote
        PROVE /\ reset'[f].at \in {"passed", "prepared", "reserved"} => spent[reset'[f].vote] = 0
              /\ reset'[f].at \in {"reserved", "consumed", "unanswered", "settled"} =>
                   vote'[reset'[f].vote].status \notin Unspent
    <3>1. CASE passed /\ f = e
      BY <1>2, <1>3, <2>2, <3>1
    <3>2. CASE ~(passed /\ f = e)
      BY <1>1, <1>3, <1>4, <2>3, <3>2
         DEF VotesInv, VotesTypeOK, ResetRequests, SpentByRequest, Unspent, ClosesTo
    <3> QED BY <3>1, <3>2
  <2> QED BY <2>1, <2>3 DEF SpentByRequest
<1>9. HolderAlone'
  BY <1>2, <1>3 DEF HolderAlone, Holding
<1> QED BY <1>5, <1>6, <1>7, <1>8, <1>9 DEF VotesInv

(* A transaction of the request e writes the row x for the plan's members, *)
(* and if x has a strict majority of them, e goes on to execute it.        *)
Writes(e, v, x, passed) ==
  /\ x.support \subseteq x.eligible /\ x.eligible = joined
  /\ x.status = IF passed THEN "executing" ELSE "active"
  /\ passed => Cardinality(x.support) * 2 > Cardinality(x.eligible)
  /\ vote' = [Reconciled EXCEPT ![v] = x]
  /\ reset' = IF passed THEN [reset EXCEPT ![e] = [NoReset EXCEPT !.at = "passed", !.vote = v]] ELSE reset

(* What a creation writes: a row for the plan's members, which passes if   *)
(* its support is a strict majority of them.                               *)
LEMMA CreatedRow ==
  ASSUME VotesInv, NEW e \in Resets, NEW m \in Members, NEW v \in Votes, CreateQuotaResetVote(e, m, v)
  PROVE  \E x \in VoteRows, passed \in BOOLEAN : Writes(e, v, x, passed)
<1>1. PICK new : new = [status |-> "active", eligible |-> joined, support |-> {m}, generation |-> generation,
                        created |-> clock, started |-> 0]
  OBVIOUS
<1>2. PICK passed \in BOOLEAN : passed <=> quotaResetVotePassed(new)
  BY ONLY Zenon
<1>3. PICK x : x = IF passed THEN [new EXCEPT !.status = "executing", !.started = clock] ELSE new
  OBVIOUS
<1>4. /\ m \in joined
      /\ vote' = [Reconciled EXCEPT ![v] = x]
      /\ reset' = IF passed THEN [reset EXCEPT ![e] = [NoReset EXCEPT !.at = "passed", !.vote = v]] ELSE reset
  BY <1>1, <1>2, <1>3, Zenon DEF CreateQuotaResetVote
<1>5. clock \in Nat /\ joined \subseteq Members /\ generation \in {0, 1}
  BY DEF VotesInv, VotesTypeOK
<1>6. new \in VoteRows /\ new.support = {m} /\ new.eligible = joined /\ new.status = "active"
  BY ONLY <1>1, <1>5, m \in Members DEF VoteRows
<1>7. x \in VoteRows /\ x.support = new.support /\ x.eligible = new.eligible
      /\ x.status = IF passed THEN "executing" ELSE "active"
  BY ONLY <1>3, <1>5, <1>6, passed \in BOOLEAN DEF VoteRows
<1>8. passed => Cardinality(x.support) * 2 > Cardinality(x.eligible)
  BY <1>2, <1>7, Zenon DEF quotaResetVotePassed
<1>9. x.support \subseteq x.eligible /\ x.eligible = joined
  BY <1>4, <1>6, <1>7, Zenon
<1> QED BY <1>4, <1>7, <1>8, <1>9, Zenon DEF Writes

LEMMA CreateStep ==
  ASSUME VotesInv, NEW e \in Resets, NEW m \in Members, NEW v \in Votes, CreateQuotaResetVote(e, m, v)
  PROVE  VotesInv'
<1>1. PICK x \in VoteRows, passed \in BOOLEAN : Writes(e, v, x, passed)
  BY CreatedRow
<1>2. /\ reset[e].at = "idle" /\ vote[v].status = "none"
      /\ Open(Reconciled) = {} /\ ~LeaseActive /\ lease' = NoLease
      /\ UNCHANGED <<clock, joined, generation, spent>>
  BY Zenon DEF CreateQuotaResetVote
<1>3. \A w \in Votes \ {v} : Reconciled[w].status \notin {"active", "executing"}
  BY <1>2 DEF Open
<1>4. \A f \in Resets : ~Holding(f)
  BY <1>2, NoHolder
<1>5. vote[v].status \in {"none", "active"} /\ lease' \in {lease, NoLease}
  BY <1>2
<1> QED BY <1>1, <1>2, <1>3, <1>4, <1>5, PassingStep DEF Writes

(* What a vote cast on an open vote writes.                                *)
LEMMA CastRow ==
  ASSUME VotesInv, NEW e \in Resets, NEW m \in Members, NEW v \in Votes, NEW support \in BOOLEAN,
         CastQuotaResetVote(e, m, v, support), Reconciled[v].status = "active"
  PROVE  \E x \in VoteRows, passed \in BOOLEAN : Writes(e, v, x, passed)
<1>1. PICK old : old = Reconciled[v]
  OBVIOUS
<1>2. PICK cast : cast = [old EXCEPT !.support = IF support THEN @ \cup {m} ELSE @ \ {m}]
  OBVIOUS
<1>3. PICK passed \in BOOLEAN : passed <=> quotaResetVotePassed(cast)
  BY ONLY Zenon
<1>4. PICK x : x = IF passed THEN [cast EXCEPT !.status = "executing", !.started = clock] ELSE cast
  OBVIOUS
<1>5. /\ m \in old.eligible
      /\ vote' = [Reconciled EXCEPT ![v] = x]
      /\ reset' = IF passed THEN [reset EXCEPT ![e] = [NoReset EXCEPT !.at = "passed", !.vote = v]] ELSE reset
  BY <1>1, <1>2, <1>3, <1>4, Zenon DEF CastQuotaResetVote
<1>6. old \in VoteRows /\ old.status = "active" /\ old.support \subseteq old.eligible /\ old.eligible = joined
  BY <1>1, ReconciledRow DEF VotesInv, OneOpenVote, ClosesTo
<1>7. clock \in Nat
  BY DEF VotesInv, VotesTypeOK
<1>8. /\ cast \in VoteRows /\ cast.support \subseteq cast.eligible /\ cast.eligible = joined
      /\ cast.status = "active"
  BY ONLY <1>2, <1>5, <1>6, m \in Members, support \in BOOLEAN DEF VoteRows
<1>9. x \in VoteRows /\ x.support = cast.support /\ x.eligible = cast.eligible
      /\ x.status = IF passed THEN "executing" ELSE "active"
  BY ONLY <1>4, <1>7, <1>8, passed \in BOOLEAN DEF VoteRows
<1>10. passed => Cardinality(x.support) * 2 > Cardinality(x.eligible)
  BY <1>3, <1>9, Zenon DEF quotaResetVotePassed
<1>11. x.support \subseteq x.eligible /\ x.eligible = joined
  BY <1>8, <1>9, Zenon
<1> QED BY <1>5, <1>9, <1>10, <1>11, Zenon DEF Writes

LEMMA CastStep ==
  ASSUME VotesInv, NEW e \in Resets, NEW m \in Members, NEW v \in Votes, NEW support \in BOOLEAN,
         CastQuotaResetVote(e, m, v, support)
  PROVE  VotesInv'
<1>1. CASE Reconciled[v].status # "active"
  <2>1. vote' = Reconciled /\ UNCHANGED <<clock, joined, generation, lease, reset, spent>>
    BY <1>1 DEF CastQuotaResetVote
  <2> QED BY <2>1, ReconcileStep
<1>2. CASE Reconciled[v].status = "active"
  <2>1. PICK x \in VoteRows, passed \in BOOLEAN : Writes(e, v, x, passed)
    BY <1>2, CastRow
  <2>2. reset[e].at = "idle" /\ UNCHANGED <<clock, joined, generation, lease, spent>>
    BY Zenon DEF CastQuotaResetVote
  <2>3. vote[v].status = "active"
    BY <1>2, ReconciledRow DEF VotesInv
  <2>4. \A w \in Votes \ {v} : Reconciled[w].status \notin {"active", "executing"}
    BY <2>3, ReconciledRow DEF VotesInv, OneOpenVote, ClosesTo
  <2>5. \A f \in Resets : ~Holding(f)
    BY <2>3 DEF VotesInv, HolderAlone
  <2>6. vote[v].status \in {"none", "active"} /\ lease' \in {lease, NoLease}
    BY <2>2, <2>3
  <2> QED BY <2>1, <2>2, <2>4, <2>5, <2>6, PassingStep DEF Writes
<1> QED BY <1>1, <1>2

(* A request ends: it cancels its vote only before its reservation, and    *)
(* takes away no lease that another request holds.                         *)
LEMMA EndStep ==
  ASSUME VotesInv, NEW e \in Resets, reset' = [reset EXCEPT ![e] = NoReset],
         \/ vote' = vote
         \/ reset[e].at \in {"passed", "prepared"} /\ vote' = Completed(reset[e].vote, "cancelled"),
         \/ lease' = lease
         \/ lease' = NoLease /\ \A f \in Resets : f # e => ~Holding(f),
         UNCHANGED <<clock, joined, generation, spent>>
  PROVE  VotesInv'
<1>1. /\ reset' \in [Resets -> ResetRequests] /\ reset'[e] = NoReset
      /\ \A f \in Resets : f # e => reset'[f] = reset[f]
  BY NoRows DEF VotesInv, VotesTypeOK
<1>2. \A f \in Resets : reset[f] \in ResetRequests /\ (reset[f].vote # NoVote => reset[f].vote \in Votes)
  BY DEF VotesInv, VotesTypeOK, ResetRequests
<1>3. /\ vote' \in [Votes -> VoteRows]
      /\ \A w \in Votes :
           \/ vote'[w] = vote[w]
           \/ /\ w = reset[e].vote /\ reset[e].at \in {"passed", "prepared"}
              /\ vote[w].status = "executing" /\ vote'[w].status = "cancelled"
              /\ vote'[w].support = vote[w].support /\ vote'[w].eligible = vote[w].eligible
  <2>1. CASE vote' = vote
    BY <2>1 DEF VotesInv, VotesTypeOK
  <2>2. CASE vote' # vote
    <3>1. PICK v \in Votes : /\ v = reset[e].vote /\ vote[v].status = "executing"
                             /\ vote' = [vote EXCEPT ![v].status = "cancelled"]
      BY <1>2, <2>2 DEF Completed
    <3> QED BY <2>2, <3>1 DEF VotesInv, VotesTypeOK, VoteRows
  <2> QED BY <2>1, <2>2
<1>4. VotesTypeOK'
  BY <1>1, <1>3, NoRows DEF VotesInv, VotesTypeOK
<1>5. OneOpenVote'
  BY <1>3 DEF VotesInv, OneOpenVote
<1>6. OneRequest'
  BY <1>1, <1>2, <1>3, NoRows DEF VotesInv, OneRequest
<1>7. SpentByRequest'
  <2>1. \A w \in Votes : spent[w] \in {0, 1} /\ (vote'[w].status \in Unspent => spent[w] = 0)
    BY <1>2, <1>3, VotesAssumption DEF VotesInv, SpentByRequest, Unspent
  <2>2. ASSUME NEW f \in Resets, reset'[f].vote # NoVote
        PROVE f # e /\ reset'[f] = reset[f] /\ vote'[reset[f].vote] = vote[reset[f].vote]
    BY <1>1, <1>2, <1>3, <2>2, NoRows DEF VotesInv, OneRequest
  <2> QED BY <2>1, <2>2 DEF VotesInv, SpentByRequest
<1>8. HolderAlone'
  <2>1. \A f \in Resets : Holding(f)' => f # e /\ Holding(f) /\ reset'[f] = reset[f]
    BY <1>1, NoRows DEF Holding
  <2>2. \A f \in Resets : Holding(f)' => lease' = lease
    BY <2>1
  <2>3. \A w \in Votes : /\ vote'[w].status = "active" => vote[w].status = "active"
                         /\ vote'[w].status = "executing" => vote'[w] = vote[w]
    BY <1>3
  <2> QED BY <2>1, <2>2, <2>3 DEF VotesInv, HolderAlone
<1> QED BY <1>4, <1>5, <1>6, <1>7, <1>8 DEF VotesInv

LEMMA ReleaseStep ==
  ASSUME VotesInv, NEW e \in Resets, ReleaseQuotaResetExecution(e)
  PROVE  VotesInv'
<1>1. CASE lease.held /\ lease.acquired = reset[e].acquired /\ lease.of = reset[e].vote
  <2>1. \A f \in Resets : f # e => ~Holding(f)
    BY <1>1 DEF ReleaseQuotaResetExecution, VotesInv, VotesTypeOK, HolderAlone, Holding
  <2> QED BY <1>1, <2>1, EndStep DEF ReleaseQuotaResetExecution
<1>2. CASE ~(lease.held /\ lease.acquired = reset[e].acquired /\ lease.of = reset[e].vote)
  BY <1>2, EndStep DEF ReleaseQuotaResetExecution
<1> QED BY <1>1, <1>2

(* A request goes on: from "passed" or "idle" to "prepared", or from its   *)
(* reservation to its settlement, and only then is its vote settled.       *)
LEMMA PrepareStep ==
  ASSUME VotesInv, NEW e \in Resets, Prepare(e)
  PROVE  VotesInv'
<1>1. /\ reset' \in [Resets -> ResetRequests]
      /\ reset'[e].at = "prepared" /\ reset'[e].vote = reset[e].vote
      /\ \A f \in Resets : f # e => reset'[f] = reset[f]
      /\ reset[e].at \in {"passed", "idle"}
      /\ UNCHANGED <<clock, joined, generation, vote, lease, spent>>
  <2>1. PICK x \in ResetRequests : x = reset[e]
    BY DEF VotesInv, VotesTypeOK
  <2>2. PICK y : y = [x EXCEPT !.at = "prepared", !.generation = generation]
    OBVIOUS
  <2>3. generation \in {0, 1} /\ reset \in [Resets -> ResetRequests]
    BY DEF VotesInv, VotesTypeOK
  <2>4. y \in ResetRequests /\ y.at = "prepared" /\ y.vote = x.vote
    BY ONLY <2>2, <2>3, x \in ResetRequests DEF ResetRequests
  <2>5. reset' = [reset EXCEPT ![e] = y]
    BY <2>1, <2>2, <2>3 DEF Prepare
  <2>6. reset[e].at \in {"passed", "idle"} /\ UNCHANGED <<clock, joined, generation, vote, lease, spent>>
    BY DEF Prepare
  <2> QED BY ONLY <2>1, <2>3, <2>4, <2>5, <2>6, e \in Resets
<1>2. VotesTypeOK' /\ OneOpenVote'
  BY <1>1 DEF VotesInv, VotesTypeOK, OneOpenVote
<1>3. OneRequest'
  BY <1>1 DEF VotesInv, OneRequest
<1>4. SpentByRequest'
  BY <1>1 DEF VotesInv, OneRequest, SpentByRequest
<1>5. HolderAlone'
  <2>1. \A f \in Resets : Holding(f)' => f # e /\ Holding(f) /\ reset'[f] = reset[f]
    BY <1>1 DEF Holding
  <2> QED BY <1>1, <2>1 DEF VotesInv, HolderAlone
<1> QED BY <1>2, <1>3, <1>4, <1>5 DEF VotesInv

(* What Reserved makes of the request e.                                   *)
LEMMA ReservedRow ==
  ASSUME VotesInv, NEW e \in Resets, reset' = Reserved(e)
  PROVE  /\ reset' \in [Resets -> ResetRequests]
         /\ reset'[e].at = "reserved" /\ reset'[e].vote = reset[e].vote /\ reset'[e].acquired = clock
         /\ \A f \in Resets : f # e => reset'[f] = reset[f]
<1>1. PICK x \in ResetRequests : x = reset[e]
  BY DEF VotesInv, VotesTypeOK
<1>2. PICK y : y = [x EXCEPT !.at = "reserved", !.generation = 0, !.acquired = clock]
  OBVIOUS
<1>3. clock \in Nat /\ reset \in [Resets -> ResetRequests]
  BY DEF VotesInv, VotesTypeOK
<1>4. y \in ResetRequests /\ y.at = "reserved" /\ y.vote = x.vote /\ y.acquired = clock
  BY ONLY <1>2, <1>3, x \in ResetRequests DEF ResetRequests
<1>5. reset' = [reset EXCEPT ![e] = y]
  BY <1>1, <1>2, <1>3 DEF Reserved
<1> QED BY ONLY <1>1, <1>3, <1>4, <1>5, e \in Resets

LEMMA ReserveManualStep ==
  ASSUME VotesInv, NEW e \in Resets, ReserveManualQuotaReset(e)
  PROVE  VotesInv'
<1> DEFINE granted == /\ reset[e].generation = generation /\ ~LeaseActive
                      /\ \A v \in Votes : Reconciled[v].status # "executing"
<1>1. CASE ~granted
  <2>1. vote' = vote /\ lease' = lease /\ reset' = [reset EXCEPT ![e] = NoReset]
        /\ UNCHANGED <<clock, joined, generation, spent>>
    BY <1>1, Zenon DEF ReserveManualQuotaReset
  <2> QED BY <2>1, EndStep
<1>2. CASE granted
  <2>1. /\ reset[e].at = "prepared" /\ reset[e].vote = NoVote
        /\ ~LeaseActive /\ \A v \in Votes : Reconciled[v].status # "executing"
        /\ lease' = [of |-> NoVote, acquired |-> clock, held |-> TRUE]
        /\ reset' = Reserved(e)
        /\ UNCHANGED <<clock, joined, generation, spent>>
        /\ vote' = [v \in Votes |-> IF Reconciled[v].status = "active"
                                    THEN [Reconciled[v] EXCEPT !.status = "cancelled"] ELSE Reconciled[v]]
    BY <1>2, Zenon DEF ReserveManualQuotaReset
  <2>2. /\ vote' \in [Votes -> VoteRows]
        /\ \A v \in Votes : /\ ClosesTo(vote[v], vote'[v])
                            /\ vote'[v].status \notin {"active", "executing"}
    <3>1. ASSUME NEW v \in Votes
          PROVE  /\ vote'[v] \in VoteRows /\ ClosesTo(vote[v], vote'[v])
                 /\ vote'[v].status \notin {"active", "executing"}
      <4>1. PICK x \in VoteRows : x = Reconciled[v]
        BY ReconciledRow DEF VotesInv
      <4>2. vote'[v] = IF x.status = "active" THEN [x EXCEPT !.status = "cancelled"] ELSE x
        BY ONLY <2>1, <4>1, v \in Votes, Zenon
      <4>3. x.status # "executing" /\ ClosesTo(vote[v], x)
            /\ (x.status = "active" => vote[v].status = "active")
        BY <2>1, <4>1, ReconciledRow DEF VotesInv
      <4>4. vote[v] \in VoteRows
        BY DEF VotesInv, VotesTypeOK
      <4> QED BY ONLY <4>2, <4>3, <4>4, x \in VoteRows DEF VoteRows, ClosesTo
    <3>2. \E g : vote' = [v \in Votes |-> g[v]]
      BY <2>1, <3>1, Zenon
    <3> QED BY <3>1, <3>2
  <2>3. lease' \in [of : Votes \cup {NoVote}, acquired : Nat, held : BOOLEAN]
        /\ lease'.held = TRUE /\ lease'.acquired = clock /\ lease'.of = NoVote
    <3>1. clock \in Nat
      BY DEF VotesInv, VotesTypeOK
    <3> QED BY ONLY <2>1, <3>1
  <2>4. \A f \in Resets : ~Holding(f)
    BY <2>1, NoHolder
  <2> HIDE DEF granted
  <2>5. /\ reset' \in [Resets -> ResetRequests]
        /\ reset'[e].at = "reserved" /\ reset'[e].vote = NoVote /\ reset'[e].acquired = clock
        /\ \A f \in Resets : f # e => reset'[f] = reset[f]
    BY <2>1, ReservedRow
  <2>6. clock' = clock /\ joined' = joined /\ generation' = generation /\ spent' = spent
    BY <2>1
  <2>7. VotesTypeOK'
    BY ONLY VotesInv, <2>2, <2>3, <2>5, <2>6 DEF VotesInv, VotesTypeOK
  <2>8. OneOpenVote'
    BY ONLY VotesInv, <2>2 DEF VotesInv, OneOpenVote, ClosesTo
  <2>9. OneRequest'
    <3>1. ASSUME NEW f \in Resets, reset[f].vote # NoVote
          PROVE  vote'[reset[f].vote].status \notin {"none", "active", "expired"}
      <4>1. reset[f].vote \in Votes /\ vote[reset[f].vote].status \notin {"none", "active", "expired"}
        BY ONLY VotesInv, <3>1, f \in Resets DEF VotesInv, VotesTypeOK, ResetRequests, OneRequest
      <4> QED BY ONLY <2>2, <4>1 DEF ClosesTo
    <3> QED BY ONLY VotesInv, <2>5, <3>1 DEF VotesInv, OneRequest
  <2>10. SpentByRequest'
    <3>1. \A v \in Votes : spent[v] \in {0, 1} /\ (vote'[v].status \in Unspent => spent[v] = 0)
      BY ONLY VotesInv, <2>2 DEF VotesInv, SpentByRequest, ClosesTo, Unspent
    <3>2. ASSUME NEW f \in Resets, reset'[f].vote # NoVote
          PROVE  /\ reset'[f] = reset[f] /\ reset[f].vote \in Votes
                 /\ ClosesTo(vote[reset[f].vote], vote'[reset[f].vote])
      BY ONLY VotesInv, <2>2, <2>5, <3>2, f \in Resets DEF VotesInv, VotesTypeOK, ResetRequests
    <3> QED BY ONLY VotesInv, <2>6, <3>1, <3>2 DEF VotesInv, SpentByRequest, ClosesTo, Unspent
  <2>11. HolderAlone'
    <3>1. \A f \in Resets : Holding(f)' => f = e
      BY ONLY <2>4, <2>5, <2>6 DEF Holding
    <3> QED BY ONLY <2>2, <2>3, <2>5, <3>1 DEF HolderAlone
  <2> QED BY <2>7, <2>8, <2>9, <2>10, <2>11 DEF VotesInv
<1> QED BY <1>1, <1>2

LEMMA ReserveVotedStep ==
  ASSUME VotesInv, NEW e \in Resets, ReserveVotedQuotaReset(e)
  PROVE  VotesInv'
<1>1. reset[e].vote \in Votes /\ reset[e].at = "prepared"
  BY DEF ReserveVotedQuotaReset, VotesInv, VotesTypeOK, ResetRequests
<1> DEFINE granted == /\ reset[e].generation = generation /\ ~LeaseActive
                      /\ vote[reset[e].vote].status = "executing"
                      /\ vote[reset[e].vote].generation = generation
<1>2. CASE ~granted
  <2>1. /\ vote' = Completed(reset[e].vote, "cancelled") /\ lease' = lease
        /\ reset' = [reset EXCEPT ![e] = NoReset]
        /\ UNCHANGED <<clock, joined, generation, spent>>
    BY <1>2, Zenon DEF ReserveVotedQuotaReset
  <2> QED BY <1>1, <2>1, EndStep
<1>3. CASE granted
  <2>1. PICK v \in Votes : v = reset[e].vote
    BY <1>1
  <2>2. /\ ~LeaseActive /\ vote[v].status = "executing"
        /\ lease' = [of |-> v, acquired |-> clock, held |-> TRUE]
        /\ reset' = Reserved(e)
        /\ UNCHANGED <<clock, joined, generation, vote, spent>>
    BY <1>3, <2>1, Zenon DEF ReserveVotedQuotaReset
  <2> HIDE DEF granted
  <2>3. /\ lease' \in [of : Votes \cup {NoVote}, acquired : Nat, held : BOOLEAN]
        /\ lease'.held = TRUE /\ lease'.acquired = clock /\ lease'.of = v
    <3>1. clock \in Nat
      BY DEF VotesInv, VotesTypeOK
    <3> QED BY ONLY <2>2, <3>1, v \in Votes
  <2>4. \A f \in Resets : ~Holding(f)
    BY <2>2, NoHolder
  <2>5. /\ reset' \in [Resets -> ResetRequests]
        /\ reset'[e].at = "reserved" /\ reset'[e].vote = v /\ reset'[e].acquired = clock
        /\ \A f \in Resets : f # e => reset'[f] = reset[f]
    BY <2>1, <2>2, ReservedRow
  <2>6. VotesTypeOK' /\ OneOpenVote'
    BY <2>2, <2>3, <2>5 DEF VotesInv, VotesTypeOK, OneOpenVote
  <2>7. OneRequest'
    BY <2>1, <2>2, <2>5 DEF VotesInv, OneRequest
  <2>8. SpentByRequest'
    BY <1>1, <2>1, <2>2, <2>5 DEF VotesInv, SpentByRequest, Unspent
  <2>9. HolderAlone'
    <3>1. \A f \in Resets : Holding(f)' => f = e
      BY <2>2, <2>4, <2>5 DEF Holding
    <3>2. \A w \in Votes : vote[w].status # "active" /\ (vote[w].status = "executing" => w = v)
      BY <2>2 DEF VotesInv, OneOpenVote
    <3> QED BY <2>2, <2>3, <2>5, <3>1, <3>2 DEF HolderAlone
  <2> QED BY <2>6, <2>7, <2>8, <2>9 DEF VotesInv
<1> QED BY <1>2, <1>3

(* A request goes from its reservation on; its vote, past being cancelled, *)
(* may be settled meanwhile.                                               *)
LEMMA ExecuteStep ==
  ASSUME VotesInv, NEW e \in Resets, NEW at \in {"consumed", "unanswered", "settled"},
         reset[e].at \in {"reserved", "consumed", "unanswered"},
         reset' = [reset EXCEPT ![e].at = at],
         vote' \in [Votes -> VoteRows], \A v \in Votes : ClosesTo(vote[v], vote'[v]),
         spent' \in [Votes -> Nat],
         \A v \in Votes :
           \/ spent'[v] = spent[v]
           \/ reset[e].at = "reserved" /\ v = reset[e].vote /\ spent'[v] = spent[v] + 1,
         UNCHANGED <<clock, joined, generation, lease>>
  PROVE  VotesInv'
<1>1. /\ reset' \in [Resets -> ResetRequests]
      /\ reset'[e].at = at /\ reset'[e].vote = reset[e].vote /\ reset'[e].acquired = reset[e].acquired
      /\ \A f \in Resets : f # e => reset'[f] = reset[f]
  BY DEF VotesInv, VotesTypeOK, ResetRequests
<1>2. \A f \in Resets : reset[f].vote # NoVote => reset[f].vote \in Votes
  BY DEF VotesInv, VotesTypeOK, ResetRequests
<1>3. VotesTypeOK'
  BY <1>1 DEF VotesInv, VotesTypeOK
<1>4. OneOpenVote'
  BY DEF VotesInv, OneOpenVote, ClosesTo
<1>5. OneRequest'
  BY <1>1, <1>2 DEF VotesInv, OneRequest, ClosesTo
<1>6. SpentByRequest'
  <2>1. \A v \in Votes : spent'[v] \in {0, 1} /\ (vote'[v].status \in Unspent => spent'[v] = 0)
    <3> SUFFICES ASSUME NEW v \in Votes
                 PROVE  spent'[v] \in {0, 1} /\ (vote'[v].status \in Unspent => spent'[v] = 0)
      OBVIOUS
    <3>1. CASE spent'[v] = spent[v]
      BY <3>1 DEF VotesInv, SpentByRequest, Unspent, ClosesTo
    <3>2. CASE reset[e].at = "reserved" /\ v = reset[e].vote /\ spent'[v] = spent[v] + 1
      BY <3>2, VotesAssumption DEF VotesInv, SpentByRequest, Unspent, ClosesTo
    <3> QED BY <3>1, <3>2
  <2>2. ASSUME NEW f \in Resets, reset'[f].vote # NoVote
        PROVE /\ reset'[f].at \in {"passed", "prepared", "reserved"} => spent'[reset'[f].vote] = 0
              /\ reset'[f].at \in {"reserved", "consumed", "unanswered", "settled"} =>
                   vote'[reset'[f].vote].status \notin Unspent
    <3>1. CASE f = e
      BY <1>1, <1>2, <2>2, <3>1 DEF VotesInv, SpentByRequest, Unspent, ClosesTo
    <3>2. CASE f # e
      <4>1. reset'[f] = reset[f] /\ reset[f].vote \in Votes /\ reset[f].vote # reset[e].vote
        BY <1>1, <1>2, <2>2, <3>2 DEF VotesInv, OneRequest
      <4> QED BY <2>2, <4>1 DEF VotesInv, SpentByRequest, Unspent, ClosesTo
    <3> QED BY <3>1, <3>2
  <2> QED BY <2>1, <2>2 DEF SpentByRequest
<1>7. HolderAlone'
  <2>1. \A f \in Resets : /\ Holding(f)' => Holding(f)
                          /\ reset'[f].acquired = reset[f].acquired /\ reset'[f].vote = reset[f].vote
    BY <1>1 DEF Holding
  <2> QED BY <2>1 DEF VotesInv, HolderAlone, ClosesTo
<1> QED BY <1>3, <1>4, <1>5, <1>6, <1>7 DEF VotesInv

LEMMA ConsumeStep ==
  ASSUME VotesInv, NEW e \in Resets, NEW b \in BOOLEAN, ConsumeQuotaResetCredit(e, b)
  PROVE  VotesInv'
<1>1. PICK at \in {"consumed", "unanswered", "settled"} : reset' = [reset EXCEPT ![e].at = at]
  BY Zenon DEF ConsumeQuotaResetCredit
<1>2. /\ reset[e].at = "reserved" /\ UNCHANGED <<clock, joined, generation, vote, lease>>
      /\ spent' = IF reset[e].vote = NoVote THEN spent
                  ELSE [spent EXCEPT ![reset[e].vote] = spent[reset[e].vote] + 1]
  BY Zenon DEF ConsumeQuotaResetCredit
<1>3. reset[e].vote \in Votes \cup {NoVote} /\ spent \in [Votes -> Nat]
  BY DEF VotesInv, VotesTypeOK, ResetRequests
<1>4. /\ spent' \in [Votes -> Nat]
      /\ \A v \in Votes : \/ spent'[v] = spent[v]
                          \/ v = reset[e].vote /\ spent'[v] = spent[v] + 1
  BY ONLY <1>2, <1>3
<1>5. vote' \in [Votes -> VoteRows] /\ \A v \in Votes : ClosesTo(vote[v], vote'[v])
  BY <1>2 DEF VotesInv, VotesTypeOK, ClosesTo
<1> QED BY <1>1, <1>2, <1>4, <1>5, ExecuteStep

LEMMA CompleteStep ==
  ASSUME VotesInv, NEW e \in Resets, NEW b \in BOOLEAN, CompleteQuotaResetVote(e, b)
  PROVE  VotesInv'
<1>1. PICK status \in {"outcome_unknown", "succeeded", "succeeded_unsynced"} :
        vote' = Completed(reset[e].vote, status)
  BY Zenon DEF CompleteQuotaResetVote
<1>2. /\ reset[e].at \in {"consumed", "unanswered"} /\ reset' = [reset EXCEPT ![e].at = "settled"]
      /\ UNCHANGED <<clock, joined, generation, lease, spent>>
  BY Zenon DEF CompleteQuotaResetVote
<1>3. vote' \in [Votes -> VoteRows] /\ \A v \in Votes : ClosesTo(vote[v], vote'[v])
  <2>1. CASE vote' = vote
    BY <2>1 DEF VotesInv, VotesTypeOK, ClosesTo
  <2>2. CASE vote' # vote
    <3>1. reset[e].vote \in Votes /\ vote[reset[e].vote].status = "executing"
          /\ vote' = [vote EXCEPT ![reset[e].vote].status = status]
      BY <1>1, <2>2 DEF Completed, VotesInv, VotesTypeOK, ResetRequests
    <3> QED BY <3>1 DEF VotesInv, VotesTypeOK, VoteRows, ClosesTo
  <2> QED BY <2>1, <2>2
<1>4. spent' \in [Votes -> Nat]
  BY <1>2 DEF VotesInv, VotesTypeOK
<1> QED BY <1>2, <1>3, <1>4, ExecuteStep
(* Members, the binding and the time change, the time only forwards.       *)
LEMMA PlanStep ==
  ASSUME VotesInv, clock' \in Nat, clock' >= clock, joined' \subseteq Members, generation' \in {0, 1},
         UNCHANGED <<vote, lease, reset, spent>>
  PROVE  VotesInv'
<1>1. VotesTypeOK' /\ OneOpenVote' /\ OneRequest' /\ SpentByRequest'
  BY DEF VotesInv, VotesTypeOK, OneOpenVote, OneRequest, SpentByRequest
<1>2. HolderAlone'
  <2>1. \A e \in Resets : Holding(e)' => Holding(e)
    BY VotesAssumption DEF VotesInv, VotesTypeOK, ResetRequests, Holding
  <2>2. \A v \in Votes : (vote[v].started + LeaseTTL > clock)' => vote[v].started + LeaseTTL > clock
    BY VotesAssumption DEF VotesInv, VotesTypeOK, VoteRows
  <2> QED BY <2>1, <2>2 DEF VotesInv, HolderAlone
<1> QED BY <1>1, <1>2 DEF VotesInv

LEMMA VotesStep == VotesInv /\ [VotesNext]_voteVars => VotesInv'
<1> SUFFICES ASSUME VotesInv, [VotesNext]_voteVars PROVE VotesInv'
  OBVIOUS
<1>1. clock \in Nat /\ joined \subseteq Members /\ generation \in {0, 1}
  BY DEF VotesInv, VotesTypeOK
<1>2. ASSUME NEW e \in Resets, NEW m \in Members, NEW v \in Votes, CreateQuotaResetVote(e, m, v)
      PROVE VotesInv'
  BY <1>2, CreateStep
<1>3. ASSUME NEW e \in Resets, NEW m \in Members, NEW v \in Votes, NEW support \in BOOLEAN,
             CastQuotaResetVote(e, m, v, support)
      PROVE VotesInv'
  BY <1>3, CastStep
<1>4. ASSUME NEW e \in Resets, PreflightFails(e) PROVE VotesInv'
  BY <1>4, EndStep DEF PreflightFails
<1>5. ASSUME NEW e \in Resets, Prepare(e) PROVE VotesInv'
  BY <1>5, PrepareStep
<1>6. ASSUME NEW e \in Resets, ReserveManualQuotaReset(e) PROVE VotesInv'
  BY <1>6, ReserveManualStep
<1>7. ASSUME NEW e \in Resets, ReserveVotedQuotaReset(e) PROVE VotesInv'
  BY <1>7, ReserveVotedStep
<1>8. ASSUME NEW e \in Resets, NEW b \in BOOLEAN, ConsumeQuotaResetCredit(e, b) PROVE VotesInv'
  BY <1>8, ConsumeStep
<1>9. ASSUME NEW e \in Resets, NEW b \in BOOLEAN, CompleteQuotaResetVote(e, b) PROVE VotesInv'
  BY <1>9, CompleteStep
<1>10. ASSUME NEW e \in Resets, ReleaseQuotaResetExecution(e) PROVE VotesInv'
  BY <1>10, ReleaseStep
<1>11. ASSUME NEW e \in Resets, RequestDies(e) PROVE VotesInv'
  BY <1>11, EndStep DEF RequestDies
<1>12. CASE ViewQuotaResetVote
  BY <1>12, ReconcileStep DEF ViewQuotaResetVote
<1>13. CASE RebindPlan
  BY <1>1, <1>13, PlanStep DEF RebindPlan
<1>14. CASE TermPasses
  BY <1>1, <1>14, PlanStep DEF TermPasses
<1>15. ASSUME NEW m \in Members, LeavePlan(m) PROVE VotesInv'
  BY <1>1, <1>15, PlanStep DEF LeavePlan
<1>16. ASSUME NEW m \in Members, JoinPlan(m) PROVE VotesInv'
  BY <1>1, <1>16, PlanStep DEF JoinPlan
<1>17. CASE UNCHANGED voteVars
  BY <1>1, <1>17, PlanStep DEF voteVars
<1> QED
  BY <1>2, <1>3, <1>4, <1>5, <1>6, <1>7, <1>8, <1>9, <1>10, <1>11, <1>12, <1>13, <1>14, <1>15, <1>16, <1>17
     DEF VotesNext

-----------------------------------------------------------------------------
(* Theorems                                                                *)

(* The invariant holds in every state of the votes.                        *)
THEOREM VotesInvariant == VotesSpec => []VotesInv
BY VotesStart, VotesStep, PTL DEF VotesSpec

(* quota_reset_votes.go: a vote that members see as cancelled or expired   *)
(* consumed no reset credit, and no vote consumes two, whatever requests   *)
(* die, run late or race a manual reset, for any number of them.           *)
THEOREM CancelledNeverSpent == VotesSpec => []CancelledSpendsNothing
<1>1. VotesInv => CancelledSpendsNothing
  BY DEF VotesInv, SpentByRequest, Unspent, CancelledSpendsNothing
<1> QED BY <1>1, VotesInvariant, PTL

(* The execution lease keeps a reset alone for its 15 minutes: no second   *)
(* request is between its reservation and its settlement, and no vote but  *)
(* its own is being executed.                                              *)
THEOREM AlwaysOneExecution == VotesSpec => []OneExecution
<1>1. VotesInv => OneExecution
  <2>1. \A e \in Resets : Reserving(e) => Holding(e)
    BY DEF Reserving, Holding
  <2> QED BY <2>1 DEF VotesInv, HolderAlone, OneExecution
<1> QED BY <1>1, VotesInvariant, PTL

(* A step that writes one row for the plan's members beside reconciled     *)
(* ones makes a vote executing only with their majority.                   *)
LEMMA WrittenMajority ==
  ASSUME VotesInv, NEW v \in Votes, NEW w \in Votes, NEW x \in VoteRows, NEW passed \in BOOLEAN,
         x.support \subseteq x.eligible, x.eligible = joined,
         x.status = IF passed THEN "executing" ELSE "active",
         passed => Cardinality(x.support) * 2 > Cardinality(x.eligible),
         vote' = [Reconciled EXCEPT ![w] = x],
         vote[v].status # "executing", vote'[v].status = "executing"
  PROVE  Cardinality(vote'[v].support \cap joined) * 2 > Cardinality(joined)
<1>1. Reconciled[v].status # "executing"
  BY ReconciledRow DEF VotesInv, ClosesTo
<1>2. v = w /\ vote'[v] = x
  BY <1>1 DEF Reconciled
<1>3. passed /\ x.support \cap joined = x.support
  BY <1>2
<1> QED BY <1>2, <1>3

(* Completing a vote does not make one executing.                          *)
LEMMA CompletedRow ==
  ASSUME VotesInv, NEW v \in Votes, NEW w \in Votes \cup {NoVote}, NEW status, status # "executing",
         Completed(w, status)[v].status = "executing"
  PROVE  vote[v].status = "executing"
<1>1. CASE Completed(w, status) = vote
  BY <1>1
<1>2. CASE Completed(w, status) # vote
  <2>1. w \in Votes /\ Completed(w, status) = [vote EXCEPT ![w].status = status]
    BY <1>2 DEF Completed
  <2> QED BY <2>1 DEF VotesInv, VotesTypeOK, VoteRows
<1> QED BY <1>1, <1>2

LEMMA PassesWithMajority ==
  ASSUME VotesInv, [VotesNext]_voteVars, NEW v \in Votes,
         vote[v].status # "executing", vote'[v].status = "executing"
  PROVE  Cardinality(vote'[v].support \cap joined) * 2 > Cardinality(joined)
<1> DEFINE Majority == Cardinality(vote'[v].support \cap joined) * 2 > Cardinality(joined)
<1>1. Reconciled[v].status # "executing" /\ Reconciled[v] \in VoteRows
  BY ReconciledRow DEF VotesInv, ClosesTo
<1>2. \A e \in Resets : reset[e].vote \in Votes \cup {NoVote}
  BY DEF VotesInv, VotesTypeOK, ResetRequests
<1>3. ASSUME NEW e \in Resets, NEW m \in Members, NEW w \in Votes, CreateQuotaResetVote(e, m, w)
      PROVE Majority
  <2>1. PICK x \in VoteRows, passed \in BOOLEAN : Writes(e, w, x, passed)
    BY <1>3, CreatedRow
  <2> QED BY <2>1, WrittenMajority DEF Writes
<1>4. ASSUME NEW e \in Resets, NEW m \in Members, NEW w \in Votes, NEW support \in BOOLEAN,
             CastQuotaResetVote(e, m, w, support)
      PROVE Majority
  <2>1. CASE Reconciled[w].status # "active"
    <3>1. vote' = Reconciled
      BY <1>4, <2>1, Zenon DEF CastQuotaResetVote
    <3> QED BY <1>1, <3>1
  <2>2. CASE Reconciled[w].status = "active"
    <3>1. PICK x \in VoteRows, passed \in BOOLEAN : Writes(e, w, x, passed)
      BY <1>4, <2>2, CastRow
    <3> QED BY <3>1, WrittenMajority DEF Writes
  <2> QED BY <2>1, <2>2
<1>5. ASSUME NEW e \in Resets, PreflightFails(e) PROVE Majority
  BY <1>2, <1>5, CompletedRow DEF PreflightFails
<1>6. ASSUME NEW e \in Resets, ReserveManualQuotaReset(e) PROVE Majority
  <2>1. PICK x \in VoteRows : x = Reconciled[v]
    BY <1>1
  <2>2. \/ vote' = vote
        \/ vote'[v] = IF x.status = "active" THEN [x EXCEPT !.status = "cancelled"] ELSE x
    BY <1>6, <2>1, Zenon DEF ReserveManualQuotaReset
  <2>3. IF x.status = "active" THEN vote'[v].status = "cancelled" ELSE vote'[v] = x
    BY <2>2, x \in VoteRows DEF VoteRows
  <2> QED BY <1>1, <2>1, <2>3
<1>7. ASSUME NEW e \in Resets, ReserveVotedQuotaReset(e) PROVE Majority
  BY <1>2, <1>7, CompletedRow DEF ReserveVotedQuotaReset
<1>8. ASSUME NEW e \in Resets, NEW b \in BOOLEAN, CompleteQuotaResetVote(e, b) PROVE Majority
  BY <1>2, <1>8, CompletedRow DEF CompleteQuotaResetVote
<1>9. CASE ViewQuotaResetVote
  BY <1>1, <1>9 DEF ViewQuotaResetVote
<1>10. CASE vote' = vote
  BY <1>10
<1> QED
  BY <1>3, <1>4, <1>5, <1>6, <1>7, <1>8, <1>9, <1>10
     DEF VotesNext, voteVars, Prepare, ConsumeQuotaResetCredit, ReleaseQuotaResetExecution, RequestDies,
         RebindPlan, TermPasses, LeavePlan, JoinPlan

(* CastQuotaResetVote: a vote passes only with a strict majority of those  *)
(* who are members when it does, although the plan changes while members   *)
(* vote; for any number of members and any interleaving.                   *)
THEOREM PassesOnlyWithMajority == VotesSpec => MajorityOfMembers
<1> DEFINE Step == \A v \in Votes : vote[v].status # "executing" /\ vote'[v].status = "executing"
                     => Cardinality(vote'[v].support \cap joined) * 2 > Cardinality(joined)
<1>1. VotesInv /\ [VotesNext]_voteVars => [Step]_voteVars
  BY PassesWithMajority
<1> QED BY <1>1, VotesInvariant, PTL DEF VotesSpec, MajorityOfMembers
=============================================================================
