------------------------- MODULE ConcurrencyHistory -------------------------
(***************************************************************************)
(* The concurrency trend of one plan: the collector that integrates the    *)
(* running requests into minutes, the flush that stores the minutes, and   *)
(* the reader that joins stored and live ones (concurrency_history.go,     *)
(* concurrency.go).                                                        *)
(*                                                                         *)
(* Time is counted in ticks, Minute of them to a minute.  Of a minute its  *)
(* request ticks and its peak are kept; one user stands for all of them.   *)
(* An admission counts from the tick at which it gets the mutex; the code  *)
(* passes the clock that the request read shortly before, and moves it up  *)
(* to the series' last advance when that is later.                         *)
(* Not modelled: the observed seconds, and minutes of removed accounts,    *)
(* which are not stored.                                                   *)
(***************************************************************************)
EXTENDS Integers, FiniteSetsExt

CONSTANTS
  Minute,       \* ticks of a minute
  Keep,         \* ticks a minute and an idle series stay in memory, 25 h
  Window,       \* minutes before the current one that are shown, 24 h
  Patience,     \* bound on the ticks a reader waits for the database
  MaxTick,
  MaxStarted,   \* bound on the requests started
  MaxSeries     \* bound on the series created

ASSUME HistoryAssumption ==
  /\ Minute \in Nat \ {0} /\ MaxTick \in Nat /\ MaxStarted \in Nat /\ MaxSeries \in Nat
  /\ Keep \in Nat /\ Window \in Nat /\ Patience \in Nat
  /\ Window * Minute + 2 * Patience + Minute - 1 <= Keep

VARIABLES
  tick,
  running,      \* requests admitted and not released
  started,
  series,       \* c.history: the series, its instance, last and lastUsed
  bucket,       \* its buckets, by minute
  flush,        \* FlushConcurrencyHistory: where it is and what is pending
  saved,        \* account_concurrency_minutes, by instance and minute
  reader,       \* PlanConcurrency: where it is, its time, the rows it read
  truth         \* history: the use and peak of each minute

historyVars == <<tick, running, started, series, bucket, flush, saved, reader, truth>>

Minutes == 0 .. MaxTick \div Minute

MinuteOf(t) == t \div Minute

Unused == [used |-> 0, peak |-> 0]

(* A bucket: whether its revision is not the saved one, and whether it is  *)
(* still the one that the flush under way has copied.                      *)
NoBucket == [exists |-> FALSE, dirty |-> FALSE, copied |-> FALSE, value |-> Unused]

Changed(value) == [exists |-> TRUE, dirty |-> TRUE, copied |-> FALSE, value |-> value]

NoSeries(id) == [exists |-> FALSE, id |-> id, last |-> 0, lastUsed |-> 0]

NoBuckets == [m \in Minutes |-> NoBucket]

NoFlush == [at |-> "idle", id |-> 0, pending |-> <<>>]

NoReader == [at |-> "idle", now |-> 0, rows |-> <<>>]

HistoryInit ==
  /\ tick = 0 /\ running = 0 /\ started = 0
  /\ series = NoSeries(0) /\ bucket = NoBuckets
  /\ flush = NoFlush
  /\ saved = [i \in 1 .. MaxSeries |-> [m \in Minutes |-> Unused]]
  /\ reader = NoReader
  /\ truth = [m \in Minutes |-> Unused]

Plus(value, used, peak) == [used |-> value.used + used, peak |-> Max({value.peak, peak})]

(* The request ticks of all instances, counted as the units they consist   *)
(* of, each the n-th of one instance.                                      *)
Units(used) == UNION {{i} \X (1 .. used[i]) : i \in DOMAIN used}

Sum(used) == Cardinality(Units(used))

(* The ticks of a minute added up over the instances, and its peak.        *)
Total(rows) ==
  [used |-> Sum([i \in 1 .. MaxSeries |-> rows[i].used]),
   peak |-> Max({0} \cup {rows[i].peak : i \in 1 .. MaxSeries})]

Cutoff(t) == MinuteOf(t - Keep) * Minute

(* MUTANT: every series is stored under the same instance.                 *)
OpenedAgain(t) == IF series.exists THEN series ELSE [exists |-> TRUE, id |-> 1, last |-> t, lastUsed |-> t]

(* series: the one there is, or a new one with an instance of its own.     *)
Opened(t) == IF series.exists THEN series ELSE [exists |-> TRUE, id |-> series.id + 1, last |-> t, lastUsed |-> t]

(* advance: the ticks since last, each minute by itself.                   *)
Ticks(m, from, to) == Max({0, Min({to, (m + 1) * Minute}) - Max({from, m * Minute})})

From(s, t) == Max({s.last, Cutoff(t)})

Advanced(s, buckets, t) ==
  [m \in Minutes |-> LET n == Ticks(m, From(s, t), t)
                         b == buckets[m]
                     IN  IF n = 0 THEN b
                         ELSE Changed(Plus(b.value, running * n, running))]

AdvancedSeries(s, t) == [s EXCEPT !.last = Max({From(s, t), t})]

-----------------------------------------------------------------------------

(* changeHistory, at the admission (1) and the release (-1) of a request.  *)
changeHistory(delta) ==
  LET s == Opened(tick)
      now == Max({tick, s.last})
      buckets == Advanced(s, bucket, now)
  IN  /\ series' = [AdvancedSeries(s, now) EXCEPT !.lastUsed = now]
      /\ running' = running + delta
      /\ bucket' = [buckets EXCEPT ![MinuteOf(now)] = Changed(Plus(@.value, 0, running'))]
      /\ truth' = [truth EXCEPT ![MinuteOf(tick)] = Plus(@, 0, running')]
      /\ UNCHANGED <<tick, flush, saved, reader>>

StartRequest ==
  /\ started < MaxStarted /\ started' = started + 1
  /\ series.exists \/ series.id < MaxSeries
  /\ changeHistory(1)

FinishRequest ==
  /\ running > 0 /\ changeHistory(-1)
  /\ UNCHANGED started

(* pendingMinutes: old minutes are dropped, the others advanced, and those *)
(* that changed since they were acknowledged are copied.                   *)
pendingMinutes ==
  LET kept == [m \in Minutes |-> IF m * Minute < Cutoff(tick) THEN NoBucket ELSE bucket[m]]
      buckets == Advanced(series, kept, tick)
      pending == {m \in Minutes : buckets[m].dirty}
  IN  /\ flush.at = "idle" /\ series.exists
      /\ series' = AdvancedSeries(series, tick) 
      /\ bucket' = [m \in Minutes |-> [buckets[m] EXCEPT !.copied = buckets[m].dirty]]
      /\ flush' = IF pending = {} THEN flush
                  ELSE [at |-> "saving", id |-> series.id,
                        pending |-> [m \in pending |-> buckets[m].value]]
      /\ UNCHANGED <<tick, running, started, saved, reader, truth>>

(* SaveConcurrencyMinutes replaces the rows of the instance.  When its 4 s *)
(* are over it may have been committed without an answer.                  *)
SaveConcurrencyMinutes(committed, answered) ==
  /\ flush.at = "saving" /\ (answered => committed)
  /\ saved' = IF committed
              THEN [saved EXCEPT ![flush.id] = [m \in Minutes |-> IF m \in DOMAIN flush.pending THEN flush.pending[m] ELSE @[m]]]
              ELSE saved
  /\ IF answered THEN flush' = [flush EXCEPT !.at = "acknowledging", !.pending = [m \in DOMAIN @ |-> Unused]]
                      /\ UNCHANGED bucket
     ELSE flush' = NoFlush /\ bucket' = [m \in Minutes |-> [bucket[m] EXCEPT !.copied = FALSE]]
  /\ UNCHANGED <<tick, running, started, series, reader, truth>>

(* MUTANT: the minute is acknowledged as it is now.                        *)
AcknowledgedNow(b) == [b EXCEPT !.dirty = FALSE, !.copied = FALSE]

(* The revision that was copied is acknowledged: a bucket that has changed *)
(* since stays dirty.                                                      *)
Acknowledged(b) == [b EXCEPT !.dirty = @ /\ ~b.copied, !.copied = FALSE]

(* acknowledgeMinutes: of a series that is still there and its own; then   *)
(* a series that is idle and clean is forgotten.                           *)
acknowledgeMinutes ==
  LET own == series.exists /\ series.id = flush.id
      matched == {m \in DOMAIN flush.pending : own /\ bucket[m].exists}
      buckets == [m \in Minutes |-> IF m \in matched THEN Acknowledged(bucket[m]) ELSE bucket[m]]
      evict == /\ matched # {} /\ running = 0 /\ series.last - series.lastUsed > Keep
               /\ \A m \in Minutes : ~buckets[m].dirty
  IN  /\ flush.at = "acknowledging" /\ flush' = NoFlush
      /\ series' = IF evict THEN NoSeries(series.id) ELSE series
      /\ bucket' = IF evict THEN NoBuckets ELSE buckets
      /\ UNCHANGED <<tick, running, started, saved, reader, truth>>

(* The minutes of the answer: the current one and those of the window.     *)
Shown(m, now) == m <= MinuteOf(now) /\ m >= MinuteOf(now) - Window

(* PlanConcurrency reads the time and then the stored minutes ...          *)
ReadStored ==
  /\ reader.at = "idle"
  /\ reader' = [at |-> "stored", now |-> tick,
                rows |-> [i \in 1 .. MaxSeries |-> [m \in Minutes |-> IF Shown(m, tick) THEN saved[i][m] ELSE Unused]]]
  /\ UNCHANGED <<tick, running, started, series, bucket, flush, saved, truth>>

(* ... and then, as of that time, the live ones.                           *)
liveHistory ==
  LET s == Opened(reader.now)
  IN  /\ reader.at = "stored" /\ reader' = NoReader
      /\ series.exists \/ series.id < MaxSeries
      /\ series' = [AdvancedSeries(s, reader.now) EXCEPT !.lastUsed = reader.now]
      /\ bucket' = Advanced(s, bucket, reader.now)
      /\ UNCHANGED <<tick, running, started, flush, saved, truth>>

(* buildPlanConcurrency: a live minute stands in for the stored one of its *)
(* instance; instances are added up.                                       *)
Merged(m) ==
  LET s == Opened(reader.now)
      live == Advanced(s, bucket, reader.now)[m]
  IN  Total([i \in 1 .. MaxSeries |-> IF i = s.id /\ live.exists THEN live.value ELSE reader.rows[i][m]])

TickPasses ==
  /\ tick < MaxTick /\ tick' = tick + 1
  /\ reader.at = "stored" => tick' - reader.now <= Patience
  /\ truth' = [truth EXCEPT ![MinuteOf(tick)] = Plus(@, running, running)]
  /\ UNCHANGED <<running, started, series, bucket, flush, saved, reader>>

(* The process restarts: requests and minutes in memory are lost.          *)
ProcessRestarts ==
  /\ series.exists /\ series' = NoSeries(series.id) /\ bucket' = NoBuckets
  /\ running' = 0 /\ flush' = NoFlush /\ reader' = NoReader
  /\ truth' = [m \in Minutes |-> Total([i \in 1 .. MaxSeries |-> saved[i][m]])]
  /\ UNCHANGED <<tick, started, saved>>

HistoryNext ==
  \/ StartRequest \/ FinishRequest
  \/ pendingMinutes \/ acknowledgeMinutes
  \/ \E committed, answered \in BOOLEAN : SaveConcurrencyMinutes(committed, answered)
  \/ ReadStored \/ liveHistory
  \/ TickPasses \/ ProcessRestarts

HistorySpec == HistoryInit /\ [][HistoryNext]_historyVars

-----------------------------------------------------------------------------
(* Properties                                                              *)

(* A minute that counts as saved is stored as it is: requests that start   *)
(* or end between the copy and its acknowledgement, and saves that fail or *)
(* whose answer is lost, never leave a minute behind (acknowledgeMinutes   *)
(* records the copied revision).                                           *)
AcknowledgedIsStored ==
  \A m \in Minutes : bucket[m].exists /\ ~bucket[m].dirty => saved[series.id][m] = bucket[m].value

(* What a reader is shown of a complete minute of the last 24 hours is     *)
(* what happened in it, nothing lost and nothing counted twice, wherever   *)
(* flush, eviction and restart fall between its two reads.                 *)
HistoryExact ==
  reader.at = "stored" =>
    \A m \in Minutes : Shown(m, reader.now) /\ m # MinuteOf(reader.now) => Merged(m) = truth[m]
=============================================================================
