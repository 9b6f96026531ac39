---------------------- MODULE ConcurrencyHistoryProofs ----------------------
(***************************************************************************)
(* Proofs about the concurrency trend, for minutes of any length, any      *)
(* retention and any number of requests and series: the flush leaves no    *)
(* minute behind, and what a reader is shown is what happened.             *)
(***************************************************************************)
EXTENDS ConcurrencyHistory, FiniteSetTheorems, TLAPS

Values == [used : Nat, peak : Nat]

Buckets == [exists : BOOLEAN, dirty : BOOLEAN, copied : BOOLEAN, value : Values]

SeriesRows == [exists : BOOLEAN, id : 0 .. MaxSeries, last : Int, lastUsed : Int]

FlushStates == {"idle", "saving", "acknowledging"}

HistoryTypeOK ==
  /\ tick \in Nat /\ running \in Nat /\ reader.now \in Nat
  /\ series \in SeriesRows
  /\ bucket \in [Minutes -> Buckets]
  /\ saved \in [1 .. MaxSeries -> [Minutes -> Values]]
  /\ flush.at \in FlushStates
  /\ flush = [at |-> flush.at, id |-> flush.id, pending |-> flush.pending]

(* A series that is not there has no minutes, no requests and no flush; a  *)
(* flush is of the series that is there, for only its own acknowledgement, *)
(* or a restart, can forget the series.                                    *)
SeriesInv ==
  /\ ~series.exists => bucket = NoBuckets /\ flush.at = "idle"
  /\ series.exists => series.id # 0
  /\ running # 0 => series.exists
  /\ flush.at # "idle" => flush.id = series.id

(* A minute that is still as the flush copied it is what the flush stores, *)
(* and then what is stored; until then all that was copied stays dirty.    *)
MinuteOK(m) ==
  /\ bucket[m].dirty => bucket[m].exists
  /\ bucket[m].copied => bucket[m].dirty /\ flush.at # "idle" /\ m \in DOMAIN flush.pending
  /\ bucket[m].exists /\ ~bucket[m].dirty => saved[series.id][m] = bucket[m].value
  /\ flush.at = "saving" /\ bucket[m].copied => flush.pending[m] = bucket[m].value
  /\ flush.at = "saving" /\ m \in DOMAIN flush.pending => bucket[m].dirty
  /\ flush.at = "acknowledging" /\ bucket[m].copied => saved[series.id][m] = bucket[m].value

MinutesInv == \A m \in Minutes : MinuteOK(m)

PendingInv ==
  flush.at = "saving" =>
    DOMAIN flush.pending \subseteq Minutes /\ \A m \in DOMAIN flush.pending : flush.pending[m] \in Values

(* The inductive invariant.                                                *)
HistoryInv == HistoryTypeOK /\ SeriesInv /\ PendingInv /\ MinutesInv

-----------------------------------------------------------------------------
(* Numbers and buckets                                                     *)

LEMMA MaxOfTwo ==
  ASSUME NEW x \in Int, NEW y \in Int
  PROVE  Max({x, y}) \in {x, y} /\ Max({x, y}) >= x /\ Max({x, y}) >= y
<1>1. \E z \in {x, y} : \A w \in {x, y} : z >= w
  OBVIOUS
<1>2. QED
  BY <1>1 DEF Max

LEMMA MaxOfNat ==
  ASSUME NEW x \in Nat, NEW y \in Int
  PROVE  Max({x, y}) \in Nat
<1>1. x \in Int
  OBVIOUS
<1>2. PICK z : z = Max({x, y})
  OBVIOUS
<1>3. z \in {x, y} /\ z >= x
  BY <1>1, <1>2, MaxOfTwo, Zenon
<1>4. z \in Nat
  BY <1>3
<1>5. QED
  BY <1>2, <1>4, Zenon

LEMMA MinOfTwo ==
  ASSUME NEW x \in Int, NEW y \in Int
  PROVE  Min({x, y}) \in {x, y}
<1>1. \E z \in {x, y} : \A w \in {x, y} : z <= w
  OBVIOUS
<1>2. QED
  BY <1>1 DEF Min

LEMMA ConstantTypes ==
  /\ Minute \in Nat /\ Minute > 0 /\ Keep \in Nat /\ MaxSeries \in Nat
  /\ Minutes \subseteq Int
  /\ \A t \in Int : MinuteOf(t) \in Int /\ Cutoff(t) \in Int
<1>1. Minute \in Nat /\ Minute > 0 /\ Keep \in Nat /\ MaxSeries \in Nat /\ MaxTick \in Nat
  BY HistoryAssumption
<1>2. \A t \in Int : t \div Minute \in Int
  BY <1>1
<1>3. QED
  BY <1>1, <1>2 DEF Minutes, MinuteOf, Cutoff

LEMMA PlusType ==
  ASSUME NEW v \in Values, NEW used \in Nat, NEW peak \in Nat
  PROVE  Plus(v, used, peak) \in Values
<1>1. v.used \in Nat /\ v.peak \in Nat
  BY DEF Values
<1>2. PICK k \in Nat : k = Max({v.peak, peak})
  <2>1. peak \in Int
    OBVIOUS
  <2>2. QED
    BY <1>1, <2>1, MaxOfNat, Zenon
<1>3. PICK n \in Nat : n = v.used + used
  BY <1>1
<1>4. Plus(v, used, peak) = [used |-> n, peak |-> k]
  BY <1>2, <1>3 DEF Plus
<1>5. QED
  BY <1>4 DEF Values

(* A bucket that changed: a flush under way has not copied it.             *)
Fresh(b) == b.exists /\ b.dirty /\ ~b.copied

LEMMA ChangedType ==
  ASSUME NEW v \in Values
  PROVE  Changed(v) \in Buckets /\ Fresh(Changed(v))
BY DEF Changed, Buckets, Fresh

LEMMA NoBucketType ==
  /\ Unused \in Values /\ NoBucket \in Buckets
  /\ ~NoBucket.exists /\ ~NoBucket.dirty /\ ~NoBucket.copied
BY DEF Unused, Values, NoBucket, Buckets

LEMMA TicksType ==
  ASSUME NEW m \in Minutes, NEW from \in Int, NEW to \in Int
  PROVE  Ticks(m, from, to) \in Nat
<1>1. m * Minute \in Int /\ (m + 1) * Minute \in Int
  BY ConstantTypes
<1>2. PICK e \in Int : e = (m + 1) * Minute
  BY <1>1
<1>3. PICK b \in Int : b = m * Minute
  BY <1>1
<1>4. Min({to, e}) \in Int /\ Max({from, b}) \in Int
  BY MinOfTwo, MaxOfTwo
<1>5. PICK d \in Int : d = Min({to, e}) - Max({from, b})
  BY <1>4
<1>6. Max({0, d}) \in Nat
  <2>1. 0 \in Nat
    OBVIOUS
  <2>2. QED
    BY <2>1, MaxOfNat, Zenon
<1>7. Ticks(m, from, to) = Max({0, d})
  BY <1>2, <1>3, <1>5, Zenon DEF Ticks
<1>8. QED
  BY <1>6, <1>7

LEMMA AdvancedBuckets ==
  ASSUME NEW s \in SeriesRows, NEW buckets \in [Minutes -> Buckets], NEW t \in Int, running \in Nat
  PROVE  /\ Advanced(s, buckets, t) \in [Minutes -> Buckets]
         /\ \A m \in Minutes : Advanced(s, buckets, t)[m] = buckets[m] \/ Fresh(Advanced(s, buckets, t)[m])
         /\ AdvancedSeries(s, t) \in SeriesRows
         /\ AdvancedSeries(s, t).id = s.id /\ AdvancedSeries(s, t).exists = s.exists
<1>1. From(s, t) \in Int
  BY ConstantTypes, MaxOfTwo DEF From, SeriesRows
<1>2. ASSUME NEW m \in Minutes
      PROVE  /\ Advanced(s, buckets, t)[m] \in Buckets
             /\ Advanced(s, buckets, t)[m] = buckets[m] \/ Fresh(Advanced(s, buckets, t)[m])
  <2>1. PICK n \in Nat : n = Ticks(m, From(s, t), t)
    BY <1>1, TicksType
  <2>2. PICK v : v = Plus(buckets[m].value, running * n, running)
    OBVIOUS
  <2>3. buckets[m].value \in Values /\ running * n \in Nat
    BY <2>1 DEF Buckets
  <2>4. v \in Values
    BY <2>2, <2>3, PlusType
  <2>5. Advanced(s, buckets, t)[m] = IF n = 0 THEN buckets[m] ELSE Changed(v)
    BY <2>1, <2>2 DEF Advanced
  <2>6. QED
    BY <2>4, <2>5, ChangedType
<1>3. PICK l \in Int : l = Max({From(s, t), t})
  BY <1>1, MaxOfTwo
<1>4. AdvancedSeries(s, t) = [s EXCEPT !.last = l]
  BY <1>3 DEF AdvancedSeries
<1>5. AdvancedSeries(s, t) \in SeriesRows /\ AdvancedSeries(s, t).id = s.id /\ AdvancedSeries(s, t).exists = s.exists
  BY <1>4 DEF SeriesRows
<1>6. Advanced(s, buckets, t) = [m \in Minutes |-> Advanced(s, buckets, t)[m]]
  BY DEF Advanced
<1>7. QED
  BY <1>2, <1>5, <1>6

(* The series that is there, or a new one with the next instance.          *)
LEMMA OpenedSeries ==
  ASSUME series \in SeriesRows, NEW t \in Int, series.exists \/ series.id < MaxSeries
  PROVE  /\ Opened(t) \in SeriesRows /\ Opened(t).exists
         /\ series.exists => Opened(t) = series
         /\ ~series.exists => Opened(t).id = series.id + 1
BY ConstantTypes DEF Opened, SeriesRows

-----------------------------------------------------------------------------
(* The steps                                                               *)

(* Requests, the clock and readers only open the series and change         *)
(* minutes: what changes is dirty and no longer what the flush copied.     *)
LEMMA ChangedMinutes ==
  ASSUME HistoryInv, series' \in SeriesRows, series'.exists,
         series.exists => series'.id = series.id, ~series.exists => series'.id # 0,
         bucket' \in [Minutes -> Buckets],
         \A m \in Minutes : bucket'[m] = bucket[m] \/ Fresh(bucket'[m]),
         UNCHANGED <<flush, saved>>, tick' \in Nat, running' \in Nat, reader'.now \in Nat
  PROVE  HistoryInv'
<1>1. HistoryTypeOK'
  BY DEF HistoryInv, HistoryTypeOK
<1>2. SeriesInv'
  BY DEF HistoryInv, SeriesInv
<1>3. PendingInv'
  BY DEF HistoryInv, PendingInv
<1>4. ASSUME NEW m \in Minutes PROVE MinuteOK(m)'
  <2>1. MinuteOK(m)
    BY DEF HistoryInv, MinutesInv
  <2>2. CASE Fresh(bucket'[m])
    BY <2>1, <2>2 DEF MinuteOK, Fresh
  <2>3. CASE bucket'[m] = bucket[m] /\ series.exists
    BY <2>1, <2>3 DEF MinuteOK
  <2>4. CASE bucket'[m] = bucket[m] /\ ~series.exists
    <3>1. bucket'[m] = NoBucket /\ flush.at = "idle"
      BY <2>4 DEF HistoryInv, SeriesInv, NoBuckets
    <3>2. QED
      BY <3>1, NoBucketType DEF MinuteOK
  <2>5. QED
    BY <2>2, <2>3, <2>4
<1>5. QED
  BY <1>1, <1>2, <1>3, <1>4 DEF HistoryInv, MinutesInv

LEMMA SameMinutes ==
  ASSUME HistoryInv, UNCHANGED <<running, series, bucket, flush, saved>>, tick' \in Nat, reader'.now \in Nat
  PROVE  HistoryInv'
BY DEF HistoryInv, HistoryTypeOK, SeriesInv, PendingInv, MinutesInv, MinuteOK

LEMMA ChangeHistoryStep ==
  ASSUME HistoryInv, NEW delta \in Int, running + delta \in Nat, changeHistory(delta),
         series.exists \/ series.id < MaxSeries
  PROVE  HistoryInv'
<1>1. /\ tick \in Nat /\ tick \in Int /\ running \in Nat /\ series \in SeriesRows
      /\ bucket \in [Minutes -> Buckets] /\ reader.now \in Nat
  BY DEF HistoryInv, HistoryTypeOK
<1>2. PICK s \in SeriesRows :
        /\ s = Opened(tick) /\ s.exists
        /\ series.exists => s.id = series.id
        /\ ~series.exists => s.id = series.id + 1
  BY <1>1, OpenedSeries
<1>3. PICK now \in Int : now = Max({tick, s.last})
  <2>1. s.last \in Int
    BY <1>2 DEF SeriesRows
  <2>2. Max({tick, s.last}) \in Nat
    BY <1>1, <2>1, MaxOfNat, Zenon
  <2>3. QED
    BY <2>2
<1>4. PICK buckets \in [Minutes -> Buckets] :
        /\ buckets = Advanced(s, bucket, now)
        /\ \A m \in Minutes : buckets[m] = bucket[m] \/ Fresh(buckets[m])
  BY <1>1, AdvancedBuckets, Zenon
<1>5. PICK y \in SeriesRows : y = AdvancedSeries(s, now) /\ y.id = s.id /\ y.exists = s.exists
  BY <1>1, <1>2, <1>3, AdvancedBuckets
<1>6. /\ running' = running + delta
      /\ series' = [y EXCEPT !.lastUsed = now]
      /\ bucket' = [buckets EXCEPT ![MinuteOf(now)] = Changed(Plus(@.value, 0, running'))]
      /\ UNCHANGED <<tick, flush, saved, reader>>
  BY <1>2, <1>3, <1>4, <1>5, Zenon DEF changeHistory
<1>7. running' \in Nat
  BY <1>6
<1>8. series' \in SeriesRows /\ series'.id = s.id /\ series'.exists
  BY <1>2, <1>5, <1>6 DEF SeriesRows
<1>9. bucket' \in [Minutes -> Buckets] /\ \A m \in Minutes : bucket'[m] = bucket[m] \/ Fresh(bucket'[m])
  <2>1. PICK k : k = MinuteOf(now)
    OBVIOUS
  <2>2. CASE k \notin Minutes
    BY <1>4, <1>6, <2>1, <2>2
  <2>3. CASE k \in Minutes
    <3>1. PICK c : c = Changed(Plus(buckets[k].value, 0, running'))
      OBVIOUS
    <3>2. buckets[k].value \in Values
      BY <1>4, <2>3 DEF Buckets
    <3>3. c \in Buckets /\ Fresh(c)
      BY <1>7, <3>1, <3>2, PlusType, ChangedType
    <3>4. bucket' = [buckets EXCEPT ![k] = c]
      BY <1>6, <2>1, <3>1, Zenon
    <3>5. QED
      BY <1>4, <2>3, <3>3, <3>4
  <2>4. QED
    BY <2>2, <2>3
<1>10. ~series.exists => series'.id # 0
  BY <1>1, <1>2, <1>8 DEF SeriesRows
<1>11. QED
  BY <1>1, <1>2, <1>6, <1>7, <1>8, <1>9, <1>10, ChangedMinutes

LEMMA LiveHistoryStep ==
  ASSUME HistoryInv, liveHistory
  PROVE  HistoryInv'
<1>1. /\ tick \in Nat /\ running \in Nat /\ series \in SeriesRows
      /\ bucket \in [Minutes -> Buckets] /\ reader.now \in Int
  BY DEF HistoryInv, HistoryTypeOK
<1>2. PICK s \in SeriesRows :
        /\ s = Opened(reader.now) /\ s.exists
        /\ series.exists => s.id = series.id
        /\ ~series.exists => s.id = series.id + 1
  BY <1>1, OpenedSeries DEF liveHistory
<1>3. PICK y \in SeriesRows : y = AdvancedSeries(s, reader.now) /\ y.id = s.id /\ y.exists = s.exists
  BY <1>1, <1>2, AdvancedBuckets
<1>4. /\ series' = [y EXCEPT !.lastUsed = reader.now]
      /\ bucket' = Advanced(s, bucket, reader.now)
      /\ reader' = NoReader /\ UNCHANGED <<tick, running, flush, saved>>
  BY <1>2, <1>3, Zenon DEF liveHistory
<1>5. bucket' \in [Minutes -> Buckets] /\ \A m \in Minutes : bucket'[m] = bucket[m] \/ Fresh(bucket'[m])
  BY <1>1, <1>2, <1>4, AdvancedBuckets
<1>6. series' \in SeriesRows /\ series'.id = s.id /\ series'.exists
  BY <1>1, <1>2, <1>3, <1>4 DEF SeriesRows
<1>7. ~series.exists => series'.id # 0
  BY <1>1, <1>2, <1>6 DEF SeriesRows
<1>8. reader'.now \in Nat
  BY <1>4 DEF NoReader
<1>9. QED
  BY <1>1, <1>2, <1>4, <1>5, <1>6, <1>7, <1>8, ChangedMinutes

(* The copy: what is not copied is clean, and what is copied is pending.   *)
LEMMA PendingStep ==
  ASSUME HistoryInv, pendingMinutes
  PROVE  HistoryInv'
<1>1. /\ tick \in Nat /\ running \in Nat /\ series \in SeriesRows /\ series.exists /\ series.id # 0
      /\ bucket \in [Minutes -> Buckets] /\ reader.now \in Nat /\ flush.at = "idle"
      /\ saved \in [1 .. MaxSeries -> [Minutes -> Values]]
  BY DEF HistoryInv, HistoryTypeOK, SeriesInv, pendingMinutes
<1>2. PICK kept : kept = [m \in Minutes |-> IF m * Minute < Cutoff(tick) THEN NoBucket ELSE bucket[m]]
  OBVIOUS
<1>3. kept \in [Minutes -> Buckets] /\ \A m \in Minutes : kept[m] = bucket[m] \/ kept[m] = NoBucket
  BY <1>1, <1>2, NoBucketType
<1>4. PICK buckets \in [Minutes -> Buckets] :
        /\ buckets = Advanced(series, kept, tick)
        /\ \A m \in Minutes : buckets[m] = kept[m] \/ Fresh(buckets[m])
  BY <1>1, <1>3, AdvancedBuckets
<1>5. PICK pending : pending = {m \in Minutes : buckets[m].dirty}
  OBVIOUS
<1>6. /\ series' = AdvancedSeries(series, tick)
      /\ bucket' = [m \in Minutes |-> [buckets[m] EXCEPT !.copied = buckets[m].dirty]]
      /\ flush' = IF pending = {} THEN flush
                  ELSE [at |-> "saving", id |-> series.id, pending |-> [m \in pending |-> buckets[m].value]]
      /\ UNCHANGED <<tick, running, saved, reader>>
  BY <1>2, <1>4, <1>5, Zenon DEF pendingMinutes
<1>7. series' \in SeriesRows /\ series'.id = series.id /\ series'.exists
  BY <1>1, <1>6, AdvancedBuckets
<1>8. ASSUME NEW m \in Minutes
      PROVE  /\ bucket'[m] \in Buckets /\ bucket'[m].exists = buckets[m].exists
             /\ bucket'[m].dirty = buckets[m].dirty /\ bucket'[m].copied = buckets[m].dirty
             /\ bucket'[m].value = buckets[m].value
  <2>1. buckets[m] \in Buckets /\ bucket'[m] = [buckets[m] EXCEPT !.copied = buckets[m].dirty]
    BY <1>4, <1>6
  <2>2. QED
    BY <2>1 DEF Buckets
<1>9. \/ pending = {} /\ flush' = flush
      \/ /\ pending # {} /\ flush'.at = "saving" /\ flush'.id = series.id
         /\ DOMAIN flush'.pending = pending /\ \A m \in pending : flush'.pending[m] = buckets[m].value
  BY <1>6
<1>10. HistoryTypeOK'
  <2>1. bucket' = [m \in Minutes |-> bucket'[m]]
    BY <1>6
  <2>2. bucket' \in [Minutes -> Buckets]
    BY <1>8, <2>1
  <2>3. flush'.at \in FlushStates
    BY <1>1, <1>9 DEF FlushStates
  <2>4. flush' = [at |-> flush'.at, id |-> flush'.id, pending |-> flush'.pending]
    BY <1>6 DEF HistoryInv, HistoryTypeOK
  <2>5. QED
    BY <1>1, <1>6, <1>7, <2>2, <2>3, <2>4 DEF HistoryTypeOK
<1>11. SeriesInv'
  BY <1>1, <1>7, <1>9 DEF SeriesInv
<1>12. PendingInv'
  BY <1>1, <1>4, <1>5, <1>9 DEF PendingInv, Buckets
<1>13. ASSUME NEW m \in Minutes PROVE MinuteOK(m)'
  <2>1. MinuteOK(m) /\ ~bucket[m].copied
    BY <1>1 DEF HistoryInv, MinutesInv, MinuteOK
  <2>2. m \in pending <=> buckets[m].dirty
    BY <1>5
  <2>3. \/ buckets[m] = bucket[m] \/ buckets[m] = NoBucket \/ Fresh(buckets[m])
    BY <1>3, <1>4
  <2>4. buckets[m].dirty => buckets[m].exists
    BY <2>1, <2>3, NoBucketType DEF MinuteOK, Fresh
  <2>5. buckets[m].exists /\ ~buckets[m].dirty => saved'[series'.id][m] = buckets[m].value
    BY <1>6, <1>7, <2>1, <2>3, NoBucketType DEF MinuteOK, Fresh
  <2>6. QED
    BY <1>1, <1>8, <1>9, <2>2, <2>4, <2>5 DEF MinuteOK
<1>14. QED
  BY <1>10, <1>11, <1>12, <1>13 DEF HistoryInv, MinutesInv

LEMMA NoFlushFacts ==
  NoFlush.at = "idle" /\ NoFlush = [at |-> NoFlush.at, id |-> NoFlush.id, pending |-> NoFlush.pending]
BY DEF NoFlush

(* The save: a clean minute was not copied, so what is stored of it stays. *)
LEMMA SaveStep ==
  ASSUME HistoryInv, NEW committed \in BOOLEAN, NEW answered \in BOOLEAN,
         SaveConcurrencyMinutes(committed, answered)
  PROVE  HistoryInv'
<1>1. /\ tick \in Nat /\ running \in Nat /\ series \in SeriesRows /\ reader.now \in Nat
      /\ bucket \in [Minutes -> Buckets] /\ saved \in [1 .. MaxSeries -> [Minutes -> Values]]
  BY DEF HistoryInv, HistoryTypeOK
<1>2. /\ flush.at = "saving" /\ (answered => committed)
      /\ UNCHANGED <<tick, running, series, reader>>
  BY DEF SaveConcurrencyMinutes
<1>3. PICK i \in 1 .. MaxSeries : i = series.id /\ i = flush.id
  <2>1. flush.id = series.id /\ series.exists /\ series.id # 0
    BY <1>2 DEF HistoryInv, SeriesInv
  <2>2. series.id \in 0 .. MaxSeries
    BY <1>1 DEF SeriesRows
  <2>3. series.id \in 1 .. MaxSeries
    BY <2>1, <2>2, ConstantTypes
  <2>4. QED
    BY <2>1, <2>3
<1>4. PICK row : row = [m \in Minutes |-> IF m \in DOMAIN flush.pending THEN flush.pending[m] ELSE saved[i][m]]
  OBVIOUS
<1>5. row \in [Minutes -> Values]
  BY <1>1, <1>2, <1>4 DEF HistoryInv, PendingInv
<1>6. saved' = IF committed THEN [saved EXCEPT ![i] = row] ELSE saved
  BY <1>1, <1>3, <1>4 DEF SaveConcurrencyMinutes
<1>7. /\ saved' \in [1 .. MaxSeries -> [Minutes -> Values]]
      /\ committed => saved'[i] = row
      /\ ~committed => saved' = saved
  BY <1>1, <1>5, <1>6
<1>8. ASSUME NEW m \in Minutes
      PROVE  /\ MinuteOK(m)
             /\ bucket[m].exists /\ ~bucket[m].dirty => saved'[series'.id][m] = bucket[m].value
             /\ committed /\ bucket[m].copied => saved'[series'.id][m] = bucket[m].value
  <2>1. MinuteOK(m)
    BY DEF HistoryInv, MinutesInv
  <2>2. committed => saved'[series'.id][m] = IF m \in DOMAIN flush.pending THEN flush.pending[m] ELSE saved[i][m]
    BY <1>2, <1>3, <1>4, <1>7
  <2>3. QED
    BY <1>2, <1>3, <1>7, <2>1, <2>2 DEF MinuteOK
<1>9. CASE answered
  <2>1. /\ flush' = [flush EXCEPT !.at = "acknowledging", !.pending = [m \in DOMAIN @ |-> Unused]]
        /\ bucket' = bucket
    BY <1>9 DEF SaveConcurrencyMinutes
  <2>2. PICK p : p = [m \in DOMAIN flush.pending |-> Unused]
    OBVIOUS
  <2>3. flush' = [flush EXCEPT !.at = "acknowledging", !.pending = p]
    BY <2>1, <2>2, Zenon
  <2>4. flush = [at |-> flush.at, id |-> flush.id, pending |-> flush.pending]
    BY DEF HistoryInv, HistoryTypeOK
  <2>5. flush' = [at |-> "acknowledging", id |-> flush.id, pending |-> p]
    BY <2>3, <2>4
  <2>6. /\ flush'.at = "acknowledging" /\ flush'.id = flush.id
        /\ flush' = [at |-> flush'.at, id |-> flush'.id, pending |-> flush'.pending]
        /\ DOMAIN flush'.pending = DOMAIN flush.pending
    BY <2>2, <2>5
  <2>7. HistoryTypeOK' /\ PendingInv'
    BY <1>1, <1>2, <1>7, <2>1, <2>6 DEF HistoryTypeOK, PendingInv, FlushStates
  <2>8. SeriesInv'
    BY <1>2, <2>1, <2>6 DEF HistoryInv, SeriesInv
  <2>9. \A m \in Minutes : MinuteOK(m)'
    BY <1>2, <1>8, <1>9, <2>1, <2>6 DEF MinuteOK
  <2>10. QED
    BY <2>7, <2>8, <2>9 DEF HistoryInv, MinutesInv
<1>10. CASE ~answered
  <2>1. flush' = NoFlush /\ bucket' = [m \in Minutes |-> [bucket[m] EXCEPT !.copied = FALSE]]
    BY <1>10 DEF SaveConcurrencyMinutes
  <2>2. ASSUME NEW m \in Minutes
        PROVE  /\ bucket'[m] \in Buckets /\ ~bucket'[m].copied
               /\ bucket'[m].exists = bucket[m].exists /\ bucket'[m].dirty = bucket[m].dirty
               /\ bucket'[m].value = bucket[m].value
    BY <1>1, <2>1 DEF Buckets
  <2>3. bucket' \in [Minutes -> Buckets]
    <3>1. bucket' = [m \in Minutes |-> bucket'[m]]
      BY <2>1
    <3>2. QED
      BY <2>2, <3>1
  <2>4. HistoryTypeOK' /\ PendingInv'
    BY <1>1, <1>2, <1>7, <2>1, <2>3, NoFlushFacts DEF HistoryTypeOK, PendingInv, FlushStates
  <2>5. SeriesInv'
    BY <1>2, <2>1, NoFlushFacts DEF HistoryInv, SeriesInv
  <2>6. \A m \in Minutes : MinuteOK(m)'
    BY <1>8, <2>1, <2>2, NoFlushFacts DEF MinuteOK
  <2>7. QED
    BY <2>4, <2>5, <2>6 DEF HistoryInv, MinutesInv
<1>11. QED
  BY <1>9, <1>10

LEMMA NoBucketsType == NoBuckets \in [Minutes -> Buckets] /\ \A m \in Minutes : NoBuckets[m] = NoBucket
BY NoBucketType DEF NoBuckets

LEMMA NoSeriesType ==
  ASSUME NEW id \in 0 .. MaxSeries
  PROVE  NoSeries(id) \in SeriesRows /\ ~NoSeries(id).exists
BY DEF NoSeries, SeriesRows

(* The series is forgotten, with its minutes and its flush.                *)
LEMMA ForgottenStep ==
  ASSUME HistoryInv, series' = NoSeries(series.id), bucket' = NoBuckets, flush' = NoFlush,
         UNCHANGED saved, tick' \in Nat, running' = 0, reader'.now \in Nat
  PROVE  HistoryInv'
<1>1. series.id \in 0 .. MaxSeries /\ saved \in [1 .. MaxSeries -> [Minutes -> Values]]
  BY DEF HistoryInv, HistoryTypeOK, SeriesRows
<1>2. series' \in SeriesRows /\ ~series'.exists
  BY <1>1, NoSeriesType
<1>3. HistoryTypeOK' /\ PendingInv'
  BY <1>1, <1>2, NoBucketsType, NoFlushFacts DEF HistoryTypeOK, PendingInv, FlushStates
<1>4. SeriesInv'
  BY <1>2, NoFlushFacts DEF SeriesInv
<1>5. \A m \in Minutes : MinuteOK(m)'
  BY NoBucketsType, NoBucketType, NoFlushFacts DEF MinuteOK
<1>6. QED
  BY <1>3, <1>4, <1>5 DEF HistoryInv, MinutesInv

(* The acknowledgement: a minute becomes clean only as it was copied.      *)
LEMMA AcknowledgeStep ==
  ASSUME HistoryInv, acknowledgeMinutes
  PROVE  HistoryInv'
<1>1. /\ tick \in Nat /\ running \in Nat /\ series \in SeriesRows /\ reader.now \in Nat
      /\ bucket \in [Minutes -> Buckets] /\ saved \in [1 .. MaxSeries -> [Minutes -> Values]]
      /\ flush.at = "acknowledging" /\ flush' = NoFlush
      /\ UNCHANGED <<tick, running, saved, reader>>
  BY DEF HistoryInv, HistoryTypeOK, acknowledgeMinutes
<1>2. PICK own : own = (series.exists /\ series.id = flush.id)
  OBVIOUS
<1>3. PICK matched : matched = {m \in DOMAIN flush.pending : own /\ bucket[m].exists}
  OBVIOUS
<1>4. PICK buckets : buckets = [m \in Minutes |-> IF m \in matched THEN Acknowledged(bucket[m]) ELSE bucket[m]]
  OBVIOUS
<1>5. \/ series' = NoSeries(series.id) /\ bucket' = NoBuckets /\ running = 0
      \/ series' = series /\ bucket' = buckets
  BY <1>2, <1>3, <1>4, Zenon DEF acknowledgeMinutes
<1>6. ASSUME NEW m \in Minutes
      PROVE  /\ Acknowledged(bucket[m]) \in Buckets /\ ~Acknowledged(bucket[m]).copied
             /\ Acknowledged(bucket[m]).exists = bucket[m].exists
             /\ Acknowledged(bucket[m]).dirty = (bucket[m].dirty /\ ~bucket[m].copied)
             /\ Acknowledged(bucket[m]).value = bucket[m].value
  BY <1>1 DEF Acknowledged, Buckets
<1>7. CASE series' = NoSeries(series.id) /\ bucket' = NoBuckets /\ running = 0
  BY <1>1, <1>7, ForgottenStep
<1>8. CASE series' = series /\ bucket' = buckets
  <2>1. \A m \in Minutes : bucket'[m] = IF m \in matched THEN Acknowledged(bucket[m]) ELSE bucket[m]
    BY <1>4, <1>8
  <2>2. bucket' \in [Minutes -> Buckets]
    <3>1. bucket' = [m \in Minutes |-> bucket'[m]]
      BY <1>4, <1>8
    <3>2. \A m \in Minutes : bucket'[m] \in Buckets
      BY <1>1, <1>6, <2>1
    <3>3. QED
      BY <3>1, <3>2
  <2>3. ASSUME NEW m \in Minutes PROVE MinuteOK(m)'
    <3>1. MinuteOK(m)
      BY DEF HistoryInv, MinutesInv
    <3>2. own
      BY <1>1, <1>2 DEF HistoryInv, SeriesInv
    <3>3. CASE m \in matched
      <4>1. bucket'[m] = Acknowledged(bucket[m])
        BY <2>1, <3>3
      <4>2. /\ ~bucket'[m].copied /\ bucket'[m].exists = bucket[m].exists
            /\ bucket'[m].dirty = (bucket[m].dirty /\ ~bucket[m].copied)
            /\ bucket'[m].value = bucket[m].value
        BY <1>6, <4>1
      <4>3. QED
        BY <1>1, <1>8, <3>1, <4>2, NoFlushFacts DEF MinuteOK
    <3>4. CASE m \notin matched
      <4>1. bucket'[m] = bucket[m]
        BY <2>1, <3>4
      <4>2. ~bucket[m].copied
        BY <1>3, <3>1, <3>2, <3>4 DEF MinuteOK
      <4>3. QED
        BY <1>1, <1>8, <3>1, <4>1, <4>2, NoFlushFacts DEF MinuteOK
    <3>5. QED
      BY <3>3, <3>4
  <2>4. HistoryTypeOK' /\ PendingInv'
    BY <1>1, <1>8, <2>2, NoFlushFacts DEF HistoryTypeOK, PendingInv, FlushStates
  <2>5. SeriesInv'
    BY <1>1, <1>8, NoFlushFacts DEF HistoryInv, SeriesInv
  <2>6. QED
    BY <2>3, <2>4, <2>5 DEF HistoryInv, MinutesInv
<1>9. QED
  BY <1>5, <1>7, <1>8

-----------------------------------------------------------------------------
(* The theorem                                                             *)

LEMMA HistoryStart == HistoryInit => HistoryInv
<1> SUFFICES ASSUME HistoryInit PROVE HistoryInv
  OBVIOUS
<1>1. /\ tick = 0 /\ running = 0 /\ series = NoSeries(0) /\ bucket = NoBuckets /\ flush = NoFlush
      /\ reader = NoReader /\ saved = [i \in 1 .. MaxSeries |-> [m \in Minutes |-> Unused]]
  BY DEF HistoryInit
<1>2. series \in SeriesRows /\ ~series.exists
  <2>1. 0 \in 0 .. MaxSeries
    BY ConstantTypes
  <2>2. QED
    BY <1>1, <2>1, NoSeriesType, Zenon
<1>3. reader.now \in Nat
  BY <1>1 DEF NoReader
<1>4. saved \in [1 .. MaxSeries -> [Minutes -> Values]]
  BY <1>1, NoBucketType
<1>5. HistoryTypeOK /\ PendingInv
  BY <1>1, <1>2, <1>3, <1>4, NoBucketsType, NoFlushFacts DEF HistoryTypeOK, PendingInv, FlushStates
<1>6. SeriesInv
  BY <1>1, <1>2, NoFlushFacts DEF SeriesInv
<1>7. \A m \in Minutes : MinuteOK(m)
  BY <1>1, NoBucketsType, NoBucketType, NoFlushFacts DEF MinuteOK
<1>8. QED
  BY <1>5, <1>6, <1>7 DEF HistoryInv, MinutesInv

LEMMA HistoryStep == HistoryInv /\ [HistoryNext]_historyVars => HistoryInv'
<1> SUFFICES ASSUME HistoryInv, [HistoryNext]_historyVars PROVE HistoryInv'
  OBVIOUS
<1>1. tick \in Nat /\ running \in Nat /\ reader.now \in Nat
  BY DEF HistoryInv, HistoryTypeOK
<1>2. CASE StartRequest
  BY <1>1, <1>2, ChangeHistoryStep DEF StartRequest
<1>3. CASE FinishRequest
  <2>1. running # 0
    BY <1>1, <1>3 DEF FinishRequest
  <2>2. series.exists \/ series.id < MaxSeries
    BY <2>1 DEF HistoryInv, SeriesInv
  <2>3. QED
    BY <1>1, <1>3, <2>2, ChangeHistoryStep DEF FinishRequest
<1>4. CASE ReadStored
  <2>1. reader'.now = tick /\ UNCHANGED <<tick, running, series, bucket, flush, saved>>
    BY <1>4 DEF ReadStored
  <2>2. QED
    BY <1>1, <2>1, SameMinutes
<1>5. CASE TickPasses
  BY <1>1, <1>5, SameMinutes DEF TickPasses
<1>6. CASE ProcessRestarts
  <2>1. reader'.now \in Nat
    BY <1>6 DEF ProcessRestarts, NoReader
  <2>2. QED
    BY <1>1, <1>6, <2>1, ForgottenStep DEF ProcessRestarts
<1>7. CASE UNCHANGED historyVars
  BY <1>1, <1>7, SameMinutes DEF historyVars
<1>8. QED
  BY <1>2, <1>3, <1>4, <1>5, <1>6, <1>7, PendingStep, AcknowledgeStep, SaveStep, LiveHistoryStep DEF HistoryNext

(* The invariant holds in every state of the collector.                    *)
THEOREM HistoryInvariant == HistorySpec => []HistoryInv
BY HistoryStart, HistoryStep, PTL DEF HistorySpec

(* acknowledgeMinutes: a minute that counts as saved is stored as it is,   *)
(* whatever changed it during the flush, however often a save failed or    *)
(* its answer was lost.                                                    *)
THEOREM AcknowledgedAlwaysStored == HistorySpec => []AcknowledgedIsStored
<1>1. HistoryInv => AcknowledgedIsStored
  BY DEF HistoryInv, MinutesInv, MinuteOK, AcknowledgedIsStored
<1>2. QED
  BY <1>1, HistoryInvariant, PTL
-----------------------------------------------------------------------------
(* Sums and peaks                                                          *)

LEMMA UnitsFinite ==
  ASSUME NEW S, IsFiniteSet(S), NEW f \in [S -> Nat]
  PROVE  IsFiniteSet(Units(f)) /\ Sum(f) \in Nat
<1>1. PICK g : g = [x \in S |-> {x} \X (1 .. f[x])]
  OBVIOUS
<1>2. PICK T : T = {{x} \X (1 .. f[x]) : x \in S}
  OBVIOUS
<1>3. g \in Surjection(S, T)
  BY <1>1, <1>2 DEF Surjection
<1>4. IsFiniteSet(T)
  BY <1>3, FS_Surjection
<1>5. ASSUME NEW t \in T PROVE IsFiniteSet(t)
  <2>1. PICK x \in S : t = {x} \X (1 .. f[x])
    BY <1>2
  <2>2. 1 \in Int /\ f[x] \in Int
    OBVIOUS
  <2>3. IsFiniteSet(1 .. f[x])
    BY ONLY <2>2, FS_Interval
  <2>4. IsFiniteSet({x})
    BY ONLY FS_Singleton
  <2>5. QED
    BY <2>1, <2>3, <2>4, FS_Product
<1>6. Units(f) = UNION T
  BY <1>2 DEF Units
<1>7. QED
  BY <1>4, <1>5, <1>6, FS_UNION, FS_CardinalityType DEF Sum

(* One instance more adds its own ticks.                                   *)
LEMMA SumAdds ==
  ASSUME NEW S, IsFiniteSet(S), NEW f \in [S -> Nat], NEW x, x \notin S, NEW n \in Nat,
         NEW g \in [S \cup {x} -> Nat], \A y \in S : g[y] = f[y], g[x] = n
  PROVE  Sum(g) = Sum(f) + n
<1>1. PICK own, rest : own = {x} \X (1 .. n) /\ rest = Units(f)
  OBVIOUS
<1>2. IsFiniteSet(own) /\ Cardinality(own) = n
  <2>1. 1 \in Int /\ n \in Int /\ n >= 0
    OBVIOUS
  <2>2. IsFiniteSet(1 .. n) /\ Cardinality(1 .. n) = IF 1 > n THEN 0 ELSE n - 1 + 1
    BY ONLY <2>1, FS_Interval
  <2>3. IsFiniteSet(1 .. n) /\ Cardinality(1 .. n) = n
    BY ONLY <2>1, <2>2
  <2>4. IsFiniteSet({x}) /\ Cardinality({x}) = 1
    BY ONLY FS_Singleton
  <2>5. PICK A, B : A = {x} /\ B = 1 .. n
    OBVIOUS
  <2>6. IsFiniteSet(A \X B) /\ Cardinality(A \X B) = Cardinality(A) * Cardinality(B)
    BY <2>3, <2>4, <2>5, FS_Product
  <2>7. IsFiniteSet(A \X B) /\ Cardinality(A \X B) = 1 * n
    BY <2>3, <2>4, <2>5, <2>6
  <2>8. QED
    BY <1>1, <2>5, <2>7
<1>3. IsFiniteSet(rest) /\ Cardinality(rest) = Sum(f) /\ Sum(f) \in Nat
  BY <1>1, UnitsFinite DEF Sum
<1>4. Units(g) = rest \cup own
  <2>1. ASSUME NEW p \in Units(g) PROVE p \in rest \cup own
    <3>1. PICK y \in S \cup {x} : p \in {y} \X (1 .. g[y])
      BY DEF Units
    <3>2. QED
      BY <1>1, <3>1 DEF Units
  <2>2. ASSUME NEW p \in rest PROVE p \in Units(g)
    <3>1. PICK y \in S : p \in {y} \X (1 .. f[y])
      BY <1>1, <2>2 DEF Units
    <3>2. QED
      BY <3>1 DEF Units
  <2>3. ASSUME NEW p \in own PROVE p \in Units(g)
    BY <1>1, <2>3 DEF Units
  <2>4. QED
    BY <2>1, <2>2, <2>3
<1>5. rest \cap own = {}
  <2> SUFFICES ASSUME NEW p \in rest, p \in own PROVE FALSE
    OBVIOUS
  <2>1. PICK y \in S : p \in {y} \X (1 .. f[y])
    BY <1>1 DEF Units
  <2>2. QED
    BY <1>1, <2>1
<1>6. Cardinality(rest \cap own) = 0
  BY <1>5, FS_EmptySet
<1>7. Cardinality(rest \cup own) = Cardinality(rest) + Cardinality(own) - Cardinality(rest \cap own)
  BY ONLY <1>2, <1>3, FS_Union
<1>8. QED
  BY <1>2, <1>3, <1>4, <1>6, <1>7 DEF Sum

(* The ticks of one instance change: the sum changes by as much.           *)
LEMMA SumReplaced ==
  ASSUME NEW D, IsFiniteSet(D), NEW f, f \in [D -> Nat], NEW g, g \in [D -> Nat], NEW k, k \in D,
         NEW n, n \in Nat, g[k] = f[k] + n, \A i \in D : i # k => g[i] = f[i]
  PROVE  Sum(g) = Sum(f) + n /\ Sum(f) \in Nat
<1>1. PICK S : S = D \ {k}
  OBVIOUS
<1>2. IsFiniteSet(S) /\ k \notin S
  BY <1>1, FS_Subset
<1>3. PICK h : h = [i \in S |-> f[i]]
  OBVIOUS
<1>4. h \in [S -> Nat] /\ (\A i \in S : f[i] = h[i]) /\ (\A i \in S : g[i] = h[i])
  BY <1>1, <1>3
<1>5. PICK a : a \in Nat /\ f[k] = a
  OBVIOUS
<1>6. PICK b : b \in Nat /\ g[k] = b /\ b = a + n
  BY <1>5
<1>7. f \in [S \cup {k} -> Nat] /\ g \in [S \cup {k} -> Nat]
  <2>1. S \cup {k} = D
    BY <1>1
  <2>2. QED
    BY <2>1, Zenon
<1>8. Sum(f) = Sum(h) + a
  BY ONLY <1>2, <1>4, <1>5, <1>7, SumAdds
<1>9. Sum(g) = Sum(h) + b
  BY ONLY <1>2, <1>4, <1>6, <1>7, SumAdds
<1>10. PICK c : c \in Nat /\ Sum(h) = c
  BY <1>2, <1>4, UnitsFinite
<1>11. n \in Nat /\ Sum(f) = c + a /\ Sum(g) = c + b
  BY <1>8, <1>9, <1>10, Zenon
<1>12. QED
  BY ONLY <1>5, <1>6, <1>10, <1>11

(* Among finitely many peaks one is the highest: what lies below some peak *)
(* is an interval, since it has no gaps.                                   *)
LEMMA HighestPeak ==
  ASSUME NEW N \in Nat, NEW f \in [1 .. N -> Nat]
  PROVE  \E p \in Nat : /\ \A i \in 1 .. N : f[i] <= p
                        /\ p = 0 \/ \E i \in 1 .. N : f[i] = p
<1>1. IsFiniteSet(1 .. N)
  <2>1. 1 \in Int /\ N \in Int
    OBVIOUS
  <2>2. QED
    BY ONLY <2>1, FS_Interval
<1>2. ASSUME NEW n \in Nat PROVE IsFiniteSet(1 .. n) /\ Cardinality(1 .. n) = n
  <2>1. 1 \in Int /\ n \in Int /\ n >= 0
    OBVIOUS
  <2>2. IsFiniteSet(1 .. n) /\ Cardinality(1 .. n) = IF 1 > n THEN 0 ELSE n - 1 + 1
    BY ONLY <2>1, FS_Interval
  <2>3. QED
    BY ONLY <2>1, <2>2
<1>3. PICK T : T = {1 .. f[i] : i \in 1 .. N}
  OBVIOUS
<1>4. PICK U : U = UNION T
  OBVIOUS
<1>5. IsFiniteSet(U)
  <2>1. PICK g : g = [i \in 1 .. N |-> 1 .. f[i]]
    OBVIOUS
  <2>2. g \in Surjection(1 .. N, T)
    BY <1>3, <2>1 DEF Surjection
  <2>3. IsFiniteSet(T)
    BY <1>1, <2>2, FS_Surjection
  <2>4. \A t \in T : IsFiniteSet(t)
    BY <1>2, <1>3
  <2>5. QED
    BY <1>4, <2>3, <2>4, FS_UNION
<1>6. PICK p : p \in Nat /\ p = Cardinality(U)
  BY <1>5, FS_CardinalityType
<1>7. ASSUME NEW k \in U PROVE k \in 1 .. p
  <2>1. PICK i \in 1 .. N : k \in 1 .. f[i]
    BY <1>3, <1>4
  <2>2. k \in Nat /\ k >= 1 /\ 1 .. k \subseteq 1 .. f[i]
    BY <2>1
  <2>3. 1 .. k \subseteq U
    BY <1>3, <1>4, <2>2
  <2>4. Cardinality(1 .. k) <= Cardinality(U)
    BY <1>5, <2>3, FS_Subset
  <2>5. k <= p
    BY <1>2, <1>6, <2>2, <2>4
  <2>6. QED
    BY <1>6, <2>2, <2>5
<1>8. U = 1 .. p
  <2>1. PICK V : V = 1 .. p
    OBVIOUS
  <2>2. IsFiniteSet(V) /\ Cardinality(V) = p
    BY <1>2, <1>6, <2>1
  <2>3. U \subseteq V
    BY <1>7, <2>1
  <2>4. U = V
    BY <1>6, <2>2, <2>3, FS_Subset
  <2>5. QED
    BY <2>1, <2>4
<1>9. ASSUME NEW i \in 1 .. N PROVE f[i] <= p
  <2>1. f[i] \in Nat
    OBVIOUS
  <2>2. f[i] = 0 \/ f[i] \in U
    BY <1>3, <1>4, <2>1
  <2>3. f[i] = 0 \/ f[i] \in 1 .. p
    BY <1>8, <2>2, Zenon
  <2>4. QED
    BY ONLY <1>6, <2>1, <2>3
<1>10. p = 0 \/ \E i \in 1 .. N : f[i] = p
  <2>1. CASE p # 0
    <3>1. p \in U
      <4>1. p \in 1 .. p
        BY ONLY <1>6, <2>1
      <4>2. QED
        BY <1>8, <4>1, Zenon
    <3>2. PICK i \in 1 .. N : p \in 1 .. f[i]
      BY <1>3, <1>4, <3>1
    <3>3. f[i] <= p /\ f[i] \in Nat
      BY <1>9
    <3>4. QED
      BY <1>6, <3>2, <3>3
  <2>2. QED
    BY <2>1
<1>11. QED
  BY <1>6, <1>9, <1>10
-----------------------------------------------------------------------------
(* What a minute adds up to                                                *)

Instances == 1 .. MaxSeries

Used(rows) == Sum([i \in Instances |-> rows[i].used])

(* v is what the rows of the instances say, and run requests in n ticks    *)
(* that no row has yet.                                                    *)
Accounted(rows, n, run, v) ==
  /\ v.used = Used(rows) + run * n
  /\ \A i \in Instances : rows[i].peak <= v.peak
  /\ n > 0 => run <= v.peak
  /\ v.peak = 0 \/ (\E i \in Instances : v.peak = rows[i].peak) \/ (n > 0 /\ v.peak = run)

AllRows == [Instances -> Values]

LEMMA ValueFacts ==
  ASSUME NEW v, v \in Values
  PROVE  /\ v.used \in Nat /\ v.peak \in Nat
         /\ \A w \in Values : w.used = v.used /\ w.peak = v.peak => w = v
BY DEF Values

LEMMA PlusFacts ==
  ASSUME NEW v, v \in Values, NEW used \in Nat, NEW peak \in Nat
  PROVE  /\ Plus(v, used, peak) \in Values /\ Plus(v, used, peak).used = v.used + used
         /\ Plus(v, used, peak).peak \in {v.peak, peak}
         /\ Plus(v, used, peak).peak >= v.peak /\ Plus(v, used, peak).peak >= peak
<1>1. v.used \in Nat /\ v.peak \in Int /\ peak \in Int
  BY ValueFacts
<1>2. PICK k : k = Max({v.peak, peak})
  OBVIOUS
<1>3. k \in {v.peak, peak} /\ k >= v.peak /\ k >= peak
  BY <1>1, <1>2, MaxOfTwo, Zenon
<1>4. PICK n : n = v.used + used
  OBVIOUS
<1>5. Plus(v, used, peak) = [used |-> n, peak |-> k]
  BY <1>2, <1>4 DEF Plus
<1>6. Plus(v, used, peak).used = n /\ Plus(v, used, peak).peak = k
  BY <1>5
<1>7. QED
  BY <1>3, <1>4, <1>6, PlusType, Zenon

LEMMA InstancesFinite == IsFiniteSet(Instances)
<1>1. 1 \in Int /\ MaxSeries \in Int
  BY ConstantTypes
<1>2. QED
  BY ONLY <1>1, FS_Interval DEF Instances

LEMMA UsedIsNat ==
  ASSUME NEW rows, rows \in AllRows
  PROVE  Used(rows) \in Nat
<1>1. [i \in Instances |-> rows[i].used] \in [Instances -> Nat]
  BY DEF AllRows, Values
<1>2. QED
  BY <1>1, InstancesFinite, UnitsFinite DEF Used

(* One row gets more ticks and perhaps a higher peak.                      *)
LEMMA UsedGrows ==
  ASSUME NEW rows, rows \in AllRows, NEW more, more \in AllRows, NEW k \in Instances, NEW n \in Nat,
         more[k].used = rows[k].used + n, \A i \in Instances : i # k => more[i] = rows[i]
  PROVE  Used(more) = Used(rows) + n /\ Used(rows) \in Nat
<1>1. PICK f : f = [i \in Instances |-> rows[i].used]
  OBVIOUS
<1>2. PICK g : g = [i \in Instances |-> more[i].used]
  OBVIOUS
<1>3. f \in [Instances -> Nat] /\ g \in [Instances -> Nat] /\ n \in Nat /\ k \in Instances
  BY <1>1, <1>2 DEF AllRows, Values
<1>4. g[k] = f[k] + n /\ \A i \in Instances : i # k => g[i] = f[i]
  BY <1>1, <1>2
<1>5. IsFiniteSet(Instances)
  BY InstancesFinite
<1>6. Sum(g) = Sum(f) + n /\ Sum(f) \in Nat
  BY ONLY <1>3, <1>4, <1>5, SumReplaced
<1>7. QED
  BY <1>1, <1>2, <1>6 DEF Used

(* advance: ticks that were outstanding go to the row of the series.       *)
LEMMA AccountedAdvanced ==
  ASSUME NEW rows, rows \in AllRows, NEW more, more \in AllRows, NEW k \in Instances,
         NEW n \in Nat, NEW r \in Nat, NEW run \in Nat, NEW v, v \in Values, n > 0,
         Accounted(rows, n + r, run, v), more[k] = Plus(rows[k], run * n, run),
         \A i \in Instances : i # k => more[i] = rows[i]
  PROVE  Accounted(more, r, run, v)
<1>1. PICK u : u \in Nat /\ u = run * n
  OBVIOUS
<1>2. rows[k] \in Values /\ \A i \in Instances : rows[i].peak \in Nat
  BY DEF AllRows, Values
<1>3. /\ more[k].used = rows[k].used + u /\ more[k].peak \in {rows[k].peak, run}
      /\ more[k].peak >= rows[k].peak /\ more[k].peak >= run
  <2>1. PICK o : o \in Values /\ o = rows[k]
    BY <1>2
  <2>2. u \in Nat /\ more[k] = Plus(o, u, run)
    BY <1>1, <2>1, Zenon
  <2>3. PICK c : c = Plus(o, u, run)
    OBVIOUS
  <2>4. c.used = o.used + u /\ c.peak \in {o.peak, run} /\ c.peak >= o.peak /\ c.peak >= run
    BY <2>1, <2>2, <2>3, PlusFacts
  <2>5. QED
    BY <2>1, <2>2, <2>3, <2>4, Zenon
<1>4. Used(more) = Used(rows) + u /\ Used(rows) \in Nat
  BY <1>1, <1>3, UsedGrows
<1>5. v.used = Used(more) + run * r
  <2>1. v.used = Used(rows) + run * (n + r)
    BY DEF Accounted
  <2>2. run * (n + r) = run * n + run * r
    OBVIOUS
  <2>3. PICK w : w \in Nat /\ w = run * r
    OBVIOUS
  <2>4. v.used = Used(rows) + (u + w)
    BY <1>1, <2>1, <2>2, <2>3
  <2>5. QED
    BY <1>1, <1>4, <2>3, <2>4
<1>6. run <= v.peak /\ v.peak \in Nat /\ (\A i \in Instances : rows[i].peak <= v.peak)
  BY ValueFacts DEF Accounted
<1>7. \A i \in Instances : more[i].peak <= v.peak
  BY <1>3, <1>6
<1>8. v.peak = 0 \/ \E i \in Instances : v.peak = more[i].peak
  <2>1. CASE v.peak = run
    <3>1. more[k].peak = v.peak
      BY <1>2, <1>3, <1>6, <2>1
    <3>2. QED
      BY <3>1
  <2>2. CASE \E i \in Instances : v.peak = rows[i].peak
    <3>1. PICK i \in Instances : v.peak = rows[i].peak
      BY <2>2
    <3>2. more[i].peak = v.peak
      BY <1>2, <1>3, <1>6, <3>1
    <3>3. QED
      BY <3>2
  <2>3. QED
    BY <2>1, <2>2 DEF Accounted
<1>9. QED
  BY <1>5, <1>6, <1>7, <1>8 DEF Accounted

(* changeHistory: with nothing outstanding a peak may be noted.            *)
LEMMA AccountedPeak ==
  ASSUME NEW rows, rows \in AllRows, NEW more, more \in AllRows, NEW k \in Instances,
         NEW run \in Nat, NEW now \in Nat, NEW v, v \in Values,
         Accounted(rows, 0, run, v), more[k] = Plus(rows[k], 0, now),
         \A i \in Instances : i # k => more[i] = rows[i]
  PROVE  Accounted(more, 0, now, Plus(v, 0, now))
<1>1. rows[k] \in Values /\ (\A i \in Instances : rows[i].peak \in Nat) /\ 0 \in Nat
  BY DEF AllRows, Values
<1>2. /\ more[k].used = rows[k].used + 0 /\ more[k].peak \in {rows[k].peak, now}
      /\ more[k].peak >= rows[k].peak /\ more[k].peak >= now
  <2>1. PICK o : o \in Values /\ o = rows[k]
    BY <1>1
  <2>2. more[k] = Plus(o, 0, now)
    BY <2>1, Zenon
  <2>3. PICK c : c = Plus(o, 0, now)
    OBVIOUS
  <2>4. c.used = o.used + 0 /\ c.peak \in {o.peak, now} /\ c.peak >= o.peak /\ c.peak >= now
    BY <1>1, <2>1, <2>3, PlusFacts
  <2>5. QED
    BY <2>1, <2>2, <2>3, <2>4, Zenon
<1>3. PICK w : w = Plus(v, 0, now)
  OBVIOUS
<1>4. w.used = v.used + 0 /\ w.peak \in {v.peak, now} /\ w.peak >= v.peak /\ w.peak >= now
  BY <1>1, <1>3, PlusFacts
<1>5. v.peak \in Nat /\ v.used \in Nat /\ w.peak \in Nat
  BY <1>4, ValueFacts
<1>6. Used(more) = Used(rows) + 0 /\ Used(rows) \in Nat
  BY <1>1, <1>2, UsedGrows
<1>7. w.used = Used(more) + now * 0
  <2>1. v.used = Used(rows) + run * 0
    BY DEF Accounted
  <2>2. run * 0 = 0 /\ now * 0 = 0
    OBVIOUS
  <2>3. QED
    BY <1>4, <1>5, <1>6, <2>1, <2>2
<1>8. \A i \in Instances : rows[i].peak <= v.peak
  BY DEF Accounted
<1>9. \A i \in Instances : more[i].peak <= w.peak
  BY <1>1, <1>2, <1>4, <1>5, <1>8
<1>10. w.peak = 0 \/ \E i \in Instances : w.peak = more[i].peak
  <2>1. CASE w.peak = now
    <3>1. more[k].peak = w.peak
      BY <1>1, <1>2, <1>5, <1>9, <2>1
    <3>2. QED
      BY <3>1
  <2>2. CASE w.peak = v.peak /\ \E i \in Instances : v.peak = rows[i].peak
    <3>1. PICK i \in Instances : v.peak = rows[i].peak
      BY <2>2
    <3>2. more[i].peak = w.peak
      BY <1>1, <1>2, <1>5, <1>9, <2>2, <3>1
    <3>3. QED
      BY <3>2
  <2>3. v.peak = 0 \/ \E i \in Instances : v.peak = rows[i].peak
    BY DEF Accounted
  <2>4. QED
    BY <1>4, <2>1, <2>2, <2>3
<1>11. QED
  BY <1>3, <1>7, <1>9, <1>10 DEF Accounted

(* A tick passes for the requests that run.                                *)
LEMMA AccountedTick ==
  ASSUME NEW rows, rows \in AllRows, NEW n \in Nat, NEW run \in Nat, NEW v, v \in Values,
         Accounted(rows, n, run, v)
  PROVE  Accounted(rows, n + 1, run, Plus(v, run, run))
<1>1. PICK w : w = Plus(v, run, run)
  OBVIOUS
<1>2. w.used = v.used + run /\ w.peak \in {v.peak, run} /\ w.peak >= v.peak /\ w.peak >= run
  BY <1>1, PlusFacts
<1>3. v.peak \in Nat /\ v.used \in Nat /\ w.peak \in Nat /\ Used(rows) \in Nat
  BY <1>2, ValueFacts, UsedIsNat
<1>4. w.used = Used(rows) + run * (n + 1)
  <2>1. v.used = Used(rows) + run * n
    BY DEF Accounted
  <2>2. run * (n + 1) = run * n + run
    OBVIOUS
  <2>3. PICK u : u \in Nat /\ u = run * n
    OBVIOUS
  <2>4. QED
    BY <1>2, <1>3, <2>1, <2>2, <2>3
<1>5. \A i \in Instances : rows[i].peak <= w.peak
  <2>1. \A i \in Instances : rows[i].peak \in Nat /\ rows[i].peak <= v.peak
    BY DEF Accounted, AllRows, Values
  <2>2. QED
    BY <1>2, <1>3, <2>1
<1>6. w.peak = 0 \/ (\E i \in Instances : w.peak = rows[i].peak) \/ w.peak = run
  BY <1>2 DEF Accounted
<1>7. n + 1 > 0
  OBVIOUS
<1>8. QED
  BY <1>1, <1>2, <1>4, <1>5, <1>6, <1>7 DEF Accounted

(* Ticks without requests count for nothing.                               *)
LEMMA AccountedIdle ==
  ASSUME NEW rows, rows \in AllRows, NEW n \in Nat, NEW r \in Nat, NEW v, v \in Values,
         Accounted(rows, n, 0, v)
  PROVE  Accounted(rows, r, 0, v)
<1>1. v.peak \in Nat
  BY ValueFacts
<1>2. 0 * n = 0 /\ 0 * r = 0
  OBVIOUS
<1>3. QED
  BY <1>1, <1>2 DEF Accounted

(* buildPlanConcurrency answers what is accounted, if nothing is left out. *)
LEMMA AccountedTotal ==
  ASSUME NEW rows, rows \in AllRows, NEW run \in Nat, NEW v, v \in Values, Accounted(rows, 0, run, v)
  PROVE  Total(rows) = v
<1>1. PICK P : P = {0} \cup {rows[i].peak : i \in Instances}
  OBVIOUS
<1>2. v.peak \in Nat /\ v.used \in Nat /\ P \subseteq Nat
  BY <1>1, ValueFacts DEF AllRows, Values
<1>3. v.peak \in P /\ \A x \in P : v.peak >= x
  BY <1>1, <1>2 DEF Accounted
<1>4. Max(P) = v.peak
  <2>1. \E x \in P : \A y \in P : x >= y
    BY <1>3
  <2>2. PICK q : q = Max(P)
    OBVIOUS
  <2>3. q \in P /\ \A y \in P : q >= y
    BY <2>1, <2>2 DEF Max
  <2>4. q >= v.peak /\ v.peak >= q /\ q \in Nat
    BY <1>2, <1>3, <2>3
  <2>5. QED
    BY <1>2, <2>2, <2>4
<1>5. v.used = Used(rows)
  <2>1. v.used = Used(rows) + run * 0 /\ run * 0 = 0 /\ Used(rows) \in Nat
    BY UsedIsNat DEF Accounted
  <2>2. QED
    BY <2>1
<1>6. Total(rows) = [used |-> v.used, peak |-> v.peak]
  BY <1>1, <1>4, <1>5, Zenon DEF Total, Used, Instances
<1>7. QED
  BY <1>6 DEF Values

LEMMA TotalAccounted ==
  ASSUME NEW rows, rows \in AllRows, NEW n \in Nat
  PROVE  Total(rows) \in Values /\ Accounted(rows, n, 0, Total(rows))
<1>1. PICK f : f = [i \in Instances |-> rows[i].peak]
  OBVIOUS
<1>2. f \in [Instances -> Nat] /\ \A i \in Instances : f[i] = rows[i].peak
  BY <1>1 DEF AllRows, Values
<1>3. PICK p \in Nat : /\ \A i \in Instances : f[i] <= p
                       /\ p = 0 \/ \E i \in Instances : f[i] = p
  <2>1. PICK N : N \in Nat /\ Instances = 1 .. N
    BY ConstantTypes DEF Instances
  <2>2. f \in [1 .. N -> Nat]
    BY <1>2, <2>1
  <2>3. \E p \in Nat : (\A i \in 1 .. N : f[i] <= p) /\ (p = 0 \/ \E i \in 1 .. N : f[i] = p)
    BY ONLY <2>1, <2>2, HighestPeak
  <2>4. QED
    BY <2>1, <2>3, Zenon
<1>4. PICK v : v = [used |-> Used(rows), peak |-> p]
  OBVIOUS
<1>5. v \in Values /\ v.used = Used(rows) /\ v.peak = p /\ Used(rows) \in Nat
  BY <1>4, UsedIsNat DEF Values
<1>6. v.used = Used(rows) + 0 * 0 /\ 0 \in Nat
  BY <1>5
<1>7. Accounted(rows, 0, 0, v)
  BY <1>2, <1>3, <1>5, <1>6 DEF Accounted
<1>8. Total(rows) = v
  BY <1>5, <1>6, <1>7, AccountedTotal
<1>9. QED
  BY <1>5, <1>6, <1>7, <1>8, AccountedIdle
-----------------------------------------------------------------------------
(* Minutes and ticks                                                       *)

Start(m) == m * Minute

LEMMA StartFacts ==
  /\ \A m \in Int : Start(m) \in Int /\ Start(m + 1) = Start(m) + Minute
  /\ \A m, k \in Int : m < k => Start(m + 1) <= Start(k)
  /\ \A m, k \in Int : m <= k => Start(m) <= Start(k)
<1>1. Minute \in Nat /\ Minute > 0
  BY ConstantTypes
<1>2. \A m \in Int : Start(m) \in Int /\ Start(m + 1) = Start(m) + Minute
  BY <1>1 DEF Start
<1>3. ASSUME NEW m \in Int, NEW k \in Int, m <= k PROVE Start(m) <= Start(k)
  <2>1. PICK d \in Nat : k = m + d
    <3>1. k - m \in Nat /\ k = m + (k - m)
      BY <1>3
    <3>2. QED
      BY <3>1
  <2>2. (m + d) * Minute = m * Minute + d * Minute
    BY <1>1
  <2>3. d * Minute >= 0 /\ d * Minute \in Int /\ m * Minute \in Int
    BY <1>1
  <2>4. QED
    BY <2>1, <2>2, <2>3 DEF Start
<1>4. ASSUME NEW m \in Int, NEW k \in Int, m < k PROVE Start(m + 1) <= Start(k)
  <2>1. m + 1 \in Int /\ m + 1 <= k
    BY <1>4
  <2>2. QED
    BY <1>3, <2>1
<1>5. QED
  BY <1>2, <1>3, <1>4

LEMMA MinuteFacts ==
  ASSUME NEW t \in Int
  PROVE  MinuteOf(t) \in Int /\ Start(MinuteOf(t)) <= t /\ t < Start(MinuteOf(t)) + Minute
<1>1. Minute \in Nat /\ Minute > 0
  BY ConstantTypes
<1>2. MinuteOf(t) \in Int
  BY ConstantTypes
<1>3. PICK k \in Int : k = t \div Minute
  BY <1>2 DEF MinuteOf
<1>4. t = Minute * k + (t % Minute) /\ t % Minute \in 0 .. Minute - 1
  BY <1>1, <1>3
<1>5. PICK r : r \in 0 .. Minute - 1 /\ r = t % Minute
  BY <1>4
<1>6. Minute * k = k * Minute
  BY <1>1
<1>7. QED
  BY <1>1, <1>2, <1>3, <1>4, <1>5, <1>6 DEF MinuteOf, Start

LEMMA MaxIs ==
  ASSUME NEW x \in Int, NEW y \in Int
  PROVE  Max({x, y}) = (IF x >= y THEN x ELSE y)
<1>1. PICK z : z = Max({x, y})
  OBVIOUS
<1>2. z \in {x, y} /\ z >= x /\ z >= y
  BY <1>1, MaxOfTwo, Zenon
<1>3. z = IF x >= y THEN x ELSE y
  BY <1>2
<1>4. QED
  BY <1>1, <1>3

LEMMA MinIs ==
  ASSUME NEW x \in Int, NEW y \in Int
  PROVE  Min({x, y}) = (IF x <= y THEN x ELSE y)
<1>1. \E z \in {x, y} : \A w \in {x, y} : z <= w
  OBVIOUS
<1>2. PICK z : z = Min({x, y})
  OBVIOUS
<1>3. z \in {x, y} /\ \A w \in {x, y} : z <= w
  BY <1>1, <1>2 DEF Min
<1>4. z = IF x <= y THEN x ELSE y
  BY <1>3
<1>5. QED
  BY <1>2, <1>4

(* The ticks between two times that fall into the minute that starts at a. *)
Span(a, from, to) ==
  LET lo == IF from >= a THEN from ELSE a
      hi == IF to <= a + Minute THEN to ELSE a + Minute
  IN  IF hi > lo THEN hi - lo ELSE 0

LEMMA TicksIsSpan ==
  ASSUME NEW m \in Int, NEW from \in Int, NEW to \in Int
  PROVE  Ticks(m, from, to) = Span(Start(m), from, to) /\ Ticks(m, from, to) \in Nat
<1>1. PICK a, e : a = m * Minute /\ e = (m + 1) * Minute
  OBVIOUS
<1>2. a \in Int /\ e \in Int /\ a = Start(m) /\ e = a + Minute /\ Minute \in Int
  BY <1>1, StartFacts, ConstantTypes DEF Start
<1>3. PICK hi : hi = IF to <= e THEN to ELSE e
  OBVIOUS
<1>4. PICK lo : lo = IF from >= a THEN from ELSE a
  OBVIOUS
<1>5. hi \in Int /\ lo \in Int
  BY <1>2, <1>3, <1>4
<1>6. PICK d : d \in Int /\ d = hi - lo
  BY <1>5
<1>7. Min({to, e}) = hi /\ Max({from, a}) = lo
  BY <1>2, <1>3, <1>4, MinIs, MaxIs
<1>8. Ticks(m, from, to) = Max({0, d})
  BY <1>1, <1>6, <1>7, Zenon DEF Ticks
<1>9. Max({0, d}) = IF 0 >= d THEN 0 ELSE d
  <2>1. 0 \in Int
    OBVIOUS
  <2>2. QED
    BY <1>6, <2>1, MaxIs, Zenon
<1>10. Ticks(m, from, to) = IF hi > lo THEN hi - lo ELSE 0
  BY <1>5, <1>6, <1>8, <1>9
<1>11. Span(Start(m), from, to) = IF hi > lo THEN hi - lo ELSE 0
  BY <1>2, <1>3, <1>4 DEF Span
<1>12. QED
  BY <1>5, <1>10, <1>11

(* What was before the minute does not matter to it.                       *)
LEMMA TicksFrom ==
  ASSUME NEW m \in Int, NEW from \in Int, NEW early \in Int, NEW to \in Int, early <= Start(m)
  PROVE  Ticks(m, IF from >= early THEN from ELSE early, to) = Ticks(m, from, to)
<1>1. PICK a : a \in Int /\ a = Start(m)
  BY StartFacts
<1>2. PICK f : f \in Int /\ f = IF from >= early THEN from ELSE early
  OBVIOUS
<1>3. Minute \in Int
  BY ConstantTypes
<1>4. Span(a, f, to) = Span(a, from, to)
  BY <1>1, <1>2, <1>3 DEF Span
<1>5. f \in Int /\ Ticks(m, from, to) = Span(a, from, to)
  BY <1>1, <1>2, TicksIsSpan
<1>6. Ticks(m, f, to) = Span(a, f, to)
  BY ONLY <1>1, <1>5, m \in Int, to \in Int, TicksIsSpan
<1>7. QED
  BY <1>2, <1>4, <1>5, <1>6, Zenon

(* A minute that is over gets no more.                                     *)
LEMMA TicksOver ==
  ASSUME NEW m \in Int, NEW from \in Int, NEW now \in Int, NEW to \in Int,
         m < MinuteOf(now), now <= to
  PROVE  Ticks(m, from, now) = Ticks(m, from, to)
<1>1. PICK a : a \in Int /\ a = Start(m)
  BY StartFacts
<1>2. MinuteOf(now) \in Int /\ Start(MinuteOf(now)) <= now /\ Start(MinuteOf(now)) \in Int
  BY MinuteFacts, StartFacts
<1>3. Start(m + 1) <= Start(MinuteOf(now)) /\ Start(m + 1) = a + Minute
  BY <1>1, <1>2, StartFacts
<1>4. Minute \in Int
  BY ConstantTypes
<1>5. a + Minute <= now
  BY <1>1, <1>2, <1>3, <1>4
<1>6. Span(a, from, now) = Span(a, from, to)
  BY <1>1, <1>4, <1>5 DEF Span
<1>7. QED
  BY <1>1, <1>6, TicksIsSpan

(* A tick belongs to the minute in which it starts.                        *)
LEMMA TicksStep ==
  ASSUME NEW m \in Int, NEW from \in Int, NEW t \in Int, from <= t
  PROVE  Ticks(m, from, t + 1) = IF m = MinuteOf(t) THEN Ticks(m, from, t) + 1 ELSE Ticks(m, from, t)
<1>1. PICK a : a \in Int /\ a = Start(m)
  BY StartFacts
<1>2. PICK k : k \in Int /\ k = MinuteOf(t)
  BY MinuteFacts
<1>3. Start(k) <= t /\ t < Start(k) + Minute /\ Start(k) \in Int
  BY <1>2, MinuteFacts, StartFacts
<1>4. Minute \in Int /\ Minute > 0 /\ t + 1 \in Int
  BY ConstantTypes
<1>5. CASE m = k
  <2>1. a <= t /\ t < a + Minute
    BY <1>1, <1>3, <1>5
  <2>2. Span(a, from, t + 1) = Span(a, from, t) + 1
    BY <1>1, <1>4, <2>1 DEF Span
  <2>3. QED
    BY <1>1, <1>2, <1>4, <1>5, <2>2, TicksIsSpan
<1>6. CASE m # k
  <2>1. t + 1 <= a \/ a + Minute <= t
    <3>1. CASE m < k
      <4>1. Start(m + 1) <= Start(k) /\ Start(m + 1) = a + Minute
        BY <1>1, <1>2, <3>1, StartFacts
      <4>2. QED
        BY <1>1, <1>3, <1>4, <4>1
    <3>2. CASE k < m
      <4>1. Start(k + 1) <= Start(m) /\ Start(k + 1) = Start(k) + Minute
        BY <1>2, <3>2, StartFacts
      <4>2. QED
        BY <1>1, <1>3, <1>4, <4>1
    <3>3. QED
      BY <1>2, <1>6, <3>1, <3>2
  <2>2. Span(a, from, t + 1) = Span(a, from, t)
    BY <1>1, <1>4, <2>1 DEF Span
  <2>3. QED
    BY <1>1, <1>2, <1>4, <1>6, <2>2, TicksIsSpan
<1>7. QED
  BY <1>5, <1>6

(* Ticks may be counted in two parts.                                      *)
LEMMA TicksSplit ==
  ASSUME NEW m \in Int, NEW from \in Int, NEW t \in Int, NEW to \in Int, from <= t, t <= to
  PROVE  Ticks(m, from, to) = Ticks(m, from, t) + Ticks(m, t, to)
<1>1. PICK a : a \in Int /\ a = Start(m)
  BY StartFacts
<1>2. Minute \in Int /\ Minute > 0
  BY ConstantTypes
<1>3. Span(a, from, to) = Span(a, from, t) + Span(a, t, to)
  BY <1>1, <1>2 DEF Span
<1>4. QED
  BY <1>1, <1>3, TicksIsSpan

(* Nothing falls into a minute that is yet to come, or between a time and  *)
(* an earlier one.                                                         *)
LEMMA TicksNone ==
  ASSUME NEW m \in Int, NEW from \in Int, NEW to \in Int, m > MinuteOf(to) \/ to <= from
  PROVE  Ticks(m, from, to) = 0
<1>1. PICK a : a \in Int /\ a = Start(m)
  BY StartFacts
<1>2. Minute \in Int /\ Minute > 0
  BY ConstantTypes
<1>3. to <= a \/ to <= from
  <2>1. CASE m > MinuteOf(to)
    <3>1. PICK k : k \in Int /\ k = MinuteOf(to)
      BY MinuteFacts
    <3>2. to < Start(k) + Minute /\ Start(k + 1) <= Start(m) /\ Start(k + 1) = Start(k) + Minute /\ Start(k) \in Int
      BY <2>1, <3>1, MinuteFacts, StartFacts
    <3>3. QED
      BY <1>1, <1>2, <3>2
  <2>2. QED
    BY <2>1
<1>4. Span(a, from, to) = 0
  BY <1>1, <1>2, <1>3 DEF Span
<1>5. QED
  BY <1>1, <1>4, TicksIsSpan

LEMMA MinuteMonotone ==
  ASSUME NEW t, t \in Int, NEW u, u \in Int, t <= u
  PROVE  MinuteOf(t) <= MinuteOf(u)
<1>1. PICK k : k \in Int /\ k = MinuteOf(t) /\ Start(k) <= t /\ Start(k) \in Int
  BY MinuteFacts, StartFacts
<1>2. PICK j : j \in Int /\ j = MinuteOf(u) /\ u < Start(j) + Minute /\ Start(j) \in Int
  BY MinuteFacts, StartFacts
<1>3. ~(j < k)
  <2> SUFFICES ASSUME j < k PROVE FALSE
    OBVIOUS
  <2>1. Start(j + 1) <= Start(k) /\ Start(j + 1) = Start(j) + Minute
    BY <1>1, <1>2, StartFacts
  <2>2. Minute \in Int
    BY ConstantTypes
  <2>3. QED
    BY <1>1, <1>2, <2>1, <2>2
<1>4. QED
  BY <1>1, <1>2, <1>3

(* What is dropped lies Keep ticks back, and more is dropped later.        *)
LEMMA CutoffFacts ==
  ASSUME NEW t, t \in Int
  PROVE  /\ Cutoff(t) \in Int /\ Cutoff(t) <= t - Keep /\ Cutoff(t) <= t
         /\ Cutoff(t) <= Start(MinuteOf(t))
         /\ \A u \in Int : t <= u => Cutoff(t) <= Cutoff(u)
<1>1. Keep \in Nat /\ t - Keep \in Int /\ t - Keep <= t
  BY ConstantTypes
<1>2. Cutoff(t) = Start(MinuteOf(t - Keep)) /\ MinuteOf(t - Keep) \in Int /\ MinuteOf(t) \in Int
  BY <1>1, MinuteFacts DEF Cutoff, Start
<1>3. Cutoff(t) \in Int /\ Cutoff(t) <= t - Keep
  BY <1>1, <1>2, MinuteFacts, StartFacts
<1>4. Cutoff(t) <= Start(MinuteOf(t))
  BY <1>1, <1>2, MinuteMonotone, StartFacts
<1>5. ASSUME NEW u \in Int, t <= u PROVE Cutoff(t) <= Cutoff(u)
  <2>1. PICK x, y : x = t - Keep /\ y = u - Keep
    OBVIOUS
  <2>2. x \in Int /\ y \in Int /\ x <= y
    BY <1>1, <1>5, <2>1
  <2>3. Cutoff(t) = Start(MinuteOf(x)) /\ Cutoff(u) = Start(MinuteOf(y))
    BY <2>1 DEF Cutoff, Start
  <2>4. MinuteOf(x) <= MinuteOf(y) /\ MinuteOf(x) \in Int /\ MinuteOf(y) \in Int
    BY ONLY <2>2, MinuteMonotone, MinuteFacts
  <2>5. QED
    BY <2>3, <2>4, StartFacts
<1>6. QED
  BY <1>1, <1>3, <1>4, <1>5

LEMMA CurrentMinute ==
  ASSUME NEW t, t \in Nat, t <= MaxTick
  PROVE  MinuteOf(t) \in Minutes
<1>1. MaxTick \in Int /\ t \in Int /\ 0 \in Int /\ 0 <= t
  BY HistoryAssumption
<1>2. MinuteOf(0) <= MinuteOf(t) /\ MinuteOf(t) <= MinuteOf(MaxTick) /\ MinuteOf(t) \in Int
  BY <1>1, MinuteMonotone, MinuteFacts
<1>3. MinuteOf(0) = 0
  BY ConstantTypes DEF MinuteOf
<1>4. MinuteOf(MaxTick) \in Int /\ Minutes = 0 .. MinuteOf(MaxTick)
  BY <1>1, MinuteFacts DEF Minutes, MinuteOf
<1>5. QED
  BY <1>2, <1>3, <1>4

(* advance, for a minute that is kept: the ticks since last, whatever the  *)
(* cutoff is.                                                              *)
LEMMA AdvancedMinute ==
  ASSUME NEW s, s \in SeriesRows, NEW b, b \in [Minutes -> Buckets], NEW t, t \in Int,
         NEW m, m \in Minutes
  PROVE  /\ Start(m) >= Cutoff(t) =>
              Advanced(s, b, t)[m] = IF Ticks(m, s.last, t) = 0 THEN b[m]
                                     ELSE Changed(Plus(b[m].value, running * Ticks(m, s.last, t), running))
         /\ m > MinuteOf(t) => Advanced(s, b, t)[m] = b[m]
         /\ t <= s.last => Advanced(s, b, t)[m] = b[m]
<1>1. PICK l, c, f : l = s.last /\ c = Cutoff(t) /\ f = From(s, t)
  OBVIOUS
<1>2. l \in Int /\ c \in Int /\ m \in Int
  BY <1>1, ConstantTypes DEF SeriesRows
<1>3. f = Max({l, c})
  BY <1>1 DEF From
<1>4. f = IF l >= c THEN l ELSE c
  BY <1>2, <1>3, MaxIs
<1>5. PICK n : n = Ticks(m, f, t)
  OBVIOUS
<1>6. Advanced(s, b, t)[m] = IF n = 0 THEN b[m] ELSE Changed(Plus(b[m].value, running * n, running))
  BY <1>1, <1>5, Zenon DEF Advanced
<1>7. ASSUME Start(m) >= c PROVE n = Ticks(m, l, t)
  <2>1. c <= Start(m)
    BY <1>2, <1>7, StartFacts
  <2>2. Ticks(m, IF l >= c THEN l ELSE c, t) = Ticks(m, l, t)
    BY <1>2, <2>1, TicksFrom
  <2>3. QED
    BY <1>4, <1>5, <2>2, Zenon
<1>8. f \in Int /\ f >= l
  BY <1>2, <1>4
<1>9. ASSUME m > MinuteOf(t) \/ t <= l PROVE n = 0
  <2>1. m > MinuteOf(t) \/ t <= f
    BY <1>2, <1>8, <1>9
  <2>2. QED
    BY <1>2, <1>5, <1>8, <2>1, TicksNone
<1>10. Start(m) >= c => Advanced(s, b, t)[m] = IF Ticks(m, l, t) = 0 THEN b[m]
                          ELSE Changed(Plus(b[m].value, running * Ticks(m, l, t), running))
  BY <1>6, <1>7, Zenon
<1>11. m > MinuteOf(t) \/ t <= l => Advanced(s, b, t)[m] = b[m]
  BY <1>6, <1>9, Zenon
<1>12. QED
  BY <1>1, <1>10, <1>11, Zenon

LEMMA AdvancedLast ==
  ASSUME NEW s, s \in SeriesRows, NEW t, t \in Int
  PROVE  AdvancedSeries(s, t) = [s EXCEPT !.last = IF s.last >= t THEN s.last ELSE t]
<1>1. PICK l, c, f : l = s.last /\ c = Cutoff(t) /\ f = From(s, t)
  OBVIOUS
<1>2. l \in Int /\ c \in Int /\ c <= t
  BY <1>1, CutoffFacts DEF SeriesRows
<1>3. f = Max({l, c})
  BY <1>1 DEF From
<1>4. f \in Int /\ f = IF l >= c THEN l ELSE c
  BY <1>2, <1>3, MaxIs
<1>5. Max({f, t}) = IF f >= t THEN f ELSE t
  BY <1>4, MaxIs
<1>6. Max({f, t}) = IF l >= t THEN l ELSE t
  BY <1>2, <1>4, <1>5
<1>7. QED
  BY <1>1, <1>6, Zenon DEF AdvancedSeries
-----------------------------------------------------------------------------
(* What is known of a series and its minutes                               *)

Recent(m) == Start(m) >= Cutoff(tick)

(* A minute by instance, as a reader would put it together.                *)
RowsOf(id, b, stored, m) ==
  [i \in Instances |-> IF i = id /\ b[m].exists THEN b[m].value ELSE stored[i][m]]

(* Rows and outstanding ticks make up what happened.                       *)
TruthOK(s, b) ==
  \A m \in Minutes :
    Recent(m) => Accounted(RowsOf(s.id, b, saved, m), Ticks(m, s.last, tick), running, truth[m])

(* Later instances have stored nothing.                                    *)
InstanceOK(id) == \A i \in Instances : i > id => \A m \in Minutes : saved[i][m] = Unused

(* A minute that the series does not have was not stored by it either.     *)
OwnOK(id, b) == \A m \in Minutes : Recent(m) /\ ~b[m].exists => saved[id][m] = Unused

EmptyOK(b) == \A m \in Minutes : ~b[m].exists => b[m].value = Unused

(* A row that the reader holds is still stored, or the series has the      *)
(* minute and replaces it.                                                 *)
ReaderOK(id, b) ==
  reader.at = "stored" =>
    \A i \in Instances, m \in Minutes :
      IF Shown(m, reader.now) THEN reader.rows[i][m] = saved[i][m] \/ (i = id /\ b[m].exists)
      ELSE reader.rows[i][m] = Unused

(* Nothing is known of the minute, wherever the instance might have it.    *)
Blank(id, b, m) ==
  /\ b[m].value = Unused
  /\ saved[id][m] = Unused
  /\ flush.at = "saving" /\ m \in DOMAIN flush.pending => flush.pending[m] = Unused
  /\ reader.at = "stored" => reader.rows[id][m] = Unused

AheadOK(id, b) == \A m \in Minutes : m > MinuteOf(tick) => Blank(id, b, m)

(* Without requests nothing happens after the last use, which a reader may *)
(* have set back by its patience.                                          *)
QuietOK(s, b) == running = 0 => \A m \in Minutes : m > MinuteOf(s.lastUsed + Patience) => Blank(s.id, b, m)

ExactTypeOK ==
  /\ tick <= MaxTick /\ truth \in [Minutes -> Values]
  /\ reader.at \in {"idle", "stored"}
  /\ reader.at = "stored" =>
       reader.rows \in [Instances -> [Minutes -> Values]] /\ reader.now <= tick /\ tick - reader.now <= Patience

Stored(s, b) ==
  s.last <= tick /\ TruthOK(s, b) /\ InstanceOK(s.id) /\ EmptyOK(b) /\ ReaderOK(s.id, b)

Known(s, b) == Stored(s, b) /\ OwnOK(s.id, b) /\ AheadOK(s.id, b)

(* The inductive invariant, with HistoryInv.                               *)
ExactInv ==
  /\ ExactTypeOK /\ Stored(series, bucket)
  /\ series.exists => Known(series, bucket) /\ QuietOK(series, bucket)

LEMMA RowsType ==
  ASSUME NEW b, b \in [Minutes -> Buckets], NEW stored, stored \in [1 .. MaxSeries -> [Minutes -> Values]],
         NEW id, NEW m, m \in Minutes
  PROVE  /\ RowsOf(id, b, stored, m) \in AllRows
         /\ \A i \in Instances :
              RowsOf(id, b, stored, m)[i] = IF i = id /\ b[m].exists THEN b[m].value ELSE stored[i][m]
BY DEF RowsOf, AllRows, Instances, Buckets

(* The row of the series that a bucket continues.                          *)
LEMMA OwnRow ==
  ASSUME NEW b, b \in [Minutes -> Buckets], saved \in [1 .. MaxSeries -> [Minutes -> Values]],
         NEW id, id \in Instances, NEW m, m \in Minutes, EmptyOK(b), OwnOK(id, b), Recent(m)
  PROVE  RowsOf(id, b, saved, m)[id] = b[m].value
<1>1. \A i \in Instances :
        RowsOf(id, b, saved, m)[i] = IF i = id /\ b[m].exists THEN b[m].value ELSE saved[i][m]
  BY DEF RowsOf
<1>2. RowsOf(id, b, saved, m)[id] = IF b[m].exists THEN b[m].value ELSE saved[id][m]
  BY <1>1, Zenon
<1>3. QED
  BY <1>2 DEF EmptyOK, OwnOK

LEMMA ChangedFacts ==
  ASSUME NEW v
  PROVE  Changed(v).exists /\ Changed(v).value = v
BY DEF Changed

LEMMA UnusedPlus == Plus(Unused, 0, 0) = Unused
<1>1. Max({0, 0}) = 0
  <2>1. 0 \in Int
    OBVIOUS
  <2>2. Max({0, 0}) \in {0, 0}
    BY <2>1, MaxOfTwo, Zenon
  <2>3. QED
    BY <2>2
<1>2. Unused.used = 0 /\ Unused.peak = 0
  BY DEF Unused
<1>3. 0 + 0 = 0
  OBVIOUS
<1>4. Plus(Unused, 0, 0) = [used |-> 0, peak |-> 0]
  BY <1>1, <1>2, <1>3, Zenon DEF Plus
<1>5. QED
  BY <1>4 DEF Unused

(* advance keeps what is known.                                            *)
LEMMA AdvancedTruth ==
  ASSUME NEW s, s \in SeriesRows, NEW b, b \in [Minutes -> Buckets], NEW t, t \in Int, t <= tick,
         NEW m, m \in Minutes, Recent(m), HistoryInv, ExactTypeOK, s.id \in Instances, s.last <= tick,
         EmptyOK(b), OwnOK(s.id, b),
         Accounted(RowsOf(s.id, b, saved, m), Ticks(m, s.last, tick), running, truth[m])
  PROVE  Accounted(RowsOf(s.id, Advanced(s, b, t), saved, m), Ticks(m, AdvancedSeries(s, t).last, tick),
                   running, truth[m])
<1>1. /\ tick \in Int /\ running \in Nat /\ saved \in [1 .. MaxSeries -> [Minutes -> Values]]
      /\ truth[m] \in Values /\ m \in Int /\ s.last \in Int
  BY ConstantTypes DEF HistoryInv, HistoryTypeOK, ExactTypeOK, SeriesRows
<1>2. Start(m) >= Cutoff(t)
  <2>1. Cutoff(t) <= Cutoff(tick) /\ Cutoff(t) \in Int /\ Cutoff(tick) \in Int
    BY <1>1, CutoffFacts
  <2>2. Start(m) \in Int
    BY <1>1, StartFacts
  <2>3. QED
    BY <2>1, <2>2 DEF Recent
<1>3. PICK a : a = Advanced(s, b, t)
  OBVIOUS
<1>4. PICK l : l \in Int /\ l = s.last
  BY <1>1
<1>5. AdvancedSeries(s, t).last = IF l >= t THEN l ELSE t
  BY <1>4, AdvancedLast DEF SeriesRows
<1>6. PICK r : r \in AllRows /\ r = RowsOf(s.id, b, saved, m)
  BY <1>1, RowsType
<1>7. a \in [Minutes -> Buckets]
  BY <1>1, <1>3, AdvancedBuckets
<1>8. PICK q : q \in AllRows /\ q = RowsOf(s.id, a, saved, m)
  BY <1>1, <1>7, RowsType
<1>9. ASSUME a[m] = b[m] PROVE q = r
  BY <1>6, <1>8, <1>9 DEF RowsOf
<1>10. CASE l >= t
  <2>1. a[m] = b[m]
    BY <1>1, <1>3, <1>4, <1>10, AdvancedMinute
  <2>2. AdvancedSeries(s, t).last = l
    BY <1>5, <1>10
  <2>3. QED
    BY <1>3, <1>4, <1>6, <1>8, <1>9, <2>1, <2>2, Zenon
<1>11. CASE l < t
  <2>1. AdvancedSeries(s, t).last = t
    BY <1>4, <1>5, <1>11
  <2>2. PICK n, k : n = Ticks(m, l, t) /\ k = Ticks(m, t, tick) /\ n \in Nat /\ k \in Nat
    BY <1>1, <1>4, TicksIsSpan
  <2>3. Ticks(m, l, tick) = n + k
    BY <1>1, <1>4, <1>11, <2>2, TicksSplit
  <2>4. Accounted(r, n + k, running, truth[m])
    BY <1>4, <1>6, <2>3, Zenon
  <2>5. CASE n = 0
    <3>1. a[m] = b[m]
      <4>1. Ticks(m, s.last, t) = 0
        BY <1>4, <2>2, <2>5
      <4>2. Advanced(s, b, t)[m] = b[m]
        BY <1>2, <4>1, AdvancedMinute
      <4>3. QED
        BY <1>3, <4>2
    <3>2. n + k = k
      BY <2>2, <2>5
    <3>3. QED
      BY <1>3, <1>8, <1>9, <2>1, <2>2, <2>4, <3>1, <3>2, Zenon
  <2>6. CASE n # 0
    <3>1. a[m] = Changed(Plus(b[m].value, running * n, running))
      BY <1>2, <1>3, <1>4, <2>2, <2>6, AdvancedMinute
    <3>2. r[s.id] = b[m].value
      BY <1>1, <1>6, OwnRow
    <3>3. a[m].exists /\ a[m].value = Plus(r[s.id], running * n, running)
      BY <3>1, <3>2, ChangedFacts
    <3>4. q[s.id] = a[m].value /\ \A i \in Instances : i # s.id => q[i] = r[i]
      BY <1>1, <1>6, <1>7, <1>8, <3>3, RowsType
    <3>5. PICK id : id \in Instances /\ id = s.id
      OBVIOUS
    <3>6. q[id] = Plus(r[id], running * n, running) /\ \A i \in Instances : i # id => q[i] = r[i]
      BY <3>3, <3>4, <3>5, Zenon
    <3>7. n > 0 /\ truth[m] \in Values
      BY <1>1, <2>2, <2>6
    <3>8. Accounted(q, k, running, truth[m])
      <4>1. PICK v, run : v = truth[m] /\ run = running
        OBVIOUS
      <4>2. v \in Values /\ run \in Nat /\ n > 0
        BY <1>1, <3>7, <4>1
      <4>3. /\ Accounted(r, n + k, run, v) /\ q[id] = Plus(r[id], run * n, run)
            /\ \A i \in Instances : i # id => q[i] = r[i]
        BY <2>4, <3>6, <4>1, Zenon
      <4>4. r \in AllRows /\ q \in AllRows /\ n \in Nat /\ k \in Nat /\ id \in Instances
        BY <1>6, <1>8, <2>2, <3>5
      <4>5. Accounted(q, k, run, v)
        BY ONLY <4>2, <4>3, <4>4, AccountedAdvanced
      <4>6. QED
        BY <4>1, <4>5, Zenon
    <3>9. QED
      BY <1>3, <1>8, <2>1, <2>2, <3>8, Zenon
  <2>7. QED
    BY <2>5, <2>6
<1>12. QED
  BY <1>1, <1>4, <1>10, <1>11

LEMMA AdvancedValue ==
  ASSUME NEW s, s \in SeriesRows, NEW b, b \in [Minutes -> Buckets], NEW t, t \in Int,
         NEW m, m \in Minutes, running \in Nat, EmptyOK(b)
  PROVE  /\ b[m].exists => Advanced(s, b, t)[m].exists
         /\ ~Advanced(s, b, t)[m].exists => ~b[m].exists /\ Advanced(s, b, t)[m].value = Unused
         /\ running = 0 /\ b[m].value = Unused => Advanced(s, b, t)[m].value = Unused
<1>1. PICK a : a = Advanced(s, b, t)
  OBVIOUS
<1>2. PICK n : n = Ticks(m, From(s, t), t)
  OBVIOUS
<1>3. n \in Nat
  <2>1. From(s, t) \in Int
    BY ConstantTypes, MaxOfTwo DEF From, SeriesRows
  <2>2. QED
    BY <1>2, <2>1, TicksType
<1>4. a[m] = IF n = 0 THEN b[m] ELSE Changed(Plus(b[m].value, running * n, running))
  BY <1>1, <1>2, Zenon DEF Advanced
<1>5. CASE n = 0
  <2>1. a[m] = b[m]
    BY <1>4, <1>5
  <2>2. QED
    BY <1>1, <2>1 DEF EmptyOK
<1>6. CASE n # 0
  <2>1. a[m].exists /\ a[m].value = Plus(b[m].value, running * n, running)
    BY <1>4, <1>6, ChangedFacts
  <2>2. ASSUME running = 0, b[m].value = Unused PROVE a[m].value = Unused
    <3>1. running * n = 0
      BY <1>3, <2>2
    <3>2. a[m].value = Plus(Unused, 0, 0)
      BY <2>1, <2>2, <3>1, Zenon
    <3>3. QED
      BY <3>2, UnusedPlus
  <2>3. QED
    BY <1>1, <2>1, <2>2
<1>7. QED
  BY <1>5, <1>6

LEMMA AdvancedKnown ==
  ASSUME NEW s, s \in SeriesRows, s.id \in Instances, NEW b, b \in [Minutes -> Buckets],
         NEW t, t \in Int, t <= tick, HistoryInv, ExactTypeOK, Known(s, b)
  PROVE  Known(AdvancedSeries(s, t), Advanced(s, b, t))
<1>1. tick \in Int /\ running \in Nat /\ s.last \in Int /\ s.last <= tick
  BY DEF HistoryInv, HistoryTypeOK, Known, Stored, SeriesRows
<1>2. PICK a, y : a = Advanced(s, b, t) /\ y = AdvancedSeries(s, t)
  OBVIOUS
<1>3. y.id = s.id /\ y.last = IF s.last >= t THEN s.last ELSE t
  BY <1>2, AdvancedLast DEF SeriesRows
<1>4. y.last <= tick
  BY <1>1, <1>3
<1>5. EmptyOK(b) /\ OwnOK(s.id, b) /\ TruthOK(s, b) /\ InstanceOK(s.id) /\ ReaderOK(s.id, b) /\ AheadOK(s.id, b)
  BY DEF Known, Stored
<1>6. ASSUME NEW m \in Minutes
      PROVE  /\ b[m].exists => a[m].exists
             /\ ~a[m].exists => ~b[m].exists /\ a[m].value = Unused
             /\ m > MinuteOf(tick) => a[m] = b[m]
  <2>1. m > MinuteOf(tick) => m > MinuteOf(t)
    <3>1. MinuteOf(t) <= MinuteOf(tick)
      BY <1>1, MinuteMonotone
    <3>2. MinuteOf(t) \in Int /\ MinuteOf(tick) \in Int /\ m \in Int
      BY <1>1, ConstantTypes
    <3>3. QED
      BY ONLY <3>1, <3>2
  <2>2. m > MinuteOf(t) => a[m] = b[m]
    BY <1>2, AdvancedMinute
  <2>3. QED
    BY <1>1, <1>2, <1>5, <2>1, <2>2, AdvancedValue
<1>7. TruthOK(y, a)
  <2> SUFFICES ASSUME NEW m \in Minutes, Recent(m)
               PROVE  Accounted(RowsOf(y.id, a, saved, m), Ticks(m, y.last, tick), running, truth[m])
    BY DEF TruthOK
  <2>1. Accounted(RowsOf(s.id, b, saved, m), Ticks(m, s.last, tick), running, truth[m])
    BY <1>5 DEF TruthOK
  <2>2. Accounted(RowsOf(s.id, Advanced(s, b, t), saved, m), Ticks(m, AdvancedSeries(s, t).last, tick),
                  running, truth[m])
    BY <1>1, <1>5, <2>1, AdvancedTruth, Zenon
  <2>3. QED
    BY <1>2, <1>3, <2>2, Zenon
<1>8. EmptyOK(a) /\ OwnOK(y.id, a)
  BY <1>3, <1>5, <1>6 DEF EmptyOK, OwnOK
<1>9. ReaderOK(y.id, a)
  BY <1>3, <1>5, <1>6 DEF ReaderOK
<1>10. AheadOK(y.id, a)
  BY <1>3, <1>5, <1>6 DEF AheadOK, Blank
<1>11. QED
  BY <1>2, <1>3, <1>4, <1>5, <1>7, <1>8, <1>9, <1>10 DEF Known, Stored

(* A series that was forgotten has no minutes, and a new one begins with   *)
(* none stored.                                                            *)
LEMMA OpenedKnown ==
  ASSUME NEW t, t \in Int, t <= tick, HistoryInv, ExactInv, series.exists \/ series.id < MaxSeries
  PROVE  Known(Opened(t), bucket) /\ Opened(t).id \in Instances
<1>1. /\ tick \in Int /\ running \in Nat /\ series \in SeriesRows /\ series.id \in 0 .. MaxSeries
      /\ MaxSeries \in Nat /\ saved \in [1 .. MaxSeries -> [Minutes -> Values]]
      /\ bucket \in [Minutes -> Buckets] /\ truth \in [Minutes -> Values]
  BY ConstantTypes DEF HistoryInv, HistoryTypeOK, SeriesRows, ExactInv, ExactTypeOK
<1>2. CASE series.exists
  <2>1. Opened(t) = series /\ series.id # 0
    BY <1>2 DEF Opened, HistoryInv, SeriesInv
  <2>2. series.id \in Instances
    BY <1>1, <2>1 DEF Instances
  <2>3. QED
    BY <1>2, <2>1, <2>2 DEF ExactInv
<1>3. CASE ~series.exists
  <2>1. PICK s : s = Opened(t)
    OBVIOUS
  <2>2. s.id = series.id + 1 /\ s.last = t
    BY <1>3, <2>1 DEF Opened
  <2>3. s.id \in Instances /\ series.id < s.id /\ s.id \in Int
    BY <1>1, <1>3, <2>2 DEF Instances
  <2>4. bucket = NoBuckets /\ flush.at = "idle" /\ running = 0
    BY <1>3 DEF HistoryInv, SeriesInv
  <2>5. \A m \in Minutes : ~bucket[m].exists /\ bucket[m].value = Unused
    BY <2>4, NoBucketsType DEF NoBucket
  <2>6. \A i \in Instances : i > s.id => i > series.id
    BY <1>1, <2>2, <2>3 DEF Instances
  <2>7. Stored(series, bucket)
    BY DEF ExactInv
  <2>8. InstanceOK(s.id) /\ \A m \in Minutes : saved[s.id][m] = Unused
    BY <2>3, <2>6, <2>7, <1>1 DEF Stored, InstanceOK
  <2>9. ReaderOK(s.id, bucket)
    BY <2>5, <2>7 DEF Stored, ReaderOK
  <2>10. AheadOK(s.id, bucket)
    <3> SUFFICES ASSUME NEW m \in Minutes PROVE Blank(s.id, bucket, m)
      BY DEF AheadOK
    <3>1. reader.at = "stored" => reader.rows[s.id][m] = Unused
      BY <2>3, <2>5, <2>8, <2>9 DEF ReaderOK
    <3>2. QED
      BY <2>4, <2>5, <2>8, <3>1 DEF Blank
  <2>11. TruthOK(s, bucket)
    <3> SUFFICES ASSUME NEW m \in Minutes, Recent(m)
                 PROVE  Accounted(RowsOf(s.id, bucket, saved, m), Ticks(m, s.last, tick), running, truth[m])
      BY DEF TruthOK
    <3>1. PICK r, v : r = RowsOf(series.id, bucket, saved, m) /\ v = truth[m]
      OBVIOUS
    <3>2. r \in AllRows /\ v \in Values
      BY <1>1, <3>1, RowsType
    <3>3. RowsOf(s.id, bucket, saved, m) = r
      BY <2>5, <3>1 DEF RowsOf
    <3>4. PICK n, k : n = Ticks(m, series.last, tick) /\ k = Ticks(m, s.last, tick) /\ n \in Nat /\ k \in Nat
      <4>1. series.last \in Int /\ s.last \in Int
        BY <1>1, <2>2 DEF SeriesRows
      <4>2. QED
        BY <1>1, <4>1, TicksType
    <3>5. Accounted(r, n, 0, v)
      BY <2>4, <2>7, <3>1, <3>4 DEF Stored, TruthOK
    <3>6. Accounted(r, k, 0, v)
      BY ONLY <3>2, <3>4, <3>5, AccountedIdle
    <3>7. QED
      BY <2>4, <3>1, <3>3, <3>4, <3>6, Zenon
  <2>12. s.last <= tick /\ EmptyOK(bucket) /\ OwnOK(s.id, bucket)
    BY <2>2, <2>5, <2>8 DEF EmptyOK, OwnOK
  <2>13. QED
    BY <2>1, <2>3, <2>8, <2>9, <2>10, <2>11, <2>12 DEF Known, Stored
<1>4. QED
  BY <1>2, <1>3

LEMMA AccountedNone ==
  ASSUME NEW rows, NEW run \in Nat, NEW now \in Nat, NEW v, Accounted(rows, 0, run, v)
  PROVE  Accounted(rows, 0, now, v)
<1>1. run * 0 = 0 /\ now * 0 = 0 /\ ~(0 > 0)
  OBVIOUS
<1>2. v.used = Used(rows) + now * 0
  BY <1>1 DEF Accounted
<1>3. QED
  BY <1>1, <1>2 DEF Accounted

LEMMA PatienceFacts == Patience \in Nat /\ Keep \in Nat /\ Window \in Nat /\ MaxTick \in Nat
BY HistoryAssumption

(* What lies ahead of the last use lies ahead of the clock.                *)
LEMMA QuietAhead ==
  ASSUME NEW t \in Int, NEW now \in Int, now <= t + Patience, NEW m \in Int, m > MinuteOf(t + Patience)
  PROVE  m > MinuteOf(now)
<1>1. PICK u : u \in Int /\ u = t + Patience /\ now <= u
  BY PatienceFacts
<1>2. MinuteOf(now) <= MinuteOf(u) /\ MinuteOf(now) \in Int /\ MinuteOf(u) \in Int
  BY <1>1, MinuteMonotone, MinuteFacts
<1>3. m > MinuteOf(u)
  BY <1>1
<1>4. QED
  BY ONLY <1>2, <1>3, m \in Int

-----------------------------------------------------------------------------
(* The steps of the reader's invariant                                     *)

LEMMA ExactChange ==
  ASSUME HistoryInv, ExactInv, NEW delta \in Int, running + delta \in Nat, changeHistory(delta),
         series.exists \/ series.id < MaxSeries
  PROVE  ExactInv'
<1>1. /\ tick \in Nat /\ tick \in Int /\ tick <= MaxTick /\ running \in Nat /\ series \in SeriesRows
      /\ saved \in [1 .. MaxSeries -> [Minutes -> Values]]
      /\ bucket \in [Minutes -> Buckets] /\ truth \in [Minutes -> Values] /\ ExactTypeOK
  BY DEF HistoryInv, HistoryTypeOK, ExactInv, ExactTypeOK
<1>2. PICK s : s = Opened(tick)
  OBVIOUS
<1>3. s \in SeriesRows /\ s.exists /\ s.last \in Int /\ s.id \in Instances /\ Known(s, bucket)
  <2>1. s \in SeriesRows /\ s.exists
    BY <1>1, <1>2, OpenedSeries
  <2>2. tick <= tick
    BY <1>1
  <2>3. s.id \in Instances /\ Known(s, bucket)
    BY <1>1, <1>2, <2>2, OpenedKnown
  <2>4. QED
    BY <2>1, <2>3 DEF SeriesRows
<1>4. s.last <= tick
  BY <1>3 DEF Known, Stored
<1>5. Max({tick, s.last}) = tick
  <2>1. Max({tick, s.last}) = IF tick >= s.last THEN tick ELSE s.last
    BY <1>1, <1>3, MaxIs
  <2>2. QED
    BY <1>1, <1>3, <1>4, <2>1
<1>6. PICK y : y = AdvancedSeries(s, tick)
  OBVIOUS
<1>7. PICK a : a = Advanced(s, bucket, tick)
  OBVIOUS
<1>8. Known(y, a)
  BY <1>1, <1>3, <1>6, <1>7, AdvancedKnown
<1>9. y \in SeriesRows /\ y.id = s.id /\ y.exists /\ y.last = tick
  <2>1. y \in SeriesRows /\ y.id = s.id /\ y.exists
    BY <1>1, <1>3, <1>6, AdvancedBuckets
  <2>2. y.last = IF s.last >= tick THEN s.last ELSE tick
    BY <1>1, <1>3, <1>6, AdvancedLast DEF SeriesRows
  <2>3. QED
    BY <1>1, <1>3, <1>4, <2>1, <2>2
<1>10. a \in [Minutes -> Buckets]
  BY <1>1, <1>3, <1>7, AdvancedBuckets
<1>11. PICK k : k \in Minutes /\ k = MinuteOf(tick) /\ k \in Int
  BY <1>1, CurrentMinute, ConstantTypes
<1>12. /\ running' = running + delta
       /\ series' = [y EXCEPT !.lastUsed = tick]
       /\ bucket' = [a EXCEPT ![k] = Changed(Plus(@.value, 0, running'))]
       /\ truth' = [truth EXCEPT ![k] = Plus(@, 0, running')]
       /\ tick' = tick /\ flush' = flush /\ saved' = saved /\ reader' = reader
  BY <1>2, <1>5, <1>6, <1>7, <1>11, Zenon DEF changeHistory
<1>13. running' \in Nat
  BY <1>12
<1>14. series'.id = y.id /\ series'.last = tick /\ series'.lastUsed = tick /\ y.id \in Instances
  BY <1>3, <1>9, <1>12 DEF SeriesRows
<1>15. PICK c, w : c = Plus(a[k].value, 0, running') /\ w = Plus(truth[k], 0, running')
  OBVIOUS
<1>16. a[k].value \in Values /\ truth[k] \in Values /\ 0 \in Nat
  BY <1>1, <1>10, <1>11 DEF Buckets
<1>17. c \in Values /\ w \in Values
  BY <1>13, <1>15, <1>16, PlusFacts
<1>18. bucket' = [a EXCEPT ![k] = Changed(c)] /\ truth' = [truth EXCEPT ![k] = w]
  BY <1>12, <1>15, Zenon
<1>19. /\ bucket'[k].exists /\ bucket'[k].value = c /\ truth'[k] = w
       /\ \A m \in Minutes : m # k => bucket'[m] = a[m] /\ truth'[m] = truth[m]
       /\ truth' \in [Minutes -> Values]
       /\ bucket' \in [Minutes -> Buckets]
  BY <1>1, <1>10, <1>11, <1>17, <1>18, ChangedFacts, ChangedType
<1>20. ExactTypeOK'
  BY <1>1, <1>12, <1>19 DEF ExactTypeOK
<1>21. /\ EmptyOK(a) /\ OwnOK(y.id, a) /\ TruthOK(y, a) /\ InstanceOK(y.id)
       /\ ReaderOK(y.id, a) /\ AheadOK(y.id, a)
  BY <1>8 DEF Known, Stored
<1>22. TruthOK(series, bucket)'
  <2> SUFFICES ASSUME NEW m \in Minutes, Recent(m)
               PROVE  Accounted(RowsOf(y.id, bucket', saved, m), Ticks(m, tick, tick), running', truth'[m])
    BY <1>12, <1>14 DEF TruthOK, Recent
  <2>1. m \in Int
    BY ConstantTypes
  <2>2. Ticks(m, tick, tick) = 0
    BY <1>1, <2>1, TicksNone
  <2>3. PICK r, q : r = RowsOf(y.id, a, saved, m) /\ q = RowsOf(y.id, bucket', saved, m)
    OBVIOUS
  <2>4. r \in AllRows /\ q \in AllRows
    BY <1>1, <1>10, <1>19, <2>3, RowsType
  <2>5. Accounted(r, 0, running, truth[m])
    BY <1>9, <1>21, <2>2, <2>3 DEF TruthOK
  <2>6. CASE m = k
    <3>1. PICK id : id \in Instances /\ id = y.id
      BY <1>14
    <3>2. r[id] = a[k].value
      BY <1>1, <1>10, <1>21, <2>3, <2>6, <3>1, OwnRow
    <3>3. q[id] = c /\ \A i \in Instances : i # id => q[i] = r[i]
      BY <1>19, <2>3, <2>6, <3>1 DEF RowsOf
    <3>4. PICK v, run, now : v = truth[k] /\ run = running /\ now = running'
      OBVIOUS
    <3>5. v \in Values /\ run \in Nat /\ now \in Nat
      BY <1>1, <1>13, <1>16, <3>4
    <3>6. Accounted(r, 0, run, v) /\ q[id] = Plus(r[id], 0, now)
      BY <1>15, <2>5, <2>6, <3>2, <3>3, <3>4, Zenon
    <3>7. Accounted(q, 0, now, Plus(v, 0, now))
      BY ONLY <2>4, <3>1, <3>3, <3>5, <3>6, AccountedPeak
    <3>8. QED
      BY <1>15, <1>19, <2>2, <2>3, <2>6, <3>4, <3>7, Zenon
  <2>7. CASE m # k
    <3>1. bucket'[m] = a[m] /\ truth'[m] = truth[m]
      BY <1>19, <2>7
    <3>2. q = r
      BY <2>3, <3>1 DEF RowsOf
    <3>3. PICK v : v = truth[m]
      OBVIOUS
    <3>4. Accounted(r, 0, running', v)
      BY <1>1, <1>13, <2>5, <3>3, AccountedNone
    <3>5. QED
      BY <2>2, <2>3, <3>1, <3>2, <3>3, <3>4, Zenon
  <2>8. QED
    BY <2>6, <2>7
<1>23. \A m \in Minutes : bucket'[m] = a[m] \/ (m = k /\ bucket'[m].exists)
  BY <1>19
<1>24. EmptyOK(bucket)' /\ OwnOK(series.id, bucket)' /\ InstanceOK(series.id)' /\ ReaderOK(series.id, bucket)'
  <2>1. EmptyOK(bucket)' /\ OwnOK(series.id, bucket)'
    BY <1>12, <1>14, <1>21, <1>23 DEF EmptyOK, OwnOK, Recent
  <2>2. InstanceOK(series.id)'
    BY <1>12, <1>14, <1>21 DEF InstanceOK
  <2>3. ReaderOK(series.id, bucket)'
    BY <1>12, <1>14, <1>21, <1>23 DEF ReaderOK
  <2>4. QED
    BY <2>1, <2>2, <2>3
<1>25. ASSUME NEW m \in Minutes, m > k PROVE Blank(series.id, bucket, m)'
  <2>1. bucket'[m] = a[m]
    BY <1>11, <1>23, <1>25, ConstantTypes
  <2>2. Blank(y.id, a, m)
    BY <1>11, <1>21, <1>25 DEF AheadOK
  <2>3. QED
    BY <1>12, <1>14, <2>1, <2>2 DEF Blank
<1>26. AheadOK(series.id, bucket)'
  BY <1>11, <1>12, <1>25 DEF AheadOK
<1>27. QuietOK(series, bucket)'
  <2> SUFFICES ASSUME NEW m \in Minutes, m > MinuteOf(tick + Patience)
               PROVE  Blank(series.id, bucket, m)'
    BY <1>12, <1>14 DEF QuietOK
  <2>1. m \in Int /\ tick <= tick + Patience
    BY <1>1, ConstantTypes, PatienceFacts
  <2>2. m > MinuteOf(tick)
    BY <1>1, <2>1, QuietAhead
  <2>3. QED
    BY <1>11, <1>25, <2>2
<1>28. series'.last <= tick'
  BY <1>1, <1>12, <1>14
<1>29. QED
  BY <1>20, <1>22, <1>24, <1>26, <1>27, <1>28 DEF ExactInv, Known, Stored

(* The reader brings the series up to its own time.                        *)
LEMMA ExactLive ==
  ASSUME HistoryInv, ExactInv, liveHistory
  PROVE  ExactInv'
<1>1. /\ tick \in Int /\ running \in Nat /\ series \in SeriesRows
      /\ bucket \in [Minutes -> Buckets] /\ ExactTypeOK
  BY DEF HistoryInv, HistoryTypeOK, ExactInv
<1>2. PICK t : t \in Int /\ t = reader.now
  BY DEF HistoryInv, HistoryTypeOK
<1>3. t <= tick /\ tick - t <= Patience /\ (series.exists \/ series.id < MaxSeries)
  BY <1>1, <1>2 DEF liveHistory, ExactTypeOK
<1>4. PICK s : s = Opened(t)
  OBVIOUS
<1>5. s \in SeriesRows /\ s.exists /\ s.id \in Instances /\ Known(s, bucket)
  <2>1. s \in SeriesRows /\ s.exists
    BY <1>1, <1>2, <1>3, <1>4, OpenedSeries
  <2>2. s.id \in Instances /\ Known(s, bucket)
    BY <1>2, <1>3, <1>4, OpenedKnown
  <2>3. QED
    BY <2>1, <2>2
<1>6. PICK y, a : y = AdvancedSeries(s, t) /\ a = Advanced(s, bucket, t)
  OBVIOUS
<1>7. Known(y, a)
  BY <1>1, <1>2, <1>3, <1>5, <1>6, AdvancedKnown
<1>8. y \in SeriesRows
  BY <1>1, <1>2, <1>5, <1>6, AdvancedBuckets
<1>9. /\ series' = [y EXCEPT !.lastUsed = t] /\ bucket' = a /\ reader' = NoReader
      /\ tick' = tick /\ running' = running /\ flush' = flush /\ saved' = saved /\ truth' = truth
  BY <1>2, <1>4, <1>6, Zenon DEF liveHistory
<1>10. series'.id = y.id /\ series'.last = y.last /\ series'.lastUsed = t
  BY <1>8, <1>9 DEF SeriesRows
<1>11. reader'.at = "idle"
  BY <1>9 DEF NoReader
<1>12. ExactTypeOK'
  BY <1>1, <1>9, <1>11 DEF ExactTypeOK
<1>13. Stored(series, bucket)'
  BY <1>7, <1>9, <1>10, <1>11 DEF Known, Stored, TruthOK, InstanceOK, EmptyOK, ReaderOK, Recent
<1>14. OwnOK(series.id, bucket)'
  BY <1>7, <1>9, <1>10 DEF Known, OwnOK, Recent
<1>15. ASSUME NEW m \in Minutes, m > MinuteOf(tick) PROVE Blank(series.id, bucket, m)'
  BY <1>7, <1>9, <1>10, <1>11, <1>15 DEF Known, AheadOK, Blank
<1>16. AheadOK(series.id, bucket)'
  BY <1>9, <1>15 DEF AheadOK
<1>17. QuietOK(series, bucket)'
  <2> SUFFICES ASSUME NEW m \in Minutes, m > MinuteOf(t + Patience)
               PROVE  Blank(series.id, bucket, m)'
    BY <1>9, <1>10 DEF QuietOK
  <2>1. m \in Int /\ tick <= t + Patience
    BY <1>1, <1>2, <1>3, ConstantTypes, PatienceFacts
  <2>2. m > MinuteOf(tick)
    BY <1>1, <1>2, <2>1, QuietAhead
  <2>3. QED
    BY <1>15, <2>2
<1>18. QED
  BY <1>12, <1>13, <1>14, <1>16, <1>17 DEF ExactInv, Known

(* The minutes that are shown have not been dropped.                       *)
LEMMA ShownRecent ==
  ASSUME HistoryInv, ExactTypeOK, reader.at = "stored", NEW m, m \in Minutes, Shown(m, reader.now)
  PROVE  Recent(m)
<1>1. PICK t : t \in Int /\ t = reader.now
  BY DEF HistoryInv, HistoryTypeOK
<1>2. PICK n : n \in Int /\ n = tick /\ n - t <= Patience
  BY <1>1 DEF HistoryInv, HistoryTypeOK, ExactTypeOK
<1>3. PICK k : k \in Int /\ k = MinuteOf(t) /\ t < Start(k) + Minute /\ Start(k) \in Int
  BY <1>1, MinuteFacts, StartFacts
<1>4. m \in Int /\ m >= k - Window /\ k - Window \in Int
  BY <1>1, <1>3, ConstantTypes, PatienceFacts DEF Shown
<1>5. PICK w : w \in Int /\ w = Window * Minute
  BY HistoryAssumption
<1>6. Start(k - Window) = Start(k) - w
  <2>1. (k - Window) * Minute = k * Minute - Window * Minute
    BY <1>3, PatienceFacts, ConstantTypes
  <2>2. QED
    BY <1>5, <2>1 DEF Start
<1>7. Start(k - Window) <= Start(m) /\ Start(m) \in Int /\ Start(k - Window) \in Int
  BY <1>4, StartFacts
<1>8. w + 2 * Patience + Minute - 1 <= Keep /\ Minute \in Nat /\ Patience \in Nat /\ Keep \in Nat
  BY <1>5, HistoryAssumption
<1>9. Cutoff(n) <= n - Keep /\ Cutoff(n) \in Int
  BY <1>2, CutoffFacts
<1>10. PICK a, b, c : a = Start(k) /\ b = Start(m) /\ c = Cutoff(n)
  OBVIOUS
<1>11. a \in Int /\ b \in Int /\ c \in Int /\ a - w <= b /\ t < a + Minute /\ c <= n - Keep
  BY <1>3, <1>6, <1>7, <1>9, <1>10, Zenon
<1>12. b >= c
  BY ONLY <1>1, <1>2, <1>5, <1>8, <1>11
<1>13. QED
  BY <1>2, <1>10, <1>12 DEF Recent

(* The copy drops only minutes that nobody is shown.                       *)
LEMMA ExactPending ==
  ASSUME HistoryInv, ExactInv, pendingMinutes
  PROVE  ExactInv'
<1>1. /\ tick \in Int /\ tick <= tick /\ running \in Nat /\ series \in SeriesRows /\ series.exists /\ series.id # 0
      /\ bucket \in [Minutes -> Buckets] /\ flush.at = "idle" /\ ExactTypeOK
  BY DEF HistoryInv, HistoryTypeOK, SeriesInv, ExactInv, pendingMinutes
<1>2. series.id \in Instances
  BY <1>1, ConstantTypes DEF SeriesRows, Instances
<1>3. PICK kept : kept = [m \in Minutes |-> IF m * Minute < Cutoff(tick) THEN NoBucket ELSE bucket[m]]
  OBVIOUS
<1>4. /\ kept \in [Minutes -> Buckets]
      /\ \A m \in Minutes : kept[m] = bucket[m] \/ (kept[m] = NoBucket /\ ~Recent(m))
  <2>1. \A m \in Minutes : Start(m) \in Int /\ Cutoff(tick) \in Int
    BY <1>1, ConstantTypes, StartFacts
  <2>2. QED
    BY <1>1, <1>3, <2>1, NoBucketType DEF Recent, Start
<1>5. Known(series, bucket) /\ QuietOK(series, bucket)
  BY <1>1 DEF ExactInv
<1>6. NoBucket.value = Unused /\ ~NoBucket.exists
  BY DEF NoBucket
<1>7. ASSUME NEW m \in Minutes, Blank(series.id, bucket, m) PROVE Blank(series.id, kept, m)
  BY <1>4, <1>6, <1>7 DEF Blank
<1>8. Known(series, kept)
  <2>1. TruthOK(series, kept)
    <3> SUFFICES ASSUME NEW m \in Minutes, Recent(m)
                 PROVE  Accounted(RowsOf(series.id, kept, saved, m), Ticks(m, series.last, tick), running, truth[m])
      BY DEF TruthOK
    <3>1. RowsOf(series.id, kept, saved, m) = RowsOf(series.id, bucket, saved, m)
      BY <1>4 DEF RowsOf
    <3>2. Accounted(RowsOf(series.id, bucket, saved, m), Ticks(m, series.last, tick), running, truth[m])
      BY <1>5 DEF Known, Stored, TruthOK
    <3>3. QED
      BY <3>1, <3>2, Zenon
  <2>2. EmptyOK(kept) /\ OwnOK(series.id, kept)
    BY <1>4, <1>5, <1>6 DEF Known, Stored, EmptyOK, OwnOK
  <2>3. ReaderOK(series.id, kept)
    <3> SUFFICES ASSUME reader.at = "stored", NEW i \in Instances, NEW m \in Minutes
                 PROVE  IF Shown(m, reader.now) THEN reader.rows[i][m] = saved[i][m] \/ (i = series.id /\ kept[m].exists)
                        ELSE reader.rows[i][m] = Unused
      BY DEF ReaderOK
    <3>1. IF Shown(m, reader.now) THEN reader.rows[i][m] = saved[i][m] \/ (i = series.id /\ bucket[m].exists)
          ELSE reader.rows[i][m] = Unused
      BY <1>5 DEF Known, Stored, ReaderOK
    <3>2. Shown(m, reader.now) => kept[m] = bucket[m]
      BY <1>1, <1>4, ShownRecent
    <3>3. QED
      BY <3>1, <3>2
  <2>4. AheadOK(series.id, kept)
    BY <1>5, <1>7 DEF Known, AheadOK
  <2>5. QED
    BY <1>5, <2>1, <2>2, <2>3, <2>4 DEF Known, Stored
<1>9. PICK y, a : y = AdvancedSeries(series, tick) /\ a = Advanced(series, kept, tick)
  OBVIOUS
<1>10. Known(y, a)
  BY <1>1, <1>2, <1>4, <1>8, <1>9, AdvancedKnown
<1>11. y.id = series.id /\ y.lastUsed = series.lastUsed
  BY <1>1, <1>9, AdvancedLast DEF SeriesRows
<1>12. a \in [Minutes -> Buckets]
  BY <1>1, <1>4, <1>9, AdvancedBuckets
<1>13. PICK pending : pending = {m \in Minutes : a[m].dirty}
  OBVIOUS
<1>14. /\ series' = y
       /\ bucket' = [m \in Minutes |-> [a[m] EXCEPT !.copied = a[m].dirty]]
       /\ flush' = IF pending = {} THEN flush
                   ELSE [at |-> "saving", id |-> series.id, pending |-> [m \in pending |-> a[m].value]]
       /\ tick' = tick /\ running' = running /\ saved' = saved /\ reader' = reader /\ truth' = truth
  BY <1>3, <1>9, <1>13, Zenon DEF pendingMinutes
<1>15. \A m \in Minutes : bucket'[m].exists = a[m].exists /\ bucket'[m].value = a[m].value
  BY <1>12, <1>14 DEF Buckets
<1>16. flush'.at = "saving" => \A m \in DOMAIN flush'.pending : flush'.pending[m] = a[m].value
  BY <1>1, <1>14
<1>17. ExactTypeOK'
  BY <1>1, <1>14 DEF ExactTypeOK
<1>18. TruthOK(series, bucket)'
  <2> SUFFICES ASSUME NEW m \in Minutes, Recent(m)
               PROVE  Accounted(RowsOf(y.id, bucket', saved, m), Ticks(m, y.last, tick), running, truth[m])
    BY <1>14 DEF TruthOK, Recent
  <2>1. RowsOf(y.id, bucket', saved, m) = RowsOf(y.id, a, saved, m)
    BY <1>15 DEF RowsOf
  <2>2. Accounted(RowsOf(y.id, a, saved, m), Ticks(m, y.last, tick), running, truth[m])
    BY <1>10 DEF Known, Stored, TruthOK
  <2>3. QED
    BY <2>1, <2>2, Zenon
<1>19. Stored(series, bucket)'
  <2>1. series'.last <= tick' /\ InstanceOK(series.id)'
    BY <1>10, <1>14 DEF Known, Stored, InstanceOK
  <2>2. EmptyOK(bucket)' /\ ReaderOK(series.id, bucket)'
    BY <1>10, <1>14, <1>15 DEF Known, Stored, EmptyOK, ReaderOK
  <2>3. QED
    BY <1>18, <2>1, <2>2 DEF Stored
<1>20. OwnOK(series.id, bucket)'
  BY <1>10, <1>14, <1>15 DEF Known, OwnOK, Recent
<1>21. ASSUME NEW m \in Minutes, Blank(y.id, a, m) PROVE Blank(series.id, bucket, m)'
  <2>1. bucket'[m].value = Unused
    BY <1>15, <1>21 DEF Blank
  <2>2. flush'.at = "saving" /\ m \in DOMAIN flush'.pending => flush'.pending[m] = Unused
    BY <1>16, <1>21 DEF Blank
  <2>3. QED
    BY <1>14, <1>21, <2>1, <2>2 DEF Blank
<1>22. AheadOK(series.id, bucket)'
  BY <1>10, <1>14, <1>21 DEF Known, AheadOK
<1>23. QuietOK(series, bucket)'
  <2> SUFFICES ASSUME running = 0, NEW m \in Minutes, m > MinuteOf(series.lastUsed + Patience)
               PROVE  Blank(series.id, bucket, m)'
    BY <1>11, <1>14 DEF QuietOK
  <2>1. Blank(series.id, kept, m)
    BY <1>5, <1>7 DEF QuietOK
  <2>2. EmptyOK(kept) /\ kept[m].value = Unused
    BY <1>8, <2>1 DEF Known, Stored, Blank
  <2>3. a[m].value = Unused
    BY <1>1, <1>4, <1>9, <2>2, AdvancedValue
  <2>4. Blank(y.id, a, m)
    BY <1>11, <2>1, <2>3 DEF Blank
  <2>5. QED
    BY <1>21, <2>4
<1>24. QED
  BY <1>17, <1>19, <1>20, <1>22, <1>23 DEF ExactInv, Known

(* The save stores what the series has anyway.                             *)
LEMMA ExactSave ==
  ASSUME HistoryInv, ExactInv, NEW committed \in BOOLEAN, NEW answered \in BOOLEAN,
         SaveConcurrencyMinutes(committed, answered)
  PROVE  ExactInv'
<1>1. /\ series \in SeriesRows /\ bucket \in [Minutes -> Buckets]
      /\ saved \in [1 .. MaxSeries -> [Minutes -> Values]] /\ ExactTypeOK
  BY DEF HistoryInv, HistoryTypeOK, ExactInv
<1>2. /\ flush.at = "saving"
      /\ tick' = tick /\ running' = running /\ series' = series /\ reader' = reader /\ truth' = truth
  BY DEF SaveConcurrencyMinutes
<1>3. PICK id : id \in Instances /\ id = series.id /\ id = flush.id /\ series.exists
  <2>1. flush.id = series.id /\ series.exists /\ series.id # 0
    BY <1>2 DEF HistoryInv, SeriesInv
  <2>2. series.id \in Instances
    BY <1>1, <2>1, ConstantTypes DEF SeriesRows, Instances
  <2>3. QED
    BY <2>1, <2>2
<1>4. Known(series, bucket) /\ QuietOK(series, bucket)
  BY <1>3 DEF ExactInv
<1>5. ASSUME NEW m \in Minutes, m \in DOMAIN flush.pending PROVE bucket[m].exists
  BY <1>2, <1>5 DEF HistoryInv, MinutesInv, MinuteOK
<1>6. PICK row : row = [m \in Minutes |-> IF m \in DOMAIN flush.pending THEN flush.pending[m] ELSE saved[id][m]]
  OBVIOUS
<1>7. saved' = IF committed THEN [saved EXCEPT ![id] = row] ELSE saved
  BY <1>1, <1>3, <1>6 DEF SaveConcurrencyMinutes, Instances
<1>8. /\ \A i \in Instances : i # id => saved'[i] = saved[i]
      /\ \A m \in Minutes : saved'[id][m] = saved[id][m]
                            \/ (m \in DOMAIN flush.pending /\ saved'[id][m] = flush.pending[m])
  BY <1>1, <1>3, <1>6, <1>7 DEF Instances
<1>9. \A m \in Minutes : bucket'[m].exists = bucket[m].exists /\ bucket'[m].value = bucket[m].value
  <2>1. bucket' = bucket \/ bucket' = [m \in Minutes |-> [bucket[m] EXCEPT !.copied = FALSE]]
    BY DEF SaveConcurrencyMinutes
  <2>2. QED
    BY <1>1, <2>1 DEF Buckets
<1>10. flush'.at # "saving"
  <2>1. CASE answered
    <3>1. PICK p : p = [m \in DOMAIN flush.pending |-> Unused]
      OBVIOUS
    <3>2. flush' = [flush EXCEPT !.at = "acknowledging", !.pending = [m \in DOMAIN @ |-> Unused]]
      BY <2>1 DEF SaveConcurrencyMinutes
    <3>3. flush' = [flush EXCEPT !.at = "acknowledging", !.pending = p]
      BY <3>1, <3>2, Zenon
    <3>4. flush = [at |-> flush.at, id |-> flush.id, pending |-> flush.pending]
      BY DEF HistoryInv, HistoryTypeOK
    <3>5. QED
      BY <3>3, <3>4
  <2>2. CASE ~answered
    BY <2>2 DEF SaveConcurrencyMinutes, NoFlush
  <2>3. QED
    BY <2>1, <2>2
<1>11. ExactTypeOK'
  BY <1>1, <1>2 DEF ExactTypeOK
<1>12. TruthOK(series, bucket)'
  <2> SUFFICES ASSUME NEW m \in Minutes, Recent(m)
               PROVE  Accounted(RowsOf(id, bucket', saved', m), Ticks(m, series.last, tick), running, truth[m])
    BY <1>2, <1>3 DEF TruthOK, Recent
  <2>1. RowsOf(id, bucket', saved', m) = RowsOf(id, bucket, saved, m)
    <3>1. ASSUME NEW i \in Instances
          PROVE  (IF i = id /\ bucket'[m].exists THEN bucket'[m].value ELSE saved'[i][m])
                   = IF i = id /\ bucket[m].exists THEN bucket[m].value ELSE saved[i][m]
      <4>1. CASE i # id
        BY <1>8, <4>1
      <4>2. CASE i = id
        BY <1>5, <1>8, <1>9, <4>2
      <4>3. QED
        BY <4>1, <4>2
    <3>2. QED
      BY <3>1 DEF RowsOf
  <2>2. Accounted(RowsOf(id, bucket, saved, m), Ticks(m, series.last, tick), running, truth[m])
    BY <1>3, <1>4 DEF Known, Stored, TruthOK
  <2>3. QED
    BY <2>1, <2>2, Zenon
<1>13. InstanceOK(series.id)'
  <2>1. \A i \in Instances : i > id => i # id
    BY <1>3, ConstantTypes DEF Instances
  <2>2. QED
    BY <1>2, <1>3, <1>4, <1>8, <2>1 DEF Known, Stored, InstanceOK
<1>14. EmptyOK(bucket)' /\ series'.last <= tick'
  BY <1>2, <1>4, <1>9 DEF Known, Stored, EmptyOK
<1>15. ReaderOK(series.id, bucket)'
  <2> SUFFICES ASSUME reader.at = "stored", NEW i \in Instances, NEW m \in Minutes
               PROVE  IF Shown(m, reader.now) THEN reader.rows[i][m] = saved'[i][m] \/ (i = id /\ bucket'[m].exists)
                      ELSE reader.rows[i][m] = Unused
    BY <1>2, <1>3 DEF ReaderOK
  <2>1. IF Shown(m, reader.now) THEN reader.rows[i][m] = saved[i][m] \/ (i = id /\ bucket[m].exists)
        ELSE reader.rows[i][m] = Unused
    BY <1>3, <1>4 DEF Known, Stored, ReaderOK
  <2>2. saved'[i][m] = saved[i][m] \/ (i = id /\ bucket'[m].exists)
    BY <1>5, <1>8, <1>9
  <2>3. QED
    BY <1>9, <2>1, <2>2
<1>16. OwnOK(series.id, bucket)'
  <2> SUFFICES ASSUME NEW m \in Minutes, Recent(m), ~bucket'[m].exists PROVE saved'[id][m] = Unused
    BY <1>2, <1>3 DEF OwnOK, Recent
  <2>1. saved[id][m] = Unused
    BY <1>3, <1>4, <1>9 DEF Known, OwnOK
  <2>2. QED
    BY <1>5, <1>8, <1>9, <2>1
<1>17. ASSUME NEW m \in Minutes, Blank(series.id, bucket, m) PROVE Blank(series.id, bucket, m)'
  <2>1. saved'[id][m] = Unused
    BY <1>2, <1>3, <1>8, <1>17 DEF Blank
  <2>2. QED
    BY <1>2, <1>3, <1>9, <1>10, <1>17, <2>1 DEF Blank
<1>18. AheadOK(series.id, bucket)' /\ QuietOK(series, bucket)'
  BY <1>2, <1>4, <1>17 DEF Known, AheadOK, QuietOK
<1>19. QED
  BY <1>11, <1>12, <1>13, <1>14, <1>15, <1>16, <1>18 DEF ExactInv, Known, Stored

(* A series that is forgotten has been idle for all that is shown.         *)
LEMMA ShownQuiet ==
  ASSUME HistoryInv, ExactTypeOK, reader.at = "stored", NEW m, m \in Minutes, Shown(m, reader.now),
         NEW l, l \in Int, l <= tick, NEW z, z \in Int, l - z > Keep
  PROVE  m > MinuteOf(z + Patience)
<1>1. PICK t : t \in Int /\ t = reader.now
  BY DEF HistoryInv, HistoryTypeOK
<1>2. PICK n : n \in Int /\ n = tick /\ n - t <= Patience /\ l <= n
  BY <1>1 DEF HistoryInv, HistoryTypeOK, ExactTypeOK
<1>3. PICK k : k \in Int /\ k = MinuteOf(t) /\ t < Start(k) + Minute /\ Start(k) \in Int
  BY <1>1, MinuteFacts, StartFacts
<1>4. m \in Int /\ m >= k - Window /\ k - Window \in Int
  BY <1>1, <1>3, ConstantTypes, PatienceFacts DEF Shown
<1>5. PICK w : w \in Int /\ w = Window * Minute
  BY HistoryAssumption
<1>6. Start(k - Window) = Start(k) - w
  <2>1. (k - Window) * Minute = k * Minute - Window * Minute
    BY <1>3, PatienceFacts, ConstantTypes
  <2>2. QED
    BY <1>5, <2>1 DEF Start
<1>7. Start(k - Window) <= Start(m) /\ Start(m) \in Int /\ Start(k - Window) \in Int
  BY <1>4, StartFacts
<1>8. w + 2 * Patience + Minute - 1 <= Keep /\ Minute \in Nat /\ Patience \in Nat /\ Keep \in Nat
  BY <1>5, HistoryAssumption
<1>9. PICK u : u \in Int /\ u = z + Patience
  BY <1>8
<1>10. PICK j : j \in Int /\ j = MinuteOf(u) /\ Start(j) <= u /\ Start(j) \in Int
  BY <1>9, MinuteFacts, StartFacts
<1>11. PICK a, b, c : a = Start(k) /\ b = Start(m) /\ c = Start(j)
  OBVIOUS
<1>12. a \in Int /\ b \in Int /\ c \in Int /\ a - w <= b /\ t < a + Minute /\ c <= u
  BY <1>3, <1>6, <1>7, <1>10, <1>11, Zenon
<1>13. c < b
  BY ONLY <1>1, <1>2, <1>5, <1>8, <1>9, <1>12, l \in Int, z \in Int, l - z > Keep
<1>14. ~(m <= j)
  BY <1>4, <1>10, <1>11, <1>12, <1>13, StartFacts
<1>15. QED
  BY <1>4, <1>9, <1>10, <1>14

(* The series is forgotten: what it had is stored.                         *)
LEMMA ExactForgotten ==
  ASSUME HistoryInv, ExactInv, running = 0, series.exists, series.last - series.lastUsed > Keep,
         \A m \in Minutes : bucket[m].exists => saved[series.id][m] = bucket[m].value,
         series' = NoSeries(series.id), bucket' = NoBuckets,
         UNCHANGED <<tick, running, saved, reader, truth>>
  PROVE  ExactInv'
<1>1. /\ tick \in Nat /\ tick \in Int /\ series \in SeriesRows /\ bucket \in [Minutes -> Buckets]
      /\ saved \in [1 .. MaxSeries -> [Minutes -> Values]] /\ truth \in [Minutes -> Values] /\ ExactTypeOK
  BY DEF HistoryInv, HistoryTypeOK, ExactInv, ExactTypeOK
<1>2. series.last \in Int /\ series.lastUsed \in Int /\ Known(series, bucket) /\ QuietOK(series, bucket)
  BY <1>1 DEF SeriesRows, ExactInv
<1>3. ~series'.exists /\ series'.id = series.id /\ series'.last = 0
  BY DEF NoSeries
<1>4. \A m \in Minutes : ~bucket'[m].exists /\ bucket'[m].value = Unused
  BY NoBucketsType DEF NoBucket
<1>5. ExactTypeOK'
  BY <1>1 DEF ExactTypeOK
<1>6. TruthOK(series, bucket)'
  <2> SUFFICES ASSUME NEW m \in Minutes, Recent(m)
               PROVE  Accounted(RowsOf(series.id, bucket', saved, m), Ticks(m, 0, tick), 0, truth[m])
    BY <1>3 DEF TruthOK, Recent
  <2>1. PICK r, v : r = RowsOf(series.id, bucket, saved, m) /\ v = truth[m]
    OBVIOUS
  <2>2. r \in AllRows /\ v \in Values
    BY <1>1, <2>1, RowsType
  <2>3. RowsOf(series.id, bucket', saved, m) = r
    BY <1>4, <2>1 DEF RowsOf
  <2>4. PICK n, k : n = Ticks(m, series.last, tick) /\ k = Ticks(m, 0, tick) /\ n \in Nat /\ k \in Nat
    BY <1>1, <1>2, TicksType
  <2>5. Accounted(r, n, 0, v)
    BY <1>2, <2>1, <2>4 DEF Known, Stored, TruthOK
  <2>6. Accounted(r, k, 0, v)
    BY ONLY <2>2, <2>4, <2>5, AccountedIdle
  <2>7. QED
    BY <2>1, <2>3, <2>4, <2>6, Zenon
<1>7. InstanceOK(series.id)' /\ EmptyOK(bucket)' /\ series'.last <= tick'
  BY <1>1, <1>2, <1>3, <1>4 DEF Known, Stored, InstanceOK, EmptyOK
<1>8. ReaderOK(series.id, bucket)'
  <2> SUFFICES ASSUME reader.at = "stored", NEW i \in Instances, NEW m \in Minutes
               PROVE  IF Shown(m, reader.now) THEN reader.rows[i][m] = saved[i][m]
                      ELSE reader.rows[i][m] = Unused
    BY DEF ReaderOK
  <2>1. IF Shown(m, reader.now) THEN reader.rows[i][m] = saved[i][m] \/ (i = series.id /\ bucket[m].exists)
        ELSE reader.rows[i][m] = Unused
    BY <1>2 DEF Known, Stored, ReaderOK
  <2>2. CASE Shown(m, reader.now) /\ i = series.id
    <3>1. series.last <= tick
      BY <1>2 DEF Known, Stored
    <3>2. m > MinuteOf(series.lastUsed + Patience)
      BY <1>1, <1>2, <2>2, <3>1, ShownQuiet
    <3>3. Blank(series.id, bucket, m)
      BY <1>2, <3>2 DEF QuietOK
    <3>4. QED
      BY <2>2, <3>3 DEF Blank
  <2>3. QED
    BY <2>1, <2>2
<1>9. QED
  BY <1>3, <1>5, <1>6, <1>7, <1>8 DEF ExactInv, Stored

LEMMA ExactAcknowledge ==
  ASSUME HistoryInv, ExactInv, acknowledgeMinutes
  PROVE  ExactInv'
<1>1. /\ series \in SeriesRows /\ bucket \in [Minutes -> Buckets] /\ ExactTypeOK
      /\ flush.at = "acknowledging" /\ flush' = NoFlush
      /\ tick' = tick /\ running' = running /\ saved' = saved /\ reader' = reader /\ truth' = truth
  BY DEF HistoryInv, HistoryTypeOK, ExactInv, acknowledgeMinutes
<1>2. PICK own : own = (series.exists /\ series.id = flush.id)
  OBVIOUS
<1>3. PICK matched : matched = {m \in DOMAIN flush.pending : own /\ bucket[m].exists}
  OBVIOUS
<1>4. PICK buckets : buckets = [m \in Minutes |-> IF m \in matched THEN Acknowledged(bucket[m]) ELSE bucket[m]]
  OBVIOUS
<1>5. \/ /\ series' = NoSeries(series.id) /\ bucket' = NoBuckets /\ running = 0
         /\ series.last - series.lastUsed > Keep /\ \A m \in Minutes : ~buckets[m].dirty
      \/ series' = series /\ bucket' = buckets
  BY <1>2, <1>3, <1>4, Zenon DEF acknowledgeMinutes
<1>6. series.exists
  BY <1>1 DEF HistoryInv, SeriesInv
<1>7. ASSUME NEW m \in Minutes
      PROVE  /\ buckets[m].exists = bucket[m].exists /\ buckets[m].value = bucket[m].value
             /\ buckets[m].dirty = (bucket[m].dirty /\ ~(m \in matched /\ bucket[m].copied))
  <2>1. bucket[m] \in Buckets /\ buckets[m] = IF m \in matched THEN Acknowledged(bucket[m]) ELSE bucket[m]
    BY <1>1, <1>4
  <2>2. /\ Acknowledged(bucket[m]).exists = bucket[m].exists
        /\ Acknowledged(bucket[m]).dirty = (bucket[m].dirty /\ ~bucket[m].copied)
        /\ Acknowledged(bucket[m]).value = bucket[m].value
    BY <2>1 DEF Acknowledged, Buckets
  <2>3. QED
    BY <2>1, <2>2 DEF Buckets
<1>8. CASE /\ series' = NoSeries(series.id) /\ bucket' = NoBuckets /\ running = 0
           /\ series.last - series.lastUsed > Keep /\ \A m \in Minutes : ~buckets[m].dirty
  <2>1. ASSUME NEW m \in Minutes, bucket[m].exists PROVE saved[series.id][m] = bucket[m].value
    <3>1. MinuteOK(m) /\ (bucket[m].dirty => bucket[m].copied)
      BY <1>7, <1>8 DEF HistoryInv, MinutesInv
    <3>2. QED
      BY <1>1, <2>1, <3>1 DEF MinuteOK
  <2>2. QED
    BY <1>1, <1>6, <1>8, <2>1, ExactForgotten
<1>9. CASE series' = series /\ bucket' = buckets
  <2>1. \A m \in Minutes : bucket'[m].exists = bucket[m].exists /\ bucket'[m].value = bucket[m].value
    BY <1>7, <1>9
  <2>2. flush'.at # "saving"
    BY <1>1, NoFlushFacts
  <2>3. Known(series, bucket) /\ QuietOK(series, bucket)
    BY <1>6 DEF ExactInv
  <2>4. TruthOK(series, bucket)'
    <3> SUFFICES ASSUME NEW m \in Minutes, Recent(m)
                 PROVE  Accounted(RowsOf(series.id, bucket', saved, m), Ticks(m, series.last, tick), running, truth[m])
      BY <1>1, <1>9 DEF TruthOK, Recent
    <3>1. RowsOf(series.id, bucket', saved, m) = RowsOf(series.id, bucket, saved, m)
      BY <2>1 DEF RowsOf
    <3>2. Accounted(RowsOf(series.id, bucket, saved, m), Ticks(m, series.last, tick), running, truth[m])
      BY <2>3 DEF Known, Stored, TruthOK
    <3>3. QED
      BY <3>1, <3>2, Zenon
  <2>5. ExactTypeOK' /\ InstanceOK(series.id)' /\ EmptyOK(bucket)' /\ series'.last <= tick'
    BY <1>1, <1>9, <2>1, <2>3 DEF Known, Stored, InstanceOK, EmptyOK, ExactTypeOK
  <2>6. ReaderOK(series.id, bucket)'
    BY <1>1, <1>9, <2>1, <2>3 DEF Known, Stored, ReaderOK
  <2>7. OwnOK(series.id, bucket)'
    BY <1>1, <1>9, <2>1, <2>3 DEF Known, OwnOK, Recent
  <2>8. AheadOK(series.id, bucket)' /\ QuietOK(series, bucket)'
    <3>1. ASSUME NEW m \in Minutes, Blank(series.id, bucket, m) PROVE Blank(series.id, bucket, m)'
      BY <1>1, <1>9, <2>1, <2>2, <3>1 DEF Blank
    <3>2. QED
      BY <1>1, <1>9, <2>3, <3>1 DEF Known, AheadOK, QuietOK
  <2>9. QED
    BY <2>4, <2>5, <2>6, <2>7, <2>8 DEF ExactInv, Known, Stored
<1>10. QED
  BY <1>5, <1>8, <1>9

LEMMA ExactRead ==
  ASSUME HistoryInv, ExactInv, ReadStored
  PROVE  ExactInv'
<1>1. /\ tick \in Int /\ series \in SeriesRows /\ saved \in [1 .. MaxSeries -> [Minutes -> Values]]
      /\ ExactTypeOK /\ Stored(series, bucket)
  BY DEF HistoryInv, HistoryTypeOK, ExactInv
<1>2. /\ tick' = tick /\ running' = running /\ series' = series /\ bucket' = bucket /\ flush' = flush
      /\ saved' = saved /\ truth' = truth
  BY DEF ReadStored
<1>3. /\ reader'.at = "stored" /\ reader'.now = tick
      /\ reader'.rows = [i \in 1 .. MaxSeries |-> [m \in Minutes |-> IF Shown(m, tick) THEN saved[i][m] ELSE Unused]]
  BY DEF ReadStored
<1>4. /\ reader'.rows \in [Instances -> [Minutes -> Values]]
      /\ \A i \in Instances, m \in Minutes : reader'.rows[i][m] = IF Shown(m, tick) THEN saved[i][m] ELSE Unused
  BY <1>1, <1>3, NoBucketType DEF Instances
<1>5. tick - tick <= Patience /\ tick <= tick
  BY <1>1, PatienceFacts
<1>6. ExactTypeOK'
  BY <1>1, <1>2, <1>3, <1>4, <1>5 DEF ExactTypeOK
<1>7. ReaderOK(series.id, bucket)'
  BY <1>2, <1>3, <1>4 DEF ReaderOK
<1>8. Stored(series, bucket)'
  BY <1>1, <1>2, <1>7 DEF Stored, TruthOK, InstanceOK, EmptyOK, Recent
<1>9. CASE ~series.exists
  BY <1>2, <1>6, <1>8, <1>9 DEF ExactInv
<1>10. CASE series.exists
  <2>1. series.id \in Instances
    <3>1. series.id # 0
      BY <1>10 DEF HistoryInv, SeriesInv
    <3>2. QED
      BY <1>1, <3>1, ConstantTypes DEF SeriesRows, Instances
  <2>2. Known(series, bucket) /\ QuietOK(series, bucket)
    BY <1>10 DEF ExactInv
  <2>3. ASSUME NEW m \in Minutes, Blank(series.id, bucket, m) PROVE Blank(series.id, bucket, m)'
    <3>1. reader'.rows[series.id][m] = Unused
      BY <1>4, <2>1, <2>3 DEF Blank
    <3>2. QED
      BY <1>2, <2>3, <3>1 DEF Blank
  <2>4. OwnOK(series.id, bucket)' /\ AheadOK(series.id, bucket)' /\ QuietOK(series, bucket)'
    BY <1>2, <2>2, <2>3 DEF Known, OwnOK, AheadOK, QuietOK, Recent
  <2>5. QED
    BY <1>6, <1>8, <2>4 DEF ExactInv, Known
<1>11. QED
  BY <1>9, <1>10

LEMMA ExactTick ==
  ASSUME HistoryInv, ExactInv, TickPasses
  PROVE  ExactInv'
<1>1. /\ tick \in Nat /\ tick \in Int /\ tick <= MaxTick /\ running \in Nat /\ series \in SeriesRows
      /\ saved \in [1 .. MaxSeries -> [Minutes -> Values]] /\ bucket \in [Minutes -> Buckets]
      /\ truth \in [Minutes -> Values] /\ ExactTypeOK /\ Stored(series, bucket) /\ reader.now \in Int
  BY DEF HistoryInv, HistoryTypeOK, ExactInv, ExactTypeOK
<1>2. PICK k : k \in Minutes /\ k = MinuteOf(tick)
  BY <1>1, CurrentMinute
<1>3. /\ tick < MaxTick /\ tick' = tick + 1 /\ (reader.at = "stored" => tick' - reader.now <= Patience)
      /\ truth' = [truth EXCEPT ![k] = Plus(@, running, running)]
      /\ running' = running /\ series' = series /\ bucket' = bucket /\ flush' = flush
      /\ saved' = saved /\ reader' = reader
  BY <1>2 DEF TickPasses
<1>4. PICK w : w = Plus(truth[k], running, running)
  OBVIOUS
<1>5. truth[k] \in Values
  BY <1>1, <1>2
<1>6. w \in Values
  BY <1>1, <1>4, <1>5, PlusFacts
<1>7. truth' = [truth EXCEPT ![k] = w]
  BY <1>3, <1>4, Zenon
<1>8. truth' \in [Minutes -> Values] /\ truth'[k] = w /\ \A m \in Minutes : m # k => truth'[m] = truth[m]
  BY <1>1, <1>2, <1>6, <1>7
<1>9. MaxTick \in Int /\ tick' \in Int /\ tick' <= MaxTick /\ tick <= tick' /\ series.last \in Int /\ series.last <= tick
  BY <1>1, <1>3, PatienceFacts DEF Stored, SeriesRows
<1>10. ExactTypeOK'
  <2>1. reader.at = "stored" => reader.now <= tick'
    BY <1>1, <1>9 DEF ExactTypeOK
  <2>2. QED
    BY <1>1, <1>3, <1>8, <1>9, <2>1 DEF ExactTypeOK
<1>11. ASSUME NEW m \in Minutes, Recent(m)' PROVE Recent(m)
  <2>1. PICK c, d, a : c = Cutoff(tick) /\ d = Cutoff(tick') /\ a = Start(m)
    OBVIOUS
  <2>2. c \in Int /\ d \in Int /\ c <= d
    BY <1>1, <1>9, <2>1, CutoffFacts
  <2>3. a \in Int
    BY <2>1, StartFacts, ConstantTypes
  <2>4. a >= d
    BY <1>11, <2>1 DEF Recent
  <2>5. a >= c
    BY ONLY <2>2, <2>3, <2>4
  <2>6. QED
    BY <2>1, <2>5 DEF Recent
<1>12. TruthOK(series, bucket)'
  <2> SUFFICES ASSUME NEW m \in Minutes, Recent(m)'
               PROVE  Accounted(RowsOf(series.id, bucket, saved, m), Ticks(m, series.last, tick'), running, truth'[m])
    BY <1>3 DEF TruthOK
  <2>1. PICK r, v, run : r = RowsOf(series.id, bucket, saved, m) /\ v = truth[m] /\ run = running
    OBVIOUS
  <2>2. r \in AllRows /\ v \in Values /\ run \in Nat
    BY <1>1, <2>1, RowsType
  <2>3. m \in Int
    BY ConstantTypes
  <2>4. PICK n : n \in Nat /\ n = Ticks(m, series.last, tick)
    BY <1>1, <1>9, TicksType
  <2>5. Accounted(r, n, run, v)
    BY <1>1, <1>11, <2>1, <2>4 DEF Stored, TruthOK
  <2>6. Ticks(m, series.last, tick + 1) = IF m = MinuteOf(tick) THEN Ticks(m, series.last, tick) + 1
                                          ELSE Ticks(m, series.last, tick)
    <3>1. PICK l, t : l = series.last /\ t = tick
      OBVIOUS
    <3>2. l \in Int /\ t \in Int /\ l <= t
      BY <1>1, <1>9, <3>1
    <3>3. Ticks(m, l, t + 1) = IF m = MinuteOf(t) THEN Ticks(m, l, t) + 1 ELSE Ticks(m, l, t)
      BY ONLY <2>3, <3>2, TicksStep
    <3>4. QED
      BY <3>1, <3>3, Zenon
  <2>7. CASE m = k
    <3>1. Ticks(m, series.last, tick') = n + 1
      BY <1>2, <1>3, <2>4, <2>6, <2>7
    <3>2. Accounted(r, n + 1, run, Plus(v, run, run))
      BY ONLY <2>2, <2>4, <2>5, AccountedTick
    <3>3. truth'[m] = Plus(v, run, run)
      BY <1>4, <1>8, <2>1, <2>7, Zenon
    <3>4. QED
      BY <2>1, <3>1, <3>2, <3>3, Zenon
  <2>8. CASE m # k
    <3>1. Ticks(m, series.last, tick') = n /\ truth'[m] = v
      BY <1>2, <1>3, <1>8, <2>1, <2>4, <2>6, <2>8
    <3>2. QED
      BY <2>1, <2>5, <3>1, Zenon
  <2>9. QED
    BY <2>7, <2>8
<1>13. Stored(series, bucket)'
  <2>1. series'.last <= tick' /\ InstanceOK(series.id)' /\ EmptyOK(bucket)'
    BY <1>1, <1>3, <1>9 DEF Stored, InstanceOK, EmptyOK
  <2>2. ReaderOK(series.id, bucket)'
    BY <1>1, <1>3 DEF Stored, ReaderOK
  <2>3. QED
    BY <1>12, <2>1, <2>2 DEF Stored
<1>14. ASSUME series.exists
       PROVE  OwnOK(series.id, bucket)' /\ AheadOK(series.id, bucket)' /\ QuietOK(series, bucket)'
  <2>1. Known(series, bucket) /\ QuietOK(series, bucket)
    BY <1>14 DEF ExactInv
  <2>2. ASSUME NEW m \in Minutes, Blank(series.id, bucket, m) PROVE Blank(series.id, bucket, m)'
    BY <1>3, <2>2 DEF Blank
  <2>3. OwnOK(series.id, bucket)'
    BY <1>3, <1>11, <2>1 DEF Known, OwnOK
  <2>4. ASSUME NEW m \in Minutes, m > MinuteOf(tick') PROVE m > MinuteOf(tick)
    <3>1. MinuteOf(tick) <= MinuteOf(tick') /\ MinuteOf(tick) \in Int /\ MinuteOf(tick') \in Int
      BY <1>1, <1>9, MinuteMonotone, MinuteFacts
    <3>2. m \in Int
      BY ConstantTypes
    <3>3. QED
      BY ONLY <2>4, <3>1, <3>2
  <2>5. AheadOK(series.id, bucket)'
    BY <1>3, <2>1, <2>2, <2>4 DEF Known, AheadOK
  <2>6. QuietOK(series, bucket)'
    BY <1>3, <2>1, <2>2 DEF QuietOK
  <2>7. QED
    BY <2>3, <2>5, <2>6
<1>15. QED
  BY <1>3, <1>10, <1>13, <1>14 DEF ExactInv, Known

(* What a restart leaves behind is what is stored.                         *)
LEMMA ExactRestart ==
  ASSUME HistoryInv, ExactInv, ProcessRestarts
  PROVE  ExactInv'
<1>1. /\ tick \in Nat /\ saved \in [1 .. MaxSeries -> [Minutes -> Values]] /\ ExactTypeOK
      /\ Stored(series, bucket)
  BY DEF HistoryInv, HistoryTypeOK, ExactInv
<1>2. /\ series' = NoSeries(series.id) /\ bucket' = NoBuckets /\ running' = 0 /\ reader' = NoReader
      /\ truth' = [m \in Minutes |-> Total([i \in 1 .. MaxSeries |-> saved[i][m]])]
      /\ tick' = tick /\ saved' = saved
  BY DEF ProcessRestarts
<1>3. ~series'.exists /\ series'.id = series.id /\ series'.last = 0 /\ reader'.at = "idle"
  BY <1>2 DEF NoSeries, NoReader
<1>4. \A m \in Minutes : ~bucket'[m].exists /\ bucket'[m].value = Unused
  BY <1>2, NoBucketsType DEF NoBucket
<1>5. ASSUME NEW m \in Minutes
      PROVE  truth'[m] \in Values /\ Accounted(RowsOf(series.id, bucket', saved, m), Ticks(m, 0, tick), 0, truth'[m])
  <2>1. PICK r : r = [i \in 1 .. MaxSeries |-> saved[i][m]]
    OBVIOUS
  <2>2. r \in AllRows
    BY <1>1, <2>1 DEF AllRows, Instances
  <2>3. RowsOf(series.id, bucket', saved, m) = r
    BY <1>4, <2>1 DEF RowsOf, Instances
  <2>4. truth'[m] = Total(r)
    BY <1>2, <2>1, Zenon
  <2>5. PICK n : n \in Nat /\ n = Ticks(m, 0, tick)
    BY <1>1, TicksType
  <2>6. Total(r) \in Values /\ Accounted(r, n, 0, Total(r))
    BY ONLY <2>2, <2>5, TotalAccounted
  <2>7. QED
    BY <2>3, <2>4, <2>5, <2>6, Zenon
<1>6. truth' \in [Minutes -> Values]
  <2>1. truth' = [m \in Minutes |-> truth'[m]]
    BY <1>2
  <2>2. QED
    BY <1>5, <2>1
<1>7. ExactTypeOK'
  BY <1>1, <1>2, <1>3, <1>6 DEF ExactTypeOK
<1>8. TruthOK(series, bucket)'
  BY <1>2, <1>3, <1>5 DEF TruthOK
<1>9. Stored(series, bucket)'
  BY <1>1, <1>2, <1>3, <1>4, <1>8 DEF Stored, InstanceOK, EmptyOK, ReaderOK
<1>10. QED
  BY <1>3, <1>7, <1>9 DEF ExactInv

LEMMA ExactStart == HistoryInit => ExactInv
<1> SUFFICES ASSUME HistoryInit PROVE ExactInv
  OBVIOUS
<1>1. /\ tick = 0 /\ running = 0 /\ series = NoSeries(0) /\ bucket = NoBuckets
      /\ saved = [i \in 1 .. MaxSeries |-> [m \in Minutes |-> Unused]]
      /\ reader = NoReader /\ truth = [m \in Minutes |-> Unused]
  BY DEF HistoryInit
<1>2. ~series.exists /\ series.id = 0 /\ series.last = 0 /\ reader.at = "idle"
  BY <1>1 DEF NoSeries, NoReader
<1>3. \A m \in Minutes : ~bucket[m].exists /\ bucket[m].value = Unused
  BY <1>1, NoBucketsType DEF NoBucket
<1>4. ExactTypeOK
  BY <1>1, <1>2, PatienceFacts, NoBucketType DEF ExactTypeOK
<1>5. ASSUME NEW m \in Minutes
      PROVE  Accounted(RowsOf(series.id, bucket, saved, m), Ticks(m, series.last, tick), running, truth[m])
  <2>1. PICK r : r = [i \in Instances |-> Unused]
    OBVIOUS
  <2>2. r \in AllRows
    BY <2>1, NoBucketType DEF AllRows
  <2>3. RowsOf(series.id, bucket, saved, m) = r
    BY <1>1, <1>3, <2>1 DEF RowsOf, Instances
  <2>4. PICK n : n \in Nat /\ n = Ticks(m, series.last, tick)
    BY <1>1, <1>2, TicksType
  <2>5. Used(r) = 0
    <3>1. PICK f : f = [i \in Instances |-> r[i].used]
      OBVIOUS
    <3>2. f = [i \in Instances |-> 0]
      BY <2>1, <3>1 DEF Unused
    <3>3. Units(f) = {}
      BY <3>2 DEF Units
    <3>4. QED
      BY <3>1, <3>3, FS_EmptySet DEF Used, Sum
  <2>6. Unused \in Values /\ Unused.used = 0 /\ Unused.peak = 0 /\ \A i \in Instances : r[i].peak = 0
    BY <2>1, NoBucketType DEF Unused
  <2>7. 0 * n = 0 /\ ~(0 > 0) /\ 0 <= 0 /\ 0 + 0 = 0
    BY <2>4
  <2>8. Accounted(r, n, 0, Unused)
    BY <2>5, <2>6, <2>7 DEF Accounted
  <2>9. truth[m] = Unused
    BY <1>1
  <2>10. QED
    BY <1>1, <2>3, <2>4, <2>8, <2>9, Zenon
<1>6. Stored(series, bucket)
  <2>1. series.last <= tick
    BY <1>1, <1>2
  <2>2. TruthOK(series, bucket)
    BY <1>5 DEF TruthOK
  <2>3. InstanceOK(series.id) /\ EmptyOK(bucket) /\ ReaderOK(series.id, bucket)
    BY <1>1, <1>2, <1>3 DEF InstanceOK, EmptyOK, ReaderOK, Instances
  <2>4. QED
    BY <2>1, <2>2, <2>3 DEF Stored
<1>7. QED
  BY <1>2, <1>4, <1>6 DEF ExactInv

LEMMA ExactStep == HistoryInv /\ ExactInv /\ [HistoryNext]_historyVars => ExactInv'
<1> SUFFICES ASSUME HistoryInv, ExactInv, [HistoryNext]_historyVars PROVE ExactInv'
  OBVIOUS
<1>1. running \in Nat
  BY DEF HistoryInv, HistoryTypeOK
<1>2. CASE StartRequest
  BY <1>1, <1>2, ExactChange DEF StartRequest
<1>3. CASE FinishRequest
  <2>1. running # 0
    BY <1>1, <1>3 DEF FinishRequest
  <2>2. series.exists
    BY <2>1 DEF HistoryInv, SeriesInv
  <2>3. QED
    BY <1>1, <1>3, <2>2, ExactChange DEF FinishRequest
<1>4. CASE UNCHANGED historyVars
  BY <1>4 DEF historyVars, ExactInv, ExactTypeOK, Known, Stored, TruthOK, InstanceOK, EmptyOK, ReaderOK,
       OwnOK, AheadOK, QuietOK, Blank, Recent
<1>5. QED
  BY <1>2, <1>3, <1>4, ExactPending, ExactAcknowledge, ExactSave, ExactRead, ExactLive, ExactTick,
     ExactRestart DEF HistoryNext

(* The answer: the live minutes of the reader's time replace the rows they *)
(* have replaced in the meantime, and no other.                            *)
LEMMA ExactShown ==
  ASSUME HistoryInv, ExactInv, reader.at = "stored", NEW m, m \in Minutes,
         Shown(m, reader.now), m # MinuteOf(reader.now)
  PROVE  Merged(m) = truth[m]
<1>1. /\ tick \in Int /\ running \in Nat /\ series \in SeriesRows /\ bucket \in [Minutes -> Buckets]
      /\ saved \in [1 .. MaxSeries -> [Minutes -> Values]] /\ truth[m] \in Values /\ ExactTypeOK
      /\ Stored(series, bucket) /\ series.last \in Int /\ series.last <= tick
  BY DEF HistoryInv, HistoryTypeOK, ExactInv, ExactTypeOK, SeriesRows, Stored
<1>2. PICK t : t \in Int /\ t = reader.now /\ t <= tick
  BY <1>1 DEF HistoryInv, HistoryTypeOK, ExactTypeOK
<1>3. m \in Int /\ m < MinuteOf(t)
  BY <1>2, ConstantTypes DEF Shown
<1>4. Recent(m)
  BY <1>1, ShownRecent
<1>5. PICK s : s = Opened(t)
  OBVIOUS
<1>6. PICK a : a = Advanced(s, bucket, t)
  OBVIOUS
<1>7. PICK r : r = [i \in 1 .. MaxSeries |-> IF i = s.id /\ a[m].exists THEN a[m].value ELSE reader.rows[i][m]]
  OBVIOUS
<1>8. Merged(m) = Total(r)
  BY <1>2, <1>5, <1>6, <1>7, Zenon DEF Merged
<1>9. \A i \in Instances : reader.rows[i][m] = saved[i][m] \/ (i = series.id /\ bucket[m].exists)
  BY <1>1 DEF Stored, ReaderOK
<1>10. PICK v, run : v = truth[m] /\ run = running /\ v \in Values /\ run \in Nat
  BY <1>1
<1>11. CASE series.exists
  <2>1. s = series /\ Known(series, bucket) /\ series.id # 0
    BY <1>5, <1>11 DEF Opened, ExactInv, HistoryInv, SeriesInv
  <2>2. series.id \in Instances
    BY <1>1, <2>1, ConstantTypes DEF SeriesRows, Instances
  <2>3. EmptyOK(bucket) /\ OwnOK(series.id, bucket)
    BY <2>1 DEF Known, Stored
  <2>4. a = Advanced(series, bucket, t) /\ a \in [Minutes -> Buckets]
    BY <1>1, <1>2, <1>6, <2>1, AdvancedBuckets
  <2>5. bucket[m].exists => a[m].exists
    BY <1>1, <1>2, <2>3, <2>4, AdvancedValue
  <2>6. PICK q : q \in AllRows /\ q = RowsOf(series.id, a, saved, m)
    BY <1>1, <2>4, RowsType
  <2>7. r = q
    BY <1>7, <1>9, <2>1, <2>5, <2>6 DEF RowsOf, Instances
  <2>8. PICK l : l \in Int /\ l = AdvancedSeries(series, t).last /\ t <= l
    <3>1. AdvancedSeries(series, t).last = IF series.last >= t THEN series.last ELSE t
      BY <1>1, <1>2, AdvancedLast DEF SeriesRows
    <3>2. QED
      BY <1>1, <1>2, <3>1
  <2>9. Accounted(RowsOf(series.id, bucket, saved, m), Ticks(m, series.last, tick), running, truth[m])
    BY <1>1, <1>4 DEF Stored, TruthOK
  <2>10. Accounted(q, Ticks(m, l, tick), run, v)
    <3>1. Accounted(RowsOf(series.id, Advanced(series, bucket, t), saved, m),
                    Ticks(m, AdvancedSeries(series, t).last, tick), running, truth[m])
      BY <1>1, <1>2, <1>4, <2>2, <2>3, <2>9, AdvancedTruth
    <3>2. QED
      BY <1>10, <2>4, <2>6, <2>8, <3>1, Zenon
  <2>11. Ticks(m, l, tick) = 0
    <3>1. Ticks(m, l, t) = Ticks(m, l, tick)
      BY <1>1, <1>2, <1>3, <2>8, TicksOver
    <3>2. Ticks(m, l, t) = 0
      BY <1>2, <1>3, <2>8, TicksNone
    <3>3. QED
      BY <3>1, <3>2
  <2>12. Accounted(q, 0, run, v)
    BY <2>10, <2>11, Zenon
  <2>13. Total(q) = v
    BY ONLY <1>10, <2>6, <2>12, AccountedTotal
  <2>14. QED
    BY <1>8, <1>10, <2>7, <2>13, Zenon
<1>12. CASE ~series.exists
  <2>1. bucket = NoBuckets /\ running = 0
    BY <1>12 DEF HistoryInv, SeriesInv
  <2>2. ~bucket[m].exists
    BY <2>1, NoBucketsType DEF NoBucket
  <2>3. s.last = t
    BY <1>5, <1>12 DEF Opened
  <2>4. a[m] = bucket[m]
    <3>1. PICK f : f \in Int /\ f = From(s, t) /\ t <= f
      <4>1. From(s, t) = Max({t, Cutoff(t)}) /\ Cutoff(t) \in Int
        BY <1>2, <2>3, ConstantTypes DEF From
      <4>2. Max({t, Cutoff(t)}) = IF t >= Cutoff(t) THEN t ELSE Cutoff(t)
        BY <1>2, <4>1, MaxIs
      <4>3. QED
        BY <1>2, <4>1, <4>2
    <3>2. Ticks(m, f, t) = 0
      BY <1>2, <1>3, <3>1, TicksNone
    <3>3. QED
      BY <1>6, <3>1, <3>2, Zenon DEF Advanced
  <2>5. PICK q : q \in AllRows /\ q = RowsOf(series.id, bucket, saved, m)
    BY <1>1, RowsType
  <2>6. r = q
    BY <1>7, <1>9, <2>2, <2>4, <2>5 DEF RowsOf, Instances
  <2>7. PICK n : n \in Nat /\ n = Ticks(m, series.last, tick)
    BY <1>1, TicksType
  <2>8. Accounted(q, n, 0, v)
    BY <1>1, <1>4, <1>10, <2>1, <2>5, <2>7 DEF Stored, TruthOK
  <2>9. 0 \in Nat
    OBVIOUS
  <2>10. Accounted(q, 0, 0, v)
    BY ONLY <1>10, <2>5, <2>7, <2>8, <2>9, AccountedIdle
  <2>11. Total(q) = v
    BY ONLY <1>10, <2>5, <2>9, <2>10, AccountedTotal
  <2>12. QED
    BY <1>8, <1>10, <2>6, <2>11, Zenon
<1>13. QED
  BY <1>11, <1>12

(* PlanConcurrency: what a reader is shown of a complete minute is what    *)
(* happened in it, wherever requests, flushes, lost answers, the eviction  *)
(* of the series and restarts fall between its two reads; for minutes and  *)
(* windows of any length, if what is kept covers the window and twice the  *)
(* time a reader waits.                                                    *)
THEOREM HistoryAlwaysExact == HistorySpec => []HistoryExact
<1>1. HistoryInv /\ ExactInv => HistoryExact
  BY ExactShown DEF HistoryExact
<1>2. HistorySpec => []ExactInv
  BY ExactStart, ExactStep, HistoryInvariant, PTL DEF HistorySpec
<1>3. QED
  BY <1>1, <1>2, HistoryInvariant, PTL
=============================================================================
