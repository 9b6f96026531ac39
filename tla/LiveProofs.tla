----------------------------- MODULE LiveProofs -----------------------------
(***************************************************************************)
(* Proofs about live mode, for every set of sessions and agents and every  *)
(* bound on faults, messages, posts and clicks.                            *)
(***************************************************************************)
EXTENDS LivePage, SequenceTheorems, FiniteSetTheorems, WellFoundedInduction, TLAPS

-----------------------------------------------------------------------------
(* Sequences                                                               *)

(* A nonempty set of positions has a least member.                         *)
LEMMA LeastIn ==
  ASSUME NEW S, S \subseteq Nat, S # {}
  PROVE  \E x \in S : \A y \in S : x <= y
<1> DEFINE R == {p \in Nat \X Nat : p[1] < p[2]}
<1>1. IsWellFoundedOn(R, Nat)
  BY NatLessThanWellFounded DEF OpToRel
<1> HIDE DEF R
<1>2. PICK x \in S : \A y \in S : ~(<<y, x>> \in R)
  BY <1>1, WFMin
<1>3. ASSUME NEW y \in S PROVE x <= y
  <2>1. ~(<<y, x>> \in R)
    BY <1>2
  <2>2. ~(y < x)
    BY <2>1 DEF R
  <2>3. QED
    BY <2>2
<1>4. QED
  BY <1>3

(* RemoveAt closes the gap that the removed member leaves.                 *)
LEMMA RemoveAtSeq ==
  ASSUME NEW S, NEW q \in Seq(S), NEW i \in 1 .. Len(q)
  PROVE  /\ RemoveAt(q, i) \in Seq(S)
         /\ Len(RemoveAt(q, i)) = Len(q) - 1
         /\ \A k \in 1 .. Len(q) - 1 : RemoveAt(q, i)[k] = IF k < i THEN q[k] ELSE q[k + 1]
<1>1. Len(q) \in Nat /\ i \in Nat /\ i >= 1 /\ i <= Len(q)
  BY LenProperties
<1> DEFINE a == SubSeq(q, 1, i - 1)
           b == SubSeq(q, i + 1, Len(q))
<1>2. a \in Seq(S) /\ Len(a) = i - 1 /\ \A k \in 1 .. i - 1 : a[k] = q[k]
  <2>1. \A k \in 1 .. i - 1 : k \in 1 .. Len(q)
    BY <1>1
  <2>2. QED
    BY <1>1, <2>1, SubSeqProperties, ElementOfSeq
<1>3. b \in Seq(S) /\ Len(b) = Len(q) - i /\ \A k \in 1 .. Len(q) - i : b[k] = q[i + k]
  <2>1. \A k \in i + 1 .. Len(q) : k \in 1 .. Len(q)
    BY <1>1
  <2>2. QED
    BY <1>1, <2>1, SubSeqProperties, ElementOfSeq
<1> HIDE DEF a, b
<1>4. RemoveAt(q, i) = a \o b
  BY DEF RemoveAt, a, b
<1>5. /\ a \o b \in Seq(S) /\ Len(a \o b) = Len(q) - 1
      /\ \A k \in 1 .. Len(q) - 1 : (a \o b)[k] = IF k <= i - 1 THEN a[k] ELSE b[k - (i - 1)]
  <2>1. /\ a \o b \in Seq(S) /\ Len(a \o b) = Len(a) + Len(b)
        /\ \A k \in 1 .. Len(a) + Len(b) : (a \o b)[k] = IF k <= Len(a) THEN a[k] ELSE b[k - Len(a)]
    BY <1>2, <1>3, ConcatProperties
  <2>2. Len(a) = i - 1 /\ Len(a) + Len(b) = Len(q) - 1
    BY <1>1, <1>2, <1>3
  <2>3. QED
    BY <2>1, <2>2
<1>6. ASSUME NEW k \in 1 .. Len(q) - 1 PROVE (a \o b)[k] = IF k < i THEN q[k] ELSE q[k + 1]
  <2>1. CASE k < i
    BY <2>1, <1>1, <1>2, <1>5
  <2>2. CASE ~(k < i)
    <3>1. k - (i - 1) \in 1 .. Len(q) - i /\ i + (k - (i - 1)) = k + 1 /\ ~(k <= i - 1)
      BY <2>2, <1>1
    <3>2. b[k - (i - 1)] = q[i + (k - (i - 1))]
      BY <3>1, <1>3
    <3>3. QED
      BY <3>1, <3>2, <2>2, <1>5
  <2>3. QED
    BY <2>1, <2>2
<1>7. QED
  BY <1>4, <1>5, <1>6

LEMMA RemoveFirstSeq ==
  ASSUME NEW S, NEW q \in Seq(S), NEW e
  PROVE  RemoveFirst(q, e) \in Seq(S) /\ (q = <<>> => RemoveFirst(q, e) = <<>>)
<1> DEFINE I == {i \in 1 .. Len(q) : q[i] = e}
<1>0. Len(q) \in Nat /\ (q = <<>> => Len(q) = 0)
  BY LenProperties, EmptySeq
<1>1. CASE I = {}
  <2>1. RemoveFirst(q, e) = q
    BY <1>1 DEF RemoveFirst
  <2>2. QED
    BY <2>1
<1>2. CASE I # {}
  <2>1. I \subseteq Nat
    BY <1>0
  <2>2. \E x \in I : \A y \in I : x <= y
    BY <1>2, <2>1, LeastIn
  <2>3. Min(I) \in I
    BY <2>2 DEF Min
  <2>4. RemoveFirst(q, e) = RemoveAt(q, Min(I))
    BY <1>2 DEF RemoveFirst, SelectInSeq
  <2>5. q # <<>>
    BY <1>2, <1>0
  <2>6. QED
    BY <2>3, <2>4, <2>5, RemoveAtSeq
<1>3. QED
  BY <1>1, <1>2

LEMMA FunctionIsSeq ==
  ASSUME NEW S, NEW n \in Nat, NEW f \in [1 .. n -> S]
  PROVE  f \in Seq(S) /\ Len(f) = n
OBVIOUS

(* SetToSeq lists a finite set without repetition.                         *)
LEMMA SetToSeqLists ==
  ASSUME NEW S, IsFiniteSet(S)
  PROVE  /\ Cardinality(S) \in Nat
         /\ SetToSeq(S) \in [1 .. Cardinality(S) -> S]
         /\ \A i, j \in 1 .. Cardinality(S) : SetToSeq(S)[i] = SetToSeq(S)[j] => i = j
<1>1. Cardinality(S) \in Nat
  BY FS_CardinalityType
<1>2. \E f \in [1 .. Cardinality(S) -> S] : IsInjective(f)
  <2>1. PICK f : f \in Bijection(1 .. Cardinality(S), S)
    BY FS_CardinalityType DEF ExistsBijection
  <2>2. f \in [1 .. Cardinality(S) -> S] /\ \A a, b \in 1 .. Cardinality(S) : f[a] = f[b] => a = b
    BY <2>1 DEF Bijection, Injection, IsInjective
  <2>3. QED
    BY <2>2 DEF IsInjective
<1>3. SetToSeq(S) \in [1 .. Cardinality(S) -> S] /\ IsInjective(SetToSeq(S))
  BY <1>2 DEF SetToSeq
<1>4. QED
  BY <1>1, <1>3 DEF IsInjective

-----------------------------------------------------------------------------
(* The values that the handlers build                                      *)

Prepared == [sess : Sessions, to : Workers \cup {None}]

Busy == {"work", "written", "cleanup"} \cup Completions

(* An agent has a session and an event exactly while it works on one, and  *)
(* only a decision is written or reported.                                 *)
Shaped(a) ==
  /\ a.st \in Busy => a.sess \in Sessions /\ a.type \in Types
  /\ a.st \in {"written"} \cup Completions => a.type \in {"accept", "discard"}
  /\ a.st \notin Busy => a.sess = None /\ a.type = "none"

LEMMA IdleTyped == Idle \in Agents /\ Shaped(Idle) /\ Idle.sess = None /\ Idle.type = "none" /\ Idle.st = "idle"
BY VariantsAssumption DEF Idle, Agents, Shaped, Busy, Completions

LEMMA NewAgentTyped ==
  ASSUME NEW a \in Agents, NEW st \in {"idle", "parked", "waiting", "work", "written", "cleanup"} \cup Completions
  PROVE  /\ [a EXCEPT !.st = st] \in Agents
         /\ [a EXCEPT !.st = st].st = st /\ [a EXCEPT !.st = st].sess = a.sess
         /\ [a EXCEPT !.st = st].type = a.type /\ [a EXCEPT !.st = st].variant = a.variant
BY DEF Agents

LEMMA WorkTyped ==
  ASSUME NEW s \in Sessions, NEW type \in Types, NEW v \in 0 .. Variants
  PROVE  /\ [st |-> "work", sess |-> s, type |-> type, variant |-> v] \in Agents
         /\ Shaped([st |-> "work", sess |-> s, type |-> type, variant |-> v])
BY DEF Agents, Shaped, Busy, Completions, Types

LEMMA LeaseEventTyped ==
  ASSUME NEW e \in Entries
  PROVE  /\ leaseEvent(e) \in Agents /\ Shaped(leaseEvent(e))
         /\ Scaffolds(e) => leaseEvent(e).st = "waiting" /\ leaseEvent(e).sess = None /\ leaseEvent(e).type = "none"
         /\ ~Scaffolds(e) => /\ leaseEvent(e).st = "work" /\ leaseEvent(e).sess = e.sess
                             /\ leaseEvent(e).type = e.type /\ leaseEvent(e).variant = e.variant
<1>1. e.sess \in Sessions /\ e.type \in Types /\ e.variant \in 0 .. Variants
  BY DEF Entries
<1>2. CASE Scaffolds(e)
  <2>1. leaseEvent(e) = [st |-> "waiting", sess |-> None, type |-> "none", variant |-> 0]
    BY <1>2 DEF leaseEvent, Idle
  <2>2. QED
    BY <1>2, <2>1, VariantsAssumption DEF Agents, Shaped, Busy, Completions
<1>3. CASE ~Scaffolds(e)
  <2>1. leaseEvent(e) = [st |-> "work", sess |-> e.sess, type |-> e.type, variant |-> e.variant]
    BY <1>3 DEF leaseEvent
  <2>2. QED
    BY <1>1, <1>3, <2>1, WorkTyped
<1>4. QED
  BY <1>2, <1>3

LEMMA LeaseTyped ==
  ASSUME NEW e \in Entries, NEW l \in {"none", "live", "lapsed"}
  PROVE  /\ [e EXCEPT !.lease = l] \in Entries /\ [e EXCEPT !.lease = l].lease = l
         /\ [e EXCEPT !.lease = l].sess = e.sess /\ [e EXCEPT !.lease = l].type = e.type
         /\ [e EXCEPT !.lease = l].variant = e.variant /\ [e EXCEPT !.lease = l].ready = e.ready
BY DEF Entries

(* What the journal of a session says after a request of the page: only    *)
(* the generate touches the scaffolding mark, only an accept owes one, and *)
(* the chosen variant stands once the generation is canceled.              *)
LEMMA JournaledFacts ==
  ASSUME NEW n \in Snapshots, NEW m \in Requests
  PROVE  /\ Journaled(n, m) \in Snapshots
         /\ m.type = "generate" => ~Journaled(n, m).ready
         /\ m.type # "generate" => Journaled(n, m).ready = n.ready /\ Journaled(n, m).exists = n.exists
         /\ n.canceled => Journaled(n, m).canceled
         /\ n.canceled /\ m.type # "accept" => Journaled(n, m).visible = n.visible
         /\ Journaled(n, m).pending = "accept" /\ m.type # "accept" => n.pending = "accept"
         /\ m.type = "accept" => Journaled(n, m).canceled /\ Journaled(n, m).visible = m.visible
<1>1. CASE m.type = "generate"
  <2>1. Journaled(n, m) = ApplyGenerate(n, FALSE)
    BY <1>1 DEF Journaled
  <2>2. QED
    BY <1>1, <2>1 DEF ApplyGenerate, Snapshots, Phases, PendingTypes
<1>2. CASE m.type = "checkpoint"
  <2>1. Journaled(n, m) = ApplyCheckpoint(n, m)
    BY <1>2 DEF Journaled
  <2>2. m.phase \in Phases /\ m.revision \in Nat /\ m.arrived \in 0 .. Variants /\ m.visible \in 0 .. Variants
        /\ m.file \in BOOLEAN
    BY DEF Requests
  <2>3. QED
    BY <1>2, <2>1, <2>2, ZenonT(60) DEF ApplyCheckpoint, Fenced, Snapshots
<1>3. CASE m.type = "accept"
  <2>1. Journaled(n, m) = ApplyAccept(n, m.visible)
    BY <1>3 DEF Journaled
  <2>2. m.visible \in 0 .. Variants
    BY DEF Requests
  <2>3. QED
    BY <1>3, <2>1, <2>2 DEF ApplyAccept, Snapshots, Phases, FencedPhases, PendingTypes
<1>4. CASE m.type = "discard" /\ ~m.orphaned
  <2>1. Journaled(n, m) = ApplyDiscard(n)
    BY <1>4 DEF Journaled
  <2>2. QED
    BY <1>4, <2>1 DEF ApplyDiscard, Snapshots, Phases, FencedPhases, PendingTypes
<1>5. CASE m.type = "discard" /\ m.orphaned
  <2>1. Journaled(n, m) = ApplyTerminal(ApplyDiscard(n), "discarded")
    BY <1>5 DEF Journaled
  <2>2. QED
    BY <1>5, <2>1, ZenonT(60) DEF ApplyTerminal, ApplyDiscard, Snapshots, Phases, FencedPhases, PendingTypes
<1>6. QED
  BY <1>1, <1>2, <1>3, <1>4, <1>5 DEF Requests

(* An agent's reply changes neither the marks nor the chosen variant, and  *)
(* the journal owes no event that it did not owe before.                   *)
Continues(n, r) ==
  /\ r \in Snapshots /\ r.ready = n.ready /\ r.exists = n.exists
  /\ r.canceled = n.canceled /\ r.visible = n.visible /\ r.pending \in {n.pending, "none"}

LEMMA TerminalFacts ==
  ASSUME NEW n \in Snapshots, NEW phase \in Phases
  PROVE  Continues(n, ApplyTerminal(n, phase))
BY DEF Continues, ApplyTerminal, Snapshots, PendingTypes

Published(n, phase) ==
  [n EXCEPT !.phase = phase, !.completed = TRUE, !.file = TRUE, !.arrived = Variants, !.pending = "none"]

LEMMA PublishedFacts ==
  ASSUME NEW n \in Snapshots, NEW phase \in Phases
  PROVE  Continues(n, Published(n, phase))
<1> DEFINE r == Published(n, phase)
<1>1. Variants \in 0 .. Variants
  BY VariantsAssumption
<1>2. r \in Snapshots
  BY <1>1 DEF Published, Snapshots, PendingTypes
<1>3. r.ready = n.ready /\ r.exists = n.exists /\ r.canceled = n.canceled /\ r.visible = n.visible
  BY DEF Published, Snapshots
<1>4. r.pending = "none"
  BY DEF Published, Snapshots
<1>5. QED
  BY <1>2, <1>3, <1>4 DEF Continues

LEMMA JournaledReplyFacts ==
  ASSUME NEW n \in Snapshots, NEW carbonize \in BOOLEAN, NEW acked,
         NEW type \in {"done", "complete", "agent_done", "discarded", "error"}
  PROVE  Continues(n, JournaledReply(n, type, carbonize, acked))
<1>0. {"discarded", "completed", "agent_error"} \subseteq Phases
  BY DEF Phases, FencedPhases
<1>1. CASE type = "discarded"
  <2>1. JournaledReply(n, type, carbonize, acked) = ApplyTerminal(n, "discarded")
    BY <1>1 DEF JournaledReply
  <2>2. QED
    BY <1>0, <2>1, TerminalFacts
<1>2. CASE type = "complete"
  <2>1. JournaledReply(n, type, carbonize, acked) = ApplyTerminal(n, "completed")
    BY <1>2 DEF JournaledReply
  <2>2. QED
    BY <1>0, <2>1, TerminalFacts
<1>3. CASE type = "error"
  <2>1. JournaledReply(n, type, carbonize, acked) \in {n, ApplyTerminal(n, "agent_error")}
    BY <1>3 DEF JournaledReply, ApplyError
  <2>2. QED
    BY <1>0, <2>1, TerminalFacts DEF Continues
<1>4. CASE type \in {"done", "agent_done"}
  <2>1. JournaledReply(n, type, carbonize, acked) = ApplyDone(n, carbonize)
    BY <1>4 DEF JournaledReply
  <2>2. ApplyDone(n, carbonize) \in {n, Published(n, "carbonize_required"), Published(n, "variants_ready")}
    BY DEF ApplyDone, Published
  <2>3. Continues(n, n)
    BY DEF Continues
  <2>4. {"carbonize_required", "variants_ready"} \subseteq Phases
    BY DEF Phases, FencedPhases
  <2>5. QED
    BY <2>1, <2>2, <2>3, <2>4, PublishedFacts
<1>5. QED
  BY <1>1, <1>2, <1>3, <1>4

-----------------------------------------------------------------------------
(* What a flush does                                                       *)

(* Some free entries of q are handed to agents: they are claimed, a        *)
(* generate without scaffolding is prepared for its agent, every other     *)
(* event becomes the work of its agent.                                    *)
Dispatches(q, prep, ag, q2, prep2, ag2) ==
  \E T \in SUBSET Available(q) : \E to \in [T -> Workers] :
    /\ Len(q2) = Len(q)
    /\ \A i \in 1 .. Len(q) : /\ q2[i].sess = q[i].sess /\ q2[i].type = q[i].type
                              /\ q2[i].variant = q[i].variant /\ q2[i].ready = q[i].ready
                              /\ q2[i].lease = IF i \in T THEN "live" ELSE q[i].lease
    /\ \A p \in prep2 : p \in prep \/ \E i \in T : Scaffolds(q[i]) /\ p.sess = q[i].sess /\ p.to = to[i]
    /\ \A i \in T : Scaffolds(q[i]) => \E p \in prep2 : p.sess = q[i].sess
    /\ \A w \in Workers : ag2[w] = ag[w] \/ \E i \in T : to[i] = w /\ ag2[w] = leaseEvent(q[i])

LEMMA RankBounds ==
  ASSUME NEW q \in Seq(Entries), NEW i \in Available(q)
  PROVE  Rank(q, i) \in Nat /\ Rank(q, i) >= 1
<1> DEFINE A == {j \in Available(q) : j = i \/ precedes(q, j, i)}
<1>1. Len(q) \in Nat
  BY LenProperties
<1>2. IsFiniteSet(1 .. Len(q))
  BY <1>1, FS_Interval
<1>3. A \subseteq 1 .. Len(q) /\ i \in A
  BY DEF Available
<1> HIDE DEF A
<1>4. IsFiniteSet(A)
  BY <1>2, <1>3, FS_Subset
<1>5. Cardinality(A) \in Nat /\ Cardinality(A) # 0
  BY <1>3, <1>4, FS_CardinalityType, FS_EmptySet
<1>6. QED
  BY <1>5 DEF Rank, A

LEMMA FlushDispatches ==
  ASSUME NEW q \in Seq(Entries), NEW waiting \in Seq(Workers), NEW prep \in SUBSET Prepared,
         NEW ag \in [Workers -> Agents], NEW d, d = Flush(q, waiting, prep, ag)
  PROVE  /\ d.queue \in Seq(Entries) /\ d.rest \in Seq(Workers)
         /\ d.preparing \in SUBSET Prepared /\ d.agent \in [Workers -> Agents]
         /\ Dispatches(q, prep, ag, d.queue, d.preparing, d.agent)
<1> DEFINE T == {i \in Available(q) : Rank(q, i) <= Len(waiting)}
           to == [i \in T |-> waiting[Rank(q, i)]]
           P == {[sess |-> q[i].sess, to |-> to[i]] : i \in {k \in T : Scaffolds(q[k])}}
           ag2 == [w \in Workers |-> IF \E i \in T : to[i] = w THEN leaseEvent(q[CHOOSE i \in T : to[i] = w])
                                     ELSE ag[w]]
<1>1. Len(q) \in Nat /\ Len(waiting) \in Nat /\ T \subseteq 1 .. Len(q) /\ T \subseteq Available(q)
  BY LenProperties DEF Available
<1>2. \A i \in 1 .. Len(q) : q[i] \in Entries
  BY ElementOfSeq
<1>3. to \in [T -> Workers]
  <2>1. ASSUME NEW i \in T PROVE waiting[Rank(q, i)] \in Workers
    <3>1. Rank(q, i) \in 1 .. Len(waiting)
      BY <1>1, RankBounds
    <3>2. QED
      BY <3>1, ElementOfSeq
  <2>2. QED
    BY <2>1
<1>4. d.queue = Claimed(q, T) /\ d.preparing = prep \cup P /\ d.agent = ag2
      /\ d.rest = SubSeq(waiting, Cardinality(Available(q)) + 1, Len(waiting))
  BY DEF Flush
<1> HIDE DEF T, to
<1>5. /\ Claimed(q, T) \in Seq(Entries) /\ Len(Claimed(q, T)) = Len(q)
      /\ \A i \in 1 .. Len(q) : /\ Claimed(q, T)[i].sess = q[i].sess /\ Claimed(q, T)[i].type = q[i].type
                                /\ Claimed(q, T)[i].variant = q[i].variant /\ Claimed(q, T)[i].ready = q[i].ready
                                /\ Claimed(q, T)[i].lease = IF i \in T THEN "live" ELSE q[i].lease
  <2> DEFINE f(i) == IF i \in T THEN [q[i] EXCEPT !.lease = "live"] ELSE q[i]
  <2>1. ASSUME NEW i \in 1 .. Len(q)
        PROVE  /\ f(i) \in Entries /\ f(i).sess = q[i].sess /\ f(i).type = q[i].type
               /\ f(i).variant = q[i].variant /\ f(i).ready = q[i].ready
               /\ f(i).lease = IF i \in T THEN "live" ELSE q[i].lease
    <3>1. CASE i \in T
      <4>1. PICK e \in Entries : e = q[i]
        BY <1>2
      <4>2. f(i) = [e EXCEPT !.lease = "live"]
        BY <3>1, <4>1
      <4> HIDE DEF f
      <4>3. /\ f(i) \in Entries /\ f(i).sess = e.sess /\ f(i).type = e.type
            /\ f(i).variant = e.variant /\ f(i).ready = e.ready /\ f(i).lease = "live"
        BY <4>2 DEF Entries
      <4>4. QED
        BY <3>1, <4>1, <4>3
    <3>2. CASE i \notin T
      BY <3>2, <1>2
    <3>3. QED
      BY <3>1, <3>2
  <2>2. Claimed(q, T) = [i \in 1 .. Len(q) |-> f(i)]
    BY DEF Claimed
  <2> HIDE DEF f
  <2>3. Claimed(q, T) \in [1 .. Len(q) -> Entries]
    BY <2>1, <2>2
  <2>4. Claimed(q, T) \in Seq(Entries) /\ Len(Claimed(q, T)) = Len(q)
    BY <1>1, <2>3, FunctionIsSeq
  <2>5. QED
    BY <2>1, <2>2, <2>4
<1>6. P \in SUBSET Prepared
  <2>1. ASSUME NEW i \in T PROVE [sess |-> q[i].sess, to |-> to[i]] \in Prepared
    <3>1. q[i].sess \in Sessions /\ to[i] \in Workers
      BY <1>1, <1>2, <1>3 DEF Entries
    <3>2. QED
      BY <3>1 DEF Prepared
  <2>2. QED
    BY <2>1
<1>7. ag2 \in [Workers -> Agents] /\ \A w \in Workers : ag2[w] = ag[w] \/ \E i \in T : to[i] = w /\ ag2[w] = leaseEvent(q[i])
  <2>1. ASSUME NEW w \in Workers
        PROVE  /\ ag2[w] = ag[w] \/ \E i \in T : to[i] = w /\ ag2[w] = leaseEvent(q[i])
               /\ ag2[w] \in Agents
    <3>1. CASE \E i \in T : to[i] = w
      <4>1. PICK i : i \in T /\ to[i] = w /\ ag2[w] = leaseEvent(q[i])
        BY <3>1
      <4>2. leaseEvent(q[i]) \in Agents
        BY <4>1, <1>1, <1>2, LeaseEventTyped
      <4>3. QED
        BY <4>1, <4>2
    <3>2. CASE ~\E i \in T : to[i] = w
      BY <3>2
    <3>3. QED
      BY <3>1, <3>2
  <2>2. QED
    BY <2>1
<1>8. d.rest \in Seq(Workers)
  <2>1. IsFiniteSet(Available(q))
    <3>1. IsFiniteSet(1 .. Len(q)) /\ Available(q) \subseteq 1 .. Len(q)
      BY <1>1, FS_Interval DEF Available
    <3>2. QED
      BY <3>1, FS_Subset
  <2>2. PICK c \in Nat : c = Cardinality(Available(q))
    BY <2>1, FS_CardinalityType
  <2>3. \A k \in c + 1 .. Len(waiting) : waiting[k] \in Workers
    <3>1. ASSUME NEW k \in c + 1 .. Len(waiting) PROVE k \in 1 .. Len(waiting)
      BY <1>1
    <3>2. QED
      BY <3>1, ElementOfSeq
  <2>4. SubSeq(waiting, c + 1, Len(waiting)) \in Seq(Workers)
    BY <1>1, <2>3, SubSeqProperties
  <2>5. QED
    BY <1>4, <2>2, <2>4
<1>9. Dispatches(q, prep, ag, Claimed(q, T), prep \cup P, ag2)
  <2>1. \A p \in prep \cup P : p \in prep \/ \E i \in T : Scaffolds(q[i]) /\ p.sess = q[i].sess /\ p.to = to[i]
    OBVIOUS
  <2>2. ASSUME NEW i \in T, Scaffolds(q[i]) PROVE \E p \in prep \cup P : p.sess = q[i].sess
    <3>1. PICK p : p = [sess |-> q[i].sess, to |-> to[i]]
      OBVIOUS
    <3>2. p \in P /\ p.sess = q[i].sess
      BY <2>2, <3>1
    <3>3. QED
      BY <3>2
  <2> HIDE DEF P, ag2
  <2>3. PICK q2 : q2 = Claimed(q, T)
    OBVIOUS
  <2>4. PICK prep2 : prep2 = prep \cup P
    OBVIOUS
  <2>5. T \in SUBSET Available(q)
    BY <1>1
  <2>6. /\ Len(q2) = Len(q)
        /\ \A i \in 1 .. Len(q) : /\ q2[i].sess = q[i].sess /\ q2[i].type = q[i].type
                                  /\ q2[i].variant = q[i].variant /\ q2[i].ready = q[i].ready
                                  /\ q2[i].lease = IF i \in T THEN "live" ELSE q[i].lease
    BY <1>5, <2>3
  <2>7. /\ \A p \in prep2 : p \in prep \/ \E i \in T : Scaffolds(q[i]) /\ p.sess = q[i].sess /\ p.to = to[i]
        /\ \A i \in T : Scaffolds(q[i]) => \E p \in prep2 : p.sess = q[i].sess
    BY <2>1, <2>2, <2>4
  <2>8. Dispatches(q, prep, ag, q2, prep2, ag2)
    BY ONLY <1>3, <1>7, <2>5, <2>6, <2>7 DEF Dispatches
  <2>9. QED
    BY <2>3, <2>4, <2>8
<1>10. QED
  BY <1>4, <1>5, <1>6, <1>7, <1>8, <1>9

(* Every entry of r is one of q, as free as it was or less; r is q with    *)
(* entries removed, or with lapsed leases cleared.                         *)
Rearranged(q, r) ==
  \E f \in [1 .. Len(r) -> 1 .. Len(q)] :
    /\ \A i, j \in 1 .. Len(r) : f[i] = f[j] => i = j
    /\ \A i \in 1 .. Len(r) : /\ r[i].sess = q[f[i]].sess /\ r[i].type = q[f[i]].type
                              /\ r[i].variant = q[f[i]].variant /\ r[i].ready = q[f[i]].ready
                              /\ q[f[i]].lease = "live" => r[i].lease = "live"

LEMMA RearrangedSame ==
  ASSUME NEW q \in Seq(Entries), NEW r \in Seq(Entries), Len(r) = Len(q),
         \A i \in 1 .. Len(q) : /\ r[i].sess = q[i].sess /\ r[i].type = q[i].type
                                /\ r[i].variant = q[i].variant /\ r[i].ready = q[i].ready
                                /\ q[i].lease = "live" => r[i].lease = "live"
  PROVE  Rearranged(q, r)
<1>1. PICK f : f = [i \in 1 .. Len(r) |-> i]
  OBVIOUS
<1>2. f \in [1 .. Len(r) -> 1 .. Len(q)] /\ \A i \in 1 .. Len(r) : f[i] = i
  BY <1>1
<1>3. /\ \A i, j \in 1 .. Len(r) : f[i] = f[j] => i = j
      /\ \A i \in 1 .. Len(r) : /\ r[i].sess = q[f[i]].sess /\ r[i].type = q[f[i]].type
                                /\ r[i].variant = q[f[i]].variant /\ r[i].ready = q[f[i]].ready
                                /\ q[f[i]].lease = "live" => r[i].lease = "live"
  BY <1>2
<1>4. QED
  BY <1>2, <1>3, Zenon DEF Rearranged

LEMMA RearrangedRemove ==
  ASSUME NEW q \in Seq(Entries), NEW k \in 1 .. Len(q)
  PROVE  Rearranged(q, RemoveAt(q, k))
<1>1. PICK r : r = RemoveAt(q, k)
  OBVIOUS
<1>2. Len(q) \in Nat /\ Len(r) = Len(q) - 1 /\ \A i \in 1 .. Len(q) - 1 : r[i] = IF i < k THEN q[i] ELSE q[i + 1]
  BY <1>1, RemoveAtSeq, LenProperties
<1>3. PICK f : f = [i \in 1 .. Len(r) |-> IF i < k THEN i ELSE i + 1]
  OBVIOUS
<1>4. \A i \in 1 .. Len(r) : f[i] = (IF i < k THEN i ELSE i + 1) /\ f[i] \in 1 .. Len(q)
  BY <1>2, <1>3
<1>5. f \in [1 .. Len(r) -> 1 .. Len(q)]
  BY <1>3, <1>4
<1>6. \A i, j \in 1 .. Len(r) : f[i] = f[j] => i = j
  BY <1>2, <1>4
<1>7. \A i \in 1 .. Len(r) : r[i] = q[f[i]]
  BY <1>2, <1>4
<1>8. QED
  BY <1>1, <1>5, <1>6, <1>7 DEF Rearranged

(* Nothing is handed out; a preparation may be given up.                   *)
LEMMA DispatchesNone ==
  ASSUME NEW q \in Seq(Entries), NEW prep, NEW less \in SUBSET prep, NEW ag
  PROVE  Dispatches(q, prep, ag, q, less, ag)
<1>1. PICK T : T = {}
  OBVIOUS
<1>2. PICK to \in [T -> Workers] : TRUE
  <2>1. [i \in T |-> i] \in [T -> Workers]
    BY <1>1
  <2>2. QED
    BY <2>1
<1>3. T \in SUBSET Available(q)
  BY <1>1
<1>4. QED
  BY <1>1, <1>2, <1>3 DEF Dispatches

LEMMA PositionFacts ==
  ASSUME NEW q \in Seq(Entries), NEW s, NEW types, Queued(q, s, types)
  PROVE  /\ Position(q, s, types) \in 1 .. Len(q)
         /\ q[Position(q, s, types)].sess = s /\ q[Position(q, s, types)].type \in types
<1> DEFINE I == {i \in 1 .. Len(q) : q[i].sess = s /\ q[i].type \in types}
<1>1. Len(q) \in Nat
  BY LenProperties
<1>2. I \subseteq Nat /\ I # {}
  BY <1>1 DEF Queued
<1>3. PICK x \in I : \A y \in I : x <= y
  BY <1>2, LeastIn
<1>4. \A j \in 1 .. x - 1 : ~(q[j].sess = s /\ q[j].type \in types)
  <2>1. ASSUME NEW j \in 1 .. x - 1, q[j].sess = s, q[j].type \in types PROVE FALSE
    <3>1. j \in I /\ j < x
      BY <2>1, <1>1
    <3>2. QED
      BY <3>1, <1>1, <1>3
  <2>2. QED
    BY <2>1
<1>5. x \in 1 .. Len(q) /\ q[x].sess = s /\ q[x].type \in types
  OBVIOUS
<1>6. QED
  BY <1>4, <1>5 DEF Position

LEMMA FlushPendingPollsFacts ==
  ASSUME NEW q \in Seq(Entries), NEW prep \in SUBSET Prepared, NEW ag \in [Workers -> Agents],
         polls \in Seq(Workers), FlushPendingPolls(q, prep, ag)
  PROVE  /\ queue' \in Seq(Entries) /\ polls' \in Seq(Workers)
         /\ preparing' \in SUBSET Prepared /\ agent' \in [Workers -> Agents] /\ timer' \in BOOLEAN
         /\ Dispatches(q, prep, ag, queue', preparing', agent')
<1>1. PICK d : d = Flush(q, polls, prep, ag)
  OBVIOUS
<1>2. queue' = d.queue /\ polls' = d.rest /\ preparing' = d.preparing /\ agent' = d.agent
      /\ timer' \in BOOLEAN
  BY <1>1 DEF FlushPendingPolls, Leased
<1>3. QED
  BY <1>1, <1>2, FlushDispatches

-----------------------------------------------------------------------------
(* The steps of the server and the agents                                  *)

(* What the server's variables always satisfy.                             *)
ServerInv ==
  /\ ServerTypeOK
  /\ \A w \in Workers : Shaped(agent[w])
  /\ ~up => queue = <<>> /\ polls = <<>> /\ preparing = {}

(* The agent goes on with nothing, or is only left to report.              *)
Eased(a, b) ==
  \/ b = a
  \/ b.sess = None /\ b.type = "none" /\ b.st \notin Busy
  \/ /\ b.sess = a.sess /\ b.type = a.type /\ b.variant = a.variant
     /\ a.st \in Busy /\ b.st \in {"cleanup"} \cup Completions

(* Most steps start no scaffolding's end and write no source: agents ease, *)
(* entries leave, free entries are handed out, and the journal of a        *)
(* session that some agent answers for goes on.                            *)
Routine ==
  /\ \E q \in Seq(Entries), ag \in [Workers -> Agents] :
       /\ Rearranged(queue, q) /\ \A w \in Workers : Eased(agent[w], ag[w])
       /\ Dispatches(q, preparing, ag, queue', preparing', agent')
  /\ \A s \in Sessions : \/ snap'[s] = snap[s]
                         \/ Continues(snap[s], snap'[s]) /\ \E w \in Workers : agent[w].sess = s
  /\ UNCHANGED <<up, source, receipt>> /\ faults' \in 0 .. MaxFaults /\ faults' >= faults

LEMMA DispatchedShaped ==
  ASSUME NEW q \in Seq(Entries), NEW prep, NEW ag, NEW q2, NEW prep2, NEW ag2,
         \A w \in Workers : Shaped(ag[w]), Dispatches(q, prep, ag, q2, prep2, ag2)
  PROVE  \A w \in Workers : Shaped(ag2[w])
<1>1. PICK T \in SUBSET Available(q) : \A w \in Workers : ag2[w] = ag[w] \/ \E i \in T : ag2[w] = leaseEvent(q[i])
  BY DEF Dispatches
<1>2. \A i \in T : q[i] \in Entries
  BY ElementOfSeq DEF Available
<1>3. QED
  BY <1>1, <1>2, LeaseEventTyped

LEMMA RearrangedIdentity ==
  ASSUME NEW q \in Seq(Entries) PROVE Rearranged(q, q)
BY RearrangedSame

LEMMA BroadcastTyped ==
  ASSUME ServerTypeOK, NEW m \in Messages
  PROVE  broadcast(m) \in Seq(Messages)
BY AppendProperties DEF broadcast, ServerTypeOK

LEMMA HandlePollPostStep ==
  ASSUME ServerInv, NEW w \in Workers, NEW type \in {"done", "complete", "agent_done", "discarded", "error"},
         NEW carbonize \in BOOLEAN, NEW types, NEW next \in Agents, Shaped(next), Eased(agent[w], next),
         agent[w].sess \in Sessions, handlePollPost(w, type, carbonize, types, next)
  PROVE  ServerInv' /\ Routine
<1>1. /\ up \in BOOLEAN /\ client \in BOOLEAN /\ snap \in [Sessions -> Snapshots] /\ queue \in Seq(Entries)
      /\ polls \in Seq(Workers) /\ sse \in Seq(Messages) /\ preparing \in SUBSET Prepared
      /\ agent \in [Workers -> Agents] /\ source \in [Sessions -> Sources] /\ receipt \in [Sessions -> Receipts]
      /\ faults \in 0 .. MaxFaults
  BY DEF ServerInv, ServerTypeOK, Prepared
<1>2. PICK s \in Sessions : s = agent[w].sess
  OBVIOUS
<1>3. PICK q : q = IF Queued(queue, s, types) THEN RemoveAt(queue, Position(queue, s, types)) ELSE queue
  OBVIOUS
<1>4. q \in Seq(Entries) /\ Rearranged(queue, q)
  BY <1>1, <1>3, PositionFacts, RemoveAtSeq, RearrangedRemove, RearrangedIdentity
<1>5. PICK ag : ag = [agent EXCEPT ![w] = next]
  OBVIOUS
<1>6. /\ ag \in [Workers -> Agents] /\ \A v \in Workers : Eased(agent[v], ag[v]) /\ Shaped(ag[v])
  <2>1. ag \in [Workers -> Agents] /\ \A v \in Workers : ag[v] = IF v = w THEN next ELSE agent[v]
    BY <1>1, <1>5
  <2>2. \A v \in Workers : Shaped(agent[v]) /\ Eased(agent[v], agent[v])
    BY DEF ServerInv, Eased
  <2>3. QED
    BY <2>1, <2>2
<1>7. FlushPendingPolls(q, preparing, ag)
  BY <1>2, <1>3, <1>5 DEF handlePollPost
<1>8. /\ queue' \in Seq(Entries) /\ polls' \in Seq(Workers)
      /\ preparing' \in SUBSET Prepared /\ agent' \in [Workers -> Agents] /\ timer' \in BOOLEAN
      /\ Dispatches(q, preparing, ag, queue', preparing', agent')
  BY <1>1, <1>4, <1>6, <1>7, FlushPendingPollsFacts
<1>9. \A v \in Workers : Shaped(agent'[v])
  BY <1>4, <1>6, <1>8, DispatchedShaped
<1>10. snap' \in [Sessions -> Snapshots]
       /\ \A t \in Sessions : snap'[t] = snap[t] \/ (Continues(snap[t], snap'[t]) /\ t = s)
  <2>1. PICK acked : snap' \in {snap, [snap EXCEPT ![s] = JournaledReply(snap[s], type, carbonize, acked)]}
    BY <1>2 DEF handlePollPost
  <2>2. PICK r : r = JournaledReply(snap[s], type, carbonize, acked)
    OBVIOUS
  <2>3. r \in Snapshots /\ Continues(snap[s], r)
    BY <1>1, <2>2, JournaledReplyFacts DEF Continues
  <2>4. snap' \in {snap, [snap EXCEPT ![s] = r]}
    BY <2>1, <2>2
  <2>5. QED
    BY <1>1, <2>3, <2>4
<1>11. sse' \in Seq(Messages)
  <2>1. [type |-> type, sess |-> s, carbonize |-> carbonize] \in Messages
    BY DEF Messages
  <2>2. sse' = broadcast([type |-> type, sess |-> s, carbonize |-> carbonize])
    BY <1>2 DEF handlePollPost
  <2>3. QED
    BY <2>1, <2>2, BroadcastTyped DEF ServerInv
<1>12. up /\ UNCHANGED <<up, client, source, receipt, faults>>
  BY DEF handlePollPost
<1>13. ServerInv'
  BY <1>1, <1>8, <1>9, <1>10, <1>11, <1>12 DEF ServerInv, ServerTypeOK, Prepared
<1>14. faults' \in 0 .. MaxFaults /\ faults' >= faults
  BY <1>1, <1>12, ServerAssumption
<1>15. \E v \in Workers : agent[v].sess = s
  BY <1>2
<1>16. QED
  BY <1>4, <1>6, <1>8, <1>10, <1>12, <1>13, <1>14, <1>15 DEF Routine

(* A step of one agent beside the queue.                                   *)
LEMMA AgentStep ==
  ASSUME ServerInv, NEW w \in Workers, NEW next \in Agents, Shaped(next), Eased(agent[w], next),
         agent' = [agent EXCEPT ![w] = next], preparing' \in SUBSET preparing, polls' \in Seq(Workers),
         ~up => polls' = <<>>, timer' \in BOOLEAN, snap' \in [Sessions -> Snapshots],
         \A t \in Sessions : snap'[t] = snap[t] \/ (Continues(snap[t], snap'[t]) /\ \E v \in Workers : agent[v].sess = t),
         faults' \in {faults, faults + 1}, faults' \in 0 .. MaxFaults,
         UNCHANGED <<up, queue, client, sse, source, receipt>>
  PROVE  ServerInv' /\ Routine
<1>1. /\ agent \in [Workers -> Agents] /\ queue \in Seq(Entries) /\ faults \in 0 .. MaxFaults
      /\ preparing \in SUBSET Prepared /\ \A v \in Workers : Shaped(agent[v])
  BY DEF ServerInv, ServerTypeOK, Prepared
<1>2. agent' \in [Workers -> Agents] /\ \A v \in Workers : agent'[v] = IF v = w THEN next ELSE agent[v]
  BY <1>1
<1>3. \A v \in Workers : Eased(agent[v], agent'[v]) /\ Shaped(agent'[v])
  <2>1. \A v \in Workers : Eased(agent[v], agent[v])
    BY DEF Eased
  <2>2. QED
    BY <1>1, <1>2, <2>1
<1>4. Dispatches(queue, preparing, agent', queue', preparing', agent') /\ Rearranged(queue, queue)
  BY <1>1, DispatchesNone, RearrangedIdentity
<1>5. ServerInv'
  BY <1>1, <1>2, <1>3 DEF ServerInv, ServerTypeOK, Prepared
<1>6. faults' >= faults
  BY <1>1, ServerAssumption
<1>7. QED
  BY <1>1, <1>2, <1>3, <1>4, <1>5, <1>6 DEF Routine

LEMMA IdleEases ==
  ASSUME NEW a PROVE Eased(a, Idle)
BY IdleTyped DEF Eased, Busy, Completions

LEMMA PollGetStep ==
  ASSUME ServerInv, NEW w \in Workers, PollGet(w)
  PROVE  ServerInv' /\ Routine
<1>1. /\ snap \in [Sessions -> Snapshots] /\ queue \in Seq(Entries) /\ polls \in Seq(Workers)
      /\ preparing \in SUBSET Prepared /\ agent \in [Workers -> Agents] /\ faults \in 0 .. MaxFaults
      /\ timer \in BOOLEAN /\ \A v \in Workers : Shaped(agent[v])
  BY DEF ServerInv, ServerTypeOK, Prepared
<1>2. up /\ agent[w] = Idle /\ UNCHANGED <<up, snap, client, sse, source, receipt, faults>>
  BY DEF PollGet
<1>3. CASE Available(queue) # {}
  <2>1. PICK d : d = Flush(queue, <<w>>, preparing, agent)
    OBVIOUS
  <2>2. queue' = d.queue /\ preparing' = d.preparing /\ agent' = d.agent /\ polls' = polls /\ timer' \in BOOLEAN
    BY <1>1, <1>3, <2>1 DEF PollGet, Leased
  <2>3. <<w>> \in Seq(Workers)
    OBVIOUS
  <2>4. /\ queue' \in Seq(Entries) /\ preparing' \in SUBSET Prepared /\ agent' \in [Workers -> Agents]
        /\ Dispatches(queue, preparing, agent, queue', preparing', agent')
    BY <1>1, <2>1, <2>2, <2>3, FlushDispatches
  <2>5. \A v \in Workers : Shaped(agent'[v])
    BY <1>1, <2>4, DispatchedShaped
  <2>6. ServerInv'
    BY <1>1, <1>2, <2>2, <2>4, <2>5 DEF ServerInv, ServerTypeOK, Prepared
  <2>7. \A v \in Workers : Eased(agent[v], agent[v])
    BY DEF Eased
  <2>8. faults' >= faults /\ faults' \in 0 .. MaxFaults
    BY <1>1, <1>2, ServerAssumption
  <2>9. QED
    BY <1>1, <1>2, <2>4, <2>6, <2>7, <2>8, RearrangedIdentity DEF Routine
<1>4. CASE Available(queue) = {}
  <2>1. /\ polls' = Append(polls, w) /\ agent' = [agent EXCEPT ![w].st = "parked"] /\ timer' = Leased(queue)
        /\ UNCHANGED <<queue, preparing>>
    BY <1>4 DEF PollGet
  <2>2. PICK next : next = [st |-> "parked", sess |-> None, type |-> "none", variant |-> 0]
    OBVIOUS
  <2>3. next \in Agents /\ Shaped(next) /\ Eased(agent[w], next)
    BY <2>2, VariantsAssumption DEF Agents, Shaped, Eased, Busy, Completions
  <2>4. agent' = [agent EXCEPT ![w] = next]
    <3>1. [Idle EXCEPT !.st = "parked"] = next
      BY <2>2 DEF Idle
    <3>2. agent' = [agent EXCEPT ![w] = [Idle EXCEPT !.st = "parked"]]
      BY <1>1, <1>2, <2>1
    <3>3. QED
      BY <3>1, <3>2
  <2>5. polls' \in Seq(Workers) /\ timer' \in BOOLEAN /\ preparing' \in SUBSET preparing
    BY <1>1, <2>1, AppendProperties DEF Leased
  <2>6. QED
    BY <1>1, <1>2, <2>1, <2>3, <2>4, <2>5, AgentStep
<1>5. QED
  BY <1>3, <1>4

LEMMA PollTimeoutStep ==
  ASSUME ServerInv, NEW w \in Workers, PollTimeout(w)
  PROVE  ServerInv' /\ Routine
<1>1. /\ snap \in [Sessions -> Snapshots] /\ queue \in Seq(Entries) /\ polls \in Seq(Workers)
      /\ preparing \in SUBSET Prepared /\ agent \in [Workers -> Agents] /\ faults \in 0 .. MaxFaults
      /\ timer \in BOOLEAN /\ \A v \in Workers : Shaped(agent[v])
  BY DEF ServerInv, ServerTypeOK, Prepared
<1>2. UNCHANGED <<up, snap, client, sse, source, receipt, faults>>
  BY DEF PollTimeout
<1>3. up
  <2>1. Available(queue) # {}
    BY DEF PollTimeout
  <2>2. queue # <<>>
    BY <2>1 DEF Available
  <2>3. QED
    BY <2>2 DEF ServerInv, ServerTypeOK
<1>4. PICK d : d = Flush(queue, <<w>>, preparing, agent)
  OBVIOUS
<1>5. queue' = d.queue /\ preparing' = d.preparing /\ agent' = d.agent /\ polls' = RemoveFirst(polls, w)
      /\ timer' \in BOOLEAN
  BY <1>1, <1>4 DEF PollTimeout, Leased
<1>6. <<w>> \in Seq(Workers)
  OBVIOUS
<1>7. /\ queue' \in Seq(Entries) /\ preparing' \in SUBSET Prepared /\ agent' \in [Workers -> Agents]
      /\ Dispatches(queue, preparing, agent, queue', preparing', agent')
  BY <1>1, <1>4, <1>5, <1>6, FlushDispatches
<1>8. \A v \in Workers : Shaped(agent'[v])
  BY <1>1, <1>7, DispatchedShaped
<1>9. polls' \in Seq(Workers)
  BY <1>1, <1>5, RemoveFirstSeq
<1>10. ServerInv'
  BY <1>1, <1>2, <1>3, <1>5, <1>7, <1>8, <1>9 DEF ServerInv, ServerTypeOK, Prepared
<1>11. \A v \in Workers : Eased(agent[v], agent[v])
  BY DEF Eased
<1>12. faults' >= faults /\ faults' \in 0 .. MaxFaults
  BY <1>1, <1>2, ServerAssumption
<1>13. QED
  BY <1>1, <1>2, <1>7, <1>10, <1>11, <1>12, RearrangedIdentity DEF Routine

LEMMA LeaseTimerStep ==
  ASSUME ServerInv, LeaseTimerFires
  PROVE  ServerInv' /\ Routine
<1>1. /\ snap \in [Sessions -> Snapshots] /\ queue \in Seq(Entries) /\ polls \in Seq(Workers)
      /\ preparing \in SUBSET Prepared /\ agent \in [Workers -> Agents] /\ faults \in 0 .. MaxFaults
      /\ timer \in BOOLEAN /\ \A v \in Workers : Shaped(agent[v])
  BY DEF ServerInv, ServerTypeOK, Prepared
<1>2. up /\ UNCHANGED <<up, snap, client, sse, source, receipt, faults>>
  BY DEF LeaseTimerFires
<1> DEFINE f(i) == IF queue[i].lease = "lapsed" THEN [queue[i] EXCEPT !.lease = "none"] ELSE queue[i]
<1>3. PICK q : q = [i \in 1 .. Len(queue) |-> f(i)]
  OBVIOUS
<1>4. Len(queue) \in Nat /\ \A i \in 1 .. Len(queue) : queue[i] \in Entries
  BY <1>1, LenProperties, ElementOfSeq
<1>5. ASSUME NEW i \in 1 .. Len(queue)
      PROVE  /\ f(i) \in Entries /\ f(i).sess = queue[i].sess /\ f(i).type = queue[i].type
             /\ f(i).variant = queue[i].variant /\ f(i).ready = queue[i].ready
             /\ queue[i].lease = "live" => f(i).lease = "live"
  <2>1. PICK e \in Entries : e = queue[i]
    BY <1>4
  <2>2. f(i) = IF e.lease = "lapsed" THEN [e EXCEPT !.lease = "none"] ELSE e
    BY <2>1
  <2> HIDE DEF f
  <2>3. /\ f(i) \in Entries /\ f(i).sess = e.sess /\ f(i).type = e.type
        /\ f(i).variant = e.variant /\ f(i).ready = e.ready
        /\ e.lease = "live" => f(i).lease = "live"
    BY <2>2 DEF Entries
  <2>4. QED
    BY <2>1, <2>3
<1>6. FlushPendingPolls(q, preparing, agent)
  BY <1>3 DEF LeaseTimerFires
<1> HIDE DEF f
<1>7. q \in [1 .. Len(queue) -> Entries] /\ \A i \in 1 .. Len(queue) : q[i] = f(i)
  BY <1>3, <1>5
<1>8. q \in Seq(Entries) /\ Len(q) = Len(queue)
  BY <1>4, <1>7, FunctionIsSeq
<1>9. Rearranged(queue, q)
  BY <1>1, <1>5, <1>7, <1>8, RearrangedSame
<1>10. /\ queue' \in Seq(Entries) /\ polls' \in Seq(Workers)
       /\ preparing' \in SUBSET Prepared /\ agent' \in [Workers -> Agents] /\ timer' \in BOOLEAN
       /\ Dispatches(q, preparing, agent, queue', preparing', agent')
  BY <1>1, <1>6, <1>8, FlushPendingPollsFacts
<1>11. \A v \in Workers : Shaped(agent'[v])
  BY <1>1, <1>8, <1>10, DispatchedShaped
<1>12. ServerInv'
  BY <1>1, <1>2, <1>10, <1>11 DEF ServerInv, ServerTypeOK, Prepared
<1>13. \A v \in Workers : Eased(agent[v], agent[v])
  BY DEF Eased
<1>14. faults' >= faults /\ faults' \in 0 .. MaxFaults
  BY <1>1, <1>2, ServerAssumption
<1>15. QED
  BY <1>1, <1>2, <1>8, <1>9, <1>10, <1>12, <1>13, <1>14 DEF Routine

LEMMA ReplyGenerateStep ==
  ASSUME ServerInv, NEW w \in Workers, NEW type \in {"done", "error"}, ReplyGenerate(w, type)
  PROVE  ServerInv' /\ Routine
<1>1. agent[w].sess \in Sessions
  BY DEF ReplyGenerate, ServerInv, Shaped, Busy
<1>2. handlePollPost(w, type, FALSE, inferSourceEventType(agent[w].sess, type), Idle)
  BY DEF ReplyGenerate
<1>3. QED
  BY <1>1, <1>2, IdleTyped, IdleEases, HandlePollPostStep

LEMMA ReplyDecisionStep ==
  ASSUME ServerInv, NEW w \in Workers, ReplyDecision(w)
  PROVE  ServerInv' /\ Routine
<1>1. PICK a \in Agents : a = agent[w]
  BY DEF ServerInv, ServerTypeOK
<1>2. a.st \in Completions /\ Shaped(a) /\ a.sess \in Sessions
  BY <1>1 DEF ReplyDecision, ServerInv, Shaped, Busy
<1>3. PICK carbonize \in BOOLEAN : carbonize = (a.st = "carbonize")
  OBVIOUS
<1>4. PICK type : type = IF carbonize THEN "agent_done" ELSE a.st
  OBVIOUS
<1>5. type \in {"done", "complete", "agent_done", "discarded", "error"}
  BY <1>2, <1>3, <1>4 DEF Completions
<1>6. PICK next : next = IF carbonize THEN [a EXCEPT !.st = "cleanup"] ELSE Idle
  OBVIOUS
<1>7. handlePollPost(w, type, carbonize, {a.type}, next)
  BY <1>1, <1>3, <1>4, <1>6 DEF ReplyDecision
<1>8. next \in Agents /\ Shaped(next) /\ Eased(a, next)
  <2>1. CASE carbonize
    <3>1. next \in Agents /\ next.st = "cleanup" /\ next.sess = a.sess /\ next.type = a.type
          /\ next.variant = a.variant
      BY <1>6, <2>1 DEF Agents
    <3>2. QED
      BY <3>1, <1>2 DEF Shaped, Eased, Busy, Completions, Types
  <2>2. CASE ~carbonize
    BY <1>6, <2>2, IdleTyped, IdleEases
  <2>3. QED
    BY <2>1, <2>2
<1>9. QED
  BY <1>1, <1>2, <1>5, <1>7, <1>8, HandlePollPostStep

LEMMA CompleteStep ==
  ASSUME ServerInv, NEW w \in Workers, Complete(w)
  PROVE  ServerInv' /\ Routine
<1>1. agent[w].st = "cleanup" /\ agent[w].sess \in Sessions
  BY DEF Complete, ServerInv, Shaped, Busy
<1>2. CASE up
  <2>1. handlePollPost(w, "complete", FALSE, inferSourceEventType(agent[w].sess, "complete"), Idle)
    BY <1>2 DEF Complete
  <2>2. QED
    BY <1>1, <2>1, IdleTyped, IdleEases, HandlePollPostStep
<1>3. CASE ~up
  <2>1. PICK s \in Sessions : s = agent[w].sess
    BY <1>1
  <2>2. /\ snap' = [snap EXCEPT ![s] = ApplyTerminal(snap[s], "completed")]
        /\ agent' = [agent EXCEPT ![w] = Idle]
        /\ UNCHANGED <<up, queue, polls, preparing, timer, client, sse, source, receipt, faults>>
    BY <1>3, <2>1 DEF Complete
  <2>3. /\ snap \in [Sessions -> Snapshots] /\ polls \in Seq(Workers) /\ timer \in BOOLEAN
        /\ faults \in 0 .. MaxFaults /\ polls = <<>>
    BY <1>3 DEF ServerInv, ServerTypeOK
  <2>4. PICK r : r = ApplyTerminal(snap[s], "completed")
    OBVIOUS
  <2>5. r \in Snapshots /\ Continues(snap[s], r)
    <3>1. "completed" \in Phases
      BY DEF Phases, FencedPhases
    <3>2. QED
      BY <2>3, <2>4, <3>1, TerminalFacts DEF Continues
  <2>6. snap' \in [Sessions -> Snapshots]
        /\ \A t \in Sessions : snap'[t] = snap[t] \/ (Continues(snap[t], snap'[t]) /\ t = s)
    BY <2>2, <2>3, <2>4, <2>5
  <2>7. \A t \in Sessions : snap'[t] = snap[t] \/ (Continues(snap[t], snap'[t]) /\ \E v \in Workers : agent[v].sess = t)
    BY <2>1, <2>6
  <2>8. QED
    BY <2>2, <2>3, <2>6, <2>7, IdleTyped, IdleEases, AgentStep
<1>4. QED
  BY <1>2, <1>3

LEMMA ReplyLostStep ==
  ASSUME ServerInv, NEW w \in Workers, ReplyLost(w)
  PROVE  ServerInv' /\ Routine
<1>1. /\ ~up /\ agent' = [agent EXCEPT ![w] = Idle]
      /\ UNCHANGED <<up, snap, queue, polls, preparing, timer, client, sse, source, receipt, faults>>
  BY DEF ReplyLost
<1>2. /\ snap \in [Sessions -> Snapshots] /\ polls \in Seq(Workers) /\ timer \in BOOLEAN
      /\ faults \in 0 .. MaxFaults /\ polls = <<>>
  BY <1>1 DEF ServerInv, ServerTypeOK
<1>3. QED
  BY <1>1, <1>2, IdleTyped, IdleEases, AgentStep

LEMMA LeaseFailsStep ==
  ASSUME ServerInv, NEW p \in preparing, LeaseFails(p)
  PROVE  ServerInv' /\ Routine
<1>1. /\ snap \in [Sessions -> Snapshots] /\ polls \in Seq(Workers) /\ timer \in BOOLEAN
      /\ faults \in 0 .. MaxFaults /\ queue \in Seq(Entries) /\ agent \in [Workers -> Agents]
      /\ p.to \in Workers \cup {None} /\ preparing \in SUBSET Prepared
  BY DEF ServerInv, ServerTypeOK, Prepared
<1>2. /\ up /\ faults < MaxFaults /\ preparing' = preparing \ {p} /\ faults' = faults + 1
      /\ agent' = IF p.to = None THEN agent ELSE [agent EXCEPT ![p.to] = Idle]
      /\ UNCHANGED <<up, snap, queue, polls, timer, client, sse, source, receipt>>
  BY DEF LeaseFails
<1>3. faults' \in 0 .. MaxFaults /\ faults' >= faults
  BY <1>1, <1>2, ServerAssumption
<1>4. CASE p.to # None
  BY <1>1, <1>2, <1>3, <1>4, IdleTyped, IdleEases, AgentStep
<1>5. CASE p.to = None
  <2>1. agent' = agent
    BY <1>2, <1>5
  <2>2. ServerInv'
    BY <1>1, <1>2, <1>3, <2>1 DEF ServerInv, ServerTypeOK
  <2>3. Dispatches(queue, preparing, agent, queue', preparing', agent')
    BY <1>1, <1>2, <2>1, DispatchesNone
  <2>4. \A v \in Workers : Eased(agent[v], agent[v])
    BY DEF Eased
  <2>5. QED
    BY <1>1, <1>2, <1>3, <2>2, <2>3, <2>4, RearrangedIdentity DEF Routine
<1>6. QED
  BY <1>4, <1>5

LEMMA AcceptFailsStep ==
  ASSUME ServerInv, NEW w \in Workers, AcceptFails(w)
  PROVE  ServerInv' /\ Routine
<1>1. /\ snap \in [Sessions -> Snapshots] /\ polls \in Seq(Workers) /\ timer \in BOOLEAN
      /\ faults \in 0 .. MaxFaults /\ agent \in [Workers -> Agents] /\ (~up => polls = <<>>)
      /\ Shaped(agent[w])
  BY DEF ServerInv, ServerTypeOK
<1>2. /\ agent[w].st = "work" /\ agent[w].type \in {"accept", "discard"} /\ faults < MaxFaults
      /\ agent' = [agent EXCEPT ![w].st = "error"] /\ faults' = faults + 1
      /\ UNCHANGED <<up, snap, queue, polls, preparing, timer, client, sse, source, receipt>>
  BY DEF AcceptFails
<1>3. PICK next : next = [agent[w] EXCEPT !.st = "error"]
  OBVIOUS
<1>4. next \in Agents /\ next.st = "error" /\ next.sess = agent[w].sess /\ next.type = agent[w].type
      /\ next.variant = agent[w].variant
  BY <1>1, <1>3 DEF Agents, Completions
<1>5. Shaped(next) /\ Eased(agent[w], next)
  BY <1>1, <1>2, <1>4 DEF Shaped, Eased, Busy, Completions
<1>6. agent' = [agent EXCEPT ![w] = next]
  BY <1>1, <1>2, <1>3
<1>7. faults' \in 0 .. MaxFaults
  BY <1>1, <1>2, ServerAssumption
<1>8. QED
  BY <1>1, <1>2, <1>4, <1>5, <1>6, <1>7, AgentStep

(* live-accept finds the wrapper of an undecided session and writes.       *)
Applies(w, next) ==
  /\ agent[w].st = "work" /\ agent[w].type \in {"accept", "discard"} /\ agent[w].sess \in Sessions
  /\ receipt[agent[w].sess] = NoReceipt /\ source[agent[w].sess].st = "wrapped"
  /\ source' = [source EXCEPT ![agent[w].sess] = AcceptWrites(agent[w])]
  /\ next \in Agents /\ next.st = "written" /\ next.sess = agent[w].sess /\ next.type = agent[w].type
  /\ next.variant = agent[w].variant
  /\ agent' = [agent EXCEPT ![w] = next]
  /\ UNCHANGED <<up, snap, queue, polls, preparing, timer, client, sse, receipt, faults>>

LEMMA RunAcceptStep ==
  ASSUME ServerInv, NEW w \in Workers, RunAccept(w)
  PROVE  ServerInv' /\ (Routine \/ \E next : Applies(w, next))
<1>1. /\ snap \in [Sessions -> Snapshots] /\ polls \in Seq(Workers) /\ timer \in BOOLEAN
      /\ faults \in 0 .. MaxFaults /\ agent \in [Workers -> Agents] /\ (~up => polls = <<>>)
      /\ Shaped(agent[w]) /\ source \in [Sessions -> Sources]
  BY DEF ServerInv, ServerTypeOK
<1>2. PICK a \in Agents : a = agent[w]
  BY <1>1
<1>3. /\ a.st = "work" /\ a.type \in {"accept", "discard"} /\ a.sess \in Sessions /\ a.variant \in 0 .. Variants
      /\ UNCHANGED <<up, snap, queue, polls, preparing, timer, client, sse, receipt, faults>>
  BY <1>1, <1>2 DEF RunAccept, Shaped, Busy, Agents
<1>4. CASE AcceptAnswered(a) # "apply"
  <2>1. PICK answer : answer = AcceptAnswered(a)
    OBVIOUS
  <2>2. answer \in Completions
    <3>1. \A c : Handled(a.type, c) \in {"discarded", "carbonize", "complete"}
      BY <1>3 DEF Handled
    <3>2. answer \in {"discarded", "carbonize", "complete", "error", "agent_done"}
      BY <1>4, <2>1, <3>1 DEF AcceptAnswered
    <3>3. QED
      BY <3>2 DEF Completions
  <2>3. agent' = [agent EXCEPT ![w].st = answer] /\ UNCHANGED source
    BY <1>2, <1>4, <2>1 DEF RunAccept
  <2>4. PICK next : next = [a EXCEPT !.st = answer]
    OBVIOUS
  <2>5. next \in Agents /\ next.st = answer /\ next.sess = a.sess /\ next.type = a.type
        /\ next.variant = a.variant
    BY <2>2, <2>4 DEF Agents, Completions
  <2>6. Shaped(next) /\ Eased(a, next)
    BY <1>3, <2>2, <2>5 DEF Shaped, Eased, Busy, Completions, Types
  <2>7. agent' = [agent EXCEPT ![w] = next]
    BY <1>1, <1>2, <2>3, <2>4
  <2>8. QED
    BY <1>1, <1>2, <1>3, <2>3, <2>5, <2>6, <2>7, AgentStep
<1>5. CASE AcceptAnswered(a) = "apply"
  <2>1. receipt[a.sess] = NoReceipt /\ source[a.sess].st = "wrapped"
    <3>1. \A c : Handled(a.type, c) # "apply"
      BY <1>3 DEF Handled
    <3>2. QED
      BY <1>5, <3>1 DEF AcceptAnswered
  <2>2. source' = [source EXCEPT ![a.sess] = AcceptWrites(a)] /\ agent' = [agent EXCEPT ![w].st = "written"]
    BY <1>2, <1>5 DEF RunAccept
  <2>3. PICK next : next = [a EXCEPT !.st = "written"]
    OBVIOUS
  <2>4. next \in Agents /\ next.st = "written" /\ next.sess = a.sess /\ next.type = a.type
        /\ next.variant = a.variant
    BY <2>3 DEF Agents
  <2>5. agent' = [agent EXCEPT ![w] = next]
    BY <1>1, <1>2, <2>2, <2>3
  <2>6. AcceptWrites(a) \in Sources
    <3>1. PICK src \in Sources : src = source[a.sess]
      BY <1>1, <1>3
    <3>2. PICK kept \in 0 .. Variants : kept = IF a.type = "accept" THEN a.variant ELSE 0
      BY <1>3, VariantsAssumption
    <3>3. PICK st \in {"accepted", "plain"} : st = IF a.type = "accept" THEN "accepted" ELSE "plain"
      OBVIOUS
    <3>4. AcceptWrites(a) = [src EXCEPT !.st = st, !.n = 0, !.kept = kept]
      BY <3>1, <3>2, <3>3 DEF AcceptWrites
    <3>5. 0 \in 0 .. Variants
      BY VariantsAssumption
    <3>6. [src EXCEPT !.st = st, !.n = 0, !.kept = kept] \in Sources
      BY ONLY <3>5, src \in Sources, st \in {"accepted", "plain"}, kept \in 0 .. Variants DEF Sources
    <3>7. QED
      BY <3>4, <3>6
  <2>7. source' \in [Sessions -> Sources]
    BY <1>1, <2>2, <2>6
  <2>8. Shaped(next)
    BY <1>3, <2>4 DEF Shaped, Busy, Completions, Types
  <2>9. agent' \in [Workers -> Agents] /\ \A v \in Workers : agent'[v] = IF v = w THEN next ELSE agent[v]
    BY <1>1, <2>4, <2>5
  <2>10. ServerInv'
    BY <1>3, <2>7, <2>8, <2>9 DEF ServerInv, ServerTypeOK
  <2>11. Applies(w, next)
    BY <1>2, <1>3, <2>1, <2>2, <2>4, <2>5 DEF Applies
  <2>12. QED
    BY <2>10, <2>11
<1>6. QED
  BY <1>4, <1>5

(* live-accept records what it has done.                                   *)
Registers(w, next, r) ==
  /\ agent[w].st = "written" /\ agent[w].sess \in Sessions /\ agent[w].type \in {"accept", "discard"}
  /\ r \in Receipts /\ r # NoReceipt /\ receipt' = [receipt EXCEPT ![agent[w].sess] = r]
  /\ next \in Agents /\ next.st \in Completions /\ next.sess = agent[w].sess /\ next.type = agent[w].type
  /\ next.variant = agent[w].variant
  /\ agent' = [agent EXCEPT ![w] = next]
  /\ UNCHANGED <<up, snap, queue, polls, preparing, timer, client, sse, source, faults>>

LEMMA WriteReceiptStep ==
  ASSUME ServerInv, NEW w \in Workers, NEW carbonize \in BOOLEAN, WriteReceipt(w, carbonize)
  PROVE  ServerInv' /\ \E next, r : Registers(w, next, r)
<1>1. /\ agent \in [Workers -> Agents] /\ Shaped(agent[w]) /\ receipt \in [Sessions -> Receipts]
  BY DEF ServerInv, ServerTypeOK
<1>2. PICK a \in Agents : a = agent[w]
  BY <1>1
<1>3. /\ a.st = "written" /\ a.type \in {"accept", "discard"} /\ a.sess \in Sessions /\ a.variant \in 0 .. Variants
      /\ UNCHANGED <<up, snap, queue, polls, preparing, timer, client, sse, source, faults>>
  BY <1>1, <1>2 DEF WriteReceipt, Shaped, Busy, Agents
<1>4. PICK v : v = IF a.type = "accept" THEN a.variant ELSE 0
  OBVIOUS
<1>5. PICK r : r = [op |-> a.type, variant |-> v, carbonize |-> carbonize]
  OBVIOUS
<1>6. r \in Receipts /\ r # NoReceipt
  <2>1. v \in 0 .. Variants
    BY <1>3, <1>4, VariantsAssumption
  <2>2. r \in Receipts /\ r.op # "none"
    BY <1>3, <1>5, <2>1 DEF Receipts
  <2>3. NoReceipt.op = "none"
    BY DEF NoReceipt
  <2>4. QED
    BY <2>2, <2>3
<1>7. receipt' = [receipt EXCEPT ![a.sess] = r]
  BY <1>2, <1>4, <1>5 DEF WriteReceipt
<1>8. PICK answer : answer = Handled(a.type, carbonize)
  OBVIOUS
<1>9. answer \in Completions
  BY <1>3, <1>8 DEF Handled, Completions
<1>10. PICK next : next = [a EXCEPT !.st = answer]
  OBVIOUS
<1>11. next \in Agents /\ next.st = answer /\ next.sess = a.sess /\ next.type = a.type /\ next.variant = a.variant
  BY <1>9, <1>10 DEF Agents, Completions
<1>12. agent' = [agent EXCEPT ![w] = next]
  BY <1>1, <1>2, <1>8, <1>10 DEF WriteReceipt
<1>13. Shaped(next)
  BY <1>3, <1>9, <1>11 DEF Shaped, Busy, Completions, Types
<1>14. agent' \in [Workers -> Agents] /\ \A u \in Workers : agent'[u] = IF u = w THEN next ELSE agent[u]
  BY <1>1, <1>11, <1>12
<1>15. receipt' \in [Sessions -> Receipts]
  BY <1>1, <1>3, <1>6, <1>7
<1>16. ServerInv'
  BY <1>3, <1>13, <1>14, <1>15 DEF ServerInv, ServerTypeOK
<1>17. Registers(w, next, r)
  BY <1>2, <1>3, <1>6, <1>7, <1>9, <1>11, <1>12 DEF Registers
<1>18. QED
  BY <1>16, <1>17

(* The agent of a generate writes the source, which is marked when a       *)
(* decision is already in it.                                              *)
Publishes(w) ==
  /\ agent[w].st = "work" /\ agent[w].type = "generate" /\ agent[w].sess \in Sessions
  /\ \E src : /\ src.st = "wrapped" /\ source' = [source EXCEPT ![agent[w].sess] = src]
              /\ src.late \/ (Undecided(agent[w].sess) /\ ~source[agent[w].sess].late)
  /\ UNCHANGED <<up, snap, queue, preparing, agent, receipt, faults>>

LEMMA PublishStep ==
  ASSUME ServerInv, NEW w \in Workers, NEW n \in 0 .. Variants, Publish(w, n)
  PROVE  ServerInv' /\ Publishes(w)
<1>1. source \in [Sessions -> Sources] /\ Shaped(agent[w])
  BY DEF ServerInv, ServerTypeOK
<1>2. agent[w].st = "work" /\ agent[w].type = "generate"
      /\ UNCHANGED <<up, snap, queue, polls, preparing, timer, client, sse, agent, receipt, faults>>
  BY DEF Publish
<1>3. PICK s \in Sessions : s = agent[w].sess
  BY <1>1, <1>2 DEF Shaped, Busy
<1>4. PICK late : late = (source[s].late \/ ~Undecided(s))
  OBVIOUS
<1>5. source' = [source EXCEPT ![s] = [st |-> "wrapped", n |-> n, kept |-> 0, late |-> late]]
  BY <1>3, <1>4 DEF Publish
<1>6. late \in BOOLEAN /\ (late \/ (Undecided(s) /\ ~source[s].late))
  BY <1>4
<1>7. PICK src : src = [st |-> "wrapped", n |-> n, kept |-> 0, late |-> late]
  OBVIOUS
<1>8. src \in Sources /\ src.st = "wrapped" /\ src.late = late
  BY <1>6, <1>7, VariantsAssumption DEF Sources
<1>9. source' = [source EXCEPT ![s] = src]
  BY <1>5, <1>7
<1>10. source' \in [Sessions -> Sources]
  BY <1>1, <1>8, <1>9
<1>11. ServerInv'
  BY <1>2, <1>10 DEF ServerInv, ServerTypeOK, Shaped
<1>12. QED
  BY <1>2, <1>3, <1>6, <1>8, <1>9, <1>11 DEF Publishes

(* A generate is scaffolded: its journal and its entry say so, and nothing *)
(* else of the journals and the queue changes.                             *)
Scaffolded(p) ==
  /\ up /\ UNCHANGED <<up, source, receipt, faults>>
  /\ p \in preparing /\ p.sess \in Sessions /\ preparing' = preparing \ {p}
  /\ \A t \in Sessions \ {p.sess} : snap'[t] = snap[t]
  /\ snap'[p.sess].ready /\ snap'[p.sess].pending = "generate"
  /\ snap'[p.sess].canceled = snap[p.sess].canceled /\ snap'[p.sess].visible = snap[p.sess].visible
  /\ Len(queue') = Len(queue)
  /\ \A i \in 1 .. Len(queue) :
       /\ queue'[i].sess = queue[i].sess /\ queue'[i].type = queue[i].type
       /\ queue'[i].variant = queue[i].variant
       /\ queue'[i] = queue[i] \/ (queue[i].type = "generate" /\ queue[i].sess = p.sess)
  /\ Queued(queue, p.sess, {"generate"}) =>
       \E k \in 1 .. Len(queue) : /\ queue[k].type = "generate" /\ queue[k].sess = p.sess
                                  /\ queue'[k].lease = "live" /\ queue'[k].ready
  /\ \E next : /\ next.st = "work" /\ next.sess = p.sess /\ next.type = "generate"
               /\ \A w \in Workers : agent'[w] = IF w = p.to THEN next ELSE agent[w]

LEMMA LeaseReadyStep ==
  ASSUME ServerInv, NEW p \in preparing, LeaseReady(p)
  PROVE  ServerInv' /\ Scaffolded(p)
<1>1. /\ up \in BOOLEAN /\ snap \in [Sessions -> Snapshots] /\ queue \in Seq(Entries) /\ polls \in Seq(Workers)
      /\ preparing \in SUBSET Prepared /\ agent \in [Workers -> Agents] /\ faults \in 0 .. MaxFaults
      /\ source \in [Sessions -> Sources] /\ p.to \in Workers \cup {None}
      /\ \A v \in Workers : Shaped(agent[v])
  BY DEF ServerInv, ServerTypeOK, Prepared
<1>2. PICK s \in Sessions : s = p.sess
  BY <1>1 DEF Prepared
<1>3. /\ up /\ UNCHANGED <<up, polls, client, sse, source, receipt, faults>> /\ preparing' = preparing \ {p}
      /\ snap' = [snap EXCEPT ![s] = ApplyGenerate(snap[s], TRUE)]
      /\ timer' = Leased(queue')
      /\ agent' = IF p.to = None THEN agent
                  ELSE [agent EXCEPT ![p.to] = [st |-> "work", sess |-> s, type |-> "generate", variant |-> 0]]
  BY <1>2 DEF LeaseReady
<1>4. /\ snap' \in [Sessions -> Snapshots] /\ \A t \in Sessions \ {s} : snap'[t] = snap[t]
      /\ snap'[s].ready /\ snap'[s].pending = "generate"
      /\ snap'[s].canceled = snap[s].canceled /\ snap'[s].visible = snap[s].visible
  <2>1. PICK n \in Snapshots : n = snap[s]
    BY <1>1
  <2>2. PICK r : r = ApplyGenerate(n, TRUE)
    OBVIOUS
  <2>3. r \in Snapshots /\ r.ready /\ r.pending = "generate" /\ r.canceled = n.canceled /\ r.visible = n.visible
    BY <2>2 DEF ApplyGenerate, Snapshots, Phases, PendingTypes
  <2>4. snap' = [snap EXCEPT ![s] = r]
    BY <1>3, <2>1, <2>2
  <2>5. QED
    BY <1>1, <2>1, <2>3, <2>4
<1>5. /\ queue' \in Seq(Entries) /\ Len(queue') = Len(queue)
      /\ \A i \in 1 .. Len(queue) :
           /\ queue'[i].sess = queue[i].sess /\ queue'[i].type = queue[i].type
           /\ queue'[i].variant = queue[i].variant
           /\ queue'[i] = queue[i] \/ (queue[i].type = "generate" /\ queue[i].sess = s)
      /\ Queued(queue, s, {"generate"}) =>
           \E k \in 1 .. Len(queue) : /\ queue[k].type = "generate" /\ queue[k].sess = s
                                      /\ queue'[k].lease = "live" /\ queue'[k].ready
  <2>1. CASE ~Queued(queue, s, {"generate"})
    <3>1. queue' = queue
      BY <1>2, <2>1 DEF LeaseReady
    <3>2. QED
      BY <1>1, <2>1, <3>1
  <2>2. CASE Queued(queue, s, {"generate"})
    <3>1. PICK k \in 1 .. Len(queue) : k = Position(queue, s, {"generate"}) /\ queue[k].sess = s
                                       /\ queue[k].type = "generate"
      BY <1>1, <2>2, PositionFacts
    <3>2. queue' = [queue EXCEPT ![k].lease = "live", ![k].ready = TRUE]
      BY <1>2, <2>2, <3>1 DEF LeaseReady
    <3>3. PICK e \in Entries : e = queue[k]
      BY <1>1, <3>1, ElementOfSeq
    <3>4. PICK r : r = [e EXCEPT !.lease = "live", !.ready = TRUE]
      OBVIOUS
    <3>5. r \in Entries /\ r.sess = e.sess /\ r.type = e.type /\ r.variant = e.variant /\ r.lease = "live" /\ r.ready
      BY <3>4 DEF Entries
    <3>6. queue' = [queue EXCEPT ![k] = r]
      BY <1>1, <3>1, <3>2, <3>3, <3>4
    <3>7. queue' \in Seq(Entries) /\ Len(queue') = Len(queue)
          /\ \A i \in 1 .. Len(queue) : queue'[i] = IF i = k THEN r ELSE queue[i]
      BY <1>1, <3>1, <3>5, <3>6, ExceptSeq
    <3>8. QED
      BY <3>1, <3>3, <3>5, <3>7
  <2>3. QED
    BY <2>1, <2>2
<1>6. source' \in [Sessions -> Sources]
  BY <1>1, <1>3
<1>7. PICK next : next = [st |-> "work", sess |-> s, type |-> "generate", variant |-> 0]
  OBVIOUS
<1>8. next \in Agents /\ Shaped(next) /\ next.st = "work" /\ next.sess = s /\ next.type = "generate"
  BY <1>7, VariantsAssumption DEF Agents, Shaped, Busy, Completions, Types
<1>9. agent' \in [Workers -> Agents] /\ \A w \in Workers : agent'[w] = IF w = p.to THEN next ELSE agent[w]
  <2>1. None \notin Workers
    BY ServerAssumption
  <2>2. agent' = IF p.to = None THEN agent ELSE [agent EXCEPT ![p.to] = next]
    BY <1>3, <1>7
  <2>3. QED
    BY <1>1, <1>8, <2>1, <2>2
<1>10. timer' \in BOOLEAN /\ preparing' \in SUBSET Prepared
  BY <1>1, <1>3 DEF Leased
<1>11. ServerInv'
  <2>1. ServerTypeOK'
    BY <1>1, <1>3, <1>4, <1>5, <1>6, <1>9, <1>10 DEF ServerInv, ServerTypeOK, Prepared
  <2>2. \A v \in Workers : Shaped(agent'[v])
    BY <1>1, <1>8, <1>9
  <2>3. QED
    BY <1>3, <2>1, <2>2 DEF ServerInv
<1>12. Scaffolded(p)
  <2>1. up /\ UNCHANGED <<up, source, receipt, faults>> /\ preparing' = preparing \ {p}
    BY <1>3
  <2>2. \E r : /\ r.st = "work" /\ r.sess = s /\ r.type = "generate"
              /\ \A w \in Workers : agent'[w] = IF w = p.to THEN r ELSE agent[w]
    BY <1>8, <1>9
  <2>3. QED
    BY ONLY <1>2, <1>4, <1>5, <2>1, <2>2, p \in preparing DEF Scaffolded
<1>13. QED
  BY <1>11, <1>12

(* A lease lapses, in spite of its agent or after it.                      *)
Lapses(i) ==
  /\ up /\ i \in 1 .. Len(queue) /\ queue[i].lease = "live"
  /\ \A p \in preparing : p.sess # queue[i].sess
  /\ Len(queue') = Len(queue) /\ \A j \in 1 .. Len(queue) \ {i} : queue'[j] = queue[j]
  /\ queue'[i].sess = queue[i].sess /\ queue'[i].type = queue[i].type
  /\ queue'[i].variant = queue[i].variant /\ queue'[i].ready = queue[i].ready /\ queue'[i].lease = "lapsed"
  /\ faults' = IF Held(queue[i]) THEN faults + 1 ELSE faults
  /\ UNCHANGED <<up, snap, polls, preparing, agent, source, receipt>>

LEMMA LeaseLapsesStep ==
  ASSUME ServerInv, NEW i \in 1 .. Len(queue), LeaseLapses(i)
  PROVE  ServerInv' /\ Lapses(i)
<1>1. queue \in Seq(Entries) /\ faults \in 0 .. MaxFaults
  BY DEF ServerInv, ServerTypeOK
<1>2. /\ up /\ queue[i].lease = "live" /\ \A p \in preparing : p.sess # queue[i].sess
      /\ queue' = [queue EXCEPT ![i].lease = "lapsed"]
      /\ IF Held(queue[i]) THEN faults < MaxFaults /\ faults' = faults + 1 ELSE faults' = faults
      /\ UNCHANGED <<up, snap, polls, preparing, timer, client, sse, agent, source, receipt>>
  BY DEF LeaseLapses
<1>3. PICK e \in Entries : e = queue[i]
  BY <1>1, ElementOfSeq
<1>4. PICK r : r = [e EXCEPT !.lease = "lapsed"]
  OBVIOUS
<1>5. r \in Entries /\ r.sess = e.sess /\ r.type = e.type /\ r.variant = e.variant /\ r.ready = e.ready
      /\ r.lease = "lapsed"
  BY <1>4 DEF Entries
<1>6. queue' = [queue EXCEPT ![i] = r]
  BY <1>1, <1>2, <1>3, <1>4
<1>7. queue' \in Seq(Entries) /\ Len(queue') = Len(queue)
      /\ \A j \in 1 .. Len(queue) : queue'[j] = IF j = i THEN r ELSE queue[j]
  BY <1>1, <1>5, <1>6, ExceptSeq
<1>8. faults' \in 0 .. MaxFaults
  BY <1>1, <1>2, ServerAssumption
<1>9. up /\ up' /\ UNCHANGED <<up, snap, polls, preparing, timer, client, sse, agent, source, receipt>>
  BY <1>2
<1>10. ServerInv'
  BY <1>7, <1>8, <1>9 DEF ServerInv, ServerTypeOK
<1>11. Lapses(i)
  BY <1>2, <1>3, <1>5, <1>7 DEF Lapses
<1>12. QED
  BY <1>10, <1>11

(* An agent is gone: what it prepared for goes on without it.              *)
Leaves(w) ==
  /\ agent' = [agent EXCEPT ![w] = Idle] /\ faults' = faults + 1
  /\ \A r \in preparing' : \E p \in preparing : r.sess = p.sess /\ (r = p \/ (p.to = w /\ r.to = None))
  /\ \A r, t \in preparing' : r.sess = t.sess =>
       r = t \/ \E p, u \in preparing : p # u /\ p.sess = r.sess /\ u.sess = r.sess
  /\ UNCHANGED <<up, snap, queue, source, receipt>>

LEMMA AgentDiesStep ==
  ASSUME ServerInv, NEW w \in Workers, AgentDies(w)
  PROVE  ServerInv' /\ Leaves(w)
<1>1. /\ agent \in [Workers -> Agents] /\ polls \in Seq(Workers) /\ preparing \in SUBSET Prepared
      /\ faults \in 0 .. MaxFaults /\ \A v \in Workers : Shaped(agent[v])
      /\ (~up => queue = <<>> /\ polls = <<>> /\ preparing = {})
  BY DEF ServerInv, ServerTypeOK, Prepared
<1> DEFINE f(p) == IF p.to = w THEN [p EXCEPT !.to = None] ELSE p
<1>2. /\ agent' = [agent EXCEPT ![w] = Idle] /\ polls' = RemoveFirst(polls, w)
      /\ preparing' = {f(p) : p \in preparing} /\ faults < MaxFaults /\ faults' = faults + 1
      /\ UNCHANGED <<up, snap, queue, timer, client, sse, source, receipt>>
  BY DEF AgentDies
<1>3. \A p \in Prepared : f(p) \in Prepared /\ f(p).sess = p.sess /\ (f(p) = p \/ (p.to = w /\ f(p).to = None))
  BY DEF Prepared
<1> HIDE DEF f
<1>4. preparing' \in SUBSET Prepared
  BY <1>1, <1>2, <1>3
<1>5. polls' \in Seq(Workers) /\ (~up => polls' = <<>>)
  BY <1>1, <1>2, RemoveFirstSeq
<1>6. agent' \in [Workers -> Agents] /\ \A v \in Workers : agent'[v] = IF v = w THEN Idle ELSE agent[v]
  BY <1>1, <1>2, IdleTyped
<1>7. faults' \in 0 .. MaxFaults
  BY <1>1, <1>2, ServerAssumption
<1>8. ~up => preparing' = {}
  BY <1>1, <1>2
<1>9. ServerInv'
  <2>1. UNCHANGED <<up, snap, queue, timer, client, sse, source, receipt>>
    BY <1>2
  <2>2. ServerTypeOK'
    BY <1>4, <1>5, <1>6, <1>7, <2>1 DEF ServerInv, ServerTypeOK, Prepared
  <2>3. \A v \in Workers : Shaped(agent'[v])
    BY <1>1, <1>6, IdleTyped
  <2>4. QED
    BY <1>1, <1>5, <1>8, <2>1, <2>2, <2>3 DEF ServerInv
<1>10. Leaves(w)
  <2>1. \A r \in preparing' : \E p \in preparing : r = f(p)
    BY <1>2
  <2>2. \A r \in preparing' : \E p \in preparing : r.sess = p.sess /\ (r = p \/ (p.to = w /\ r.to = None))
    BY <1>1, <1>3, <2>1
  <2>3. ASSUME NEW r \in preparing', NEW t \in preparing', r.sess = t.sess
        PROVE  r = t \/ \E p, u \in preparing : p # u /\ p.sess = r.sess /\ u.sess = r.sess
    <3>1. PICK p \in preparing, u \in preparing : r = f(p) /\ t = f(u)
      BY <2>1
    <3>2. p.sess = r.sess /\ u.sess = r.sess
      BY <1>1, <1>3, <2>3, <3>1
    <3>3. QED
      BY <3>1, <3>2
  <2>4. QED
    BY <1>2, <2>2, <2>3 DEF Leaves
<1>11. QED
  BY <1>9, <1>10

LEMMA CrashStep ==
  ASSUME ServerInv, Crash
  PROVE  /\ ServerInv' /\ \A w \in Workers : Eased(agent[w], agent'[w])
         /\ up /\ ~up' /\ queue' = <<>> /\ preparing' = {} /\ faults' = faults + 1
         /\ UNCHANGED <<snap, source, receipt>>
<1>1. /\ agent \in [Workers -> Agents] /\ faults \in 0 .. MaxFaults
      /\ \A v \in Workers : Shaped(agent[v])
  BY DEF ServerInv, ServerTypeOK
<1>2. /\ up /\ up' = FALSE /\ queue' = <<>> /\ polls' = <<>> /\ preparing' = {} /\ timer' = FALSE
      /\ client' = FALSE /\ sse' = <<>> /\ UNCHANGED <<snap, source, receipt>>
      /\ faults' = faults + 1 /\ faults < MaxFaults
  BY DEF Crash
<1>3. agent' = [w \in Workers |-> IF agent[w].st \in {"parked", "waiting"} THEN Idle ELSE agent[w]]
  BY DEF Crash
<1>4. \A w \in Workers : agent'[w] \in {Idle, agent[w]}
  BY <1>3
<1>5. agent' \in [Workers -> Agents]
  BY <1>1, <1>3, IdleTyped
<1>6. \A w \in Workers : Shaped(agent'[w]) /\ Eased(agent[w], agent'[w])
  <2>1. \A w \in Workers : Eased(agent[w], agent[w])
    BY DEF Eased
  <2>2. QED
    BY <1>1, <1>4, <2>1, IdleTyped, IdleEases
<1>7. faults' \in 0 .. MaxFaults
  BY <1>1, <1>2, ServerAssumption
<1>8. queue' \in Seq(Entries) /\ polls' \in Seq(Workers) /\ sse' \in Seq(Messages)
  BY <1>2
<1>9. ServerInv'
  BY <1>2, <1>5, <1>6, <1>7, <1>8 DEF ServerInv, ServerTypeOK
<1>10. QED
  BY <1>2, <1>6, <1>9

(* The events that the journals owe come back, one for a session.          *)
Restores ==
  /\ ~up /\ up' /\ UNCHANGED <<snap, preparing, agent, source, receipt, faults>>
  /\ \A i \in 1 .. Len(queue') :
       /\ queue'[i].sess \in Sessions
       /\ snap[queue'[i].sess].pending = queue'[i].type /\ queue'[i].ready = snap[queue'[i].sess].ready
       /\ queue'[i].type = "accept" => queue'[i].variant = snap[queue'[i].sess].visible
       /\ queue'[i].lease = "none"
  /\ \A i, j \in 1 .. Len(queue') : queue'[i].sess = queue'[j].sess => i = j

LEMMA RestartStep ==
  ASSUME ServerInv, Restart
  PROVE  ServerInv' /\ Restores
<1>1. snap \in [Sessions -> Snapshots]
  BY DEF ServerInv, ServerTypeOK
<1>2. /\ ~up /\ up' = TRUE /\ queue' = RestoredQueue
      /\ UNCHANGED <<snap, polls, preparing, timer, client, sse, agent, source, receipt, faults>>
  BY DEF Restart
<1> DEFINE owed == {s \in Sessions : snap[s].phase \notin CompletedPhases /\ snap[s].pending # "none"}
           entry(s) == [sess |-> s, type |-> snap[s].pending,
                        variant |-> IF snap[s].pending = "accept" THEN snap[s].visible ELSE 0,
                        lease |-> "none", ready |-> snap[s].ready]
<1>3. PICK order : order = SetToSeq(owed)
  OBVIOUS
<1>4. PICK c \in Nat : /\ c = Cardinality(owed) /\ order \in [1 .. c -> owed]
                       /\ \A i, j \in 1 .. c : order[i] = order[j] => i = j
  <2>1. IsFiniteSet(owed)
    <3>1. owed \subseteq Sessions /\ IsFiniteSet(Sessions)
      BY ServerAssumption
    <3>2. QED
      BY <3>1, FS_Subset
  <2>2. QED
    BY <1>3, <2>1, SetToSeqLists
<1>5. Len(order) = c
  BY <1>4, FunctionIsSeq
<1>6. queue' = [i \in 1 .. c |-> entry(order[i])]
  BY <1>2, <1>3, <1>5 DEF RestoredQueue
<1>7. ASSUME NEW s \in owed
      PROVE  /\ entry(s) \in Entries /\ entry(s).sess = s /\ entry(s).type = snap[s].pending
             /\ entry(s).ready = snap[s].ready /\ entry(s).lease = "none"
             /\ entry(s).type = "accept" => entry(s).variant = snap[s].visible
  <2>1. PICK n \in Snapshots : n = snap[s]
    BY <1>1
  <2>2. s \in Sessions /\ n.pending # "none"
    BY <2>1
  <2>3. PICK v : v = IF n.pending = "accept" THEN n.visible ELSE 0
    OBVIOUS
  <2>4. v \in 0 .. Variants /\ n.pending \in Types /\ n.ready \in BOOLEAN
    BY <2>2, <2>3, VariantsAssumption DEF Snapshots, PendingTypes, Types
  <2>5. entry(s) = [sess |-> s, type |-> n.pending, variant |-> v, lease |-> "none", ready |-> n.ready]
    BY <2>1, <2>3
  <2> HIDE DEF entry
  <2>6. QED
    BY <2>1, <2>2, <2>3, <2>4, <2>5 DEF Entries
<1> HIDE DEF owed, entry
<1>8. \A i \in 1 .. c : queue'[i] = entry(order[i]) /\ order[i] \in owed /\ queue'[i] \in Entries
  BY <1>4, <1>6, <1>7
<1>9. queue' \in Seq(Entries) /\ Len(queue') = c
  <2>1. queue' \in [1 .. c -> Entries]
    BY <1>6, <1>8
  <2>2. QED
    BY <2>1, FunctionIsSeq
<1>10. ServerInv'
  <2>1. up' = TRUE /\ UNCHANGED <<snap, polls, preparing, timer, client, sse, agent, source, receipt, faults>>
    BY <1>2
  <2>2. QED
    BY <1>9, <2>1 DEF ServerInv, ServerTypeOK
<1>11. Restores
  <2>1. ASSUME NEW i \in 1 .. c
        PROVE  /\ queue'[i].sess = order[i] /\ queue'[i].sess \in Sessions
               /\ snap[queue'[i].sess].pending = queue'[i].type /\ queue'[i].ready = snap[queue'[i].sess].ready
               /\ queue'[i].type = "accept" => queue'[i].variant = snap[queue'[i].sess].visible
               /\ queue'[i].lease = "none"
    <3>1. PICK s \in owed : s = order[i] /\ queue'[i] = entry(s)
      BY <1>8
    <3>2. s \in Sessions
      BY <3>1 DEF owed
    <3>3. QED
      BY <1>7, <3>1, <3>2
  <2>2. ~up /\ up' /\ UNCHANGED <<snap, preparing, agent, source, receipt, faults>>
    BY <1>2
  <2>3. QED
    BY <1>4, <1>9, <2>1, <2>2 DEF Restores
<1>12. QED
  BY <1>10, <1>11

(* A request is journaled: a decision may retire the generate, an event    *)
(* may join the queue, free events are handed out.                         *)
Takes(m) ==
  /\ up /\ UNCHANGED <<up, source, receipt, faults>>
  /\ m.type = "generate" \/ snap[m.sess].exists
  /\ snap' = [snap EXCEPT ![m.sess] = Journaled(snap[m.sess], m)]
  /\ \E q, r \in Seq(Entries) :
       /\ Rearranged(queue, q)
       /\ \/ r = q
          \/ /\ ~Queued(q, m.sess, {m.type}) /\ Len(r) = Len(q) + 1
             /\ \A i \in 1 .. Len(q) : r[i] = q[i]
             /\ r[Len(r)].sess = m.sess /\ r[Len(r)].type = m.type /\ r[Len(r)].variant = m.visible
             /\ r[Len(r)].lease = "none" /\ ~r[Len(r)].ready
       /\ Dispatches(r, preparing, agent, queue', preparing', agent')

LEMMA PostEventStep ==
  ASSUME ServerInv, NEW m \in Requests, PostEvent(m)
  PROVE  ServerInv' /\ Takes(m)
<1>1. /\ up \in BOOLEAN /\ client \in BOOLEAN /\ timer \in BOOLEAN /\ snap \in [Sessions -> Snapshots]
      /\ queue \in Seq(Entries) /\ polls \in Seq(Workers) /\ sse \in Seq(Messages)
      /\ preparing \in SUBSET Prepared /\ agent \in [Workers -> Agents]
      /\ \A v \in Workers : Shaped(agent[v])
  BY DEF ServerInv, ServerTypeOK, Prepared
<1>2. m.type \in {"generate", "checkpoint", "accept", "discard"} /\ m.visible \in 0 .. Variants
  BY DEF Requests
<1>3. PICK s \in Sessions : s = m.sess
  BY DEF Requests
<1>4. PICK q : q = IF m.type \in {"accept", "discard"} THEN retirePendingGeneration(queue, s) ELSE queue
  OBVIOUS
<1>5. q \in Seq(Entries) /\ Rearranged(queue, q)
  <2>1. retirePendingGeneration(queue, s) \in Seq(Entries) /\ Rearranged(queue, retirePendingGeneration(queue, s))
    BY <1>1, PositionFacts, RemoveAtSeq, RearrangedRemove, RearrangedIdentity DEF retirePendingGeneration
  <2>2. QED
    BY <1>1, <1>4, <2>1, RearrangedIdentity
<1>6. PICK r : r = IF m.type = "checkpoint" \/ m.orphaned THEN q ELSE Enqueued(q, s, m.type, m.visible, FALSE)
  OBVIOUS
<1>7. /\ r \in Seq(Entries)
      /\ \/ r = q
         \/ /\ ~Queued(q, s, {m.type}) /\ Len(r) = Len(q) + 1
            /\ \A i \in 1 .. Len(q) : r[i] = q[i]
            /\ r[Len(r)].sess = s /\ r[Len(r)].type = m.type /\ r[Len(r)].variant = m.visible
            /\ r[Len(r)].lease = "none" /\ ~r[Len(r)].ready
  <2>1. CASE r = q
    BY <1>5, <2>1
  <2>2. CASE r # q
    <3>1. PICK e : e = [sess |-> s, type |-> m.type, variant |-> m.visible, lease |-> "none", ready |-> FALSE]
      OBVIOUS
    <3>2. ~Queued(q, s, {m.type}) /\ r = Append(q, e) /\ m.type # "checkpoint"
      BY <1>6, <2>2, <3>1 DEF Enqueued
    <3>3. e \in Entries /\ e.sess = s /\ e.type = m.type /\ e.variant = m.visible /\ e.lease = "none" /\ ~e.ready
      BY <1>2, <3>1, <3>2 DEF Entries, Types
    <3>4. r \in Seq(Entries) /\ Len(r) = Len(q) + 1 /\ (\A i \in 1 .. Len(q) : r[i] = q[i]) /\ r[Len(q) + 1] = e
      BY <1>5, <3>2, <3>3, AppendProperties
    <3>5. QED
      BY <3>2, <3>3, <3>4
  <2>3. QED
    BY <2>1, <2>2
<1>8. /\ up /\ KnownSession(m) /\ snap' = [snap EXCEPT ![s] = Journaled(snap[s], m)]
      /\ UNCHANGED <<up, client, source, receipt, faults>>
  BY <1>3 DEF PostEvent
<1>9. IF r # q THEN FlushPendingPolls(r, preparing, agent)
      ELSE /\ queue' = q /\ timer' \in {Leased(q), timer}
           /\ UNCHANGED <<polls, preparing, agent>>
  BY <1>3, <1>4, <1>6 DEF PostEvent
<1>10. /\ queue' \in Seq(Entries) /\ polls' \in Seq(Workers) /\ timer' \in BOOLEAN
       /\ preparing' \in SUBSET Prepared /\ agent' \in [Workers -> Agents]
       /\ Dispatches(r, preparing, agent, queue', preparing', agent')
  <2>1. CASE r # q
    BY <1>1, <1>7, <1>9, <2>1, FlushPendingPollsFacts
  <2>2. CASE r = q
    <3>1. queue' = q /\ timer' \in {Leased(q), timer} /\ UNCHANGED <<polls, preparing, agent>>
      BY <1>9, <2>2
    <3>2. Dispatches(q, preparing, agent, q, preparing, agent)
      BY <1>5, DispatchesNone
    <3>3. QED
      BY <1>1, <1>5, <2>2, <3>1, <3>2 DEF Leased
  <2>3. QED
    BY <2>1, <2>2
<1>11. \A v \in Workers : Shaped(agent'[v])
  BY <1>1, <1>7, <1>10, DispatchedShaped
<1>12. snap' \in [Sessions -> Snapshots]
  <2>1. Journaled(snap[s], m) \in Snapshots
    BY <1>1, JournaledFacts
  <2>2. QED
    BY <1>1, <1>8, <2>1
<1>13. sse' \in Seq(Messages)
  <2>1. [type |-> "done", sess |-> s, carbonize |-> FALSE] \in Messages
    BY DEF Messages
  <2>2. sse' \in {sse, broadcast([type |-> "done", sess |-> s, carbonize |-> FALSE])}
    BY <1>3 DEF PostEvent
  <2>3. QED
    BY <1>1, <2>1, <2>2, BroadcastTyped DEF ServerInv
<1>14. ServerInv'
  <2>1. up /\ UNCHANGED <<up, client, source, receipt, faults>>
    BY <1>8
  <2>2. QED
    BY <1>10, <1>11, <1>12, <1>13, <2>1 DEF ServerInv, ServerTypeOK, Prepared
<1>15. Takes(m)
  <2>1. m.type = "generate" \/ snap[s].exists
    BY <1>3, <1>8 DEF KnownSession
  <2>2. up /\ UNCHANGED <<up, source, receipt, faults>> /\ snap' = [snap EXCEPT ![s] = Journaled(snap[s], m)]
    BY <1>8
  <2>3. QED
    BY <1>3, <1>5, <1>7, <1>10, <2>1, <2>2 DEF Takes
<1>16. QED
  BY <1>14, <1>15

-----------------------------------------------------------------------------
(* The steps of the page                                                   *)

PageInv ==
  /\ page \in Pages /\ saved \in Records /\ handled \in Sessions \cup {None}
  /\ started \subseteq Sessions /\ clicks \in 0 .. MaxClicks
  /\ posts \subseteq Requests /\ answers \subseteq Replies /\ reads \subseteq Reads

LEMMA PostTyped ==
  ASSUME NEW pg \in Pages, NEW type \in {"generate", "checkpoint", "accept", "discard"}, NEW s \in Sessions,
         NEW orphaned \in BOOLEAN
  PROVE  /\ Post(pg, type, s, orphaned) \in Requests
         /\ Post(pg, type, s, orphaned).type = type /\ Post(pg, type, s, orphaned).sess = s
         /\ Post(pg, type, s, orphaned).orphaned = orphaned
<1>1. PICK v : v = IF type = "accept" THEN pg.visible ELSE 0
  OBVIOUS
<1>2. PICK after : after = IF type = "generate" THEN None ELSE pg.gate
  OBVIOUS
<1>3. v \in 0 .. Variants /\ after \in Sessions \cup {None} /\ 0 \in 0 .. Variants /\ "new" \in Phases
  BY <1>1, <1>2, VariantsAssumption DEF Pages, Phases
<1>4. Post(pg, type, s, orphaned)
        = [type |-> type, sess |-> s, phase |-> "new", arrived |-> 0, visible |-> v, revision |-> 0,
           file |-> FALSE, orphaned |-> orphaned, after |-> after, listening |-> TRUE]
  BY <1>1, <1>2 DEF Post
<1>5. QED
  BY <1>3, <1>4 DEF Requests

LEMMA CheckpointTyped ==
  ASSUME NEW pg \in Pages, pg.sess \in Sessions
  PROVE  Checkpoint(pg) \in Requests /\ Checkpoint(pg).type = "checkpoint"
<1>1. PICK p : p = Post(pg, "checkpoint", pg.sess, FALSE)
  OBVIOUS
<1>2. p \in Requests /\ p.type = "checkpoint"
  <2>1. PICK b \in BOOLEAN, s \in Sessions : b = FALSE /\ s = pg.sess
    OBVIOUS
  <2>2. p = Post(pg, "checkpoint", s, b)
    BY <1>1, <2>1
  <2>3. QED
    BY <2>2, PostTyped
<1>3. PICK phase : phase = PhaseOf(pg.st)
  OBVIOUS
<1>4. phase \in Phases
  BY <1>3 DEF PhaseOf, Phases, Pages, States
<1>5. PICK a \in 0 .. Variants, v \in 0 .. Variants, f \in BOOLEAN, n \in Nat :
        a = pg.arrived /\ v = pg.visible /\ f = pg.file /\ n = pg.revision + 1
  BY DEF Pages
<1>6. Checkpoint(pg) = [p EXCEPT !.phase = phase, !.arrived = a, !.visible = v, !.file = f, !.revision = n]
  BY <1>1, <1>3, <1>5 DEF Checkpoint
<1>7. [p EXCEPT !.phase = phase, !.arrived = a, !.visible = v, !.file = f, !.revision = n] \in Requests
  BY <1>2, <1>4 DEF Requests
<1>8. [p EXCEPT !.phase = phase, !.arrived = a, !.visible = v, !.file = f, !.revision = n].type = p.type
  BY <1>2 DEF Requests
<1>9. QED
  BY <1>2, <1>6, <1>7, <1>8

LEMMA CountedTyped ==
  ASSUME NEW pg \in Pages
  PROVE  Counted(pg) \in Pages /\ Counted(pg).captures = pg.captures /\ Counted(pg).sess = pg.sess
BY DEF Counted, Pages

LEMMA CleanupTyped ==
  ASSUME NEW pg \in Pages
  PROVE  /\ cleanup(pg) \in Pages /\ cleanup(pg).captures = pg.captures
         /\ cleanupAcceptedSession(pg) \in Pages /\ cleanupAcceptedSession(pg).captures = pg.captures
<1>1. cleanup(pg) \in Pages /\ cleanup(pg).captures = pg.captures
  BY DEF cleanup, Pages, States
<1>2. PICK c \in Pages : c = cleanup(pg)
  BY <1>1
<1>3. cleanupAcceptedSession(pg) = [c EXCEPT !.pending = None]
  BY <1>2 DEF cleanupAcceptedSession
<1>4. QED
  BY <1>1, <1>2, <1>3 DEF Pages

LEMMA RepairedTyped ==
  ASSUME NEW pg \in Pages, pg.arrived > 0
  PROVE  /\ Repaired(pg) \in Pages /\ Repaired(pg).captures = pg.captures /\ Repaired(pg).sess = pg.sess
         /\ Repaired(pg).visible \in 1 .. pg.arrived /\ Repaired(pg).arrived = pg.arrived
<1>1. pg.arrived \in 1 .. Variants
  BY VariantsAssumption DEF Pages
<1>2. PICK v : v = IF InRange(pg.visible, pg.arrived) THEN pg.visible ELSE 1
  OBVIOUS
<1>3. v \in 1 .. pg.arrived /\ v \in 0 .. Variants
  <2>1. v \in 1 .. pg.arrived
    BY <1>1, <1>2 DEF InRange
  <2>2. QED
    BY <1>1, <2>1, VariantsAssumption
<1>4. Repaired(pg) = [pg EXCEPT !.visible = v]
  BY <1>2 DEF Repaired
<1>5. QED
  BY <1>3, <1>4 DEF Pages

LEMMA NotSavedTyped == NotSaved \in Records
BY VariantsAssumption DEF NotSaved, Records, States

LEMMA FreshPageTyped == FreshPage \in Pages /\ FreshPage.captures = {}
BY VariantsAssumption DEF FreshPage, Pages, States

LEMMA SaveTyped ==
  ASSUME PageInv, NEW pg \in Pages
  PROVE  Save(pg) \in Records
<1>1. CASE pg.sess = None
  BY <1>1 DEF Save, PageInv
<1>2. CASE pg.sess # None
  <2>1. Save(pg) = [sess |-> pg.sess, st |-> pg.st, arrived |-> pg.arrived, visible |-> pg.visible,
                    file |-> pg.file, revision |-> pg.revision]
    BY <1>2 DEF Save
  <2>2. /\ pg.sess \in Sessions \cup {None} /\ pg.st \in States /\ pg.arrived \in 0 .. Variants
        /\ pg.visible \in 0 .. Variants /\ pg.file \in BOOLEAN /\ pg.revision \in Nat
    BY DEF Pages
  <2>3. QED
    BY <2>1, <2>2 DEF Records
<1>3. QED
  BY <1>1, <1>2

LEMMA ShownTyped ==
  ASSUME PageInv, NEW s, NEW n \in Int, n <= Variants, NEW before
  PROVE  Shown(s, n, before) \in 0 .. Variants
<1>1. saved.visible \in 0 .. Variants
  BY DEF PageInv, Records
<1>2. \A v : InRange(v, n) => v \in 0 .. Variants
  BY VariantsAssumption DEF InRange
<1>3. (IF n > 0 THEN 1 ELSE 0) \in 0 .. Variants
  BY VariantsAssumption
<1>4. QED
  BY <1>1, <1>2, <1>3 DEF Shown

LEMMA RestoredTyped ==
  ASSUME NEW pg \in Pages, NEW local \in Records,
         NEW server, server.arrived \in 0 .. Variants, server.visible \in 0 .. Variants, server.file \in BOOLEAN
  PROVE  /\ Restored(pg, local, server) \in Pages /\ Restored(pg, local, server).captures = pg.captures
         /\ Restored(pg, local, server).sess = local.sess
<1>1. /\ local.arrived \in 0 .. Variants /\ local.visible \in 0 .. Variants /\ local.file \in BOOLEAN
      /\ local.sess \in Sessions \cup {None}
  BY DEF Records
<1>2. PICK arrived : arrived = IF local.arrived > 0 THEN local.arrived ELSE server.arrived
  OBVIOUS
<1>3. PICK top : top = IF arrived > 0 THEN arrived ELSE Variants
  OBVIOUS
<1>4. PICK v : v = CASE InRange(local.visible, top) -> local.visible
                     [] ~InRange(local.visible, top) /\ InRange(server.visible, top) -> server.visible
                     [] OTHER -> IF arrived > 0 THEN 1 ELSE 0
  OBVIOUS
<1>5. arrived \in 0 .. Variants
  BY <1>1, <1>2
<1>6. v \in 0 .. Variants
  <2>1. (IF arrived > 0 THEN 1 ELSE 0) \in 0 .. Variants
    BY <1>5, VariantsAssumption
  <2>2. QED
    BY <1>1, <1>4, <2>1
<1>7. PICK file : file = (pg.file \/ local.file \/ server.file)
  OBVIOUS
<1>8. Restored(pg, local, server)
        = [pg EXCEPT !.sess = local.sess, !.st = "GENERATING", !.file = file, !.arrived = arrived,
                     !.checkpoint = TRUE, !.visible = v]
  BY <1>2, <1>3, <1>4, <1>7 DEF Restored
<1>9. file \in BOOLEAN
  BY <1>7
<1>10. PICK s \in Sessions \cup {None} : s = local.sess
  BY <1>1
<1>11. PICK r : r = [pg EXCEPT !.sess = s, !.st = "GENERATING", !.file = file, !.arrived = arrived,
                               !.checkpoint = TRUE, !.visible = v]
  OBVIOUS
<1>12. r \in Pages
  BY ONLY <1>5, <1>6, <1>9, <1>11, pg \in Pages, s \in Sessions \cup {None} DEF Pages, States
<1>13. r.captures = pg.captures /\ r.sess = s
  BY ONLY <1>11, pg \in Pages DEF Pages
<1>14. QED
  BY <1>8, <1>10, <1>11, <1>12, <1>13

(* Only checkpoints and discards are new among the requests Q; the others  *)
(* were in P before, none of them twice.                                   *)
PostsQuiet(P, Q) ==
  /\ \A r \in Q : r.type \in {"checkpoint", "discard"} \/ \E p \in P : p.type = r.type /\ p.sess = r.sess
  /\ \A r, t \in Q :
       r.type \in {"generate", "accept"} /\ t.type = r.type =>
         r = t \/ \E p, u \in P : p # u /\ p.type = r.type /\ u.type = r.type /\ p.sess = r.sess /\ u.sess = t.sess

(* A step of the page that creates and accepts nothing.                    *)
Quiet ==
  /\ UNCHANGED <<up, snap, queue, preparing, agent, source, receipt, started>>
  /\ faults' >= faults /\ clicks' >= clicks /\ page'.captures \subseteq page.captures
  /\ PostsQuiet(posts, posts')

LEMMA PostsSubset ==
  ASSUME NEW P, NEW Q \in SUBSET P PROVE PostsQuiet(P, Q)
BY DEF PostsQuiet

LEMMA PostsMore ==
  ASSUME NEW P, NEW Q, NEW m, PostsQuiet(P, Q), m.type \in {"checkpoint", "discard"}
  PROVE  PostsQuiet(P, Q \cup {m})
BY DEF PostsQuiet

LEMMA ServerSame ==
  ASSUME ServerInv, UNCHANGED serverVars
  PROVE  /\ ServerInv' /\ UNCHANGED <<up, snap, queue, preparing, agent, source, receipt>>
         /\ faults' >= faults
<1>1. UNCHANGED <<up, snap, queue, polls, preparing, timer, client, sse, agent, source, receipt, faults>>
  BY DEF serverVars
<1>2. faults \in 0 .. MaxFaults
  BY DEF ServerInv, ServerTypeOK
<1>3. ServerInv'
  BY <1>1 DEF ServerInv, ServerTypeOK
<1>4. QED
  BY <1>1, <1>2, <1>3, ServerAssumption

LEMMA ClicksSame ==
  ASSUME PageInv, clicks' = clicks PROVE clicks' >= clicks /\ clicks' \in 0 .. MaxClicks
BY PageAssumption DEF PageInv

LEMMA SelectVariantStep ==
  ASSUME ServerInv, PageInv, NEW v \in 1 .. Variants, selectVariant(v)
  PROVE  ServerInv' /\ PageInv' /\ Quiet
<1>1. PICK pg : pg = [page EXCEPT !.visible = v, !.checkpoint = TRUE]
  OBVIOUS
<1>2. pg \in Pages /\ pg.captures = page.captures
  <2>1. page \in Pages /\ v \in 0 .. Variants
    BY VariantsAssumption DEF PageInv
  <2>2. QED
    BY <1>1, <2>1 DEF Pages
<1>3. page' = pg /\ saved' = Save(pg) /\ UNCHANGED <<serverVars, handled, started, posts, answers, reads, clicks>>
  BY <1>1 DEF selectVariant, Keep
<1>4. ServerInv' /\ UNCHANGED <<up, snap, queue, preparing, agent, source, receipt>> /\ faults' >= faults
  BY <1>3, ServerSame
<1>5. PageInv'
  BY <1>2, <1>3, SaveTyped DEF PageInv
<1>6. clicks' >= clicks /\ PostsQuiet(posts, posts')
  BY <1>3, ClicksSame, PostsSubset
<1>7. QED
  BY <1>2, <1>3, <1>4, <1>5, <1>6 DEF Quiet

LEMMA HandleDiscardStep ==
  ASSUME ServerInv, PageInv, handleDiscard
  PROVE  ServerInv' /\ PageInv' /\ Quiet
<1>1. page.sess \in Sessions /\ clicks \in 0 .. MaxClicks /\ clicks < MaxClicks /\ clicks' = clicks + 1
  BY DEF handleDiscard, PageInv, Pages
<1>2. PICK m : m = Post(page, "discard", page.sess, FALSE)
  OBVIOUS
<1>3. m \in Requests /\ m.type = "discard"
  <2>1. page \in Pages
    BY DEF PageInv
  <2>2. PICK b \in BOOLEAN, s \in Sessions : b = FALSE /\ s = page.sess
    BY <1>1
  <2>3. m = Post(page, "discard", s, b)
    BY <1>2, <2>2
  <2>4. QED
    BY <2>1, <2>3, PostTyped
<1>4. posts' = posts \cup {m} /\ UNCHANGED <<serverVars, page, saved, handled, started, answers, reads>>
  BY <1>2 DEF handleDiscard
<1>5. ServerInv' /\ UNCHANGED <<up, snap, queue, preparing, agent, source, receipt>> /\ faults' >= faults
  BY <1>4, ServerSame
<1>6. PostsQuiet(posts, posts')
  BY <1>3, <1>4, PostsSubset, PostsMore
<1>7. clicks' >= clicks /\ clicks' \in 0 .. MaxClicks
  BY <1>1, PageAssumption
<1>8. PageInv'
  BY <1>3, <1>4, <1>7 DEF PageInv
<1>9. QED
  BY <1>4, <1>5, <1>6, <1>7, <1>8 DEF Quiet

LEMMA AnsweredTyped ==
  ASSUME PageInv, NEW p \in Requests, NEW ok \in BOOLEAN
  PROVE  Answered(p, ok) \subseteq Replies
<1>1. Answer(p, ok) \in Replies
  BY DEF Answer, Replies, Requests
<1>2. QED
  BY <1>1 DEF Answered, PageInv

LEMMA LoseStep ==
  ASSUME ServerInv, PageInv, NEW p \in posts, Lose(p)
  PROVE  ServerInv' /\ PageInv' /\ Quiet
<1>1. /\ posts' = posts \ {p} /\ answers' \in {answers, Answered(p, FALSE)}
      /\ UNCHANGED <<serverVars, page, saved, handled, started, reads, clicks>>
  BY DEF Lose
<1>2. ServerInv' /\ UNCHANGED <<up, snap, queue, preparing, agent, source, receipt>> /\ faults' >= faults
  BY <1>1, ServerSame
<1>3. answers' \subseteq Replies
  <2>1. PICK b \in BOOLEAN : b = FALSE
    OBVIOUS
  <2>2. p \in Requests /\ answers' \in {answers, Answered(p, b)}
    BY <1>1, <2>1 DEF PageInv
  <2>3. QED
    BY <2>2, AnsweredTyped DEF PageInv
<1>4. PageInv'
  BY <1>1, <1>3 DEF PageInv
<1>5. clicks' >= clicks /\ PostsQuiet(posts, posts')
  BY <1>1, ClicksSame, PostsSubset
<1>6. QED
  BY <1>1, <1>2, <1>4, <1>5 DEF Quiet

LEMMA CreationAnsweredStep ==
  ASSUME ServerInv, PageInv, NEW a \in answers, CreationAnswered(a)
  PROVE  ServerInv' /\ PageInv' /\ Quiet
<1> DEFINE f(p) == IF p.after = a.sess THEN [p EXCEPT !.after = None] ELSE p
<1>1. /\ answers' = answers \ {a} /\ posts' = {f(p) : p \in posts}
      /\ UNCHANGED <<serverVars, saved, handled, started, reads, clicks>>
  BY DEF CreationAnswered
<1>2. page' \in Pages /\ page'.captures = page.captures
  <2>1. PICK g : g = IF page.gate = a.sess THEN None ELSE page.gate
    OBVIOUS
  <2>2. page \in Pages /\ g \in Sessions \cup {None}
    BY <2>1 DEF PageInv, Pages
  <2>3. page' = [page EXCEPT !.gate = g]
    BY <2>1, <2>2 DEF CreationAnswered
  <2>4. QED
    BY <2>2, <2>3 DEF Pages
<1>3. \A p \in Requests : f(p) \in Requests /\ f(p).type = p.type /\ f(p).sess = p.sess
  BY DEF Requests
<1> HIDE DEF f
<1>4. posts \subseteq Requests /\ posts' \subseteq Requests /\ \A r \in posts' : \E p \in posts : r = f(p)
  BY <1>1, <1>3 DEF PageInv
<1>5. PostsQuiet(posts, posts')
  <2>1. \A r \in posts' : \E p \in posts : p.type = r.type /\ p.sess = r.sess
    BY <1>3, <1>4
  <2>2. ASSUME NEW r \in posts', NEW t \in posts', t.type = r.type
        PROVE  r = t \/ \E p, u \in posts : p # u /\ p.type = r.type /\ u.type = r.type /\ p.sess = r.sess /\ u.sess = t.sess
    <3>1. PICK p \in posts, u \in posts : r = f(p) /\ t = f(u)
      BY <1>4
    <3>2. p.type = r.type /\ u.type = r.type /\ p.sess = r.sess /\ u.sess = t.sess
      BY <1>3, <1>4, <2>2, <3>1
    <3>3. QED
      BY <3>1, <3>2
  <2>3. QED
    BY <2>1, <2>2 DEF PostsQuiet
<1>6. ServerInv' /\ UNCHANGED <<up, snap, queue, preparing, agent, source, receipt>> /\ faults' >= faults
  BY <1>1, ServerSame
<1>7. PageInv'
  BY <1>1, <1>2, <1>4 DEF PageInv
<1>8. clicks' >= clicks
  BY <1>1, ClicksSame
<1>9. QED
  BY <1>1, <1>2, <1>5, <1>6, <1>7, <1>8 DEF Quiet

LEMMA PageStep ==
  ASSUME ServerInv, PageInv, UNCHANGED <<serverVars, started, clicks>>,
         page' \in Pages, page'.captures = page.captures, saved' \in Records, handled' \in Sessions \cup {None},
         answers' \subseteq Replies, reads' \subseteq Reads, posts' \subseteq Requests, PostsQuiet(posts, posts')
  PROVE  ServerInv' /\ PageInv' /\ Quiet
<1>1. ServerInv' /\ UNCHANGED <<up, snap, queue, preparing, agent, source, receipt>> /\ faults' >= faults
  BY ServerSame
<1>2. clicks' >= clicks
  BY ClicksSame
<1>3. PageInv'
  BY DEF PageInv
<1>4. QED
  BY <1>1, <1>2, <1>3 DEF Quiet

LEMMA RenderableTyped ==
  ASSUME NEW pg \in Pages, ensureCyclingRenderable(pg)
  PROVE  page' \in Pages /\ page'.captures = pg.captures /\ saved' \in {saved, NotSaved}
<1>1. CASE pg.arrived > 0
  BY <1>1, RepairedTyped DEF ensureCyclingRenderable
<1>2. CASE ~(pg.arrived > 0)
  BY <1>2, CleanupTyped DEF ensureCyclingRenderable
<1>3. QED
  BY <1>1, <1>2

LEMMA FinishTyped ==
  ASSUME PageInv, NEW pg \in Pages, Finish(pg)
  PROVE  page' = pg /\ page' \in Pages /\ saved' \in Records /\ handled' \in Sessions \cup {None}
BY NotSavedTyped DEF Finish, markSessionHandled, PageInv, Pages

LEMMA CheckpointRefusedStep ==
  ASSUME ServerInv, PageInv, NEW a \in answers, CheckpointRefused(a)
  PROVE  ServerInv' /\ PageInv' /\ Quiet
<1>1. answers' = answers \ {a} /\ UNCHANGED <<serverVars, started, posts, reads, clicks>>
      /\ (Finish(cleanup(page)) \/ UNCHANGED <<page, saved, handled>>)
  BY DEF CheckpointRefused
<1>2. page' \in Pages /\ page'.captures = page.captures /\ saved' \in Records /\ handled' \in Sessions \cup {None}
  <2>1. cleanup(page) \in Pages /\ cleanup(page).captures = page.captures
    BY CleanupTyped DEF PageInv
  <2>2. QED
    BY <1>1, <2>1, FinishTyped DEF PageInv
<1>3. answers' \subseteq Replies /\ reads' \subseteq Reads /\ posts' \subseteq Requests /\ PostsQuiet(posts, posts')
  BY <1>1, PostsSubset DEF PageInv
<1>4. QED
  BY <1>1, <1>2, <1>3, PageStep

LEMMA DiscardAnsweredStep ==
  ASSUME ServerInv, PageInv, NEW a \in answers, DiscardAnswered(a)
  PROVE  ServerInv' /\ PageInv' /\ Quiet
<1>1. answers' = answers \ {a} /\ UNCHANGED <<serverVars, started, posts, reads, clicks>>
      /\ (Finish(cleanup(page)) \/ UNCHANGED <<page, saved, handled>>)
  BY DEF DiscardAnswered
<1>2. page' \in Pages /\ page'.captures = page.captures /\ saved' \in Records /\ handled' \in Sessions \cup {None}
  <2>1. cleanup(page) \in Pages /\ cleanup(page).captures = page.captures
    BY CleanupTyped DEF PageInv
  <2>2. QED
    BY <1>1, <2>1, FinishTyped DEF PageInv
<1>3. answers' \subseteq Replies /\ reads' \subseteq Reads /\ posts' \subseteq Requests /\ PostsQuiet(posts, posts')
  BY <1>1, PostsSubset DEF PageInv
<1>4. QED
  BY <1>1, <1>2, <1>3, PageStep

LEMMA AcceptAnsweredStep ==
  ASSUME ServerInv, PageInv, NEW a \in answers, AcceptAnsweredToPage(a)
  PROVE  ServerInv' /\ PageInv' /\ Quiet
<1>1. answers' = answers \ {a} /\ UNCHANGED <<serverVars, started, posts, reads, clicks>>
  BY DEF AcceptAnsweredToPage
<1>2. page \in Pages /\ a.sess \in Sessions
  BY DEF PageInv, Replies
<1>3. PICK pending : pending = IF page.pending = a.sess THEN None ELSE page.pending
  OBVIOUS
<1>4. PICK kept : kept = [page EXCEPT !.st = "CYCLING", !.pending = pending]
  OBVIOUS
<1>5. kept \in Pages /\ kept.captures = page.captures
  <2>1. pending \in Sessions \cup {None}
    BY <1>2, <1>3 DEF Pages
  <2>2. QED
    BY <1>2, <1>4, <2>1 DEF Pages, States
<1>6. PICK pg : pg = [page EXCEPT !.awaiting = a.sess]
  OBVIOUS
<1>7. pg \in Pages /\ pg.captures = page.captures
  BY <1>2, <1>6 DEF Pages
<1>8. \/ Finish(cleanupAcceptedSession(pg))
      \/ UNCHANGED <<page, saved, handled>>
      \/ ensureCyclingRenderable(kept) /\ UNCHANGED handled
  BY <1>2, <1>3, <1>4, <1>6 DEF AcceptAnsweredToPage
<1>9. page' \in Pages /\ page'.captures = page.captures /\ saved' \in Records /\ handled' \in Sessions \cup {None}
  <2>1. CASE Finish(cleanupAcceptedSession(pg))
    BY <1>7, <2>1, CleanupTyped, FinishTyped
  <2>2. CASE UNCHANGED <<page, saved, handled>>
    BY <2>2 DEF PageInv
  <2>3. CASE ensureCyclingRenderable(kept) /\ UNCHANGED handled
    BY <1>5, <2>3, RenderableTyped, NotSavedTyped DEF PageInv
  <2>4. QED
    BY <1>8, <2>1, <2>2, <2>3
<1>10. answers' \subseteq Replies /\ reads' \subseteq Reads /\ posts' \subseteq Requests /\ PostsQuiet(posts, posts')
  BY <1>1, PostsSubset DEF PageInv
<1>11. QED
  BY <1>1, <1>9, <1>10, PageStep

LEMMA CheckpointTimerStep ==
  ASSUME ServerInv, PageInv, CheckpointTimer
  PROVE  ServerInv' /\ PageInv' /\ Quiet
<1>1. PICK pg : pg = [page EXCEPT !.checkpoint = FALSE]
  OBVIOUS
<1>2. page \in Pages /\ pg \in Pages /\ pg.captures = page.captures /\ pg.sess = page.sess
  <2>1. page \in Pages
    BY DEF PageInv
  <2>2. QED
    BY <1>1, <2>1 DEF Pages
<1>3. UNCHANGED <<serverVars, handled, started, answers, reads, clicks>>
  BY DEF CheckpointTimer
<1>4. CASE page.sess = None
  <2>1. page' = pg /\ UNCHANGED <<saved, posts>>
    BY <1>1, <1>4 DEF CheckpointTimer
  <2>2. QED
    BY <1>2, <1>3, <2>1, PostsSubset, PageStep DEF PageInv
<1>5. CASE page.sess # None
  <2>1. PICK m : m = Checkpoint(pg)
    OBVIOUS
  <2>2. page' = Counted(pg) /\ posts' = posts \cup {m}
    BY <1>1, <1>5, <2>1 DEF CheckpointTimer
  <2>3. m \in Requests /\ m.type = "checkpoint"
    BY <1>2, <1>5, <2>1, CheckpointTyped DEF Pages
  <2>4. saved' \in Records
    <3>1. PICK n \in Nat : n = page.revision + 1
      BY <1>2 DEF Pages
    <3>2. saved \in Records /\ saved' \in {saved, [saved EXCEPT !.revision = n]}
      BY <1>5, <3>1 DEF CheckpointTimer, PageInv
    <3>3. QED
      BY <3>2 DEF Records
  <2>5. PostsQuiet(posts, posts') /\ posts' \subseteq Requests
    BY <2>2, <2>3, PostsSubset, PostsMore DEF PageInv
  <2>6. page' \in Pages /\ page'.captures = page.captures
    BY <1>2, <2>2, CountedTyped
  <2>7. QED
    BY <1>3, <2>4, <2>5, <2>6, PageStep DEF PageInv
<1>6. QED
  BY <1>4, <1>5

LEMMA RenderedRange ==
  ASSUME ServerInv, NEW s \in Sessions
  PROVE  Rendered(s) \in Int /\ Rendered(s) <= Variants /\ (Rendered(s) # NoWrapper => Rendered(s) >= 0)
<1>1. source[s].n \in 0 .. Variants
  BY DEF ServerInv, ServerTypeOK, Sources
<1>2. QED
  BY <1>1, VariantsAssumption DEF Rendered, NoWrapper

LEMMA UpdateStep ==
  ASSUME ServerInv, PageInv, Update
  PROVE  ServerInv' /\ PageInv' /\ Quiet
<1>1. page \in Pages /\ page.sess \in Sessions
  BY DEF PageInv, Pages, Update
<1>2. PICK n : n = Rendered(page.sess)
  OBVIOUS
<1>3. n \in 0 .. Variants
  <2>1. n \in Int /\ n <= Variants
    BY <1>1, <1>2, RenderedRange
  <2>2. n > page.arrived
    BY <1>2 DEF Update
  <2>3. page.arrived \in 0 .. Variants
    BY <1>1 DEF Pages
  <2>4. QED
    BY <2>1, <2>2, <2>3, VariantsAssumption
<1>4. PICK v : v = IF page.visible = 0 THEN Shown(page.sess, n, 0) ELSE page.visible
  OBVIOUS
<1>5. v \in 0 .. Variants
  <2>1. page.visible \in 0 .. Variants
    BY <1>1 DEF Pages
  <2>2. Shown(page.sess, n, 0) \in 0 .. Variants
    BY <1>3, VariantsAssumption, ShownTyped
  <2>3. QED
    BY <1>4, <2>1, <2>2
<1>6. PICK pg : pg = Repaired([page EXCEPT !.arrived = n, !.st = "CYCLING", !.visible = v])
  OBVIOUS
<1>7. pg \in Pages /\ pg.captures = page.captures /\ pg.sess = page.sess
  <2>1. PICK new : new = [page EXCEPT !.arrived = n, !.st = "CYCLING", !.visible = v]
    OBVIOUS
  <2>2. new \in Pages /\ new.captures = page.captures /\ new.sess = page.sess /\ new.arrived = n
    BY <1>1, <1>3, <1>5, <2>1 DEF Pages, States
  <2>3. n > 0
    BY <1>1, <1>2, <1>3, VariantsAssumption DEF Update, Pages
  <2>4. QED
    BY <1>6, <2>1, <2>2, <2>3, RepairedTyped
<1>8. /\ page' = Counted(pg) /\ saved' = Save(Counted(pg)) /\ posts' = posts \cup {Checkpoint(pg)}
      /\ UNCHANGED <<serverVars, handled, started, answers, reads, clicks>>
  BY <1>1, <1>2, <1>4, <1>6 DEF Update, KeepAndSend, Keep
<1>9. PICK m : m = Checkpoint(pg)
  OBVIOUS
<1>10. m \in Requests /\ m.type = "checkpoint"
  BY <1>1, <1>7, <1>9, CheckpointTyped
<1>11. page' \in Pages /\ page'.captures = page.captures /\ saved' \in Records
  BY <1>7, <1>8, CountedTyped, SaveTyped
<1>12. PostsQuiet(posts, posts') /\ posts' \subseteq Requests
  BY <1>8, <1>9, <1>10, PostsSubset, PostsMore DEF PageInv
<1>13. QED
  BY <1>8, <1>11, <1>12, PageStep DEF PageInv

LEMMA InjectStep ==
  ASSUME ServerInv, PageInv, NEW r \in reads, injectVariantsFromSource(r)
  PROVE  ServerInv' /\ PageInv' /\ Quiet
<1>1. reads' = reads \ {r} /\ UNCHANGED <<serverVars, started, answers, clicks>>
  BY DEF injectVariantsFromSource
<1>2. page \in Pages /\ saved \in Records /\ handled \in Sessions \cup {None} /\ r.sess \in Sessions
      /\ posts \subseteq Requests
  BY DEF PageInv, Reads
<1>3. CASE UNCHANGED <<page, saved, handled, posts>>
  BY <1>1, <1>2, <1>3, PostsSubset, PageStep DEF PageInv
<1>4. CASE posts' = posts \cup {Post(page, "discard", r.sess, TRUE)} /\ Finish(cleanup(page))
  <2>1. PICK m : m = Post(page, "discard", r.sess, TRUE)
    OBVIOUS
  <2>2. m \in Requests /\ m.type = "discard"
    <3>1. PICK b \in BOOLEAN, s \in Sessions : b = TRUE /\ s = r.sess
      BY <1>2
    <3>2. m = Post(page, "discard", s, b)
      BY <2>1, <3>1
    <3>3. QED
      BY <1>2, <3>2, PostTyped
  <2>3. PostsQuiet(posts, posts') /\ posts' \subseteq Requests
    BY <1>2, <1>4, <2>1, <2>2, PostsSubset, PostsMore
  <2>4. page' \in Pages /\ page'.captures = page.captures /\ saved' \in Records /\ handled' \in Sessions \cup {None}
    BY <1>2, <1>4, CleanupTyped, FinishTyped
  <2>5. QED
    BY <1>1, <2>3, <2>4, PageStep DEF PageInv
<1>5. CASE WrapperEmpty(r)
  <2>1. PICK pg : pg = [page EXCEPT !.arrived = 0]
    OBVIOUS
  <2>2. pg \in Pages /\ pg.captures = page.captures
    BY <1>2, <2>1, VariantsAssumption DEF Pages
  <2>3. /\ (page' = pg /\ UNCHANGED saved) \/ (page' = cleanup(pg) /\ saved' = NotSaved)
        /\ UNCHANGED <<handled, posts>>
    BY <1>5, <2>1 DEF WrapperEmpty
  <2>4. page' \in Pages /\ page'.captures = page.captures /\ saved' \in Records
    BY <1>2, <2>2, <2>3, CleanupTyped, NotSavedTyped
  <2>5. QED
    BY <1>1, <1>2, <2>3, <2>4, PostsSubset, PageStep DEF PageInv
<1>6. CASE VariantsRead(r)
  <2>1. PICK n : n = source[r.sess].n
    OBVIOUS
  <2>2. n \in 0 .. Variants
    BY <1>2, <2>1 DEF ServerInv, ServerTypeOK, Sources
  <2>3. PICK before : before = IF page.sess = r.sess THEN page.visible ELSE 0
    OBVIOUS
  <2>4. PICK v : v = Shown(r.sess, n, before)
    OBVIOUS
  <2>5. v \in 0 .. Variants
    BY <2>2, <2>4, VariantsAssumption, ShownTyped
  <2>6. PICK pg : pg = [page EXCEPT !.st = "CYCLING", !.arrived = n, !.file = TRUE, !.visible = v]
    OBVIOUS
  <2>7. pg \in Pages /\ pg.captures = page.captures
    BY <1>2, <2>2, <2>5, <2>6 DEF Pages, States
  <2>8. page' = pg /\ saved' = Save(pg) /\ UNCHANGED <<handled, posts>>
    BY <1>6, <2>1, <2>3, <2>4, <2>6 DEF VariantsRead, Keep
  <2>9. saved' \in Records
    BY <2>7, <2>8, SaveTyped
  <2>10. QED
    BY <1>1, <1>2, <2>7, <2>8, <2>9, PostsSubset, PageStep DEF PageInv
<1>7. QED
  BY <1>3, <1>4, <1>5, <1>6 DEF injectVariantsFromSource, SourceUnread, WrapperMissing

(* The event stream breaks, opens or is read.                              *)
LEMMA StreamStep ==
  ASSUME ServerInv, PageInv, UNCHANGED <<up, snap, queue, polls, preparing, timer, agent, source, receipt, started, clicks>>,
         client' \in BOOLEAN, sse' \in Seq(Messages), faults' \in {faults, faults + 1}, faults' \in 0 .. MaxFaults,
         page' \in Pages, page'.captures \subseteq page.captures, saved' \in Records,
         handled' \in Sessions \cup {None},
         answers' \subseteq Replies, reads' \subseteq Reads, posts' \subseteq Requests, PostsQuiet(posts, posts')
  PROVE  ServerInv' /\ PageInv' /\ Quiet
<1>1. UNCHANGED <<up, snap, queue, polls, preparing, timer, agent, source, receipt>>
  OBVIOUS
<1>2. ServerInv'
  BY <1>1 DEF ServerInv, ServerTypeOK
<1>3. clicks' >= clicks
  BY ClicksSame
<1>4. PageInv'
  BY DEF PageInv
<1>5. faults' >= faults
  BY ServerAssumption DEF ServerInv, ServerTypeOK
<1>6. QED
  BY <1>1, <1>2, <1>3, <1>4, <1>5 DEF Quiet

LEMMA ReadStreamStep ==
  ASSUME ServerInv, PageInv, ReadStream
  PROVE  ServerInv' /\ PageInv' /\ Quiet
<1>1. /\ UNCHANGED <<up, snap, queue, polls, preparing, timer, client, agent, source, receipt, faults>>
      /\ UNCHANGED <<started, posts, answers, clicks>>
      /\ sse # <<>> /\ sse' = Tail(sse)
  BY DEF ReadStream
<1>2. PICK m : m = Head(sse)
  OBVIOUS
<1>3. sse \in Seq(Messages) /\ client \in BOOLEAN /\ faults \in 0 .. MaxFaults
  BY DEF ServerInv, ServerTypeOK
<1>4. m \in Messages /\ m.sess \in Sessions /\ sse' \in Seq(Messages)
  <2>1. m \in Messages /\ sse' \in Seq(Messages)
    BY <1>1, <1>2, <1>3, HeadTailProperties
  <2>2. QED
    BY <2>1 DEF Messages
<1>5. page \in Pages /\ saved \in Records /\ handled \in Sessions \cup {None} /\ reads \subseteq Reads
  BY DEF PageInv
<1>6. OnDone(m) \/ OnAccepted(m) \/ OnAgentDone(m) \/ OnDiscarded(m) \/ OnError(m)
  BY <1>2 DEF ReadStream
<1> DEFINE Typed == /\ page' \in Pages /\ page'.captures \subseteq page.captures /\ saved' \in Records
                    /\ handled' \in Sessions \cup {None} /\ reads' \subseteq Reads
<1>7. ASSUME OnDone(m) PROVE Typed
  <2>1. PICK known : known = [page EXCEPT !.file = TRUE]
    OBVIOUS
  <2>2. known \in Pages /\ known.captures = page.captures
    BY <1>5, <2>1 DEF Pages
  <2>3. PICK cycling : cycling = [known EXCEPT !.st = "CYCLING"]
    OBVIOUS
  <2>4. cycling \in Pages /\ cycling.captures = page.captures
    BY <2>2, <2>3 DEF Pages, States
  <2>5. (ensureCyclingRenderable(cycling) \/ (page' = known /\ UNCHANGED saved)) /\ UNCHANGED handled
    BY <1>7, <2>1, <2>3 DEF OnDone
  <2>6. PICK read : read = [sess |-> m.sess, completed |-> TRUE, orphan |-> FALSE]
    OBVIOUS
  <2>7. read \in Reads
    BY <1>4, <2>6 DEF Reads
  <2>8. reads' \in {reads, reads \cup {read}}
    BY <1>7, <2>6 DEF OnDone
  <2>9. QED
    BY <1>5, <2>2, <2>4, <2>5, <2>7, <2>8, RenderableTyped, NotSavedTyped
<1>8. ASSUME OnAccepted(m) PROVE Typed
  <2>1. PICK pg : pg = IF page.awaiting = m.sess THEN [page EXCEPT !.awaiting = None] ELSE page
    OBVIOUS
  <2>2. pg \in Pages /\ pg.captures = page.captures
    BY <1>5, <2>1 DEF Pages
  <2>3. PICK free : free = [pg EXCEPT !.pending = None]
    OBVIOUS
  <2>4. free \in Pages /\ free.captures = page.captures
    BY <2>2, <2>3 DEF Pages
  <2>5. UNCHANGED reads /\ (Finish(cleanupAcceptedSession(pg)) \/ (page' \in {free, pg} /\ UNCHANGED <<saved, handled>>))
    BY <1>8, <2>1, <2>3 DEF OnAccepted
  <2>6. CASE Finish(cleanupAcceptedSession(pg))
    BY <1>5, <2>2, <2>5, <2>6, CleanupTyped, FinishTyped
  <2>7. CASE page' \in {free, pg} /\ UNCHANGED <<saved, handled>>
    BY <1>5, <2>2, <2>4, <2>5, <2>7
  <2>8. QED
    BY <2>5, <2>6, <2>7
<1>9. ASSUME OnAgentDone(m) PROVE Typed
  BY <1>5, <1>9 DEF OnAgentDone
<1>10. ASSUME OnDiscarded(m) PROVE Typed
  BY <1>5, <1>10, CleanupTyped, FinishTyped DEF OnDiscarded
<1>11. ASSUME OnError(m) PROVE Typed
  <2>1. PICK back : back = [page EXCEPT !.pending = None, !.awaiting = None, !.st = "CYCLING"]
    OBVIOUS
  <2>2. PICK gone : gone = [page EXCEPT !.awaiting = None]
    OBVIOUS
  <2>3. PICK picking : picking = [page EXCEPT !.st = "PICKING"]
    OBVIOUS
  <2>4. back \in Pages /\ back.captures = page.captures
    BY <1>5, <2>1 DEF Pages, States
  <2>5. gone \in Pages /\ gone.captures = page.captures /\ picking \in Pages /\ picking.captures = page.captures
    BY <1>5, <2>2, <2>3 DEF Pages, States
  <2>6. UNCHANGED reads /\ \/ Finish(cleanup(page)) \/ (ensureCyclingRenderable(back) /\ UNCHANGED handled)
                           \/ page' \in {back, gone, picking} /\ saved' \in {saved, NotSaved} /\ UNCHANGED handled
    BY <1>11, <2>1, <2>2, <2>3 DEF OnError
  <2>7. CASE Finish(cleanup(page))
    BY <1>5, <2>6, <2>7, CleanupTyped, FinishTyped
  <2>8. CASE page' \in {back, gone, picking} /\ saved' \in {saved, NotSaved} /\ UNCHANGED handled
    BY <1>5, <2>4, <2>5, <2>6, <2>8, NotSavedTyped
  <2>9. CASE ensureCyclingRenderable(back) /\ UNCHANGED handled
    BY <1>5, <2>4, <2>6, <2>9, RenderableTyped, NotSavedTyped
  <2>10. QED
    BY <2>6, <2>7, <2>8, <2>9
<1>12. Typed
  BY <1>6, <1>7, <1>8, <1>9, <1>10, <1>11
<1>13. PostsQuiet(posts, posts') /\ posts' \subseteq Requests /\ answers' \subseteq Replies
  BY <1>1, PostsSubset DEF PageInv
<1>14. QED
  BY <1>1, <1>3, <1>4, <1>12, <1>13, StreamStep

LEMMA DropStep ==
  ASSUME ServerInv, PageInv, Drop
  PROVE  ServerInv' /\ PageInv' /\ Quiet
<1>1. /\ faults < MaxFaults /\ faults' = faults + 1 /\ client' = FALSE /\ sse' = <<>>
      /\ UNCHANGED <<up, snap, queue, polls, preparing, timer, agent, source, receipt>>
      /\ UNCHANGED <<page, saved, handled, started, posts, answers, reads, clicks>>
  BY DEF Drop, pageVars
<1>2. faults' \in 0 .. MaxFaults
  <2>1. faults \in 0 .. MaxFaults
    BY DEF ServerInv, ServerTypeOK
  <2>2. QED
    BY <1>1, <2>1, ServerAssumption
<1>3. PostsQuiet(posts, posts') /\ sse' \in Seq(Messages)
  BY <1>1, PostsSubset
<1>4. QED
  BY <1>1, <1>2, <1>3, StreamStep DEF PageInv

LEMMA MissedTyped ==
  ASSUME NEW pg \in Pages PROVE Missed(pg) \subseteq Reads
<1>1. CASE Missed(pg) = {}
  BY <1>1
<1>2. CASE pg.sess # None /\ Missed(pg) = {[sess |-> pg.sess, completed |-> TRUE, orphan |-> FALSE]}
  <2>1. PICK r : r = [sess |-> pg.sess, completed |-> TRUE, orphan |-> FALSE]
    OBVIOUS
  <2>2. r \in Reads
    BY <1>2, <2>1 DEF Reads, Pages
  <2>3. QED
    BY <1>2, <2>1, <2>2
<1>3. QED
  BY <1>1, <1>2 DEF Missed

LEMMA RestoreReadsTyped ==
  ASSUME NEW local \in Records, local.sess # None, NEW pg PROVE RestoreReads(local, pg) \subseteq Reads
<1>1. PICK r : r = [sess |-> local.sess, completed |-> FALSE, orphan |-> local.st = "CYCLING"]
  OBVIOUS
<1>2. r \in Reads
  BY <1>1 DEF Reads, Records
<1>3. QED
  BY <1>1, <1>2 DEF RestoreReads

LEMMA LocalsTyped ==
  ASSUME ServerInv, PageInv, NEW local \in Locals PROVE local \in Records
<1>1. CASE local \in {saved, NotSaved}
  BY <1>1, NotSavedTyped DEF PageInv
<1>2. CASE \E s \in Adoptable : local = Adopted(s)
  <2>1. PICK s \in Adoptable : local = Adopted(s)
    BY <1>2
  <2>2. s \in Sessions
    BY DEF Adoptable, ActiveSessions
  <2>3. PICK n \in Snapshots : n = snap[s]
    BY <2>2 DEF ServerInv, ServerTypeOK
  <2>4. local = [sess |-> s, st |-> "GENERATING", arrived |-> n.arrived, visible |-> n.visible,
                 file |-> n.file, revision |-> 0]
    BY <2>1, <2>3 DEF Adopted
  <2>5. n.arrived \in 0 .. Variants /\ n.visible \in 0 .. Variants /\ n.file \in BOOLEAN
    BY DEF Snapshots
  <2>6. QED
    BY <2>2, <2>4, <2>5 DEF Records, States
<1>3. QED
  BY <1>1, <1>2 DEF Locals

LEMMA ConnectStep ==
  ASSUME ServerInv, PageInv, Connect
  PROVE  ServerInv' /\ PageInv' /\ Quiet
<1>1. /\ client' = TRUE
      /\ UNCHANGED <<up, snap, queue, polls, preparing, timer, sse, agent, source, receipt, faults>>
      /\ UNCHANGED <<handled, started, posts, answers, clicks>>
  BY DEF Connect
<1>2. page \in Pages /\ saved \in Records /\ reads \subseteq Reads
  BY DEF PageInv
<1> DEFINE Typed == /\ page' \in Pages /\ page'.captures \subseteq page.captures /\ saved' \in Records
                    /\ reads' \subseteq Reads
<1>3. ASSUME page' = [page EXCEPT !.file = @ \/ Missed(page) # {}], reads' = reads \cup Missed(page), UNCHANGED saved
      PROVE  Typed
  <2>1. PICK b \in BOOLEAN : b = (page.file \/ Missed(page) # {})
    OBVIOUS
  <2>2. page' = [page EXCEPT !.file = b]
    BY <1>3, <2>1
  <2>3. page' \in Pages /\ page'.captures = page.captures
    BY <1>2, <2>2 DEF Pages
  <2>4. QED
    BY <1>2, <1>3, <2>3, MissedTyped
<1>4. ASSUME NEW local \in Locals, NEW server, NEW new,
             server = IF local.sess \in ActiveSessions THEN Summary(local.sess) ELSE NotSaved,
             new = Restored(page, local, server), MayRestore(local), Keep(new),
             reads' = reads \cup RestoreReads(local, new) \cup Missed(new)
      PROVE  Typed
  <2>1. local \in Records /\ local.sess # None
    BY <1>4, LocalsTyped DEF MayRestore, Restorable
  <2>2. server.arrived \in 0 .. Variants /\ server.visible \in 0 .. Variants /\ server.file \in BOOLEAN
    <3>1. CASE local.sess \in ActiveSessions
      <4>1. PICK s \in Sessions : s = local.sess
        BY <3>1 DEF ActiveSessions
      <4>2. PICK n \in Snapshots : n = snap[s]
        BY DEF ServerInv, ServerTypeOK
      <4>3. server = [arrived |-> n.arrived, visible |-> n.visible, file |-> n.file]
        BY <1>4, <3>1, <4>1, <4>2 DEF Summary
      <4>4. QED
        BY <4>3 DEF Snapshots
    <3>2. CASE local.sess \notin ActiveSessions
      BY <1>4, <3>2, NotSavedTyped DEF Records
    <3>3. QED
      BY <3>1, <3>2
  <2>3. new \in Pages /\ new.captures = page.captures
    BY <1>2, <1>4, <2>1, <2>2, RestoredTyped
  <2>4. page' = new /\ saved' \in Records
    BY <1>4, <2>3, SaveTyped DEF Keep
  <2>5. RestoreReads(local, new) \subseteq Reads /\ Missed(new) \subseteq Reads
    BY <2>1, <2>3, MissedTyped, RestoreReadsTyped
  <2>6. QED
    BY <1>2, <1>4, <2>3, <2>4, <2>5
<1>5. Typed
  <2>1. CASE page' = [page EXCEPT !.file = @ \/ Missed(page) # {}] /\ reads' = reads \cup Missed(page) /\ UNCHANGED saved
    BY <1>3, <2>1
  <2>2. CASE \E local \in Locals :
               LET server == IF local.sess \in ActiveSessions THEN Summary(local.sess) ELSE NotSaved
                   new == Restored(page, local, server)
               IN  /\ MayRestore(local)
                   /\ Keep(new)
                   /\ reads' = reads \cup RestoreReads(local, new) \cup Missed(new)
    <3>1. PICK local \in Locals :
               LET server == IF local.sess \in ActiveSessions THEN Summary(local.sess) ELSE NotSaved
                   new == Restored(page, local, server)
               IN  /\ MayRestore(local)
                   /\ Keep(new)
                   /\ reads' = reads \cup RestoreReads(local, new) \cup Missed(new)
      BY <2>2
    <3>2. PICK server : server = IF local.sess \in ActiveSessions THEN Summary(local.sess) ELSE NotSaved
      OBVIOUS
    <3>3. PICK new : new = Restored(page, local, server)
      OBVIOUS
    <3>4. MayRestore(local) /\ Keep(new) /\ reads' = reads \cup RestoreReads(local, new) \cup Missed(new)
      BY <3>1, <3>2, <3>3
    <3> HIDE DEF Typed
    <3>5. QED
      BY <1>4, <3>2, <3>3, <3>4
  <2>3. QED
    BY <2>1, <2>2 DEF Connect
<1>6. PostsQuiet(posts, posts') /\ sse \in Seq(Messages) /\ faults \in 0 .. MaxFaults
  BY <1>1, PostsSubset DEF ServerInv, ServerTypeOK
<1>7. QED
  BY <1>1, <1>5, <1>6, StreamStep DEF PageInv

LEMMA ResumedTyped ==
  ASSUME ServerInv, PageInv, NEW pg \in Pages, NEW s \in Sessions, Rendered(s) # NoWrapper
  PROVE  Resumed(pg, s) \in Pages /\ Resumed(pg, s).captures = pg.captures /\ Resumed(pg, s).sess = s
<1>1. PICK n : n = Rendered(s)
  OBVIOUS
<1>2. n \in 0 .. Variants
  <2>1. n \in Int /\ n <= Variants /\ n >= 0
    BY <1>1, RenderedRange
  <2>2. QED
    BY <2>1, VariantsAssumption
<1>3. PICK v : v = Shown(s, n, 0)
  OBVIOUS
<1>4. v \in 0 .. Variants
  BY <1>2, <1>3, VariantsAssumption, ShownTyped
<1>5. PICK f \in BOOLEAN, c \in BOOLEAN : /\ f = (pg.file \/ (saved.sess = s /\ saved.file))
                                         /\ c = (pg.checkpoint \/ ~(0 < n /\ n < Variants))
  OBVIOUS
<1>6. PICK st \in States : st = IF n > 0 THEN "CYCLING" ELSE "GENERATING"
  BY DEF States
<1>7. PICK r : r = [pg EXCEPT !.sess = s, !.arrived = n, !.visible = v, !.file = f, !.st = st, !.checkpoint = c]
  OBVIOUS
<1>8. Resumed(pg, s) = r
  BY <1>1, <1>3, <1>5, <1>6, <1>7 DEF Resumed
<1>9. r \in Pages /\ r.captures = pg.captures /\ r.sess = s
  BY ONLY <1>2, <1>4, <1>7, pg \in Pages, s \in Sessions, f \in BOOLEAN, c \in BOOLEAN, st \in States DEF Pages
<1>10. QED
  BY <1>8, <1>9

LEMMA ReloadStep ==
  ASSUME ServerInv, PageInv, Reload
  PROVE  ServerInv' /\ PageInv' /\ Quiet
<1> DEFINE f(p) == [p EXCEPT !.listening = FALSE]
           kept == {f(p) : p \in {p \in posts : p.after = None}}
           shown == {s \in Sessions : Rendered(s) # NoWrapper}
<1>1. /\ faults < MaxFaults /\ faults' = faults + 1 /\ client' = FALSE /\ sse' = <<>> /\ answers' = {}
      /\ UNCHANGED <<up, snap, queue, polls, preparing, timer, agent, source, receipt, started, clicks>>
  BY DEF Reload
<1>2. page \in Pages /\ saved \in Records /\ handled \in Sessions \cup {None} /\ posts \subseteq Requests
  BY DEF PageInv
<1>3. PICK pg : pg = [FreshPage EXCEPT !.revision = saved.revision]
  OBVIOUS
<1>4. pg \in Pages /\ pg.captures = {}
  <2>1. saved.revision \in Nat
    BY <1>2 DEF Records
  <2>2. QED
    BY <1>3, <2>1, FreshPageTyped DEF Pages
<1>5. \/ \E s \in shown : Resume(pg, s, kept) /\ reads' = {} /\ UNCHANGED handled
      \/ /\ Restorable(saved)
         /\ LET new == Restored(pg, saved, NotSaved) IN Keep(new) /\ reads' = RestoreReads(saved, new)
         /\ posts' = kept /\ UNCHANGED handled
      \/ page' = pg /\ saved' = NotSaved /\ handled' = None /\ reads' = {} /\ posts' = kept
  BY <1>3 DEF Reload
<1>6. \A p \in Requests : f(p) \in Requests /\ f(p).type = p.type /\ f(p).sess = p.sess
  BY DEF Requests
<1> HIDE DEF f
<1>7. kept \subseteq Requests /\ \A r \in kept : \E p \in posts : r = f(p)
  BY <1>2, <1>6
<1> HIDE DEF kept
<1>8. PostsQuiet(posts, kept)
  <2>1. \A r \in kept : \E p \in posts : p.type = r.type /\ p.sess = r.sess
    BY <1>2, <1>6, <1>7
  <2>2. ASSUME NEW r \in kept, NEW t \in kept, t.type = r.type
        PROVE  r = t \/ \E p, u \in posts : p # u /\ p.type = r.type /\ u.type = r.type /\ p.sess = r.sess /\ u.sess = t.sess
    <3>1. PICK p \in posts, u \in posts : r = f(p) /\ t = f(u)
      BY <1>7
    <3>2. p.type = r.type /\ u.type = r.type /\ p.sess = r.sess /\ u.sess = t.sess
      BY <1>2, <1>6, <2>2, <3>1
    <3>3. QED
      BY <3>1, <3>2
  <2>3. QED
    BY <2>1, <2>2 DEF PostsQuiet
<1> DEFINE Typed == /\ page' \in Pages /\ page'.captures \subseteq page.captures /\ saved' \in Records
                    /\ handled' \in Sessions \cup {None} /\ reads' \subseteq Reads
                    /\ posts' \subseteq Requests /\ PostsQuiet(posts, posts')
<1>9. ASSUME NEW s \in shown, Resume(pg, s, kept), reads' = {}, UNCHANGED handled
      PROVE  Typed
  <2>1. s \in Sessions /\ Rendered(s) # NoWrapper
    OBVIOUS
  <2>2. PICK new : new = Resumed(pg, s)
    OBVIOUS
  <2>3. new \in Pages /\ new.captures = {} /\ new.sess \in Sessions
    BY <1>4, <2>1, <2>2, ResumedTyped
  <2>4. \/ page' = pg /\ saved' = saved /\ posts' = kept
        \/ page' = Counted(new) /\ saved' = Save(Counted(new)) /\ posts' = kept \cup {Checkpoint(new)}
        \/ page' = new /\ saved' = Save(new) /\ posts' = kept
    BY <1>9, <2>2 DEF Resume, Keep
  <2>5. CASE page' = pg /\ saved' = saved /\ posts' = kept
    BY <1>2, <1>4, <1>7, <1>8, <1>9, <2>5
  <2>6. CASE page' = Counted(new) /\ saved' = Save(Counted(new)) /\ posts' = kept \cup {Checkpoint(new)}
    <3>1. PICK m : m = Checkpoint(new)
      OBVIOUS
    <3>2. m \in Requests /\ m.type = "checkpoint"
      BY <2>3, <3>1, CheckpointTyped
    <3>3. Counted(new) \in Pages /\ Counted(new).captures = {}
      BY <2>3, CountedTyped
    <3>4. saved' \in Records
      BY <2>6, <3>3, SaveTyped
    <3>5. posts' \subseteq Requests /\ PostsQuiet(posts, posts')
      BY <1>7, <1>8, <2>6, <3>1, <3>2, PostsMore
    <3>6. QED
      BY <1>2, <1>9, <2>6, <3>3, <3>4, <3>5
  <2>7. CASE page' = new /\ saved' = Save(new) /\ posts' = kept
    BY <1>2, <1>7, <1>8, <1>9, <2>3, <2>7, SaveTyped
  <2>8. QED
    BY <2>4, <2>5, <2>6, <2>7
<1>10. ASSUME NEW new, new = Restored(pg, saved, NotSaved), Restorable(saved), Keep(new),
              reads' = RestoreReads(saved, new), posts' = kept, UNCHANGED handled
       PROVE  Typed
  <2>1. NotSaved.arrived \in 0 .. Variants /\ NotSaved.visible \in 0 .. Variants /\ NotSaved.file \in BOOLEAN
    BY NotSavedTyped DEF Records
  <2>2. new \in Pages /\ new.captures = {}
    BY <1>2, <1>4, <1>10, <2>1, RestoredTyped
  <2>3. page' = new /\ saved' \in Records
    BY <1>10, <2>2, SaveTyped DEF Keep
  <2>4. reads' \subseteq Reads
    BY <1>2, <1>10, RestoreReadsTyped DEF Restorable
  <2>5. QED
    BY <1>2, <1>7, <1>8, <1>10, <2>2, <2>3, <2>4
<1>11. ASSUME page' = pg, saved' = NotSaved, handled' = None, reads' = {}, posts' = kept
       PROVE  Typed
  BY <1>4, <1>7, <1>8, <1>11, NotSavedTyped
<1>12. Typed
  <2> HIDE DEF Typed, shown
  <2>1. QED
    BY <1>5, <1>9, <1>10, <1>11
<1>13. faults' \in 0 .. MaxFaults /\ sse' \in Seq(Messages)
  <2>1. faults \in 0 .. MaxFaults
    BY DEF ServerInv, ServerTypeOK
  <2>2. QED
    BY <1>1, <2>1, ServerAssumption
<1>14. QED
  BY <1>1, <1>12, <1>13, StreamStep

(* handleGo draws a new session and sends its creation or puts it off.     *)
Goes(s) ==
  /\ UNCHANGED <<up, snap, queue, preparing, agent, source, receipt, faults, clicks>>
  /\ s \notin started /\ started' = started \cup {s}
  /\ \E P : /\ PostsQuiet(posts, P)
            /\ \/ page'.captures = page.captures \cup {s} /\ posts' = P
               \/ /\ page'.captures = page.captures
                  /\ \E m \in Requests : m.type = "generate" /\ m.sess = s /\ posts' = P \cup {m}

LEMMA HandleGoStep ==
  ASSUME ServerInv, PageInv, NEW s \in Sessions, NEW annotated \in BOOLEAN, handleGo(s, annotated)
  PROVE  ServerInv' /\ PageInv' /\ Goes(s)
<1>1. page \in Pages
  BY DEF PageInv
<1>2. PICK pg : pg = [page EXCEPT !.st = "GENERATING", !.sess = s, !.arrived = 0, !.visible = 0, !.file = FALSE,
                                  !.pending = None, !.awaiting = None]
  OBVIOUS
<1>3. pg \in Pages /\ pg.sess = s /\ pg.captures = page.captures
  <2>1. PICK z \in 0 .. Variants : z = 0
    BY VariantsAssumption
  <2>2. pg = [page EXCEPT !.st = "GENERATING", !.sess = s, !.arrived = z, !.visible = z, !.file = FALSE,
                          !.pending = None, !.awaiting = None]
    BY <1>2, <2>1
  <2>3. pg \in Pages
    BY ONLY <1>1, <2>2, s \in Sessions, z \in 0 .. Variants DEF Pages, States
  <2>4. pg.sess = s /\ pg.captures = page.captures
    BY ONLY <1>1, <2>2 DEF Pages
  <2>5. QED
    BY <2>3, <2>4
<1>4. PICK new : new = IF annotated THEN [pg EXCEPT !.captures = @ \cup {s}] ELSE [pg EXCEPT !.gate = s]
  OBVIOUS
<1>5. new \in Pages /\ new.captures = IF annotated THEN page.captures \cup {s} ELSE page.captures
  BY <1>3, <1>4 DEF Pages
<1>6. PICK m : m = Post(pg, "generate", s, FALSE)
  OBVIOUS
<1>7. m \in Requests /\ m.type = "generate" /\ m.sess = s
  <2>1. PICK b \in BOOLEAN : b = FALSE
    OBVIOUS
  <2>2. m = Post(pg, "generate", s, b)
    BY <1>6, <2>1
  <2>3. QED
    BY <1>3, <2>2, PostTyped
<1>8. PICK c : c = Checkpoint(pg)
  OBVIOUS
<1>9. c \in Requests /\ c.type = "checkpoint"
  BY <1>3, <1>8, CheckpointTyped
<1>10. /\ s \notin started /\ started' = started \cup {s} /\ page' = Counted(new) /\ saved' = Save(Counted(new))
       /\ posts' = posts \cup {c} \cup (IF annotated THEN {} ELSE {m})
       /\ UNCHANGED <<serverVars, handled, answers, reads, clicks>>
  BY <1>2, <1>4, <1>6, <1>8 DEF handleGo, Keep
<1>11. page' \in Pages /\ page'.captures = new.captures /\ saved' \in Records
  BY <1>5, <1>10, CountedTyped, SaveTyped
<1>12. posts' \subseteq Requests
  BY <1>7, <1>9, <1>10 DEF PageInv
<1>13. PageInv'
  BY <1>10, <1>11, <1>12 DEF PageInv
<1>14. ServerInv' /\ UNCHANGED <<up, snap, queue, preparing, agent, source, receipt, faults, clicks>>
  BY <1>10, ServerSame DEF serverVars
<1>15. PICK P : P = posts \cup {c}
  OBVIOUS
<1>16. PostsQuiet(posts, P)
  BY <1>9, <1>15, PostsSubset, PostsMore
<1>17. \/ page'.captures = page.captures \cup {s} /\ posts' = P
       \/ page'.captures = page.captures /\ posts' = P \cup {m}
  BY <1>5, <1>10, <1>11, <1>15
<1>18. QED
  BY <1>7, <1>10, <1>13, <1>14, <1>16, <1>17 DEF Goes

(* captureAndEmit sends the creation that its session has waited for.      *)
Emits(s) ==
  /\ UNCHANGED <<up, snap, queue, preparing, agent, source, receipt, faults, clicks, started>>
  /\ s \in page.captures /\ page'.captures = page.captures \ {s}
  /\ \E m \in Requests : m.type = "generate" /\ m.sess = s /\ posts' = posts \cup {m}

LEMMA CaptureStep ==
  ASSUME ServerInv, PageInv, NEW s \in Sessions, captureAndEmit(s)
  PROVE  ServerInv' /\ PageInv' /\ Emits(s)
<1>1. page \in Pages
  BY DEF PageInv
<1>2. PICK m : m = Post(page, "generate", s, FALSE)
  OBVIOUS
<1>3. m \in Requests /\ m.type = "generate" /\ m.sess = s
  <2>1. PICK b \in BOOLEAN : b = FALSE
    OBVIOUS
  <2>2. m = Post(page, "generate", s, b)
    BY <1>2, <2>1
  <2>3. QED
    BY <1>1, <2>2, PostTyped
<1>4. /\ s \in page.captures /\ page' = [page EXCEPT !.captures = @ \ {s}, !.gate = s] /\ posts' = posts \cup {m}
      /\ UNCHANGED <<serverVars, saved, handled, started, answers, reads, clicks>>
  BY <1>2 DEF captureAndEmit
<1>5. page' \in Pages /\ page'.captures = page.captures \ {s}
  BY <1>1, <1>4 DEF Pages
<1>6. PageInv'
  BY <1>3, <1>4, <1>5 DEF PageInv
<1>7. ServerInv' /\ UNCHANGED <<up, snap, queue, preparing, agent, source, receipt, faults, clicks, started>>
  BY <1>4, ServerSame DEF serverVars
<1>8. QED
  BY <1>3, <1>4, <1>5, <1>6, <1>7 DEF Emits

(* handleAccept sends the one new kind of request that names a variant.    *)
Chooses ==
  /\ UNCHANGED <<up, snap, queue, preparing, agent, source, receipt, faults, started>>
  /\ clicks' = clicks + 1 /\ page'.captures = page.captures
  /\ \E m \in Requests : m.type = "accept" /\ posts' = posts \cup {m}

LEMMA HandleAcceptStep ==
  ASSUME ServerInv, PageInv, handleAccept
  PROVE  ServerInv' /\ PageInv' /\ Chooses
<1>1. page \in Pages /\ page.sess \in Sessions /\ clicks \in 0 .. MaxClicks
  BY DEF PageInv, Pages, handleAccept
<1>2. PICK pg : pg = [page EXCEPT !.st = "SAVING", !.pending = page.sess]
  OBVIOUS
<1>3. pg \in Pages /\ pg.captures = page.captures
  BY <1>1, <1>2 DEF Pages, States
<1>4. PICK m : m = Post(pg, "accept", page.sess, FALSE)
  OBVIOUS
<1>5. m \in Requests /\ m.type = "accept"
  <2>1. PICK b \in BOOLEAN, s \in Sessions : b = FALSE /\ s = page.sess
    BY <1>1
  <2>2. m = Post(pg, "accept", s, b)
    BY <1>4, <2>1
  <2>3. QED
    BY <1>3, <2>2, PostTyped
<1>6. /\ clicks < MaxClicks /\ clicks' = clicks + 1 /\ page' = pg /\ saved' = Save(pg) /\ posts' = posts \cup {m}
      /\ UNCHANGED <<serverVars, handled, started, answers, reads>>
  BY <1>2, <1>4 DEF handleAccept, Keep
<1>7. clicks' \in 0 .. MaxClicks /\ saved' \in Records
  BY <1>1, <1>3, <1>6, SaveTyped, PageAssumption
<1>8. PageInv'
  BY <1>3, <1>5, <1>6, <1>7 DEF PageInv
<1>9. ServerInv' /\ UNCHANGED <<up, snap, queue, preparing, agent, source, receipt, faults, started>>
  BY <1>6, ServerSame DEF serverVars
<1>10. QED
  BY <1>3, <1>5, <1>6, <1>8, <1>9 DEF Chooses

(* A request arrives: it is taken, or refused for want of its session.     *)
Arrives(p) == Takes(p) /\ posts' = posts \ {p} /\ UNCHANGED <<page, started, clicks>>

LEMMA DeliverStep ==
  ASSUME ServerInv, PageInv, NEW p \in posts, Deliver(p)
  PROVE  /\ ServerInv' /\ PageInv'
         /\ Quiet \/ Arrives(p)
<1>1. posts' = posts \ {p} /\ UNCHANGED <<page, saved, handled, started, reads, clicks>> /\ p \in Requests
      /\ \/ PostEvent(p) /\ answers' = Answered(p, TRUE)
         \/ answers' = Answered(p, FALSE) /\ UNCHANGED serverVars
  BY DEF Deliver, PageInv
<1>2. answers' \subseteq Replies
  <2>1. PICK b \in BOOLEAN : answers' = Answered(p, b)
    BY <1>1
  <2>2. QED
    BY <1>1, <2>1, AnsweredTyped
<1>3. PageInv'
  BY <1>1, <1>2 DEF PageInv
<1>4. CASE PostEvent(p)
  BY <1>1, <1>3, <1>4, PostEventStep DEF Arrives
<1>5. CASE UNCHANGED serverVars
  BY <1>1, <1>2, <1>5, PostsSubset, PageStep DEF PageInv
<1>6. QED
  BY <1>1, <1>4, <1>5

Crashes ==
  /\ UNCHANGED <<page, posts, started, clicks>>
  /\ \A w \in Workers : Eased(agent[w], agent'[w])
  /\ up /\ ~up' /\ queue' = <<>> /\ preparing' = {} /\ faults' = faults + 1
  /\ UNCHANGED <<snap, source, receipt>>

LEMMA ServerCrashStep ==
  ASSUME ServerInv, PageInv, ServerCrash
  PROVE  ServerInv' /\ PageInv' /\ Crashes
<1> DEFINE f(a) == [a EXCEPT !.ok = FALSE]
<1>1. Crash /\ UNCHANGED <<page, saved, handled, started, posts, reads, clicks>>
      /\ answers' = {f(a) : a \in {a \in answers : a.type # "checkpoint"}}
  BY DEF ServerCrash
<1>2. \A a \in Replies : f(a) \in Replies
  BY DEF Replies
<1> HIDE DEF f
<1>3. answers' \subseteq Replies
  BY <1>1, <1>2 DEF PageInv
<1>4. PageInv'
  BY <1>1, <1>3 DEF PageInv
<1>5. QED
  BY <1>1, <1>4, CrashStep DEF Crashes

-----------------------------------------------------------------------------
(* Types                                                                   *)

(* What a step of the server or an agent comes to.                         *)
ServerKinds ==
  \/ Routine \/ Restores
  \/ \E w \in Workers : \/ Publishes(w) \/ Leaves(w) \/ \E next : Applies(w, next)
                        \/ \E next, r : Registers(w, next, r)
  \/ \E p \in preparing : Scaffolded(p)
  \/ \E i \in 1 .. Len(queue) : Lapses(i)

(* What any step comes to.                                                 *)
Kinds ==
  \/ ServerKinds /\ UNCHANGED <<page, posts, started, clicks>>
  \/ Quiet \/ Chooses \/ Crashes
  \/ \E s \in Sessions : Goes(s) \/ Emits(s)
  \/ \E p \in posts : Arrives(p)

LEMMA ServerStepKinds ==
  ASSUME ServerInv, ServerSteps
  PROVE  ServerInv' /\ ServerKinds
<1>1. ASSUME NEW w \in Workers, PollGet(w) PROVE ServerInv' /\ ServerKinds
  BY <1>1, PollGetStep DEF ServerKinds
<1>2. ASSUME NEW w \in Workers, PollTimeout(w) PROVE ServerInv' /\ ServerKinds
  BY <1>2, PollTimeoutStep DEF ServerKinds
<1>3. ASSUME NEW w \in Workers, AgentDies(w) PROVE ServerInv' /\ ServerKinds
  BY <1>3, AgentDiesStep DEF ServerKinds
<1>4. ASSUME NEW w \in Workers, NEW n \in 0 .. Variants, Publish(w, n) PROVE ServerInv' /\ ServerKinds
  BY <1>4, PublishStep DEF ServerKinds
<1>5. ASSUME NEW w \in Workers, RunAccept(w) PROVE ServerInv' /\ ServerKinds
  BY <1>5, RunAcceptStep DEF ServerKinds
<1>6. ASSUME NEW w \in Workers, AcceptFails(w) PROVE ServerInv' /\ ServerKinds
  BY <1>6, AcceptFailsStep DEF ServerKinds
<1>7. ASSUME NEW w \in Workers, ReplyDecision(w) PROVE ServerInv' /\ ServerKinds
  BY <1>7, ReplyDecisionStep DEF ServerKinds
<1>8. ASSUME NEW w \in Workers, Complete(w) PROVE ServerInv' /\ ServerKinds
  BY <1>8, CompleteStep DEF ServerKinds
<1>9. ASSUME NEW w \in Workers, ReplyLost(w) PROVE ServerInv' /\ ServerKinds
  BY <1>9, ReplyLostStep DEF ServerKinds
<1>10. ASSUME NEW w \in Workers, NEW c \in BOOLEAN, WriteReceipt(w, c) PROVE ServerInv' /\ ServerKinds
  BY <1>10, WriteReceiptStep DEF ServerKinds
<1>11. ASSUME NEW w \in Workers, NEW type \in {"done", "error"}, ReplyGenerate(w, type) PROVE ServerInv' /\ ServerKinds
  BY <1>11, ReplyGenerateStep DEF ServerKinds
<1>12. ASSUME NEW p \in preparing, LeaseFails(p) PROVE ServerInv' /\ ServerKinds
  BY <1>12, LeaseFailsStep DEF ServerKinds
<1>13. ASSUME NEW p \in preparing, LeaseReady(p) PROVE ServerInv' /\ ServerKinds
  BY <1>13, LeaseReadyStep DEF ServerKinds
<1>14. ASSUME NEW i \in 1 .. Len(queue), LeaseLapses(i) PROVE ServerInv' /\ ServerKinds
  BY <1>14, LeaseLapsesStep DEF ServerKinds
<1>15. ASSUME LeaseTimerFires PROVE ServerInv' /\ ServerKinds
  BY <1>15, LeaseTimerStep DEF ServerKinds
<1>16. ASSUME Restart PROVE ServerInv' /\ ServerKinds
  BY <1>16, RestartStep DEF ServerKinds
<1>17. QED
  BY <1>1, <1>2, <1>3, <1>4, <1>5, <1>6, <1>7, <1>8, <1>9, <1>10, <1>11, <1>12, <1>13, <1>14, <1>15, <1>16
     DEF ServerSteps

LEMMA NextKinds ==
  ASSUME ServerInv, PageInv, Next
  PROVE  ServerInv' /\ PageInv' /\ Kinds
<1>1. ASSUME ServerSteps, UNCHANGED pageVars PROVE ServerInv' /\ PageInv' /\ Kinds
  <2>1. UNCHANGED <<page, saved, handled, started, posts, answers, reads, clicks>>
    BY <1>1 DEF pageVars
  <2>2. PageInv'
    BY <2>1 DEF PageInv
  <2>3. QED
    BY <1>1, <2>1, <2>2, ServerStepKinds DEF Kinds
<1>2. ASSUME handleAccept PROVE ServerInv' /\ PageInv' /\ Kinds
  BY <1>2, HandleAcceptStep DEF Kinds
<1>3. ASSUME handleDiscard PROVE ServerInv' /\ PageInv' /\ Kinds
  BY <1>3, HandleDiscardStep DEF Kinds
<1>4. ASSUME NEW s \in Sessions, NEW annotated \in BOOLEAN, handleGo(s, annotated)
      PROVE  ServerInv' /\ PageInv' /\ Kinds
  BY <1>4, HandleGoStep DEF Kinds
<1>5. ASSUME NEW v \in 1 .. Variants, selectVariant(v) PROVE ServerInv' /\ PageInv' /\ Kinds
  BY <1>5, SelectVariantStep DEF Kinds
<1>6. ASSUME NEW s \in Sessions, captureAndEmit(s) PROVE ServerInv' /\ PageInv' /\ Kinds
  BY <1>6, CaptureStep DEF Kinds
<1>7. ASSUME NEW p \in posts, Deliver(p) PROVE ServerInv' /\ PageInv' /\ Kinds
  BY <1>7, DeliverStep DEF Kinds
<1>8. ASSUME NEW p \in posts, Lose(p) PROVE ServerInv' /\ PageInv' /\ Kinds
  BY <1>8, LoseStep DEF Kinds
<1>9. ASSUME NEW a \in answers, CreationAnswered(a) PROVE ServerInv' /\ PageInv' /\ Kinds
  BY <1>9, CreationAnsweredStep DEF Kinds
<1>10. ASSUME NEW a \in answers, CheckpointRefused(a) PROVE ServerInv' /\ PageInv' /\ Kinds
  BY <1>10, CheckpointRefusedStep DEF Kinds
<1>11. ASSUME NEW a \in answers, AcceptAnsweredToPage(a) PROVE ServerInv' /\ PageInv' /\ Kinds
  BY <1>11, AcceptAnsweredStep DEF Kinds
<1>12. ASSUME NEW a \in answers, DiscardAnswered(a) PROVE ServerInv' /\ PageInv' /\ Kinds
  BY <1>12, DiscardAnsweredStep DEF Kinds
<1>13. ASSUME NEW r \in reads, injectVariantsFromSource(r) PROVE ServerInv' /\ PageInv' /\ Kinds
  BY <1>13, InjectStep DEF Kinds
<1>14. ASSUME CheckpointTimer PROVE ServerInv' /\ PageInv' /\ Kinds
  BY <1>14, CheckpointTimerStep DEF Kinds
<1>15. ASSUME Update PROVE ServerInv' /\ PageInv' /\ Kinds
  BY <1>15, UpdateStep DEF Kinds
<1>16. ASSUME ReadStream PROVE ServerInv' /\ PageInv' /\ Kinds
  BY <1>16, ReadStreamStep DEF Kinds
<1>17. ASSUME Reload PROVE ServerInv' /\ PageInv' /\ Kinds
  BY <1>17, ReloadStep DEF Kinds
<1>18. ASSUME Connect PROVE ServerInv' /\ PageInv' /\ Kinds
  BY <1>18, ConnectStep DEF Kinds
<1>19. ASSUME Drop PROVE ServerInv' /\ PageInv' /\ Kinds
  BY <1>19, DropStep DEF Kinds
<1>20. ASSUME ServerCrash PROVE ServerInv' /\ PageInv' /\ Kinds
  BY <1>20, ServerCrashStep DEF Kinds
<1>21. QED
  BY <1>1, <1>2, <1>3, <1>4, <1>5, <1>6, <1>7, <1>8, <1>9, <1>10, <1>11, <1>12, <1>13, <1>14, <1>15, <1>16,
     <1>17, <1>18, <1>19, <1>20 DEF Next, UserSteps, PageSteps

LEMMA InitTypes ==
  ASSUME Init
  PROVE  ServerInv /\ PageInv
<1>1. ServerInit /\ page = FreshPage /\ saved = NotSaved /\ handled = None /\ started = {} /\ posts = {}
      /\ answers = {} /\ reads = {} /\ clicks = 0
  BY DEF Init
<1>2. PageInv
  BY <1>1, NotSavedTyped, FreshPageTyped, PageAssumption DEF PageInv
<1>3. /\ up = TRUE /\ snap = [s \in Sessions |-> baseSnapshot] /\ queue = <<>> /\ polls = <<>> /\ preparing = {}
      /\ timer = FALSE /\ client = TRUE /\ sse = <<>> /\ agent = [w \in Workers |-> Idle]
      /\ receipt = [s \in Sessions |-> NoReceipt] /\ faults = 0
      /\ source = [s \in Sessions |-> [st |-> "plain", n |-> 0, kept |-> 0, late |-> FALSE]]
  BY <1>1 DEF ServerInit
<1>4. baseSnapshot \in Snapshots
  BY VariantsAssumption DEF baseSnapshot, Snapshots, Phases, PendingTypes
<1>5. NoReceipt \in Receipts /\ [st |-> "plain", n |-> 0, kept |-> 0, late |-> FALSE] \in Sources
  BY VariantsAssumption DEF NoReceipt, Receipts, Sources
<1>6. snap \in [Sessions -> Snapshots] /\ receipt \in [Sessions -> Receipts] /\ source \in [Sessions -> Sources]
  BY <1>3, <1>4, <1>5
<1>7. agent \in [Workers -> Agents] /\ \A w \in Workers : Shaped(agent[w])
  BY <1>3, IdleTyped
<1>8. queue \in Seq(Entries) /\ polls \in Seq(Workers) /\ sse \in Seq(Messages) /\ faults \in 0 .. MaxFaults
  BY <1>3, ServerAssumption
<1>9. up \in BOOLEAN /\ timer \in BOOLEAN /\ client \in BOOLEAN /\ up /\ preparing = {}
  BY <1>3
<1>10. ServerInv
  BY <1>6, <1>7, <1>8, <1>9 DEF ServerInv, ServerTypeOK
<1>11. QED
  BY <1>2, <1>10

LEMMA StutterTypes ==
  ASSUME ServerInv, PageInv, UNCHANGED vars
  PROVE  ServerInv' /\ PageInv' /\ Quiet
<1>1. UNCHANGED <<serverVars, page, saved, handled, started, posts, answers, reads, clicks>>
  BY DEF vars, pageVars
<1>2. QED
  BY <1>1, PostsSubset, PageStep DEF PageInv

LEMMA LiveTypesInvariant == Spec => [](ServerInv /\ PageInv)
<1>1. Init => ServerInv /\ PageInv
  BY InitTypes
<1>2. ServerInv /\ PageInv /\ [Next]_vars => (ServerInv /\ PageInv)'
  BY NextKinds, StutterTypes
<1>3. QED
  BY <1>1, <1>2, PTL DEF Spec

(* The types of live mode are kept by every handler of the server, every   *)
(* step of an agent and every handler of the page.                         *)
THEOREM LiveTypeCorrect == Spec => []LiveTypeOK
<1>1. ServerInv /\ PageInv => LiveTypeOK
  BY DEF ServerInv, PageInv, LiveTypeOK
<1>2. QED
  BY <1>1, LiveTypesInvariant, PTL

-----------------------------------------------------------------------------
(* Creations                                                               *)

(* The sessions whose generate has not reached the server: not drawn, held *)
(* back for the screenshot, or on its way.                                 *)
Created(P, s) == \E p \in P : p.type = "generate" /\ p.sess = s

Fresh == {s \in Sessions : s \notin started \/ s \in page.captures \/ Created(posts, s)}

(* A session is created by one request, which is held back or on its way.  *)
CreatedOnce ==
  /\ page.captures \subseteq started
  /\ \A p \in posts : p.type = "generate" => p.sess \in started /\ p.sess \notin page.captures
  /\ \A p, r \in posts : p.type = "generate" /\ r.type = "generate" /\ p.sess = r.sess => p = r

LEMMA CreatedOnceStep ==
  ASSUME CreatedOnce, PageInv, Kinds
  PROVE  CreatedOnce'
<1>1. CASE UNCHANGED <<page, posts, started>>
  BY <1>1 DEF CreatedOnce
<1>2. CASE Quiet
  <2>1. started' = started /\ page'.captures \subseteq page.captures /\ PostsQuiet(posts, posts')
    BY <1>2 DEF Quiet
  <2>2. QED
    BY <2>1 DEF CreatedOnce, PostsQuiet
<1>3. CASE Chooses
  <2>1. PICK m \in Requests : m.type = "accept" /\ posts' = posts \cup {m}
    BY <1>3 DEF Chooses
  <2>2. started' = started /\ page'.captures = page.captures
    BY <1>3 DEF Chooses
  <2>3. QED
    BY <2>1, <2>2 DEF CreatedOnce
<1>4. ASSUME NEW s \in Sessions, Goes(s) PROVE CreatedOnce'
  <2>1. PICK P : /\ PostsQuiet(posts, P)
                 /\ \/ page'.captures = page.captures \cup {s} /\ posts' = P
                    \/ /\ page'.captures = page.captures
                       /\ \E m \in Requests : m.type = "generate" /\ m.sess = s /\ posts' = P \cup {m}
    BY <1>4 DEF Goes
  <2>2. s \notin started /\ started' = started \cup {s}
    BY <1>4 DEF Goes
  <2>3. /\ \A p \in P : p.type = "generate" => p.sess \in started /\ p.sess \notin page.captures
        /\ \A p, r \in P : p.type = "generate" /\ r.type = "generate" /\ p.sess = r.sess => p = r
    BY <2>1 DEF CreatedOnce, PostsQuiet
  <2>4. page.captures \subseteq started
    BY DEF CreatedOnce
  <2>5. QED
    BY <2>1, <2>2, <2>3, <2>4 DEF CreatedOnce
<1>5. ASSUME NEW s \in Sessions, Emits(s) PROVE CreatedOnce'
  <2>1. PICK m \in Requests : m.type = "generate" /\ m.sess = s /\ posts' = posts \cup {m}
    BY <1>5 DEF Emits
  <2>2. started' = started /\ s \in page.captures /\ page'.captures = page.captures \ {s}
    BY <1>5 DEF Emits
  <2>3. QED
    BY <2>1, <2>2 DEF CreatedOnce
<1>6. ASSUME NEW p \in posts, Arrives(p) PROVE CreatedOnce'
  BY <1>6 DEF Arrives, CreatedOnce
<1>7. QED
  BY <1>1, <1>2, <1>3, <1>4, <1>5, <1>6 DEF Kinds, Crashes

(* No session becomes fresh again, and the arrival of its generate ends    *)
(* its being fresh.                                                        *)
LEMMA FreshStep ==
  ASSUME CreatedOnce, PageInv, Kinds
  PROVE  Fresh' \subseteq Fresh
<1>1. CASE UNCHANGED <<page, posts, started>>
  BY <1>1 DEF Fresh
<1>2. CASE Quiet
  <2>1. started' = started /\ page'.captures \subseteq page.captures /\ PostsQuiet(posts, posts')
    BY <1>2 DEF Quiet
  <2>2. \A s : Created(posts', s) => Created(posts, s)
    BY <2>1 DEF PostsQuiet, Created
  <2>3. QED
    BY <2>1, <2>2 DEF Fresh
<1>3. CASE Chooses
  <2>1. PICK m \in Requests : m.type = "accept" /\ posts' = posts \cup {m}
    BY <1>3 DEF Chooses
  <2>2. started' = started /\ page'.captures = page.captures
    BY <1>3 DEF Chooses
  <2>3. \A s : Created(posts', s) => Created(posts, s)
    BY <2>1 DEF Created
  <2>4. QED
    BY <2>2, <2>3 DEF Fresh
<1>4. ASSUME NEW s \in Sessions, Goes(s) PROVE Fresh' \subseteq Fresh
  <2>1. PICK P : /\ PostsQuiet(posts, P)
                 /\ \/ page'.captures = page.captures \cup {s} /\ posts' = P
                    \/ /\ page'.captures = page.captures
                       /\ \E m \in Requests : m.type = "generate" /\ m.sess = s /\ posts' = P \cup {m}
    BY <1>4 DEF Goes
  <2>2. s \notin started /\ started' = started \cup {s}
    BY <1>4 DEF Goes
  <2>3. \A t \in Sessions \ {s} : Created(posts', t) => Created(posts, t)
    BY <2>1 DEF PostsQuiet, Created
  <2>4. s \in Fresh
    BY <2>2 DEF Fresh
  <2>5. QED
    BY <2>1, <2>2, <2>3, <2>4 DEF Fresh
<1>5. ASSUME NEW s \in Sessions, Emits(s) PROVE Fresh' \subseteq Fresh
  <2>1. PICK m \in Requests : m.type = "generate" /\ m.sess = s /\ posts' = posts \cup {m}
    BY <1>5 DEF Emits
  <2>2. started' = started /\ s \in page.captures /\ page'.captures = page.captures \ {s}
    BY <1>5 DEF Emits
  <2>3. \A t \in Sessions \ {s} : Created(posts', t) => Created(posts, t)
    BY <2>1 DEF Created
  <2>4. QED
    BY <2>2, <2>3 DEF Fresh
<1>6. ASSUME NEW p \in posts, Arrives(p) PROVE Fresh' \subseteq Fresh
  <2>1. posts' \subseteq posts /\ UNCHANGED <<page, started>>
    BY <1>6 DEF Arrives
  <2>2. \A s : Created(posts', s) => Created(posts, s)
    BY <2>1 DEF Created
  <2>3. QED
    BY <2>1, <2>2 DEF Fresh
<1>7. QED
  BY <1>1, <1>2, <1>3, <1>4, <1>5, <1>6 DEF Kinds, Crashes

LEMMA CreationArrives ==
  ASSUME CreatedOnce, NEW p \in posts, p \in Requests, Arrives(p), p.type = "generate"
  PROVE  p.sess \in Fresh /\ p.sess \notin Fresh'
<1>1. p.sess \in Sessions /\ p.sess \in started /\ p.sess \notin page.captures
  BY DEF CreatedOnce, Requests
<1>2. Created(posts, p.sess) /\ posts' = posts \ {p} /\ UNCHANGED <<page, started>>
  BY DEF Created, Arrives
<1>3. ~Created(posts', p.sess)
  BY <1>2 DEF Created, CreatedOnce
<1>4. QED
  BY <1>1, <1>2, <1>3 DEF Fresh

-----------------------------------------------------------------------------
(* The way of a generate                                                   *)

(* A session has one generate at most, in the queue and in preparation; it *)
(* is claimed while it is prepared, prepared until its journal says it is  *)
(* scaffolded, and worked on only after that.                              *)
OneGenerate(q) ==
  \A i, j \in 1 .. Len(q) :
    q[i].type = "generate" /\ q[j].type = "generate" /\ q[i].sess = q[j].sess => i = j

OnePreparation(q, prep) ==
  /\ \A p, r \in prep : p.sess = r.sess => p = r
  /\ \A p \in prep, i \in 1 .. Len(q) : q[i].type = "generate" /\ q[i].sess = p.sess => q[i].lease = "live"

ReadyKnown(q, prep, ag, sn) ==
  /\ \A p \in prep : ~sn[p.sess].ready
  /\ \A i \in 1 .. Len(q) : q[i].type = "generate" => q[i].ready = sn[q[i].sess].ready
  /\ \A w \in Workers : ag[w].st = "work" /\ ag[w].type = "generate" => sn[ag[w].sess].ready

(* The server knows nothing of a fresh session.                            *)
Unknown(F, q, prep, ag, sn) ==
  \A s \in F : /\ ~sn[s].exists /\ ~sn[s].ready /\ sn[s].pending = "none"
               /\ \A i \in 1 .. Len(q) : q[i].sess # s
               /\ \A p \in prep : p.sess # s
               /\ \A w \in Workers : ag[w].sess # s

Way(F, q, prep, ag, sn) ==
  /\ OneGenerate(q) /\ OnePreparation(q, prep) /\ ReadyKnown(q, prep, ag, sn) /\ Unknown(F, q, prep, ag, sn)

GenerateInv == Way(Fresh, queue, preparing, agent, snap)

LEMMA EntryFacts ==
  ASSUME NEW q \in Seq(Entries), NEW i \in 1 .. Len(q)
  PROVE  q[i] \in Entries /\ q[i].sess \in Sessions /\ q[i].type \in Types /\ q[i].ready \in BOOLEAN
<1>1. q[i] \in Entries
  BY ElementOfSeq
<1>2. QED
  BY <1>1 DEF Entries

LEMMA WayRearranged ==
  ASSUME NEW F, NEW q \in Seq(Entries), NEW r \in Seq(Entries), NEW prep, NEW ag, NEW sn,
         Way(F, q, prep, ag, sn), Rearranged(q, r)
  PROVE  Way(F, r, prep, ag, sn)
<1>1. PICK f \in [1 .. Len(r) -> 1 .. Len(q)] :
        /\ \A i, j \in 1 .. Len(r) : f[i] = f[j] => i = j
        /\ \A i \in 1 .. Len(r) : /\ r[i].sess = q[f[i]].sess /\ r[i].type = q[f[i]].type
                                  /\ r[i].variant = q[f[i]].variant /\ r[i].ready = q[f[i]].ready
                                  /\ q[f[i]].lease = "live" => r[i].lease = "live"
  BY DEF Rearranged
<1>2. \A i \in 1 .. Len(r) : f[i] \in 1 .. Len(q)
  BY <1>1
<1>3. OneGenerate(r)
  <2> SUFFICES ASSUME NEW i \in 1 .. Len(r), NEW j \in 1 .. Len(r), r[i].type = "generate",
                      r[j].type = "generate", r[i].sess = r[j].sess
               PROVE  f[i] = f[j]
    BY <1>1 DEF OneGenerate
  <2>1. q[f[i]].type = "generate" /\ q[f[j]].type = "generate" /\ q[f[i]].sess = q[f[j]].sess
    BY <1>1
  <2>2. f[i] \in 1 .. Len(q) /\ f[j] \in 1 .. Len(q)
    BY <1>2
  <2>3. QED
    BY <2>1, <2>2 DEF Way, OneGenerate
<1>4. OnePreparation(r, prep)
  <2>1. ASSUME NEW p \in prep, NEW i \in 1 .. Len(r), r[i].type = "generate", r[i].sess = p.sess
        PROVE  r[i].lease = "live"
    <3>1. f[i] \in 1 .. Len(q) /\ q[f[i]].type = "generate" /\ q[f[i]].sess = p.sess
      BY <1>1, <1>2, <2>1
    <3>2. q[f[i]].lease = "live"
      BY <3>1 DEF Way, OnePreparation
    <3>3. QED
      BY <1>1, <3>2
  <2>2. QED
    BY <2>1 DEF Way, OnePreparation
<1>5. ReadyKnown(r, prep, ag, sn)
  BY <1>1, <1>2 DEF Way, ReadyKnown
<1>6. Unknown(F, r, prep, ag, sn)
  BY <1>1, <1>2 DEF Way, Unknown
<1>7. QED
  BY <1>3, <1>4, <1>5, <1>6 DEF Way

(* No agent starts to work.                                                *)
Settles(ag, ag2) ==
  \A w \in Workers : ag2[w] = ag[w] \/ (ag2[w].st # "work" /\ ag2[w].sess \in {ag[w].sess, None})

LEMMA EasedSettles ==
  ASSUME NEW ag, NEW ag2, \A w \in Workers : Eased(ag[w], ag2[w]) PROVE Settles(ag, ag2)
BY DEF Eased, Busy, Completions, Settles

LEMMA WaySettles ==
  ASSUME NEW F \in SUBSET Sessions, NEW q, NEW prep, NEW ag, NEW ag2, NEW sn,
         Way(F, q, prep, ag, sn), Settles(ag, ag2)
  PROVE  Way(F, q, prep, ag2, sn)
<1>1. None \notin F
  BY ServerAssumption
<1>2. ReadyKnown(q, prep, ag2, sn)
  BY DEF Way, ReadyKnown, Settles
<1>3. Unknown(F, q, prep, ag2, sn)
  BY <1>1 DEF Way, Unknown, Settles
<1>4. QED
  BY <1>2, <1>3 DEF Way

(* The journals change, but neither what they say of the scaffolding nor   *)
(* anything of a fresh session.                                            *)
LEMMA WayJournals ==
  ASSUME NEW F \in SUBSET Sessions, NEW F2 \in SUBSET F, NEW q \in Seq(Entries), NEW prep \in SUBSET Prepared,
         NEW ag, NEW sn, NEW sn2, Way(F, q, prep, ag, sn), \A w \in Workers : Shaped(ag[w]),
         \A s \in Sessions : sn2[s].ready = sn[s].ready,
         \A s \in F2 : sn2[s].exists = sn[s].exists /\ sn2[s].pending \in {sn[s].pending, "none"}
  PROVE  Way(F2, q, prep, ag, sn2)
<1>1. \A i \in 1 .. Len(q) : q[i].sess \in Sessions
  BY EntryFacts
<1>2. \A p \in prep : p.sess \in Sessions
  BY DEF Prepared
<1>3. \A w \in Workers : ag[w].st = "work" => ag[w].sess \in Sessions
  BY DEF Shaped, Busy
<1>4. ReadyKnown(q, prep, ag, sn2)
  BY <1>1, <1>2, <1>3 DEF Way, ReadyKnown
<1>5. Unknown(F2, q, prep, ag, sn2)
  BY DEF Way, Unknown
<1>6. QED
  BY <1>4, <1>5 DEF Way

LEMMA WayDispatched ==
  ASSUME NEW F \in SUBSET Sessions, NEW q \in Seq(Entries), NEW prep \in SUBSET Prepared, NEW ag, NEW sn,
         NEW q2, NEW prep2 \in SUBSET Prepared, NEW ag2,
         Way(F, q, prep, ag, sn), Dispatches(q, prep, ag, q2, prep2, ag2)
  PROVE  Way(F, q2, prep2, ag2, sn)
<1> DEFINE Handed(T, to) ==
        /\ Len(q2) = Len(q)
        /\ \A i \in 1 .. Len(q) : /\ q2[i].sess = q[i].sess /\ q2[i].type = q[i].type
                                  /\ q2[i].variant = q[i].variant /\ q2[i].ready = q[i].ready
                                  /\ q2[i].lease = IF i \in T THEN "live" ELSE q[i].lease
        /\ \A p \in prep2 : p \in prep \/ \E i \in T : Scaffolds(q[i]) /\ p.sess = q[i].sess /\ p.to = to[i]
        /\ \A w \in Workers : ag2[w] = ag[w] \/ \E i \in T : to[i] = w /\ ag2[w] = leaseEvent(q[i])
<1>0. PICK T \in SUBSET Available(q) : \E to \in [T -> Workers] : Handed(T, to)
  BY DEF Dispatches
<1>1. PICK to \in [T -> Workers] : Handed(T, to)
  BY <1>0
<1>2. \A i \in T : i \in 1 .. Len(q) /\ q[i].lease # "live" /\ q[i] \in Entries
  BY ElementOfSeq DEF Available
<1>3. \A p \in prep2 : p \in prep \/ \E i \in T : /\ i \in 1 .. Len(q) /\ q[i].type = "generate" /\ ~q[i].ready
                                                 /\ p.sess = q[i].sess /\ p.to = to[i]
  BY <1>1, <1>2 DEF Scaffolds
<1>4. \A w \in Workers :
        \/ ag2[w] = ag[w]
        \/ ag2[w].st = "waiting" /\ ag2[w].sess = None /\ ag2[w].type = "none"
        \/ \E i \in T : /\ i \in 1 .. Len(q) /\ ag2[w].sess = q[i].sess /\ ag2[w].type = q[i].type
                        /\ ag2[w].variant = q[i].variant /\ ag2[w].st = "work"
                        /\ q[i].type = "generate" => q[i].ready
  <2> TAKE w \in Workers
  <2>1. CASE ag2[w] = ag[w]
    BY <2>1
  <2>2. ASSUME NEW i \in T, ag2[w] = leaseEvent(q[i])
        PROVE  \/ ag2[w].st = "waiting" /\ ag2[w].sess = None /\ ag2[w].type = "none"
               \/ /\ i \in 1 .. Len(q) /\ ag2[w].sess = q[i].sess /\ ag2[w].type = q[i].type
                  /\ ag2[w].variant = q[i].variant /\ ag2[w].st = "work"
                  /\ q[i].type = "generate" => q[i].ready
    <3>1. PICK e \in Entries : e = q[i]
      BY <1>2
    <3>2. CASE Scaffolds(e)
      BY <2>2, <3>1, <3>2, LeaseEventTyped
    <3>3. CASE ~Scaffolds(e)
      <4>1. e.type = "generate" => e.ready
        BY <3>3 DEF Scaffolds
      <4>2. QED
        BY <1>2, <2>2, <3>1, <3>3, <4>1, LeaseEventTyped
    <3>4. QED
      BY <3>2, <3>3
  <2>3. QED
    BY <1>1, <2>1, <2>2
<1>5. OneGenerate(q2)
  BY <1>1 DEF Way, OneGenerate
<1>6. \A p, r \in prep2 : p.sess = r.sess => p = r
  <2> SUFFICES ASSUME NEW p \in prep2, NEW r \in prep2, p.sess = r.sess PROVE p = r
    OBVIOUS
  <2>1. \A u \in prep, i \in T : q[i].type = "generate" => u.sess # q[i].sess
    BY <1>2 DEF Way, OnePreparation
  <2>2. CASE p \in prep
    BY <1>3, <2>1, <2>2 DEF Way, OnePreparation
  <2>3. CASE p \notin prep
    <3>1. PICK i \in T : i \in 1 .. Len(q) /\ q[i].type = "generate" /\ p.sess = q[i].sess /\ p.to = to[i]
      BY <1>3, <2>3
    <3>2. PICK j \in T : j \in 1 .. Len(q) /\ q[j].type = "generate" /\ r.sess = q[j].sess /\ r.to = to[j]
      BY <1>3, <2>1, <3>1
    <3>3. i = j
      BY <3>1, <3>2 DEF Way, OneGenerate
    <3>4. QED
      BY <3>1, <3>2, <3>3 DEF Prepared
  <2>4. QED
    BY <2>2, <2>3
<1>7. \A p \in prep2, i \in 1 .. Len(q2) : q2[i].type = "generate" /\ q2[i].sess = p.sess => q2[i].lease = "live"
  <2> SUFFICES ASSUME NEW p \in prep2, NEW i \in 1 .. Len(q), q[i].type = "generate", q[i].sess = p.sess
               PROVE  i \in T \/ q[i].lease = "live"
    BY <1>1
  <2>1. CASE p \in prep
    BY <2>1 DEF Way, OnePreparation
  <2>2. CASE p \notin prep
    BY <1>3, <2>2 DEF Way, OneGenerate
  <2>3. QED
    BY <2>1, <2>2
<1>8. \A p \in prep2 : ~sn[p.sess].ready
  BY <1>3 DEF Way, ReadyKnown
<1>9. \A i \in 1 .. Len(q2) : q2[i].type = "generate" => q2[i].ready = sn[q2[i].sess].ready
  BY <1>1 DEF Way, ReadyKnown
<1>10. \A w \in Workers : ag2[w].st = "work" /\ ag2[w].type = "generate" => sn[ag2[w].sess].ready
  BY <1>4 DEF Way, ReadyKnown
<1>11. None \notin F
  BY ServerAssumption
<1>12. Unknown(F, q2, prep2, ag2, sn)
  <2> SUFFICES ASSUME NEW s \in F
               PROVE  /\ ~sn[s].exists /\ ~sn[s].ready /\ sn[s].pending = "none"
                      /\ \A i \in 1 .. Len(q2) : q2[i].sess # s
                      /\ \A p \in prep2 : p.sess # s
                      /\ \A w \in Workers : ag2[w].sess # s
    BY DEF Unknown
  <2>1. /\ ~sn[s].exists /\ ~sn[s].ready /\ sn[s].pending = "none"
        /\ \A i \in 1 .. Len(q) : q[i].sess # s
        /\ \A p \in prep : p.sess # s
        /\ \A w \in Workers : ag[w].sess # s
    BY DEF Way, Unknown
  <2>2. \A i \in 1 .. Len(q2) : q2[i].sess # s
    BY <1>1, <2>1
  <2>3. \A p \in prep2 : p.sess # s
    BY <1>3, <2>1
  <2>4. \A w \in Workers : ag2[w].sess # s
    BY <1>4, <1>11, <2>1
  <2>5. QED
    BY <2>1, <2>2, <2>3, <2>4
<1>13. QED
  BY <1>5, <1>6, <1>7, <1>8, <1>9, <1>10, <1>12 DEF Way, OnePreparation, ReadyKnown

LEMMA GenerateRoutine ==
  ASSUME ServerInv, ServerInv', GenerateInv, Fresh' \subseteq Fresh, Routine
  PROVE  GenerateInv'
<1>1. PICK q \in Seq(Entries), ag \in [Workers -> Agents] :
        /\ Rearranged(queue, q) /\ \A w \in Workers : Eased(agent[w], ag[w])
        /\ Dispatches(q, preparing, ag, queue', preparing', agent')
  BY DEF Routine
<1>2. /\ queue \in Seq(Entries) /\ preparing \in SUBSET Prepared /\ queue' \in Seq(Entries)
      /\ preparing' \in SUBSET Prepared /\ \A w \in Workers : Shaped(agent'[w])
  BY DEF ServerInv, ServerTypeOK, Prepared
<1>3. Fresh \in SUBSET Sessions /\ Fresh' \in SUBSET Fresh
  BY DEF Fresh
<1>4. Way(Fresh, q, preparing, agent, snap)
  BY <1>1, <1>2, WayRearranged DEF GenerateInv
<1>5. Way(Fresh, q, preparing, ag, snap)
  BY <1>1, <1>3, <1>4, EasedSettles, WaySettles
<1>6. Way(Fresh, queue', preparing', agent', snap)
  BY <1>1, <1>2, <1>3, <1>5, WayDispatched
<1>7. \A s \in Sessions : /\ snap'[s].ready = snap[s].ready /\ snap'[s].exists = snap[s].exists
                          /\ snap'[s].pending \in {snap[s].pending, "none"}
  BY DEF Routine, Continues
<1>8. Way(Fresh', queue', preparing', agent', snap')
  BY <1>2, <1>3, <1>6, <1>7, WayJournals
<1>9. QED
  BY <1>8 DEF GenerateInv

LEMMA GenerateRestores ==
  ASSUME ServerInv, ServerInv', GenerateInv, Fresh' \subseteq Fresh, Restores
  PROVE  GenerateInv'
<1>1. preparing' = {} /\ UNCHANGED <<agent, snap>>
  BY DEF Restores, ServerInv
<1>2. /\ \A i \in 1 .. Len(queue') : /\ snap[queue'[i].sess].pending = queue'[i].type
                                     /\ queue'[i].ready = snap[queue'[i].sess].ready
      /\ \A i, j \in 1 .. Len(queue') : queue'[i].sess = queue'[j].sess => i = j
  BY DEF Restores
<1>3. \A i \in 1 .. Len(queue') : queue'[i].type # "none"
  <2>1. queue' \in Seq(Entries)
    BY DEF ServerInv, ServerTypeOK
  <2>2. \A i \in 1 .. Len(queue') : queue'[i].type \in Types
    BY <2>1, EntryFacts
  <2>3. QED
    BY <2>2 DEF Types
<1>4. OneGenerate(queue') /\ OnePreparation(queue', preparing')
  BY <1>1, <1>2 DEF OneGenerate, OnePreparation
<1>5. ReadyKnown(queue', preparing', agent', snap')
  BY <1>1, <1>2 DEF ReadyKnown, GenerateInv, Way
<1>6. Unknown(Fresh', queue', preparing', agent', snap')
  BY <1>1, <1>2, <1>3 DEF Unknown, GenerateInv, Way
<1>7. QED
  BY <1>4, <1>5, <1>6 DEF GenerateInv, Way

LEMMA GenerateLeaves ==
  ASSUME ServerInv, ServerInv', GenerateInv, Fresh' \subseteq Fresh, NEW w \in Workers, Leaves(w)
  PROVE  GenerateInv'
<1>1. /\ \A r \in preparing' : \E p \in preparing : r.sess = p.sess
      /\ \A r, t \in preparing' : r.sess = t.sess =>
           r = t \/ \E p, u \in preparing : p # u /\ p.sess = r.sess /\ u.sess = r.sess
      /\ UNCHANGED <<snap, queue>> /\ agent' = [agent EXCEPT ![w] = Idle]
  BY DEF Leaves
<1>2. Settles(agent, agent')
  <2>1. agent \in [Workers -> Agents]
    BY DEF ServerInv, ServerTypeOK
  <2>2. QED
    BY <1>1, <2>1, IdleTyped DEF Settles
<1>3. Fresh \in SUBSET Sessions /\ Fresh' \in SUBSET Fresh
  BY DEF Fresh
<1>4. Way(Fresh, queue, preparing, agent', snap)
  BY <1>2, <1>3, WaySettles DEF GenerateInv
<1>5. OnePreparation(queue', preparing')
  BY <1>1 DEF GenerateInv, Way, OnePreparation
<1>6. ReadyKnown(queue', preparing', agent', snap')
  BY <1>1, <1>4 DEF Way, ReadyKnown
<1>7. Unknown(Fresh', queue', preparing', agent', snap')
  BY <1>1, <1>3, <1>4 DEF Way, Unknown
<1>8. QED
  BY <1>1, <1>4, <1>5, <1>6, <1>7 DEF GenerateInv, Way

LEMMA GenerateSettles ==
  ASSUME GenerateInv, Fresh' \subseteq Fresh, Settles(agent, agent'),
         UNCHANGED <<snap, queue, preparing>> \/ (queue' = <<>> /\ preparing' = {} /\ snap' = snap)
  PROVE  GenerateInv'
<1>1. Fresh \in SUBSET Sessions /\ Fresh' \in SUBSET Fresh
  BY DEF Fresh
<1>2. Way(Fresh, queue, preparing, agent', snap)
  BY <1>1, WaySettles DEF GenerateInv
<1>3. Unknown(Fresh', queue, preparing, agent', snap)
  BY <1>1, <1>2 DEF Way, Unknown
<1>4. CASE UNCHANGED <<snap, queue, preparing>>
  BY <1>2, <1>3, <1>4 DEF GenerateInv, Way
<1>5. CASE queue' = <<>> /\ preparing' = {} /\ snap' = snap
  <2>1. 1 .. Len(queue') = {}
    BY <1>5
  <2>2. OneGenerate(queue') /\ OnePreparation(queue', preparing')
    BY <1>5, <2>1 DEF OneGenerate, OnePreparation
  <2>3. ReadyKnown(queue', preparing', agent', snap')
    BY <1>2, <1>5, <2>1 DEF Way, ReadyKnown
  <2>4. Unknown(Fresh', queue', preparing', agent', snap')
    BY <1>3, <1>5, <2>1 DEF Unknown
  <2>5. QED
    BY <2>2, <2>3, <2>4 DEF GenerateInv, Way
<1>6. QED
  BY <1>4, <1>5

LEMMA GenerateScaffolded ==
  ASSUME ServerInv, ServerInv', GenerateInv, Fresh' \subseteq Fresh, NEW p \in preparing, Scaffolded(p)
  PROVE  GenerateInv'
<1>1. /\ p.sess \in Sessions /\ preparing' = preparing \ {p}
      /\ \A t \in Sessions \ {p.sess} : snap'[t] = snap[t]
      /\ snap'[p.sess].ready /\ Len(queue') = Len(queue)
      /\ \A i \in 1 .. Len(queue) :
           /\ queue'[i].sess = queue[i].sess /\ queue'[i].type = queue[i].type
           /\ queue'[i] = queue[i] \/ (queue[i].type = "generate" /\ queue[i].sess = p.sess)
  BY DEF Scaffolded
<1>2. Queued(queue, p.sess, {"generate"}) =>
        \E k \in 1 .. Len(queue) : /\ queue[k].type = "generate" /\ queue[k].sess = p.sess
                                   /\ queue'[k].lease = "live" /\ queue'[k].ready
  BY DEF Scaffolded
<1>3. PICK next : /\ next.st = "work" /\ next.sess = p.sess /\ next.type = "generate"
                  /\ \A w \in Workers : agent'[w] = IF w = p.to THEN next ELSE agent[w]
  BY DEF Scaffolded
<1>4. \A i \in 1 .. Len(queue) : queue[i].sess \in Sessions
  <2>1. queue \in Seq(Entries)
    BY DEF ServerInv, ServerTypeOK
  <2>2. QED
    BY <2>1, EntryFacts
<1>5. \A r \in preparing : r.sess \in Sessions
  BY DEF ServerInv, ServerTypeOK
<1>6. \A w \in Workers : agent[w].st = "work" => agent[w].sess \in Sessions
  BY DEF ServerInv, Shaped, Busy
<1>7. \A i \in 1 .. Len(queue) :
        queue[i].type = "generate" /\ queue[i].sess = p.sess => queue'[i].lease = "live" /\ queue'[i].ready
  BY <1>2 DEF GenerateInv, Way, OneGenerate, Queued
<1>8. OneGenerate(queue')
  BY <1>1 DEF GenerateInv, Way, OneGenerate
<1>9. OnePreparation(queue', preparing')
  BY <1>1 DEF GenerateInv, Way, OnePreparation
<1>10. \A r \in preparing' : ~snap'[r.sess].ready
  BY <1>1, <1>5 DEF GenerateInv, Way, OnePreparation, ReadyKnown
<1>11. \A i \in 1 .. Len(queue') : queue'[i].type = "generate" => queue'[i].ready = snap'[queue'[i].sess].ready
  <2> SUFFICES ASSUME NEW i \in 1 .. Len(queue), queue'[i].type = "generate"
               PROVE  queue'[i].ready = snap'[queue'[i].sess].ready
    BY <1>1
  <2>1. CASE queue[i].sess = p.sess
    <3>1. queue'[i].ready /\ queue'[i].sess = p.sess
      BY <1>1, <1>7, <2>1
    <3>2. queue'[i].ready \in BOOLEAN /\ snap'[p.sess].ready \in BOOLEAN
      <4>1. queue' \in Seq(Entries) /\ snap' \in [Sessions -> Snapshots]
        BY DEF ServerInv, ServerTypeOK
      <4>2. queue'[i] \in Entries
        BY <1>1, <4>1, ElementOfSeq
      <4>3. QED
        BY <1>1, <4>1, <4>2 DEF Entries, Snapshots
    <3>3. QED
      BY <1>1, <3>1, <3>2
  <2>2. CASE queue[i].sess # p.sess
    BY <1>1, <1>4, <2>2 DEF GenerateInv, Way, ReadyKnown
  <2>3. QED
    BY <2>1, <2>2
<1>12. \A w \in Workers : agent'[w].st = "work" /\ agent'[w].type = "generate" => snap'[agent'[w].sess].ready
  BY <1>1, <1>3, <1>6 DEF GenerateInv, Way, ReadyKnown
<1>13. Unknown(Fresh', queue', preparing', agent', snap')
  <2>1. \A s \in Fresh' : s \in Sessions /\ s \in Fresh /\ s # p.sess
    BY DEF Fresh, GenerateInv, Way, Unknown
  <2>2. QED
    BY <1>1, <1>3, <2>1 DEF GenerateInv, Way, Unknown
<1>14. QED
  BY <1>8, <1>9, <1>10, <1>11, <1>12, <1>13 DEF GenerateInv, Way, ReadyKnown

LEMMA GenerateLapses ==
  ASSUME GenerateInv, Fresh' \subseteq Fresh, NEW k \in 1 .. Len(queue), Lapses(k)
  PROVE  GenerateInv'
<1>1. /\ \A p \in preparing : p.sess # queue[k].sess
      /\ Len(queue') = Len(queue) /\ \A j \in 1 .. Len(queue) \ {k} : queue'[j] = queue[j]
      /\ queue'[k].sess = queue[k].sess /\ queue'[k].type = queue[k].type /\ queue'[k].ready = queue[k].ready
      /\ UNCHANGED <<snap, preparing, agent>>
  BY DEF Lapses
<1>2. \A i \in 1 .. Len(queue) : /\ queue'[i].sess = queue[i].sess /\ queue'[i].type = queue[i].type
                                 /\ queue'[i].ready = queue[i].ready
                                 /\ i # k => queue'[i].lease = queue[i].lease
  BY <1>1
<1>3. OneGenerate(queue')
  BY <1>1, <1>2 DEF GenerateInv, Way, OneGenerate
<1>4. OnePreparation(queue', preparing')
  BY <1>1, <1>2 DEF GenerateInv, Way, OnePreparation
<1>5. ReadyKnown(queue', preparing', agent', snap')
  BY <1>1, <1>2 DEF GenerateInv, Way, ReadyKnown
<1>6. Unknown(Fresh', queue', preparing', agent', snap')
  BY <1>1, <1>2 DEF GenerateInv, Way, Unknown
<1>7. QED
  BY <1>3, <1>4, <1>5, <1>6 DEF GenerateInv, Way

(* A request of the page joins the way of its session's generate.          *)
LEMMA WayJoined ==
  ASSUME NEW F, NEW q \in Seq(Entries), NEW r \in Seq(Entries), NEW prep, NEW ag, NEW sn, NEW m,
         Way(F, q, prep, ag, sn), m.sess \notin F,
         m.type = "generate" => ~sn[m.sess].ready /\ \A p \in prep : p.sess # m.sess,
         ~Queued(q, m.sess, {m.type}), Len(r) = Len(q) + 1, \A i \in 1 .. Len(q) : r[i] = q[i],
         r[Len(r)].sess = m.sess, r[Len(r)].type = m.type, ~r[Len(r)].ready, sn[m.sess].ready \in BOOLEAN
  PROVE  Way(F, r, prep, ag, sn)
<1>1. Len(q) \in Nat /\ Len(r) \in Nat
  BY LenProperties
<1>2. \A i \in 1 .. Len(r) : i \in 1 .. Len(q) \/ i = Len(r)
  BY <1>1
<1>3. \A i \in 1 .. Len(q) : r[i] = q[i] /\ ~(q[i].sess = m.sess /\ q[i].type = m.type)
  BY DEF Queued
<1>4. r[Len(r)].ready = FALSE
  <2>1. Len(r) \in 1 .. Len(r)
    BY <1>1
  <2>2. r[Len(r)].ready \in BOOLEAN
    BY <2>1, EntryFacts
  <2>3. QED
    BY <2>2
<1>5. OneGenerate(r)
  <2> SUFFICES ASSUME NEW i \in 1 .. Len(r), NEW j \in 1 .. Len(r), r[i].type = "generate",
                      r[j].type = "generate", r[i].sess = r[j].sess
               PROVE  i = j
    BY DEF OneGenerate
  <2>1. CASE i \in 1 .. Len(q) /\ j \in 1 .. Len(q)
    BY <1>3, <2>1 DEF Way, OneGenerate
  <2>2. CASE i = Len(r) /\ j \in 1 .. Len(q)
    BY <1>3, <2>2
  <2>3. CASE i \in 1 .. Len(q) /\ j = Len(r)
    BY <1>3, <2>3
  <2>4. QED
    BY <1>2, <2>1, <2>2, <2>3
<1>6. OnePreparation(r, prep)
  BY <1>2, <1>3 DEF Way, OnePreparation
<1>7. \A i \in 1 .. Len(r) : r[i].type = "generate" => r[i].ready = sn[r[i].sess].ready
  <2>1. m.type = "generate" => sn[m.sess].ready = FALSE
    OBVIOUS
  <2>2. \A i \in 1 .. Len(q) : r[i].type = "generate" => r[i].ready = sn[r[i].sess].ready
    BY <1>3 DEF Way, ReadyKnown
  <2>3. r[Len(r)].type = "generate" => r[Len(r)].ready = sn[r[Len(r)].sess].ready
    BY <1>4, <2>1
  <2>4. QED
    BY <1>2, <2>2, <2>3
<1>8. ReadyKnown(r, prep, ag, sn)
  BY <1>7 DEF Way, ReadyKnown
<1>9. Unknown(F, r, prep, ag, sn)
  BY <1>2, <1>3 DEF Way, Unknown
<1>10. QED
  BY <1>5, <1>6, <1>8, <1>9 DEF Way

(* What a request makes of the queue q before r is handed out.             *)
Joins(m, q, r) ==
  /\ Rearranged(queue, q)
  /\ \/ r = q
     \/ /\ Len(r) = Len(q) + 1 /\ \A i \in 1 .. Len(q) : r[i] = q[i]
        /\ r[Len(r)].sess = m.sess /\ r[Len(r)].type = m.type /\ r[Len(r)].variant = m.visible
  /\ Dispatches(r, preparing, agent, queue', preparing', agent')

LEMMA ArrivalJoins ==
  ASSUME ServerInv, PageInv, CreatedOnce, GenerateInv, Fresh' \subseteq Fresh,
         NEW m \in posts, Arrives(m)
  PROVE  \E q, r \in Seq(Entries) : Joins(m, q, r) /\ Way(Fresh', r, preparing, agent, snap')
<1>1. m \in Requests /\ m.sess \in Sessions
  BY DEF PageInv, Requests
<1>2. /\ m.type = "generate" \/ snap[m.sess].exists
      /\ snap' = [snap EXCEPT ![m.sess] = Journaled(snap[m.sess], m)]
  BY DEF Arrives, Takes
<1>3. PICK q \in Seq(Entries), r \in Seq(Entries) :
        /\ Rearranged(queue, q)
        /\ \/ r = q
           \/ /\ ~Queued(q, m.sess, {m.type}) /\ Len(r) = Len(q) + 1
              /\ \A i \in 1 .. Len(q) : r[i] = q[i]
              /\ r[Len(r)].sess = m.sess /\ r[Len(r)].type = m.type /\ r[Len(r)].variant = m.visible
              /\ r[Len(r)].lease = "none" /\ ~r[Len(r)].ready
        /\ Dispatches(r, preparing, agent, queue', preparing', agent')
  BY DEF Arrives, Takes
<1>4. /\ queue \in Seq(Entries) /\ preparing \in SUBSET Prepared /\ snap \in [Sessions -> Snapshots]
      /\ \A w \in Workers : Shaped(agent[w])
  BY DEF ServerInv, ServerTypeOK, Prepared
<1>5. Fresh \in SUBSET Sessions /\ Fresh' \in SUBSET Fresh /\ Fresh' \in SUBSET Sessions
  BY DEF Fresh
<1>6. m.sess \notin Fresh'
  BY <1>1, <1>2, CreationArrives DEF GenerateInv, Way, Unknown
<1>7. m.type = "generate" => ~snap[m.sess].ready /\ \A p \in preparing : p.sess # m.sess
  BY <1>1, CreationArrives DEF GenerateInv, Way, Unknown
<1>8. \A s \in Sessions \ {m.sess} : snap'[s] = snap[s]
  BY <1>2, <1>4
<1>9. PICK n \in Snapshots : n = snap[m.sess]
  BY <1>1, <1>4
<1>10. snap'[m.sess] = Journaled(n, m)
  BY <1>1, <1>2, <1>4, <1>9
<1>11. Journaled(n, m).ready = n.ready /\ (m.type = "generate" => ~Journaled(n, m).ready)
  <2>1. n.ready \in BOOLEAN /\ Journaled(n, m).ready \in BOOLEAN
    BY <1>1, JournaledFacts DEF Snapshots
  <2>2. m.type # "generate" => Journaled(n, m).ready = n.ready
    BY <1>1, JournaledFacts
  <2>3. m.type = "generate" => ~Journaled(n, m).ready /\ ~n.ready
    BY <1>1, <1>7, <1>9, JournaledFacts
  <2>4. QED
    BY <2>1, <2>2, <2>3
<1>12. \A s \in Sessions : snap'[s].ready = snap[s].ready
  BY <1>8, <1>9, <1>10, <1>11
<1>13. Way(Fresh, q, preparing, agent, snap)
  BY <1>3, <1>4, WayRearranged DEF GenerateInv
<1>14. Way(Fresh', q, preparing, agent, snap')
  <2>1. \A s \in Fresh' : snap'[s].exists = snap[s].exists /\ snap'[s].pending \in {snap[s].pending, "none"}
    BY <1>5, <1>6, <1>8
  <2>2. QED
    BY <1>4, <1>5, <1>12, <1>13, <2>1, WayJournals
<1>15. Way(Fresh', r, preparing, agent, snap')
  <2>1. CASE r = q
    BY <1>14, <2>1
  <2>2. CASE r # q
    <3>1. snap'[m.sess].ready \in BOOLEAN
      BY <1>1, <1>10, JournaledFacts DEF Snapshots
    <3>2. m.type = "generate" => ~snap'[m.sess].ready
      BY <1>10, <1>11
    <3>3. QED
      BY <1>3, <1>6, <1>7, <1>14, <2>2, <3>1, <3>2, WayJoined
  <2>3. QED
    BY <2>1, <2>2
<1>16. Joins(m, q, r)
  BY <1>3 DEF Joins
<1>17. QED
  BY <1>15, <1>16

LEMMA GenerateArrives ==
  ASSUME ServerInv, ServerInv', PageInv, CreatedOnce, GenerateInv, Fresh' \subseteq Fresh,
         NEW m \in posts, Arrives(m)
  PROVE  GenerateInv'
<1>1. PICK q \in Seq(Entries), r \in Seq(Entries) : Joins(m, q, r) /\ Way(Fresh', r, preparing, agent, snap')
  BY ArrivalJoins
<1>2. preparing \in SUBSET Prepared /\ preparing' \in SUBSET Prepared /\ Fresh' \in SUBSET Sessions
  BY DEF ServerInv, ServerTypeOK, Prepared, Fresh
<1>3. Way(Fresh', queue', preparing', agent', snap')
  BY <1>1, <1>2, WayDispatched DEF Joins
<1>4. QED
  BY <1>3 DEF GenerateInv

LEMMA GenerateStep ==
  ASSUME ServerInv, ServerInv', PageInv, CreatedOnce, GenerateInv, Kinds
  PROVE  GenerateInv'
<1>1. Fresh' \subseteq Fresh
  BY FreshStep
<1>2. CASE UNCHANGED <<snap, queue, preparing, agent>>
  <2>1. Settles(agent, agent')
    BY <1>2 DEF Settles
  <2>2. QED
    BY <1>1, <1>2, <2>1, GenerateSettles
<1>3. ASSUME NEW w \in Workers, NEW next, Applies(w, next) PROVE GenerateInv'
  <2>1. /\ agent' = [agent EXCEPT ![w] = next] /\ next.st # "work" /\ next.sess = agent[w].sess
        /\ UNCHANGED <<snap, queue, preparing>>
    BY <1>3 DEF Applies
  <2>2. Settles(agent, agent')
    BY <2>1 DEF Settles, ServerInv, ServerTypeOK
  <2>3. QED
    BY <1>1, <2>1, <2>2, GenerateSettles
<1>4. ASSUME NEW w \in Workers, NEW next, NEW r, Registers(w, next, r) PROVE GenerateInv'
  <2>1. /\ agent' = [agent EXCEPT ![w] = next] /\ next.st # "work" /\ next.sess = agent[w].sess
        /\ UNCHANGED <<snap, queue, preparing>>
    BY <1>4 DEF Registers, Completions
  <2>2. Settles(agent, agent')
    BY <2>1 DEF Settles, ServerInv, ServerTypeOK
  <2>3. QED
    BY <1>1, <2>1, <2>2, GenerateSettles
<1>5. CASE Crashes
  <2>1. Settles(agent, agent') /\ queue' = <<>> /\ preparing' = {} /\ snap' = snap
    BY <1>5, EasedSettles DEF Crashes
  <2>2. QED
    BY <1>1, <2>1, GenerateSettles
<1>6. ASSUME ServerKinds PROVE GenerateInv'
  <2>1. ASSUME NEW w \in Workers, Publishes(w) PROVE GenerateInv'
    BY <1>2, <2>1 DEF Publishes
  <2>2. QED
    BY <1>1, <1>3, <1>4, <1>6, <2>1, GenerateRoutine, GenerateRestores, GenerateLeaves, GenerateScaffolded,
       GenerateLapses DEF ServerKinds
<1>7. ASSUME NEW m \in posts, Arrives(m) PROVE GenerateInv'
  BY <1>1, <1>7, GenerateArrives
<1>8. QED
  BY <1>2, <1>5, <1>6, <1>7 DEF Kinds, Quiet, Chooses, Goes, Emits

-----------------------------------------------------------------------------
(* The decisions in the source                                             *)

(* Of all the agents that hold the decision of a session only one has ever *)
(* written, before the receipt, and nothing wraps the source again, up to  *)
(* a publication after the decision.                                       *)
DecidedInv ==
  /\ \A s \in Sessions : ~Undecided(s) => source[s].st # "wrapped" \/ source[s].late
  /\ \A v, w \in Workers :
       /\ agent[v].st = "written" /\ agent[w].st = "written" /\ agent[v].sess = agent[w].sess
       /\ ~source[agent[v].sess].late
       => v = w
  /\ \A w \in Workers : agent[w].st = "written" /\ ~source[agent[w].sess].late => receipt[agent[w].sess] = NoReceipt

(* What AppliedOnce says of a step.                                        *)
KeepsReceipts ==
  \A s \in Sessions : receipt[s] # NoReceipt /\ ~source'[s].late => UNCHANGED <<receipt[s], source[s]>>

LEMMA DispatchWrites ==
  ASSUME NEW q \in Seq(Entries), NEW prep, NEW ag, NEW q2, NEW prep2, NEW ag2,
         Dispatches(q, prep, ag, q2, prep2, ag2)
  PROVE  \A w \in Workers : ag2[w].st = "written" => ag2[w] = ag[w]
<1>1. PICK T \in SUBSET Available(q) : \A w \in Workers : ag2[w] = ag[w] \/ \E i \in T : ag2[w] = leaseEvent(q[i])
  BY DEF Dispatches
<1>2. \A i \in T : leaseEvent(q[i]).st # "written"
  <2> TAKE i \in T
  <2>1. PICK e \in Entries : e = q[i]
    BY EntryFacts DEF Available
  <2>2. QED
    BY <2>1, LeaseEventTyped
<1>3. QED
  BY <1>1, <1>2

LEMMA EasedWrites ==
  ASSUME NEW a, NEW b, Eased(a, b) PROVE b.st = "written" => b = a
BY DEF Eased, Busy, Completions

(* The steps that touch neither the source nor a receipt.                  *)
LEMMA DecidedSame ==
  ASSUME DecidedInv, UNCHANGED <<source, receipt>>,
         \A w \in Workers : agent'[w].st = "written" => agent'[w] = agent[w]
  PROVE  DecidedInv' /\ KeepsReceipts
<1>1. \A s \in Sessions : ~Undecided(s)' => ~Undecided(s)
  BY DEF Undecided
<1>2. \A t \in Sessions : ~Undecided(t)' => source'[t].st # "wrapped" \/ source'[t].late
  BY <1>1 DEF DecidedInv
<1>3. \A u, v \in Workers :
         /\ agent'[u].st = "written" /\ agent'[v].st = "written" /\ agent'[u].sess = agent'[v].sess
         /\ ~source'[agent'[u].sess].late
         => u = v
  BY DEF DecidedInv
<1>4. \A v \in Workers :
         agent'[v].st = "written" /\ ~source'[agent'[v].sess].late => receipt'[agent'[v].sess] = NoReceipt
  BY DEF DecidedInv
<1>5. DecidedInv'
  BY <1>2, <1>3, <1>4 DEF DecidedInv
<1>6. QED
  BY <1>5 DEF KeepsReceipts

LEMMA DecidedPublishes ==
  ASSUME ServerInv, DecidedInv, NEW w \in Workers, Publishes(w)
  PROVE  DecidedInv' /\ KeepsReceipts
<1>1. PICK s \in Sessions : s = agent[w].sess
  BY DEF Publishes
<1>2. PICK src : /\ source' = [source EXCEPT ![s] = src]
                 /\ src.late \/ (Undecided(s) /\ ~source[s].late)
  BY <1>1 DEF Publishes
<1>3. UNCHANGED <<agent, receipt>>
  BY DEF Publishes
<1>4. \A t \in Sessions : source'[t] = IF t = s THEN src ELSE source[t]
  BY <1>2 DEF ServerInv, ServerTypeOK
<1>5. \A t \in Sessions : Undecided(t)' = Undecided(t)
  BY <1>3 DEF Undecided
<1>6. \A v \in Workers : agent[v].st = "written" => agent[v].sess \in Sessions
  BY DEF ServerInv, Shaped, Busy
<1>7. \A t \in Sessions : ~Undecided(t)' => source'[t].st # "wrapped" \/ source'[t].late
  BY <1>2, <1>4, <1>5 DEF DecidedInv
<1>8. \A t \in Sessions : ~source'[t].late => ~source[t].late
  BY <1>2, <1>4
<1>9. \A u, v \in Workers :
         /\ agent'[u].st = "written" /\ agent'[v].st = "written" /\ agent'[u].sess = agent'[v].sess
         /\ ~source'[agent'[u].sess].late
         => u = v
  BY <1>3, <1>6, <1>8 DEF DecidedInv
<1>10. \A v \in Workers :
         agent'[v].st = "written" /\ ~source'[agent'[v].sess].late => receipt'[agent'[v].sess] = NoReceipt
  BY <1>3, <1>6, <1>8 DEF DecidedInv
<1>11. DecidedInv'
  BY <1>7, <1>9, <1>10 DEF DecidedInv
<1>12. receipt[s] = NoReceipt \/ source'[s].late
  BY <1>2, <1>4 DEF Undecided
<1>13. QED
  BY <1>3, <1>4, <1>11, <1>12 DEF KeepsReceipts

LEMMA DecidedApplies ==
  ASSUME ServerInv, DecidedInv, NEW w \in Workers, NEW next, Applies(w, next)
  PROVE  DecidedInv' /\ KeepsReceipts
<1>1. PICK s \in Sessions : s = agent[w].sess
  BY DEF Applies
<1>2. /\ receipt[s] = NoReceipt /\ source[s].st = "wrapped" /\ UNCHANGED receipt
      /\ next.st = "written" /\ next.sess = s /\ agent' = [agent EXCEPT ![w] = next]
      /\ source' = [source EXCEPT ![s] = AcceptWrites(agent[w])]
  BY <1>1 DEF Applies
<1>3. PICK src : src = AcceptWrites(agent[w])
  OBVIOUS
<1>4. src.st # "wrapped" /\ src.late = source[s].late
  BY <1>1, <1>3 DEF AcceptWrites, ServerInv, ServerTypeOK, Sources
<1>5. \A t \in Sessions : source'[t] = IF t = s THEN src ELSE source[t]
  BY <1>2, <1>3 DEF ServerInv, ServerTypeOK
<1>6. \A v \in Workers : agent'[v] = IF v = w THEN next ELSE agent[v]
  BY <1>2 DEF ServerInv, ServerTypeOK
<1>7. ASSUME ~source[s].late PROVE \A v \in Workers : ~(agent[v].st = "written" /\ agent[v].sess = s)
  BY <1>2, <1>7 DEF DecidedInv, Undecided
<1>8. \A t \in Sessions \ {s} : ~Undecided(t)' => ~Undecided(t)
  BY <1>2, <1>6 DEF Undecided
<1>9. \A t \in Sessions : ~Undecided(t)' => source'[t].st # "wrapped" \/ source'[t].late
  BY <1>4, <1>5, <1>8 DEF DecidedInv
<1>10. \A t \in Sessions : source'[t].late = source[t].late
  BY <1>4, <1>5
<1>11. \A v \in Workers : agent[v].st = "written" => agent[v].sess \in Sessions
  BY DEF ServerInv, Shaped, Busy
<1>12. \A u, v \in Workers :
         /\ agent'[u].st = "written" /\ agent'[v].st = "written" /\ agent'[u].sess = agent'[v].sess
         /\ ~source'[agent'[u].sess].late
         => u = v
  BY <1>2, <1>6, <1>7, <1>10, <1>11 DEF DecidedInv
<1>13. \A v \in Workers :
         agent'[v].st = "written" /\ ~source'[agent'[v].sess].late => receipt'[agent'[v].sess] = NoReceipt
  BY <1>2, <1>6, <1>10, <1>11 DEF DecidedInv
<1>14. DecidedInv'
  BY <1>9, <1>12, <1>13 DEF DecidedInv
<1>15. QED
  BY <1>2, <1>5, <1>14 DEF KeepsReceipts

LEMMA DecidedRegisters ==
  ASSUME ServerInv, DecidedInv, NEW w \in Workers, NEW next, NEW r, Registers(w, next, r)
  PROVE  DecidedInv' /\ KeepsReceipts
<1>1. PICK s \in Sessions : s = agent[w].sess
  BY DEF Registers
<1>2. /\ agent[w].st = "written" /\ next.st # "written" /\ UNCHANGED source
      /\ agent' = [agent EXCEPT ![w] = next] /\ receipt' = [receipt EXCEPT ![s] = r]
  BY <1>1 DEF Registers, Completions
<1>3. \A t \in Sessions : receipt'[t] = IF t = s THEN r ELSE receipt[t]
  BY <1>2 DEF ServerInv, ServerTypeOK
<1>4. \A v \in Workers : agent'[v] = IF v = w THEN next ELSE agent[v]
  BY <1>2 DEF ServerInv, ServerTypeOK
<1>5. \A v \in Workers : agent'[v].st = "written" => agent'[v] = agent[v] /\ agent[v].sess \in Sessions
  BY <1>2, <1>4 DEF ServerInv, Shaped, Busy
<1>6. \A v \in Workers : agent'[v].st = "written" => agent[v].sess # s \/ source[s].late
  BY <1>1, <1>2, <1>4 DEF DecidedInv
<1>7. ~Undecided(s) /\ (~source[s].late => receipt[s] = NoReceipt)
  BY <1>1, <1>2 DEF DecidedInv, Undecided
<1>8. \A t \in Sessions : ~Undecided(t)' => ~Undecided(t)
  BY <1>3, <1>5, <1>7 DEF Undecided
<1>9. \A t \in Sessions : ~Undecided(t)' => source'[t].st # "wrapped" \/ source'[t].late
  BY <1>2, <1>8 DEF DecidedInv
<1>10. \A u, v \in Workers :
         /\ agent'[u].st = "written" /\ agent'[v].st = "written" /\ agent'[u].sess = agent'[v].sess
         /\ ~source'[agent'[u].sess].late
         => u = v
  BY <1>2, <1>5 DEF DecidedInv
<1>11. \A v \in Workers :
         agent'[v].st = "written" /\ ~source'[agent'[v].sess].late => receipt'[agent'[v].sess] = NoReceipt
  <2> SUFFICES ASSUME NEW v \in Workers, agent'[v].st = "written", ~source'[agent'[v].sess].late
               PROVE  receipt'[agent'[v].sess] = NoReceipt
    OBVIOUS
  <2>1. agent'[v] = agent[v] /\ agent[v].sess # s /\ agent[v].sess \in Sessions
    BY <1>2, <1>5, <1>6
  <2>2. QED
    BY <1>2, <1>3, <2>1 DEF DecidedInv
<1>12. DecidedInv'
  BY <1>9, <1>10, <1>11 DEF DecidedInv
<1>13. QED
  BY <1>2, <1>3, <1>7, <1>12 DEF KeepsReceipts

LEMMA DecidedStep ==
  ASSUME ServerInv, DecidedInv, Kinds
  PROVE  DecidedInv' /\ KeepsReceipts
<1>1. ASSUME UNCHANGED <<source, receipt>>, \A w \in Workers : agent'[w].st = "written" => agent'[w] = agent[w]
      PROVE  DecidedInv' /\ KeepsReceipts
  BY <1>1, DecidedSame
<1>2. CASE Routine
  <2>1. PICK q \in Seq(Entries), ag \in [Workers -> Agents] :
          /\ Rearranged(queue, q) /\ \A w \in Workers : Eased(agent[w], ag[w])
          /\ Dispatches(q, preparing, ag, queue', preparing', agent')
    BY <1>2 DEF Routine
  <2>2. \A w \in Workers : agent'[w].st = "written" => agent'[w] = ag[w]
    BY <2>1, DispatchWrites
  <2>3. \A w \in Workers : ag[w].st = "written" => ag[w] = agent[w]
    BY <2>1, EasedWrites
  <2>4. QED
    BY <1>1, <1>2, <2>2, <2>3 DEF Routine
<1>3. ASSUME NEW w \in Workers, Leaves(w) PROVE DecidedInv' /\ KeepsReceipts
  <2>1. \A v \in Workers : agent'[v].st = "written" => agent'[v] = agent[v]
    BY <1>3, IdleTyped DEF Leaves, ServerInv, ServerTypeOK
  <2>2. QED
    BY <1>1, <1>3, <2>1 DEF Leaves
<1>4. ASSUME NEW m \in posts, Arrives(m) PROVE DecidedInv' /\ KeepsReceipts
  <2>1. PICK r \in Seq(Entries) : Dispatches(r, preparing, agent, queue', preparing', agent')
    BY <1>4 DEF Arrives, Takes
  <2>2. \A w \in Workers : agent'[w].st = "written" => agent'[w] = agent[w]
    BY <2>1, DispatchWrites
  <2>3. QED
    BY <1>1, <1>4, <2>2 DEF Arrives, Takes
<1>5. CASE Crashes
  <2>1. \A w \in Workers : agent'[w].st = "written" => agent'[w] = agent[w]
    BY <1>5, EasedWrites DEF Crashes
  <2>2. QED
    BY <1>1, <1>5, <2>1 DEF Crashes
<1>6. ASSUME ServerKinds PROVE DecidedInv' /\ KeepsReceipts
  <2>1. ASSUME NEW p \in preparing, Scaffolded(p) PROVE DecidedInv' /\ KeepsReceipts
    <3>1. PICK next : /\ next.st = "work" /\ \A w \in Workers : agent'[w] = IF w = p.to THEN next ELSE agent[w]
      BY <2>1 DEF Scaffolded
    <3>2. QED
      BY <1>1, <2>1, <3>1 DEF Scaffolded
  <2>2. CASE Restores
    BY <1>1, <2>2 DEF Restores
  <2>3. ASSUME NEW i \in 1 .. Len(queue), Lapses(i) PROVE DecidedInv' /\ KeepsReceipts
    BY <1>1, <2>3 DEF Lapses
  <2>4. QED
    BY <1>2, <1>3, <1>6, <2>1, <2>2, <2>3, DecidedPublishes, DecidedApplies, DecidedRegisters DEF ServerKinds
<1>7. CASE UNCHANGED <<agent, source, receipt>>
  BY <1>1, <1>7
<1>8. QED
  BY <1>4, <1>5, <1>6, <1>7 DEF Kinds, Quiet, Chooses, Goes, Emits

-----------------------------------------------------------------------------
(* The accepted variant                                                    *)

(* No accept has left a trace at the server.                               *)
NoAccept(q, ag, sn, src) ==
  /\ \A i \in 1 .. Len(q) : q[i].type # "accept"
  /\ \A w \in Workers : ag[w].type # "accept"
  /\ \A s \in Sessions : sn[s].pending # "accept" /\ src[s].st # "accepted"

(* The journal of s is closed for the choice v.                            *)
Chosen(sn, s, v) == sn[s].canceled /\ v = sn[s].visible

(* Every trace of an accept names the variant that the journal names.      *)
OneChoice(q, ag, sn, src) ==
  /\ \A i \in 1 .. Len(q) : q[i].type = "accept" => Chosen(sn, q[i].sess, q[i].variant)
  /\ \A w \in Workers : ag[w].type = "accept" => Chosen(sn, ag[w].sess, ag[w].variant)
  /\ \A s \in Sessions : sn[s].pending = "accept" => sn[s].canceled
  /\ \A s \in Sessions : src[s].st = "accepted" => Chosen(sn, s, src[s].kept)

NoAcceptSent(P) == \A p \in P : p.type # "accept"

(* One click sends one accept, and nothing of it is at the server before.  *)
ChoiceInv ==
  /\ clicks <= 1 => /\ OneChoice(queue, agent, snap, source)
                    /\ \A p, r \in posts : p.type = "accept" /\ r.type = "accept" => p = r
                    /\ NoAcceptSent(posts) \/ NoAccept(queue, agent, snap, source)
  /\ clicks = 0 => NoAcceptSent(posts) /\ NoAccept(queue, agent, snap, source)

(* What the server does without an accept from the page leaves both facts  *)
(* as they are.                                                            *)
ChoiceKept ==
  /\ OneChoice(queue, agent, snap, source) => OneChoice(queue, agent, snap, source)'
  /\ NoAccept(queue, agent, snap, source) => NoAccept(queue, agent, snap, source)'

(* Accepts of q2 and ag2 come from q and ag.                               *)
Follows(q, ag, q2, ag2) ==
  /\ \A i \in 1 .. Len(q2) : q2[i].type = "accept" =>
       \E k \in 1 .. Len(q) : q[k].type = "accept" /\ q[k].sess = q2[i].sess /\ q[k].variant = q2[i].variant
  /\ \A w \in Workers : ag2[w].type = "accept" =>
       \/ \E v \in Workers : ag[v].type = "accept" /\ ag[v].sess = ag2[w].sess /\ ag[v].variant = ag2[w].variant
       \/ \E k \in 1 .. Len(q) : q[k].type = "accept" /\ q[k].sess = ag2[w].sess /\ q[k].variant = ag2[w].variant

LEMMA RearrangedFollows ==
  ASSUME NEW q, NEW r, NEW ag, NEW ag2, Rearranged(q, r), \A w \in Workers : Eased(ag[w], ag2[w])
  PROVE  Follows(q, ag, r, ag2)
<1>1. PICK f \in [1 .. Len(r) -> 1 .. Len(q)] :
        \A i \in 1 .. Len(r) : r[i].sess = q[f[i]].sess /\ r[i].type = q[f[i]].type /\ r[i].variant = q[f[i]].variant
  BY DEF Rearranged
<1>2. \A i \in 1 .. Len(r) : f[i] \in 1 .. Len(q)
  BY <1>1
<1>3. QED
  BY <1>1, <1>2 DEF Follows, Eased

LEMMA DispatchFollows ==
  ASSUME NEW q \in Seq(Entries), NEW prep, NEW ag, NEW q2, NEW prep2, NEW ag2,
         Dispatches(q, prep, ag, q2, prep2, ag2)
  PROVE  Follows(q, ag, q2, ag2)
<1>1. PICK T \in SUBSET Available(q) :
        /\ Len(q2) = Len(q)
        /\ \A i \in 1 .. Len(q) : q2[i].sess = q[i].sess /\ q2[i].type = q[i].type /\ q2[i].variant = q[i].variant
        /\ \A w \in Workers : ag2[w] = ag[w] \/ \E i \in T : ag2[w] = leaseEvent(q[i])
  BY DEF Dispatches
<1>2. ASSUME NEW i \in T PROVE leaseEvent(q[i]).type = "accept" =>
        /\ i \in 1 .. Len(q) /\ q[i].type = "accept"
        /\ leaseEvent(q[i]).sess = q[i].sess /\ leaseEvent(q[i]).variant = q[i].variant
  <2>1. i \in 1 .. Len(q)
    BY DEF Available
  <2>2. PICK e \in Entries : e = q[i]
    BY <2>1, EntryFacts
  <2>3. QED
    BY <2>1, <2>2, LeaseEventTyped
<1>3. \A i \in 1 .. Len(q2) : q2[i].type = "accept" =>
        \E k \in 1 .. Len(q) : q[k].type = "accept" /\ q[k].sess = q2[i].sess /\ q[k].variant = q2[i].variant
  BY <1>1
<1>4. \A w \in Workers : ag2[w].type = "accept" =>
        \/ \E v \in Workers : ag[v].type = "accept" /\ ag[v].sess = ag2[w].sess /\ ag[v].variant = ag2[w].variant
        \/ \E k \in 1 .. Len(q) : q[k].type = "accept" /\ q[k].sess = ag2[w].sess /\ q[k].variant = ag2[w].variant
  <2> SUFFICES ASSUME NEW w \in Workers, ag2[w].type = "accept", ag2[w] # ag[w]
               PROVE  \E k \in 1 .. Len(q) : /\ q[k].type = "accept" /\ q[k].sess = ag2[w].sess
                                             /\ q[k].variant = ag2[w].variant
    OBVIOUS
  <2>1. PICK i \in T : ag2[w] = leaseEvent(q[i])
    BY <1>1
  <2>2. QED
    BY <1>2, <2>1
<1>5. QED
  BY <1>3, <1>4 DEF Follows

LEMMA FollowsTransitive ==
  ASSUME NEW q, NEW ag, NEW q2, NEW ag2, NEW q3, NEW ag3, Follows(q, ag, q2, ag2), Follows(q2, ag2, q3, ag3)
  PROVE  Follows(q, ag, q3, ag3)
<1>1. \A i \in 1 .. Len(q3) : q3[i].type = "accept" =>
        \E k \in 1 .. Len(q) : q[k].type = "accept" /\ q[k].sess = q3[i].sess /\ q[k].variant = q3[i].variant
  <2> SUFFICES ASSUME NEW i \in 1 .. Len(q3), q3[i].type = "accept"
               PROVE  \E k \in 1 .. Len(q) : q[k].type = "accept" /\ q[k].sess = q3[i].sess /\ q[k].variant = q3[i].variant
    OBVIOUS
  <2>1. PICK j \in 1 .. Len(q2) : q2[j].type = "accept" /\ q2[j].sess = q3[i].sess /\ q2[j].variant = q3[i].variant
    BY DEF Follows
  <2>2. QED
    BY <2>1 DEF Follows
<1>2. ASSUME NEW w \in Workers, ag3[w].type = "accept"
      PROVE  \/ \E v \in Workers : ag[v].type = "accept" /\ ag[v].sess = ag3[w].sess /\ ag[v].variant = ag3[w].variant
             \/ \E k \in 1 .. Len(q) : q[k].type = "accept" /\ q[k].sess = ag3[w].sess /\ q[k].variant = ag3[w].variant
  <2>1. CASE \E v \in Workers : ag2[v].type = "accept" /\ ag2[v].sess = ag3[w].sess /\ ag2[v].variant = ag3[w].variant
    BY <2>1 DEF Follows
  <2>2. CASE \E k \in 1 .. Len(q2) : q2[k].type = "accept" /\ q2[k].sess = ag3[w].sess /\ q2[k].variant = ag3[w].variant
    BY <2>2 DEF Follows
  <2>3. QED
    BY <1>2, <2>1, <2>2 DEF Follows
<1>3. QED
  BY <1>1, <1>2 DEF Follows

(* The journals keep a choice, owe no new accept, and the source changes   *)
(* into nothing accepted.                                                  *)
LEMMA ChoiceFollows ==
  ASSUME ServerInv, Follows(queue, agent, queue', agent'),
         \A s \in Sessions : /\ snap[s].canceled => snap'[s].canceled /\ snap'[s].visible = snap[s].visible
                             /\ snap'[s].pending = "accept" => snap[s].pending = "accept"
                             /\ source'[s] = source[s] \/ source'[s].st # "accepted"
  PROVE  ChoiceKept
<1>1. \A i \in 1 .. Len(queue) : queue[i].sess \in Sessions
  <2>1. queue \in Seq(Entries)
    BY DEF ServerInv, ServerTypeOK
  <2>2. QED
    BY <2>1, EntryFacts
<1>2. \A w \in Workers : agent[w].type = "accept" => agent[w].sess \in Sessions
  BY DEF ServerInv, Shaped, Busy
<1>3. ASSUME NoAccept(queue, agent, snap, source) PROVE NoAccept(queue', agent', snap', source')
  BY <1>3 DEF NoAccept, Follows
<1>4. ASSUME OneChoice(queue, agent, snap, source) PROVE OneChoice(queue', agent', snap', source')
  <2>1. \A s \in Sessions : \A v : Chosen(snap, s, v) => Chosen(snap', s, v)
    BY DEF Chosen
  <2>2. \A k \in 1 .. Len(queue) : queue[k].type = "accept" => Chosen(snap', queue[k].sess, queue[k].variant)
    BY <1>1, <1>4, <2>1 DEF OneChoice
  <2>3. \A w \in Workers : agent[w].type = "accept" => Chosen(snap', agent[w].sess, agent[w].variant)
    BY <1>2, <1>4, <2>1 DEF OneChoice
  <2>4. \A i \in 1 .. Len(queue') : queue'[i].type = "accept" => Chosen(snap', queue'[i].sess, queue'[i].variant)
    BY <2>2 DEF Follows
  <2>5. \A w \in Workers : agent'[w].type = "accept" => Chosen(snap', agent'[w].sess, agent'[w].variant)
    BY <2>2, <2>3 DEF Follows
  <2>6. \A s \in Sessions : snap'[s].pending = "accept" => snap'[s].canceled
    BY <1>4 DEF OneChoice
  <2>7. \A s \in Sessions : source'[s].st = "accepted" => Chosen(snap', s, source'[s].kept)
    BY <1>4, <2>1 DEF OneChoice
  <2>8. QED
    BY <2>4, <2>5, <2>6, <2>7 DEF OneChoice
<1>5. QED
  BY <1>3, <1>4 DEF ChoiceKept

LEMMA FollowsSame ==
  ASSUME NEW q, NEW ag, NEW q2, NEW ag2, Len(q2) = Len(q),
         \A i \in 1 .. Len(q) : q2[i].sess = q[i].sess /\ q2[i].type = q[i].type /\ q2[i].variant = q[i].variant,
         \A w \in Workers : ag2[w].type = "accept" =>
           ag[w].type = "accept" /\ ag2[w].sess = ag[w].sess /\ ag2[w].variant = ag[w].variant
  PROVE  Follows(q, ag, q2, ag2)
BY DEF Follows

LEMMA ChoiceApplies ==
  ASSUME ServerInv, NEW w \in Workers, NEW next, Applies(w, next)
  PROVE  ChoiceKept
<1>1. PICK s \in Sessions : s = agent[w].sess
  BY DEF Applies
<1>2. /\ UNCHANGED <<snap, queue>> /\ next.sess = s /\ next.type = agent[w].type
      /\ next.variant = agent[w].variant /\ agent' = [agent EXCEPT ![w] = next]
      /\ source' = [source EXCEPT ![s] = AcceptWrites(agent[w])]
  BY <1>1 DEF Applies
<1>3. \A t \in Sessions : source'[t] = IF t = s THEN AcceptWrites(agent[w]) ELSE source[t]
  BY <1>2 DEF ServerInv, ServerTypeOK
<1>4. \A v \in Workers : agent'[v] = IF v = w THEN next ELSE agent[v]
  BY <1>2 DEF ServerInv, ServerTypeOK
<1>5. AcceptWrites(agent[w]).st = "accepted" =>
        agent[w].type = "accept" /\ AcceptWrites(agent[w]).kept = agent[w].variant
  BY DEF AcceptWrites
<1>6. ASSUME NoAccept(queue, agent, snap, source) PROVE NoAccept(queue', agent', snap', source')
  BY <1>2, <1>3, <1>4, <1>5, <1>6 DEF NoAccept
<1>7. ASSUME OneChoice(queue, agent, snap, source) PROVE OneChoice(queue', agent', snap', source')
  <2>1. \A v \in Workers : agent'[v].type = "accept" => Chosen(snap, agent'[v].sess, agent'[v].variant)
    BY <1>1, <1>2, <1>4, <1>7 DEF OneChoice
  <2>2. \A t \in Sessions : source'[t].st = "accepted" => Chosen(snap, t, source'[t].kept)
    BY <1>1, <1>3, <1>5, <1>7 DEF OneChoice
  <2>3. QED
    BY <1>2, <1>7, <2>1, <2>2 DEF OneChoice
<1>8. QED
  BY <1>6, <1>7 DEF ChoiceKept

LEMMA ChoiceRestores ==
  ASSUME Restores PROVE ChoiceKept
<1>1. /\ UNCHANGED <<snap, agent, source>>
      /\ \A i \in 1 .. Len(queue') :
           /\ queue'[i].sess \in Sessions /\ snap[queue'[i].sess].pending = queue'[i].type
           /\ queue'[i].type = "accept" => queue'[i].variant = snap[queue'[i].sess].visible
  BY DEF Restores
<1>2. ASSUME NoAccept(queue, agent, snap, source) PROVE NoAccept(queue', agent', snap', source')
  BY <1>1, <1>2 DEF NoAccept
<1>3. ASSUME OneChoice(queue, agent, snap, source) PROVE OneChoice(queue', agent', snap', source')
  BY <1>1, <1>3 DEF OneChoice, Chosen
<1>4. QED
  BY <1>2, <1>3 DEF ChoiceKept

LEMMA ChoiceServer ==
  ASSUME ServerInv, ServerInv', ServerKinds \/ Crashes
  PROVE  ChoiceKept
<1>1. CASE Routine
  <2>1. PICK q \in Seq(Entries), ag \in [Workers -> Agents] :
          /\ Rearranged(queue, q) /\ \A w \in Workers : Eased(agent[w], ag[w])
          /\ Dispatches(q, preparing, ag, queue', preparing', agent')
    BY <1>1 DEF Routine
  <2>2. Follows(queue, agent, queue', agent')
    BY <2>1, RearrangedFollows, DispatchFollows, FollowsTransitive
  <2>3. \A s \in Sessions : /\ snap'[s].canceled = snap[s].canceled /\ snap'[s].visible = snap[s].visible
                            /\ snap'[s].pending \in {snap[s].pending, "none"} /\ source'[s] = source[s]
    BY <1>1 DEF Routine, Continues
  <2>4. QED
    BY <2>2, <2>3, ChoiceFollows
<1>2. ASSUME NEW w \in Workers, Publishes(w) PROVE ChoiceKept
  <2>1. PICK s \in Sessions : s = agent[w].sess
    BY <1>2 DEF Publishes
  <2>2. PICK src : src.st = "wrapped" /\ source' = [source EXCEPT ![s] = src]
    BY <1>2, <2>1 DEF Publishes
  <2>3. UNCHANGED <<snap, queue, agent>>
    BY <1>2 DEF Publishes
  <2>4. \A t \in Sessions : source'[t] = source[t] \/ source'[t].st # "accepted"
    BY <2>2 DEF ServerInv, ServerTypeOK
  <2>5. Follows(queue, agent, queue', agent')
    BY <2>3, FollowsSame
  <2>6. QED
    BY <2>3, <2>4, <2>5, ChoiceFollows
<1>3. ASSUME NEW w \in Workers, Leaves(w) PROVE ChoiceKept
  <2>1. UNCHANGED <<snap, queue, source>> /\ agent' = [agent EXCEPT ![w] = Idle]
    BY <1>3 DEF Leaves
  <2>2. \A v \in Workers : agent'[v] = agent[v] \/ agent'[v].type = "none"
    BY <2>1, IdleTyped DEF ServerInv, ServerTypeOK
  <2>3. Follows(queue, agent, queue', agent')
    BY <2>1, <2>2, FollowsSame
  <2>4. QED
    BY <2>1, <2>3, ChoiceFollows
<1>4. ASSUME NEW w \in Workers, NEW next, NEW r, Registers(w, next, r) PROVE ChoiceKept
  <2>1. /\ UNCHANGED <<snap, queue, source>> /\ agent' = [agent EXCEPT ![w] = next]
        /\ next.sess = agent[w].sess /\ next.type = agent[w].type /\ next.variant = agent[w].variant
    BY <1>4 DEF Registers
  <2>2. \A v \in Workers : /\ agent'[v].type = agent[v].type /\ agent'[v].sess = agent[v].sess
                           /\ agent'[v].variant = agent[v].variant
    BY <2>1 DEF ServerInv, ServerTypeOK
  <2>3. Follows(queue, agent, queue', agent')
    BY <2>1, <2>2, FollowsSame
  <2>4. QED
    BY <2>1, <2>3, ChoiceFollows
<1>5. ASSUME NEW p \in preparing, Scaffolded(p) PROVE ChoiceKept
  <2>1. PICK next : /\ next.type = "generate"
                    /\ \A w \in Workers : agent'[w] = IF w = p.to THEN next ELSE agent[w]
    BY <1>5 DEF Scaffolded
  <2>2. /\ p.sess \in Sessions /\ Len(queue') = Len(queue)
        /\ \A i \in 1 .. Len(queue) : /\ queue'[i].sess = queue[i].sess /\ queue'[i].type = queue[i].type
                                      /\ queue'[i].variant = queue[i].variant
        /\ \A t \in Sessions \ {p.sess} : snap'[t] = snap[t]
        /\ snap'[p.sess].pending = "generate" /\ snap'[p.sess].canceled = snap[p.sess].canceled
        /\ snap'[p.sess].visible = snap[p.sess].visible
        /\ source' = source
    BY <1>5 DEF Scaffolded
  <2>3. Follows(queue, agent, queue', agent')
    BY <2>1, <2>2, FollowsSame
  <2>4. QED
    BY <2>2, <2>3, ChoiceFollows
<1>6. ASSUME NEW k \in 1 .. Len(queue), Lapses(k) PROVE ChoiceKept
  <2>1. /\ UNCHANGED <<snap, agent, source>> /\ Len(queue') = Len(queue)
        /\ \A i \in 1 .. Len(queue) : /\ queue'[i].sess = queue[i].sess /\ queue'[i].type = queue[i].type
                                      /\ queue'[i].variant = queue[i].variant
    BY <1>6 DEF Lapses
  <2>2. Follows(queue, agent, queue', agent')
    BY <2>1, FollowsSame
  <2>3. QED
    BY <2>1, <2>2, ChoiceFollows
<1>7. CASE Crashes
  <2>1. queue' = <<>> /\ UNCHANGED <<snap, source>> /\ \A w \in Workers : Eased(agent[w], agent'[w])
    BY <1>7 DEF Crashes
  <2>2. Follows(queue, agent, queue', agent')
    BY <2>1 DEF Follows, Eased
  <2>3. QED
    BY <2>1, <2>2, ChoiceFollows
<1>8. QED
  BY <1>1, <1>2, <1>3, <1>4, <1>5, <1>6, <1>7, ChoiceApplies, ChoiceRestores DEF ServerKinds

(* What a request adds to the queue before it is handed out.               *)
LEMMA JoinedEntries ==
  ASSUME NEW q \in Seq(Entries), NEW r \in Seq(Entries), NEW m,
         \/ r = q
         \/ /\ Len(r) = Len(q) + 1 /\ \A i \in 1 .. Len(q) : r[i] = q[i]
            /\ r[Len(r)].sess = m.sess /\ r[Len(r)].type = m.type /\ r[Len(r)].variant = m.visible
  PROVE  \A i \in 1 .. Len(r) :
           \/ i \in 1 .. Len(q) /\ r[i] = q[i]
           \/ r[i].sess = m.sess /\ r[i].type = m.type /\ r[i].variant = m.visible
<1>1. Len(q) \in Nat /\ Len(r) \in Nat
  BY LenProperties
<1>2. CASE r = q
  BY <1>2
<1>3. CASE r # q
  <2>1. \A i \in 1 .. Len(r) : i \in 1 .. Len(q) \/ i = Len(r)
    BY <1>1, <1>3
  <2>2. QED
    BY <1>3, <2>1
<1>4. QED
  BY <1>2, <1>3

LEMMA ChoiceArrives ==
  ASSUME ServerInv, ServerInv', PageInv, ChoiceInv, NEW m \in posts, Arrives(m)
  PROVE  ChoiceInv'
<1>1. m \in Requests /\ m.sess \in Sessions /\ snap \in [Sessions -> Snapshots] /\ queue \in Seq(Entries)
  BY DEF PageInv, Requests, ServerInv, ServerTypeOK
<1>2. PICK q \in Seq(Entries), r \in Seq(Entries) :
        /\ Rearranged(queue, q)
        /\ \/ r = q
           \/ /\ Len(r) = Len(q) + 1 /\ \A i \in 1 .. Len(q) : r[i] = q[i]
              /\ r[Len(r)].sess = m.sess /\ r[Len(r)].type = m.type /\ r[Len(r)].variant = m.visible
        /\ Dispatches(r, preparing, agent, queue', preparing', agent')
  BY DEF Arrives, Takes
<1>3. /\ snap' = [snap EXCEPT ![m.sess] = Journaled(snap[m.sess], m)]
      /\ UNCHANGED <<source, clicks>> /\ posts' = posts \ {m}
  BY DEF Arrives, Takes
<1>4. PICK n \in Snapshots : n = snap[m.sess]
  BY <1>1
<1>5. snap'[m.sess] = Journaled(n, m) /\ \A s \in Sessions \ {m.sess} : snap'[s] = snap[s]
  BY <1>1, <1>3, <1>4
<1>6. \A w \in Workers : Eased(agent[w], agent[w])
  BY DEF Eased
<1>7. Follows(queue, agent, q, agent)
  BY <1>2, <1>6, RearrangedFollows
<1>8. Follows(r, agent, queue', agent')
  BY <1>2, DispatchFollows
<1>9. \A i \in 1 .. Len(r) : \/ i \in 1 .. Len(q) /\ r[i] = q[i]
                             \/ r[i].sess = m.sess /\ r[i].type = m.type /\ r[i].variant = m.visible
  BY <1>2, JoinedEntries
<1>10. CASE m.type # "accept"
  <2>1. Follows(q, agent, r, agent)
    BY <1>9, <1>10 DEF Follows
  <2>2. Follows(queue, agent, queue', agent')
    BY <1>7, <1>8, <2>1, FollowsTransitive
  <2>3. \A s \in Sessions : /\ snap[s].canceled => snap'[s].canceled /\ snap'[s].visible = snap[s].visible
                            /\ snap'[s].pending = "accept" => snap[s].pending = "accept"
    BY <1>1, <1>4, <1>5, <1>10, JournaledFacts
  <2>4. ChoiceKept
    BY <1>3, <2>2, <2>3, ChoiceFollows
  <2>5. posts' \subseteq posts /\ clicks' = clicks
    BY <1>3
  <2>6. QED
    BY <2>4, <2>5 DEF ChoiceInv, ChoiceKept, NoAcceptSent
<1>11. CASE m.type = "accept"
  <2>1. clicks # 0
    BY <1>11 DEF ChoiceInv, NoAcceptSent
  <2>2. NoAcceptSent(posts') \/ clicks > 1
    BY <1>3, <1>11 DEF ChoiceInv, NoAcceptSent, PageInv
  <2>3. ASSUME NoAccept(queue, agent, snap, source) PROVE OneChoice(queue', agent', snap', source')
    <3>1. Journaled(n, m).canceled /\ Journaled(n, m).visible = m.visible
      BY <1>1, <1>11, JournaledFacts
    <3>2. Chosen(snap', m.sess, m.visible)
      BY <1>5, <3>1 DEF Chosen
    <3>3. \A i \in 1 .. Len(r) : r[i].type = "accept" => r[i].sess = m.sess /\ r[i].variant = m.visible
      BY <1>7, <1>9, <2>3 DEF Follows, NoAccept
    <3>4. \A i \in 1 .. Len(queue') : queue'[i].type = "accept" => queue'[i].sess = m.sess /\ queue'[i].variant = m.visible
      BY <1>8, <3>3 DEF Follows
    <3>5. \A w \in Workers : agent'[w].type = "accept" => agent'[w].sess = m.sess /\ agent'[w].variant = m.visible
      BY <1>8, <2>3, <3>3 DEF Follows, NoAccept
    <3>6. \A s \in Sessions : snap'[s].pending = "accept" => snap'[s].canceled
      BY <1>5, <2>3, <3>1 DEF NoAccept
    <3>7. \A s \in Sessions : source'[s].st # "accepted"
      BY <1>3, <2>3 DEF NoAccept
    <3>8. QED
      BY <3>2, <3>4, <3>5, <3>6, <3>7 DEF OneChoice
  <2>4. clicks <= 1 => NoAccept(queue, agent, snap, source)
    BY <1>11 DEF ChoiceInv, NoAcceptSent
  <2>5. clicks' = clicks /\ clicks \in Nat
    BY <1>3 DEF PageInv
  <2>6. clicks' <= 1 => OneChoice(queue', agent', snap', source') /\ NoAcceptSent(posts')
    BY <2>2, <2>3, <2>4, <2>5
  <2>7. QED
    BY <2>1, <2>5, <2>6 DEF ChoiceInv, NoAcceptSent
<1>12. QED
  BY <1>10, <1>11

LEMMA ChoiceStep ==
  ASSUME ServerInv, ServerInv', PageInv, PageInv', ChoiceInv, Kinds
  PROVE  ChoiceInv'
<1>1. ASSUME ServerKinds \/ Crashes, UNCHANGED <<posts, clicks>> PROVE ChoiceInv'
  <2>1. ChoiceKept
    BY <1>1, ChoiceServer
  <2>2. QED
    BY <1>1, <2>1 DEF ChoiceInv, ChoiceKept, NoAcceptSent
<1>2. clicks \in Nat
  BY DEF PageInv
<1>3. ASSUME UNCHANGED <<snap, queue, agent, source>>, clicks' >= clicks, clicks' \in Nat,
             NoAcceptSent(posts) => NoAcceptSent(posts'),
             (\A p, r \in posts : p.type = "accept" /\ r.type = "accept" => p = r) =>
               \A p, r \in posts' : p.type = "accept" /\ r.type = "accept" => p = r
      PROVE  ChoiceInv'
  <2>1. /\ OneChoice(queue', agent', snap', source') = OneChoice(queue, agent, snap, source)
        /\ NoAccept(queue', agent', snap', source') = NoAccept(queue, agent, snap, source)
    BY <1>3
  <2>2. (clicks' <= 1 => clicks <= 1) /\ (clicks' = 0 => clicks = 0)
    BY <1>2, <1>3
  <2>3. QED
    BY <1>3, <2>1, <2>2 DEF ChoiceInv
<1>4. CASE Quiet
  <2>1. /\ UNCHANGED <<snap, queue, agent, source>> /\ clicks' >= clicks /\ PostsQuiet(posts, posts')
    BY <1>4 DEF Quiet
  <2>2. clicks' \in Nat
    BY DEF PageInv
  <2>3. NoAcceptSent(posts) => NoAcceptSent(posts')
    BY <2>1 DEF PostsQuiet, NoAcceptSent
  <2>4. (\A p, r \in posts : p.type = "accept" /\ r.type = "accept" => p = r) =>
          \A p, r \in posts' : p.type = "accept" /\ r.type = "accept" => p = r
    BY <2>1 DEF PostsQuiet
  <2>5. QED
    BY <1>3, <2>1, <2>2, <2>3, <2>4
<1>5. CASE Chooses
  <2>1. PICK m \in Requests : m.type = "accept" /\ posts' = posts \cup {m}
    BY <1>5 DEF Chooses
  <2>2. UNCHANGED <<snap, queue, agent, source>> /\ clicks' = clicks + 1
    BY <1>5 DEF Chooses
  <2>3. /\ OneChoice(queue', agent', snap', source') = OneChoice(queue, agent, snap, source)
        /\ NoAccept(queue', agent', snap', source') = NoAccept(queue, agent, snap, source)
    BY <2>2
  <2>4. clicks' # 0 /\ (clicks' <= 1 => clicks = 0 /\ clicks <= 1)
    BY <1>2, <2>2
  <2>5. clicks = 0 => \A p, r \in posts' : p.type = "accept" /\ r.type = "accept" => p = r
    BY <2>1 DEF ChoiceInv, NoAcceptSent
  <2>6. QED
    BY <2>3, <2>4, <2>5 DEF ChoiceInv
<1>6. ASSUME NEW s \in Sessions, Goes(s) PROVE ChoiceInv'
  <2>1. PICK P : /\ PostsQuiet(posts, P)
                 /\ posts' = P \/ \E m \in Requests : m.type = "generate" /\ posts' = P \cup {m}
    BY <1>6 DEF Goes
  <2>2. UNCHANGED <<snap, queue, agent, source, clicks>>
    BY <1>6 DEF Goes
  <2>3. \A p \in posts' : p.type = "accept" => p \in P
    BY <2>1
  <2>4. NoAcceptSent(posts) => NoAcceptSent(posts')
    BY <2>1, <2>3 DEF PostsQuiet, NoAcceptSent
  <2>5. (\A p, r \in posts : p.type = "accept" /\ r.type = "accept" => p = r) =>
          \A p, r \in posts' : p.type = "accept" /\ r.type = "accept" => p = r
    BY <2>1, <2>3 DEF PostsQuiet
  <2>6. QED
    BY <1>2, <1>3, <2>2, <2>4, <2>5
<1>7. ASSUME NEW s \in Sessions, Emits(s) PROVE ChoiceInv'
  <2>1. PICK m \in Requests : m.type = "generate" /\ posts' = posts \cup {m}
    BY <1>7 DEF Emits
  <2>2. UNCHANGED <<snap, queue, agent, source, clicks>>
    BY <1>7 DEF Emits
  <2>3. \A p \in posts' : p.type = "accept" => p \in posts
    BY <2>1
  <2>4. QED
    BY <1>2, <1>3, <2>2, <2>3 DEF NoAcceptSent
<1>8. QED
  BY <1>1, <1>4, <1>5, <1>6, <1>7, ChoiceArrives DEF Kinds, Crashes

-----------------------------------------------------------------------------
(* The copies of a generate                                                *)

Working(ag, s) == {w \in Workers : ag[w].st = "work" /\ ag[w].type = "generate" /\ ag[w].sess = s}

(* A copy of the generate of s may still be handed out.                    *)
OpenIn(q, prep, s) ==
  \/ \E p \in prep : p.sess = s
  \/ \E i \in 1 .. Len(q) : q[i].type = "generate" /\ q[i].sess = s /\ q[i].lease # "live"

(* At most b agents work on the generate of s, counting the one that is    *)
(* still to get it.                                                        *)
Copies(ag, s, open, b) ==
  /\ Cardinality(Working(ag, s)) <= b
  /\ open => Cardinality(Working(ag, s)) + 1 <= b

CopiesInv ==
  \A s \in Sessions :
    /\ up => Copies(agent, s, s \in Fresh \/ OpenIn(queue, preparing, s), 1 + faults)
    /\ ~up => Copies(agent, s, FALSE, faults)

LEMMA WorkingFinite ==
  ASSUME NEW ag, NEW s
  PROVE  IsFiniteSet(Working(ag, s)) /\ Cardinality(Working(ag, s)) \in Nat
<1>1. Working(ag, s) \subseteq Workers
  BY DEF Working
<1>2. IsFiniteSet(Working(ag, s))
  BY <1>1, ServerAssumption, FS_Subset
<1>3. QED
  BY <1>2, FS_CardinalityType

LEMMA CopiesFewer ==
  ASSUME NEW ag, NEW ag2, NEW s, NEW open, NEW open2, NEW b \in Int, NEW c \in Int, Copies(ag, s, open, b),
         Working(ag2, s) \subseteq Working(ag, s), c >= b, open2 => open \/ c > b
  PROVE  Copies(ag2, s, open2, c)
<1>1. /\ IsFiniteSet(Working(ag, s)) /\ Cardinality(Working(ag, s)) \in Nat
      /\ Cardinality(Working(ag2, s)) \in Nat
  BY WorkingFinite
<1>2. Cardinality(Working(ag2, s)) <= Cardinality(Working(ag, s))
  BY <1>1, FS_Subset
<1>3. Cardinality(Working(ag, s)) <= b /\ (open => Cardinality(Working(ag, s)) + 1 <= b)
  BY DEF Copies
<1>4. Cardinality(Working(ag2, s)) <= c
  BY <1>1, <1>2, <1>3
<1>5. open2 => Cardinality(Working(ag2, s)) + 1 <= c
  BY <1>1, <1>2, <1>3
<1>6. QED
  BY <1>4, <1>5 DEF Copies

LEMMA CopiesMore ==
  ASSUME NEW ag, NEW ag2, NEW s, NEW open2, NEW b \in Int, NEW c \in Int, NEW w, Copies(ag, s, TRUE, b),
         Working(ag2, s) \subseteq Working(ag, s) \cup {w}, c >= b, ~open2
  PROVE  Copies(ag2, s, open2, c)
<1> DEFINE A == Working(ag, s)
           B == Working(ag2, s)
<1>1. IsFiniteSet(A) /\ Cardinality(A) \in Nat /\ Cardinality(B) \in Nat
  BY WorkingFinite
<1>2. Cardinality(A) + 1 <= b
  BY DEF Copies
<1>3. B \subseteq A \cup {w}
  OBVIOUS
<1> HIDE DEF A, B
<1>4. IsFiniteSet(A \cup {w}) /\ Cardinality(A \cup {w}) \in {Cardinality(A), Cardinality(A) + 1}
  BY <1>1, FS_AddElement
<1>5. Cardinality(B) <= Cardinality(A \cup {w})
  BY <1>3, <1>4, FS_Subset
<1>6. Cardinality(B) <= c
  BY <1>1, <1>2, <1>4, <1>5
<1>7. QED
  BY <1>6 DEF Copies, B

(* A flush hands out the one copy that was open, or leaves it open.        *)
LEMMA CopiesDispatched ==
  ASSUME NEW F, NEW q \in Seq(Entries), NEW prep, NEW ag, NEW sn, NEW q2, NEW prep2, NEW ag2, NEW s \in Sessions,
         Way(F, q, prep, ag, sn), Dispatches(q, prep, ag, q2, prep2, ag2)
  PROVE  \/ Working(ag2, s) \subseteq Working(ag, s) /\ (OpenIn(q2, prep2, s) => OpenIn(q, prep, s))
         \/ /\ OpenIn(q, prep, s) /\ ~OpenIn(q2, prep2, s)
            /\ \E w : Working(ag2, s) \subseteq Working(ag, s) \cup {w}
<1> DEFINE Handed(T, to) ==
        /\ Len(q2) = Len(q)
        /\ \A i \in 1 .. Len(q) : /\ q2[i].sess = q[i].sess /\ q2[i].type = q[i].type
                                  /\ q2[i].lease = IF i \in T THEN "live" ELSE q[i].lease
        /\ \A p \in prep2 : p \in prep \/ \E i \in T : Scaffolds(q[i]) /\ p.sess = q[i].sess
        /\ \A w \in Workers : ag2[w] = ag[w] \/ \E i \in T : to[i] = w /\ ag2[w] = leaseEvent(q[i])
<1>0. PICK T \in SUBSET Available(q) : \E to \in [T -> Workers] : Handed(T, to)
  BY DEF Dispatches
<1>1. PICK to \in [T -> Workers] : Handed(T, to)
  BY <1>0
<1>2. \A i \in T : i \in 1 .. Len(q) /\ q[i].lease # "live"
  BY DEF Available
<1>3. \A p \in prep2 : p \in prep \/ \E i \in T : q[i].type = "generate" /\ ~q[i].ready /\ p.sess = q[i].sess
  BY <1>1 DEF Scaffolds
<1>4. \A w \in Working(ag2, s) : w \in Working(ag, s) \/ \E i \in T : /\ to[i] = w /\ q[i].type = "generate"
                                                                     /\ q[i].sess = s /\ q[i].ready
  <2> SUFFICES ASSUME NEW w \in Working(ag2, s), w \notin Working(ag, s)
               PROVE  \E i \in T : to[i] = w /\ q[i].type = "generate" /\ q[i].sess = s /\ q[i].ready
    OBVIOUS
  <2>1. w \in Workers /\ ag2[w].st = "work" /\ ag2[w].type = "generate" /\ ag2[w].sess = s /\ ag2[w] # ag[w]
    BY DEF Working
  <2>2. PICK i \in T : to[i] = w /\ ag2[w] = leaseEvent(q[i])
    BY <1>1, <2>1
  <2>3. PICK e \in Entries : e = q[i]
    BY <1>2, EntryFacts
  <2>4. ~Scaffolds(e) /\ e.type = "generate" /\ e.sess = s
    BY <2>1, <2>2, <2>3, LeaseEventTyped
  <2>5. QED
    BY <2>2, <2>3, <2>4 DEF Scaffolds
<1>5. CASE \E i \in T : q[i].type = "generate" /\ q[i].sess = s /\ q[i].ready
  <2>1. PICK i \in T : q[i].type = "generate" /\ q[i].sess = s /\ q[i].ready
    BY <1>5
  <2>2. \A k \in 1 .. Len(q) : q[k].type = "generate" /\ q[k].sess = s => k = i
    BY <1>2, <2>1 DEF Way, OneGenerate
  <2>3. OpenIn(q, prep, s)
    BY <1>2, <2>1 DEF OpenIn
  <2>4. \A p \in prep : p.sess # s
    BY <1>2, <2>1 DEF Way, ReadyKnown
  <2>5. \A p \in prep2 : p.sess # s
    BY <1>2, <1>3, <2>1, <2>2, <2>4
  <2>6. ~OpenIn(q2, prep2, s)
    BY <1>1, <2>2, <2>5 DEF OpenIn
  <2>7. Working(ag2, s) \subseteq Working(ag, s) \cup {to[i]}
    BY <1>2, <1>4, <2>2
  <2>8. QED
    BY <2>3, <2>6, <2>7
<1>6. CASE ~\E i \in T : q[i].type = "generate" /\ q[i].sess = s /\ q[i].ready
  <2>1. Working(ag2, s) \subseteq Working(ag, s)
    BY <1>4, <1>6
  <2>2. OpenIn(q2, prep2, s) => OpenIn(q, prep, s)
    BY <1>1, <1>2, <1>3 DEF OpenIn
  <2>3. QED
    BY <2>1, <2>2
<1>7. QED
  BY <1>5, <1>6

LEMMA OneMore ==
  ASSUME NEW a \in Int, NEW b \in Int, b >= a
  PROVE  1 + a \in Int /\ 1 + b \in Int /\ 1 + b >= 1 + a /\ (b > a => 1 + b > 1 + a)
OBVIOUS

LEMMA CopiesShrink ==
  ASSUME ServerInv, ServerInv', CopiesInv, up' = up, faults' >= faults,
         \A s \in Sessions :
           /\ Working(agent', s) \subseteq Working(agent, s)
           /\ s \in Fresh' \/ OpenIn(queue', preparing', s) =>
                s \in Fresh \/ OpenIn(queue, preparing, s) \/ faults' > faults
  PROVE  CopiesInv'
<1>1. faults \in Int /\ faults' \in Int /\ 1 + faults \in Int /\ 1 + faults' \in Int
  BY ServerAssumption DEF ServerInv, ServerTypeOK
<1>2. ASSUME NEW s \in Sessions, up
      PROVE  Copies(agent', s, s \in Fresh' \/ OpenIn(queue', preparing', s), 1 + faults')
  <2> DEFINE open == s \in Fresh \/ OpenIn(queue, preparing, s)
             open2 == s \in Fresh' \/ OpenIn(queue', preparing', s)
  <2>1. Copies(agent, s, open, 1 + faults)
    BY <1>2 DEF CopiesInv
  <2>2. Working(agent', s) \subseteq Working(agent, s) /\ (open2 => open \/ faults' > faults)
    BY <1>2
  <2>3. 1 + faults' >= 1 + faults /\ (faults' > faults => 1 + faults' > 1 + faults)
    BY <1>1, OneMore
  <2> HIDE DEF open, open2
  <2>4. Copies(agent', s, open2, 1 + faults')
    BY <1>1, <2>1, <2>2, <2>3, CopiesFewer
  <2>5. QED
    BY <2>4 DEF open2
<1>3. ASSUME NEW s \in Sessions, ~up PROVE Copies(agent', s, FALSE, faults')
  <2>1. Copies(agent, s, FALSE, faults)
    BY <1>3 DEF CopiesInv
  <2>2. QED
    BY <1>1, <2>1, CopiesFewer
<1>4. QED
  BY <1>2, <1>3 DEF CopiesInv

LEMMA WorkingSettles ==
  ASSUME NEW ag, NEW ag2, Settles(ag, ag2), NEW s
  PROVE  Working(ag2, s) \subseteq Working(ag, s)
BY DEF Working, Settles

LEMMA OpenRearranged ==
  ASSUME NEW q, NEW r, NEW prep, NEW s, Rearranged(q, r), OpenIn(r, prep, s)
  PROVE  OpenIn(q, prep, s)
<1>1. PICK f \in [1 .. Len(r) -> 1 .. Len(q)] :
        \A i \in 1 .. Len(r) : /\ r[i].sess = q[f[i]].sess /\ r[i].type = q[f[i]].type
                               /\ q[f[i]].lease = "live" => r[i].lease = "live"
  BY DEF Rearranged
<1>2. \A i \in 1 .. Len(r) : f[i] \in 1 .. Len(q)
  BY <1>1
<1>3. QED
  BY <1>1, <1>2 DEF OpenIn

LEMMA CopiesRoutine ==
  ASSUME ServerInv, ServerInv', GenerateInv, CopiesInv, Fresh' \subseteq Fresh, Routine
  PROVE  CopiesInv'
<1>1. PICK q \in Seq(Entries), ag \in [Workers -> Agents] :
        /\ Rearranged(queue, q) /\ \A w \in Workers : Eased(agent[w], ag[w])
        /\ Dispatches(q, preparing, ag, queue', preparing', agent')
  BY DEF Routine
<1>2. Settles(agent, ag) /\ \A s \in Sessions : Working(ag, s) \subseteq Working(agent, s)
  BY <1>1, EasedSettles, WorkingSettles
<1>3. Way(Fresh, q, preparing, ag, snap)
  <2>1. queue \in Seq(Entries) /\ Fresh \in SUBSET Sessions
    BY DEF ServerInv, ServerTypeOK, Fresh
  <2>2. Way(Fresh, q, preparing, agent, snap)
    BY <1>1, <2>1, WayRearranged DEF GenerateInv
  <2>3. QED
    BY <1>2, <2>1, <2>2, WaySettles
<1>4. \A s \in Sessions : OpenIn(q, preparing, s) => OpenIn(queue, preparing, s)
  BY <1>1, OpenRearranged
<1>5. up' = up /\ faults' >= faults
  BY DEF Routine
<1>6. faults \in Int /\ faults' \in Int /\ 1 + faults \in Int /\ 1 + faults' \in Int /\ 1 + faults' >= 1 + faults
  <2>1. faults \in Int /\ faults' \in Int
    BY ServerAssumption DEF ServerInv, ServerTypeOK
  <2>2. QED
    BY <1>5, <2>1, OneMore
<1>7. ASSUME NEW s \in Sessions, up
      PROVE  Copies(agent', s, s \in Fresh' \/ OpenIn(queue', preparing', s), 1 + faults')
  <2> DEFINE open == s \in Fresh \/ OpenIn(queue, preparing, s)
             open2 == s \in Fresh' \/ OpenIn(queue', preparing', s)
  <2>1. Copies(agent, s, open, 1 + faults)
    BY <1>7 DEF CopiesInv
  <2>2. CASE Working(agent', s) \subseteq Working(ag, s) /\ (OpenIn(queue', preparing', s) => OpenIn(q, preparing, s))
    <3>1. Working(agent', s) \subseteq Working(agent, s) /\ (open2 => open)
      BY <1>2, <1>4, <2>2
    <3> HIDE DEF open, open2
    <3>2. Copies(agent', s, open2, 1 + faults')
      BY <1>6, <2>1, <3>1, CopiesFewer
    <3>3. QED
      BY <3>2 DEF open2
  <2>3. CASE /\ OpenIn(q, preparing, s) /\ ~OpenIn(queue', preparing', s)
             /\ \E w : Working(agent', s) \subseteq Working(ag, s) \cup {w}
    <3>1. PICK w : Working(agent', s) \subseteq Working(agent, s) \cup {w}
      BY <1>2, <2>3
    <3>2. s \notin Fresh
      BY <1>3, <2>3 DEF Way, Unknown, OpenIn
    <3>3. open = TRUE /\ ~open2
      BY <1>4, <2>3, <3>2
    <3> HIDE DEF open, open2
    <3>4. Copies(agent', s, open2, 1 + faults')
      BY <1>6, <2>1, <3>1, <3>3, CopiesMore
    <3>5. QED
      BY <3>4 DEF open2
  <2>4. \/ /\ Working(agent', s) \subseteq Working(ag, s)
           /\ OpenIn(queue', preparing', s) => OpenIn(q, preparing, s)
        \/ /\ OpenIn(q, preparing, s) /\ ~OpenIn(queue', preparing', s)
           /\ \E w : Working(agent', s) \subseteq Working(ag, s) \cup {w}
    BY <1>1, <1>3, CopiesDispatched
  <2>5. QED
    BY <2>2, <2>3, <2>4
<1>8. ASSUME NEW s \in Sessions, ~up PROVE Copies(agent', s, FALSE, faults')
  <2>1. Copies(agent, s, FALSE, faults)
    BY <1>8 DEF CopiesInv
  <2>2. ~OpenIn(queue, preparing, s)
    BY <1>8 DEF ServerInv, OpenIn
  <2>3. Working(agent', s) \subseteq Working(ag, s)
    BY <1>1, <1>3, <1>4, <2>2, CopiesDispatched
  <2>4. Working(agent', s) \subseteq Working(agent, s)
    BY <1>2, <2>3
  <2>5. QED
    BY <1>5, <1>6, <2>1, <2>4, CopiesFewer
<1>9. QED
  BY <1>5, <1>7, <1>8 DEF CopiesInv

LEMMA CopiesScaffolded ==
  ASSUME ServerInv, ServerInv', GenerateInv, CopiesInv, Fresh' \subseteq Fresh, NEW p \in preparing, Scaffolded(p)
  PROVE  CopiesInv'
<1>1. /\ p.sess \in Sessions /\ preparing' = preparing \ {p} /\ Len(queue') = Len(queue)
      /\ \A i \in 1 .. Len(queue) :
           /\ queue'[i].sess = queue[i].sess /\ queue'[i].type = queue[i].type
           /\ queue'[i] = queue[i] \/ (queue[i].type = "generate" /\ queue[i].sess = p.sess)
      /\ up /\ up' = up /\ faults' = faults
  BY DEF Scaffolded
<1>2. Queued(queue, p.sess, {"generate"}) =>
        \E k \in 1 .. Len(queue) : queue[k].type = "generate" /\ queue[k].sess = p.sess /\ queue'[k].lease = "live"
  BY DEF Scaffolded
<1>3. PICK next : /\ next.st = "work" /\ next.sess = p.sess /\ next.type = "generate"
                  /\ \A w \in Workers : agent'[w] = IF w = p.to THEN next ELSE agent[w]
  BY DEF Scaffolded
<1>4. 1 + faults \in Int /\ 1 + faults' \in Int /\ 1 + faults' >= 1 + faults
  BY <1>1, ServerAssumption DEF ServerInv, ServerTypeOK
<1>5. \A i \in 1 .. Len(queue) : queue[i].type = "generate" /\ queue[i].sess = p.sess => queue'[i].lease = "live"
  BY <1>2 DEF GenerateInv, Way, OneGenerate, Queued
<1>6. p.sess \notin Fresh
  BY DEF GenerateInv, Way, Unknown
<1>7. \A r \in preparing' : r.sess # p.sess
  BY <1>1 DEF GenerateInv, Way, OnePreparation
<1>8. ~OpenIn(queue', preparing', p.sess)
  BY <1>1, <1>5, <1>7 DEF OpenIn
<1>9. OpenIn(queue, preparing, p.sess)
  BY DEF OpenIn
<1>10. ASSUME NEW s \in Sessions
       PROVE  Copies(agent', s, s \in Fresh' \/ OpenIn(queue', preparing', s), 1 + faults')
  <2> DEFINE open == s \in Fresh \/ OpenIn(queue, preparing, s)
             open2 == s \in Fresh' \/ OpenIn(queue', preparing', s)
  <2>1. Copies(agent, s, open, 1 + faults)
    BY <1>1 DEF CopiesInv
  <2>2. CASE s # p.sess
    <3>1. Working(agent', s) \subseteq Working(agent, s)
      BY <1>3, <2>2 DEF Working
    <3>2. OpenIn(queue', preparing', s) => OpenIn(queue, preparing, s)
      BY <1>1, <2>2 DEF OpenIn
    <3>3. open2 => open
      BY <3>2
    <3> HIDE DEF open, open2
    <3>4. Copies(agent', s, open2, 1 + faults')
      BY <1>4, <2>1, <3>1, <3>3, CopiesFewer
    <3>5. QED
      BY <3>4 DEF open2
  <2>3. CASE s = p.sess
    <3>1. Working(agent', s) \subseteq Working(agent, s) \cup {p.to}
      BY <1>3 DEF Working
    <3>2. open = TRUE /\ ~open2
      BY <1>6, <1>8, <1>9, <2>3
    <3> HIDE DEF open, open2
    <3>3. Copies(agent', s, open2, 1 + faults')
      BY <1>4, <2>1, <3>1, <3>2, CopiesMore
    <3>4. QED
      BY <3>3 DEF open2
  <2>4. QED
    BY <2>2, <2>3
<1>11. QED
  BY <1>1, <1>10 DEF CopiesInv

LEMMA FaultsTyped ==
  ASSUME ServerInv, ServerInv', faults' >= faults
  PROVE  /\ faults \in Int /\ faults' \in Int /\ 1 + faults \in Int /\ 1 + faults' \in Int
         /\ 1 + faults' >= 1 + faults /\ faults >= 0
<1>1. faults \in Int /\ faults' \in Int /\ faults >= 0
  BY ServerAssumption DEF ServerInv, ServerTypeOK
<1>2. QED
  BY <1>1, OneMore

LEMMA CopiesLapses ==
  ASSUME ServerInv, ServerInv', CopiesInv, Fresh' \subseteq Fresh, NEW k \in 1 .. Len(queue), Lapses(k)
  PROVE  CopiesInv'
<1>1. /\ Len(queue') = Len(queue) /\ \A j \in 1 .. Len(queue) \ {k} : queue'[j] = queue[j]
      /\ queue'[k].sess = queue[k].sess /\ queue'[k].type = queue[k].type
      /\ faults' = (IF Held(queue[k]) THEN faults + 1 ELSE faults)
      /\ up /\ up' = up /\ UNCHANGED <<preparing, agent>>
  BY DEF Lapses
<1>2. faults \in Int /\ faults' >= faults
  BY <1>1, ServerAssumption DEF ServerInv, ServerTypeOK
<1>3. 1 + faults \in Int /\ 1 + faults' \in Int /\ 1 + faults' >= 1 + faults /\ faults >= 0
  BY <1>2, FaultsTyped
<1>4. \A s \in Sessions : OpenIn(queue', preparing', s) =>
        OpenIn(queue, preparing, s) \/ (queue[k].type = "generate" /\ queue[k].sess = s)
  BY <1>1 DEF OpenIn
<1>5. CASE Held(queue[k])
  <2>1. faults' > faults
    BY <1>1, <1>2, <1>5
  <2>2. \A s \in Sessions : Working(agent', s) \subseteq Working(agent, s)
    BY <1>1
  <2>3. QED
    BY <1>1, <1>2, <2>1, <2>2, CopiesShrink
<1>6. ASSUME ~Held(queue[k]), NEW s \in Sessions
      PROVE  Copies(agent', s, s \in Fresh' \/ OpenIn(queue', preparing', s), 1 + faults')
  <2> DEFINE open == s \in Fresh \/ OpenIn(queue, preparing, s)
             open2 == s \in Fresh' \/ OpenIn(queue', preparing', s)
  <2>1. Copies(agent, s, open, 1 + faults)
    BY <1>1 DEF CopiesInv
  <2>2. CASE ~(queue[k].type = "generate" /\ queue[k].sess = s)
    <3>1. Working(agent', s) \subseteq Working(agent, s) /\ (open2 => open)
      BY <1>1, <1>4, <2>2
    <3> HIDE DEF open, open2
    <3>2. Copies(agent', s, open2, 1 + faults')
      BY <1>3, <2>1, <3>1, CopiesFewer
    <3>3. QED
      BY <3>2 DEF open2
  <2>3. CASE queue[k].type = "generate" /\ queue[k].sess = s
    <3>1. Working(agent', s) = {}
      BY <1>1, <1>6, <2>3 DEF Working, Held
    <3>2. Cardinality(Working(agent', s)) = 0
      BY <3>1, FS_EmptySet
    <3>3. 0 <= 1 + faults' /\ 0 + 1 <= 1 + faults'
      BY <1>2, <1>3
    <3>4. QED
      BY <3>2, <3>3 DEF Copies
  <2>4. QED
    BY <2>2, <2>3
<1>7. CASE ~Held(queue[k])
  BY <1>1, <1>6, <1>7 DEF CopiesInv
<1>8. QED
  BY <1>5, <1>7

LEMMA CopiesCrashes ==
  ASSUME ServerInv, ServerInv', CopiesInv, Crashes
  PROVE  CopiesInv'
<1>1. up /\ ~up' /\ faults' = faults + 1 /\ Settles(agent, agent')
  BY EasedSettles DEF Crashes
<1>2. faults \in Int
  BY ServerAssumption DEF ServerInv, ServerTypeOK
<1>3. 1 + faults \in Int /\ faults' \in Int /\ faults' >= 1 + faults
  BY <1>1, <1>2
<1>4. ASSUME NEW s \in Sessions PROVE Copies(agent', s, FALSE, faults')
  <2> DEFINE open == s \in Fresh \/ OpenIn(queue, preparing, s)
  <2>1. Copies(agent, s, open, 1 + faults)
    BY <1>1 DEF CopiesInv
  <2>2. Working(agent', s) \subseteq Working(agent, s)
    BY <1>1, WorkingSettles
  <2> HIDE DEF open
  <2>3. QED
    BY <1>3, <2>1, <2>2, CopiesFewer
<1>5. QED
  BY <1>1, <1>4 DEF CopiesInv

LEMMA CopiesRestores ==
  ASSUME ServerInv, ServerInv', CopiesInv, Restores
  PROVE  CopiesInv'
<1>1. ~up /\ up' /\ UNCHANGED <<agent, faults>>
  BY DEF Restores
<1>2. faults \in Int
  BY ServerAssumption DEF ServerInv, ServerTypeOK
<1>3. 1 + faults' \in Int /\ 1 + faults' >= faults /\ 1 + faults' > faults
  BY <1>1, <1>2
<1>4. ASSUME NEW s \in Sessions
      PROVE  Copies(agent', s, s \in Fresh' \/ OpenIn(queue', preparing', s), 1 + faults')
  <2> DEFINE open2 == s \in Fresh' \/ OpenIn(queue', preparing', s)
  <2>1. Copies(agent, s, FALSE, faults)
    BY <1>1 DEF CopiesInv
  <2>2. Working(agent', s) \subseteq Working(agent, s)
    BY <1>1
  <2> HIDE DEF open2
  <2>3. Copies(agent', s, open2, 1 + faults')
    BY <1>2, <1>3, <2>1, <2>2, CopiesFewer
  <2>4. QED
    BY <2>3 DEF open2
<1>5. QED
  BY <1>1, <1>4 DEF CopiesInv

LEMMA CopiesArrives ==
  ASSUME ServerInv, ServerInv', PageInv, CreatedOnce, GenerateInv, CopiesInv, Fresh' \subseteq Fresh,
         NEW m \in posts, Arrives(m)
  PROVE  CopiesInv'
<1>1. PICK q \in Seq(Entries), r \in Seq(Entries) : Joins(m, q, r) /\ Way(Fresh', r, preparing, agent, snap')
  BY ArrivalJoins
<1>2. /\ Rearranged(queue, q) /\ Dispatches(r, preparing, agent, queue', preparing', agent')
      /\ \A i \in 1 .. Len(r) : \/ (i \in 1 .. Len(q) /\ r[i] = q[i])
                                \/ (r[i].sess = m.sess /\ r[i].type = m.type /\ r[i].variant = m.visible)
  BY <1>1, JoinedEntries DEF Joins
<1>3. up /\ up' = up /\ faults' = faults
  BY DEF Arrives, Takes
<1>4. faults \in Int /\ 1 + faults \in Int /\ 1 + faults' \in Int /\ 1 + faults' >= 1 + faults
  BY <1>3, ServerAssumption DEF ServerInv, ServerTypeOK
<1>5. m \in Requests
  BY DEF PageInv
<1>6. \A s \in Sessions : OpenIn(r, preparing, s) => s \in Fresh \/ OpenIn(queue, preparing, s)
  <2> SUFFICES ASSUME NEW s \in Sessions, OpenIn(r, preparing, s), s \notin Fresh
               PROVE  OpenIn(queue, preparing, s)
    OBVIOUS
  <2>1. m.type = "generate" => m.sess # s
    BY <1>5, CreationArrives
  <2>2. OpenIn(q, preparing, s)
    BY <1>2, <2>1 DEF OpenIn
  <2>3. QED
    BY <1>2, <2>2, OpenRearranged
<1>7. ASSUME NEW s \in Sessions
      PROVE  Copies(agent', s, s \in Fresh' \/ OpenIn(queue', preparing', s), 1 + faults')
  <2> DEFINE open == s \in Fresh \/ OpenIn(queue, preparing, s)
             open2 == s \in Fresh' \/ OpenIn(queue', preparing', s)
  <2>1. Copies(agent, s, open, 1 + faults)
    BY <1>3 DEF CopiesInv
  <2>2. CASE /\ Working(agent', s) \subseteq Working(agent, s)
             /\ OpenIn(queue', preparing', s) => OpenIn(r, preparing, s)
    <3>1. Working(agent', s) \subseteq Working(agent, s) /\ (open2 => open)
      BY <1>6, <2>2
    <3> HIDE DEF open, open2
    <3>2. Copies(agent', s, open2, 1 + faults')
      BY <1>4, <2>1, <3>1, CopiesFewer
    <3>3. QED
      BY <3>2 DEF open2
  <2>3. CASE /\ OpenIn(r, preparing, s) /\ ~OpenIn(queue', preparing', s)
             /\ \E w : Working(agent', s) \subseteq Working(agent, s) \cup {w}
    <3>1. PICK w : Working(agent', s) \subseteq Working(agent, s) \cup {w}
      BY <2>3
    <3>2. s \notin Fresh'
      BY <1>1, <2>3 DEF Way, Unknown, OpenIn
    <3>3. open = TRUE /\ ~open2
      BY <1>6, <2>3, <3>2
    <3> HIDE DEF open, open2
    <3>4. Copies(agent', s, open2, 1 + faults')
      BY <1>4, <2>1, <3>1, <3>3, CopiesMore
    <3>5. QED
      BY <3>4 DEF open2
  <2>4. \/ /\ Working(agent', s) \subseteq Working(agent, s)
           /\ OpenIn(queue', preparing', s) => OpenIn(r, preparing, s)
        \/ /\ OpenIn(r, preparing, s) /\ ~OpenIn(queue', preparing', s)
           /\ \E w : Working(agent', s) \subseteq Working(agent, s) \cup {w}
    BY <1>1, <1>2, CopiesDispatched
  <2>5. QED
    BY <2>2, <2>3, <2>4
<1>8. QED
  BY <1>3, <1>7 DEF CopiesInv

LEMMA CopiesStep ==
  ASSUME ServerInv, ServerInv', PageInv, CreatedOnce, GenerateInv, CopiesInv, Kinds
  PROVE  CopiesInv'
<1>1. Fresh' \subseteq Fresh
  BY FreshStep
<1>2. ASSUME UNCHANGED <<up, queue, preparing>>, faults' >= faults, Settles(agent, agent') PROVE CopiesInv'
  BY <1>1, <1>2, WorkingSettles, CopiesShrink
<1>3. faults \in Int /\ faults >= faults /\ faults + 1 >= faults
  BY ServerAssumption DEF ServerInv, ServerTypeOK
<1>4. CASE UNCHANGED <<up, queue, preparing, agent>> /\ faults' >= faults
  BY <1>2, <1>4 DEF Settles
<1>5. ASSUME NEW w \in Workers, NEW next, next.st # "work", next.sess = agent[w].sess,
             agent' = [agent EXCEPT ![w] = next]
      PROVE  Settles(agent, agent')
  BY <1>5 DEF Settles, ServerInv, ServerTypeOK
<1>6. ASSUME NEW w \in Workers, NEW next, Applies(w, next) PROVE CopiesInv'
  <2>1. Settles(agent, agent')
    BY <1>5, <1>6 DEF Applies
  <2>2. QED
    BY <1>2, <1>3, <1>6, <2>1 DEF Applies
<1>7. ASSUME NEW w \in Workers, NEW next, NEW r, Registers(w, next, r) PROVE CopiesInv'
  <2>1. Settles(agent, agent')
    BY <1>5, <1>7 DEF Registers, Completions
  <2>2. QED
    BY <1>2, <1>3, <1>7, <2>1 DEF Registers
<1>8. ASSUME NEW w \in Workers, Leaves(w) PROVE CopiesInv'
  <2>1. /\ agent' = [agent EXCEPT ![w] = Idle] /\ faults' >= faults /\ UNCHANGED <<up, queue>>
        /\ \A r \in preparing' : \E p \in preparing : r.sess = p.sess
    BY <1>3, <1>8 DEF Leaves
  <2>2. Settles(agent, agent')
    BY <2>1, IdleTyped DEF Settles, ServerInv, ServerTypeOK
  <2>3. \A s \in Sessions : OpenIn(queue', preparing', s) => OpenIn(queue, preparing, s)
    BY <2>1 DEF OpenIn
  <2>4. QED
    BY <1>1, <2>1, <2>2, <2>3, WorkingSettles, CopiesShrink
<1>9. ASSUME ServerKinds PROVE CopiesInv'
  <2>1. ASSUME NEW w \in Workers, Publishes(w) PROVE CopiesInv'
    BY <1>3, <1>4, <2>1 DEF Publishes
  <2>2. QED
    BY <1>1, <1>6, <1>7, <1>8, <1>9, <2>1, CopiesRoutine, CopiesRestores, CopiesScaffolded, CopiesLapses
       DEF ServerKinds
<1>10. CASE Quiet \/ Chooses \/ \E s \in Sessions : Goes(s) \/ Emits(s)
  BY <1>3, <1>4, <1>10 DEF Quiet, Chooses, Goes, Emits
<1>11. QED
  BY <1>1, <1>9, <1>10, CopiesCrashes, CopiesArrives DEF Kinds

-----------------------------------------------------------------------------
(* The wake-ups                                                            *)

(* What a step may do to a watched queue.                                  *)
KeepsWatch ==
  Watched /\ ~Watched' =>
    \/ \E s \in Sessions : queue' # queue /\ queue' = retirePendingGeneration(queue, s)
    \/ \E p \in preparing \ preparing' : ~Queued(queue, p.sess, {"generate"})

(* What a flush leaves of a queue is as long, and what is not free is      *)
(* leased.                                                                 *)
LEMMA ClaimedFacts ==
  ASSUME NEW q \in Seq(Entries), NEW T, NEW r, r = Claimed(q, T)
  PROVE  /\ r = <<>> <=> q = <<>>
         /\ \A i \in 1 .. Len(q) : q[i].lease = "live" \/ i \in T => Leased(r)
<1>1. Len(q) \in Nat /\ \A i \in 1 .. Len(q) : q[i] \in Entries
  BY LenProperties, ElementOfSeq
<1>2. \A i \in 1 .. Len(q) : /\ r[i] \in Entries
                             /\ q[i].lease = "live" \/ i \in T => r[i].lease = "live"
  <2>1. ASSUME NEW i \in 1 .. Len(q)
        PROVE  r[i] \in Entries /\ (q[i].lease = "live" \/ i \in T => r[i].lease = "live")
    <3>1. PICK e \in Entries : e = q[i]
      BY <1>1
    <3>2. r[i] = IF i \in T THEN [e EXCEPT !.lease = "live"] ELSE e
      BY <3>1 DEF Claimed
    <3>3. [e EXCEPT !.lease = "live"] \in Entries /\ [e EXCEPT !.lease = "live"].lease = "live"
      BY DEF Entries
    <3>4. QED
      BY <3>1, <3>2, <3>3
  <2>2. QED
    BY <2>1
<1>3. r \in [1 .. Len(q) -> Entries]
  <2>1. r = [i \in 1 .. Len(q) |-> r[i]]
    BY DEF Claimed
  <2>2. QED
    BY <1>2, <2>1
<1>4. r \in Seq(Entries) /\ Len(r) = Len(q)
  BY <1>1, <1>3, FunctionIsSeq
<1>5. r = <<>> <=> q = <<>>
  BY <1>4, EmptySeq
<1>6. QED
  BY <1>2, <1>4, <1>5 DEF Leased

LEMMA AvailableFinite ==
  ASSUME NEW q \in Seq(Entries)
  PROVE  IsFiniteSet(Available(q)) /\ Cardinality(Available(q)) \in Nat
<1>1. Len(q) \in Nat
  BY LenProperties
<1>2. IsFiniteSet(1 .. Len(q))
  BY <1>1, FS_Interval
<1>3. Available(q) \subseteq 1 .. Len(q)
  BY DEF Available
<1>4. QED
  BY <1>2, <1>3, FS_Subset, FS_CardinalityType

LEMMA RankWithin ==
  ASSUME NEW q \in Seq(Entries), NEW i \in Available(q)
  PROVE  Rank(q, i) <= Cardinality(Available(q))
<1>1. Cardinality({j \in Available(q) : j = i \/ precedes(q, j, i)}) <= Cardinality(Available(q))
  BY AvailableFinite, FS_Subset
<1>2. QED
  BY <1>1 DEF Rank

(* After a flush with polls to spare every event left is leased.           *)
LEMMA FlushWatches ==
  ASSUME NEW q \in Seq(Entries), NEW prep, NEW ag, polls \in Seq(Workers), FlushPendingPolls(q, prep, ag)
  PROVE  Watched'
<1>1. SUFFICES ASSUME polls' # <<>>, queue' # <<>> PROVE timer'
  BY DEF Watched
<1>2. PICK T : T = {i \in Available(q) : Rank(q, i) <= Len(polls)}
  OBVIOUS
<1>3. PICK c \in Nat : c = Cardinality(Available(q))
  BY AvailableFinite
<1>4. /\ queue' = Claimed(q, T) /\ polls' = SubSeq(polls, c + 1, Len(polls)) /\ timer' = Leased(queue')
  BY <1>2, <1>3, Zenon DEF FlushPendingPolls, Flush
<1>5. q # <<>>
  BY <1>1, <1>4, ClaimedFacts
<1>6. Len(q) \in Nat /\ Len(q) # 0 /\ Len(polls) \in Nat
  BY <1>5, LenProperties, EmptySeq
<1>7. 1 \in 1 .. Len(q)
  BY <1>6
<1>8. c <= Len(polls)
  <2>1. SUFFICES ASSUME c > Len(polls) PROVE FALSE
    BY <1>6
  <2>2. SubSeq(polls, c + 1, Len(polls)) = <<>>
    BY <2>1, <1>6
  <2>3. QED
    BY <1>1, <1>4, <2>2
<1>9. CASE q[1].lease = "live"
  BY <1>4, <1>7, <1>9, ClaimedFacts
<1>10. CASE q[1].lease # "live"
  <2>1. 1 \in Available(q)
    BY <1>7, <1>10 DEF Available
  <2>2. Rank(q, 1) \in Nat /\ Rank(q, 1) <= c
    BY <1>3, <2>1, RankBounds, RankWithin
  <2>3. 1 \in T
    BY <1>2, <1>6, <1>8, <2>1, <2>2
  <2>4. QED
    BY <1>4, <1>7, <2>3, ClaimedFacts
<1>11. QED
  BY <1>9, <1>10

(* A step that leaves the queue and the timer, and adds no poll.           *)
LEMMA NothingToWatch ==
  ASSUME UNCHANGED <<up, queue, timer>>, polls = <<>> => polls' = <<>>
  PROVE  KeepsWatch
BY DEF KeepsWatch, Watched

(* A poll that asks takes the first free event: the timer stays as it is,  *)
(* or is armed for this event.                                             *)
LEMMA AskingWatches ==
  ASSUME ServerInv, NEW w \in Workers, agent[w].st # "work",
         NEW d, d = Flush(queue, <<w>>, preparing, agent), up' = up, queue' = d.queue,
         polls = <<>> => polls' = <<>>,
         timer' = IF d.agent[w].st = "work" THEN Leased(d.queue) ELSE timer
  PROVE  KeepsWatch
<1>1. queue \in Seq(Entries) /\ polls \in Seq(Workers)
  BY DEF ServerInv, ServerTypeOK
<1> DEFINE T == {i \in Available(queue) : Rank(queue, i) <= Len(<<w>>)}
           to == [i \in T |-> <<w>>[Rank(queue, i)]]
<1>2. /\ d.queue = Claimed(queue, T)
      /\ d.agent[w] = IF \E i \in T : to[i] = w THEN leaseEvent(queue[CHOOSE i \in T : to[i] = w]) ELSE agent[w]
  BY DEF Flush
<1>3. T \subseteq 1 .. Len(queue)
  BY DEF Available
<1> HIDE DEF T
<1>4. queue' = <<>> <=> queue = <<>>
  BY <1>1, <1>2, ClaimedFacts
<1>5. CASE d.agent[w].st = "work"
  <2>1. PICK i \in T : to[i] = w
    BY <1>2, <1>5
  <2>2. Leased(queue')
    BY <1>1, <1>2, <1>3, <2>1, ClaimedFacts
  <2>3. QED
    BY <1>5, <2>2 DEF KeepsWatch, Watched
<1>6. CASE d.agent[w].st # "work"
  BY <1>4, <1>6 DEF KeepsWatch, Watched
<1>7. QED
  BY <1>5, <1>6

LEMMA PollGetWatches ==
  ASSUME ServerInv, NEW w \in Workers, PollGet(w)
  PROVE  KeepsWatch
<1>1. queue \in Seq(Entries) /\ polls \in Seq(Workers)
  BY DEF ServerInv, ServerTypeOK
<1>2. CASE Available(queue) # {}
  <2>1. PICK d : d = Flush(queue, <<w>>, preparing, agent)
    OBVIOUS
  <2>2. /\ up' = up /\ queue' = d.queue /\ polls' = polls
        /\ timer' = IF d.agent[w].st = "work" THEN Leased(d.queue) ELSE timer
    BY <1>2, <2>1 DEF PollGet
  <2>3. agent[w].st # "work"
    BY DEF PollGet, Idle
  <2>4. QED
    BY <2>1, <2>2, <2>3, AskingWatches
<1>3. CASE Available(queue) = {}
  <2>1. queue' = queue /\ timer' = Leased(queue)
    BY <1>3 DEF PollGet
  <2>2. ASSUME queue # <<>> PROVE Leased(queue)
    <3>1. Len(queue) \in Nat /\ Len(queue) # 0
      BY <1>1, <2>2, LenProperties, EmptySeq
    <3>2. 1 \in 1 .. Len(queue)
      BY <3>1
    <3>3. QED
      BY <1>3, <3>2 DEF Available, Leased
  <2>3. QED
    BY <2>1, <2>2 DEF KeepsWatch, Watched
<1>4. QED
  BY <1>2, <1>3

LEMMA PollTimeoutWatches ==
  ASSUME ServerInv, NEW w \in Workers, PollTimeout(w)
  PROVE  KeepsWatch
<1>1. polls \in Seq(Workers)
  BY DEF ServerInv, ServerTypeOK
<1>2. PICK d : d = Flush(queue, <<w>>, preparing, agent)
  OBVIOUS
<1>3. /\ up' = up /\ queue' = d.queue /\ polls' = RemoveFirst(polls, w)
      /\ timer' = IF d.agent[w].st = "work" THEN Leased(d.queue) ELSE timer
      /\ agent[w].st # "work"
  BY <1>2 DEF PollTimeout
<1>4. polls = <<>> => polls' = <<>>
  BY <1>1, <1>3, RemoveFirstSeq
<1>5. QED
  BY <1>2, <1>3, <1>4, AskingWatches

LEMMA LeaseReadyWatches ==
  ASSUME ServerInv, NEW p \in preparing, LeaseReady(p)
  PROVE  KeepsWatch
<1>1. queue \in Seq(Entries) /\ preparing' = preparing \ {p}
  BY DEF ServerInv, ServerTypeOK, LeaseReady
<1>2. CASE Queued(queue, p.sess, {"generate"})
  <2>1. PICK i \in 1 .. Len(queue) : i = Position(queue, p.sess, {"generate"})
    BY <1>1, <1>2, PositionFacts
  <2>2. PICK r : r = [queue EXCEPT ![i].lease = "live", ![i].ready = TRUE]
    OBVIOUS
  <2>3. timer' = Leased(r)
    BY <1>2, <2>1, <2>2 DEF LeaseReady
  <2>4. PICK e \in Entries : e = queue[i]
    BY <1>1, ElementOfSeq
  <2>5. Len(r) = Len(queue) /\ r[i].lease = "live"
    BY <1>1, <2>2, <2>4 DEF Entries
  <2>6. timer'
    BY <2>3, <2>5 DEF Leased
  <2>7. QED
    BY <2>6 DEF KeepsWatch, Watched
<1>3. CASE ~Queued(queue, p.sess, {"generate"})
  BY <1>1, <1>3 DEF KeepsWatch
<1>4. QED
  BY <1>2, <1>3

LEMMA HandlePollPostWatches ==
  ASSUME ServerInv, NEW w \in Workers, NEW type, NEW carbonize, NEW types, NEW next,
         handlePollPost(w, type, carbonize, types, next)
  PROVE  KeepsWatch
<1>1. queue \in Seq(Entries) /\ polls \in Seq(Workers)
  BY DEF ServerInv, ServerTypeOK
<1>2. PICK s : s = agent[w].sess
  OBVIOUS
<1>3. PICK q : q = IF Queued(queue, s, types) THEN RemoveAt(queue, Position(queue, s, types)) ELSE queue
  OBVIOUS
<1>4. q \in Seq(Entries)
  BY <1>1, <1>3, PositionFacts, RemoveAtSeq
<1>5. FlushPendingPolls(q, preparing, [agent EXCEPT ![w] = next])
  BY <1>2, <1>3 DEF handlePollPost
<1>6. QED
  BY <1>1, <1>4, <1>5, FlushWatches DEF KeepsWatch

LEMMA LeaseTimerWatches ==
  ASSUME ServerInv, LeaseTimerFires
  PROVE  KeepsWatch
<1>1. queue \in Seq(Entries) /\ polls \in Seq(Workers)
  BY DEF ServerInv, ServerTypeOK
<1> DEFINE f(i) == IF queue[i].lease = "lapsed" THEN [queue[i] EXCEPT !.lease = "none"] ELSE queue[i]
<1>2. PICK q : q = [i \in 1 .. Len(queue) |-> f(i)]
  OBVIOUS
<1>3. Len(queue) \in Nat /\ \A i \in 1 .. Len(queue) : queue[i] \in Entries
  BY <1>1, LenProperties, ElementOfSeq
<1>4. \A i \in 1 .. Len(queue) : f(i) \in Entries
  <2>1. \A e \in Entries : [e EXCEPT !.lease = "none"] \in Entries
    BY DEF Entries
  <2>2. QED
    BY <1>3, <2>1
<1>5. FlushPendingPolls(q, preparing, agent)
  BY <1>2 DEF LeaseTimerFires
<1> HIDE DEF f
<1>6. q \in Seq(Entries)
  BY <1>2, <1>3, <1>4, FunctionIsSeq
<1>7. QED
  BY <1>1, <1>5, <1>6, FlushWatches DEF KeepsWatch

LEMMA PostEventWatches ==
  ASSUME ServerInv, NEW m \in Requests, PostEvent(m)
  PROVE  KeepsWatch
<1>1. queue \in Seq(Entries) /\ polls \in Seq(Workers)
  BY DEF ServerInv, ServerTypeOK
<1>2. PICK s \in Sessions : s = m.sess
  BY DEF Requests
<1>3. PICK q : q = IF m.type \in {"accept", "discard"} THEN retirePendingGeneration(queue, s) ELSE queue
  OBVIOUS
<1>4. q \in Seq(Entries)
  BY <1>1, <1>3, PositionFacts, RemoveAtSeq DEF retirePendingGeneration
<1>5. PICK r : r = IF m.type = "checkpoint" \/ m.orphaned THEN q ELSE Enqueued(q, s, m.type, m.visible, FALSE)
  OBVIOUS
<1>6. IF r # q THEN FlushPendingPolls(r, preparing, agent)
      ELSE queue' = q /\ timer' = (IF q # queue THEN Leased(q) ELSE timer) /\ UNCHANGED polls
  BY <1>2, <1>3, <1>5 DEF PostEvent
<1>7. up' = up
  BY DEF PostEvent
<1>8. CASE r # q
  <2>1. PICK e : e = [sess |-> s, type |-> m.type, variant |-> m.visible, lease |-> "none", ready |-> FALSE]
    OBVIOUS
  <2>2. r = Append(q, e) /\ m.type # "checkpoint"
    BY <1>5, <1>8, <2>1 DEF Enqueued
  <2>3. m.type \in {"generate", "checkpoint", "accept", "discard"} /\ m.visible \in 0 .. Variants
    BY DEF Requests
  <2>4. e \in Entries
    BY <2>1, <2>2, <2>3 DEF Entries, Types
  <2>5. r \in Seq(Entries)
    BY <1>4, <2>2, <2>4, AppendProperties
  <2>6. QED
    BY <1>1, <1>6, <1>8, <2>5, FlushWatches DEF KeepsWatch
<1>9. CASE r = q /\ q = queue
  BY <1>6, <1>7, <1>9, NothingToWatch
<1>10. CASE r = q /\ q # queue
  BY <1>3, <1>6, <1>10 DEF KeepsWatch
<1>11. QED
  BY <1>8, <1>9, <1>10

LEMMA ServerStepWatches ==
  ASSUME ServerInv, ServerSteps
  PROVE  KeepsWatch
<1>1. polls \in Seq(Workers)
  BY DEF ServerInv, ServerTypeOK
<1>2. ASSUME NEW w \in Workers, AgentDies(w) PROVE KeepsWatch
  <2>1. UNCHANGED <<up, queue, timer>> /\ polls' = RemoveFirst(polls, w)
    BY <1>2 DEF AgentDies
  <2>2. QED
    BY <1>1, <2>1, RemoveFirstSeq, NothingToWatch
<1>3. ASSUME NEW w \in Workers, RunAccept(w) \/ AcceptFails(w) \/ ReplyLost(w) PROVE KeepsWatch
  <2>1. UNCHANGED <<up, queue, timer, polls>>
    BY <1>3 DEF RunAccept, AcceptFails, ReplyLost
  <2>2. QED
    BY <2>1, NothingToWatch
<1>4. ASSUME NEW w \in Workers, NEW n, Publish(w, n) PROVE KeepsWatch
  <2>1. UNCHANGED <<up, queue, timer, polls>>
    BY <1>4 DEF Publish
  <2>2. QED
    BY <2>1, NothingToWatch
<1>5. ASSUME NEW w \in Workers, NEW c, WriteReceipt(w, c) PROVE KeepsWatch
  <2>1. UNCHANGED <<up, queue, timer, polls>>
    BY <1>5 DEF WriteReceipt
  <2>2. QED
    BY <2>1, NothingToWatch
<1>6. ASSUME NEW w \in Workers, NEW type, ReplyGenerate(w, type) PROVE KeepsWatch
  BY <1>6, HandlePollPostWatches DEF ReplyGenerate
<1>7. ASSUME NEW w \in Workers, ReplyDecision(w) PROVE KeepsWatch
  BY <1>7, HandlePollPostWatches DEF ReplyDecision
<1>8. ASSUME NEW w \in Workers, Complete(w) PROVE KeepsWatch
  <2>1. CASE up
    BY <1>8, <2>1, HandlePollPostWatches DEF Complete
  <2>2. CASE ~up
    <3>1. UNCHANGED <<up, queue, timer, polls>>
      BY <1>8, <2>2 DEF Complete
    <3>2. QED
      BY <3>1, NothingToWatch
  <2>3. QED
    BY <2>1, <2>2
<1>9. ASSUME NEW p \in preparing, LeaseFails(p) PROVE KeepsWatch
  <2>1. UNCHANGED <<up, queue, timer, polls>>
    BY <1>9 DEF LeaseFails
  <2>2. QED
    BY <2>1, NothingToWatch
<1>10. ASSUME NEW i \in 1 .. Len(queue), LeaseLapses(i) PROVE KeepsWatch
  <2>1. UNCHANGED <<up, timer, polls>> /\ queue # <<>>
    BY <1>10, EmptySeq DEF LeaseLapses
  <2>2. QED
    BY <2>1 DEF KeepsWatch, Watched
<1>11. ASSUME Restart PROVE KeepsWatch
  <2>1. polls' = <<>>
    BY <1>11 DEF Restart, ServerInv
  <2>2. QED
    BY <2>1 DEF KeepsWatch, Watched
<1>12. QED
  BY <1>2, <1>3, <1>4, <1>5, <1>6, <1>7, <1>8, <1>9, <1>10, <1>11, PollGetWatches, PollTimeoutWatches,
     LeaseReadyWatches, LeaseTimerWatches DEF ServerSteps

LEMMA StepWatches ==
  ASSUME ServerInv, PageInv, [Next]_vars
  PROVE  KeepsWatch
<1>1. ASSUME UNCHANGED <<up, queue, timer, polls>> PROVE KeepsWatch
  BY <1>1, NothingToWatch
<1>2. ASSUME UNCHANGED serverVars PROVE KeepsWatch
  BY <1>1, <1>2 DEF serverVars
<1>3. ASSUME NEW p \in posts, Deliver(p) PROVE KeepsWatch
  <2>1. p \in Requests
    BY DEF PageInv
  <2>2. QED
    BY <1>2, <1>3, <2>1, PostEventWatches DEF Deliver
<1>4. ASSUME ServerCrash PROVE KeepsWatch
  BY <1>4 DEF ServerCrash, Crash, KeepsWatch, Watched
<1>5. ASSUME ReadStream \/ Connect \/ Drop PROVE KeepsWatch
  BY <1>1, <1>5 DEF ReadStream, Connect, Drop
<1>6. ASSUME NEW s \in Sessions, NEW annotated \in BOOLEAN, handleGo(s, annotated) PROVE KeepsWatch
  BY <1>2, <1>6 DEF handleGo
<1>7. ASSUME NEW s \in Sessions, captureAndEmit(s) PROVE KeepsWatch
  BY <1>2, <1>7 DEF captureAndEmit
<1>8. ASSUME NEW v \in 1 .. Variants, selectVariant(v) PROVE KeepsWatch
  BY <1>2, <1>8 DEF selectVariant
<1>9. ASSUME handleAccept \/ handleDiscard PROVE KeepsWatch
  BY <1>2, <1>9 DEF handleAccept, handleDiscard
<1>10. ASSUME NEW p \in posts, Lose(p) PROVE KeepsWatch
  BY <1>2, <1>10 DEF Lose
<1>11. ASSUME NEW a \in answers, CreationAnswered(a) \/ CheckpointRefused(a) \/ AcceptAnsweredToPage(a) \/ DiscardAnswered(a)
       PROVE  KeepsWatch
  BY <1>2, <1>11 DEF CreationAnswered, CheckpointRefused, AcceptAnsweredToPage, DiscardAnswered
<1>12. ASSUME NEW r \in reads, injectVariantsFromSource(r) PROVE KeepsWatch
  BY <1>2, <1>12 DEF injectVariantsFromSource
<1>13. ASSUME CheckpointTimer \/ Update \/ Reload PROVE KeepsWatch
  BY <1>1, <1>2, <1>13 DEF CheckpointTimer, Update, Reload
<1>14. ASSUME UNCHANGED vars PROVE KeepsWatch
  BY <1>2, <1>14 DEF vars
<1>15. QED
  BY <1>3, <1>4, <1>5, <1>6, <1>7, <1>8, <1>9, <1>10, <1>11, <1>12, <1>13, <1>14, ServerStepWatches
     DEF Next, UserSteps, PageSteps

-----------------------------------------------------------------------------
(* The comparison                                                          *)

Shows(pg) == pg.st = "CYCLING" /\ pg.sess # None => pg.arrived > 0 /\ pg.visible \in 1 .. pg.arrived

SameView(pg, q) == q.st = pg.st /\ q.sess = pg.sess /\ q.arrived = pg.arrived /\ q.visible = pg.visible

LEMMA CleanupShows ==
  ASSUME NEW pg \in Pages
  PROVE  Shows(cleanup(pg)) /\ Shows(cleanupAcceptedSession(pg))
<1>1. cleanup(pg) \in Pages /\ cleanup(pg).st = "PICKING"
  <2>1. cleanup(pg).st = "PICKING"
    BY DEF cleanup, Pages
  <2>2. QED
    BY <2>1, CleanupTyped
<1>2. cleanupAcceptedSession(pg).st = "PICKING"
  BY <1>1 DEF cleanupAcceptedSession, Pages
<1>3. QED
  BY <1>1, <1>2 DEF Shows

LEMMA RenderableShows ==
  ASSUME NEW pg \in Pages, ensureCyclingRenderable(pg)
  PROVE  Shows(page')
<1>1. CASE pg.arrived > 0
  BY <1>1, RepairedTyped DEF ensureCyclingRenderable, Shows
<1>2. CASE ~(pg.arrived > 0)
  BY <1>2, CleanupShows DEF ensureCyclingRenderable
<1>3. QED
  BY <1>1, <1>2

LEMMA CountedView ==
  ASSUME NEW pg \in Pages PROVE SameView(pg, Counted(pg))
BY DEF Counted, Pages, SameView

LEMMA ShownInRange ==
  ASSUME NEW s, NEW n \in Int, n > 0, NEW before
  PROVE  Shown(s, n, before) \in 1 .. n
BY DEF Shown, InRange

LEMMA ReadShows ==
  ASSUME ServerInv, PageInv, Shows(page), NEW r \in reads, injectVariantsFromSource(r)
  PROVE  Shows(page')
<1>1. page \in Pages /\ r.sess \in Sessions
  BY DEF PageInv, Reads
<1>2. CASE UNCHANGED page
  BY <1>2
<1>3. CASE Finish(cleanup(page))
  BY <1>1, <1>3, CleanupShows DEF Finish
<1>4. CASE WrapperEmpty(r)
  <2>1. PICK pg : pg = [page EXCEPT !.arrived = 0]
    OBVIOUS
  <2>2. pg \in Pages /\ pg.st = page.st
    BY <1>1, <2>1, VariantsAssumption DEF Pages
  <2>3. (page.st = "GENERATING" /\ page' = pg) \/ page' = cleanup(pg)
    BY <1>4, <2>1 DEF WrapperEmpty
  <2>4. QED
    BY <2>2, <2>3, CleanupShows DEF Shows
<1>5. CASE VariantsRead(r)
  <2>1. PICK n : n = source[r.sess].n
    OBVIOUS
  <2>2. n \in Int /\ n > 0
    BY <1>1, <1>5, <2>1, VariantsAssumption DEF VariantsRead, ServerInv, ServerTypeOK, Sources
  <2>3. PICK before : before = IF page.sess = r.sess THEN page.visible ELSE 0
    OBVIOUS
  <2>4. PICK v : v = Shown(r.sess, n, before)
    OBVIOUS
  <2>5. v \in 1 .. n
    BY <2>2, <2>4, ShownInRange
  <2>6. page' = [page EXCEPT !.st = "CYCLING", !.arrived = n, !.file = TRUE, !.visible = v]
    BY <1>5, <2>1, <2>3, <2>4 DEF VariantsRead, Keep
  <2>7. page'.arrived = n /\ page'.visible = v
    BY <1>1, <2>6 DEF Pages
  <2>8. QED
    BY <2>2, <2>5, <2>7 DEF Shows
<1>6. QED
  BY <1>2, <1>3, <1>4, <1>5 DEF injectVariantsFromSource, SourceUnread, WrapperMissing

LEMMA StreamShows ==
  ASSUME PageInv, Shows(page), ReadStream
  PROVE  Shows(page')
<1>1. page \in Pages
  BY DEF PageInv
<1>2. PICK m : OnDone(m) \/ OnAccepted(m) \/ OnAgentDone(m) \/ OnDiscarded(m) \/ OnError(m)
  BY DEF ReadStream
<1>3. CASE OnDone(m)
  <2>1. PICK known : known = [page EXCEPT !.file = TRUE]
    OBVIOUS
  <2>2. known \in Pages /\ SameView(page, known)
    BY <1>1, <2>1 DEF Pages, SameView
  <2>3. PICK cycling : cycling = [known EXCEPT !.st = "CYCLING"]
    OBVIOUS
  <2>4. cycling \in Pages
    BY <2>2, <2>3 DEF Pages, States
  <2>5. ensureCyclingRenderable(cycling) \/ page' = known
    BY <1>3, <2>1, <2>3 DEF OnDone
  <2>6. QED
    BY <2>2, <2>4, <2>5, RenderableShows DEF SameView, Shows
<1>4. CASE OnAccepted(m)
  <2>1. PICK pg : pg = IF page.awaiting = m.sess THEN [page EXCEPT !.awaiting = None] ELSE page
    OBVIOUS
  <2>2. pg \in Pages /\ SameView(page, pg)
    BY <1>1, <2>1 DEF Pages, SameView
  <2>3. PICK free : free = [pg EXCEPT !.pending = None]
    OBVIOUS
  <2>4. SameView(page, free)
    BY <2>2, <2>3 DEF Pages, SameView
  <2>5. page' = cleanupAcceptedSession(pg) \/ page' \in {free, pg}
    BY <1>4, <2>1, <2>3 DEF OnAccepted, Finish
  <2>6. QED
    BY <2>2, <2>4, <2>5, CleanupShows DEF SameView, Shows
<1>5. CASE OnAgentDone(m)
  BY <1>5 DEF OnAgentDone
<1>6. CASE OnDiscarded(m)
  BY <1>1, <1>6, CleanupShows DEF OnDiscarded, Finish
<1>7. CASE OnError(m)
  <2>1. PICK back : back = [page EXCEPT !.pending = None, !.awaiting = None, !.st = "CYCLING"]
    OBVIOUS
  <2>2. PICK gone : gone = [page EXCEPT !.awaiting = None]
    OBVIOUS
  <2>3. PICK picking : picking = [page EXCEPT !.st = "PICKING"]
    OBVIOUS
  <2>4. back \in Pages /\ back.sess = page.sess
    BY <1>1, <2>1 DEF Pages, States
  <2>5. SameView(page, gone) /\ picking.st = "PICKING"
    BY <1>1, <2>2, <2>3 DEF Pages, SameView
  <2>6. \/ page.sess = None /\ page' = back
        \/ ensureCyclingRenderable(back)
        \/ page' \in {gone, picking}
        \/ page' = cleanup(page)
    BY <1>7, <2>1, <2>2, <2>3 DEF OnError, Finish
  <2>7. QED
    BY <1>1, <2>4, <2>5, <2>6, CleanupShows, RenderableShows DEF SameView, Shows
<1>8. QED
  BY <1>2, <1>3, <1>4, <1>5, <1>6, <1>7

LEMMA RestoredShows ==
  ASSUME NEW pg \in Pages, NEW local, NEW server
  PROVE  Restored(pg, local, server).st = "GENERATING"
BY DEF Restored, Pages

LEMMA ReloadShows ==
  ASSUME ServerInv, PageInv, Reload
  PROVE  Shows(page')
<1>1. PICK pg : pg = [FreshPage EXCEPT !.revision = saved.revision]
  OBVIOUS
<1>2. pg \in Pages /\ pg.st = "PICKING"
  <2>1. saved.revision \in Nat
    BY DEF PageInv, Records
  <2>2. FreshPage.st = "PICKING"
    BY DEF FreshPage
  <2>3. QED
    BY <1>1, <2>1, <2>2, FreshPageTyped DEF Pages
<1>3. PICK kept :
      \/ \E s \in Sessions : Rendered(s) # NoWrapper /\ Resume(pg, s, kept)
      \/ page' = Restored(pg, saved, NotSaved)
      \/ page' = pg
  BY <1>1 DEF Reload, Keep
<1>4. ASSUME NEW s \in Sessions, Rendered(s) # NoWrapper, Resume(pg, s, kept) PROVE Shows(page')
  <2>1. PICK new : new = Resumed(pg, s)
    OBVIOUS
  <2>2. PICK n : n = Rendered(s)
    OBVIOUS
  <2>3. PICK v : v = Shown(s, n, 0)
    OBVIOUS
  <2>4. new \in Pages
    BY <1>2, <1>4, <2>1, ResumedTyped
  <2>5. new.st = (IF n > 0 THEN "CYCLING" ELSE "GENERATING") /\ new.arrived = n /\ new.visible = v
    BY <1>2, <2>1, <2>2, <2>3 DEF Resumed, Pages
  <2>6. n \in Int
    BY <2>2, RenderedRange
  <2>7. n > 0 => v \in 1 .. n
    BY <2>3, <2>6, ShownInRange
  <2>8. Shows(new)
    BY <2>5, <2>6, <2>7 DEF Shows
  <2>9. page' = pg \/ page' = Counted(new) \/ page' = new
    BY <1>4, <2>1 DEF Resume, Keep
  <2>10. QED
    BY <1>2, <2>4, <2>8, <2>9, CountedView DEF SameView, Shows
<1>5. QED
  BY <1>2, <1>3, <1>4, RestoredShows DEF Shows

LEMMA CyclingStep ==
  ASSUME ServerInv, PageInv, Shows(page), [Next]_vars
  PROVE  Shows(page')
<1>1. page \in Pages
  BY DEF PageInv
<1>2. ASSUME SameView(page, page') PROVE Shows(page')
  BY <1>2 DEF SameView, Shows
<1>3. ASSUME page' = page PROVE Shows(page')
  BY <1>3
<1>4. ASSUME NEW s \in Sessions, NEW annotated \in BOOLEAN, handleGo(s, annotated) PROVE Shows(page')
  <2>1. PICK pg : pg = [page EXCEPT !.st = "GENERATING", !.sess = s, !.arrived = 0, !.visible = 0, !.file = FALSE,
                                    !.pending = None, !.awaiting = None]
    OBVIOUS
  <2>2. pg \in Pages /\ pg.st = "GENERATING"
    <3>1. 0 \in 0 .. Variants
      BY VariantsAssumption
    <3>2. QED
      BY ONLY <1>1, <2>1, <3>1, s \in Sessions DEF Pages, States
  <2>3. PICK new : new = IF annotated THEN [pg EXCEPT !.captures = @ \cup {s}] ELSE [pg EXCEPT !.gate = s]
    OBVIOUS
  <2>4. new \in Pages /\ new.st = "GENERATING"
    BY <2>2, <2>3 DEF Pages
  <2>5. page' = Counted(new)
    BY <1>4, <2>1, <2>3 DEF handleGo, Keep
  <2>6. QED
    BY <2>4, <2>5, CountedView DEF SameView, Shows
<1>5. ASSUME NEW s \in Sessions, captureAndEmit(s) PROVE Shows(page')
  <2>1. page' = [page EXCEPT !.captures = @ \ {s}, !.gate = s]
    BY <1>5 DEF captureAndEmit
  <2>2. SameView(page, page')
    BY <1>1, <2>1 DEF SameView, Pages
  <2>3. QED
    BY <1>2, <2>2
<1>6. ASSUME NEW v \in 1 .. Variants, selectVariant(v) PROVE Shows(page')
  <2>1. page' = [page EXCEPT !.visible = v, !.checkpoint = TRUE] /\ v \in 1 .. page.arrived
    BY <1>6 DEF selectVariant, Keep
  <2>2. page'.visible = v /\ page'.arrived = page.arrived /\ page.arrived \in Int
    BY <1>1, <2>1, VariantsAssumption DEF Pages
  <2>3. QED
    BY <2>1, <2>2 DEF Shows
<1>7. ASSUME handleAccept PROVE Shows(page')
  <2>1. page' = [page EXCEPT !.st = "SAVING", !.pending = page.sess]
    BY <1>7 DEF handleAccept, Keep
  <2>2. page'.st = "SAVING"
    BY <1>1, <2>1 DEF Pages
  <2>3. QED
    BY <2>2 DEF Shows
<1>8. ASSUME NEW a \in answers, CreationAnswered(a) PROVE Shows(page')
  <2>1. PICK gate : gate = IF page.gate = a.sess THEN None ELSE page.gate
    OBVIOUS
  <2>2. page' = [page EXCEPT !.gate = gate]
    BY <1>1, <1>8, <2>1 DEF CreationAnswered
  <2>3. SameView(page, page')
    BY <1>1, <2>2 DEF SameView, Pages
  <2>4. QED
    BY <1>2, <2>3
<1>9. ASSUME NEW a \in answers, CheckpointRefused(a) \/ DiscardAnswered(a) PROVE Shows(page')
  BY <1>1, <1>9, CleanupShows DEF CheckpointRefused, DiscardAnswered, Finish
<1>10. ASSUME NEW a \in answers, AcceptAnsweredToPage(a) PROVE Shows(page')
  <2>1. a.sess \in Sessions
    BY DEF PageInv, Replies
  <2>2. PICK pending \in Sessions \cup {None} : pending = IF page.pending = a.sess THEN None ELSE page.pending
    BY <1>1 DEF Pages
  <2>3. PICK kept : kept = [page EXCEPT !.st = "CYCLING", !.pending = pending]
    OBVIOUS
  <2>4. kept \in Pages
    BY <1>1, <2>2, <2>3 DEF Pages, States
  <2>5. PICK pg : pg = [page EXCEPT !.awaiting = a.sess]
    OBVIOUS
  <2>6. pg \in Pages
    BY <1>1, <2>1, <2>5 DEF Pages
  <2>7. page' = cleanupAcceptedSession(pg) \/ page' = page \/ ensureCyclingRenderable(kept)
    BY <1>1, <1>10, <2>2, <2>3, <2>5 DEF AcceptAnsweredToPage, Finish
  <2>8. QED
    BY <2>4, <2>6, <2>7, CleanupShows, RenderableShows
<1>11. ASSUME CheckpointTimer PROVE Shows(page')
  <2>1. PICK pg : pg = [page EXCEPT !.checkpoint = FALSE]
    OBVIOUS
  <2>2. pg \in Pages /\ SameView(page, pg)
    BY <1>1, <2>1 DEF Pages, SameView
  <2>3. page' = pg \/ page' = Counted(pg)
    BY <1>11, <2>1 DEF CheckpointTimer
  <2>4. QED
    BY <1>2, <2>2, <2>3, CountedView DEF SameView
<1>12. ASSUME Update PROVE Shows(page')
  <2>1. page.sess \in Sessions
    BY <1>1, <1>12 DEF Pages, Update
  <2>2. PICK n : n = Rendered(page.sess)
    OBVIOUS
  <2>3. n \in 1 .. Variants
    <3>1. n \in Int /\ n <= Variants
      BY <2>1, <2>2, RenderedRange
    <3>2. n > page.arrived /\ page.arrived \in 0 .. Variants
      BY <1>1, <1>12, <2>2 DEF Update, Pages
    <3>3. QED
      BY <3>1, <3>2, VariantsAssumption
  <2>4. PICK v : v = IF page.visible = 0 THEN Shown(page.sess, n, 0) ELSE page.visible
    OBVIOUS
  <2>5. v \in 0 .. Variants
    <3>1. page.visible \in 0 .. Variants
      BY <1>1 DEF Pages
    <3>2. Shown(page.sess, n, 0) \in 0 .. Variants
      BY <2>3, VariantsAssumption, ShownTyped
    <3>3. QED
      BY <2>4, <3>1, <3>2
  <2>6. PICK pg : pg = [page EXCEPT !.arrived = n, !.st = "CYCLING", !.visible = v]
    OBVIOUS
  <2>7. pg \in Pages /\ pg.arrived = n
    <3>1. n \in 0 .. Variants
      BY <2>3, VariantsAssumption
    <3>2. QED
      BY ONLY <1>1, <2>5, <2>6, <3>1 DEF Pages, States
  <2>8. page' = Counted(Repaired(pg))
    BY <1>12, <2>2, <2>4, <2>6 DEF Update, KeepAndSend, Keep
  <2>9. Repaired(pg) \in Pages /\ Repaired(pg).arrived > 0 /\ Repaired(pg).visible \in 1 .. Repaired(pg).arrived
    BY <2>3, <2>7, VariantsAssumption, RepairedTyped
  <2>10. QED
    BY <2>8, <2>9, CountedView DEF SameView, Shows
<1>13. ASSUME Connect PROVE Shows(page')
  <2>1. PICK file : file = (page.file \/ Missed(page) # {})
    OBVIOUS
  <2>2. PICK known : known = [page EXCEPT !.file = file]
    OBVIOUS
  <2>3. SameView(page, known)
    BY <1>1, <2>2 DEF SameView, Pages
  <2>4. page' = known \/ \E local, server : page' = Restored(page, local, server)
    BY <1>13, <2>1, <2>2 DEF Connect, Keep
  <2>5. QED
    BY <1>1, <1>2, <2>3, <2>4, RestoredShows DEF Shows
<1>14. CASE UNCHANGED vars
  BY <1>3, <1>14 DEF vars, pageVars
<1>15. CASE ServerSteps /\ UNCHANGED pageVars
  BY <1>3, <1>15 DEF pageVars
<1>16. CASE UserSteps
  BY <1>3, <1>4, <1>6, <1>7, <1>16 DEF UserSteps, handleDiscard
<1>17. CASE PageSteps
  BY <1>3, <1>5, <1>8, <1>9, <1>10, <1>11, <1>12, <1>13, <1>17, ReadShows, StreamShows, ReloadShows
     DEF PageSteps, Deliver, Lose, Drop, ServerCrash, pageVars
<1>18. QED
  BY <1>14, <1>15, <1>16, <1>17 DEF Next

-----------------------------------------------------------------------------
(* The theorems                                                            *)

LiveInv == ServerInv /\ PageInv /\ CreatedOnce /\ GenerateInv /\ DecidedInv /\ ChoiceInv /\ CopiesInv

LEMMA InitLive ==
  ASSUME Init PROVE LiveInv
<1>1. ServerInv /\ PageInv
  BY InitTypes
<1>2. /\ posts = {} /\ started = {} /\ clicks = 0 /\ page.captures = {}
      /\ up = TRUE /\ queue = <<>> /\ preparing = {} /\ faults = 0
      /\ snap = [s \in Sessions |-> baseSnapshot] /\ agent = [w \in Workers |-> Idle]
      /\ receipt = [s \in Sessions |-> NoReceipt]
      /\ source = [s \in Sessions |-> [st |-> "plain", n |-> 0, kept |-> 0, late |-> FALSE]]
  BY FreshPageTyped DEF Init, ServerInit
<1>3. 1 .. Len(queue) = {}
  BY <1>2
<1>4. \A s \in Sessions : /\ ~snap[s].exists /\ ~snap[s].ready /\ snap[s].pending = "none"
                          /\ source[s].st = "plain" /\ receipt[s] = NoReceipt
  BY <1>2 DEF baseSnapshot
<1>5. \A w \in Workers : agent[w].st = "idle" /\ agent[w].sess = None /\ agent[w].type = "none"
  BY <1>2, IdleTyped
<1>6. CreatedOnce
  BY <1>2 DEF CreatedOnce
<1>7. GenerateInv
  <2>1. Fresh \subseteq Sessions /\ None \notin Sessions
    BY ServerAssumption DEF Fresh
  <2>2. OneGenerate(queue) /\ OnePreparation(queue, preparing)
    BY <1>2, <1>3 DEF OneGenerate, OnePreparation
  <2>3. ReadyKnown(queue, preparing, agent, snap)
    BY <1>2, <1>3, <1>5 DEF ReadyKnown
  <2>4. Unknown(Fresh, queue, preparing, agent, snap)
    BY <1>2, <1>3, <1>4, <1>5, <2>1 DEF Unknown
  <2>5. QED
    BY <2>2, <2>3, <2>4 DEF GenerateInv, Way
<1>8. DecidedInv
  BY <1>4, <1>5 DEF DecidedInv, Undecided
<1>9. ChoiceInv
  <2>1. NoAccept(queue, agent, snap, source) /\ OneChoice(queue, agent, snap, source) /\ NoAcceptSent(posts)
    BY <1>2, <1>3, <1>4, <1>5 DEF NoAccept, OneChoice, NoAcceptSent
  <2>2. QED
    BY <1>2, <2>1 DEF ChoiceInv
<1>10. CopiesInv
  <2>1. ASSUME NEW s \in Sessions PROVE Cardinality(Working(agent, s)) = 0
    <3>1. Working(agent, s) = {}
      BY <1>5 DEF Working
    <3>2. QED
      BY <3>1, FS_EmptySet
  <2>2. QED
    BY <1>2, <2>1 DEF CopiesInv, Copies
<1>11. QED
  BY <1>1, <1>6, <1>7, <1>8, <1>9, <1>10 DEF LiveInv

LEMMA LiveStep ==
  ASSUME LiveInv, [Next]_vars
  PROVE  LiveInv' /\ KeepsReceipts
<1>1. ServerInv /\ PageInv /\ CreatedOnce /\ GenerateInv /\ DecidedInv /\ ChoiceInv /\ CopiesInv
  BY DEF LiveInv
<1>2. ServerInv' /\ PageInv' /\ Kinds
  BY <1>1, NextKinds, StutterTypes DEF Kinds
<1>3. CreatedOnce'
  BY <1>1, <1>2, CreatedOnceStep
<1>4. GenerateInv'
  BY <1>1, <1>2, GenerateStep
<1>5. DecidedInv' /\ KeepsReceipts
  BY <1>1, <1>2, DecidedStep
<1>6. ChoiceInv'
  BY <1>1, <1>2, ChoiceStep
<1>7. CopiesInv'
  BY <1>1, <1>2, CopiesStep
<1>8. QED
  BY <1>2, <1>3, <1>4, <1>5, <1>6, <1>7 DEF LiveInv

LEMMA LiveInvariant == Spec => []LiveInv
<1>1. Init => LiveInv
  BY InitLive
<1>2. LiveInv /\ [Next]_vars => LiveInv'
  BY LiveStep
<1>3. QED
  BY <1>1, <1>2, PTL DEF Spec

(* A generate is in the hands of one agent, although its delivery waits    *)
(* for the scaffolding, and each further copy is paid for by a fault       *)
(* (leaseEvent, restorePendingEventsFromStore).                            *)
THEOREM GenerateHandedOutOnce == Spec => []HandedOutOnce
<1>1. ASSUME LiveInv PROVE HandedOutOnce
  <2>1. ServerInv /\ CopiesInv
    BY <1>1 DEF LiveInv
  <2>2. faults \in Int
    BY <2>1, ServerAssumption DEF ServerInv, ServerTypeOK
  <2>3. ASSUME NEW s \in Sessions PROVE Cardinality(Working(agent, s)) <= 1 + faults
    <3>1. CASE up
      BY <2>1, <3>1 DEF CopiesInv, Copies
    <3>2. CASE ~up
      <4>1. Cardinality(Working(agent, s)) <= faults
        BY <2>1, <3>2 DEF CopiesInv, Copies
      <4>2. Cardinality(Working(agent, s)) \in Nat
        BY WorkingFinite
      <4>3. QED
        BY <2>2, <4>1, <4>2
    <3>3. QED
      BY <3>1, <3>2
  <2>4. QED
    BY <2>3 DEF HandedOutOnce, Working
<1>2. LiveInv => HandedOutOnce
  BY <1>1
<1>3. QED
  BY <1>2, LiveInvariant, PTL

(* What an accept left in the source is the variant the journal says the   *)
(* user chose (live-accept, applyEvent, restorePendingEventsFromStore).    *)
THEOREM AcceptedAlwaysChosen == Spec => []AcceptedIsChosen
<1>1. LiveInv => AcceptedIsChosen
  BY DEF LiveInv, ChoiceInv, OneChoice, Chosen, AcceptedIsChosen
<1>2. QED
  BY <1>1, LiveInvariant, PTL

(* Once live-accept has written its receipt neither the receipt nor the    *)
(* source of the session changes again, whoever else is handed the         *)
(* decision, up to a publication of the generation after it.               *)
THEOREM DecisionAppliedOnce == Spec => AppliedOnce
<1>1. LiveInv /\ [Next]_vars =>
        [\A s \in Sessions : receipt[s] # NoReceipt /\ ~source'[s].late => UNCHANGED <<receipt[s], source[s]>>]_vars
  BY LiveStep DEF KeepsReceipts
<1>2. QED
  BY <1>1, LiveInvariant, PTL DEF Spec, AppliedOnce

(* The comparison of a session is never empty and shows one of its         *)
(* variants, with any number of sessions and late reads of any of them     *)
(* (ensureCyclingRenderable, injectVariantsFromSource, resumeSession).     *)
THEOREM CyclingAlwaysHasVariants == Spec => []CyclingHasVariants
<1>1. Init => ServerInv /\ PageInv /\ Shows(page)
  <2>1. FreshPage.st = "PICKING"
    BY DEF FreshPage
  <2>2. QED
    BY <2>1, InitTypes DEF Init, Shows
<1>2. Shows(page) /\ ServerInv /\ PageInv /\ [Next]_vars => Shows(page)'
  BY CyclingStep
<1>3. Shows(page) => CyclingHasVariants
  BY DEF Shows, CyclingHasVariants
<1>4. QED
  BY <1>1, <1>2, <1>3, LiveTypesInvariant, PTL DEF Spec

(* With any number of sessions and agents, a poll parked beside an event   *)
(* keeps its timer except when a generate is retired or the scaffolding of *)
(* a retired one ends (flushPendingPolls, scheduleLeaseFlush).             *)
THEOREM WakeupsKept == Spec => NoLostWakeup
<1>1. ServerInv /\ PageInv /\ [Next]_vars =>
        [Watched /\ ~Watched' =>
            \/ \E s \in Sessions : queue' # queue /\ queue' = retirePendingGeneration(queue, s)
            \/ \E p \in preparing \ preparing' : ~Queued(queue, p.sess, {"generate"})]_serverVars
  BY StepWatches DEF KeepsWatch
<1>2. QED
  BY <1>1, LiveTypesInvariant, PTL DEF Spec, NoLostWakeup
=============================================================================
