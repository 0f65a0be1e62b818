---------------------------- MODULE ThreadProofs ----------------------------
(***************************************************************************)
(* The thread adapter, for any turns, inputs, entries, agents and bounds,  *)
(* and whatever a behaviour may have of calls, failures and restarts: an   *)
(* item that was kept is not lost and is taken in order, the chunks of a   *)
(* turn have no gap and its seal counts them, a response ends once, and    *)
(* the waits of callers are woken and told the truth.  Before it, the      *)
(* stream handle of the client: it numbers its chunks without a gap, seals *)
(* what the bus has and sends no chunk after a closing that Threads took.  *)
(***************************************************************************)
EXTENDS ThreadStream, ThreadQueue, FiniteSetTheorems, WellFoundedInduction, TLAPS

-----------------------------------------------------------------------------
(* The stream handle                                                       *)

\* While the gate is held the handle is whole, and there is the chunk on its way.
GateHeld == sending => ~handleBroken /\ Len(chunks) # 0

\* A chunk whose send was not given up is on the bus, once the gate is free.
AllOnBus == ~sending /\ ~handleBroken => \A n \in 0..(Len(chunks) - 1) : n \in bus

\* A closing that Threads took or may take was made after the last chunk.
Standing == {"Waiting", "Lost", "Confirmed"}
NoChunkSince ==
  /\ \A c \in Closings : closings[c] \in Standing => at[c] = Len(chunks)
  /\ \A c \in took : closings[c] \in Standing

StreamInv == StreamTypeOK /\ GateHeld /\ NoGap /\ AllOnBus /\ SealOnBus /\ NoChunkSince

\* A new handle (Core::new).
LEMMA InitStream == StreamInit => StreamInv
<1> SUFFICES ASSUME StreamInit PROVE StreamInv
  OBVIOUS
<1>1. Len(chunks) = 0
  BY DEF StreamInit
<1>2. StreamTypeOK
  <2>1. chunks \in Seq(Bodies)
    BY DEF StreamInit
  <2>2. seal \in [Closings -> Int] /\ at \in [Closings -> Nat]
    BY DEF StreamInit, Unsealed
  <2>3. bus \subseteq 0..(Len(chunks) - 1) /\ adrift \subseteq 0..(Len(chunks) - 1)
    BY DEF StreamInit
  <2> QED BY <2>1, <2>2, <2>3 DEF StreamInit, StreamTypeOK
<1>3. GateHeld /\ NoGap /\ AllOnBus
  BY <1>1 DEF StreamInit, GateHeld, NoGap, AllOnBus
<1>4. SealOnBus
  BY DEF StreamInit, SealOnBus, Unsealed
<1>5. NoChunkSince
  BY DEF StreamInit, NoChunkSince, Standing
<1> QED BY <1>2, <1>3, <1>4, <1>5 DEF StreamInv

\* A chunk is pushed only on a handle whose earlier chunks are on the bus and whose
\* closings were all refused (Core::push).
LEMMA PushStream ==
  ASSUME StreamInv, NEW body \in Bodies, push(body)
  PROVE  StreamInv'
<1>1. /\ Len(chunks') = Len(chunks) + 1 /\ Len(chunks) \in Nat
      /\ chunks' \in Seq(Bodies)
  BY DEF StreamInv, StreamTypeOK, push
<1>2. StreamTypeOK'
  BY <1>1 DEF StreamInv, StreamTypeOK, push
<1>3. GateHeld'
  BY <1>1 DEF GateHeld, push, judge_chunk
<1>4. NoGap'
  BY <1>1 DEF StreamInv, AllOnBus, NoGap, push, judge_chunk
<1>5. AllOnBus'
  BY DEF push, AllOnBus
<1>6. SealOnBus'
  BY DEF StreamInv, SealOnBus, push
<1>7. NoChunkSince'
  <2>1. \A c \in Closings : closings[c] \notin Standing
    BY DEF push, judge_chunk, Held, Standing
  <2>2. took = {}
    BY <2>1 DEF StreamInv, NoChunkSince, StreamTypeOK
  <2> QED BY <2>1, <2>2 DEF push, NoChunkSince
<1> QED BY <1>2, <1>3, <1>4, <1>5, <1>6, <1>7 DEF StreamInv

\* The end of a send, good or bad (Core::push, BreakOnDrop), and a late arrival.
LEMMA BusStream ==
  ASSUME StreamInv, Published \/ PushBreaks \/ BusTakesLate
  PROVE  StreamInv'
<1>0. Len(chunks) \in Nat
  BY DEF StreamInv, StreamTypeOK
<1>1. CASE Published
  <2>1. Number \in 0..(Len(chunks) - 1) /\ bus' = bus \cup {Number} /\ chunks' = chunks
    BY <1>0, <1>1 DEF StreamInv, GateHeld, Published, Number
  <2>2. StreamTypeOK'
    BY <1>1, <2>1 DEF StreamInv, StreamTypeOK, Published
  <2>3. AllOnBus'
    <3>1. \A n \in 0..(Len(chunks) - 1) : n \in 0..(Len(chunks) - 2) \/ n = Number
      BY <1>0 DEF Number
    <3> QED BY <2>1, <3>1 DEF StreamInv, NoGap, AllOnBus
  <2>4. GateHeld' /\ NoGap' /\ SealOnBus' /\ NoChunkSince'
    BY <1>1, <2>1 DEF StreamInv, GateHeld, NoGap, SealOnBus, NoChunkSince, Published
  <2> QED BY <2>2, <2>3, <2>4 DEF StreamInv
<1>2. CASE PushBreaks
  <2>1. Number \in 0..(Len(chunks) - 1)
    BY <1>0, <1>2 DEF StreamInv, GateHeld, PushBreaks, Number
  <2>2. StreamTypeOK'
    BY <1>2, <2>1 DEF StreamInv, StreamTypeOK, PushBreaks
  <2>3. GateHeld' /\ NoGap' /\ AllOnBus' /\ SealOnBus' /\ NoChunkSince'
    BY <1>2 DEF StreamInv, GateHeld, NoGap, AllOnBus, SealOnBus, NoChunkSince, PushBreaks
  <2> QED BY <2>2, <2>3 DEF StreamInv
<1>3. CASE BusTakesLate
  <2>1. StreamTypeOK'
    BY <1>3 DEF StreamInv, StreamTypeOK, BusTakesLate
  <2>2. GateHeld' /\ NoGap' /\ AllOnBus' /\ SealOnBus' /\ NoChunkSince'
    BY <1>3 DEF StreamInv, GateHeld, NoGap, AllOnBus, SealOnBus, NoChunkSince, BusTakesLate
  <2> QED BY <2>1, <2>2 DEF StreamInv
<1> QED BY <1>1, <1>2, <1>3

\* A closing is sealed only over chunks that are all on the bus (close_message).
LEMMA CloseStream ==
  ASSUME StreamInv, NEW c \in Closings, NEW completed \in BOOLEAN, close_message(c, completed)
  PROVE  StreamInv'
<1>0. Len(chunks) \in Nat
  BY DEF StreamInv, StreamTypeOK
<1>1. StreamTypeOK' /\ GateHeld' /\ NoGap' /\ AllOnBus'
  <2>1. seal' \in [Closings -> Int]
    BY <1>0 DEF StreamInv, StreamTypeOK, close_message, Unsealed
  <2>2. /\ at' \in [Closings -> Nat]
        /\ closings' \in [Closings -> {"none", "Waiting", "Refused", "Lost", "Confirmed", "gone"}]
    BY <1>0 DEF StreamInv, StreamTypeOK, close_message
  <2>3. StreamTypeOK'
    BY <2>1, <2>2 DEF StreamInv, StreamTypeOK, close_message, chunkVars
  <2>4. GateHeld' /\ NoGap' /\ AllOnBus'
    BY DEF StreamInv, GateHeld, NoGap, AllOnBus, close_message, chunkVars
  <2> QED BY <2>3, <2>4
<1>2. SealOnBus'
  <2>1. seal'[c] = Unsealed \/ (seal'[c] = Len(chunks) /\ ~handleBroken)
    BY DEF StreamInv, StreamTypeOK, close_message, judge_closing, healthy
  <2>2. \A d \in Closings \ {c} : seal'[d] = seal[d]
    BY DEF StreamInv, StreamTypeOK, close_message
  <2>3. \A n \in 0..(seal'[c] - 1) : n \in bus
    BY <1>0, <2>1 DEF StreamInv, AllOnBus, close_message, Unsealed
  <2> QED BY <2>2, <2>3 DEF StreamInv, SealOnBus, close_message, chunkVars
<1>3. NoChunkSince'
  BY <1>0 DEF StreamInv, StreamTypeOK, NoChunkSince, Standing, close_message, chunkVars
<1> QED BY <1>1, <1>2, <1>3 DEF StreamInv

\* The outcome of a closing, its loss and its arrival at Threads (ClosingGuard).
LEMMA OutcomeStream ==
  ASSUME StreamInv, NEW c \in Closings,
         \/ ClosingConfirmed(c) \/ ClosingUnsent(c) \/ ClosingRefused(c) \/ ClosingLost(c)
         \/ ThreadsTakes(c)
  PROVE  StreamInv'
<1>1. UNCHANGED <<chunkVars, seal, at>>
  BY DEF ClosingConfirmed, ClosingUnsent, ClosingRefused, ClosingLost, ThreadsTakes, settle
<1>2. GateHeld' /\ NoGap' /\ AllOnBus' /\ SealOnBus'
  BY <1>1 DEF StreamInv, GateHeld, NoGap, AllOnBus, SealOnBus, chunkVars
<1>3. StreamTypeOK'
  BY <1>1 DEF StreamInv, StreamTypeOK, chunkVars, ClosingConfirmed, ClosingUnsent, ClosingRefused,
              ClosingLost, ThreadsTakes, settle
<1>4. NoChunkSince'
  BY <1>1 DEF StreamInv, StreamTypeOK, NoChunkSince, Standing, chunkVars, ClosingConfirmed,
              ClosingUnsent, ClosingRefused, ClosingLost, ThreadsTakes, settle
<1> QED BY <1>2, <1>3, <1>4 DEF StreamInv

\* Every step of the handle, of the bus and of Threads keeps the invariant.
LEMMA NextStream == StreamInv /\ [StreamNext]_streamVars => StreamInv'
<1> SUFFICES ASSUME StreamInv, [StreamNext]_streamVars PROVE StreamInv'
  OBVIOUS
<1>1. CASE \E body \in Bodies : push(body)
  BY <1>1, PushStream
<1>2. CASE Published \/ PushBreaks \/ BusTakesLate
  BY <1>2, BusStream
<1>3. CASE \E c \in Closings : \E completed \in BOOLEAN : close_message(c, completed)
  BY <1>3, CloseStream
<1>4. CASE \E c \in Closings :
             \/ ClosingConfirmed(c) \/ ClosingUnsent(c) \/ ClosingRefused(c) \/ ClosingLost(c)
             \/ ThreadsTakes(c)
  BY <1>4, OutcomeStream
<1>5. CASE UNCHANGED streamVars
  BY <1>5 DEF streamVars, StreamInv, StreamTypeOK, GateHeld, NoGap, AllOnBus, SealOnBus, NoChunkSince
<1> QED BY <1>1, <1>2, <1>3, <1>4, <1>5 DEF StreamNext

\* The inductive invariant of the handle holds in every state.
THEOREM StreamInvariant == StreamSpec => []StreamInv
  BY InitStream, NextStream, PTL DEF StreamSpec

\* The handle keeps its types, and the bus knows no number that has no chunk.
THEOREM StreamTypes == StreamSpec => []StreamTypeOK
<1>1. StreamInv => StreamTypeOK
  BY DEF StreamInv
<1> QED BY <1>1, StreamInvariant, PTL

\* The chunks have no gap on the bus, however many tasks push, are dropped or fail.
THEOREM ChunksWhole == StreamSpec => []NoGap
<1>1. StreamInv => NoGap
  BY DEF StreamInv
<1> QED BY <1>1, StreamInvariant, PTL

\* A seal counts only what the bus has.
THEOREM Sealed == StreamSpec => []SealOnBus
<1>1. StreamInv => SealOnBus
  BY DEF StreamInv
<1> QED BY <1>1, StreamInvariant, PTL

\* No chunk follows a closing that Threads took, its outcome lost or not.
THEOREM ClosingLast == StreamSpec => []LastWord
<1>1. StreamInv => LastWord
  BY DEF StreamInv, StreamTypeOK, NoChunkSince, LastWord
<1> QED BY <1>1, StreamInvariant, PTL

-----------------------------------------------------------------------------
(* The queue of a thread: what holds of it                                 *)

\* A sequence of item numbers in the order in which the items were made.
Ascends(s) == \A j, k \in DOMAIN s : j < k => s[j] < s[k]

\* The store and the queue keep the order of acceptance, and an item that waits in
\* neither place of the queue was made after everything the queue has seen.
LineInv ==
  /\ Ascends(store) /\ Ascends(queue.ids)
  /\ \A i \in DOMAIN items : ~HasEnded(i) /\ i \notin ToSet(queue.ids)
       => queue.last < i /\ \A k \in DOMAIN queue.ids : queue.ids[k] < i

\* The delivery task works on the head of the queue; what it removes has ended.
WorkerInv ==
  /\ worker.at \in {"trying", "pause", "ending"} => queue.ids # <<>> /\ H = Head(queue.ids)
  /\ worker.at = "removing" => H # 0 /\ HasEnded(H)

\* The item that is in the store and not yet in the queue.
FlightInv ==
  op.at = "enqueue" =>
    /\ Len(items) # 0 /\ items[Len(items)] = op.item
    /\ ~HasEnded(Len(items)) /\ Len(items) \notin ToSet(queue.ids)

\* Without a restart, what has ended was made before all that waits.
EndedFirst ==
  past.crashes = 0 => \A i \in DOMAIN items : HasEnded(i) => \A k \in DOMAIN queue.ids : i < queue.ids[k]

\* A call of instance_ended: the items of before its call were queued before its target,
\* and have ended when it is about to return.
OnEnd == wait.what \notin {"entry", "read"}
WaitInv ==
  /\ wait.at = "asks" => wait.since <= queue.last
  /\ wait.at = "asks" /\ ~wait.holds => \A i \in 1..wait.since : Message(i) \in OfAgent(wait.agent) => HasEnded(i)
  /\ wait.at \in {"look", "parked"} /\ OnEnd => wait.since <= wait.target /\ wait.target <= queue.last
  /\ wait.at = "purge" => wait.since <= Len(items) /\ \A i \in 1..wait.since : HasEnded(i)
  /\ (wait.at \in {"asks", "purge"} \/ (wait.at \in {"look", "parked"} /\ OnEnd))
       => wait.agent \in Agents /\ OfAgent(wait.agent) \cap Turns \subseteq past.gone

\* What an operation is about, by its job.
Known(o) ==
  /\ o.job = "input" => o.turn \in Inputs
  /\ o.job \in Jobs \ {"input", "send"} => o.turn \in Turns
  /\ o.job \in {"entry", "annotation", "open", "discard", "complete"} => o.entry \in Entries
  /\ o.job = "send" => o.sink # 0
  /\ o.job # "none"

\* The items that the queue and the memory of the thread both know.
Landed == IF op.at = "enqueue" THEN Len(items) - 1 ELSE Len(items)
ChunksOf(t, n) == {i \in 1..n : items[i].kind = "Chunk" /\ Message(i) = t}
NoItemOf(t, n) == \A i \in 1..n : Message(i) # t

\* The item of an operation fits what the thread remembers of its turn and its response.
FitsItem(item, turn, job, sink, left) ==
  LET m == item.message IN
  /\ item \in ItemType
  /\ item.kind = "WholeMessage" => m \in Inputs
  /\ item.kind = "Opening" => m = turn /\ m \in Turns /\ turns[m].at = "none" /\ NoItemOf(m, Landed)
  /\ item.kind = "Opening" => job \in {"entry", "result", "open", "complete"}
  /\ item.kind = "Chunk" => m \in Turns /\ turns[m].at = "open" /\ item.seq = Len(turns[m].chunks)
  /\ item.kind = "Closing" => m \in Turns /\ turns[m].at # "closed" /\ job = "close"
  /\ item.kind = "Closing" /\ item.seal # NoSeal => turns[m].at = "open" /\ item.seal = Len(turns[m].chunks)
  /\ item.sink # 0 => item.sink = sink /\ item.sink \in DOMAIN sinks /\ ~sinks[item.sink].done /\ item.kind = "Chunk"
  /\ item.sink # 0 /\ item.body = "end" => job # "send" /\ ~(job = "complete" /\ left > 1)
Fits(o) == FitsItem(o.item, o.turn, o.job, o.sink, o.left)

\* An operation knows what it is about; its turn is open unless it opens it.
OpInv ==
  /\ op.at # "none" => Known(op)
  /\ op.at \in {"ready", "more"} => op.item.kind # "Opening"
  /\ op.at # "none" /\ NeedsTurn(op) /\ op.item.kind # "Opening" => turns[op.turn].at = "open"
  /\ op.at \in {"append", "stopped", "enqueue"} => Fits(op)

\* What the thread remembers of a turn is what was kept of it; a turn that it does not
\* know has no items, or the instance that wrote it is gone.
TurnInv ==
  \A t \in Turns :
    /\ turns[t].at = "open" =>
         /\ Len(turns[t].chunks) = Cardinality(ChunksOf(t, Landed))
         /\ \A i \in 1..Landed : items[i].kind = "Closing" => Message(i) # t
    /\ turns[t].at = "none" => turns[t].chunks = <<>> /\ (t \in past.gone \/ NoItemOf(t, Landed))

\* A response whose end was kept is done.
SinkInv ==
  \A i \in 1..Landed : items[i].sink # 0 /\ items[i].body = "end"
    => items[i].sink \in DOMAIN sinks /\ sinks[items[i].sink].done

-----------------------------------------------------------------------------
(* Sequences of item numbers                                               *)

\* An item that is made after all of them goes to the end.
LEMMA AppendLine ==
  ASSUME NEW s \in Seq(Nat), NEW i \in Nat, Ascends(s), \A k \in DOMAIN s : s[k] < i
  PROVE  Ascends(Append(s, i)) /\ ToSet(Append(s, i)) = ToSet(s) \cup {i}
<1> DEFINE n == Len(s)
           r == Append(s, i)
<1>1. n \in Nat /\ DOMAIN s = 1..n /\ DOMAIN r = 1..(n + 1) /\ r[n + 1] = i
  OBVIOUS
<1>2. \A k \in 1..n : r[k] = s[k] /\ s[k] \in Nat
  OBVIOUS
<1> HIDE DEF n, r
<1>3. Ascends(r)
  <2> SUFFICES ASSUME NEW j \in DOMAIN r, NEW k \in DOMAIN r, j < k PROVE r[j] < r[k]
    BY DEF Ascends
  <2>1. j \in 1..n
    BY <1>1
  <2>2. CASE k \in 1..n
    BY <1>1, <1>2, <2>1, <2>2 DEF Ascends
  <2>3. CASE k = n + 1
    BY <1>1, <1>2, <2>1, <2>3
  <2> QED BY <1>1, <2>2, <2>3
<1>4. ToSet(r) = ToSet(s) \cup {i}
  <2>1. ASSUME NEW x \in ToSet(r) PROVE x \in ToSet(s) \cup {i}
    <3>1. PICK k \in 1..(n + 1) : r[k] = x
      BY <1>1, <2>1 DEF ToSet
    <3> QED BY <1>1, <1>2, <3>1 DEF ToSet
  <2>2. ASSUME NEW x \in ToSet(s) PROVE x \in ToSet(r)
    <3>1. PICK k \in 1..n : s[k] = x
      BY <1>1 DEF ToSet
    <3> QED BY <1>1, <1>2, <3>1 DEF ToSet
  <2>3. i \in ToSet(r)
    BY <1>1 DEF ToSet
  <2> QED BY <2>1, <2>2, <2>3
<1> QED BY <1>3, <1>4 DEF r

\* The first item leaves: the others are behind it.
LEMMA TailLine ==
  ASSUME NEW s \in Seq(Nat), s # <<>>, Ascends(s)
  PROVE  /\ Ascends(Tail(s)) /\ ToSet(s) = ToSet(Tail(s)) \cup {Head(s)}
         /\ \A k \in DOMAIN Tail(s) : Head(s) < Tail(s)[k]
         /\ \A i \in ToSet(s) : Head(s) <= i
<1> DEFINE n == Len(s)
           r == Tail(s)
<1>1. n \in Nat /\ n # 0 /\ DOMAIN s = 1..n /\ DOMAIN r = 1..(n - 1) /\ Head(s) = s[1]
  OBVIOUS
<1>2. (\A k \in 1..(n - 1) : r[k] = s[k + 1]) /\ \A k \in 1..n : s[k] \in Nat
  OBVIOUS
<1>3. Tail(s) = r /\ s[1] \in Nat
  BY <1>1, <1>2
<1> HIDE DEF n, r
<1>4. Ascends(r)
  <2> SUFFICES ASSUME NEW j \in DOMAIN r, NEW k \in DOMAIN r, j < k PROVE r[j] < r[k]
    BY DEF Ascends
  <2>1. j + 1 \in 1..n /\ k + 1 \in 1..n /\ j + 1 < k + 1
    BY <1>1
  <2> QED BY <1>1, <1>2, <2>1 DEF Ascends
<1>5. \A k \in 2..n : s[1] < s[k]
  BY <1>1 DEF Ascends
<1>6. \A k \in DOMAIN r : s[1] < r[k]
  <2> SUFFICES ASSUME NEW k \in DOMAIN r PROVE s[1] < r[k]
    OBVIOUS
  <2>1. k \in 1..(n - 1) /\ k + 1 \in 2..n
    BY <1>1
  <2> QED BY <1>2, <1>5, <2>1
<1>7. \A i \in ToSet(s) : s[1] <= i
  <2> SUFFICES ASSUME NEW k \in 1..n PROVE s[1] <= s[k]
    BY <1>1 DEF ToSet
  <2>1. CASE k = 1
    BY <1>2, <1>3, <2>1
  <2>2. CASE k \in 2..n
    BY <1>2, <1>3, <1>5, <2>2
  <2> QED BY <2>1, <2>2, <1>1
<1>8. ToSet(s) = ToSet(r) \cup {s[1]}
  <2>1. ASSUME NEW x \in ToSet(s) PROVE x \in ToSet(r) \cup {s[1]}
    <3>1. PICK k \in 1..n : s[k] = x
      BY <1>1 DEF ToSet
    <3>2. CASE k = 1
      BY <3>1, <3>2
    <3>3. CASE k # 1
      <4>1. k - 1 \in 1..(n - 1) /\ (k - 1) + 1 = k
        BY <1>1, <3>3
      <4>2. r[k - 1] = x
        BY <4>1, <3>1, <1>2
      <4> QED BY <4>1, <4>2, <1>1 DEF ToSet
    <3> QED BY <3>2, <3>3
  <2>2. ASSUME NEW x \in ToSet(r) PROVE x \in ToSet(s)
    <3>1. PICK k \in 1..(n - 1) : r[k] = x
      BY <1>1 DEF ToSet
    <3>2. k + 1 \in 1..n /\ s[k + 1] = x
      BY <1>1, <1>2, <3>1
    <3> QED BY <1>1, <3>2 DEF ToSet
  <2>3. s[1] \in ToSet(s)
    BY <1>1 DEF ToSet
  <2> QED BY <2>1, <2>2, <2>3
<1> QED BY <1>1, <1>3, <1>4, <1>6, <1>7, <1>8

\* An item behind the first part of a line that is put together of two (RemoveAt).
LEMMA BehindFirst ==
  ASSUME NEW D, NEW a \in Seq(D), NEW b \in Seq(D), NEW j \in Nat,
         j > Len(a), j <= Len(a) + Len(b)
  PROVE  (a \o b)[j] = b[j - Len(a)]
<1>1. Len(a) \in Nat /\ Len(b) \in Nat
  OBVIOUS
<1>2. j \in 1..(Len(a) + Len(b)) /\ ~(j <= Len(a))
  BY <1>1
<1> QED BY <1>1, <1>2

\* One item is removed: the others stay, in their order.
LEMMA RemoveLine ==
  ASSUME NEW D, NEW s \in Seq(D), D \subseteq Nat, NEW k \in DOMAIN s, Ascends(s)
  PROVE  /\ RemoveAt(s, k) \in Seq(D) /\ Ascends(RemoveAt(s, k))
         /\ ToSet(s) \ {s[k]} \subseteq ToSet(RemoveAt(s, k))
<1> DEFINE n == Len(s)
           r == RemoveAt(s, k)
           At(j) == IF j < k THEN j ELSE j + 1
<1>1. n \in Nat /\ DOMAIN s = 1..n /\ k \in 1..n /\ k \in Nat /\ \A j \in 1..n : s[j] \in D
  OBVIOUS
<1>2. /\ r \in Seq(D) /\ Len(r) = n - 1 /\ DOMAIN r = 1..(n - 1)
      /\ \A j \in 1..(n - 1) : r[j] = s[At(j)]
  <2> DEFINE a == SubSeq(s, 1, k - 1)
             b == SubSeq(s, k + 1, n)
  <2>1. a \in Seq(D) /\ Len(a) = k - 1 /\ \A j \in 1..(k - 1) : a[j] = s[j]
    BY <1>1
  <2>2. b \in Seq(D) /\ Len(b) = n - k /\ \A j \in 1..(n - k) : b[j] = s[j + k]
    BY <1>1
  <2>3. r = a \o b
    BY DEF RemoveAt
  <2> HIDE DEF a, b, r, n
  <2>4. r \in Seq(D) /\ Len(r) = n - 1
    BY <1>1, <2>1, <2>2, <2>3
  <2>5. ASSUME NEW j \in 1..(n - 1) PROVE r[j] = s[At(j)]
    <3>1. CASE j < k
      BY <1>1, <2>1, <2>2, <2>3, <3>1
    <3>2. CASE ~(j < k)
      <4>1. j - (k - 1) \in 1..(n - k) /\ (j - (k - 1)) + k = j + 1
        BY <1>1, <3>2
      <4>2. j > Len(a) /\ j <= Len(a) + Len(b) /\ j - Len(a) = j - (k - 1)
        BY <1>1, <2>1, <2>2, <3>2
      <4>3. (a \o b)[j] = b[j - Len(a)]
        <5>1. a \in Seq(D) /\ b \in Seq(D) /\ j \in Nat
          BY <1>1, <2>1, <2>2
        <5>2. j > Len(a) /\ j <= Len(a) + Len(b)
          BY <4>2
        <5> HIDE DEF At
        <5> QED BY <5>1, <5>2, BehindFirst
      <4>4. b[j - (k - 1)] = s[j + 1]
        BY <2>2, <4>1
      <4>5. At(j) = j + 1
        BY <3>2
      <4> QED BY <2>3, <4>2, <4>3, <4>4, <4>5
    <3> QED BY <3>1, <3>2
  <2> QED BY <2>4, <2>5
<1>3. RemoveAt(s, k) = r
  OBVIOUS
<1> HIDE DEF n, r
<1>4. Ascends(r)
  <2> SUFFICES ASSUME NEW j \in DOMAIN r, NEW l \in DOMAIN r, j < l PROVE r[j] < r[l]
    BY DEF Ascends
  <2>1. At(j) \in 1..n /\ At(l) \in 1..n /\ At(j) < At(l)
    BY <1>1, <1>2
  <2>2. r[j] = s[At(j)] /\ r[l] = s[At(l)]
    BY <1>2
  <2> HIDE DEF At
  <2> QED BY <1>1, <2>1, <2>2 DEF Ascends
<1>5. ASSUME NEW x \in ToSet(s) \ {s[k]} PROVE x \in ToSet(r)
  <2>1. PICK j \in 1..n : s[j] = x
    BY <1>1 DEF ToSet
  <2>2. j # k
    BY <2>1
  <2>3. CASE j < k
    <3>1. j \in 1..(n - 1) /\ At(j) = j
      BY <1>1, <2>3
    <3>2. r[j] = x
      BY <3>1, <2>1, <1>2
    <3> QED BY <3>1, <3>2, <1>2 DEF ToSet
  <2>4. CASE j > k
    <3>1. j - 1 \in 1..(n - 1) /\ At(j - 1) = j
      BY <1>1, <2>4
    <3>2. r[j - 1] = x
      BY <3>1, <2>1, <1>2
    <3> QED BY <3>1, <3>2, <1>2 DEF ToSet
  <2> QED BY <1>1, <2>2, <2>3, <2>4
<1> QED BY <1>2, <1>3, <1>4, <1>5

\* A set of numbers that has a bound and is not empty has a greatest one.
LEMMA Greatest ==
  ASSUME NEW n \in Nat, NEW S, S \subseteq 0..n, S # {}
  PROVE  \E x \in S : \A y \in S : y <= x
<1> DEFINE R == {ss \in Nat \X Nat : ss[1] < ss[2]}
           T == {m \in Nat : \E y \in S : m = n - y}
<1>1. OpToRel(<, Nat) = R
  BY DEF OpToRel
<1>2. IsWellFoundedOn(R, Nat)
  BY <1>1, NatLessThanWellFounded, Zenon
<1>3. T \subseteq Nat /\ T # {}
  <2>1. PICK y \in S : y \in 0..n
    OBVIOUS
  <2>2. n - y \in Nat
    BY <2>1
  <2>3. n - y \in T
    BY <2>2
  <2> QED BY <2>3
<1>4. PICK z \in T : \A y \in T : ~ (<<y, z>> \in R)
  <2> HIDE DEF R, T
  <2> QED BY <1>2, <1>3, WFMin
<1>5. PICK x \in S : z = n - x
  OBVIOUS
<1>6. ASSUME NEW y \in S PROVE y <= x
  <2>1. n - y \in T /\ n - y \in Nat /\ z \in Nat /\ y \in Nat /\ x \in Nat
    OBVIOUS
  <2>2. CASE n - y < z
    <3>1. <<n - y, z>> \in R
      BY <2>1, <2>2
    <3> QED BY <2>1, <3>1, <1>4
  <2> QED BY <2>1, <2>2, <1>5
<1> QED BY <1>6

-----------------------------------------------------------------------------
(* The operations of the port                                              *)

\* What an operation leaves alone while it decides.
Rest == UNCHANGED <<items, store, queue, wait, worker, past, turns, tip, flagVars>>

\* Responses are opened, and one that is done stays done.
SinksGrow ==
  /\ sinks' \in Seq(SinkType) /\ Len(sinks) <= Len(sinks')
  /\ \A s \in DOMAIN sinks : sinks[s].done => sinks'[s].done

\* The operation o has become p, whose item is to be accepted.
Took(o, p) ==
  /\ p \in OpType /\ p.sink <= Len(sinks) /\ p.at \in {"append", "stopped"}
  /\ p.job = o.job /\ p.turn = o.turn /\ p.entry = o.entry /\ p.left = o.left
  /\ o.job = "send" => p.sink = o.sink
  /\ NeedsTurn(o) /\ p.item.kind # "Opening" => turns[o.turn].at = "open"
  /\ Fits(p)

\* The operation o ends, or has an item to be accepted.
CallStep(o) ==
  /\ Rest
  /\ \/ op' = NoOp /\ SinksGrow /\ held' \in [Entries -> 0..Len(sinks')]
     \/ UNCHANGED <<sinks, held>> /\ Took(o, op')

\* An operation that ends without an item.
LEMMA FailsStep == ASSUME TypeOK, NEW o, Fails PROVE CallStep(o)
<1>1. Rest /\ op' = NoOp /\ sinks' = sinks /\ held' = held
  BY DEF Fails, Ends, Rest, memVars
<1>2. sinks' \in Seq(SinkType) /\ Len(sinks) <= Len(sinks') /\ held' \in [Entries -> 0..Len(sinks')]
  <2>1. Len(sinks) \in Nat
    BY DEF TypeOK, MemOK
  <2> QED BY <1>1, <2>1 DEF TypeOK, MemOK
<1> QED BY <1>1, <1>2 DEF CallStep, SinksGrow

\* An operation whose item is to be accepted (accept in inner.rs).
LEMMA AcceptsStep ==
  ASSUME TypeOK, NEW o \in OpType, NEW q \in OpType, NEW item \in ItemType, Accepts(q, item),
         q.sink <= Len(sinks), q.job = o.job, q.turn = o.turn, q.entry = o.entry, q.left = o.left,
         o.job = "send" => q.sink = o.sink,
         NeedsTurn(o) /\ item.kind # "Opening" => turns[o.turn].at = "open",
         FitsItem(item, q.turn, q.job, q.sink, q.left)
  PROVE  CallStep(o)
<1>1. Rest /\ sinks' = sinks /\ held' = held
  BY DEF Accepts, Rest, memVars
<1>2. PICK place \in {"append", "stopped"} : op' = [q EXCEPT !.at = place, !.item = item]
  BY DEF Accepts
<1>3. /\ op' \in OpType /\ op'.at = place /\ op'.item = item /\ op'.job = q.job /\ op'.turn = q.turn
      /\ op'.entry = q.entry /\ op'.left = q.left /\ op'.sink = q.sink
  BY <1>2 DEF OpType
<1> QED BY <1>1, <1>3 DEF CallStep, Took, Fits

\* The number that the next chunk of a turn gets.
LEMMA TurnTypes ==
  ASSUME TypeOK, NEW t \in Turns
  PROVE  turns[t] \in TurnType /\ Len(turns[t].chunks) \in Nat
<1>1. turns[t] \in TurnType
  BY DEF TypeOK, MemOK
<1>2. turns[t].chunks \in Seq(ItemBodies)
  BY <1>1 DEF TurnType
<1> QED BY <1>1, <1>2

\* A chunk of a turn that is open.
LEMMA ChunkFits ==
  ASSUME TypeOK, NEW t \in Turns, NEW e \in Entries \cup {NoEntry}, NEW body \in ItemBodies,
         NEW s \in Nat, NEW turn, NEW job, NEW sink, NEW left, turns[t].at = "open",
         s # 0 => s = sink /\ s \in DOMAIN sinks /\ ~sinks[s].done,
         s # 0 /\ body = "end" => job # "send" /\ ~(job = "complete" /\ left > 1)
  PROVE  /\ chunk_item(t, e, body, s) \in ItemType /\ chunk_item(t, e, body, s).kind = "Chunk"
         /\ FitsItem(chunk_item(t, e, body, s), turn, job, sink, left)
<1> DEFINE it == chunk_item(t, e, body, s)
<1>1. /\ it.kind = "Chunk" /\ it.message = t /\ it.seq = Len(turns[t].chunks) /\ it.sink = s
      /\ it.body = body /\ it.seal = NoSeal
  BY DEF chunk_item, Item
<1>2. it \in ItemType
  BY TurnTypes DEF chunk_item, Item, ItemType, Kinds, Messages, NoSeal
<1> HIDE DEF it
<1>3. FitsItem(it, turn, job, sink, left)
  BY <1>1, <1>2 DEF FitsItem
<1> QED BY <1>1, <1>2, <1>3 DEF it

\* Two lists of responses, the second of which is later.
Grown(before, after) ==
  /\ after \in Seq(SinkType) /\ Len(after) = Len(before)
  /\ \A s \in DOMAIN before : before[s].done => after[s].done

\* One response is changed.
LEMMA OneSink ==
  ASSUME NEW before \in Seq(SinkType), NEW s \in DOMAIN before, NEW r \in SinkType,
         before[s].done => r.done
  PROVE  Grown(before, [before EXCEPT ![s] = r])
<1>1. [before EXCEPT ![s] = r] \in Seq(SinkType) /\ Len([before EXCEPT ![s] = r]) = Len(before)
  OBVIOUS
<1> QED BY <1>1 DEF Grown

\* A response ends, or keeps a failure (response/control.rs, response/sink.rs).
LEMMA EndedGrown ==
  ASSUME TypeOK, NEW s \in DOMAIN sinks
  PROVE  Grown(sinks, Ended(s)) /\ Ended(s)[s].done
<1>1. sinks \in Seq(SinkType) /\ sinks[s] \in SinkType
  BY DEF TypeOK, MemOK
<1> DEFINE r == [sinks[s] EXCEPT !.done = TRUE]
<1>2. r \in SinkType /\ r.done
  BY <1>1 DEF SinkType
<1>3. Ended(s) = [sinks EXCEPT ![s] = r]
  BY DEF Ended
<1> HIDE DEF r
<1>4. Ended(s)[s] = r
  BY <1>3, <1>1
<1> QED BY <1>1, <1>2, <1>3, <1>4, OneSink

\* The failure is kept by the response alone.
LEMMA KeptGrown ==
  ASSUME NEW all \in Seq(SinkType), NEW s \in DOMAIN all, NEW error \in {"Library", "Closed", "Store"}
  PROVE  Grown(all, Kept(all, s, error))
<1>1. all[s] \in SinkType
  OBVIOUS
<1> DEFINE r == [all[s] EXCEPT !.kept = IF all[s].kept = "none" THEN error ELSE all[s].kept]
<1>2. r \in SinkType /\ r.done = all[s].done
  BY <1>1 DEF SinkType
<1>3. Kept(all, s, error) = [all EXCEPT ![s] = r]
  BY DEF Kept
<1> HIDE DEF r
<1> QED BY <1>2, <1>3, OneSink

\* Later, and later still.
LEMMA GrownTwice ==
  ASSUME NEW a \in Seq(SinkType), NEW b, NEW c, Grown(a, b), Grown(b, c)
  PROVE  Grown(a, c)
<1>1. DOMAIN b = DOMAIN a /\ DOMAIN c = DOMAIN a
  BY DEF Grown
<1> QED BY <1>1 DEF Grown

\* The responses held stay held, with the responses that grew.
LEMMA GrownStep ==
  ASSUME TypeOK, NEW after, Grown(sinks, after), sinks' = after, held' \in [Entries -> 0..Len(sinks)]
  PROVE  SinksGrow /\ held' \in [Entries -> 0..Len(sinks')]
<1>1. Len(sinks) \in Nat
  BY DEF TypeOK, MemOK
<1> QED BY <1>1 DEF Grown, SinksGrow

\* A failure is kept and the operation ends.
LEMMA KeepsStep ==
  ASSUME TypeOK, NEW o, NEW s \in Nat, s <= Len(sinks), NEW error \in {"Library", "Closed", "Store"},
         op' = NoOp, Keeps(s, error)
  PROVE  CallStep(o)
<1>1. Rest /\ held' = held
  BY DEF Keeps, Rest
<1>2. held' \in [Entries -> 0..Len(sinks)] /\ sinks \in Seq(SinkType) /\ Len(sinks) \in Nat
  BY <1>1 DEF TypeOK, MemOK
<1>3. CASE s = 0
  <2>1. sinks' = sinks
    BY <1>3 DEF Keeps
  <2>2. Grown(sinks, sinks)
    BY <1>2 DEF Grown
  <2> QED BY <1>1, <1>2, <2>1, <2>2, GrownStep DEF CallStep
<1>4. CASE s # 0
  <2>1. s \in DOMAIN sinks /\ sinks' = Kept(sinks, s, error)
    BY <1>4, <1>2 DEF Keeps
  <2>2. Grown(sinks, Kept(sinks, s, error))
    BY <1>2, <2>1, KeptGrown
  <2> QED BY <1>1, <1>2, <2>1, <2>2, GrownStep DEF CallStep
<1> QED BY <1>3, <1>4

\* A response is opened in place of the one that has ended.
LEMMA NewSinkStep ==
  ASSUME TypeOK, NEW o \in OpType, o.entry \in Entries, o.turn \in Turns, NEW before, Grown(sinks, before),
         NewSink(o, before)
  PROVE  CallStep(o)
<1> DEFINE r == [entry |-> o.entry, turn |-> o.turn, sent |-> FALSE, done |-> FALSE, kept |-> "none"]
<1>1. r \in SinkType
  BY DEF SinkType
<1>2. /\ Rest /\ op' = NoOp /\ sinks' = Append(before, r) /\ held' = [held EXCEPT ![o.entry] = Len(before) + 1]
  BY DEF NewSink, Rest, Ends
<1> HIDE DEF r
<1>3. before \in Seq(SinkType) /\ Len(before) = Len(sinks) /\ Len(sinks) \in Nat /\ DOMAIN before = DOMAIN sinks
  BY DEF Grown, TypeOK, MemOK
<1>4. sinks' \in Seq(SinkType) /\ Len(sinks') = Len(sinks) + 1 /\ \A s \in DOMAIN sinks : sinks'[s] = before[s]
  BY <1>1, <1>2, <1>3
<1>5. SinksGrow
  BY <1>3, <1>4 DEF SinksGrow, Grown
<1>6. held' \in [Entries -> 0..Len(sinks')]
  <2>1. held \in [Entries -> 0..Len(sinks)]
    BY DEF TypeOK, MemOK
  <2> QED BY <2>1, <1>2, <1>3, <1>4
<1> QED BY <1>2, <1>5, <1>6 DEF CallStep

\* A response is no longer held.
LEMMA DropsStep ==
  ASSUME TypeOK, NEW o \in OpType, o.entry \in Entries, NEW after, Grown(sinks, after), DropsResponse(o, after)
  PROVE  CallStep(o)
<1>1. /\ Rest /\ op' = NoOp /\ sinks' = after /\ held' = [held EXCEPT ![o.entry] = 0]
  BY DEF DropsResponse, Rest, Ends
<1>2. held \in [Entries -> 0..Len(sinks)] /\ Len(sinks) \in Nat
  BY DEF TypeOK, MemOK
<1>3. held' \in [Entries -> 0..Len(sinks)]
  BY <1>1, <1>2
<1> QED BY <1>1, <1>3, GrownStep DEF CallStep

\* The opening of a turn that the thread does not know (ensure_turn).
LEMMA OpensTurnStep ==
  ASSUME TypeOK, NEW o \in OpType, o.sink <= Len(sinks), Known(o), op.at # "enqueue",
         NoItemOf(o.turn, Len(items)), OpensTurn(o)
  PROVE  CallStep(o)
<1> DEFINE it == opening_item(o.turn)
<1>1. /\ it.kind = "Opening" /\ it.message = o.turn /\ it.sink = 0
  BY DEF opening_item, Item
<1>2. o.turn \in Turns /\ turns[o.turn].at = "none" /\ Accepts(o, it)
  BY DEF Known, OpensTurn, NeedsTurn, Jobs
<1>3. it \in ItemType
  BY <1>2 DEF opening_item, Item, ItemType, Kinds, Messages, NoSeal, ItemBodies, TypeOK, MemOK
<1>4. Landed = Len(items)
  BY DEF Landed
<1> HIDE DEF it
<1>5. FitsItem(it, o.turn, o.job, o.sink, o.left)
  BY <1>1, <1>2, <1>3, <1>4 DEF FitsItem, OpensTurn, NeedsTurn
<1> QED BY <1>1, <1>2, <1>3, <1>5, AcceptsStep

\* A whole message of an input turn (ops/input.rs).
LEMMA AddInputStep ==
  ASSUME TypeOK, NEW o \in OpType, o.sink <= Len(sinks), Known(o), AddInput(o)
  PROVE  CallStep(o)
<1> DEFINE it == whole_item(o.turn)
<1>1. /\ it.kind = "WholeMessage" /\ it.message = o.turn /\ it.sink = 0
  BY DEF whole_item, Item
<1>2. o.turn \in Inputs /\ o.job = "input" /\ Accepts(o, it)
  BY DEF Known, AddInput
<1>3. it \in ItemType
  BY <1>2, ThreadAssumption DEF whole_item, Item, ItemType, Kinds, Messages, NoSeal, ItemBodies, TypeOK, MemOK
<1> HIDE DEF it
<1>5. FitsItem(it, o.turn, o.job, o.sink, o.left)
  BY <1>1, <1>2, <1>3 DEF FitsItem
<1>6. ~NeedsTurn(o)
  BY <1>2 DEF NeedsTurn
<1> QED BY <1>2, <1>3, <1>5, <1>6, AcceptsStep

\* The closing of a turn (ops/close.rs).
LEMMA CloseTurnStep ==
  ASSUME TypeOK, TurnInv, NEW o \in OpType, o.sink <= Len(sinks), Known(o), CloseTurn(o)
  PROVE  CallStep(o)
<1>1. CASE Fails
  BY <1>1, FailsStep
<1>2. CASE ~Fails
  <2>1. PICK sl \in {SealOf(o), NoSeal} :
          Accepts(o, closing_item(o.turn, sl)) /\ (sl # NoSeal => carries_content(o.turn) /\ sl = SealOf(o))
    BY <1>2 DEF CloseTurn
  <2>2. o.job = "close" /\ turns[o.turn].at # "closed" /\ o.turn \in Turns
    BY <1>2 DEF CloseTurn, Known, Jobs
  <2>3. sl # NoSeal => turns[o.turn].at = "open" /\ sl = Len(turns[o.turn].chunks)
    <3> SUFFICES ASSUME sl # NoSeal PROVE turns[o.turn].at = "open" /\ sl = Len(turns[o.turn].chunks)
      OBVIOUS
    <3>1. turns[o.turn].chunks # <<>> /\ turns[o.turn].at \in {"none", "open", "closed"}
      BY <2>1, <2>2, TurnTypes DEF carries_content, TurnType
    <3> QED BY <3>1, <2>1, <2>2 DEF TurnInv, SealOf
  <2> DEFINE it == closing_item(o.turn, sl)
  <2>4. it.kind = "Closing" /\ it.message = o.turn /\ it.sink = 0 /\ it.seal = sl
    BY DEF closing_item, Item
  <2>5. sl \in Nat
    BY <2>2, <2>3, TurnTypes DEF NoSeal
  <2>6. it \in ItemType
    BY <2>2, <2>5 DEF closing_item, Item, ItemType, Kinds, Messages, ItemBodies
  <2>7. Accepts(o, it)
    BY <2>1
  <2> HIDE DEF it
  <2>8. FitsItem(it, o.turn, o.job, o.sink, o.left)
    BY <2>2, <2>3, <2>4, <2>6 DEF FitsItem
  <2>9. ~NeedsTurn(o)
    BY <2>2 DEF NeedsTurn
  <2> QED BY <2>6, <2>7, <2>8, <2>9, AcceptsStep
<1> QED BY <1>1, <1>2

\* A chunk that belongs to no response: an entry, an annotation, a keepalive.
LEMMA ChunkStep ==
  ASSUME TypeOK, NEW o \in OpType, o.sink <= Len(sinks), o.turn \in Turns, HasTurn(o),
         o.job # "send", NEW e \in Entries \cup {NoEntry}, NEW body \in ItemBodies,
         Accepts(o, chunk_item(o.turn, e, body, 0))
  PROVE  CallStep(o)
<1>1. turns[o.turn].at = "open"
  BY DEF HasTurn
<1> DEFINE it == chunk_item(o.turn, e, body, 0)
<1>2. it \in ItemType /\ FitsItem(it, o.turn, o.job, o.sink, o.left)
  BY <1>1, ChunkFits
<1>3. Accepts(o, it)
  OBVIOUS
<1> HIDE DEF it
<1> QED BY <1>1, <1>2, <1>3, AcceptsStep

\* A chunk of a response s, which the operation is on.
LEMMA DeltaStep ==
  ASSUME TypeOK, NEW o \in OpType, NEW s \in Nat, s <= Len(sinks), NEW t \in Turns, turns[t].at = "open",
         NEW e \in Entries, NEW body \in {"delta", "end"},
         o.job = "send" => o.sink = s /\ body = "delta",
         NeedsTurn(o) => turns[o.turn].at = "open",
         s # 0 => ~sinks[s].done,
         body = "end" => ~(o.job = "complete" /\ o.left > 1),
         Accepts([o EXCEPT !.sink = s], chunk_item(t, e, body, s))
  PROVE  CallStep(o)
<1> DEFINE it == chunk_item(t, e, body, s)
           q == [o EXCEPT !.sink = s]
<1>1. s # 0 => s \in DOMAIN sinks
  BY DEF TypeOK, MemOK
<1>2. it \in ItemType /\ FitsItem(it, o.turn, o.job, s, o.left)
  BY <1>1, ChunkFits DEF ItemBodies
<1>3. /\ q \in OpType /\ q.sink = s /\ q.job = o.job /\ q.turn = o.turn /\ q.entry = o.entry /\ q.left = o.left
  BY DEF OpType
<1>4. Accepts(q, it)
  OBVIOUS
<1> HIDE DEF it, q
<1> QED BY <1>2, <1>3, <1>4, AcceptsStep

\* The response that is held for an entry.
LEMMA HeldTypes ==
  ASSUME TypeOK, NEW e \in Entries
  PROVE  /\ held[e] \in Nat /\ held[e] <= Len(sinks)
         /\ held[e] # 0 => held[e] \in DOMAIN sinks /\ sinks[held[e]].turn \in Turns
<1>1. held[e] \in 0..Len(sinks) /\ sinks \in Seq(SinkType) /\ Len(sinks) \in Nat
  BY DEF TypeOK, MemOK
<1>2. held[e] # 0 => held[e] \in DOMAIN sinks
  BY <1>1
<1>3. \A s \in DOMAIN sinks : sinks[s] \in SinkType
  BY <1>1
<1> QED BY <1>1, <1>2, <1>3 DEF SinkType

\* A response that ends, with a failure kept when its turn is closed.
LEMMA EndsGrown ==
  ASSUME TypeOK, NEW s \in DOMAIN sinks
  PROVE  Grown(sinks, Ended(s)) /\ Grown(sinks, Kept(Ended(s), s, "Closed"))
<1>1. Grown(sinks, Ended(s)) /\ sinks \in Seq(SinkType)
  BY EndedGrown DEF TypeOK, MemOK
<1>2. Ended(s) \in Seq(SinkType) /\ s \in DOMAIN Ended(s)
  BY <1>1 DEF Grown
<1>3. Grown(Ended(s), Kept(Ended(s), s, "Closed"))
  BY <1>2, KeptGrown
<1> QED BY <1>1, <1>3, GrownTwice

\* open_response (ops/response.rs).
LEMMA OpenResponseStep ==
  ASSUME TypeOK, NEW o \in OpType, Known(o), OpenResponse(o)
  PROVE  CallStep(o)
<1> DEFINE s == held[o.entry]
<1>1. o.job = "open" /\ o.entry \in Entries /\ o.turn \in Turns /\ turns[o.turn].at = "open"
  BY DEF OpenResponse, Known, HasTurn, Jobs
<1>2. s \in Nat /\ s <= Len(sinks) /\ (s # 0 => s \in DOMAIN sinks /\ sinks[s].turn \in Turns)
  BY <1>1, HeldTypes
<1>3. CASE NewSink(o, sinks)
  <2>1. Grown(sinks, sinks)
    BY DEF Grown, TypeOK, MemOK
  <2> QED BY <1>1, <1>3, <2>1, NewSinkStep
<1>4. CASE s # 0 /\ NewSink(o, Ended(s))
  BY <1>1, <1>2, <1>4, NewSinkStep, EndsGrown
<1>5. CASE s # 0 /\ NewSink(o, Kept(Ended(s), s, "Closed"))
  BY <1>1, <1>2, <1>5, NewSinkStep, EndsGrown
<1>6. CASE /\ s # 0 /\ Interrupts(s) /\ turns[sinks[s].turn].at = "open"
           /\ Accepts([o EXCEPT !.sink = s], chunk_item(sinks[s].turn, o.entry, "end", s))
  <2>1. ~sinks[s].done
    BY <1>6 DEF Interrupts
  <2> HIDE DEF s
  <2> QED BY <1>1, <1>2, <1>6, <2>1, DeltaStep
<1> QED BY <1>3, <1>4, <1>5, <1>6 DEF OpenResponse

\* discard_response (ops/response.rs).
LEMMA DiscardResponseStep ==
  ASSUME TypeOK, NEW o \in OpType, Known(o), DiscardResponse(o)
  PROVE  CallStep(o)
<1> DEFINE s == held[o.entry]
<1>1. o.job = "discard" /\ o.entry \in Entries /\ ~NeedsTurn(o)
  BY DEF DiscardResponse, Known, NeedsTurn
<1>2. s \in Nat /\ s <= Len(sinks) /\ (s # 0 => s \in DOMAIN sinks /\ sinks[s].turn \in Turns)
  BY <1>1, HeldTypes
<1>3. CASE Fails
  BY <1>3, FailsStep
<1>4. CASE s # 0 /\ DropsResponse(o, Ended(s))
  BY <1>1, <1>2, <1>4, DropsStep, EndsGrown
<1>5. CASE s # 0 /\ DropsResponse(o, Kept(Ended(s), s, "Closed"))
  BY <1>1, <1>2, <1>5, DropsStep, EndsGrown
<1>6. CASE /\ s # 0 /\ Interrupts(s) /\ turns[sinks[s].turn].at = "open"
           /\ Accepts([o EXCEPT !.sink = s], chunk_item(sinks[s].turn, o.entry, "end", s))
  <2>1. ~sinks[s].done
    BY <1>6 DEF Interrupts
  <2> HIDE DEF s
  <2> QED BY <1>1, <1>2, <1>6, <2>1, DeltaStep
<1> QED BY <1>3, <1>4, <1>5, <1>6 DEF DiscardResponse

\* complete_response (ops/response.rs).
LEMMA CompleteResponseStep ==
  ASSUME TypeOK, NEW o \in OpType, Known(o), CompleteResponse(o)
  PROVE  CallStep(o)
<1> DEFINE s == held[o.entry]
           t == IF s = 0 THEN o.turn ELSE sinks[s].turn
           body == IF o.left = 1 THEN "end" ELSE "delta"
<1>1. o.job = "complete" /\ o.entry \in Entries /\ o.turn \in Turns /\ turns[o.turn].at = "open"
  BY DEF CompleteResponse, Known, HasTurn, Jobs
<1>2. s \in Nat /\ s <= Len(sinks) /\ (s # 0 => s \in DOMAIN sinks /\ sinks[s].turn \in Turns)
  BY <1>1, HeldTypes
<1>3. CASE Fails
  BY <1>3, FailsStep
<1>4. CASE Ends /\ Keeps(s, "Closed")
  <2>1. op' = NoOp
    BY <1>4 DEF Ends
  <2> HIDE DEF s
  <2> QED BY <1>2, <1>4, <2>1, KeepsStep
<1>5. CASE /\ s # 0 => ~sinks[s].done /\ sinks[s].kept \in {"none", "Library"}
           /\ turns[t].at = "open"
           /\ Accepts([o EXCEPT !.sink = s], chunk_item(t, o.entry, body, s))
  <2>1. t \in Turns /\ body \in {"delta", "end"} /\ (body = "end" => o.left = 1)
    BY <1>1, <1>2
  <2> HIDE DEF s, t, body
  <2>2. body = "end" => ~(o.job = "complete" /\ o.left > 1)
    BY <2>1
  <2> QED BY <1>1, <1>2, <1>5, <2>1, <2>2, DeltaStep
<1> QED BY <1>3, <1>4, <1>5 DEF CompleteResponse

\* The sink of a response (response/sink.rs).
LEMMA SinkSendsStep ==
  ASSUME TypeOK, NEW o \in OpType, o.sink <= Len(sinks), Known(o), SinkSends(o)
  PROVE  CallStep(o)
<1> DEFINE s == o.sink
<1>1. o.job = "send" /\ ~NeedsTurn(o) /\ s \in Nat /\ s # 0
  BY DEF SinkSends, Known, NeedsTurn, OpType
<1>2. s \in DOMAIN sinks /\ sinks[s].turn \in Turns /\ sinks[s].entry \in Entries
  <2>1. sinks \in Seq(SinkType) /\ s \in DOMAIN sinks
    BY <1>1 DEF TypeOK, MemOK
  <2>2. sinks[s] \in SinkType
    BY <2>1
  <2> QED BY <2>1, <2>2 DEF SinkType
<1>3. CASE Fails
  BY <1>3, FailsStep
<1>4. CASE Ends /\ (Keeps(s, "Closed") \/ Keeps(s, "Library"))
  <2>1. op' = NoOp
    BY <1>4 DEF Ends
  <2> QED BY <1>1, <1>4, <2>1, KeepsStep
<1>5. CASE /\ ~sinks[s].done /\ turns[sinks[s].turn].at = "open"
           /\ Accepts(o, chunk_item(sinks[s].turn, sinks[s].entry, "delta", s))
  <2>1. [o EXCEPT !.sink = s] = o
    BY DEF OpType
  <2>2. Accepts([o EXCEPT !.sink = s], chunk_item(sinks[s].turn, sinks[s].entry, "delta", s))
    BY <1>5, <2>1
  <2> QED BY <1>1, <1>2, <1>5, <2>2, DeltaStep
<1> QED BY <1>3, <1>4, <1>5 DEF SinkSends

\* What any operation does when it has the order of the thread: it ends, or it has an
\* item to be accepted that fits what the thread remembers.
LEMMA DecideStep ==
  ASSUME TypeOK, TurnInv, NEW o \in OpType, o.sink <= Len(sinks), Known(o), op.at # "enqueue",
         NeedsTurn(o) /\ turns[o.turn].at = "none" => NoItemOf(o.turn, Len(items)),
         Decide(o)
  PROVE  CallStep(o)
<1>1. CASE OpensTurn(o)
  <2>1. NoItemOf(o.turn, Len(items))
    BY <1>1 DEF OpensTurn
  <2> QED BY <1>1, <2>1, OpensTurnStep
<1>2. CASE TurnIsClosed(o)
  BY <1>2, FailsStep DEF TurnIsClosed
<1>3. CASE AddInput(o)
  BY <1>3, AddInputStep
<1>4. CASE AddEntry(o)
  <2>1. o.turn \in Turns /\ o.entry \in Entries /\ o.job # "send"
    BY <1>4 DEF AddEntry, Known, Jobs
  <2> QED BY <1>4, <2>1, ChunkStep DEF AddEntry, ItemBodies
<1>5. CASE OpenResult(o)
  BY <1>5, FailsStep DEF OpenResult
<1>6. CASE AddAnnotation(o)
  <2>1. o.turn \in Turns /\ o.job # "send"
    BY <1>6 DEF AddAnnotation, Known, Jobs
  <2>2. CASE Fails
    BY <2>2, FailsStep
  <2>3. CASE ~Fails
    BY <1>6, <2>1, <2>3, ChunkStep DEF AddAnnotation, ItemBodies
  <2> QED BY <2>2, <2>3
<1>7. CASE QueueKeepalive(o)
  <2>1. o.turn \in Turns /\ o.job # "send"
    BY <1>7 DEF QueueKeepalive, Known, Jobs
  <2>2. CASE Fails
    BY <2>2, FailsStep
  <2>3. CASE ~Fails
    BY <1>7, <2>1, <2>3, ChunkStep DEF QueueKeepalive, KeepaliveDue, HasTurn, ItemBodies
  <2> QED BY <2>2, <2>3
<1>8. CASE CloseTurn(o)
  BY <1>8, CloseTurnStep
<1>9. CASE OpenResponse(o)
  BY <1>9, OpenResponseStep
<1>10. CASE DiscardResponse(o)
  BY <1>10, DiscardResponseStep
<1>11. CASE CompleteResponse(o)
  BY <1>11, CompleteResponseStep
<1>12. CASE SinkSends(o)
  BY <1>12, SinkSendsStep
<1> QED BY <1>1, <1>2, <1>3, <1>4, <1>5, <1>6, <1>7, <1>8, <1>9, <1>10, <1>11, <1>12 DEF Decide

-----------------------------------------------------------------------------
(* The inductive invariant                                                 *)

\* The inductive invariant of the queue of a thread.
QueueInv ==
  /\ TypeOK /\ OpInv /\ TurnInv /\ SinkInv /\ LineInv /\ WorkerInv /\ FlightInv /\ WaitInv /\ EndedFirst
  /\ NothingLost /\ SealWhole /\ ResponseEndsOnce /\ EntryTold /\ WaitWoken

\* The calls, and what an operation goes on to do once its turn is open.
CallsNext ==
  \/ \E n \in Inputs : InputCall(n)
  \/ \E t \in Turns, e \in Entries : TurnCall(t, e)
  \/ \E t \in Turns : ResultCall(t) \/ CloseCall(t) \/ KeepaliveCall(t)
  \/ \E s \in DOMAIN sinks : SendCall(s)
  \/ Continue

\* A turn that is written by an instance that lives is new, or known to the thread.
LEMMA FreshTurn ==
  ASSUME TurnInv, op.at = "none", NEW t \in Turns, t \notin past.gone, turns[t].at = "none"
  PROVE  NoItemOf(t, Len(items))
<1>1. Landed = Len(items)
  BY DEF Landed
<1> QED BY <1>1 DEF TurnInv

\* What a call is given.
Begun(job, t, e, left) == [NoOp EXCEPT !.job = job, !.turn = t, !.entry = e, !.left = left]

\* It is an operation on no response yet.
LEMMA NewOp ==
  ASSUME NEW job \in Jobs, NEW t \in Messages, NEW e \in Entries \cup {NoEntry}, NEW left \in Nat,
         NEW o, o = Begun(job, t, e, left)
  PROVE  o \in OpType /\ o.job = job /\ o.turn = t /\ o.entry = e /\ o.sink = 0
<1>1. NoOp \in OpType
  BY DEF NoOp, OpType, Messages
<1> QED BY <1>1 DEF OpType, NoOp, Begun

\* A call of the port.
LEMMA CallIs ==
  ASSUME TypeOK, TurnInv, NEW job \in Jobs \ {"send"}, NEW t \in Messages,
         NEW e \in Entries \cup {NoEntry}, NEW left \in Nat,
         job = "input" => t \in Inputs, job # "input" => t \in Turns,
         job \in {"entry", "annotation", "open", "discard", "complete"} => e \in Entries,
         job \in {"entry", "result", "open", "complete"} => t \notin past.gone,
         Call(job, t, e, left)
  PROVE  \E o \in OpType : Known(o) /\ CallStep(o) /\ op.at \in {"none", "ready", "more"}
<1> DEFINE o == Begun(job, t, e, left)
<1>1. o \in OpType /\ o.job = job /\ o.turn = t /\ o.entry = e /\ o.sink = 0
  BY NewOp
<1>2. op.at = "none" /\ Decide(o)
  BY DEF Call, Begun
<1> HIDE DEF o
<1>3. Known(o)
  <2>1. job \notin {"none", "send"} /\ (job \in Jobs \ {"input", "send"} => job # "input")
    BY DEF Jobs
  <2> QED BY <1>1, <2>1 DEF Known
<1>4. o.sink <= Len(sinks)
  BY <1>1 DEF TypeOK, MemOK
<1>5. NeedsTurn(o) /\ turns[o.turn].at = "none" => NoItemOf(o.turn, Len(items))
  BY <1>1, <1>2, FreshTurn DEF NeedsTurn
<1>6. CallStep(o)
  BY <1>1, <1>2, <1>3, <1>4, <1>5, DecideStep
<1> QED BY <1>1, <1>2, <1>3, <1>6

\* Whatever is called, an operation ends or has an item that fits.
LEMMA CallsAre ==
  ASSUME QueueInv, CallsNext
  PROVE  \E o \in OpType : Known(o) /\ CallStep(o) /\ op.at \in {"none", "ready", "more"}
<1> DEFINE G == \E o \in OpType : Known(o) /\ CallStep(o) /\ op.at \in {"none", "ready", "more"}
<1>0. TypeOK /\ TurnInv /\ OpInv
  BY DEF QueueInv
<1> HIDE DEF G
<1>1. ASSUME NEW n \in Inputs, InputCall(n) PROVE G
  BY <1>0, <1>1, CallIs DEF InputCall, Messages, Jobs, G
<1>2. ASSUME NEW t \in Turns, NEW e \in Entries, TurnCall(t, e) PROVE G
  <2>1. ASSUME NEW job \in {"entry", "annotation", "open", "discard"}, Call(job, t, e, 0) PROVE G
    BY <1>0, <1>2, <2>1, CallIs DEF TurnCall, Messages, Jobs, G
  <2>2. ASSUME NEW left \in whole_response_deltas, Call("complete", t, e, left) PROVE G
    <3>1. left \in Nat
      BY DEF whole_response_deltas
    <3> QED BY <1>0, <1>2, <2>2, <3>1, CallIs DEF TurnCall, Messages, Jobs, G
  <2> QED BY <1>2, <2>1, <2>2 DEF TurnCall
<1>3. ASSUME NEW t \in Turns, ResultCall(t) \/ CloseCall(t) \/ KeepaliveCall(t) PROVE G
  <2>1. CASE ResultCall(t)
    BY <1>0, <2>1, CallIs DEF ResultCall, Messages, Jobs, G
  <2>2. CASE CloseCall(t)
    <3>1. PICK kind \in 0..1 : Call("close", t, NoEntry, kind)
      BY <2>2 DEF CloseCall
    <3> QED BY <1>0, <3>1, CallIs DEF Messages, Jobs, G
  <2>3. CASE KeepaliveCall(t)
    BY <1>0, <2>3, CallIs DEF KeepaliveCall, Messages, Jobs, G
  <2> QED BY <1>3, <2>1, <2>2, <2>3
<1>4. ASSUME NEW s \in DOMAIN sinks, SendCall(s) PROVE G
  <2> DEFINE o == [NoOp EXCEPT !.job = "send", !.sink = s]
  <2>1. s \in Nat /\ s # 0 /\ s <= Len(sinks)
    BY <1>0 DEF TypeOK, MemOK
  <2>2. o \in OpType /\ o.job = "send" /\ o.sink = s
    BY <2>1 DEF OpType, NoOp, Messages, Jobs
  <2>3. op.at = "none" /\ Decide(o)
    BY <1>4 DEF SendCall
  <2> HIDE DEF o
  <2>4. Known(o) /\ ~NeedsTurn(o)
    BY <2>1, <2>2 DEF Known, NeedsTurn
  <2>5. CallStep(o)
    BY <1>0, <2>1, <2>2, <2>3, <2>4, DecideStep
  <2> QED BY <2>2, <2>3, <2>4, <2>5 DEF G
<1>5. CASE Continue
  <2>1. op.at \in {"ready", "more"} /\ Decide(op) /\ op \in OpType /\ op.sink <= Len(sinks)
    BY <1>0, <1>5 DEF Continue, TypeOK, CallsOK
  <2>2. Known(op)
    BY <1>0, <2>1 DEF OpInv
  <2>3. ~(NeedsTurn(op) /\ turns[op.turn].at = "none")
    BY <1>0, <2>1 DEF OpInv, FitsItem
  <2>4. CallStep(op)
    BY <1>0, <2>1, <2>2, <2>3, DecideStep
  <2> QED BY <2>1, <2>2, <2>4 DEF G
<1> QED BY <1>1, <1>2, <1>3, <1>4, <1>5 DEF CallsNext, G

\* An acceptance that fails ends the operation; the response keeps the failure.
LEMMA AppendFailsIs ==
  ASSUME QueueInv, AppendFails
  PROVE  op \in OpType /\ Known(op) /\ CallStep(op) /\ op.at # "enqueue"
<1>1. TypeOK /\ op \in OpType /\ op.sink \in Nat /\ op.sink <= Len(sinks) /\ Known(op) /\ op.at # "enqueue"
  BY DEF QueueInv, TypeOK, CallsOK, OpType, OpInv, AppendFails
<1>2. CASE Keeps(op.sink, "Store")
  BY <1>1, <1>2, KeepsStep DEF AppendFails, Ends
<1>3. CASE UNCHANGED <<items, store, queue, wait, worker, past, memVars, flagVars>>
  <2>1. Fails
    BY <1>3 DEF AppendFails, Fails
  <2> QED BY <1>1, <2>1, FailsStep
<1> QED BY <1>1, <1>2, <1>3 DEF AppendFails

\* The steps of an operation other than an append and its entry in the queue.
LEMMA OperationIs ==
  ASSUME QueueInv, CallsNext \/ AppendFails
  PROVE  \E o \in OpType : Known(o) /\ CallStep(o) /\ op.at # "enqueue"
BY CallsAre, AppendFailsIs

-----------------------------------------------------------------------------
(* Types                                                                   *)

\* An adapter that was just built.
LEMMA InitTypes == Init => TypeOK
<1> SUFFICES ASSUME Init PROVE TypeOK
  OBVIOUS
<1>1. MaxItems \in Nat /\ scope \in Scope
  BY ThreadAssumption DEF Init
<1>2. ItemsOK
  BY <1>1 DEF Init, ItemsOK, PastType, Ids
<1>3. QueueOK
  BY DEF Init, QueueOK, EmptyQueue
<1>4. MemOK
  <2>1. NoTurn \in TurnType
    BY DEF NoTurn, TurnType
  <2> QED BY <2>1 DEF Init, MemOK, Messages
<1>5. FlagsOK
  BY <1>1 DEF Init, FlagsOK
<1>6. op \in OpType /\ op.sink <= Len(sinks)
  BY DEF Init, OpType, NoOp, Messages
<1>7. wait \in WaitType
  BY DEF Init, WaitType, NoWait, Messages
<1> QED BY <1>2, <1>3, <1>4, <1>5, <1>6, <1>7 DEF TypeOK, CallsOK

\* An operation that rests, and a caller that does not wait.
LEMMA NoneTypes == NoOp \in OpType /\ NoOp.sink = 0 /\ NoOp.at = "none" /\ NoWait \in WaitType /\ NoWait.at = "none"
BY DEF OpType, NoOp, Messages, WaitType, NoWait

\* The parts of the state that a step leaves alone keep their types.
LEMMA SameItems == ASSUME ItemsOK, UNCHANGED <<items, past>> PROVE ItemsOK'
BY DEF ItemsOK
\* So do the store, the queue and the delivery task,
LEMMA SameQueue == ASSUME QueueOK, UNCHANGED <<items, store, queue, worker>> PROVE QueueOK'
BY DEF QueueOK
\* the memory of the thread,
LEMMA SameMem == ASSUME MemOK, UNCHANGED memVars PROVE MemOK'
BY DEF MemOK, memVars
\* what was refused and whether the adapter is stopped,
LEMMA SameFlags == ASSUME FlagsOK, UNCHANGED flagVars PROVE FlagsOK'
BY DEF FlagsOK, flagVars
\* and the operation and the caller that waits.
LEMMA SameCalls == ASSUME CallsOK, UNCHANGED <<op, sinks, wait>> PROVE CallsOK'
BY DEF CallsOK

\* A step of an operation.
LEMMA CallTypes == ASSUME TypeOK, NEW o \in OpType, CallStep(o) PROVE TypeOK'
<1>1. Rest
  BY DEF CallStep
<1>2. ItemsOK' /\ QueueOK' /\ FlagsOK'
  BY <1>1, SameItems, SameQueue, SameFlags DEF Rest, TypeOK
<1>3. sinks' \in Seq(SinkType) /\ held' \in [Entries -> 0..Len(sinks')] /\ Len(sinks') \in Nat
  BY DEF CallStep, SinksGrow, TypeOK, MemOK
<1>4. MemOK'
  BY <1>1, <1>3 DEF Rest, TypeOK, MemOK
<1>5. op' \in OpType /\ op'.sink <= Len(sinks')
  <2>1. CASE op' = NoOp
    BY <1>3, <2>1, NoneTypes
  <2>2. CASE UNCHANGED <<sinks, held>> /\ Took(o, op')
    BY <2>2 DEF Took
  <2> QED BY <2>1, <2>2 DEF CallStep
<1>6. CallsOK'
  BY <1>1, <1>5 DEF CallsOK, Rest, TypeOK
<1> QED BY <1>2, <1>4, <1>6 DEF TypeOK

\* What the queue is made of.
LEMMA QueueTypes ==
  ASSUME TypeOK
  PROVE  /\ Len(items) \in Nat /\ DOMAIN items = 1..Len(items) /\ DOMAIN items \subseteq Ids /\ DOMAIN items \subseteq Nat
         /\ store \in Seq(DOMAIN items) /\ queue.ids \in Seq(DOMAIN items) /\ queue.dropped \subseteq Entries
         /\ store \in Seq(Nat) /\ queue.ids \in Seq(Nat)
         /\ queue.last \in Nat /\ queue.last <= Len(items)
         /\ H \in Nat /\ H <= Len(items) /\ worker.how \in {"delivered", "refused", "unsent"}
         /\ \A i \in DOMAIN items : items[i] \in ItemType
         /\ ToSet(queue.ids) \subseteq DOMAIN items
<1>1. Len(items) \in Nat /\ DOMAIN items = 1..Len(items) /\ Len(items) <= MaxItems /\ MaxItems \in Nat
  BY ThreadAssumption DEF TypeOK, ItemsOK
<1>2. DOMAIN items \subseteq Ids /\ DOMAIN items \subseteq Nat
  BY <1>1 DEF Ids
<1>3. store \in Seq(DOMAIN items) /\ queue.ids \in Seq(DOMAIN items) 
      /\ queue.dropped \subseteq Entries /\ queue.last \in 0..Len(items)
  BY DEF TypeOK, QueueOK
<1>4. H \in 0..Len(items) /\ worker.how \in {"delivered", "refused", "unsent"}
  BY DEF TypeOK, QueueOK, H
<1>5. \A i \in DOMAIN items : items[i] \in ItemType
  BY DEF TypeOK, ItemsOK
<1>6. store \in Seq(Nat) /\ queue.ids \in Seq(Nat)
  BY <1>2, <1>3
<1>7. ToSet(queue.ids) \subseteq DOMAIN items
  BY <1>3 DEF ToSet
<1> QED BY <1>1, <1>2, <1>3, <1>4, <1>5, <1>6, <1>7

\* The first of a sequence, and the others.
LEMMA HeadIn == ASSUME NEW D, NEW s \in Seq(D), s # <<>> PROVE Head(s) \in D /\ Tail(s) \in Seq(D)
OBVIOUS

\* What the delivery task works on is the head of the queue.
LEMMA HeadTypes ==
  ASSUME TypeOK, WorkerInv, worker.at \in {"trying", "pause", "ending"}
  PROVE  /\ queue.ids # <<>> /\ H = Head(queue.ids) /\ H \in DOMAIN items /\ H \in Ids /\ items[H] \in ItemType
         /\ Message(H) \in Turns \cup Inputs /\ Tail(queue.ids) \in Seq(DOMAIN items)
<1>1. queue.ids # <<>> /\ H = Head(queue.ids)
  BY DEF WorkerInv
<1>2. H \in DOMAIN items /\ Tail(queue.ids) \in Seq(DOMAIN items)
  BY <1>1, QueueTypes, HeadIn, Zenon
<1>3. items[H] \in ItemType /\ H \in Ids
  BY <1>2, QueueTypes
<1> QED BY <1>1, <1>2, <1>3 DEF Message, ItemType

\* An item is kept in the store.
LEMMA AppendTypes == ASSUME QueueInv, Append1 PROVE TypeOK'
<1>1. TypeOK /\ op.item \in ItemType
  BY DEF QueueInv, OpInv, Append1, Fits, FitsItem
<1> DEFINE n == Len(items)
<1>2. n \in Nat /\ n + 1 <= MaxItems /\ MaxItems \in Nat /\ DOMAIN items = 1..n
  BY <1>1, QueueTypes, ThreadAssumption DEF Append1
<1>3. items' = Append(items, op.item) /\ items \in Seq(ItemType)
  BY <1>1 DEF Append1, TypeOK, ItemsOK
<1>4. items' \in Seq(ItemType) /\ Len(items') = n + 1 /\ DOMAIN items' = 1..(n + 1)
  BY <1>1, <1>3
<1>5. past' \in PastType /\ past'.taken = past.taken
  <2>1. past' = [past EXCEPT !.end = [past.end EXCEPT ![n + 1] = "kept"]]
    BY DEF Append1
  <2>2. past \in PastType
    BY <1>1 DEF TypeOK, ItemsOK
  <2>3. [past.end EXCEPT ![n + 1] = "kept"] \in [Ids -> {"none", "kept", "delivered", "refused", "unsent"}]
    BY <2>2 DEF PastType
  <2> QED BY <2>1, <2>2, <2>3 DEF PastType
<1>6. ItemsOK'
  <2>1. past.taken \subseteq 1..(n + 1)
    BY <1>1, <1>2 DEF TypeOK, ItemsOK
  <2> QED BY <1>2, <1>4, <1>5, <2>1 DEF ItemsOK
<1>7. QueueOK'
  <2>1. DOMAIN items \subseteq DOMAIN items' /\ n + 1 \in DOMAIN items'
    BY <1>2, <1>4
  <2>2. store' = Append(store, n + 1) /\ store \in Seq(DOMAIN items) /\ UNCHANGED <<queue, worker>>
    BY <1>1, QueueTypes DEF Append1
  <2>3. store' \in Seq(DOMAIN items')
    BY <2>1, <2>2
  <2>4. queue \in [ids : Seq(DOMAIN items'), dropped : SUBSET Entries, failure : Nat,
                   running : BOOLEAN, last : 0..Len(items')]
    <3>1. queue \in [ids : Seq(DOMAIN items), dropped : SUBSET Entries, failure : Nat,
                     running : BOOLEAN, last : 0..n]
      BY <1>1 DEF TypeOK, QueueOK
    <3>2. queue.ids \in Seq(DOMAIN items') /\ queue.last \in 0..Len(items')
      BY <3>1, <2>1, <1>2, <1>4
    <3> QED BY <3>1, <3>2
  <2>5. worker \in [at : {"idle", "look", "trying", "pause", "ending", "removing", "aborted"},
                    how : {"delivered", "refused", "unsent"}, item : 0..Len(items')]
    <3>1. worker \in [at : {"idle", "look", "trying", "pause", "ending", "removing", "aborted"},
                    how : {"delivered", "refused", "unsent"}, item : 0..n]
      BY <1>1 DEF TypeOK, QueueOK
    <3>2. worker.item \in 0..Len(items')
      BY <3>1, <1>2, <1>4
    <3> QED BY <3>1, <3>2
  <2> QED BY <2>2, <2>3, <2>4, <2>5 DEF QueueOK
<1>8. MemOK' /\ FlagsOK'
  BY <1>1, SameMem, SameFlags DEF Append1, TypeOK
<1>9. CallsOK'
  <2>1. op' \in OpType /\ op'.sink = op.sink /\ UNCHANGED <<sinks, wait>>
    BY <1>1 DEF TypeOK, CallsOK, OpType, Append1, memVars
  <2> QED BY <1>1, <2>1 DEF TypeOK, CallsOK
<1> QED BY <1>6, <1>7, <1>8, <1>9 DEF TypeOK

\* The turns after an item was accepted.
LEMMA TurnsAfterTypes ==
  ASSUME TypeOK, Fits(op)
  PROVE  TurnsAfter(op.item) \in [Turns -> TurnType]
<1> DEFINE item == op.item
           m == item.message
<1>1. item \in ItemType /\ turns \in [Turns -> TurnType]
  BY DEF Fits, FitsItem, TypeOK, MemOK
<1>2. /\ item.kind \in Kinds /\ item.body \in ItemBodies /\ item.entry \in Entries \cup {NoEntry}
      /\ item.kind # "WholeMessage" => m \in Turns
  BY <1>1 DEF ItemType, Fits, FitsItem, Kinds
<1>3. CASE item.kind = "Opening"
  <2>1. PICK b \in BOOLEAN : b = ~stopped.is
    <3>1. CASE stopped.is
      BY <3>1
    <3>2. CASE ~stopped.is
      BY <3>2
    <3> QED BY <3>1, <3>2
  <2>2. NewTurn(b) \in TurnType
    <3>1. <<>> \in Seq(ItemBodies) /\ {} \in SUBSET Entries /\ "open" \in {"none", "open", "closed"}
      OBVIOUS
    <3> QED BY <2>1, <3>1, Zenon DEF TurnType, NewTurn
  <2>3. TurnsAfter(item) = [turns EXCEPT ![m] = NewTurn(b)]
    <3>1. TurnsAfter(item) = [turns EXCEPT ![m] = NewTurn(~stopped.is)]
      BY <1>3 DEF TurnsAfter
    <3> QED BY <2>1, <3>1, Zenon
  <2> QED BY <1>1, <1>2, <1>3, <2>2, <2>3
<1>4. CASE item.kind = "Chunk"
  <2>1. turns[m] \in TurnType /\ m \in Turns
    BY <1>1, <1>2, <1>4
  <2> DEFINE r == [turns[m] EXCEPT !.chunks = Append(turns[m].chunks, item.body),
                                   !.entries = turns[m].entries \cup ({item.entry} \ {NoEntry})]
  <2>2. Append(turns[m].chunks, item.body) \in Seq(ItemBodies)
    BY <1>2, <2>1 DEF TurnType
  <2>3. turns[m].entries \cup ({item.entry} \ {NoEntry}) \subseteq Entries
    BY <1>2, <2>1 DEF TurnType
  <2>4. r \in TurnType
    BY <2>1, <2>2, <2>3 DEF TurnType
  <2>5. TurnsAfter(item) = ChunkPushed(item)
    BY <1>4 DEF TurnsAfter
  <2>6. ChunkPushed(item) = [turns EXCEPT ![m] = r]
    BY <1>1, <2>1 DEF ChunkPushed, TurnType
  <2> HIDE DEF r
  <2> QED BY <1>1, <2>1, <2>4, <2>5, <2>6
<1>5. CASE item.kind = "Closing"
  <2>1. turns[m] \in TurnType /\ m \in Turns
    BY <1>1, <1>2, <1>5
  <2> DEFINE r == [turns[m] EXCEPT !.at = "closed", !.keepalive = FALSE]
  <2>2. r \in TurnType
    BY <2>1 DEF TurnType
  <2>3. TurnsAfter(item) = ClosedAfter(m)
    BY <1>5 DEF TurnsAfter
  <2>4. ClosedAfter(m) = [turns EXCEPT ![m] = r]
    BY <1>1, <2>1 DEF ClosedAfter, TurnType
  <2> HIDE DEF r
  <2> QED BY <1>1, <2>1, <2>2, <2>3, <2>4
<1>6. CASE item.kind = "WholeMessage"
  BY <1>1, <1>6 DEF TurnsAfter
<1> QED BY <1>2, <1>3, <1>4, <1>5, <1>6 DEF Kinds

\* What an acceptance brings: a place in the queue, or, once the adapter is stopped, a
\* report that the item was not sent.
LEMMA EnqueuedIs ==
  ASSUME QueueInv, Enqueue
  PROVE  /\ op.at = "enqueue" /\ Fits(op) /\ Len(items) \in DOMAIN items /\ items[Len(items)] = op.item
         /\ \/ stopped.is /\ UNCHANGED <<queue, worker, wait>> /\ past' = [past EXCEPT !.unsent = @ \cup {Len(items)}]
            \/ /\ ~stopped.is /\ past' = past /\ wait' = Bumped(wait)
               /\ queue' = [queue EXCEPT !.ids = Append(queue.ids, Len(items)), !.last = Len(items),
                                         !.dropped = queue.dropped \ {op.item.entry}, !.running = TRUE]
               /\ worker' \in {worker, [worker EXCEPT !.at = "look"]}
               /\ queue.running => worker' = worker
<1>1. op.at = "enqueue" /\ Enqueued(Len(items))
  BY DEF Enqueue
<1>2. Fits(op) /\ Len(items) # 0 /\ items[Len(items)] = op.item
  BY <1>1 DEF QueueInv, OpInv, FlightInv
<1>3. Len(items) \in DOMAIN items
  BY <1>2, QueueTypes DEF QueueInv
<1>4. CASE stopped.is
  BY <1>1, <1>2, <1>3, <1>4 DEF Enqueued
<1>5. CASE ~stopped.is
  BY <1>1, <1>2, <1>3, <1>5 DEF Enqueued, PushedBack
<1> QED BY <1>4, <1>5

\* A caller that waits is told of a change.
LEMMA BumpedTypes ==
  ASSUME wait \in WaitType
  PROVE  /\ Bumped(wait) \in WaitType /\ Bumped(wait).at = wait.at /\ Bumped(wait).what = wait.what
         /\ Bumped(wait).since = wait.since /\ Bumped(wait).target = wait.target /\ Bumped(wait).agent = wait.agent
         /\ Bumped(wait).holds = wait.holds /\ Bumped(wait).entry = wait.entry
         /\ wait.at # "none" => Bumped(wait).fresh
<1>1. CASE wait.at = "none"
  BY <1>1 DEF Bumped
<1>2. CASE wait.at # "none"
  BY <1>2 DEF Bumped, WaitType
<1> QED BY <1>1, <1>2

\* What becomes of the operation and of its response.
LEMMA ContinuesIs ==
  ASSUME QueueInv, Enqueue
  PROVE  /\ op' \in OpType /\ op'.sink <= Len(sinks) /\ op'.at \in {"none", "ready", "more"}
         /\ op'.at # "none" => /\ op'.job = op.job /\ op'.turn = op.turn /\ op'.entry = op.entry
                               /\ op'.item = NoItem /\ NeedsTurn(op)
         /\ Grown(sinks, sinks') /\ held' \in [Entries -> 0..Len(sinks)]
         /\ op.item.sink # 0 /\ op.item.body = "end" => sinks'[op.item.sink].done
<1>1. TypeOK /\ op \in OpType /\ op.sink \in Nat /\ op.sink <= Len(sinks) /\ op.left \in Nat
  BY DEF QueueInv, TypeOK, CallsOK, OpType
<1>2. Fits(op) /\ Known(op) /\ Continues
  BY EnqueuedIs DEF Enqueue, QueueInv, OpInv
<1>3. /\ op.item \in ItemType /\ op.item.kind \in Kinds /\ op.item.sink \in Nat
      /\ op.item.sink # 0 => op.item.sink = op.sink /\ op.item.kind = "Chunk"
  BY <1>2 DEF Fits, FitsItem, ItemType
<1>4. /\ sinks \in Seq(SinkType) /\ Len(sinks) \in Nat /\ held \in [Entries -> 0..Len(sinks)]
      /\ op.sink # 0 => op.sink \in DOMAIN sinks
  BY <1>1 DEF TypeOK, MemOK
<1>5. Grown(sinks, sinks)
  BY <1>4 DEF Grown
<1>6. op.sink # 0 => Grown(sinks, SentDelta(op.sink))
  <2> SUFFICES ASSUME op.sink # 0 PROVE Grown(sinks, SentDelta(op.sink))
    OBVIOUS
  <2> DEFINE r == [sinks[op.sink] EXCEPT !.sent = TRUE]
  <2>1. op.sink \in DOMAIN sinks /\ sinks[op.sink] \in SinkType
    BY <1>4
  <2>2. r \in SinkType /\ r.done = sinks[op.sink].done
    BY <2>1 DEF SinkType
  <2>3. SentDelta(op.sink) = [sinks EXCEPT ![op.sink] = r]
    BY DEF SentDelta
  <2> HIDE DEF r
  <2> QED BY <1>4, <2>1, <2>2, <2>3, OneSink
<1>7. op.sink # 0 => Grown(sinks, DoneBy(op.sink)) /\ DoneBy(op.sink)[op.sink].done
  BY <1>1, <1>4, EndedGrown DEF DoneBy
<1>8. CASE op.item.kind = "Opening"
  <2>1. op' = [op EXCEPT !.at = "ready", !.item = NoItem] /\ sinks' = sinks /\ held' = held
    BY <1>2, <1>8 DEF Continues
  <2>2. op' \in OpType /\ op'.sink = op.sink /\ op'.at = "ready" /\ op'.job = op.job /\ op'.turn = op.turn
        /\ op'.entry = op.entry /\ op'.item = NoItem
    BY <2>1, <1>1 DEF OpType
  <2>3. NeedsTurn(op) /\ op.item.sink = 0
    BY <1>2, <1>3, <1>8 DEF Fits, FitsItem, NeedsTurn
  <2> QED BY <1>1, <1>4, <1>5, <2>1, <2>2, <2>3
<1>9. CASE op.item.kind # "Opening" /\ op.job = "complete" /\ op.left > 1
  <2>1. /\ op' = [op EXCEPT !.at = "more", !.item = NoItem, !.left = op.left - 1]
        /\ sinks' \in {sinks, SentDelta(op.sink)} /\ (op.sink = 0 => sinks' = sinks) /\ held' = held
    BY <1>2, <1>9 DEF Continues
  <2>2. op.left - 1 \in Nat
    BY <1>1, <1>9
  <2>3. op' \in OpType /\ op'.sink = op.sink /\ op'.at = "more" /\ op'.job = op.job /\ op'.turn = op.turn
        /\ op'.entry = op.entry /\ op'.item = NoItem
    BY <2>1, <2>2, <1>1 DEF OpType
  <2>4. NeedsTurn(op) /\ ~(op.item.sink # 0 /\ op.item.body = "end")
    BY <1>2, <1>3, <1>9 DEF Fits, FitsItem, NeedsTurn
  <2> QED BY <1>1, <1>4, <1>5, <1>6, <2>1, <2>3, <2>4
<1>10. CASE op.item.kind # "Opening" /\ ~(op.job = "complete" /\ op.left > 1)
  <2>1. /\ op' = IF op.job = "open" THEN [op EXCEPT !.at = "ready", !.item = NoItem, !.sink = 0] ELSE NoOp
        /\ sinks' = IF op.sink = 0 THEN sinks ELSE IF op.job = "send" THEN SentDelta(op.sink) ELSE DoneBy(op.sink)
        /\ held' = IF op.job \in {"complete", "discard"} THEN [held EXCEPT ![op.entry] = 0] ELSE held
    BY <1>2, <1>10 DEF Continues
  <2>2. /\ op' \in OpType /\ op'.sink = 0 /\ op'.at \in {"none", "ready"}
        /\ op'.at # "none" => /\ op'.job = op.job /\ op'.turn = op.turn /\ op'.entry = op.entry
                              /\ op'.item = NoItem /\ NeedsTurn(op)
    <3>1. CASE op.job = "open"
      BY <2>1, <3>1, <1>1 DEF OpType, NeedsTurn
    <3>2. CASE op.job # "open"
      BY <2>1, <3>2, NoneTypes
    <3> QED BY <3>1, <3>2
  <2>3. held' \in [Entries -> 0..Len(sinks)]
    <3>1. 0 \in 0..Len(sinks)
      BY <1>4
    <3> QED BY <3>1, <1>4, <2>1
  <2>4. Grown(sinks, sinks')
    BY <1>5, <1>6, <1>7, <2>1
  <2>5. op.item.sink # 0 /\ op.item.body = "end" => sinks'[op.item.sink].done
    <3> SUFFICES ASSUME op.item.sink # 0, op.item.body = "end" PROVE sinks'[op.item.sink].done
      OBVIOUS
    <3>1. op.sink # 0 /\ op.sink = op.item.sink /\ op.job # "send"
      BY <1>2, <1>3 DEF Fits, FitsItem
    <3> QED BY <1>7, <2>1, <3>1
  <2> QED BY <1>4, <2>2, <2>3, <2>4, <2>5
<1> QED BY <1>8, <1>9, <1>10

\* An item takes its place in the queue.
LEMMA EnqueueTypes == ASSUME QueueInv, Enqueue PROVE TypeOK'
<1>1. TypeOK
  BY DEF QueueInv
<1>2. /\ items' = items /\ store' = store /\ UNCHANGED flagVars /\ turns' = TurnsAfter(op.item)
      /\ tip' = IF op.item.kind \in {"WholeMessage", "Opening"} THEN op.item.message ELSE tip
  BY DEF Enqueue
<1>3. past \in PastType /\ Len(items) \in Ids
  BY <1>1, EnqueuedIs, QueueTypes DEF TypeOK, ItemsOK
<1>4. ItemsOK'
  <2>1. past' \in PastType /\ past'.taken = past.taken
    <3>1. CASE past' = past
      BY <1>3, <3>1
    <3>2. CASE past' = [past EXCEPT !.unsent = @ \cup {Len(items)}]
      BY <1>3, <3>2 DEF PastType
    <3> QED BY <3>1, <3>2, EnqueuedIs
  <2> QED BY <1>1, <1>2, <2>1 DEF TypeOK, ItemsOK
<1>5. QueueOK'
  <2>1. CASE UNCHANGED <<queue, worker>>
    BY <1>1, <1>2, <2>1, SameQueue DEF TypeOK
  <2>2. CASE ~stopped.is
    <3> DEFINE ids == Append(queue.ids, Len(items))
               dropped == queue.dropped \ {op.item.entry}
    <3>1. ids \in Seq(DOMAIN items) /\ dropped \subseteq Entries /\ Len(items) \in 0..Len(items)
      BY <1>1, EnqueuedIs, QueueTypes
    <3>2. queue' = [queue EXCEPT !.ids = ids, !.last = Len(items), !.dropped = dropped, !.running = TRUE]
      BY <2>2, EnqueuedIs
    <3> HIDE DEF ids, dropped
    <3>3. queue \in [ids : Seq(DOMAIN items), dropped : SUBSET Entries, failure : Nat,
                     running : BOOLEAN, last : 0..Len(items)]
      BY <1>1 DEF TypeOK, QueueOK
    <3>4. queue' \in [ids : Seq(DOMAIN items), dropped : SUBSET Entries, failure : Nat,
                      running : BOOLEAN, last : 0..Len(items)]
      BY <3>1, <3>2, <3>3
    <3>5. worker' \in {worker, [worker EXCEPT !.at = "look"]}
      BY <2>2, EnqueuedIs
    <3>6. worker' \in [at : {"idle", "look", "trying", "pause", "ending", "removing", "aborted"},
                       how : {"delivered", "refused", "unsent"}, item : 0..Len(items)]
      BY <1>1, <3>5 DEF TypeOK, QueueOK
    <3> QED BY <1>1, <1>2, <3>4, <3>6 DEF TypeOK, QueueOK
  <2> QED BY <2>1, <2>2, EnqueuedIs
<1>6. Len(sinks') = Len(sinks) /\ sinks' \in Seq(SinkType)
  BY ContinuesIs DEF Grown
<1>7. MemOK'
  <2>1. turns' \in [Turns -> TurnType]
    BY <1>1, <1>2, EnqueuedIs, TurnsAfterTypes
  <2>2. tip' \in Messages
    BY <1>1, <1>2, EnqueuedIs DEF TypeOK, MemOK, Messages, Fits, FitsItem, ItemType
  <2> QED BY <1>6, <2>1, <2>2, ContinuesIs DEF MemOK
<1>8. FlagsOK'
  BY <1>1, <1>2, SameFlags DEF TypeOK
<1>9. CallsOK'
  <2>1. wait' \in WaitType
    BY <1>1, EnqueuedIs, BumpedTypes DEF TypeOK, CallsOK
  <2> QED BY <1>6, <2>1, ContinuesIs DEF CallsOK
<1> QED BY <1>4, <1>5, <1>7, <1>8, <1>9 DEF TypeOK

\* The delivery task moves on.
WorkerType ==
  [at : {"idle", "look", "trying", "pause", "ending", "removing", "aborted"},
   how : {"delivered", "refused", "unsent"}, item : 0..Len(items)]

\* A step that changes the delivery task alone, beside the parts that keep their types.
LEMMA WorkerStepTypes ==
  ASSUME TypeOK, UNCHANGED <<items, op, wait, memVars>>, worker' \in WorkerType,
         past' \in PastType, past'.taken \subseteq DOMAIN items, store' \in Seq(DOMAIN items), FlagsOK',
         queue' \in [ids : Seq(DOMAIN items), dropped : SUBSET Entries, failure : Nat,
                     running : BOOLEAN, last : 0..Len(items)]
  PROVE  TypeOK'
<1>1. ItemsOK'
  BY DEF TypeOK, ItemsOK
<1>2. QueueOK'
  BY DEF QueueOK, WorkerType
<1>3. MemOK' /\ CallsOK'
  BY SameMem, SameCalls DEF TypeOK, memVars
<1> QED BY <1>1, <1>2, <1>3 DEF TypeOK

\* The steps of the delivery task, but for the end of an item.
LEMMA WorkerTypes ==
  ASSUME QueueInv, WorkerEnds \/ WorkerLooks \/ Delivered \/ AttemptFails \/ PauseEnds
         \/ Refused \/ RemoveEnds \/ WorkerAborted
  PROVE  TypeOK'
<1> DEFINE QT == [ids : Seq(DOMAIN items), dropped : SUBSET Entries, failure : Nat,
                  running : BOOLEAN, last : 0..Len(items)]
<1>1. TypeOK /\ WorkerInv /\ LineInv
  BY DEF QueueInv
<1>2. /\ queue \in QT /\ worker \in WorkerType /\ past \in PastType /\ store \in Seq(DOMAIN items)
      /\ past.taken \subseteq DOMAIN items
  BY <1>1 DEF TypeOK, QueueOK, ItemsOK, WorkerType
<1>3. ASSUME NEW place \in {"idle", "look", "trying", "pause", "ending", "removing", "aborted"}, Step(place)
      PROVE  worker' \in WorkerType
  BY <1>2, <1>3 DEF Step, WorkerType
<1>4. UNCHANGED flagVars => FlagsOK'
  BY <1>1, SameFlags DEF TypeOK
<1>5. worker.at = "trying" => H \in Ids /\ H \in Nat /\ H \in DOMAIN items
  BY <1>1, HeadTypes, QueueTypes
<1>6. worker.at = "trying" => /\ [past EXCEPT !.taken = @ \cup {H}] \in PastType
                             /\ [past EXCEPT !.taken = @ \cup {H}].taken \subseteq DOMAIN items
  BY <1>2, <1>5 DEF PastType
<1>7. CASE WorkerEnds
  <2>1. queue' \in QT
    BY <1>2, <1>7 DEF WorkerEnds
  <2>2. worker' \in WorkerType
    BY <1>3, <1>7 DEF WorkerEnds
  <2> QED BY <1>1, <1>2, <1>4, <1>7, <2>1, <2>2, WorkerStepTypes DEF WorkerEnds
<1>8. CASE WorkerLooks
  <2>1. Head(queue.ids) \in 0..Len(items)
    <3>1. Head(queue.ids) \in DOMAIN items
      BY <1>1, <1>8, QueueTypes, HeadIn, Zenon DEF WorkerLooks
    <3> QED BY <1>1, <3>1, QueueTypes
  <2>2. PICK place \in {"ending", "trying"} : worker' = [at |-> place, how |-> "unsent", item |-> Head(queue.ids)]
    BY <1>8 DEF WorkerLooks
  <2>3. worker' \in WorkerType
    BY <2>1, <2>2 DEF WorkerType
  <2> QED BY <1>1, <1>2, <1>4, <1>8, <2>3, WorkerStepTypes DEF WorkerLooks
<1>9. CASE Delivered
  <2>1. worker' \in WorkerType
    BY <1>2, <1>9 DEF Delivered, Ending, WorkerType
  <2>2. past' \in PastType /\ past'.taken \subseteq DOMAIN items
    BY <1>6, <1>9 DEF Delivered
  <2> QED BY <1>1, <1>2, <1>4, <1>9, <2>1, <2>2, WorkerStepTypes DEF Delivered
<1>10. CASE AttemptFails
  <2>1. worker' \in WorkerType
    BY <1>3, <1>10 DEF AttemptFails
  <2>2. past' \in PastType /\ past'.taken \subseteq DOMAIN items
    BY <1>2, <1>6, <1>10 DEF AttemptFails
  <2>3. queue' \in QT
    BY <1>2, <1>5, <1>10 DEF AttemptFails
  <2> QED BY <1>1, <1>2, <1>4, <1>10, <2>1, <2>2, <2>3, WorkerStepTypes DEF AttemptFails
<1>11. CASE PauseEnds
  <2>1. worker' \in WorkerType
    BY <1>3, <1>11 DEF PauseEnds
  <2> QED BY <1>1, <1>2, <1>4, <1>11, <2>1, WorkerStepTypes DEF PauseEnds
<1>12. CASE Refused
  <2>1. worker' \in WorkerType
    BY <1>2, <1>12 DEF Refused, Ending, WorkerType
  <2>2. FlagsOK'
    <3>1. Message(H) \in Turns \cup Inputs
      BY <1>1, <1>12, HeadTypes DEF Refused
    <3>2. refused' \subseteq Turns \cup Inputs
      BY <1>1, <1>12, <3>1 DEF Refused, TypeOK, FlagsOK
    <3> QED BY <1>1, <1>12, <3>2 DEF Refused, TypeOK, FlagsOK
  <2> QED BY <1>1, <1>2, <1>12, <2>1, <2>2, WorkerStepTypes DEF Refused
<1>13. CASE RemoveEnds
  <2>1. worker' \in WorkerType
    BY <1>3, <1>13 DEF RemoveEnds
  <2>2. store' \in Seq(DOMAIN items)
    <3>1. CASE store' = store
      BY <1>2, <3>1
    <3>2. ASSUME NEW k \in DOMAIN store, store' = RemoveAt(store, k) PROVE store' \in Seq(DOMAIN items)
      BY <1>1, <1>2, <3>2, QueueTypes, RemoveLine DEF LineInv
    <3> QED BY <1>13, <3>1, <3>2 DEF RemoveEnds
  <2> QED BY <1>1, <1>2, <1>4, <1>13, <2>1, <2>2, WorkerStepTypes DEF RemoveEnds
<1>14. CASE WorkerAborted
  <2>1. worker' \in WorkerType
    BY <1>3, <1>14 DEF WorkerAborted
  <2> QED BY <1>1, <1>2, <1>4, <1>14, <2>1, WorkerStepTypes DEF WorkerAborted
<1> QED BY <1>7, <1>8, <1>9, <1>10, <1>11, <1>12, <1>13, <1>14

\* The end of an item.
LEMMA EndItemIs ==
  ASSUME QueueInv, EndItem
  PROVE  /\ worker.at = "ending" /\ queue.ids # <<>> /\ H = Head(queue.ids) /\ H \in DOMAIN items /\ H \in Ids
         /\ Tail(queue.ids) \in Seq(DOMAIN items) /\ DroppedBy(worker.how) \subseteq Entries
         /\ queue' = [queue EXCEPT !.ids = Tail(queue.ids), !.failure = 0, !.dropped = DroppedBy(worker.how)]
         /\ past' = [past EXCEPT !.end = [past.end EXCEPT ![H] = worker.how]]
         /\ past.end \in [Ids -> {"none", "kept", "delivered", "refused", "unsent"}]
         /\ wait' = Bumped(wait) /\ worker' = [worker EXCEPT !.at = "removing"]
         /\ worker.how \in {"delivered", "refused", "unsent"}
<1>1. TypeOK /\ WorkerInv /\ worker.at = "ending"
  BY DEF QueueInv, EndItem
<1>2. /\ queue.ids # <<>> /\ H = Head(queue.ids) /\ H \in DOMAIN items /\ H \in Ids /\ items[H] \in ItemType
      /\ Tail(queue.ids) \in Seq(DOMAIN items)
  BY <1>1, HeadTypes
<1>3. DroppedBy(worker.how) \subseteq Entries
  BY <1>1, <1>2, QueueTypes DEF DroppedBy, ItemType
<1>4. past.end \in [Ids -> {"none", "kept", "delivered", "refused", "unsent"}] /\ worker.how \in {"delivered", "refused", "unsent"}
  BY <1>1 DEF TypeOK, ItemsOK, PastType, QueueOK
<1> QED BY <1>1, <1>2, <1>3, <1>4 DEF EndItem, BumpedAtEnd, Step

\* It leaves the queue (EndItem).
LEMMA EndItemTypes == ASSUME QueueInv, EndItem PROVE TypeOK'
<1>1. TypeOK /\ UNCHANGED <<items, store, op, memVars, refused, stopped, scope>>
  BY DEF QueueInv, EndItem
<1>2. ItemsOK'
  <2>1. past \in PastType
    BY <1>1 DEF TypeOK, ItemsOK
  <2> DEFINE ends == [past.end EXCEPT ![H] = worker.how]
  <2>2. ends \in [Ids -> {"none", "kept", "delivered", "refused", "unsent"}]
    BY EndItemIs
  <2>3. past' = [past EXCEPT !.end = ends]
    BY EndItemIs
  <2> HIDE DEF ends
  <2>4. past' \in PastType /\ past'.taken = past.taken
    BY <2>1, <2>2, <2>3 DEF PastType
  <2> QED BY <1>1, <2>4 DEF TypeOK, ItemsOK
<1>3. QueueOK'
  <2>1. queue' \in [ids : Seq(DOMAIN items), dropped : SUBSET Entries, failure : Nat,
                    running : BOOLEAN, last : 0..Len(items)]
    <3> DEFINE ids == Tail(queue.ids)
               dropped == DroppedBy(worker.how)
    <3>1. ids \in Seq(DOMAIN items) /\ dropped \in SUBSET Entries
      BY EndItemIs
    <3>2. queue' = [queue EXCEPT !.ids = ids, !.failure = 0, !.dropped = dropped]
      BY EndItemIs
    <3>3. queue \in [ids : Seq(DOMAIN items), dropped : SUBSET Entries, failure : Nat,
                     running : BOOLEAN, last : 0..Len(items)]
      BY <1>1 DEF TypeOK, QueueOK
    <3> HIDE DEF ids, dropped
    <3> QED BY <3>1, <3>2, <3>3
  <2>2. worker' \in WorkerType
    <3>1. worker \in WorkerType
      BY <1>1 DEF TypeOK, QueueOK, WorkerType
    <3>2. worker' = [worker EXCEPT !.at = "removing"]
      BY EndItemIs
    <3> QED BY <3>1, <3>2 DEF WorkerType
  <2> QED BY <1>1, <2>1, <2>2 DEF TypeOK, QueueOK, WorkerType
<1>4. MemOK'
  BY <1>1, SameMem DEF TypeOK
<1>5. FlagsOK'
  <2>1. Message(H) \in Turns \cup Inputs
    BY <1>1, EndItemIs, QueueTypes DEF ItemType, Message
  <2>2. broken' \subseteq Turns \cup Inputs
    BY <1>1, <2>1 DEF EndItem, TypeOK, FlagsOK
  <2> QED BY <1>1, <2>2 DEF TypeOK, FlagsOK
<1>6. CallsOK'
  <2>1. wait' \in WaitType /\ sinks' = sinks
    BY <1>1, EndItemIs, BumpedTypes DEF TypeOK, CallsOK, memVars
  <2> QED BY <1>1, <2>1 DEF TypeOK, CallsOK
<1> QED BY <1>2, <1>3, <1>4, <1>5, <1>6 DEF TypeOK

\* A caller that waits.
LEMMA WaitTypes ==
  ASSUME TypeOK, UNCHANGED <<items, store, queue, worker, op, flagVars>>, wait' \in WaitType, past' \in PastType,
         past'.taken = past.taken,
         UNCHANGED <<turns, held, sinks>>, tip' \in Messages
  PROVE  TypeOK'
<1>1. ItemsOK' /\ MemOK'
  BY DEF TypeOK, ItemsOK, MemOK
<1>2. QueueOK' /\ FlagsOK'
  BY SameQueue, SameFlags DEF TypeOK
<1>3. CallsOK'
  BY DEF TypeOK, CallsOK
<1> QED BY <1>1, <1>2, <1>3 DEF TypeOK

\* The steps of a caller that waits, but for the purge of an agent.
LEMMA WaitingTypes ==
  ASSUME QueueInv,
         \/ \E e \in Entries : EntryStored(e)
         \/ \E a \in Agents : InstanceEnded(a)
         \/ Read \/ EndedAsks \/ WaitLooks \/ WaitWakes \/ ReadAnswered \/ ReadReturns
  PROVE  TypeOK'
<1>1. TypeOK /\ wait \in WaitType /\ past \in PastType /\ tip \in Messages
  BY DEF QueueInv, TypeOK, CallsOK, ItemsOK, MemOK
<1>2. queue.last \in Nat
  BY <1>1, QueueTypes
<1>3. ASSUME NEW e \in Entries, EntryStored(e) PROVE TypeOK'
  <2>1. wait' \in WaitType
    BY <1>3 DEF EntryStored, Calls, WaitType, NoWait, Messages
  <2> QED BY <1>1, <1>3, <2>1, WaitTypes DEF EntryStored, Calls, memVars
<1>4. ASSUME NEW a \in Agents, InstanceEnded(a) PROVE TypeOK'
  <2>1. PICK b \in BOOLEAN : wait' = [NoWait EXCEPT !.at = "asks", !.what = "ended", !.agent = a, !.since = queue.last, !.holds = b]
    BY <1>4 DEF InstanceEnded, Calls, HoldsItem
  <2>2. wait' \in WaitType
    BY <1>2, <2>1 DEF WaitType, NoWait, Messages
  <2>3. past' \in PastType /\ past'.taken = past.taken
    <3>1. OfAgent(a) \cap Turns \subseteq Turns
      OBVIOUS
    <3> QED BY <1>1, <1>4, <3>1 DEF InstanceEnded, PastType
  <2> QED BY <1>1, <1>4, <2>2, <2>3, WaitTypes DEF InstanceEnded, Calls, memVars
<1>5. CASE Read
  <2>1. wait' \in WaitType
    BY <1>2, <1>5 DEF Read, Calls, WaitType, NoWait, Messages
  <2> QED BY <1>1, <1>5, <2>1, WaitTypes DEF Read, Calls, memVars
<1>6. CASE EndedAsks
  <2>1. wait' \in WaitType
    BY <1>1, <1>2, <1>6, NoneTypes DEF EndedAsks, WaitType
  <2>2. past' \in PastType /\ past'.taken = past.taken
    <3>1. CASE past' = past
      BY <1>1, <3>1
    <3>2. CASE past' = [past EXCEPT !.ended = @ \cup {wait.agent}]
      <4>1. wait.agent \in Agents
        BY <1>6 DEF EndedAsks, QueueInv, WaitInv
      <4> QED BY <1>1, <3>2, <4>1 DEF PastType
    <3> QED BY <1>6, <3>1, <3>2 DEF EndedAsks
  <2> QED BY <1>1, <1>6, <2>1, <2>2, WaitTypes DEF EndedAsks, memVars
<1>7. CASE WaitLooks
  <2>1. wait' \in WaitType
    <3>1. CASE wait' = [wait EXCEPT !.at = "parked", !.fresh = FALSE]
      BY <1>1, <3>1 DEF WaitType
    <3>2. CASE wait' = NoWait
      BY <3>2, NoneTypes
    <3>3. CASE wait' = [wait EXCEPT !.at = "asking"] \/ wait' = [wait EXCEPT !.at = "purge"]
      BY <1>1, <3>3 DEF WaitType
    <3> QED BY <1>7, <3>1, <3>2, <3>3 DEF WaitLooks
  <2> QED BY <1>1, <1>7, <2>1, WaitTypes DEF WaitLooks, memVars
<1>8. CASE WaitWakes
  <2>1. wait' \in WaitType
    BY <1>1, <1>8 DEF WaitWakes, WaitType
  <2> QED BY <1>1, <1>8, <2>1, WaitTypes DEF WaitWakes, memVars
<1>9. CASE ReadAnswered
  <2>1. LastTaken \in Messages
    <3> DEFINE S == {i \in past.taken : IsMessage(i)}
               c == CHOOSE i \in S : \A j \in S : j <= i
    <3>1. CASE S = {}
      BY <3>1 DEF LastTaken, Messages
    <3>2. CASE S # {}
      <4>1. LastTaken = Message(c)
        BY <3>2 DEF LastTaken
      <4>2. c \in DOMAIN items
        <5>1. S \subseteq DOMAIN items
          BY <1>1 DEF TypeOK, ItemsOK
        <5>2. S \subseteq 0..Len(items) /\ Len(items) \in Nat
          BY <1>1, <5>1, QueueTypes
        <5>3. \E i \in S : \A j \in S : j <= i
          BY <3>2, <5>2, Greatest
        <5> QED BY <5>1, <5>3
      <4> HIDE DEF c
      <4> QED BY <1>1, <4>1, <4>2, QueueTypes DEF Message, ItemType, Messages
    <3> QED BY <3>1, <3>2
  <2>2. wait' \in WaitType
    BY <1>1, <1>9, <2>1, NoneTypes DEF ReadAnswered, WaitType
  <2> QED BY <1>1, <1>9, <2>2, WaitTypes DEF ReadAnswered, memVars
<1>10. CASE ReadReturns
  <2>1. wait' \in WaitType /\ tip' \in Messages
    BY <1>1, <1>10, NoneTypes DEF ReadReturns, WaitType
  <2> QED BY <1>1, <1>10, <2>1, WaitTypes DEF ReadReturns
<1> QED BY <1>3, <1>4, <1>5, <1>6, <1>7, <1>8, <1>9, <1>10

\* A response that is over.
LEMMA DoneSink ==
  ASSUME NEW r \in SinkType
  PROVE  [r EXCEPT !.done = TRUE] \in SinkType /\ [r EXCEPT !.done = TRUE].done
BY DEF SinkType

\* What is left when the agent is purged.
LEMMA PurgeIs ==
  ASSUME QueueInv, Purge
  PROVE  /\ op.at = "none" /\ wait.at = "purge" /\ wait' = NoWait /\ wait.agent \in Agents
         /\ UNCHANGED <<items, store, queue, worker, op, tip, refused, stopped, scope>>
         /\ turns' = TurnsWithout(wait.agent) /\ turns' \in [Turns -> TurnType]
         /\ broken' \subseteq broken
         /\ Grown(sinks, sinks') /\ held' \in [Entries -> 0..Len(sinks)]
         /\ past' = [past EXCEPT !.ended = past.ended \cup {wait.agent}]
<1>1. TypeOK /\ wait.at = "purge" /\ op.at = "none" /\ wait' = NoWait /\ wait.agent \in Agents
  BY DEF QueueInv, Purge, WaitInv
<1>2. turns' \in [Turns -> TurnType]
  <2>1. NoTurn \in TurnType
    BY DEF NoTurn, TurnType
  <2>2. turns \in [Turns -> TurnType] /\ turns' = TurnsWithout(wait.agent)
    BY <1>1 DEF TypeOK, MemOK, Purge
  <2> QED BY <2>1, <2>2 DEF TurnsWithout
<1>3. sinks \in Seq(SinkType) /\ Len(sinks) \in Nat /\ held \in [Entries -> 0..Len(sinks)]
  BY <1>1 DEF TypeOK, MemOK
<1>4. PICK gone : /\ held' = [e \in Entries |-> IF e \in gone THEN 0 ELSE held[e]]
                  /\ sinks' = [s \in DOMAIN sinks |-> IF \E e \in gone : held[e] = s
                                                     THEN [sinks[s] EXCEPT !.done = TRUE] ELSE sinks[s]]
  BY DEF Purge
<1>5. held' \in [Entries -> 0..Len(sinks)]
  BY <1>3, <1>4
<1>6. Grown(sinks, sinks')
  <2>1. \A s \in DOMAIN sinks : /\ [sinks[s] EXCEPT !.done = TRUE] \in SinkType
                                /\ sinks[s] \in SinkType /\ [sinks[s] EXCEPT !.done = TRUE].done
    <3>1. \A s \in DOMAIN sinks : sinks[s] \in SinkType
      BY <1>3
    <3> QED BY <3>1, DoneSink, Zenon
  <2>2. \A s \in DOMAIN sinks : sinks'[s] \in SinkType /\ (sinks[s].done => sinks'[s].done)
    BY <1>4, <2>1
  <2>3. DOMAIN sinks' = 1..Len(sinks) /\ DOMAIN sinks = 1..Len(sinks)
    BY <1>3, <1>4
  <2>4. sinks' \in [1..Len(sinks) -> SinkType]
    BY <1>4, <2>2, <2>3
  <2>5. sinks' \in Seq(SinkType) /\ Len(sinks') = Len(sinks)
    BY <1>3, <2>4
  <2> QED BY <2>2, <2>5 DEF Grown
<1> QED BY <1>1, <1>2, <1>5, <1>6 DEF Purge

\* The types after it.
LEMMA PurgeTypes == ASSUME QueueInv, Purge PROVE TypeOK'
<1>1. TypeOK
  BY DEF QueueInv
<1>2. ItemsOK'
  <2>1. past \in PastType
    BY <1>1 DEF TypeOK, ItemsOK
  <2>2. past' \in PastType /\ past'.taken = past.taken
    BY <2>1, PurgeIs DEF PastType
  <2> QED BY <1>1, <2>2, PurgeIs DEF TypeOK, ItemsOK
<1>3. QueueOK'
  BY <1>1, PurgeIs, SameQueue DEF TypeOK
<1>4. Len(sinks') = Len(sinks) /\ sinks' \in Seq(SinkType)
  BY PurgeIs DEF Grown
<1>5. MemOK'
  BY <1>1, <1>4, PurgeIs DEF TypeOK, MemOK
<1>6. FlagsOK'
  BY <1>1, PurgeIs DEF TypeOK, FlagsOK
<1>7. CallsOK'
  BY <1>1, <1>4, PurgeIs, NoneTypes DEF TypeOK, CallsOK
<1> QED BY <1>2, <1>3, <1>5, <1>6, <1>7 DEF TypeOK

\* The drop of the adapter.
LEMMA DropTypes == ASSUME QueueInv, DropBegins \/ DropReports PROVE TypeOK'
<1>1. TypeOK /\ past \in PastType /\ stopped \in [is : BOOLEAN, told : BOOLEAN]
  BY DEF QueueInv, TypeOK, ItemsOK, FlagsOK
<1>2. UNCHANGED <<items, store, queue, worker, op, wait, memVars, refused, broken, scope>>
  BY DEF DropBegins, DropReports
<1>3. past' \in PastType /\ past'.taken = past.taken
  <2>1. CASE DropBegins
    BY <1>1, <2>1 DEF DropBegins
  <2>2. CASE DropReports
    <3>1. ToSet(queue.ids) \subseteq Ids
      BY <1>1, QueueTypes
    <3> QED BY <1>1, <2>2, <3>1 DEF DropReports, PastType
  <2> QED BY <2>1, <2>2
<1>4. stopped' \in [is : BOOLEAN, told : BOOLEAN]
  <2>1. CASE DropBegins
    BY <2>1 DEF DropBegins
  <2>2. CASE DropReports
    BY <1>1, <2>2 DEF DropReports
  <2> QED BY <2>1, <2>2
<1>5. ItemsOK' /\ FlagsOK'
  BY <1>1, <1>2, <1>3, <1>4 DEF TypeOK, ItemsOK, FlagsOK
<1>6. QueueOK' /\ MemOK' /\ CallsOK'
  BY <1>1, <1>2, SameQueue, SameMem, SameCalls DEF TypeOK, memVars
<1> QED BY <1>5, <1>6 DEF TypeOK

\* What the new adapter starts with (Restart).
LEMMA RestartIs ==
  ASSUME QueueInv, Restart
  PROVE  /\ queue'.ids = store /\ queue'.dropped = {} /\ queue'.last \in 0..Len(items)
         /\ QueueOK' /\ worker'.at \in {"idle", "look"} /\ op' = NoOp /\ wait' = NoWait /\ stopped'.is = FALSE
         /\ turns' = [t \in Turns |-> NoTurn] /\ Grown(sinks, sinks') /\ UNCHANGED <<items, store>>
         /\ past' \in PastType /\ past'.taken = past.taken /\ past'.end = past.end /\ past'.crashes = past.crashes + 1
         /\ \A t \in Turns : (\E i \in DOMAIN items : Message(i) = t) => t \in past'.gone
<1>1. TypeOK /\ past \in PastType /\ store \in Seq(DOMAIN items) /\ Len(items) \in Nat
  BY QueueTypes DEF QueueInv, TypeOK, ItemsOK
<1> DEFINE last == IF store = <<>> THEN 0 ELSE Last(store)
<1>2. last \in 0..Len(items)
  <2>1. CASE store = <<>>
    BY <1>1, <2>1
  <2>2. CASE store # <<>>
    <3>1. Len(store) \in DOMAIN store
      BY <1>1, <2>2
    <3>2. Last(store) \in DOMAIN items
      BY <1>1, <3>1 DEF Last
    <3> QED BY <1>1, <2>2, <3>2, QueueTypes
  <2> QED BY <2>1, <2>2
<1>3. PICK b \in BOOLEAN : b = (store # <<>>)
  OBVIOUS
<1>4. queue' = [EmptyQueue EXCEPT !.ids = store, !.running = b, !.last = last]
  BY <1>3 DEF Restart, Leftovers
<1> HIDE DEF last
<1>5. /\ queue'.ids = store /\ queue'.dropped = {} /\ queue'.last = last
      /\ queue' \in [ids : Seq(DOMAIN items), dropped : SUBSET Entries, failure : Nat,
                     running : BOOLEAN, last : 0..Len(items)]
  BY <1>1, <1>2, <1>4 DEF EmptyQueue
<1>6. worker' \in WorkerType /\ worker'.at \in {"idle", "look"}
  <2>1. PICK place \in {"idle", "look"} : worker' = [at |-> place, how |-> "delivered", item |-> 0]
    BY DEF Restart
  <2> QED BY <1>1, <2>1 DEF WorkerType
<1>7. QueueOK'
  BY <1>1, <1>5, <1>6 DEF QueueOK, WorkerType, Restart
<1>8. Grown(sinks, sinks')
  <2>1. sinks \in Seq(SinkType) /\ Len(sinks) \in Nat
    BY <1>1 DEF TypeOK, MemOK
  <2>2. sinks' = [s \in DOMAIN sinks |-> [sinks[s] EXCEPT !.done = TRUE]]
    BY DEF Restart
  <2>3. \A s \in DOMAIN sinks : [sinks[s] EXCEPT !.done = TRUE] \in SinkType /\ [sinks[s] EXCEPT !.done = TRUE].done
    <3>1. \A s \in DOMAIN sinks : sinks[s] \in SinkType
      BY <2>1
    <3> QED BY <3>1, DoneSink, Zenon
  <2>4. sinks' \in [1..Len(sinks) -> SinkType]
    BY <2>1, <2>2, <2>3
  <2>5. sinks' \in Seq(SinkType) /\ Len(sinks') = Len(sinks)
    BY <2>1, <2>4
  <2> QED BY <2>2, <2>3, <2>5 DEF Grown
<1>9. /\ past' \in PastType /\ past'.taken = past.taken /\ past'.end = past.end /\ past'.crashes = past.crashes + 1
      /\ \A t \in Turns : (\E i \in DOMAIN items : Message(i) = t) => t \in past'.gone
  <2> DEFINE gone == past.gone \cup {t \in Turns : \E i \in DOMAIN items : Message(i) = t}
  <2>1. past' = [past EXCEPT !.crashes = past.crashes + 1, !.unsent = {}, !.ended = Agents, !.gone = gone]
    BY DEF Restart
  <2>2. gone \subseteq Turns /\ past.crashes + 1 \in Nat
    BY <1>1 DEF PastType
  <2>3. \A t \in Turns : (\E i \in DOMAIN items : Message(i) = t) => t \in gone
    OBVIOUS
  <2> HIDE DEF gone
  <2>4. past' \in PastType /\ past'.taken = past.taken /\ past'.end = past.end /\ past'.crashes = past.crashes + 1 /\ past'.gone = gone
    BY <1>1, <2>1, <2>2 DEF PastType
  <2> QED BY <2>3, <2>4
<1> QED BY <1>2, <1>5, <1>6, <1>7, <1>8, <1>9 DEF Restart

\* The types of the new adapter.
LEMMA RestartTypes == ASSUME QueueInv, Restart PROVE TypeOK'
<1>1. TypeOK
  BY DEF QueueInv
<1>2. ItemsOK'
  BY <1>1, RestartIs DEF TypeOK, ItemsOK
<1>3. Len(sinks') = Len(sinks) /\ sinks' \in Seq(SinkType) /\ Len(sinks') \in Nat
  BY <1>1, RestartIs DEF Grown, TypeOK, MemOK
<1>4. MemOK'
  <2>1. NoTurn \in TurnType
    BY DEF NoTurn, TurnType
  <2>2. turns' \in [Turns -> TurnType]
    BY <2>1, RestartIs
  <2>3. held' = [e \in Entries |-> 0] /\ tip' = NoMessage /\ 0 \in 0..Len(sinks')
    BY <1>3 DEF Restart
  <2>4. held' \in [Entries -> 0..Len(sinks')] /\ tip' \in Messages
    BY <2>3 DEF Messages
  <2> QED BY <1>3, <2>2, <2>4 DEF MemOK
<1>5. FlagsOK'
  BY <1>1 DEF Restart, TypeOK, FlagsOK
<1>6. CallsOK'
  BY <1>3, RestartIs, NoneTypes DEF CallsOK
<1> QED BY <1>2, <1>4, <1>5, <1>6, RestartIs DEF TypeOK

-----------------------------------------------------------------------------
(* Turns and responses                                                     *)

\* What is said of the operation, of the turns and of the responses.
MemInv == OpInv /\ TurnInv /\ SinkInv /\ SealWhole /\ ResponseEndsOnce

\* Nothing changes of them; an agent may be gone.
LEMMA SameMemInv ==
  ASSUME MemInv, UNCHANGED <<items, op, turns, sinks>>, past.gone \subseteq past'.gone
  PROVE  MemInv'
<1>1. Landed' = Landed
  BY DEF Landed
<1>2. OpInv'
  BY <1>1 DEF MemInv, OpInv, Fits, FitsItem, NoItemOf, Message, Known, NeedsTurn
<1>3. TurnInv'
  <2>1. \A t \in Turns : ChunksOf(t, Landed)' = ChunksOf(t, Landed) /\ (NoItemOf(t, Landed) => NoItemOf(t, Landed)')
    BY <1>1 DEF ChunksOf, NoItemOf, Message
  <2> QED BY <1>1, <2>1 DEF MemInv, TurnInv, Message
<1>4. SinkInv'
  BY <1>1 DEF MemInv, SinkInv
<1>5. SealWhole' /\ ResponseEndsOnce'
  BY DEF MemInv, SealWhole, ResponseEndsOnce, Message
<1> QED BY <1>2, <1>3, <1>4, <1>5 DEF MemInv

\* The items and the turns stay, between two operations; responses end or are opened.
LEMMA RestMemInv ==
  ASSUME TypeOK, MemInv, UNCHANGED <<items, turns>>, past.gone \subseteq past'.gone,
         op.at # "enqueue", op'.at # "enqueue", SinksGrow
  PROVE  TurnInv' /\ SinkInv' /\ SealWhole' /\ ResponseEndsOnce'
<1>1. Landed' = Landed
  BY DEF Landed
<1>2. TurnInv'
  BY <1>1 DEF MemInv, TurnInv, ChunksOf, NoItemOf, Message
<1>3. SinkInv'
  <2>1. DOMAIN sinks \subseteq DOMAIN sinks'
    BY DEF SinksGrow, TypeOK, MemOK
  <2> QED BY <1>1, <2>1 DEF MemInv, SinkInv, SinksGrow
<1>4. SealWhole' /\ ResponseEndsOnce'
  BY DEF MemInv, SealWhole, ResponseEndsOnce, Message
<1> QED BY <1>2, <1>3, <1>4

\* A step of an operation.
LEMMA CallMemInv ==
  ASSUME TypeOK, MemInv, NEW o \in OpType, Known(o), op.at # "enqueue", CallStep(o)
  PROVE  MemInv'
<1>1. Rest
  BY DEF CallStep
<1>2. CASE op' = NoOp /\ SinksGrow
  <2>1. op'.at = "none"
    BY <1>2, NoneTypes
  <2>2. OpInv'
    BY <2>1 DEF OpInv
  <2> QED BY <1>1, <1>2, <2>1, <2>2, RestMemInv DEF MemInv, Rest
<1>3. CASE UNCHANGED <<sinks, held>> /\ Took(o, op')
  <2>1. op'.at \in {"append", "stopped"}
    BY <1>3 DEF Took
  <2>2. SinksGrow
    BY <1>3 DEF SinksGrow, TypeOK, MemOK
  <2>3. Landed' = Landed
    BY <1>1, <2>1 DEF Landed, Rest
  <2>4. Known(op)'
    BY <1>3 DEF Took, Known
  <2>5. Fits(op)'
    BY <1>1, <1>3, <2>3 DEF Took, Fits, FitsItem, NoItemOf, Message, Rest
  <2>6. NeedsTurn(op)' /\ op'.item.kind # "Opening" => turns'[op'.turn].at = "open"
    BY <1>1, <1>3 DEF Took, NeedsTurn, Rest
  <2>7. OpInv'
    BY <2>1, <2>4, <2>5, <2>6 DEF OpInv
  <2> QED BY <1>1, <2>1, <2>2, <2>7, RestMemInv DEF MemInv, Rest
<1> QED BY <1>2, <1>3 DEF CallStep

\* An item is kept: the one that follows what the thread remembers.
LEMMA AppendMemInv == ASSUME QueueInv, Append1 PROVE MemInv'
<1> DEFINE n == Len(items)
           item == op.item
<1>1. TypeOK /\ MemInv /\ op.at = "append" /\ Fits(op) /\ op \in OpType
  BY DEF QueueInv, MemInv, Append1, OpInv, TypeOK, CallsOK
<1>2. n \in Nat /\ DOMAIN items = 1..n
  BY <1>1, QueueTypes
<1>3. items' = Append(items, item) /\ items \in Seq(ItemType) /\ item \in ItemType
  BY <1>1 DEF Append1, TypeOK, ItemsOK, Fits, FitsItem
<1>4. /\ DOMAIN items' = 1..(n + 1) /\ Len(items') = n + 1 /\ items'[n + 1] = item
      /\ \A i \in 1..n : items'[i] = items[i]
  BY <1>2, <1>3
<1>5. /\ op'.at = "enqueue" /\ op'.item = op.item /\ op'.job = op.job /\ op'.turn = op.turn /\ op'.sink = op.sink
      /\ op'.left = op.left /\ op'.entry = op.entry
  BY <1>1 DEF Append1, OpType
<1>6. UNCHANGED <<turns, sinks>> /\ past'.gone = past.gone
  <2>1. past \in PastType /\ past' = [past EXCEPT !.end[n + 1] = "kept"]
    BY <1>1 DEF Append1, TypeOK, ItemsOK
  <2> QED BY <2>1 DEF Append1, memVars, PastType
<1>7. Landed = n /\ Landed' = n
  BY <1>1, <1>2, <1>4, <1>5 DEF Landed
<1> HIDE DEF n, item
<1>8. OpInv'
  <2>1. Known(op)'
    BY <1>1, <1>5 DEF MemInv, OpInv, Known
  <2>2. NoItemOf(item.message, Landed) => NoItemOf(item.message, Landed)'
    BY <1>4, <1>5, <1>7 DEF NoItemOf, Message, item
  <2>3. Fits(op)'
    BY <1>1, <1>5, <1>6, <2>2 DEF Fits, FitsItem, item
  <2>4. op.at # "none" /\ NeedsTurn(op) /\ op.item.kind # "Opening" => turns[op.turn].at = "open"
    BY <1>1 DEF MemInv, OpInv
  <2> QED BY <1>1, <1>5, <1>6, <2>1, <2>3, <2>4 DEF OpInv, NeedsTurn
<1>9. ASSUME NEW t PROVE ChunksOf(t, Landed)' = ChunksOf(t, Landed) /\ (NoItemOf(t, Landed) => NoItemOf(t, Landed)')
  BY <1>4, <1>7 DEF ChunksOf, NoItemOf, Message
<1>10. TurnInv'
  <2> SUFFICES ASSUME NEW t \in Turns
               PROVE  /\ turns[t].at = "open" =>
                           /\ Len(turns[t].chunks) = Cardinality(ChunksOf(t, Landed)')
                           /\ \A i \in 1..n : items'[i].kind = "Closing" => items'[i].message # t
                      /\ turns[t].at = "none" => turns[t].chunks = <<>> /\ (t \in past.gone \/ NoItemOf(t, Landed)')
    BY <1>6, <1>7 DEF TurnInv, Message
  <2> QED BY <1>1, <1>4, <1>7, <1>9 DEF MemInv, TurnInv, Message
<1>11. SinkInv'
  BY <1>1, <1>4, <1>6, <1>7 DEF MemInv, SinkInv
<1>12. SealWhole'
  <2> SUFFICES ASSUME NEW t \in Turns
               PROVE  /\ \A i \in DOMAIN items' : items'[i].kind = "Chunk" /\ items'[i].message = t
                           => items'[i].seq = Cardinality(
                                {j \in {k \in DOMAIN items' : items'[k].kind = "Chunk" /\ items'[k].message = t} : j < i})
                      /\ \A c \in DOMAIN items' : items'[c].kind = "Closing" /\ items'[c].message = t =>
                           /\ \A i \in {k \in DOMAIN items' : items'[k].kind = "Chunk" /\ items'[k].message = t} : i < c
                           /\ items'[c].seal # NoSeal =>
                                items'[c].seal = Cardinality({k \in DOMAIN items' : items'[k].kind = "Chunk" /\ items'[k].message = t})
    BY DEF SealWhole, Message
  <2> DEFINE C == {k \in DOMAIN items : items[k].kind = "Chunk" /\ items[k].message = t}
             D == {k \in DOMAIN items' : items'[k].kind = "Chunk" /\ items'[k].message = t}
  <2>1. /\ \A i \in C : items[i].seq = Cardinality({j \in C : j < i})
        /\ \A c \in DOMAIN items : items[c].kind = "Closing" /\ items[c].message = t =>
             (\A i \in C : i < c) /\ (items[c].seal # NoSeal => items[c].seal = Cardinality(C))
    BY <1>1 DEF MemInv, SealWhole, Message
  <2>2. C = ChunksOf(t, n)
    BY <1>2 DEF ChunksOf, Message
  <2>3. D = IF item.kind = "Chunk" /\ item.message = t THEN C \cup {n + 1} ELSE C
    BY <1>2, <1>4
  <2>4. C \subseteq 1..n
    BY <1>2
  <2> HIDE DEF C, D
  <2>5. ASSUME NEW i \in 1..(n + 1) PROVE {j \in D : j < i} = {j \in C : j < i}
    <3>1. ~(n + 1 < i)
      BY <1>2
    <3>2. C \subseteq D /\ D \subseteq C \cup {n + 1}
      BY <2>3
    <3> QED BY <3>1, <3>2
  <2>6. {j \in C : j < n + 1} = C
    <3>1. \A j \in 1..n : j < n + 1
      BY <1>2
    <3> HIDE DEF n
    <3> QED BY <2>4, <3>1
  <2>7. item.kind = "Chunk" /\ item.message = t =>
         item.seq = Cardinality(C) /\ \A i \in 1..n : items[i].kind = "Closing" => items[i].message # t
    BY <1>1, <1>7, <2>2 DEF Fits, FitsItem, MemInv, TurnInv, Message, item
  <2>8. item.kind = "Closing" /\ item.message = t /\ item.seal # NoSeal => item.seal = Cardinality(C)
    BY <1>1, <1>7, <2>2 DEF Fits, FitsItem, MemInv, TurnInv, item
  <2>9. ASSUME NEW i \in D PROVE items'[i].seq = Cardinality({j \in D : j < i})
    <3>1. CASE i \in C
      <4>1. i \in 1..n /\ i \in 1..(n + 1)
        BY <1>2, <2>4, <3>1
      <4> QED BY <1>4, <2>1, <2>5, <3>1, <4>1
    <3>2. CASE i \notin C
      <4>1. i = n + 1 /\ item.kind = "Chunk" /\ item.message = t
        BY <2>3, <3>2
      <4>2. i \in 1..(n + 1)
        BY <1>2, <4>1
      <4>3. {j \in D : j < i} = C
        BY <2>5, <2>6, <4>1, <4>2
      <4> QED BY <1>4, <2>7, <4>1, <4>3
    <3> QED BY <3>1, <3>2
  <2>10. ASSUME NEW c \in DOMAIN items', items'[c].kind = "Closing", items'[c].message = t
         PROVE  (\A i \in D : i < c) /\ (items'[c].seal # NoSeal => items'[c].seal = Cardinality(D))
    <3>1. CASE c \in 1..n
      <4>1. items[c].kind = "Closing" /\ items[c].message = t /\ items'[c] = items[c]
        BY <1>4, <2>10, <3>1
      <4>2. D = C
        BY <2>3, <2>7, <3>1, <4>1
      <4> QED BY <1>2, <2>1, <3>1, <4>1, <4>2
    <3>2. CASE c = n + 1
      <4>1. item.kind = "Closing" /\ item.message = t /\ items'[c] = item
        BY <1>4, <2>10, <3>2
      <4>2. D = C
        BY <2>3, <4>1
      <4>3. \A i \in C : i < n + 1
        BY <1>2, <2>4
      <4> QED BY <2>8, <3>2, <4>1, <4>2, <4>3
    <3> QED BY <1>2, <1>4, <3>1, <3>2
  <2>11. \A i \in DOMAIN items' : items'[i].kind = "Chunk" /\ items'[i].message = t => i \in D
    BY DEF D
  <2>12. D = {k \in DOMAIN items' : items'[k].kind = "Chunk" /\ items'[k].message = t}
    BY DEF D
  <2> HIDE DEF D
  <2> QED BY <2>9, <2>10, <2>11, <2>12
<1>13. ResponseEndsOnce'
  <2> SUFFICES ASSUME NEW i \in 1..(n + 1), NEW j \in 1..(n + 1), i < j,
                      items'[i].sink # 0, items'[i].sink = items'[j].sink
               PROVE  items'[i].body # "end"
    BY <1>4 DEF ResponseEndsOnce
  <2>1. i \in 1..n
    BY <1>2
  <2>2. CASE j \in 1..n
    BY <1>1, <1>2, <1>4, <2>1, <2>2 DEF MemInv, ResponseEndsOnce
  <2>3. CASE j = n + 1
    <3>1. item.sink # 0 /\ items[i].sink = item.sink /\ items'[i] = items[i]
      BY <1>4, <2>1, <2>3
    <3>2. ~sinks[item.sink].done
      BY <1>1, <3>1 DEF Fits, FitsItem, item
    <3> QED BY <1>1, <1>7, <2>1, <3>1, <3>2 DEF MemInv, SinkInv
  <2> QED BY <1>2, <2>2, <2>3
<1> QED BY <1>8, <1>10, <1>11, <1>12, <1>13 DEF MemInv

\* The turns once an item was accepted: its turn is opened, has one more chunk, or is closed.
LEMMA TurnsAfterIs ==
  ASSUME TypeOK, Fits(op), NEW t \in Turns, NEW after, after = TurnsAfter(op.item)
  PROVE  LET item == op.item IN
         /\ item.message # t => after[t] = turns[t]
         /\ item.kind = "Opening" /\ item.message = t => after[t].at = "open" /\ after[t].chunks = <<>>
         /\ item.kind = "Chunk" /\ item.message = t =>
              after[t].at = turns[t].at /\ after[t].chunks = Append(turns[t].chunks, item.body)
         /\ item.kind = "Closing" /\ item.message = t => after[t].at = "closed"
<1> DEFINE item == op.item
           m == item.message
<1>1. turns \in [Turns -> TurnType] /\ turns[t] \in TurnType /\ item \in ItemType /\ item.kind \in Kinds
  BY DEF TypeOK, MemOK, Fits, FitsItem, ItemType
<1>2. item.kind # "WholeMessage" => m \in Turns
  BY <1>1 DEF Fits, FitsItem, Kinds
<1>3. item.kind = "WholeMessage" => m # t
  BY <1>1, ThreadAssumption DEF Fits, FitsItem
<1>4. CASE item.kind = "Opening"
  <2>1. after = [turns EXCEPT ![m] = NewTurn(~stopped.is)]
    BY <1>4 DEF TurnsAfter
  <2>2. NewTurn(~stopped.is).at = "open" /\ NewTurn(~stopped.is).chunks = <<>>
    BY DEF NewTurn
  <2> QED BY <1>1, <1>4, <2>1, <2>2
<1>5. CASE item.kind = "Chunk"
  <2>1. after = ChunkPushed(item)
    BY <1>5 DEF TurnsAfter
  <2> QED BY <1>1, <1>5, <2>1 DEF ChunkPushed, TurnType
<1>6. CASE item.kind = "Closing"
  <2>1. after = ClosedAfter(m)
    BY <1>6 DEF TurnsAfter
  <2> QED BY <1>1, <1>6, <2>1 DEF ClosedAfter, TurnType
<1>7. CASE item.kind = "WholeMessage"
  <2>1. after = turns
    BY <1>7 DEF TurnsAfter
  <2> QED BY <1>3, <1>7, <2>1
<1> QED BY <1>1, <1>4, <1>5, <1>6, <1>7 DEF Kinds

\* An item that was kept takes its place: the thread remembers it.
LEMMA EnqueueMemInv == ASSUME QueueInv, Enqueue PROVE MemInv'
<1> DEFINE n == Len(items)
           item == op.item
<1>1. TypeOK /\ MemInv /\ items' = items /\ turns' = TurnsAfter(item)
  BY DEF QueueInv, MemInv, Enqueue
<1>2. op.at = "enqueue" /\ Fits(op) /\ n \in 1..n /\ items[n] = item /\ n \in Nat /\ DOMAIN items = 1..n
  BY <1>1, EnqueuedIs, QueueTypes
<1>3. op'.at \in {"none", "ready", "more"} /\ Landed = n - 1 /\ Landed' = n
  BY <1>1, <1>2, ContinuesIs DEF Landed
<1>4. past'.gone = past.gone
  <2>1. past \in PastType
    BY <1>1 DEF TypeOK, ItemsOK
  <2> QED BY <2>1, EnqueuedIs DEF PastType
<1>5. n - 1 \in Nat /\ 1..n = (1..(n - 1)) \cup {n} /\ n \notin 1..(n - 1)
  BY <1>2
<1>6. Grown(sinks, sinks') /\ sinks \in Seq(SinkType)
  BY <1>1, ContinuesIs DEF TypeOK, MemOK
<1> HIDE DEF n, item
<1>7. OpInv'
  <2> SUFFICES ASSUME op'.at \in {"ready", "more"} PROVE OpInv'
    BY <1>3 DEF OpInv
  <2>1. op'.job = op.job /\ op'.turn = op.turn /\ op'.entry = op.entry /\ op'.item = NoItem /\ NeedsTurn(op)
    BY ContinuesIs
  <2>2. Known(op) /\ op.turn \in Turns
    BY <1>1, <1>2, <2>1 DEF MemInv, OpInv, Known, NeedsTurn, Jobs
  <2>3. Known(op)'
    BY <2>1, <2>2 DEF Known, NeedsTurn
  <2>4. turns'[op.turn].at = "open"
    <3>1. CASE item.kind = "Opening"
      <4>1. item.message = op.turn
        BY <1>2, <3>1 DEF Fits, FitsItem, item
      <4> QED BY <1>1, <1>2, <2>2, <3>1, <4>1, TurnsAfterIs DEF item
    <3>2. CASE item.kind # "Opening"
      <4>1. turns[op.turn].at = "open"
        BY <1>1, <1>2, <2>1, <3>2 DEF MemInv, OpInv, item
      <4>2. item \in ItemType /\ item.kind # "Closing"
        BY <1>2, <2>1 DEF Fits, FitsItem, NeedsTurn, item
      <4>3. item.kind \in {"Chunk", "WholeMessage"}
        BY <3>2, <4>2 DEF ItemType, Kinds
      <4>4. item.kind = "WholeMessage" => item.message # op.turn
        BY <1>2, <2>2, ThreadAssumption DEF Fits, FitsItem, item
      <4> QED BY <1>1, <1>2, <2>2, <4>1, <4>3, <4>4, TurnsAfterIs DEF item
    <3> QED BY <3>1, <3>2
  <2>5. op'.item.kind # "Opening"
    BY <2>1 DEF NoItem
  <2> QED BY <1>3, <2>1, <2>3, <2>4, <2>5 DEF OpInv
<1>8. TurnInv'
  <2> SUFFICES ASSUME NEW t \in Turns
               PROVE  /\ turns'[t].at = "open" =>
                           /\ Len(turns'[t].chunks) = Cardinality(ChunksOf(t, n))
                           /\ \A i \in 1..n : items[i].kind = "Closing" => items[i].message # t
                      /\ turns'[t].at = "none" => turns'[t].chunks = <<>> /\ (t \in past.gone \/ NoItemOf(t, n))
    <3>1. ASSUME NEW t \in Turns PROVE ChunksOf(t, Landed)' = ChunksOf(t, n) /\ (NoItemOf(t, n) => NoItemOf(t, Landed)')
      BY <1>1, <1>3 DEF ChunksOf, NoItemOf, Message
    <3> QED BY <1>1, <1>3, <1>4, <3>1 DEF TurnInv, Message
  <2>1. /\ turns[t].at = "open" =>
             /\ Len(turns[t].chunks) = Cardinality(ChunksOf(t, n - 1))
             /\ \A i \in 1..(n - 1) : items[i].kind = "Closing" => items[i].message # t
        /\ turns[t].at = "none" => turns[t].chunks = <<>> /\ (t \in past.gone \/ NoItemOf(t, n - 1))
    BY <1>1, <1>3 DEF MemInv, TurnInv, Message
  <2>2. ChunksOf(t, n) = IF item.kind = "Chunk" /\ item.message = t THEN ChunksOf(t, n - 1) \cup {n} ELSE ChunksOf(t, n - 1)
    BY <1>2, <1>5 DEF ChunksOf, Message
  <2>3. CASE item.message # t
    <3>1. turns'[t] = turns[t]
      BY <1>1, <1>2, <2>3, TurnsAfterIs DEF item
    <3>2. NoItemOf(t, n - 1) => NoItemOf(t, n)
      BY <1>2, <1>5, <2>3 DEF NoItemOf, Message
    <3> QED BY <1>2, <1>5, <2>1, <2>2, <2>3, <3>1, <3>2
  <2>4. CASE item.message = t /\ item.kind = "Opening"
    <3>1. turns'[t].at = "open" /\ turns'[t].chunks = <<>>
      BY <1>1, <1>2, <2>4, TurnsAfterIs DEF item
    <3>2. NoItemOf(t, n - 1)
      BY <1>2, <1>3, <2>4 DEF Fits, FitsItem, item
    <3>3. ChunksOf(t, n) = {}
      BY <2>2, <2>4, <3>2 DEF ChunksOf, NoItemOf
    <3>4. \A i \in 1..n : items[i].kind = "Closing" => items[i].message # t
      BY <1>2, <1>5, <2>4, <3>2 DEF NoItemOf, Message
    <3>5. Cardinality({}) = 0 /\ Len(<<>>) = 0
      BY FS_EmptySet
    <3> QED BY <3>1, <3>3, <3>4, <3>5
  <2>5. CASE item.message = t /\ item.kind = "Chunk"
    <3>1. turns'[t].at = turns[t].at /\ turns'[t].chunks = Append(turns[t].chunks, item.body)
      BY <1>1, <1>2, <2>5, TurnsAfterIs DEF item
    <3>2. turns[t].at = "open"
      BY <1>2, <2>5 DEF Fits, FitsItem, item
    <3>3. turns[t].chunks \in Seq(ItemBodies) /\ item.body \in ItemBodies
      <4>1. turns[t] \in TurnType /\ item \in ItemType
        BY <1>1, <1>2, TurnTypes DEF Fits, FitsItem, item
      <4> QED BY <4>1 DEF TurnType, ItemType
    <3>4. Len(turns'[t].chunks) = Len(turns[t].chunks) + 1
      BY <3>1, <3>3
    <3>5. IsFiniteSet(ChunksOf(t, n - 1)) /\ n \notin ChunksOf(t, n - 1)
      <4>1. IsFiniteSet(1..(n - 1))
        BY <1>5, FS_Interval
      <4>2. ChunksOf(t, n - 1) \subseteq 1..(n - 1)
        BY DEF ChunksOf
      <4> QED BY <1>5, <4>1, <4>2, FS_Subset
    <3>6. Cardinality(ChunksOf(t, n)) = Cardinality(ChunksOf(t, n - 1)) + 1
      BY <2>2, <2>5, <3>5, FS_AddElement
    <3>7. \A i \in 1..n : items[i].kind = "Closing" => items[i].message # t
      BY <1>2, <1>5, <2>1, <2>5, <3>2
    <3> QED BY <2>1, <3>1, <3>2, <3>4, <3>6, <3>7
  <2>6. CASE item.message = t /\ item.kind = "Closing"
    <3>1. turns'[t].at = "closed"
      BY <1>1, <1>2, <2>6, TurnsAfterIs DEF item
    <3> QED BY <3>1
  <2>7. item.kind \in Kinds /\ (item.kind = "WholeMessage" => item.message # t)
    BY <1>2, ThreadAssumption DEF Fits, FitsItem, ItemType, item
  <2> QED BY <2>3, <2>4, <2>5, <2>6, <2>7 DEF Kinds
<1>9. SinkInv'
  <2> SUFFICES ASSUME NEW i \in 1..n, items[i].sink # 0, items[i].body = "end"
               PROVE  items[i].sink \in DOMAIN sinks' /\ sinks'[items[i].sink].done
    BY <1>1, <1>3 DEF SinkInv
  <2>1. DOMAIN sinks' = DOMAIN sinks
    BY <1>6 DEF Grown
  <2>2. CASE i = n
    <3>1. item.sink # 0 /\ item.body = "end"
      BY <1>2, <2>2
    <3>2. sinks'[item.sink].done
      BY <3>1, ContinuesIs DEF item
    <3>3. item.sink \in DOMAIN sinks
      BY <1>2, <3>1 DEF Fits, FitsItem, item
    <3> QED BY <1>2, <2>1, <2>2, <3>2, <3>3
  <2>3. CASE i \in 1..(n - 1)
    <3>1. items[i].sink \in DOMAIN sinks /\ sinks[items[i].sink].done
      BY <1>1, <1>3, <2>3 DEF MemInv, SinkInv
    <3> QED BY <1>6, <2>1, <3>1 DEF Grown
  <2> QED BY <1>5, <2>2, <2>3
<1>10. SealWhole' /\ ResponseEndsOnce'
  BY <1>1 DEF MemInv, SealWhole, ResponseEndsOnce, Message
<1> QED BY <1>7, <1>8, <1>9, <1>10 DEF MemInv

\* An agent is purged, or the adapter is built anew: the turns that are forgotten are
\* of a writer that is gone, and the responses are over.
LEMMA ForgetMemInv ==
  ASSUME TypeOK, MemInv, items' = items, op'.at = "none", Grown(sinks, sinks'),
         past.gone \subseteq past'.gone,
         \A t \in Turns : \/ op.at # "enqueue" /\ turns'[t] = turns[t]
                          \/ turns'[t] = NoTurn /\ (t \in past'.gone \/ NoItemOf(t, Len(items))),
         \A i \in DOMAIN items : op.at = "enqueue" /\ i = Len(items) /\ items[i].sink # 0
           => items[i].sink \in DOMAIN sinks /\ sinks'[items[i].sink].done
  PROVE  MemInv'
<1> DEFINE n == Len(items)
<1>1. Landed' = n /\ n \in Nat /\ DOMAIN items = 1..n
  BY QueueTypes DEF Landed
<1>2. OpInv'
  BY DEF OpInv
<1>3. TurnInv'
  <2> SUFFICES ASSUME NEW t \in Turns
               PROVE  /\ turns'[t].at = "open" =>
                           /\ Len(turns'[t].chunks) = Cardinality(ChunksOf(t, n))
                           /\ \A i \in 1..n : items[i].kind = "Closing" => items[i].message # t
                      /\ turns'[t].at = "none" => turns'[t].chunks = <<>> /\ (t \in past'.gone \/ NoItemOf(t, n))
    <3>1. ASSUME NEW t \in Turns PROVE ChunksOf(t, Landed)' = ChunksOf(t, n) /\ (NoItemOf(t, n) => NoItemOf(t, Landed)')
      BY <1>1 DEF ChunksOf, NoItemOf, Message
    <3> QED BY <1>1, <3>1 DEF TurnInv, Message
  <2>1. CASE turns'[t] = NoTurn /\ (t \in past'.gone \/ NoItemOf(t, n))
    BY <2>1 DEF NoTurn
  <2>2. CASE op.at # "enqueue" /\ turns'[t] = turns[t]
    <3>1. Landed = n
      BY <2>2 DEF Landed
    <3> QED BY <2>2, <3>1 DEF MemInv, TurnInv, Message
  <2> QED BY <2>1, <2>2
<1>4. SinkInv'
  <2> SUFFICES ASSUME NEW i \in 1..n, items[i].sink # 0, items[i].body = "end"
               PROVE  items[i].sink \in DOMAIN sinks' /\ sinks'[items[i].sink].done
    BY <1>1 DEF SinkInv
  <2>1. DOMAIN sinks' = DOMAIN sinks
    BY DEF Grown, TypeOK, MemOK
  <2>2. CASE op.at = "enqueue" /\ i = n
    BY <1>1, <2>1, <2>2
  <2>3. CASE ~(op.at = "enqueue" /\ i = n)
    <3>1. i \in 1..Landed
      <4>1. CASE op.at = "enqueue"
        <5>1. Landed = n - 1
          BY <4>1 DEF Landed
        <5>2. i \in 1..(n - 1)
          BY <1>1, <2>3, <4>1
        <5> QED BY <5>1, <5>2
      <4>2. CASE op.at # "enqueue"
        BY <4>2 DEF Landed
      <4> QED BY <4>1, <4>2
    <3>2. items[i].sink \in DOMAIN sinks /\ sinks[items[i].sink].done
      BY <3>1 DEF MemInv, SinkInv
    <3> QED BY <2>1, <3>2 DEF Grown
  <2> QED BY <2>2, <2>3
<1>5. SealWhole' /\ ResponseEndsOnce'
  BY DEF MemInv, SealWhole, ResponseEndsOnce, Message
<1> QED BY <1>2, <1>3, <1>4, <1>5 DEF MemInv

\* The purge of an agent.
LEMMA PurgeMemInv == ASSUME QueueInv, Purge PROVE MemInv'
<1>1. TypeOK /\ MemInv /\ past \in PastType
  BY DEF QueueInv, MemInv, TypeOK, ItemsOK
<1>2. past'.gone = past.gone /\ op'.at = "none" /\ op.at = "none"
  BY <1>1, PurgeIs DEF PastType
<1>3. OfAgent(wait.agent) \cap Turns \subseteq past.gone
  BY PurgeIs DEF QueueInv, WaitInv
<1>4. ASSUME NEW t \in Turns PROVE turns'[t] = turns[t] \/ (turns'[t] = NoTurn /\ t \in past'.gone)
  <2>1. turns' = TurnsWithout(wait.agent)
    BY PurgeIs
  <2>2. CASE AgentOf[t] = wait.agent
    BY <1>2, <1>3, <2>1, <2>2 DEF TurnsWithout, OfAgent
  <2>3. CASE AgentOf[t] # wait.agent
    BY <2>1, <2>3 DEF TurnsWithout
  <2> QED BY <2>2, <2>3
<1> QED BY <1>1, <1>2, <1>4, PurgeIs, ForgetMemInv

\* A restart over the store.
LEMMA RestartMemInv == ASSUME QueueInv, Restart PROVE MemInv'
<1>1. TypeOK /\ MemInv /\ past \in PastType /\ Len(items) \in Nat /\ DOMAIN items = 1..Len(items)
  BY QueueTypes DEF QueueInv, MemInv, TypeOK, ItemsOK
<1>2. op'.at = "none" /\ items' = items
  BY RestartIs, NoneTypes
<1>3. past.gone \subseteq past'.gone
  BY <1>1 DEF Restart, PastType
<1>4. ASSUME NEW t \in Turns PROVE turns'[t] = NoTurn /\ (t \in past'.gone \/ NoItemOf(t, Len(items)))
  BY <1>1, RestartIs DEF NoItemOf
<1>5. ASSUME op.at = "enqueue", items[Len(items)].sink # 0
      PROVE  items[Len(items)].sink \in DOMAIN sinks /\ sinks'[items[Len(items)].sink].done
  <2>1. items[Len(items)].sink \in DOMAIN sinks
    BY <1>5 DEF QueueInv, OpInv, FlightInv, Fits, FitsItem
  <2>2. sinks' = [s \in DOMAIN sinks |-> [sinks[s] EXCEPT !.done = TRUE]] /\ \A s \in DOMAIN sinks : sinks[s] \in SinkType
    BY <1>1 DEF Restart, TypeOK, MemOK
  <2> QED BY <2>1, <2>2, DoneSink
<1> QED BY <1>1, <1>2, <1>3, <1>4, <1>5, RestartIs, ForgetMemInv

-----------------------------------------------------------------------------
(* The order of the queue                                                  *)

\* What is said of the line of items.
LineUp == LineInv /\ FlightInv /\ EndedFirst /\ NothingLost /\ EntryTold

\* Nothing changes of the line.
LEMMA SameLineUp ==
  ASSUME LineUp, UNCHANGED <<items, store>>, queue'.ids = queue.ids, queue'.last = queue.last,
         queue'.dropped = queue.dropped, past'.end = past.end, past'.crashes = past.crashes,
         stopped.is => stopped'.is,
         op' = op \/ (op.at # "enqueue" /\ op'.at # "enqueue")
  PROVE  LineUp'
<1>1. \A i : HasEnded(i)' <=> HasEnded(i)
  BY DEF HasEnded
<1>2. LineInv'
  BY <1>1 DEF LineUp, LineInv, Ascends
<1>3. FlightInv'
  BY <1>1 DEF LineUp, FlightInv
<1>4. EndedFirst'
  BY <1>1 DEF LineUp, EndedFirst
<1>5. NothingLost'
  BY <1>1 DEF LineUp, NothingLost
<1>6. EntryTold'
  BY DEF LineUp, EntryTold, EntryOutcome, HasEnded
<1> QED BY <1>2, <1>3, <1>4, <1>5, <1>6 DEF LineUp

\* Nothing changes of what the delivery task works on.
LEMMA SameWorker ==
  ASSUME WorkerInv, worker' = worker, queue'.ids = queue.ids, past'.end = past.end
  PROVE  WorkerInv'
BY DEF WorkerInv, H, HasEnded

\* An item is kept in the store, behind all others.
LEMMA AppendLineUp == ASSUME QueueInv, Append1 PROVE LineUp' /\ WorkerInv'
<1>0. PICK n : n = Len(items)
  OBVIOUS
<1>1. TypeOK /\ LineUp /\ WorkerInv /\ op.at = "append"
  BY DEF QueueInv, LineUp, Append1
<1>2. /\ n \in Nat /\ DOMAIN items = 1..n /\ n + 1 \in Ids /\ queue.ids \in Seq(DOMAIN items) /\ store \in Seq(DOMAIN items)
      /\ store \in Seq(Nat) /\ queue.last \in Nat /\ queue.last <= n /\ H \in Nat /\ H <= n /\ ToSet(queue.ids) \subseteq 1..n
  BY <1>0, <1>1, QueueTypes, ThreadAssumption DEF Append1, Ids
<1>3. items' = Append(items, op.item) /\ items \in Seq(ItemType) /\ op.item \in ItemType
  BY <1>1 DEF QueueInv, OpInv, Fits, FitsItem, Append1, TypeOK, ItemsOK
<1>4. /\ DOMAIN items' = 1..(n + 1) /\ Len(items') = n + 1 /\ items'[n + 1] = op.item
      /\ \A i \in 1..n : items'[i] = items[i]
  BY <1>0, <1>2, <1>3
<1>5. /\ op'.at = "enqueue" /\ op'.item = op.item
  BY <1>1 DEF Append1, TypeOK, CallsOK, OpType
<1>6. /\ UNCHANGED <<queue, worker, stopped>> /\ past'.crashes = past.crashes /\ past'.end = [past.end EXCEPT ![n + 1] = "kept"]
      /\ past.end \in [Ids -> {"none", "kept", "delivered", "refused", "unsent"}] /\ store' = Append(store, n + 1)
  <2>1. past \in PastType /\ past' = [past EXCEPT !.end = [past.end EXCEPT ![n + 1] = "kept"]]
    BY <1>0, <1>1 DEF Append1, TypeOK, ItemsOK
  <2>2. past'.crashes = past.crashes /\ past'.end = [past.end EXCEPT ![n + 1] = "kept"]
    BY <2>1 DEF PastType
  <2> QED BY <1>0, <2>1, <2>2 DEF Append1, flagVars, PastType
<1>7. ~HasEnded(n + 1)' /\ \A i \in 0..n : HasEnded(i)' <=> HasEnded(i)
  BY <1>2, <1>6 DEF HasEnded
<1>8. \A k \in DOMAIN queue.ids : queue.ids[k] \in 1..n
  BY <1>2
<1>9. \A k \in DOMAIN store : store[k] < n + 1
  BY <1>2
<1>10. Ascends(store') /\ ToSet(store') = ToSet(store) \cup {n + 1}
  BY <1>1, <1>2, <1>6, <1>9, AppendLine DEF LineUp, LineInv
<1>11. LineInv'
  <2> SUFFICES ASSUME NEW i \in 1..(n + 1), ~HasEnded(i)', i \notin ToSet(queue.ids)
               PROVE  queue.last < i /\ \A k \in DOMAIN queue.ids : queue.ids[k] < i
    BY <1>1, <1>4, <1>6, <1>10 DEF LineUp, LineInv
  <2>1. CASE i = n + 1
    BY <1>2, <1>8, <2>1
  <2>2. CASE i \in 1..n
    <3>1. ~HasEnded(i) /\ i \in DOMAIN items
      BY <1>2, <1>7, <2>2
    <3> QED BY <1>1, <3>1 DEF LineUp, LineInv
  <2> QED BY <1>2, <2>1, <2>2
<1>12. FlightInv'
  <2>1. n + 1 \notin ToSet(queue.ids) /\ n + 1 # 0
    BY <1>2
  <2> QED BY <1>4, <1>5, <1>6, <1>7, <2>1 DEF FlightInv
<1>13. EndedFirst'
  <2> SUFFICES ASSUME past.crashes = 0, NEW i \in 1..(n + 1), HasEnded(i)', NEW k \in DOMAIN queue.ids
               PROVE  i < queue.ids[k]
    BY <1>4, <1>6 DEF EndedFirst
  <2>1. i \in 1..n /\ i \in DOMAIN items /\ HasEnded(i)
    BY <1>2, <1>7
  <2> QED BY <1>1, <2>1 DEF LineUp, EndedFirst
<1>14. NothingLost'
  <2> SUFFICES ASSUME NEW i \in 1..(n + 1), ~HasEnded(i)'
               PROVE  i \in ToSet(store') /\ (~stopped.is => i \in ToSet(queue.ids) \/ i = n + 1)
    BY <1>4, <1>5, <1>6 DEF NothingLost
  <2>1. CASE i = n + 1
    BY <1>10, <2>1
  <2>2. CASE i \in 1..n
    <3>1. ~HasEnded(i) /\ i \in DOMAIN items
      BY <1>2, <1>7, <2>2
    <3> QED BY <1>1, <1>10, <3>1 DEF LineUp, NothingLost
  <2> QED BY <1>2, <2>1, <2>2
<1>15. EntryTold'
  <2> SUFFICES ASSUME past.crashes = 0, NEW e \in Entries, NEW i \in 1..(n + 1), items'[i].entry = e, HasEnded(i)',
                      EntryOutcome(e)' = "Stored",
                      \A j \in {j \in 1..(n + 1) : items'[j].entry = e /\ HasEnded(j)'} : j <= i
               PROVE  past'.end[i] = "delivered"
    BY <1>4, <1>6 DEF EntryTold
  <2>1. i \in 1..n /\ items[i].entry = e /\ HasEnded(i) /\ past'.end[i] = past.end[i]
    BY <1>2, <1>4, <1>6, <1>7
  <2>2. EntryOutcome(e) = "Stored"
    <3>1. \A j \in ToSet(queue.ids) : items'[j] = items[j]
      BY <1>2, <1>4
    <3> QED BY <1>6, <3>1 DEF EntryOutcome
  <2>3. \A j \in {j \in DOMAIN items : items[j].entry = e /\ HasEnded(j)} : j <= i
    <3> SUFFICES ASSUME NEW j \in 1..n, items[j].entry = e, HasEnded(j) PROVE j <= i
      BY <1>2
    <3>1. j \in 1..(n + 1) /\ items'[j].entry = e /\ HasEnded(j)'
      BY <1>2, <1>4, <1>7
    <3> QED BY <3>1
  <2>4. i \in {j \in DOMAIN items : items[j].entry = e /\ HasEnded(j)}
    BY <1>2, <2>1
  <2> QED BY <1>1, <2>1, <2>2, <2>3, <2>4 DEF LineUp, EntryTold
<1>16. WorkerInv'
  BY <1>1, <1>2, <1>6, <1>7 DEF WorkerInv, H
<1> QED BY <1>11, <1>12, <1>13, <1>14, <1>15, <1>16 DEF LineUp

\* The head of a queue that grows stays its head.
LEMMA HeadStays ==
  ASSUME NEW D, NEW s \in Seq(D), NEW i \in D, s # <<>>
  PROVE  Append(s, i) # <<>> /\ Head(Append(s, i)) = Head(s)
<1>1. Len(s) \in Nat /\ Len(s) # 0 /\ Len(Append(s, i)) = Len(s) + 1
  OBVIOUS
<1>2. Append(s, i)[1] = s[1]
  BY <1>1
<1> QED BY <1>1, <1>2

\* An item takes its place at the end of the queue.
LEMMA EnqueueLineUp == ASSUME QueueInv, Enqueue PROVE LineUp' /\ WorkerInv'
<1> DEFINE n == Len(items)
<1>1. TypeOK /\ LineUp /\ WorkerInv /\ op.at = "enqueue" /\ UNCHANGED <<items, store, stopped>>
  BY DEF QueueInv, LineUp, Enqueue, flagVars
<1>2. /\ n \in Nat /\ DOMAIN items = 1..n /\ n \in DOMAIN items /\ queue.ids \in Seq(DOMAIN items) /\ queue.ids \in Seq(Nat)
      /\ queue.last \in Nat /\ ToSet(queue.ids) \subseteq 1..n
  BY <1>1, QueueTypes, EnqueuedIs
<1>3. past'.end = past.end /\ past'.crashes = past.crashes
  <2>1. past \in PastType
    BY <1>1 DEF TypeOK, ItemsOK
  <2> QED BY <2>1, EnqueuedIs DEF PastType
<1>4. op'.at # "enqueue"
  BY ContinuesIs
<1>5. \A i : HasEnded(i)' <=> HasEnded(i)
  BY <1>3 DEF HasEnded
<1>6. ~HasEnded(n) /\ n \notin ToSet(queue.ids) /\ items[n] = op.item
  BY <1>1 DEF LineUp, FlightInv
<1>7. queue.last < n /\ \A k \in DOMAIN queue.ids : queue.ids[k] < n
  BY <1>1, <1>2, <1>6 DEF LineUp, LineInv
<1> HIDE DEF n
<1>8. CASE stopped.is
  <2>1. UNCHANGED <<queue, worker>>
    BY <1>8, EnqueuedIs
  <2>2. LineInv' /\ EndedFirst' /\ EntryTold'
    BY <1>1, <1>3, <1>5, <2>1 DEF LineUp, LineInv, EndedFirst, EntryTold, EntryOutcome, Ascends, HasEnded
  <2>3. FlightInv'
    BY <1>4 DEF FlightInv
  <2>4. NothingLost'
    BY <1>1, <1>5, <1>8 DEF LineUp, NothingLost
  <2>5. WorkerInv'
    BY <1>1, <1>3, <2>1, SameWorker
  <2> QED BY <2>2, <2>3, <2>4, <2>5 DEF LineUp
<1>9. CASE ~stopped.is
  <2>1. /\ queue'.ids = Append(queue.ids, n) /\ queue'.last = n /\ queue'.dropped = queue.dropped \ {op.item.entry}
        /\ worker' \in {worker, [worker EXCEPT !.at = "look"]}
    BY <1>1, <1>9, EnqueuedIs DEF TypeOK, QueueOK, n
  <2>2. Ascends(queue'.ids) /\ ToSet(queue'.ids) = ToSet(queue.ids) \cup {n}
    BY <1>1, <1>2, <1>7, <2>1, AppendLine DEF LineUp, LineInv
  <2>3. \A i \in DOMAIN items : ~HasEnded(i) => i \in ToSet(queue'.ids)
    BY <1>1, <1>9, <2>2 DEF LineUp, NothingLost, n
  <2>4. LineInv'
    BY <1>1, <1>5, <2>2, <2>3 DEF LineUp, LineInv
  <2>5. FlightInv'
    BY <1>4 DEF FlightInv
  <2>6. EndedFirst'
    <3> SUFFICES ASSUME past.crashes = 0, NEW i \in DOMAIN items, HasEnded(i), NEW k \in DOMAIN queue'.ids
                 PROVE  i < queue'.ids[k]
      BY <1>1, <1>3, <1>5 DEF EndedFirst
    <3>1. queue'.ids[k] \in ToSet(queue.ids) \cup {n}
      BY <2>2 DEF ToSet
    <3>2. CASE queue'.ids[k] = n
      BY <1>2, <1>6, <3>2
    <3>3. CASE queue'.ids[k] \in ToSet(queue.ids)
      <4>1. PICK j \in DOMAIN queue.ids : queue.ids[j] = queue'.ids[k]
        BY <3>3 DEF ToSet
      <4> QED BY <1>1, <4>1 DEF LineUp, EndedFirst
    <3> QED BY <3>1, <3>2, <3>3
  <2>7. NothingLost'
    BY <1>1, <1>5, <2>3 DEF LineUp, NothingLost
  <2>8. EntryTold'
    <3> SUFFICES ASSUME past.crashes = 0, NEW e \in Entries, NEW i \in DOMAIN items, items[i].entry = e, HasEnded(i),
                        EntryOutcome(e)' = "Stored",
                        \A j \in {j \in DOMAIN items : items[j].entry = e /\ HasEnded(j)} : j <= i
                 PROVE  past.end[i] = "delivered"
      BY <1>1, <1>3, <1>5 DEF EntryTold
    <3>1. e \notin queue'.dropped /\ \A j \in ToSet(queue'.ids) : items[j].entry # e
      BY <1>1 DEF EntryOutcome
    <3>2. op.item.entry # e
      BY <1>6, <2>2, <3>1
    <3>3. EntryOutcome(e) = "Stored"
      BY <2>1, <2>2, <3>1, <3>2 DEF EntryOutcome
    <3> QED BY <1>1, <3>3 DEF LineUp, EntryTold
  <2>9. WorkerInv'
    <3>1. CASE worker' = [worker EXCEPT !.at = "look"]
      BY <1>1, <3>1 DEF WorkerInv, TypeOK, QueueOK
    <3>2. CASE worker' = worker
      <4>1. queue.ids # <<>> => queue'.ids # <<>> /\ Head(queue'.ids) = Head(queue.ids)
        BY <1>2, <2>1, HeadStays
      <4> QED BY <1>1, <1>5, <3>2, <4>1 DEF WorkerInv, H
    <3> QED BY <2>1, <3>1, <3>2
  <2> QED BY <2>4, <2>5, <2>6, <2>7, <2>8, <2>9 DEF LineUp
<1> QED BY <1>8, <1>9

\* An item ends and leaves the queue.
LEMMA EndItemLineUp == ASSUME QueueInv, EndItem PROVE LineUp' /\ WorkerInv'
<1>1. TypeOK /\ LineUp /\ WorkerInv /\ UNCHANGED <<items, store, stopped, op>>
  BY DEF QueueInv, LineUp, EndItem
<1>0. PICK h : h = H
  OBVIOUS
<1>2. /\ queue.ids # <<>> /\ h = Head(queue.ids) /\ h \in DOMAIN items /\ h \in Ids /\ queue.ids \in Seq(Nat)
      /\ DOMAIN items \subseteq Nat /\ DOMAIN items \subseteq Ids /\ ToSet(queue.ids) \subseteq DOMAIN items
  BY <1>0, <1>1, EndItemIs, QueueTypes
<1>3. /\ queue'.ids = Tail(queue.ids) /\ queue'.last = queue.last /\ queue'.dropped = DroppedBy(worker.how)
      /\ worker'.at = "removing" /\ worker'.item = h
  BY <1>0, <1>1, EndItemIs DEF TypeOK, QueueOK, H
<1>4. past'.end = [past.end EXCEPT ![h] = worker.how] /\ past'.crashes = past.crashes
  <2>1. past \in PastType
    BY <1>1 DEF TypeOK, ItemsOK
  <2>2. past' = [past EXCEPT !.end = [past.end EXCEPT ![h] = worker.how]]
    BY <1>0, EndItemIs
  <2> QED BY <2>1, <2>2 DEF PastType
<1>5. HasEnded(h)' /\ \A i \in DOMAIN items : i # h => (HasEnded(i)' <=> HasEnded(i)) /\ past'.end[i] = past.end[i]
  BY <1>2, <1>4, EndItemIs DEF HasEnded
<1>6. /\ Ascends(Tail(queue.ids)) /\ ToSet(queue.ids) = ToSet(Tail(queue.ids)) \cup {h}
      /\ \A k \in DOMAIN Tail(queue.ids) : h < Tail(queue.ids)[k]
  BY <1>0, <1>1, <1>2, TailLine DEF LineUp, LineInv
<1>7. \A k \in DOMAIN Tail(queue.ids) : \E j \in DOMAIN queue.ids : queue.ids[j] = Tail(queue.ids)[k]
  <2>1. \A k \in DOMAIN Tail(queue.ids) : Tail(queue.ids)[k] \in ToSet(queue.ids)
    BY <1>6 DEF ToSet
  <2> QED BY <2>1 DEF ToSet
<1>8. \A i \in DOMAIN items : ~HasEnded(i)' => i # h /\ ~HasEnded(i)
  BY <1>5
<1>9. LineInv'
  <2> SUFFICES ASSUME NEW i \in DOMAIN items, ~HasEnded(i)', i \notin ToSet(Tail(queue.ids))
               PROVE  queue.last < i /\ \A k \in DOMAIN Tail(queue.ids) : Tail(queue.ids)[k] < i
    BY <1>1, <1>3, <1>6 DEF LineUp, LineInv
  <2>1. ~HasEnded(i) /\ i \notin ToSet(queue.ids)
    BY <1>6, <1>8
  <2> QED BY <1>1, <1>7, <2>1 DEF LineUp, LineInv
<1>10. FlightInv'
  <2> SUFFICES ASSUME op.at = "enqueue" PROVE FlightInv'
    BY <1>1 DEF FlightInv
  <2>1. Len(items) # 0 /\ items[Len(items)] = op.item /\ ~HasEnded(Len(items)) /\ Len(items) \notin ToSet(queue.ids)
    BY <1>1 DEF LineUp, FlightInv
  <2>2. Len(items) \in DOMAIN items /\ Len(items) # h
    BY <1>1, <1>6, <2>1, QueueTypes
  <2> QED BY <1>1, <1>3, <1>5, <1>6, <2>1, <2>2 DEF FlightInv
<1>11. EndedFirst'
  <2> SUFFICES ASSUME past.crashes = 0, NEW i \in DOMAIN items, HasEnded(i)', NEW k \in DOMAIN Tail(queue.ids)
               PROVE  i < Tail(queue.ids)[k]
    BY <1>1, <1>3, <1>4 DEF EndedFirst
  <2>1. CASE i = h
    BY <1>6, <2>1
  <2>2. CASE i # h
    BY <1>1, <1>5, <1>7, <2>2 DEF LineUp, EndedFirst
  <2> QED BY <2>1, <2>2
<1>12. NothingLost'
  <2> SUFFICES ASSUME NEW i \in DOMAIN items, ~HasEnded(i)'
               PROVE  i \in ToSet(store) /\ (~stopped.is => i \in ToSet(Tail(queue.ids)) \/ (op.at = "enqueue" /\ i = Len(items)))
    BY <1>1, <1>3 DEF NothingLost
  <2> QED BY <1>1, <1>6, <1>8 DEF LineUp, NothingLost
<1>13. EntryTold'
  <2> SUFFICES ASSUME past.crashes = 0, NEW e \in Entries, NEW i \in DOMAIN items, items[i].entry = e, HasEnded(i)',
                      EntryOutcome(e)' = "Stored",
                      \A j \in {j \in DOMAIN items : items[j].entry = e /\ HasEnded(j)'} : j <= i
               PROVE  past'.end[i] = "delivered"
    BY <1>1, <1>4 DEF EntryTold
  <2>1. e \notin DroppedBy(worker.how) /\ \A j \in ToSet(Tail(queue.ids)) : items[j].entry # e
    BY <1>1, <1>3 DEF EntryOutcome
  <2>2. CASE items[h].entry = e
    <3>1. worker.how = "delivered"
      BY <1>0, <2>1, <2>2, ThreadAssumption DEF DroppedBy
    <3>2. past'.end[h] = "delivered"
      BY <1>2, <1>4, <3>1, EndItemIs
    <3>3. h <= i
      BY <1>2, <1>5, <2>2
    <3>4. i # h => i < h
      <4> SUFFICES ASSUME i # h PROVE i < h
        OBVIOUS
      <4>1. HasEnded(i)
        BY <1>5
      <4>2. PICK k \in DOMAIN queue.ids : queue.ids[k] = h
        BY <1>6 DEF ToSet
      <4> QED BY <1>1, <4>1, <4>2 DEF LineUp, EndedFirst
    <3>5. i = h
      BY <1>2, <3>3, <3>4
    <3> QED BY <3>2, <3>5
  <2>3. CASE items[h].entry # e
    <3>1. i # h /\ HasEnded(i) /\ past'.end[i] = past.end[i]
      BY <1>5, <2>3
    <3>2. e \notin queue.dropped /\ \A j \in ToSet(queue.ids) : items[j].entry # e
      BY <1>0, <1>6, <2>1, <2>3 DEF DroppedBy
    <3>3. EntryOutcome(e) = "Stored"
      BY <3>2 DEF EntryOutcome
    <3>4. \A j \in {j \in DOMAIN items : items[j].entry = e /\ HasEnded(j)} : j <= i
      BY <1>5, <2>3
    <3> QED BY <1>1, <3>1, <3>3, <3>4 DEF LineUp, EntryTold
  <2> QED BY <2>2, <2>3
<1>14. WorkerInv'
  <2>1. h # 0
    BY <1>1, <1>2, QueueTypes
  <2> QED BY <1>3, <1>5, <2>1 DEF WorkerInv, H, HasEnded
<1> QED BY <1>9, <1>10, <1>11, <1>12, <1>13, <1>14 DEF LineUp

\* The store forgets an item that has ended.
LEMMA RemoveLineUp == ASSUME QueueInv, RemoveEnds PROVE LineUp' /\ WorkerInv'
<1>1. TypeOK /\ LineUp /\ WorkerInv /\ UNCHANGED <<items, queue, op, past, stopped>>
  BY DEF QueueInv, LineUp, RemoveEnds, flagVars
<1>2. worker'.at = "look" /\ HasEnded(H)
  BY <1>1 DEF RemoveEnds, Step, TypeOK, QueueOK, WorkerInv
<1>3. \A i : HasEnded(i)' <=> HasEnded(i)
  BY <1>1 DEF HasEnded
<1>4. Ascends(store') /\ ToSet(store) \ {H} \subseteq ToSet(store')
  <2>1. CASE store' = store
    BY <1>1, <2>1 DEF LineUp, LineInv
  <2>2. ASSUME NEW k \in DOMAIN store, store[k] = H, store' = RemoveAt(store, k)
        PROVE  Ascends(store') /\ ToSet(store) \ {H} \subseteq ToSet(store')
    <3>1. store \in Seq(DOMAIN items) /\ DOMAIN items \subseteq Nat /\ Ascends(store)
      BY <1>1, QueueTypes DEF LineUp, LineInv
    <3> QED BY <2>2, <3>1, RemoveLine
  <2> QED BY <2>1, <2>2 DEF RemoveEnds
<1>5. LineInv' /\ FlightInv' /\ EndedFirst' /\ EntryTold'
  BY <1>1, <1>3, <1>4 DEF LineUp, LineInv, FlightInv, EndedFirst, EntryTold, EntryOutcome, HasEnded
<1>6. NothingLost'
  BY <1>1, <1>2, <1>3, <1>4 DEF LineUp, NothingLost
<1>7. WorkerInv'
  BY <1>2 DEF WorkerInv
<1> QED BY <1>5, <1>6, <1>7 DEF LineUp

\* A restart queues what the store holds.
LEMMA RestartLineUp == ASSUME QueueInv, Restart PROVE LineUp' /\ WorkerInv'
<1>1. TypeOK /\ LineUp /\ past \in PastType
  BY DEF QueueInv, LineUp, TypeOK, ItemsOK
<1>2. /\ queue'.ids = store /\ UNCHANGED <<items, store>> /\ past'.end = past.end /\ past'.crashes # 0 /\ op'.at # "enqueue"
      /\ worker'.at \in {"idle", "look"}
  BY <1>1, RestartIs, NoneTypes DEF PastType
<1>3. \A i : HasEnded(i)' <=> HasEnded(i)
  BY <1>2 DEF HasEnded
<1>4. LineInv' /\ NothingLost'
  BY <1>1, <1>2, <1>3 DEF LineUp, LineInv, NothingLost
<1>5. FlightInv' /\ EndedFirst' /\ EntryTold' /\ WorkerInv'
  BY <1>2 DEF FlightInv, EndedFirst, EntryTold, WorkerInv
<1> QED BY <1>4, <1>5 DEF LineUp

\* The other steps of the delivery task.
LEMMA WorkerLineUp ==
  ASSUME QueueInv, WorkerEnds \/ WorkerLooks \/ Delivered \/ AttemptFails \/ PauseEnds \/ Refused \/ WorkerAborted
  PROVE  LineUp' /\ WorkerInv'
<1>1. TypeOK /\ LineUp /\ WorkerInv /\ past \in PastType
  BY DEF QueueInv, LineUp, TypeOK, ItemsOK
<1>2. UNCHANGED <<items, store, op, stopped>>
  BY DEF WorkerEnds, WorkerLooks, Delivered, AttemptFails, PauseEnds, Refused, WorkerAborted, flagVars
<1>3. queue'.ids = queue.ids /\ queue'.last = queue.last /\ queue'.dropped = queue.dropped
  <2>1. queue' = queue \/ queue' = [queue EXCEPT !.running = FALSE] \/ queue' = [queue EXCEPT !.failure = H]
    BY DEF WorkerEnds, WorkerLooks, Delivered, AttemptFails, PauseEnds, Refused, WorkerAborted
  <2> QED BY <1>1, <2>1 DEF TypeOK, QueueOK
<1>4. past'.end = past.end /\ past'.crashes = past.crashes
  <2>1. past' = past \/ past' = [past EXCEPT !.taken = @ \cup {H}]
    BY DEF WorkerEnds, WorkerLooks, Delivered, AttemptFails, PauseEnds, Refused, WorkerAborted
  <2> QED BY <1>1, <2>1 DEF PastType
<1>5. LineUp'
  BY <1>1, <1>2, <1>3, <1>4, SameLineUp
<1>6. WorkerInv'
  <2>1. CASE WorkerLooks
    BY <1>3, <2>1 DEF WorkerLooks, WorkerInv, H
  <2>2. CASE Delivered \/ AttemptFails \/ Refused
    BY <1>1, <1>3, <2>2 DEF Delivered, AttemptFails, Refused, Ending, Step, WorkerInv, H, TypeOK, QueueOK
  <2>3. CASE WorkerEnds \/ PauseEnds \/ WorkerAborted
    BY <1>1, <2>3 DEF WorkerEnds, PauseEnds, WorkerAborted, Step, WorkerInv, TypeOK, QueueOK
  <2> QED BY <2>1, <2>2, <2>3
<1> QED BY <1>5, <1>6

-----------------------------------------------------------------------------
(* The waits of callers                                                    *)

\* What is said of a caller that waits.
Waits == WaitInv /\ WaitWoken

\* The fields of a caller that waits.
LEMMA WaitFields ==
  ASSUME TypeOK
  PROVE  wait \in WaitType /\ wait.since \in Nat /\ wait.target \in Nat /\ queue.last \in Nat /\ queue.last <= Len(items)
         /\ Len(items) \in Nat /\ DOMAIN items = 1..Len(items)
<1>1. wait \in WaitType
  BY DEF TypeOK, CallsOK
<1> QED BY <1>1, QueueTypes DEF WaitType

\* What has ended stays ended, and what was made stays.
Onward ==
  /\ \A i \in DOMAIN items : items'[i] = items[i] /\ (HasEnded(i) => HasEnded(i)')
  /\ Len(items') \in Nat /\ Len(items) <= Len(items')
  /\ past.gone \subseteq past'.gone /\ queue.last <= queue'.last /\ queue'.last \in Nat

\* WaitInv is about what was there when the caller came.
LEMMA OnwardWaitInv ==
  ASSUME TypeOK, WaitInv, Onward,
         wait'.at = wait.at, wait'.what = wait.what, wait'.since = wait.since, wait'.target = wait.target,
         wait'.agent = wait.agent, wait'.holds = wait.holds
  PROVE  WaitInv'
<1>1. /\ wait.since \in Nat /\ wait.target \in Nat /\ queue.last \in Nat /\ queue.last <= Len(items)
      /\ Len(items) \in Nat /\ DOMAIN items = 1..Len(items)
  BY WaitFields
<1>2. OnEnd' <=> OnEnd
  BY DEF OnEnd
<1>3. wait.since <= Len(items) => \A i \in 1..wait.since : i \in DOMAIN items /\ items'[i] = items[i] /\ (HasEnded(i) => HasEnded(i)')
  BY <1>1 DEF Onward
<1>4. wait.at = "asks" => wait.since <= queue'.last /\ wait.since <= Len(items)
  BY <1>1 DEF WaitInv, Onward
<1>5. wait.at = "asks" /\ ~wait.holds => \A i \in 1..wait.since : Message(i)' \in OfAgent(wait.agent) => HasEnded(i)'
  BY <1>3, <1>4 DEF WaitInv, Message
<1>6. wait.at \in {"look", "parked"} /\ OnEnd => wait.since <= wait.target /\ wait.target <= queue'.last
  BY <1>1 DEF WaitInv, Onward
<1>7. wait.at = "purge" => wait.since <= Len(items') /\ \A i \in 1..wait.since : HasEnded(i)'
  BY <1>1, <1>3 DEF WaitInv, Onward
<1>8. (wait.at \in {"asks", "purge"} \/ (wait.at \in {"look", "parked"} /\ OnEnd))
        => wait.agent \in Agents /\ OfAgent(wait.agent) \cap Turns \subseteq past'.gone
  BY DEF WaitInv, Onward
<1> QED BY <1>2, <1>4, <1>5, <1>6, <1>7, <1>8 DEF WaitInv, OfAgent

\* The queue does not change, and the caller does not.
LEMMA SameWaits ==
  ASSUME TypeOK, Waits, Onward, wait' = wait, queue'.ids = queue.ids, queue'.dropped = queue.dropped
  PROVE  Waits'
<1>1. WaitInv'
  BY OnwardWaitInv DEF Waits
<1>2. \A i \in ToSet(queue.ids) : items'[i] = items[i]
  BY QueueTypes DEF Onward
<1>3. MayReturn' <=> MayReturn
  BY <1>2 DEF MayReturn, EntryOutcome, PastTarget
<1>4. WaitWoken'
  BY <1>3 DEF Waits, WaitWoken
<1> QED BY <1>1, <1>4 DEF Waits

\* The queue changes and the caller is told.
LEMMA BumpedWaits ==
  ASSUME TypeOK, Waits, Onward, wait' = Bumped(wait)
  PROVE  Waits'
<1>1. wait \in WaitType
  BY WaitFields
<1>2. WaitInv'
  BY <1>1, BumpedTypes, OnwardWaitInv DEF Waits
<1>3. WaitWoken'
  BY <1>1, BumpedTypes DEF WaitWoken
<1> QED BY <1>2, <1>3 DEF Waits

\* Nobody waits.
LEMMA NoWaits == ASSUME wait' = NoWait PROVE Waits'
<1>1. wait'.at = "none"
  BY NoneTypes
<1> QED BY <1>1 DEF Waits, WaitInv, WaitWoken

\* The queue and the items stay as they are.
LEMMA SameOnward ==
  ASSUME TypeOK, UNCHANGED <<items, queue>>, past'.end = past.end, past.gone \subseteq past'.gone
  PROVE  Onward
BY WaitFields DEF Onward, HasEnded

\* An item that waits in the queue up to the last one: it has ended, or the queue holds it.
LEMMA UpToLast ==
  ASSUME TypeOK, LineInv, NEW i \in 1..queue.last, i \notin ToSet(queue.ids)
  PROVE  HasEnded(i)
<1>1. i \in DOMAIN items /\ ~(queue.last < i)
  BY WaitFields
<1> QED BY <1>1 DEF LineInv

\* The steps of the callers that wait.
LEMMA WaitingWaits ==
  ASSUME QueueInv,
         \/ \E e \in Entries : EntryStored(e)
         \/ \E a \in Agents : InstanceEnded(a)
         \/ Read \/ EndedAsks \/ WaitLooks \/ WaitWakes \/ ReadAnswered \/ ReadReturns
  PROVE  Waits'
<1>1. TypeOK /\ Waits /\ LineInv /\ wait \in WaitType /\ past \in PastType
  BY WaitFields DEF QueueInv, Waits, TypeOK, ItemsOK
<1>2. /\ wait.since \in Nat /\ wait.target \in Nat /\ queue.last \in Nat /\ queue.last <= Len(items)
      /\ Len(items) \in Nat /\ DOMAIN items = 1..Len(items)
  BY <1>1, WaitFields
<1>3. ASSUME NEW e \in Entries, EntryStored(e) PROVE Waits'
  <2>1. wait'.at = "look" /\ wait'.what = "entry"
    BY <1>3 DEF EntryStored, Calls, NoWait
  <2> QED BY <2>1 DEF Waits, WaitInv, WaitWoken, OnEnd
<1>4. ASSUME NEW a \in Agents, InstanceEnded(a) PROVE Waits'
  <2>1. wait' = [NoWait EXCEPT !.at = "asks", !.what = "ended", !.agent = a, !.since = queue.last, !.holds = HoldsItem(a)]
    BY <1>4 DEF InstanceEnded, Calls
  <2>2. wait'.at = "asks" /\ wait'.agent = a /\ wait'.since = queue.last /\ (wait'.holds <=> HoldsItem(a))
    BY <2>1 DEF NoWait
  <2>3. UNCHANGED <<items, queue>>
    BY <1>4 DEF InstanceEnded, Calls
  <2>4. past'.end = past.end /\ OfAgent(a) \cap Turns \subseteq past'.gone
    BY <1>1, <1>4 DEF InstanceEnded, PastType
  <2>5. ASSUME ~HoldsItem(a), NEW i \in 1..queue.last, Message(i) \in OfAgent(a) PROVE HasEnded(i)
    <3>1. i \notin ToSet(queue.ids)
      BY <2>5 DEF HoldsItem
    <3> QED BY <1>1, <3>1, UpToLast
  <2>6. WaitInv'
    BY <1>2, <2>2, <2>3, <2>4, <2>5 DEF WaitInv, HasEnded, Message, OfAgent
  <2>7. WaitWoken'
    BY <2>2 DEF WaitWoken
  <2> QED BY <2>6, <2>7 DEF Waits
<1>5. CASE Read
  <2>1. wait'.at = "look" /\ wait'.what = "read"
    BY <1>5 DEF Read, Calls, NoWait
  <2> QED BY <2>1 DEF Waits, WaitInv, WaitWoken, OnEnd
<1>6. CASE EndedAsks
  <2>1. CASE wait' = NoWait
    BY <2>1, NoWaits
  <2>2. CASE wait' = [wait EXCEPT !.at = "look", !.target = queue.last] /\ UNCHANGED past
    <3>1. wait'.at = "look" /\ wait'.target = queue.last /\ wait'.since = wait.since /\ wait'.agent = wait.agent
      BY <1>1, <2>2 DEF WaitType
    <3>2. wait.at = "asks" /\ queue' = queue
      BY <1>6 DEF EndedAsks
    <3>3. wait.since <= queue.last /\ wait.agent \in Agents /\ OfAgent(wait.agent) \cap Turns \subseteq past.gone
      BY <1>1, <3>2 DEF Waits, WaitInv
    <3>4. WaitInv'
      BY <1>2, <2>2, <3>1, <3>2, <3>3 DEF WaitInv, OfAgent
    <3> QED BY <3>1, <3>4 DEF Waits, WaitWoken
  <2> QED BY <1>6, <2>1, <2>2 DEF EndedAsks
<1>7. CASE WaitLooks
  <2>0. wait.at = "look" /\ UNCHANGED <<items, queue, past>>
    BY <1>7 DEF WaitLooks
  <2>1. CASE wait' = NoWait
    BY <2>1, NoWaits
  <2>2. CASE ~MayReturn /\ wait' = [wait EXCEPT !.at = "parked", !.fresh = FALSE]
    <3>1. /\ wait'.at = "parked" /\ wait'.what = wait.what /\ wait'.since = wait.since /\ wait'.target = wait.target
          /\ wait'.agent = wait.agent /\ wait'.entry = wait.entry
      BY <1>1, <2>2 DEF WaitType
    <3>2. WaitInv'
      BY <1>1, <2>0, <3>1 DEF Waits, WaitInv, OnEnd, OfAgent
    <3>3. MayReturn' <=> MayReturn
      BY <2>0, <3>1 DEF MayReturn, EntryOutcome, PastTarget
    <3> QED BY <2>2, <3>2, <3>3 DEF Waits, WaitWoken
  <2>3. CASE wait.what = "read" /\ wait' = [wait EXCEPT !.at = "asking"]
    <3>1. wait'.at = "asking"
      BY <1>1, <2>3 DEF WaitType
    <3> QED BY <3>1 DEF Waits, WaitInv, WaitWoken
  <2>4. CASE MayReturn /\ wait.what \notin {"entry", "read"} /\ wait' = [wait EXCEPT !.at = "purge"]
    <3>1. /\ wait'.at = "purge" /\ wait'.since = wait.since /\ wait'.agent = wait.agent
      BY <1>1, <2>4 DEF WaitType
    <3>2. /\ wait.since <= wait.target /\ wait.target <= queue.last /\ wait.agent \in Agents
          /\ OfAgent(wait.agent) \cap Turns \subseteq past.gone
      BY <1>1, <2>0, <2>4 DEF Waits, WaitInv, OnEnd
    <3>3. ASSUME NEW i \in 1..wait.since PROVE HasEnded(i)
      <4>1. i \in 1..queue.last /\ i <= wait.target /\ i \in Nat
        BY <1>2, <3>2
      <4>2. PastTarget(wait.target)
        BY <2>4 DEF MayReturn
      <4>3. i \notin ToSet(queue.ids)
        <5>1. CASE queue.ids = <<>>
          BY <5>1 DEF ToSet
        <5>2. CASE queue.ids # <<>> /\ Head(queue.ids) > wait.target
          <6>1. \A j \in ToSet(queue.ids) : Head(queue.ids) <= j
            BY <1>1, <5>2, QueueTypes, TailLine DEF LineInv
          <6>2. Head(queue.ids) \in Nat
            BY <1>1, <5>2, QueueTypes, HeadIn
          <6> QED BY <1>2, <4>1, <5>2, <6>1, <6>2
        <5> QED BY <4>2, <5>1, <5>2 DEF PastTarget
      <4> QED BY <1>1, <4>1, <4>3, UpToLast
    <3>4. wait.since <= Len(items)
      BY <1>2, <3>2
    <3>5. WaitInv'
      BY <2>0, <3>1, <3>2, <3>3, <3>4 DEF WaitInv, HasEnded, OfAgent
    <3> QED BY <3>1, <3>5 DEF Waits, WaitWoken
  <2> QED BY <1>7, <2>1, <2>2, <2>3, <2>4 DEF WaitLooks
<1>8. CASE WaitWakes
  <2>1. /\ wait.at = "parked" /\ UNCHANGED <<items, queue, past>>
        /\ wait'.at = "look" /\ wait'.what = wait.what /\ wait'.since = wait.since /\ wait'.target = wait.target
        /\ wait'.agent = wait.agent
    BY <1>1, <1>8 DEF WaitWakes, WaitType
  <2> QED BY <1>1, <2>1 DEF Waits, WaitInv, WaitWoken, OnEnd, OfAgent
<1>9. CASE ReadAnswered
  <2>1. CASE wait' = NoWait
    BY <2>1, NoWaits
  <2>2. CASE wait' = [wait EXCEPT !.at = "answered", !.tip = LastTaken]
    <3>1. wait'.at = "answered"
      BY <1>1, <2>2 DEF WaitType
    <3> QED BY <3>1 DEF Waits, WaitInv, WaitWoken
  <2> QED BY <1>9, <2>1, <2>2 DEF ReadAnswered
<1>10. CASE ReadReturns
  BY <1>10, NoWaits DEF ReadReturns
<1> QED BY <1>3, <1>4, <1>5, <1>6, <1>7, <1>8, <1>9, <1>10

\* An item is kept, queued or ended.
LEMMA ItemWaits == ASSUME QueueInv, TypeOK', Append1 \/ Enqueue \/ EndItem PROVE Waits'
<1>1. TypeOK /\ Waits /\ past \in PastType
  BY DEF QueueInv, Waits, TypeOK, ItemsOK
<1>2. Len(items') \in Nat /\ queue'.last \in Nat
  BY WaitFields, QueueTypes DEF TypeOK, ItemsOK, QueueOK
<1>3. CASE Append1
  <2>0. PICK n : n = Len(items)
    OBVIOUS
  <2>1. items' = Append(items, op.item) /\ queue' = queue /\ wait' = wait
    BY <1>3 DEF Append1
  <2>2. n \in Nat /\ DOMAIN items = 1..n /\ items \in Seq(ItemType) /\ op.item \in ItemType
    BY <1>1, <1>3, <2>0, WaitFields DEF TypeOK, ItemsOK, QueueInv, OpInv, Append1, Fits, FitsItem
  <2>3. Len(items') = n + 1 /\ \A i \in 1..n : items'[i] = items[i]
    BY <2>0, <2>1, <2>2
  <2>4. past' = [past EXCEPT !.end = [past.end EXCEPT ![n + 1] = "kept"]]
    BY <1>3, <2>0 DEF Append1
  <2>5. past'.gone = past.gone /\ past'.end = [past.end EXCEPT ![n + 1] = "kept"]
    BY <1>1, <2>4 DEF PastType
  <2>6. \A i \in 1..n : HasEnded(i) => HasEnded(i)'
    BY <1>1, <2>2, <2>5 DEF HasEnded, PastType
  <2>7. Onward
    BY <1>1, <1>2, <2>0, <2>1, <2>2, <2>3, <2>5, <2>6, WaitFields DEF Onward
  <2> QED BY <1>1, <2>1, <2>7, SameWaits
<1>4. CASE Enqueue
  <2>1. items' = items /\ past'.end = past.end /\ past'.gone = past.gone
    BY <1>1, <1>4, EnqueuedIs DEF Enqueue, PastType
  <2>2. CASE UNCHANGED <<queue, wait>>
    BY <1>1, <2>1, <2>2, SameOnward, SameWaits
  <2>3. CASE ~stopped.is
    <3>1. wait' = Bumped(wait) /\ queue'.last = Len(items)
      BY <1>1, <1>4, <2>3, EnqueuedIs DEF TypeOK, QueueOK
    <3>2. Onward
      BY <1>1, <2>1, <3>1, WaitFields DEF Onward, HasEnded
    <3> QED BY <1>1, <3>1, <3>2, BumpedWaits
  <2> QED BY <1>4, <2>2, <2>3, EnqueuedIs
<1>5. CASE EndItem
  <2>0. PICK h : h = H
    OBVIOUS
  <2>1. items' = items /\ wait' = Bumped(wait) /\ queue'.last = queue.last
    BY <1>1, <1>5, EndItemIs DEF EndItem, TypeOK, QueueOK
  <2>2. past' = [past EXCEPT !.end = [past.end EXCEPT ![h] = worker.how]]
    BY <1>5, <2>0, EndItemIs
  <2>3. past'.gone = past.gone /\ past'.end = [past.end EXCEPT ![h] = worker.how]
    BY <1>1, <2>2 DEF PastType
  <2>4. \A i \in DOMAIN items : HasEnded(i) => HasEnded(i)'
    <3>1. DOMAIN items \subseteq Ids
      BY <1>1, QueueTypes
    <3> QED BY <1>1, <1>5, <2>3, <3>1, EndItemIs DEF HasEnded, PastType
  <2>5. Onward
    BY <1>1, <2>1, <2>3, <2>4, WaitFields DEF Onward
  <2> QED BY <1>1, <2>1, <2>5, BumpedWaits
<1> QED BY <1>3, <1>4, <1>5

-----------------------------------------------------------------------------
(* The invariant                                                           *)

\* The parts of the invariant.
LEMMA PartsAre == QueueInv <=> TypeOK /\ MemInv /\ LineUp /\ WorkerInv /\ Waits
BY DEF QueueInv, MemInv, LineUp, Waits

\* An adapter that was just built over an empty store.
LEMMA InitInv == Init => QueueInv
<1> SUFFICES ASSUME Init PROVE QueueInv
  OBVIOUS
<1>1. TypeOK
  BY InitTypes
<1>2. /\ items = <<>> /\ store = <<>> /\ queue.ids = <<>> /\ op.at = "none" /\ wait.at = "none" /\ worker.at = "idle"
      /\ \A t \in Turns : turns[t].at = "none" /\ turns[t].chunks = <<>>
  BY DEF Init, EmptyQueue, NoOp, NoWait, NoTurn
<1>3. DOMAIN items = {} /\ Len(items) = 0 /\ DOMAIN store = {} /\ DOMAIN queue.ids = {} /\ \A i \in 1..0 : FALSE
  BY <1>2
<1>4. Landed = 0
  BY <1>2, <1>3 DEF Landed
<1>5. OpInv /\ TurnInv /\ SinkInv /\ WorkerInv /\ FlightInv /\ WaitInv /\ WaitWoken
  <2>1. OpInv /\ WorkerInv /\ FlightInv /\ WaitInv /\ WaitWoken
    BY <1>2 DEF OpInv, WorkerInv, FlightInv, WaitInv, WaitWoken
  <2>2. TurnInv
    BY <1>2, <1>3, <1>4 DEF TurnInv, NoItemOf
  <2>3. SinkInv
    BY <1>3, <1>4 DEF SinkInv
  <2> QED BY <2>1, <2>2, <2>3
<1>6. LineInv /\ EndedFirst /\ NothingLost /\ ResponseEndsOnce /\ EntryTold
  BY <1>3 DEF LineInv, Ascends, EndedFirst, NothingLost, ResponseEndsOnce, EntryTold
<1>7. SealWhole
  BY <1>3 DEF SealWhole
<1> QED BY <1>1, <1>5, <1>6, <1>7 DEF QueueInv

\* A step that does not take an item from the queue, nor puts one there, and is not a wait.
Quiet ==
  /\ UNCHANGED <<items, wait>> /\ queue'.ids = queue.ids /\ queue'.dropped = queue.dropped
  /\ queue'.last = queue.last /\ past'.end = past.end /\ past.gone \subseteq past'.gone

\* A caller that waits sees nothing of it.
LEMMA QuietWaits == ASSUME TypeOK, Waits, Quiet PROVE Waits'
<1>1. Onward
  BY WaitFields DEF Onward, HasEnded, Quiet
<1> QED BY <1>1, SameWaits DEF Quiet

\* A call, or an operation that goes on or fails.
LEMMA CallInv == ASSUME QueueInv, CallsNext \/ AppendFails PROVE QueueInv'
<1>1. PICK o \in OpType : Known(o) /\ CallStep(o) /\ op.at # "enqueue"
  BY OperationIs
<1>2. TypeOK /\ MemInv /\ LineUp /\ WorkerInv /\ Waits
  BY PartsAre
<1>3. UNCHANGED <<items, store, queue, wait, worker, past, turns, tip, flagVars>>
  BY <1>1 DEF CallStep, Rest
<1>4. op'.at # "enqueue"
  BY <1>1 DEF CallStep, Took, NoOp
<1>5. TypeOK' /\ MemInv'
  BY <1>1, <1>2, CallTypes, CallMemInv
<1>6. LineUp'
  BY <1>1, <1>2, <1>3, <1>4, SameLineUp DEF flagVars
<1>7. WorkerInv' /\ Waits'
  BY <1>2, <1>3, SameWorker, QuietWaits DEF Quiet
<1> QED BY <1>5, <1>6, <1>7 DEF QueueInv, MemInv, LineUp, Waits

\* An item is kept, queued, or ended.
LEMMA ItemInv == ASSUME QueueInv, Append1 \/ Enqueue \/ EndItem PROVE QueueInv'
<1>1. TypeOK'
  BY AppendTypes, EnqueueTypes, EndItemTypes
<1>2. LineUp' /\ WorkerInv'
  BY AppendLineUp, EnqueueLineUp, EndItemLineUp
<1>3. Waits'
  BY <1>1, ItemWaits
<1>4. MemInv'
  <2>1. CASE EndItem
    <3>1. UNCHANGED <<items, op, turns, sinks>> /\ past'.gone = past.gone
      BY <2>1, EndItemIs DEF EndItem, memVars, QueueInv, TypeOK, ItemsOK, PastType
    <3> QED BY <3>1, PartsAre, SameMemInv
  <2> QED BY <2>1, AppendMemInv, EnqueueMemInv
<1> QED BY <1>1, <1>2, <1>3, <1>4 DEF QueueInv, MemInv, LineUp, Waits

\* What the delivery task does between two items.
TaskStep == WorkerEnds \/ WorkerLooks \/ Delivered \/ AttemptFails \/ PauseEnds \/ Refused \/ WorkerAborted

\* A step of it ends no item.
LEMMA TaskIs ==
  ASSUME TypeOK, TaskStep \/ RemoveEnds
  PROVE  Quiet /\ UNCHANGED <<op, turns, sinks>>
<1>1. queue \in [ids : Seq(DOMAIN items), dropped : SUBSET Entries, failure : Nat, running : BOOLEAN, last : 0..Len(items)]
      /\ past \in PastType
  BY DEF TypeOK, QueueOK, ItemsOK
<1>2. UNCHANGED <<items, wait, op, turns, sinks>>
  BY DEF TaskStep, WorkerEnds, WorkerLooks, Delivered, AttemptFails, PauseEnds, Refused, WorkerAborted, RemoveEnds, memVars
<1>3. queue'.ids = queue.ids /\ queue'.dropped = queue.dropped /\ queue'.last = queue.last
  <2>1. queue' \in {queue, [queue EXCEPT !.running = FALSE], [queue EXCEPT !.failure = H]}
    BY DEF TaskStep, WorkerEnds, WorkerLooks, Delivered, AttemptFails, PauseEnds, Refused, WorkerAborted, RemoveEnds
  <2> QED BY <1>1, <2>1
<1>4. past'.end = past.end /\ past'.gone = past.gone
  <2>1. past' \in {past, [past EXCEPT !.taken = past.taken \cup {H}]}
    BY DEF TaskStep, WorkerEnds, WorkerLooks, Delivered, AttemptFails, PauseEnds, Refused, WorkerAborted, RemoveEnds
  <2> QED BY <1>1, <2>1 DEF PastType
<1> QED BY <1>2, <1>3, <1>4 DEF Quiet

\* The invariant is kept by them.
LEMMA TaskInv == ASSUME QueueInv, TaskStep \/ RemoveEnds PROVE QueueInv'
<1>1. TypeOK /\ MemInv /\ LineUp /\ WorkerInv /\ Waits
  BY PartsAre
<1>2. TypeOK'
  BY WorkerTypes DEF TaskStep
<1>3. LineUp' /\ WorkerInv'
  BY WorkerLineUp, RemoveLineUp DEF TaskStep
<1>4. MemInv' /\ Waits'
  BY <1>1, TaskIs, QuietWaits, SameMemInv DEF Quiet
<1> QED BY <1>2, <1>3, <1>4 DEF QueueInv, MemInv, LineUp, Waits

\* What a caller that waits does, until its agent is purged.
WaitStep ==
  \/ \E e \in Entries : EntryStored(e)
  \/ \E a \in Agents : InstanceEnded(a)
  \/ Read \/ EndedAsks \/ WaitLooks \/ WaitWakes \/ ReadAnswered \/ ReadReturns

\* It touches neither the queue nor the memory of the thread, but its tip.
LEMMA WaitStepIs ==
  ASSUME TypeOK, WaitStep
  PROVE  /\ UNCHANGED <<items, store, queue, worker, op, turns, sinks, stopped>>
         /\ past'.end = past.end /\ past'.crashes = past.crashes /\ past.gone \subseteq past'.gone
         /\ past'.taken = past.taken
<1>1. past \in PastType
  BY DEF TypeOK, ItemsOK
<1>2. UNCHANGED <<items, store, queue, worker, op, turns, sinks, stopped>>
  BY DEF WaitStep, EntryStored, InstanceEnded, Calls, Read, EndedAsks, WaitLooks, WaitWakes, ReadAnswered, ReadReturns,
         memVars, flagVars
<1>3. \/ past' = past
      \/ \E S : past' = [past EXCEPT !.gone = past.gone \cup S]
      \/ \E S : past' = [past EXCEPT !.ended = past.ended \cup S]
  BY DEF WaitStep, EntryStored, InstanceEnded, Calls, Read, EndedAsks, WaitLooks, WaitWakes, ReadAnswered, ReadReturns
<1> QED BY <1>1, <1>2, <1>3 DEF PastType

\* The invariant is kept by it.
LEMMA WaitStepInv == ASSUME QueueInv, WaitStep PROVE QueueInv'
<1>1. TypeOK /\ MemInv /\ LineUp /\ WorkerInv /\ Waits
  BY PartsAre
<1>2. TypeOK' /\ Waits'
  BY WaitingTypes, WaitingWaits DEF WaitStep
<1>3. MemInv' /\ LineUp' /\ WorkerInv'
  BY <1>1, WaitStepIs, SameMemInv, SameLineUp, SameWorker
<1> QED BY <1>2, <1>3 DEF QueueInv, MemInv, LineUp, Waits

\* The agent of a caller is purged.
LEMMA PurgeInv == ASSUME QueueInv, Purge PROVE QueueInv'
<1>1. TypeOK /\ MemInv /\ LineUp /\ WorkerInv /\ Waits
  BY PartsAre
<1>2. past'.end = past.end /\ past'.crashes = past.crashes /\ UNCHANGED <<items, store, queue, worker, op, stopped>> /\ wait' = NoWait
  BY <1>1, PurgeIs DEF TypeOK, ItemsOK, PastType
<1>3. LineUp' /\ WorkerInv' /\ Waits'
  BY <1>1, <1>2, SameLineUp, SameWorker, NoWaits
<1> QED BY <1>3, PurgeTypes, PurgeMemInv DEF QueueInv, MemInv, LineUp, Waits

\* The adapter is dropped, and reports what waits.
LEMMA DropInv == ASSUME QueueInv, DropBegins \/ DropReports PROVE QueueInv'
<1>1. TypeOK /\ MemInv /\ LineUp /\ WorkerInv /\ Waits
  BY PartsAre
<1>2. UNCHANGED <<items, store, queue, worker, op, wait, turns, sinks>> /\ (stopped.is => stopped'.is)
  BY <1>1 DEF DropBegins, DropReports, memVars, TypeOK, FlagsOK
<1>3. past'.end = past.end /\ past'.crashes = past.crashes /\ past'.gone = past.gone
  <2>1. past' \in {past, [past EXCEPT !.unsent = past.unsent \cup ToSet(queue.ids)]}
    BY DEF DropBegins, DropReports
  <2> QED BY <1>1, <2>1 DEF TypeOK, ItemsOK, PastType
<1>4. MemInv' /\ LineUp' /\ WorkerInv'
  BY <1>1, <1>2, <1>3, SameMemInv, SameLineUp, SameWorker
<1>5. Waits'
  BY <1>1, <1>2, <1>3, QuietWaits DEF Quiet
<1> QED BY <1>4, <1>5, DropTypes DEF QueueInv, MemInv, LineUp, Waits

\* A restart over the store.
LEMMA RestartInv == ASSUME QueueInv, Restart PROVE QueueInv'
BY RestartTypes, RestartMemInv, RestartLineUp, RestartIs, NoWaits DEF QueueInv, MemInv, LineUp, Waits

\* Nothing changes.
LEMMA SameInv == ASSUME QueueInv, UNCHANGED vars PROVE QueueInv'
<1>1. TypeOK /\ MemInv /\ LineUp /\ WorkerInv /\ Waits
  BY PartsAre
<1>2. UNCHANGED <<items, past, store, queue, worker, op, wait, turns, sinks, memVars, flagVars>> /\ stopped' = stopped
  BY DEF vars, memVars, flagVars
<1>3. TypeOK'
  BY <1>1, <1>2, SameItems, SameQueue, SameMem, SameFlags, SameCalls DEF TypeOK
<1>4. MemInv' /\ LineUp' /\ WorkerInv'
  BY <1>1, <1>2, SameMemInv, SameLineUp, SameWorker
<1>5. Waits'
  BY <1>1, <1>2, QuietWaits DEF Quiet
<1> QED BY <1>3, <1>4, <1>5 DEF QueueInv, MemInv, LineUp, Waits

\* The steps of the thread, by what they do to the invariant.
LEMMA StepsAre ==
  ASSUME Next
  PROVE  \/ CallsNext \/ AppendFails \/ Append1 \/ Enqueue \/ EndItem \/ TaskStep \/ RemoveEnds
         \/ WaitStep \/ Purge \/ DropBegins \/ DropReports \/ Restart
BY DEF Next, CallsNext, TaskStep, WaitStep, Operation, Worker, Waiting

\* Every step keeps the invariant.
LEMMA NextInv == QueueInv /\ [Next]_vars => QueueInv'
BY StepsAre, CallInv, ItemInv, TaskInv, WaitStepInv, PurgeInv, DropInv, RestartInv, SameInv

\* The inductive invariant holds: an item keeps its place from the store to its end, and
\* the memory of the thread agrees with what was kept.
THEOREM QueueInvariant == Spec => []QueueInv
BY InitInv, NextInv, PTL DEF Spec

\* An item that was kept and has not ended is in the store, and in the queue or about to
\* be while the adapter lives, whatever fails, stops or restarts.
THEOREM NothingIsLost == Spec => []NothingLost
BY QueueInvariant, PTL DEF QueueInv

\* The chunks of a turn are numbered with no gap, and the seal of its closing counts them.
THEOREM SealsAreWhole == Spec => []SealWhole
BY QueueInvariant, PTL DEF QueueInv

\* No delta of a response follows the one that ended it.
THEOREM ResponsesEndOnce == Spec => []ResponseEndsOnce
BY QueueInvariant, PTL DEF QueueInv

-----------------------------------------------------------------------------
(* What a step may do                                                      *)

\* The steps that tell neither Threads nor a caller of instance_ended anything.
LEMMA SilentSteps ==
  ASSUME QueueInv, CallsNext \/ AppendFails \/ Append1 \/ Enqueue \/ EndItem
         \/ RemoveEnds \/ DropBegins \/ DropReports \/ UNCHANGED vars
  PROVE  past'.taken = past.taken /\ past'.ended = past.ended
<1>1. past \in PastType
  BY DEF QueueInv, TypeOK, ItemsOK
<1>2. CASE CallsNext \/ AppendFails
  BY <1>2, OperationIs DEF CallStep, Rest
<1>3. CASE Append1
  <2>1. \E f : past' = [past EXCEPT !.end = f]
    BY <1>3 DEF Append1
  <2> QED BY <1>1, <2>1 DEF PastType
<1>4. CASE Enqueue
  BY <1>1, <1>4, EnqueuedIs DEF PastType
<1>5. CASE EndItem
  BY <1>1, <1>5, EndItemIs DEF PastType
<1>6. CASE RemoveEnds \/ DropBegins \/ UNCHANGED vars
  BY <1>6 DEF RemoveEnds, DropBegins, vars
<1>7. CASE DropReports
  BY <1>1, <1>7 DEF DropReports, PastType
<1> QED BY <1>2, <1>3, <1>4, <1>5, <1>6, <1>7

\* What was made before the head of the queue has ended.
LEMMA HeadIsFirst ==
  ASSUME TypeOK, LineInv, queue.ids # <<>>, NEW j \in Nat, j # 0, j < Head(queue.ids)
  PROVE  HasEnded(j)
<1> DEFINE h == Head(queue.ids)
<1>1. queue.ids \in Seq(DOMAIN items) /\ queue.ids \in Seq(Nat) /\ DOMAIN items = 1..Len(items) /\ Len(items) \in Nat
  BY QueueTypes
<1>2. h \in DOMAIN items /\ 1 \in DOMAIN queue.ids /\ queue.ids[1] = h
  BY <1>1
<1>3. j \in DOMAIN items
  BY <1>1, <1>2
<1>4. \A i \in ToSet(queue.ids) : h <= i
  BY <1>1, TailLine DEF LineInv
<1> HIDE DEF h
<1>5. j \notin ToSet(queue.ids)
  BY <1>1, <1>2, <1>4 DEF h
<1> QED BY <1>1, <1>2, <1>3, <1>5 DEF LineInv, h

\* A step of the delivery task lets Threads take the head of the queue, and no other item.
LEMMA TaskTakes ==
  ASSUME QueueInv, TaskStep
  PROVE  /\ past'.ended = past.ended
         /\ past'.taken = past.taken \/ (queue.ids # <<>> /\ past'.taken = past.taken \cup {Head(queue.ids)})
<1>1. past \in PastType /\ TypeOK /\ WorkerInv
  BY DEF QueueInv, TypeOK, ItemsOK
<1>2. past' = past \/ (worker.at = "trying" /\ past' = [past EXCEPT !.taken = past.taken \cup {H}])
  BY DEF TaskStep, WorkerEnds, WorkerLooks, Delivered, AttemptFails, PauseEnds, Refused, WorkerAborted
<1>3. worker.at = "trying" => queue.ids # <<>> /\ H = Head(queue.ids)
  BY <1>1, HeadTypes
<1> QED BY <1>1, <1>2, <1>3 DEF PastType

\* The step of InOrder: Threads takes nothing before what was kept earlier has ended.
LEMMA TakesInOrder ==
  ASSUME QueueInv, [Next]_vars
  PROVE  \A i \in past'.taken \ past.taken : \A j \in 1..(i - 1) : HasEnded(j)
<1>1. TypeOK /\ LineInv
  BY DEF QueueInv
<1>2. CASE past'.taken = past.taken
  BY <1>2
<1>3. CASE queue.ids # <<>> /\ past'.taken = past.taken \cup {Head(queue.ids)}
  <2>1. PICK h : h = Head(queue.ids)
    OBVIOUS
  <2>2. h \in Nat
    BY <1>1, <1>3, <2>1, QueueTypes
  <2>3. \A j \in 1..(h - 1) : HasEnded(j)
    BY <1>1, <1>3, <2>1, <2>2, HeadIsFirst
  <2> QED BY <1>3, <2>1, <2>3
<1>4. past'.taken = past.taken \/ (queue.ids # <<>> /\ past'.taken = past.taken \cup {Head(queue.ids)})
  <2>1. CASE WaitStep
    BY <1>1, <2>1, WaitStepIs
  <2>2. CASE Purge
    BY <1>1, <2>2, PurgeIs DEF TypeOK, ItemsOK, PastType
  <2>3. CASE Restart
    BY <2>3, RestartIs
  <2> QED BY <2>1, <2>2, <2>3, StepsAre, SilentSteps, TaskTakes
<1> QED BY <1>2, <1>3, <1>4

\* First in, first out: Threads takes an item for the first time only when every item
\* kept before it has ended, across resends and restarts.
THEOREM ItemsInOrder == Spec => InOrder
<1>1. QueueInv /\ [Next]_vars => [\A i \in past'.taken \ past.taken : \A j \in 1..(i - 1) : HasEnded(j)]_vars
  BY TakesInOrder
<1> QED BY <1>1, QueueInvariant, PTL DEF Spec, InOrder

\* The step of EndedAfterItems.
LEMMA EndsAfterItems ==
  ASSUME QueueInv, [Next]_vars, NEW a \in past'.ended \ past.ended, past'.crashes = past.crashes,
         NEW i \in 1..wait.since, Message(i) \in OfAgent(a)
  PROVE  HasEnded(i)
<1>1. TypeOK /\ WaitInv /\ past \in PastType
  BY DEF QueueInv, TypeOK, ItemsOK
<1>2. CASE WaitStep
  <2>1. wait.at = "asks" /\ ~wait.holds /\ a = wait.agent
    <3>1. CASE EndedAsks
      <4>1. past'.ended # past.ended
        OBVIOUS
      <4>2. wait.at = "asks" /\ ~wait.holds /\ past' = [past EXCEPT !.ended = past.ended \cup {wait.agent}]
        BY <3>1, <4>1 DEF EndedAsks
      <4> QED BY <1>1, <4>2 DEF PastType
    <3>2. CASE ~EndedAsks
      <4>1. past' = past \/ \E S : past' = [past EXCEPT !.gone = past.gone \cup S]
        BY <1>2, <3>2 DEF WaitStep, EntryStored, InstanceEnded, Calls, Read, WaitLooks, WaitWakes, ReadAnswered, ReadReturns
      <4> QED BY <1>1, <4>1 DEF PastType
    <3> QED BY <3>1, <3>2
  <2> QED BY <1>1, <2>1 DEF WaitInv
<1>3. CASE Purge
  BY <1>1, <1>3, PurgeIs DEF WaitInv
<1>4. CASE Restart
  <2>1. past'.crashes = past.crashes + 1 /\ past.crashes \in Nat
    BY <1>1, <1>4, RestartIs DEF PastType
  <2> QED BY <2>1
<1> QED BY <1>2, <1>3, <1>4, StepsAre, SilentSteps, TaskTakes

\* The waits of callers: no wake-up is lost, entry_stored does not say Stored of an entry
\* that was lost, and instance_ended returns after the items of before its call.
THEOREM WaitsAreTold == Spec => WaitsTell
<1>1. QueueInv => WaitWoken /\ EntryTold
  BY DEF QueueInv
<1>2. QueueInv /\ [Next]_vars =>
        [\A a \in past'.ended \ past.ended : past'.crashes = past.crashes
           => \A i \in 1..wait.since : Message(i) \in OfAgent(a) => HasEnded(i)]_vars
  BY EndsAfterItems
<1> QED BY <1>1, <1>2, QueueInvariant, PTL DEF Spec, WaitsTell, EndedAfterItems
=============================================================================
