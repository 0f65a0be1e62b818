------------------------ MODULE DeliveryQueueProofs ------------------------
(***************************************************************************)
(* Theorems about the delivery queue, for every value of its constants, in *)
(* three parts.                                                            *)
(*                                                                         *)
(* Types: TypeInv is TypeOK with the entry that an attempt needs.          *)
(*                                                                         *)
(* Order: the queue loses no write and sends in order.  The inductive      *)
(* invariant is OrderInv: the places of the entries (EntriesConserved),    *)
(* the ascending line (LineOrder) and the order of the requests            *)
(* (SentInOrder) need one another.                                         *)
(*                                                                         *)
(* Ends: a write reaches jobs only after what it depends on was delivered, *)
(* drained() covers what was handed over before it, and the queue          *)
(* implements the ledger of its writes (WriteLedger).  EndInv joins to     *)
(* OrderInv what the task knows while it completes entries (TodoKept),     *)
(* that the line ends in its order until the task is dropped (LineEnds,    *)
(* LeftOrDone), and that `ended' tells of the last write of the line with  *)
(* a key (EndedTrue).                                                      *)
(***************************************************************************)
EXTENDS DeliveryQueue, FiniteSetTheorems, TLAPS

\* An attempt is there only with its entry.
AttemptHasHead == attempt # "none" => head \in Seqs

\* The type invariant in the form that every step keeps.
TypeInv == TypeOK /\ AttemptHasHead

\* The keys and the results of the dependency rules are of their types.
LEMMA BlockedType ==
  ASSUME NEW w \in Write, NEW e
  PROVE  Blocked(w, e) \subseteq Removals
  BY DEF Blocked, Removals

\* The key under which a write ends is a dependency key.
LEMMA OwnKeyType ==
  ASSUME NEW w \in Write
  PROVE  OwnKey(w) \subseteq DepKey
  BY DEF OwnKey, DepKey, DepKinds, Write, AgentIds, JobIds

\* The bound of the hand-overs leaves a seq for the new write.
LEMMA ReservedNat == TypeInv => Reserved \in Nat
<1> SUFFICES ASSUME TypeInv PROVE Reserved \in Nat
  OBVIOUS
<1> DEFINE S == {s \in newHeld \cup held : follow[s] # NoWrite}
<1>1. IsFiniteSet(Seqs)
  BY FS_Interval, QueueAssumption DEF Seqs
<1>2. S \subseteq Seqs
  BY DEF TypeInv, TypeOK, StateTypes, TaskTypes
<1>3. IsFiniteSet(S)
  BY <1>1, <1>2, FS_Subset
<1>4. QED
  BY <1>3, FS_CardinalityType DEF Reserved

\* The first state has its types.
LEMMA InitType == Init => TypeInv
<1> SUFFICES ASSUME Init PROVE TypeInv
  OBVIOUS
<1>1. 0 \in Seqs /\ 1 \in 1 .. MaxWrites /\ 0 \in 0 .. MaxWrites
  BY QueueAssumption DEF Seqs
<1>2. StateTypes
  <2>1. fifo \in Seq(Seqs)
    BY <1>1 DEF Init
  <2>2. ended \in [DepKey -> Results \cup {"None"}]
    BY DEF Init
  <2>3. QED
    BY <1>1, <2>1, <2>2 DEF Init, StateTypes
<1>3. Started \in Write
  BY DEF Started, W, Write, WriteKind, AgentIds, JobIds
<1>4. EntryTypes
  BY <1>3 DEF Init, EntryTypes
<1>5. TaskTypes /\ AttemptHasHead
  BY DEF Init, TaskTypes, AttemptHasHead, Results
<1>6. CallerTypes
  BY <1>1 DEF Init, CallerTypes, WaiterState
<1>7. HistoryTypes
  BY DEF Init, HistoryTypes
<1>8. QED
  BY <1>2, <1>4, <1>5, <1>6, <1>7 DEF TypeInv, TypeOK

\* hand_over, and below the other steps, one lemma each: the types are kept.
LEMMA HandOverType ==
  ASSUME TypeInv, NEW w \in HandOvers, HandOver(w)
  PROVE  TypeInv'
<1> USE DEF TypeInv, TypeOK
<1>1. nextSeq \in Seqs /\ nextSeq + 1 \in 1 .. MaxWrites
  BY ReservedNat, QueueAssumption DEF HandOver, StateTypes, Seqs
<1>2. w \in Write
  BY QueueAssumption
<1>3. StateTypes'
  <2>1. fifo' \in Seq(Seqs)
    BY <1>1 DEF HandOver, PushBack, StateTypes
  <2>2. QED
    BY <1>1, <2>1 DEF HandOver, Register, NotifyOne, StateTypes
<1>4. EntryTypes'
  BY <1>1, <1>2 DEF HandOver, Register, EntryTypes
<1>5. TaskTypes' /\ AttemptHasHead'
  BY DEF HandOver, taskVars, TaskTypes, AttemptHasHead
<1>6. CallerTypes'
  BY DEF HandOver, CallerTypes
<1>7. HistoryTypes'
  BY <1>1 DEF HandOver, jobsVars, HistoryTypes
<1>8. QED
  BY <1>3, <1>4, <1>5, <1>6, <1>7

\* A marker that is held back.
LEMMA HoldType ==
  ASSUME TypeInv, NEW m \in Markers, Hold(m)
  PROVE  TypeInv'
<1> USE DEF TypeInv, TypeOK
<1>1. nextSeq \in Seqs /\ nextSeq + 1 \in 1 .. MaxWrites
  BY ReservedNat, QueueAssumption DEF Hold, StateTypes, Seqs
<1>2. m[1] \in Write /\ m[2] \in Write \cup {NoWrite}
  BY QueueAssumption
<1>3. StateTypes'
  BY <1>1 DEF Hold, Register, NotifyOne, StateTypes
<1>4. EntryTypes'
  BY <1>1, <1>2 DEF Hold, Register, EntryTypes
<1>5. TaskTypes' /\ AttemptHasHead'
  BY DEF Hold, taskVars, TaskTypes, AttemptHasHead
<1>6. CallerTypes' /\ HistoryTypes'
  BY DEF Hold, jobsVars, order, CallerTypes, HistoryTypes
<1>7. QED
  BY <1>3, <1>4, <1>5, <1>6

\* A write that finds the queue closed.
LEMMA UnqueuedType ==
  ASSUME TypeInv,
         \/ \E w \in HandOvers : HandOverUnqueued(w)
         \/ \E p \in late : FinishUnqueued(p[1], p[2])
  PROVE  TypeInv'
<1> USE DEF TypeInv, TypeOK
<1>1. ASSUME NEW w \in HandOvers, HandOverUnqueued(w)
      PROVE  TypeInv'
  <2>1. w \in Write
    BY QueueAssumption
  <2>2. PICK r \in (IF stopped THEN {"LeftUnsent"} ELSE Blocked(w, ended)) :
             late' = late \cup (OwnKey(w) \X {r})
    BY <1>1 DEF HandOverUnqueued
  <2>3. r \in Removals
    BY <2>1, <2>2, BlockedType DEF Removals
  <2>4. CallerTypes'
    BY <1>1, <2>1, <2>2, <2>3, OwnKeyType DEF HandOverUnqueued, CallerTypes
  <2>5. QED
    BY <1>1, <2>4 DEF HandOverUnqueued, state, entries, taskVars, jobsVars, order,
       StateTypes, EntryTypes, TaskTypes, HistoryTypes, AttemptHasHead
<1>2. ASSUME NEW p \in late, FinishUnqueued(p[1], p[2])
      PROVE  TypeInv'
  <2>1. p[1] \in DepKey /\ p[2] \in Results
    BY DEF CallerTypes, Results
  <2>2. StateTypes' /\ CallerTypes'
    BY <1>2, <2>1 DEF FinishUnqueued, StateTypes, CallerTypes
  <2>3. QED
    BY <1>2, <2>2 DEF FinishUnqueued, entries, taskVars, jobsVars, order,
       EntryTypes, TaskTypes, HistoryTypes, AttemptHasHead
<1>3. QED
  BY <1>1, <1>2

\* The owner drops the queue.
LEMMA DropQueueType ==
  ASSUME TypeInv, DropQueue
  PROVE  TypeInv'
  BY DEF TypeInv, TypeOK, DropQueue, StateTypes, entries, EntryTypes, taskVars, TaskTypes,
     CallerTypes, jobsVars, order, HistoryTypes, AttemptHasHead

\* The steps of drained().
LEMMA WaiterType ==
  ASSUME TypeInv, NEW w \in Waiters,
         \/ DrainedSubscribe(w) \/ DrainedUpto(w) \/ DrainedCheck(w)
         \/ DrainedChanged(w) \/ DrainedAbandoned(w)
  PROVE  TypeInv'
<1> USE DEF TypeInv, TypeOK
<1>1. /\ waiter[w].upto \in 0 .. MaxWrites /\ waiter[w].seen \in Nat
      /\ nextSeq \in 0 .. MaxWrites /\ 0 \in 0 .. MaxWrites /\ progress \in Nat
  BY QueueAssumption DEF CallerTypes, WaiterState, StateTypes
<1>2. \E at \in {"idle", "subscribed", "check", "waiting", "returned"},
         upto \in 0 .. MaxWrites, seen \in Nat : Move(w, at, upto, seen)
  BY <1>1 DEF DrainedSubscribe, DrainedUpto, DrainedCheck, DrainedChanged, DrainedAbandoned
<1>3. PICK at \in {"idle", "subscribed", "check", "waiting", "returned"},
           upto \in 0 .. MaxWrites, seen \in Nat : Move(w, at, upto, seen)
  BY <1>2
<1>4. CallerTypes'
  BY <1>3 DEF Move, CallerTypes, WaiterState
<1>5. QED
  BY <1>3, <1>4 DEF Move, state, entries, taskVars, jobsVars, order,
     StateTypes, EntryTypes, TaskTypes, HistoryTypes, AttemptHasHead

\* The start of a completion keeps the types of the task.
LEMMA CompleteType ==
  ASSUME NEW S \in SUBSET Seqs, NEW r \in Results, NEW next \in {"held", "head", "gone"},
         Complete(S, r, next)
  PROVE  /\ todo' \subseteq Seqs /\ outcome' \in Results /\ after' \in {"held", "head", "gone"}
         /\ task' \in {"held", "head", "gone", "report"}
  BY DEF Complete

\* The task takes the held markers or its head, or wakes up.
LEMMA TakeType ==
  ASSUME TypeInv, TakeNewHeld \/ TakeHead \/ SelectWake
  PROVE  TypeInv'
<1> USE DEF TypeInv, TypeOK
<1>1. CASE TakeNewHeld
  BY <1>1 DEF TakeNewHeld, StateTypes, entries, EntryTypes, TaskTypes,
     CallerTypes, jobsVars, order, HistoryTypes, AttemptHasHead
<1>2. CASE TakeHead
  <2>1. EntryTypes' /\ CallerTypes' /\ HistoryTypes'
    BY <1>2 DEF TakeHead, entries, EntryTypes, CallerTypes, jobsVars, order, HistoryTypes
  <2>2. CASE head # NoSeq \/ stopped \/ fifo = <<>>
    BY <1>2, <2>1, <2>2 DEF TakeHead, StateTypes, TaskTypes, AttemptHasHead
  <2>3. CASE ~(head # NoSeq \/ stopped \/ fifo = <<>>)
    <3> DEFINE h == Head(fifo)
    <3>1. h \in Seqs /\ Tail(fifo) \in Seq(Seqs)
      BY <2>3 DEF StateTypes
    <3>2. StateTypes'
      BY <1>2, <2>3, <3>1 DEF TakeHead, StateTypes
    <3>3. CASE head' = h /\ attempt' = "ready" /\ task' = "select"
                 /\ UNCHANGED <<todo, outcome, after>>
      BY <1>2, <2>1, <3>1, <3>2, <3>3 DEF TakeHead, TaskTypes, AttemptHasHead
    <3>4. CASE \E r \in Blocked(write[h], ended) :
                 Complete({h}, r, "head") /\ UNCHANGED <<head, attempt>>
      <4>1. PICK r \in Blocked(write[h], ended) :
                 Complete({h}, r, "head") /\ UNCHANGED <<head, attempt>>
        BY <3>4
      <4>2. r \in Results
        BY <4>1 DEF Blocked, Results, Removals
      <4>3. QED
        BY <1>2, <2>1, <3>1, <3>2, <4>1, <4>2, CompleteType DEF TakeHead, TaskTypes, AttemptHasHead
    <3>5. QED
      BY <1>2, <2>3, <3>3, <3>4 DEF TakeHead
  <2>4. QED
    BY <2>2, <2>3
<1>3. CASE SelectWake
  BY <1>3 DEF SelectWake, state, StateTypes, entries, EntryTypes, TaskTypes,
     CallerTypes, jobsVars, order, HistoryTypes, AttemptHasHead
<1>4. QED
  BY <1>1, <1>2, <1>3

\* A gate opens, or its sender is gone.
LEMMA GatesType ==
  ASSUME TypeInv, NEW s \in held, GateStored(s) \/ GateDropped(s)
  PROVE  TypeInv'
<1> USE DEF TypeInv, TypeOK
<1>1. s \in Seqs /\ {s} \subseteq Seqs
  BY DEF TaskTypes
<1>2. CASE GateDropped(s)
  <2>1. Complete({s}, "DependsOnRemoved", "held") /\ "DependsOnRemoved" \in Results
    BY <1>2 DEF GateDropped, Results, Removals
  <2>2. TaskTypes' /\ AttemptHasHead'
    BY <1>1, <1>2, <2>1, CompleteType DEF GateDropped, TaskTypes, AttemptHasHead
  <2>3. QED
    BY <1>2, <2>2 DEF GateDropped, state, StateTypes, entries, EntryTypes, CallerTypes,
       jobsVars, order, HistoryTypes
<1>3. CASE GateStored(s) /\ stopped
  <2>1. Complete({s}, "LeftUnsent", "held") /\ "LeftUnsent" \in Results
    BY <1>3 DEF GateStored, Results, Removals
  <2>2. TaskTypes' /\ AttemptHasHead'
    BY <1>1, <1>3, <2>1, CompleteType DEF GateStored, TaskTypes, AttemptHasHead
  <2>3. QED
    BY <1>3, <2>2 DEF GateStored, StateTypes, entries, EntryTypes, CallerTypes,
       jobsVars, order, HistoryTypes
<1>4. CASE GateStored(s) /\ ~stopped /\ follow[s] = NoWrite
  <2>1. fifo' \in Seq(Seqs)
    BY <1>1, <1>4 DEF GateStored, PushBack, StateTypes
  <2>2. StateTypes'
    BY <1>4, <2>1 DEF GateStored, NotifyOne, StateTypes
  <2>3. TaskTypes' /\ AttemptHasHead'
    BY <1>4 DEF GateStored, TaskTypes, AttemptHasHead
  <2>4. HistoryTypes'
    BY <1>1, <1>4 DEF GateStored, jobsVars, HistoryTypes
  <2>5. QED
    BY <1>4, <2>2, <2>3, <2>4 DEF GateStored, entries, EntryTypes, CallerTypes
<1>5. CASE GateStored(s) /\ ~stopped /\ follow[s] # NoWrite
  <2>1. nextSeq \in Seqs /\ nextSeq + 1 \in 1 .. MaxWrites
    BY <1>5, QueueAssumption DEF GateStored, StateTypes, Seqs
  <2>2. follow[s] \in Write
    BY <1>1, <1>5 DEF EntryTypes
  <2>3. fifo' \in Seq(Seqs)
    <3>1. fifo' = fifo \o <<nextSeq, s>>
      BY <1>5 DEF GateStored, PushBack
    <3>2. <<nextSeq, s>> \in Seq(Seqs)
      BY <1>1, <2>1
    <3>3. QED
      BY <3>1, <3>2 DEF StateTypes
  <2>4. StateTypes'
    BY <1>5, <2>1, <2>3 DEF GateStored, Register, NotifyOne, StateTypes
  <2>5. EntryTypes'
    BY <1>5, <2>1, <2>2 DEF GateStored, Register, EntryTypes
  <2>6. TaskTypes' /\ AttemptHasHead'
    BY <1>5 DEF GateStored, TaskTypes, AttemptHasHead
  <2>7. HistoryTypes'
    BY <1>1, <1>5, <2>1 DEF GateStored, jobsVars, HistoryTypes
  <2>8. QED
    BY <1>5, <2>4, <2>5, <2>6, <2>7 DEF GateStored, CallerTypes
<1>6. QED
  BY <1>2, <1>3, <1>4, <1>5

\* The head of an attempt that is under way.
LEMMA EndAttemptType ==
  ASSUME TypeInv, head \in Seqs, NEW r \in Results, EndAttempt(r), UNCHANGED held
  PROVE  TaskTypes' /\ AttemptHasHead'
<1>1. {head} \subseteq Seqs
  OBVIOUS
<1>2. QED
  BY <1>1, CompleteType DEF EndAttempt, TypeInv, TypeOK, TaskTypes, AttemptHasHead

\* The attempts to send the head, and how they end.
LEMMA AttemptsType ==
  ASSUME TypeInv, Attempts
  PROVE  TypeInv'
<1> USE DEF TypeInv, TypeOK
<1> USE DEF StateTypes, EntryTypes, CallerTypes, HistoryTypes, state, entries, jobsVars, order
<1>1. CASE Send
  BY <1>1 DEF Send, TaskTypes, AttemptHasHead
<1>2. CASE AttemptDelivered
  <2>1. head \in Seqs
    BY <1>2 DEF AttemptDelivered, HeardOk, Heard, AttemptHasHead
  <2>2. EndAttempt("Delivered") /\ "Delivered" \in Results /\ UNCHANGED held
    BY <1>2 DEF AttemptDelivered, Results
  <2>3. TaskTypes' /\ AttemptHasHead'
    BY <2>1, <2>2, EndAttemptType
  <2>4. QED
    BY <1>2, <2>3 DEF AttemptDelivered
<1>3. CASE AttemptAgain
  <2>1. head \in Seqs
    BY <1>3 DEF AttemptAgain, AttemptErrors, Heard, AttemptHasHead
  <2>2. QED
    BY <1>3, <2>1 DEF AttemptAgain, TaskTypes, AttemptHasHead
<1>4. CASE AttemptFinal
  <2>1. head \in Seqs
    BY <1>4 DEF AttemptFinal, AttemptErrors, Heard, AttemptHasHead
  <2>2. PICK e \in AttemptErrors : EndAttempt(FinalRemoval(e))
    BY <1>4 DEF AttemptFinal
  <2>3. FinalRemoval(e) \in Results /\ UNCHANGED held
    BY <1>4 DEF AttemptFinal, FinalRemoval, Results, Removals
  <2>4. TaskTypes' /\ AttemptHasHead'
    BY <2>1, <2>2, <2>3, EndAttemptType
  <2>5. QED
    BY <1>4, <2>4 DEF AttemptFinal
<1>5. CASE Resend
  BY <1>5 DEF Resend, TaskTypes, AttemptHasHead
<1>6. QED
  BY <1>1, <1>2, <1>3, <1>4, <1>5 DEF Attempts

\* The three steps that complete an entry.
LEMMA CompletionType ==
  ASSUME TypeInv, NEW s \in todo, Report(s) \/ Commit(s) \/ Notify(s)
  PROVE  TypeInv'
<1> USE DEF TypeInv, TypeOK
<1>1. s \in Seqs
  BY DEF TaskTypes
<1>2. CASE Report(s)
  BY <1>1, <1>2 DEF Report, state, StateTypes, entries, EntryTypes, TaskTypes, CallerTypes,
     jobsVars, order, HistoryTypes, AttemptHasHead
<1>3. CASE Commit(s)
  <2>1. ended' \in [DepKey -> Results \cup {"None"}]
    BY <1>3 DEF Commit, StateTypes, TaskTypes
  <2>2. StateTypes'
    BY <1>1, <1>3, <2>1 DEF Commit, ClearedFailure, StateTypes
  <2>3. QED
    BY <1>3, <2>2 DEF Commit, entries, EntryTypes, TaskTypes, CallerTypes,
       jobsVars, order, HistoryTypes, AttemptHasHead
<1>4. CASE Notify(s)
  BY <1>1, <1>4 DEF Notify, Progressed, state, StateTypes, entries, EntryTypes, TaskTypes,
     CallerTypes, jobsVars, order, HistoryTypes, AttemptHasHead
<1>5. QED
  BY <1>2, <1>3, <1>4

\* The task ends and completes what is left.
LEMMA DropTaskType ==
  ASSUME TypeInv, DropTask
  PROVE  TypeInv'
<1> USE DEF TypeInv, TypeOK
<1>1. EntriesLeft \subseteq Seqs
  BY DEF EntriesLeft, HeadEntry, Range, StateTypes, TaskTypes
<1>2. TaskTypes' /\ AttemptHasHead'
  BY <1>1, CompleteType DEF DropTask, TaskTypes, AttemptHasHead, Results, Removals
<1>3. StateTypes'
  BY DEF DropTask, StateTypes
<1>4. QED
  BY <1>2, <1>3 DEF DropTask, entries, EntryTypes, CallerTypes, jobsVars, order, HistoryTypes

\* A step of nobody.
LEMMA StutterType ==
  ASSUME TypeInv, UNCHANGED vars
  PROVE  TypeInv'
  BY DEF vars, state, entries, taskVars, jobsVars, order, TypeInv, TypeOK, StateTypes,
     EntryTypes, TaskTypes, CallerTypes, HistoryTypes, AttemptHasHead

\* Jobs takes a request.
LEMMA JobsApplyType ==
  ASSUME TypeInv, NEW s \in sent, JobsApply(s)
  PROVE  TypeInv'
  BY DEF JobsApply, state, entries, taskVars, order, TypeInv, TypeOK, StateTypes,
     EntryTypes, TaskTypes, CallerTypes, HistoryTypes, AttemptHasHead

\* Every step of the queue, its callers and jobs keeps the types.
LEMMA NextType == TypeInv /\ [Next]_vars => TypeInv'
<1> SUFFICES ASSUME TypeInv, [Next]_vars PROVE TypeInv'
  OBVIOUS
<1>1. CASE Callers
  BY <1>1, HandOverType, UnqueuedType, HoldType, DropQueueType, WaiterType DEF Callers
<1>2. CASE TakeNewHeld \/ TakeHead \/ SelectWake
  BY <1>2, TakeType
<1>3. CASE Gates
  BY <1>3, GatesType DEF Gates
<1>4. CASE Attempts
  BY <1>4, AttemptsType
<1>5. CASE Completion
  BY <1>5, CompletionType DEF Completion
<1>6. CASE SelectStop \/ RuntimeStops
  BY <1>6, DropTaskType DEF SelectStop, RuntimeStops
<1>7. CASE \E s \in sent : JobsApply(s)
  BY <1>7, JobsApplyType
<1>8. CASE UNCHANGED vars
  BY <1>8, StutterType
<1>9. QED
  BY <1>1, <1>2, <1>3, <1>4, <1>5, <1>6, <1>7, <1>8 DEF Next

\* The types, with what the actions rely on, hold in every reachable state.
LEMMA TypeInvariant == Spec => []TypeInv
  BY InitType, NextType, PTL DEF Spec

\* The type invariant of the queue: whatever its callers, its task, the runtime
\* and jobs do, every field keeps to its type and no seq passes the bound.
THEOREM TypeCorrect == Spec => []TypeOK
<1>1. Spec => []TypeInv
  BY TypeInvariant
<1>2. TypeInv => TypeOK
  BY DEF TypeInv
<1>3. QED
  BY <1>1, <1>2, PTL

-----------------------------------------------------------------------------
(* Order                                                                   *)

OrderInv == TypeInv /\ EntriesConserved /\ LineOrder /\ SentInOrder

Busy == {"report", "commit", "notify"}

-----------------------------------------------------------------------------
(* Sequences                                                               *)

\* A sequence that one entry joins.
LEMMA PushOne ==
  ASSUME NEW q \in Seq(Seqs), NEW s \in Seqs, NEW p, p = q \o <<s>>
  PROVE  /\ Len(q) \in Nat /\ DOMAIN q = 1 .. Len(q)
         /\ DOMAIN p = 1 .. (Len(q) + 1)
         /\ \A i \in 1 .. Len(q) : p[i] = q[i]
         /\ p[Len(q) + 1] = s
  OBVIOUS

\* A sequence that two entries join, a marker and the write behind it.
LEMMA PushTwo ==
  ASSUME NEW q \in Seq(Seqs), NEW s \in Seqs, NEW t \in Seqs, NEW p, p = q \o <<s, t>>
  PROVE  /\ Len(q) \in Nat /\ DOMAIN q = 1 .. Len(q)
         /\ DOMAIN p = 1 .. (Len(q) + 2)
         /\ \A i \in 1 .. Len(q) : p[i] = q[i]
         /\ p[Len(q) + 1] = s /\ p[Len(q) + 2] = t
<1>1. <<s, t>> \in Seq(Seqs) /\ Len(<<s, t>>) = 2
  OBVIOUS
<1>2. QED
  BY <1>1

\* A sequence that its first entry leaves.
LEMMA PopOne ==
  ASSUME NEW q \in Seq(Seqs), q # <<>>
  PROVE  /\ Len(q) \in Nat \ {0} /\ DOMAIN q = 1 .. Len(q)
         /\ DOMAIN Tail(q) = 1 .. (Len(q) - 1)
         /\ \A i \in 1 .. (Len(q) - 1) : Tail(q)[i] = q[i + 1]
         /\ Head(q) = q[1]
  OBVIOUS

Ascending(q, r) == \A i, j \in DOMAIN q : i < j => r[q[i]] < r[q[j]]

\* A write with the next rank joins at the back: the line still ascends.
LEMMA JoinLine ==
  ASSUME NEW q \in Seq(Seqs), NEW n \in Seqs, n \notin Range(q),
         NEW r \in [Seqs -> Nat], NEW k \in Nat, \A s \in Seqs : r[s] <= k,
         Ascending(q, r)
  PROVE  LET q2 == q \o <<n>>
             r2 == [r EXCEPT ![n] = k + 1]
         IN  /\ q2 \in Seq(Seqs) /\ Range(q2) = Range(q) \cup {n} /\ Ascending(q2, r2)
             /\ r2 \in [Seqs -> Nat] /\ r2[n] = k + 1
             /\ \A s \in Seqs : r2[s] <= k + 1 /\ (s # n => r2[s] = r[s])
<1> DEFINE q2 == q \o <<n>>
           r2 == [r EXCEPT ![n] = k + 1]
<1>1. /\ Len(q) \in Nat /\ DOMAIN q = 1 .. Len(q)
      /\ DOMAIN q2 = 1 .. (Len(q) + 1)
      /\ \A i \in 1 .. Len(q) : q2[i] = q[i]
      /\ q2[Len(q) + 1] = n
  BY PushOne
<1>2. q2 \in Seq(Seqs)
  OBVIOUS
<1>3. Range(q2) = Range(q) \cup {n}
  <2>1. DOMAIN q2 = DOMAIN q \cup {Len(q) + 1}
    BY <1>1
  <2>2. QED
    <3>1. \A i \in DOMAIN q : q2[i] = q[i]
      BY <1>1
    <3>2. QED
      BY <1>1, <2>1, <3>1, Zenon DEF Range
<1>4. /\ r2 \in [Seqs -> Nat] /\ r2[n] = k + 1
      /\ \A s \in Seqs : r2[s] <= k + 1 /\ (s # n => r2[s] = r[s])
  OBVIOUS
<1>5. \A i \in 1 .. Len(q) : q[i] \in Seqs /\ q[i] # n
  <2>1. \A i \in 1 .. Len(q) : q[i] \in Seqs
    OBVIOUS
  <2>2. \A i \in 1 .. Len(q) : q[i] \in Range(q)
    BY <1>1, Zenon DEF Range
  <2>3. QED
    BY <2>1, <2>2
<1>6. ASSUME NEW i \in 1 .. (Len(q) + 1), NEW j \in 1 .. (Len(q) + 1), i < j
      PROVE  r2[q2[i]] < r2[q2[j]]
  <2>1. i \in 1 .. Len(q) /\ r2[q2[i]] = r[q[i]] /\ r[q[i]] \in Nat /\ r[q[i]] <= k
    BY <1>1, <1>4, <1>5, <1>6
  <2>2. CASE j = Len(q) + 1
    BY <1>1, <1>4, <2>1, <2>2
  <2>3. CASE j # Len(q) + 1
    <3>1. j \in 1 .. Len(q) /\ r2[q2[j]] = r[q[j]]
      BY <1>1, <1>4, <1>5, <2>3
    <3>2. QED
      BY <1>1, <1>6, <2>1, <3>1 DEF Ascending
  <2>4. QED
    BY <2>2, <2>3
<1> HIDE DEF q2, r2
<1>7. Ascending(q2, r2)
  BY <1>1, <1>6, Zenon DEF Ascending
<1>8. QED
  BY <1>2, <1>3, <1>4, <1>7 DEF q2, r2

\* An ascending line holds no entry twice.
LEMMA AscendingOnce ==
  ASSUME NEW q \in Seq(Seqs), NEW r \in [Seqs -> Nat], Ascending(q, r)
  PROVE  \A i, j \in DOMAIN q : q[i] = q[j] => i = j
<1>1. \A i \in DOMAIN q : i \in Nat /\ q[i] \in Seqs /\ r[q[i]] \in Nat
  OBVIOUS
<1>2. \A i, j \in DOMAIN q : i < j \/ j < i => r[q[i]] # r[q[j]]
  BY <1>1 DEF Ascending
<1>3. QED
  BY <1>1, <1>2

\* The front of an ascending line leaves it.
LEMMA LeaveLine ==
  ASSUME NEW q \in Seq(Seqs), q # <<>>, NEW r \in [Seqs -> Nat], Ascending(q, r)
  PROVE  /\ Tail(q) \in Seq(Seqs) /\ Ascending(Tail(q), r) /\ Head(q) \in Seqs
         /\ Range(q) = Range(Tail(q)) \cup {Head(q)}
         /\ \A t \in Range(Tail(q)) : r[Head(q)] < r[t]
<1>1. /\ Len(q) \in Nat \ {0} /\ DOMAIN q = 1 .. Len(q)
      /\ DOMAIN Tail(q) = 1 .. (Len(q) - 1)
      /\ \A i \in 1 .. (Len(q) - 1) : Tail(q)[i] = q[i + 1]
      /\ Head(q) = q[1]
  BY PopOne
<1>2. Tail(q) \in Seq(Seqs) /\ Head(q) \in Seqs
  OBVIOUS
<1>3. Ascending(Tail(q), r)
  <2>1. ASSUME NEW i \in 1 .. (Len(q) - 1), NEW j \in 1 .. (Len(q) - 1), i < j
        PROVE  r[Tail(q)[i]] < r[Tail(q)[j]]
    <3>1. i + 1 \in DOMAIN q /\ j + 1 \in DOMAIN q /\ i + 1 < j + 1
      BY <1>1, <2>1
    <3>2. r[q[i + 1]] < r[q[j + 1]]
      BY <3>1 DEF Ascending
    <3>3. QED
      BY <1>1, <3>2
  <2>2. QED
    BY <1>1, <2>1, Zenon DEF Ascending
<1>4. \A i \in 1 .. (Len(q) - 1) : r[Head(q)] < r[Tail(q)[i]]
  BY <1>1 DEF Ascending
<1>5. Range(q) = Range(Tail(q)) \cup {Head(q)}
  <2>1. ASSUME NEW i \in DOMAIN q PROVE q[i] \in Range(Tail(q)) \cup {Head(q)}
    <3>1. i = 1 \/ (i - 1 \in 1 .. (Len(q) - 1) /\ Tail(q)[i - 1] = q[i])
      BY <1>1
    <3>2. QED
      BY <1>1, <3>1 DEF Range
  <2>2. QED
    BY <1>1, <2>1 DEF Range
<1>6. QED
  BY <1>1, <1>2, <1>3, <1>4, <1>5 DEF Range

-----------------------------------------------------------------------------
\* The first state is in order: nothing has joined but the started fact.
LEMMA InitOrder == Init => OrderInv
<1> SUFFICES ASSUME Init PROVE OrderInv
  OBVIOUS
<1>1. 0 \in Seqs /\ 0 # NoSeq
  BY QueueAssumption DEF Seqs
<1>2. DOMAIN fifo = {1} /\ fifo[1] = 0 /\ Range(fifo) = {0}
  BY DEF Init, Range
<1>3. HeadEntry = {} /\ Uncommitted = {}
  BY DEF Init, HeadEntry, Uncommitted
<1>4. EntriesConserved
  BY <1>2, <1>3 DEF Init, EntriesConserved
<1>5. LineOrder /\ SentInOrder
  BY <1>1, <1>2, <1>3 DEF Init, LineOrder, SentInOrder
<1>6. QED
  BY <1>4, <1>5, InitType DEF OrderInv

\* A step that leaves the line, the entries and the requests alone.
LEMMA SameLine ==
  ASSUME OrderInv, TypeInv',
         UNCHANGED <<fifo, newHeld, pending, nextSeq, held, head, todo, sent, rank, joins>>,
         task' \in Busy <=> task \in Busy,
         task' = "notify" <=> task = "notify"
  PROVE  OrderInv'
<1>1. Uncommitted' = Uncommitted /\ HeadEntry' = HeadEntry /\ Range(fifo)' = Range(fifo)
  BY DEF Uncommitted, Completing, HeadEntry, Range
<1>2. EntriesConserved'
  BY <1>1 DEF OrderInv, EntriesConserved
<1>3. LineOrder' /\ SentInOrder'
  BY <1>1 DEF OrderInv, LineOrder, SentInOrder, Busy
<1>4. QED
  BY <1>2, <1>3 DEF OrderInv

\* The facts on the line that the steps start from.
LEMMA LineFacts ==
  ASSUME OrderInv
  PROVE  /\ fifo \in Seq(Seqs) /\ rank \in [Seqs -> Nat] /\ joins \in Nat
         /\ Ascending(fifo, rank) /\ \A s \in Seqs : rank[s] <= joins
         /\ nextSeq \in Nat
         /\ Range(fifo) \subseteq Seqs /\ HeadEntry \subseteq Seqs /\ sent \subseteq Seqs
         /\ newHeld \subseteq Seqs /\ held \subseteq Seqs /\ todo \subseteq Seqs
         /\ pending \subseteq Seqs
  BY DEF OrderInv, TypeInv, TypeOK, StateTypes, TaskTypes, HistoryTypes, LineOrder, Ascending,
     Range, HeadEntry

\* A write n that is nowhere in the line gets the next rank and joins it.
LEMMA JoinOrder ==
  ASSUME OrderInv, NEW n \in Seqs, n \notin Range(fifo) \cup HeadEntry \cup sent,
         rank[n] = 0, PushBack(<<n>>), rank' = [rank EXCEPT ![n] = joins + 1],
         joins' = joins + 1, UNCHANGED <<head, sent>>
  PROVE  /\ Range(fifo)' = Range(fifo) \cup {n} /\ HeadEntry' = HeadEntry
         /\ \A i, j \in DOMAIN fifo' : fifo'[i] = fifo'[j] => i = j
         /\ Ascending(fifo', rank')
         /\ \A s \in Seqs : rank'[s] <= joins' /\ (s # n => rank'[s] = rank[s])
         /\ rank'[n] = joins + 1
         /\ \A s \in (Range(fifo) \cup HeadEntry \cup sent)' : rank'[s] > 0
         /\ \A s \in HeadEntry', t \in Range(fifo)' : rank'[s] < rank'[t]
         /\ \A s \in sent' : rank'[s] = rank[s] /\ rank'[s] < rank'[n]
<1>1. /\ fifo' \in Seq(Seqs) /\ Range(fifo') = Range(fifo) \cup {n} /\ Ascending(fifo', rank')
      /\ rank' \in [Seqs -> Nat] /\ rank'[n] = joins + 1
      /\ \A s \in Seqs : rank'[s] <= joins + 1 /\ (s # n => rank'[s] = rank[s])
  <2>1. fifo' = fifo \o <<n>> /\ n \notin Range(fifo)
    BY DEF PushBack
  <2>2. /\ fifo \in Seq(Seqs) /\ rank \in [Seqs -> Nat] /\ joins \in Nat
        /\ Ascending(fifo, rank) /\ \A s \in Seqs : rank[s] <= joins
    BY LineFacts
  <2> DEFINE q2 == fifo \o <<n>>
             r2 == [rank EXCEPT ![n] = joins + 1]
  <2>3. q2 \in Seq(Seqs) /\ r2 \in [Seqs -> Nat]
    BY <2>1, <2>2
  <2>4. Range(q2) = Range(fifo) \cup {n}
    BY <2>1, <2>2, JoinLine
  <2>5. Ascending(q2, r2)
    BY <2>1, <2>2, JoinLine
  <2>6. r2[n] = joins + 1 /\ \A s \in Seqs : r2[s] <= joins + 1 /\ (s # n => r2[s] = rank[s])
    BY <2>2
  <2>7. fifo' = q2 /\ rank' = r2
    BY <2>1
  <2> HIDE DEF q2, r2
  <2>8. QED
    BY <2>3, <2>4, <2>5, <2>6, <2>7
<1>2. \A i, j \in DOMAIN fifo' : fifo'[i] = fifo'[j] => i = j
  BY <1>1, AscendingOnce
<1>3. Range(fifo)' = Range(fifo) \cup {n} /\ HeadEntry' = HeadEntry
  BY <1>1 DEF Range, HeadEntry
<1>4. \A s \in Range(fifo) \cup HeadEntry \cup sent : s \in Seqs /\ s # n
  BY LineFacts
<1>5. /\ \A s \in Range(fifo) \cup HeadEntry \cup sent : rank[s] > 0 /\ rank[s] \in Nat
      /\ \A s \in HeadEntry, t \in Range(fifo) : rank[s] < rank[t]
  BY <1>4, LineFacts DEF OrderInv, LineOrder
<1>6. joins \in Nat
  BY LineFacts
<1>7. \A s \in (Range(fifo) \cup HeadEntry \cup sent)' : rank'[s] > 0
  BY <1>1, <1>3, <1>4, <1>5, <1>6
<1>8. \A s \in HeadEntry \cup sent : rank[s] <= joins /\ rank'[s] = rank[s]
  BY <1>1, <1>4, LineFacts
<1>9. \A s \in HeadEntry', t \in Range(fifo)' : rank'[s] < rank'[t]
  <2>1. ASSUME NEW s \in HeadEntry, NEW t \in Range(fifo) \cup {n}
        PROVE  rank'[s] < rank'[t]
    <3>1. rank'[s] = rank[s] /\ rank[s] <= joins /\ rank[s] \in Nat
      BY <1>5, <1>8
    <3>2. CASE t = n
      BY <1>1, <1>6, <3>1, <3>2
    <3>3. CASE t \in Range(fifo)
      BY <1>1, <1>4, <1>5, <3>1, <3>3
    <3>4. QED
      BY <3>2, <3>3
  <2>2. QED
    BY <1>3, <2>1
<1>10. \A s \in sent' : rank'[s] = rank[s] /\ rank'[s] < rank'[n]
  BY <1>1, <1>5, <1>6, <1>8
<1>11. QED
  BY <1>1, <1>2, <1>3, <1>7, <1>9, <1>10

\* hand_over, and below the other steps, one lemma each: the order is kept.
LEMMA HandOverOrder ==
  ASSUME OrderInv, TypeInv', NEW w \in HandOvers, HandOver(w)
  PROVE  OrderInv'
<1> DEFINE n == nextSeq
<1>1. n \in Seqs /\ n \in Nat /\ joins \in Nat
  BY ReservedNat, QueueAssumption
     DEF OrderInv, TypeInv, TypeOK, HandOver, StateTypes, HistoryTypes, Seqs
<1>2. /\ nextSeq' = n + 1 /\ pending' = pending \cup {n} /\ PushBack(<<n>>)
      /\ rank' = [rank EXCEPT ![n] = joins + 1] /\ joins' = joins + 1
      /\ UNCHANGED <<newHeld, held, head, todo, task, sent>>
  BY DEF HandOver, Register, taskVars, jobsVars
<1>3. n \notin pending /\ n \notin sent /\ rank[n] = 0
  BY <1>1 DEF OrderInv, LineOrder
<1>4. n \notin Range(fifo) \cup newHeld \cup held \cup HeadEntry \cup Uncommitted
  BY <1>3 DEF OrderInv, EntriesConserved
<1>5. /\ Range(fifo)' = Range(fifo) \cup {n} /\ HeadEntry' = HeadEntry
      /\ \A i, j \in DOMAIN fifo' : fifo'[i] = fifo'[j] => i = j
      /\ Ascending(fifo', rank')
      /\ \A s \in Seqs : rank'[s] <= joins' /\ (s # n => rank'[s] = rank[s])
      /\ \A s \in (Range(fifo) \cup HeadEntry \cup sent)' : rank'[s] > 0
      /\ \A s \in HeadEntry', t \in Range(fifo)' : rank'[s] < rank'[t]
      /\ \A s \in sent' : rank'[s] = rank[s] /\ rank'[s] < rank'[n]
  BY <1>1, <1>2, <1>3, <1>4, JoinOrder
<1>6. Uncommitted' = Uncommitted
  BY <1>2 DEF Uncommitted, Completing
<1>7. EntriesConserved'
  BY <1>2, <1>4, <1>5, <1>6 DEF OrderInv, EntriesConserved
<1>8. LineOrder'
  <2>1. (\A s \in pending \cup sent : s < nextSeq)'
    BY <1>1, <1>2, LineFacts DEF OrderInv, LineOrder, Seqs
  <2>2. (\A s \in Seqs : s >= nextSeq => rank[s] = 0)'
    BY <1>1, <1>2, <1>5 DEF OrderInv, LineOrder, Seqs
  <2>3. (\A s \in newHeld \cup held : rank[s] = 0)'
    BY <1>2, <1>4, <1>5, LineFacts DEF OrderInv, LineOrder
  <2>4. QED
    BY <1>2, <1>5, <2>1, <2>2, <2>3 DEF OrderInv, LineOrder, Ascending
<1>9. SentInOrder'
  <2>1. ASSUME NEW s \in sent, NEW t \in Seqs, 0 < rank'[t], rank'[t] < rank'[s]
        PROVE  t \notin pending'
    <3>1. s \in Seqs /\ rank[s] \in Nat /\ rank'[s] = rank[s] /\ rank'[s] < rank'[n]
      BY <1>2, <1>5, LineFacts
    <3>2. rank' \in [Seqs -> Nat]
      BY DEF TypeInv, TypeOK, HistoryTypes
    <3>3. t # n
      BY <1>1, <2>1, <3>1, <3>2
    <3>4. QED
      BY <1>2, <1>5, <2>1, <3>1, <3>3 DEF OrderInv, SentInOrder
  <2>2. QED
    BY <1>2, <2>1 DEF SentInOrder
<1>10. QED
  BY <1>7, <1>8, <1>9 DEF OrderInv

\* A held marker does not join yet.
LEMMA HoldOrder ==
  ASSUME OrderInv, TypeInv', NEW m \in Markers, Hold(m)
  PROVE  OrderInv'
<1> DEFINE n == nextSeq
<1>1. n \in Seqs /\ n \in Nat
  BY ReservedNat, QueueAssumption DEF OrderInv, TypeInv, TypeOK, Hold, StateTypes, Seqs
<1>2. /\ nextSeq' = n + 1 /\ pending' = pending \cup {n} /\ newHeld' = newHeld \cup {n}
      /\ UNCHANGED <<fifo, held, head, todo, task, sent, rank, joins>>
  BY DEF Hold, Register, taskVars, jobsVars, order
<1>3. n \notin pending /\ rank[n] = 0
  BY <1>1 DEF OrderInv, LineOrder
<1>4. n \notin Range(fifo) \cup newHeld \cup held \cup HeadEntry \cup Uncommitted
  BY <1>3 DEF OrderInv, EntriesConserved
<1>5. Uncommitted' = Uncommitted /\ HeadEntry' = HeadEntry /\ Range(fifo)' = Range(fifo)
  BY <1>2 DEF Uncommitted, Completing, HeadEntry, Range
<1>6. EntriesConserved'
  BY <1>2, <1>4, <1>5 DEF OrderInv, EntriesConserved
<1>7. LineOrder'
  <2>1. (\A s \in pending \cup sent : s < nextSeq)'
    BY <1>1, <1>2, LineFacts DEF OrderInv, LineOrder, Seqs
  <2>2. (\A s \in Seqs : s >= nextSeq => rank[s] = 0)'
    BY <1>1, <1>2 DEF OrderInv, LineOrder, Seqs
  <2>3. QED
    BY <1>2, <1>3, <1>5, <2>1, <2>2 DEF OrderInv, LineOrder
<1>8. SentInOrder'
  BY <1>2, <1>3 DEF OrderInv, SentInOrder
<1>9. QED
  BY <1>6, <1>7, <1>8 DEF OrderInv

\* The new markers become held ones.
LEMMA TakeNewHeldOrder ==
  ASSUME OrderInv, TypeInv', TakeNewHeld
  PROVE  OrderInv'
<1>1. /\ held' = held \cup newHeld /\ newHeld' = {} /\ task \notin Busy /\ task' \notin Busy
      /\ UNCHANGED <<fifo, pending, nextSeq, head, todo, sent, rank, joins>>
  BY DEF TakeNewHeld, jobsVars, order, Busy
<1>2. Uncommitted' = Uncommitted /\ HeadEntry' = HeadEntry /\ Range(fifo)' = Range(fifo)
  BY <1>1 DEF Uncommitted, Completing, HeadEntry, Range, Busy
<1>3. EntriesConserved'
  BY <1>1, <1>2 DEF OrderInv, EntriesConserved
<1>4. LineOrder' /\ SentInOrder'
  BY <1>1, <1>2 DEF OrderInv, LineOrder, SentInOrder, Busy
<1>5. QED
  BY <1>3, <1>4 DEF OrderInv

\* The first of the fifo becomes the head, or is blocked and ends.
LEMMA TakeHeadOrder ==
  ASSUME OrderInv, TypeInv', TakeHead
  PROVE  OrderInv'
<1>1. CASE head # NoSeq \/ stopped \/ fifo = <<>>
  BY <1>1, SameLine DEF TakeHead, jobsVars, order, Busy
<1>2. CASE head = NoSeq /\ ~stopped /\ fifo # <<>>
  <2> DEFINE h == Head(fifo)
  <2>1. /\ fifo' = Tail(fifo) /\ task = "head"
        /\ UNCHANGED <<newHeld, pending, nextSeq, held, sent, rank, joins>>
    BY <1>2 DEF TakeHead, jobsVars, order
  <2>2. /\ Tail(fifo) \in Seq(Seqs) /\ Ascending(Tail(fifo), rank) /\ h \in Seqs
        /\ Range(fifo) = Range(Tail(fifo)) \cup {h}
        /\ \A t \in Range(Tail(fifo)) : rank[h] < rank[t]
    BY <1>2, LineFacts, LeaveLine
  <2>3. Range(fifo)' = Range(Tail(fifo)) /\ h \notin Range(Tail(fifo)) /\ h # NoSeq
    <3>1. Range(fifo)' = Range(Tail(fifo))
      BY <2>1 DEF Range
    <3>2. rank[h] \in Nat
      BY <2>2, LineFacts
    <3>3. QED
      BY <2>2, <3>1, <3>2, QueueAssumption DEF Seqs
  <2>4. \A i, j \in DOMAIN fifo' : fifo'[i] = fifo'[j] => i = j
    BY <2>1, <2>2, LineFacts, AscendingOnce
  <2>5. todo = {} /\ HeadEntry = {} /\ Uncommitted = {}
    BY <1>2, <2>1 DEF OrderInv, LineOrder, HeadEntry, Uncommitted
  <2>6. CASE head' = h /\ task' = "select" /\ todo' = todo
    <3>1. HeadEntry' = {h} /\ Uncommitted' = {}
      BY <2>3, <2>5, <2>6 DEF HeadEntry, Uncommitted
    <3>2. EntriesConserved'
      BY <2>1, <2>2, <2>3, <2>4, <2>5, <3>1 DEF OrderInv, EntriesConserved
    <3>3. LineOrder'
      BY <2>1, <2>2, <2>3, <2>5, <2>6, <3>1 DEF OrderInv, LineOrder, Ascending
    <3>4. SentInOrder'
      BY <2>1 DEF OrderInv, SentInOrder
    <3>5. QED
      BY <3>2, <3>3, <3>4 DEF OrderInv
  <2>7. CASE head' = head /\ task' = "report" /\ todo' = {h}
    <3>1. HeadEntry' = {} /\ Uncommitted' = {h}
      BY <1>2, <2>7 DEF HeadEntry, Uncommitted
    <3>2. EntriesConserved'
      BY <2>1, <2>2, <2>3, <2>4, <2>5, <3>1 DEF OrderInv, EntriesConserved
    <3>3. LineOrder'
      BY <2>1, <2>2, <2>3, <2>5, <2>7, <3>1 DEF OrderInv, LineOrder, Ascending
    <3>4. SentInOrder'
      BY <2>1 DEF OrderInv, SentInOrder
    <3>5. QED
      BY <3>2, <3>3, <3>4 DEF OrderInv
  <2>8. QED
    BY <1>2, <2>6, <2>7 DEF TakeHead, Complete
<1>3. QED
  BY <1>1, <1>2

\* A held marker leaves its place for the completion: both Gate::Dropped and
\* Gate::Stored on a stopped queue.
LEMMA GateCompletedOrder ==
  ASSUME OrderInv, TypeInv', NEW s \in held, task = "select", held' = held \ {s},
         todo' = {s}, task' = "report",
         UNCHANGED <<fifo, newHeld, pending, nextSeq, head, sent, rank, joins>>
  PROVE  OrderInv'
<1>1. todo = {} /\ Uncommitted = {} /\ Uncommitted' = {s}
  BY DEF OrderInv, LineOrder, Uncommitted
<1>2. HeadEntry' = HeadEntry /\ Range(fifo)' = Range(fifo)
  BY DEF HeadEntry, Range
<1>3. EntriesConserved'
  BY <1>1, <1>2 DEF OrderInv, EntriesConserved
<1>4. LineOrder' /\ SentInOrder'
  BY <1>1, <1>2 DEF OrderInv, LineOrder, SentInOrder
<1>5. QED
  BY <1>3, <1>4 DEF OrderInv

\* A gate opens: its marker joins behind all that has joined.
LEMMA GateStoredOrder ==
  ASSUME OrderInv, TypeInv', NEW s \in held, GateStored(s), ~stopped, follow[s] = NoWrite
  PROVE  OrderInv'
<1>1. /\ held' = held \ {s} /\ PushBack(<<s>>) /\ task = "select" /\ task' = "held"
      /\ rank' = [rank EXCEPT ![s] = joins + 1] /\ joins' = joins + 1
      /\ UNCHANGED <<newHeld, pending, nextSeq, head, todo, sent>>
  BY DEF GateStored, jobsVars
<1>2. s \in Seqs /\ rank[s] = 0 /\ s \notin sent /\ s \in Nat /\ joins \in Nat /\ s \in pending
  BY LineFacts DEF OrderInv, LineOrder, EntriesConserved, Seqs
<1>3. s \notin Range(fifo) \cup HeadEntry \cup Uncommitted \cup newHeld
  BY DEF OrderInv, EntriesConserved
<1>4. /\ Range(fifo)' = Range(fifo) \cup {s} /\ HeadEntry' = HeadEntry
      /\ \A i, j \in DOMAIN fifo' : fifo'[i] = fifo'[j] => i = j
      /\ Ascending(fifo', rank')
      /\ \A t \in Seqs : rank'[t] <= joins' /\ (t # s => rank'[t] = rank[t])
      /\ \A t \in (Range(fifo) \cup HeadEntry \cup sent)' : rank'[t] > 0
      /\ \A t \in HeadEntry', u \in Range(fifo)' : rank'[t] < rank'[u]
      /\ \A t \in sent' : rank'[t] = rank[t] /\ rank'[t] < rank'[s]
  BY <1>1, <1>2, <1>3, JoinOrder
<1>5. todo = {} /\ Uncommitted = {} /\ Uncommitted' = {}
  BY <1>1 DEF OrderInv, LineOrder, Uncommitted
<1>6. EntriesConserved'
  BY <1>1, <1>3, <1>4, <1>5 DEF OrderInv, EntriesConserved
<1>7. LineOrder'
  <2>1. (\A t \in Seqs : t >= nextSeq => rank[t] = 0)'
    BY <1>1, <1>2, <1>4, LineFacts DEF OrderInv, LineOrder, Seqs
  <2>2. (\A t \in newHeld \cup held : rank[t] = 0)'
    BY <1>1, <1>3, <1>4, LineFacts DEF OrderInv, LineOrder
  <2>3. QED
    BY <1>1, <1>4, <1>5, <2>1, <2>2 DEF OrderInv, LineOrder, Ascending
<1>8. SentInOrder'
  <2>1. ASSUME NEW u \in sent, NEW t \in Seqs, 0 < rank'[t], rank'[t] < rank'[u]
        PROVE  t \notin pending'
    <3>1. u \in Seqs /\ rank[u] \in Nat /\ rank'[u] = rank[u] /\ rank'[u] < rank'[s]
      BY <1>1, <1>4, LineFacts
    <3>2. rank' \in [Seqs -> Nat]
      BY DEF TypeInv, TypeOK, HistoryTypes
    <3>3. t # s
      BY <1>2, <2>1, <3>1, <3>2
    <3>4. QED
      BY <1>1, <1>4, <2>1, <3>1, <3>3 DEF OrderInv, SentInOrder
  <2>2. QED
    BY <1>1, <2>1 DEF SentInOrder
<1>9. QED
  BY <1>6, <1>7, <1>8 DEF OrderInv

\* A request leaves: everything that joined before it has ended.
LEMMA SendOrder ==
  ASSUME OrderInv, TypeInv', Send
  PROVE  OrderInv'
<1>1. /\ task = "select" /\ head \in Seqs /\ sent' = sent \cup {head}
      /\ UNCHANGED <<fifo, newHeld, pending, nextSeq, held, head, todo, task, rank, joins>>
  BY DEF Send, state, order, OrderInv, TypeInv, AttemptHasHead
<1>2. head # NoSeq /\ head \in HeadEntry /\ HeadEntry = {head}
  BY <1>1, QueueAssumption DEF HeadEntry, Seqs
<1>3. todo = {} /\ Uncommitted = {}
  BY <1>1 DEF OrderInv, LineOrder, Uncommitted
<1>4. Uncommitted' = Uncommitted /\ HeadEntry' = HeadEntry /\ Range(fifo)' = Range(fifo)
  BY <1>1 DEF Uncommitted, Completing, HeadEntry, Range
<1>5. EntriesConserved'
  BY <1>1, <1>4 DEF OrderInv, EntriesConserved
<1>6. LineOrder'
  BY <1>1, <1>2, <1>4 DEF OrderInv, LineOrder, EntriesConserved
<1>7. ASSUME NEW t \in Seqs, 0 < rank[t], rank[t] < rank[head]
      PROVE  t \notin pending
  <2>1. rank[t] \in Nat /\ rank[head] \in Nat
    BY <1>1, LineFacts
  <2>2. t \notin newHeld \cup held /\ t # head
    BY <1>7, <2>1 DEF OrderInv, LineOrder
  <2>3. t \notin Range(fifo)
    BY <1>2, <1>7, <2>1 DEF OrderInv, LineOrder
  <2>4. QED
    BY <1>2, <1>3, <2>2, <2>3 DEF OrderInv, EntriesConserved
<1>8. SentInOrder'
  BY <1>1, <1>7 DEF OrderInv, SentInOrder
<1>9. QED
  BY <1>5, <1>6, <1>8 DEF OrderInv

\* An attempt ends the head.
LEMMA EndAttemptOrder ==
  ASSUME OrderInv, TypeInv', task = "select", attempt # "none", NEW r, EndAttempt(r),
         UNCHANGED <<fifo, newHeld, pending, nextSeq, held, sent, rank, joins>>
  PROVE  OrderInv'
<1>1. head \in Seqs /\ head # NoSeq /\ head' = NoSeq /\ todo' = {head} /\ task' = "report"
  BY QueueAssumption DEF OrderInv, TypeInv, AttemptHasHead, EndAttempt, Complete, Seqs
<1>2. HeadEntry = {head} /\ HeadEntry' = {} /\ Range(fifo)' = Range(fifo)
  BY <1>1 DEF HeadEntry, Range
<1>3. todo = {} /\ Uncommitted = {} /\ Uncommitted' = {head}
  BY <1>1 DEF OrderInv, LineOrder, Uncommitted
<1>4. EntriesConserved'
  BY <1>1, <1>2, <1>3 DEF OrderInv, EntriesConserved
<1>5. LineOrder' /\ SentInOrder'
  BY <1>1, <1>2, <1>3 DEF OrderInv, LineOrder, SentInOrder
<1>6. QED
  BY <1>4, <1>5 DEF OrderInv

\* The finish of a call joins, and its marker right behind it.
LEMMA GateFollowOrder ==
  ASSUME OrderInv, TypeInv', NEW s \in held, GateStored(s), ~stopped, follow[s] # NoWrite
  PROVE  OrderInv'
<1> DEFINE n == nextSeq
           q1 == fifo \o <<n>>
           r1 == [rank EXCEPT ![n] = joins + 1]
           q2 == q1 \o <<s>>
           r2 == [r1 EXCEPT ![s] = joins + 2]
<1>1. /\ held' = held \ {s} /\ task = "select" /\ task' = "held"
      /\ fifo' = fifo \o <<n, s>> /\ joins' = joins + 2
      /\ rank' = [rank EXCEPT ![n] = joins + 1, ![s] = joins + 2]
      /\ nextSeq' = n + 1 /\ pending' = pending \cup {n}
      /\ UNCHANGED <<newHeld, head, todo, sent>>
  BY DEF GateStored, Register, PushBack, jobsVars
<1>2. n \in Seqs /\ n \in Nat /\ n < MaxWrites /\ joins \in Nat
  BY QueueAssumption DEF OrderInv, TypeInv, TypeOK, GateStored, StateTypes, HistoryTypes, Seqs
<1>3. s \in Seqs /\ rank[s] = 0 /\ s \notin sent /\ s \in Nat /\ s \in pending /\ s < n
  BY LineFacts DEF OrderInv, LineOrder, EntriesConserved, Seqs
<1>4. n \notin pending /\ n \notin sent /\ rank[n] = 0 /\ n # s
  BY <1>2, <1>3 DEF OrderInv, LineOrder
<1>5. /\ s \notin Range(fifo) \cup HeadEntry \cup Uncommitted \cup newHeld
      /\ n \notin Range(fifo) \cup newHeld \cup held \cup HeadEntry \cup Uncommitted
  BY <1>4 DEF OrderInv, EntriesConserved
<1>6. /\ fifo \in Seq(Seqs) /\ rank \in [Seqs -> Nat] /\ Ascending(fifo, rank)
      /\ \A t \in Seqs : rank[t] <= joins
  BY LineFacts
<1>7. q1 \in Seq(Seqs) /\ r1 \in [Seqs -> Nat] /\ \A t \in Seqs : r1[t] <= joins + 1
  BY <1>2, <1>6
<1>8. Range(q1) = Range(fifo) \cup {n}
  BY <1>2, <1>5, <1>6, JoinLine
<1>9. Ascending(q1, r1)
  BY <1>2, <1>5, <1>6, JoinLine
<1>10. fifo' = q2 /\ rank' = r2
  <2>1. fifo \o <<n, s>> = q2
    BY <1>2, <1>3, <1>6
  <2> QED BY <1>1, <2>1
<1>11. /\ r2 \in [Seqs -> Nat] /\ r2[n] = joins + 1 /\ r2[s] = joins + 2
       /\ \A t \in Seqs : r2[t] <= joins + 2 /\ (t \notin {n, s} => r2[t] = rank[t])
  BY <1>2, <1>3, <1>4, <1>6
<1>12. r2 = [r1 EXCEPT ![s] = (joins + 1) + 1] /\ joins + 1 \in Nat /\ q2 \in Seq(Seqs)
  BY <1>2, <1>3, <1>7
<1> HIDE DEF q1, r1
<1>13. s \notin Range(q1)
  BY <1>4, <1>5, <1>8
<1>14. Range(q2) = Range(q1) \cup {s}
  BY <1>3, <1>7, <1>9, <1>12, <1>13, JoinLine
<1>15. Ascending(q1 \o <<s>>, [r1 EXCEPT ![s] = (joins + 1) + 1])
  BY <1>3, <1>7, <1>9, <1>12, <1>13, JoinLine
<1>16. Ascending(q2, r2)
  BY <1>12, <1>15
<1>16a. \A t \in {n, s} : rank'[t] \in Nat /\ rank'[t] > joins
  BY <1>2, <1>3, <1>10, <1>11
<1> HIDE DEF q2, r2
<1>17. Range(fifo)' = Range(fifo) \cup {n, s} /\ HeadEntry' = HeadEntry
  <2>1. Range(fifo)' = Range(fifo')
    BY DEF Range
  <2>2. HeadEntry' = HeadEntry
    BY <1>1 DEF HeadEntry
  <2>3. QED
    BY <1>8, <1>10, <1>14, <2>1, <2>2
<1>18. \A i, j \in DOMAIN fifo' : fifo'[i] = fifo'[j] => i = j
  BY <1>10, <1>11, <1>12, <1>16, AscendingOnce
<1>19. todo = {} /\ Uncommitted = {} /\ Uncommitted' = {}
  BY <1>1 DEF OrderInv, LineOrder, Uncommitted
<1>20. EntriesConserved'
  <2>1. n \notin held /\ s \notin newHeld /\ n \notin newHeld /\ s \in held /\ n # s
    BY <1>4, <1>5
  <2>2. /\ pending = Range(fifo) \cup newHeld \cup held \cup HeadEntry
        /\ Range(fifo) \cap (newHeld \cup held \cup HeadEntry) = {}
    BY <1>19 DEF OrderInv, EntriesConserved
  <2>3. /\ pending' = pending \cup {n} /\ held' = held \ {s} /\ newHeld' = newHeld
        /\ Range(fifo)' = Range(fifo) \cup {n, s} /\ HeadEntry' = HeadEntry
        /\ Uncommitted' = {}
    BY <1>1, <1>17, <1>19
  <2> HIDE DEF n
  <2>4. pending' = Range(fifo)' \cup newHeld' \cup held' \cup HeadEntry' \cup Uncommitted'
    BY <2>1, <2>2, <2>3
  <2>5. Range(fifo)' \cap (newHeld' \cup held' \cup HeadEntry' \cup Uncommitted') = {}
    BY <1>5, <2>1, <2>2, <2>3
  <2>6. QED
    BY <1>1, <1>17, <1>18, <1>19, <2>4, <2>5 DEF OrderInv, EntriesConserved
<1>21. \A t \in Range(fifo) \cup HeadEntry \cup sent :
         t \in Seqs /\ t \notin {n, s} /\ rank'[t] = rank[t] /\ rank[t] > 0 /\ rank[t] <= joins
                    /\ rank[t] \in Nat
  BY <1>3, <1>4, <1>5, <1>6, <1>10, <1>11, LineFacts DEF OrderInv, LineOrder
<1>22. LineOrder'
  <2>1. (\A t \in pending \cup sent : t < nextSeq)'
    BY <1>1, <1>2, LineFacts DEF OrderInv, LineOrder, Seqs
  <2>2. (\A t \in Seqs : rank[t] <= joins /\ (t >= nextSeq => rank[t] = 0))'
    BY <1>1, <1>2, <1>3, <1>10, <1>11 DEF OrderInv, LineOrder, Seqs
  <2>3. (\A t \in newHeld \cup held : rank[t] = 0)'
    BY <1>1, <1>5, <1>10, <1>11, LineFacts DEF OrderInv, LineOrder
  <2>4. (\A t \in Range(fifo) \cup HeadEntry \cup sent : rank[t] > 0)'
    <3>1. \A t \in Range(fifo) \cup HeadEntry \cup sent : rank'[t] > 0
      BY <1>21
    <3>2. \A t \in {n, s} : rank'[t] > 0
      BY <1>2, <1>16a
    <3>3. QED
      BY <1>1, <1>17, <3>1, <3>2
  <2>5. (\A t \in HeadEntry, u \in Range(fifo) : rank[t] < rank[u])'
    <3>1. ASSUME NEW t \in HeadEntry, NEW u \in Range(fifo) \cup {n, s}
          PROVE  rank'[t] < rank'[u]
      <4>1. CASE u \in Range(fifo)
        BY <1>21, <4>1 DEF OrderInv, LineOrder
      <4>2. CASE u \in {n, s}
        <5>1. rank'[u] \in Nat /\ rank'[u] > joins
          BY <1>16a, <4>2
        <5>2. rank'[t] \in Nat /\ rank'[t] <= joins
          BY <1>21
        <5>3. QED
          BY <1>2, <5>1, <5>2
      <4>3. QED
        BY <4>1, <4>2
    <3>2. QED
      BY <1>17, <3>1
  <2>6. (\A i, j \in DOMAIN fifo : i < j => rank[fifo[i]] < rank[fifo[j]])'
    BY <1>10, <1>16 DEF Ascending
  <2>7. QED
    BY <1>1, <1>19, <2>1, <2>2, <2>3, <2>4, <2>5, <2>6 DEF LineOrder
<1>23. SentInOrder'
  <2>1. ASSUME NEW u \in sent, NEW t \in Seqs, 0 < rank'[t], rank'[t] < rank'[u]
        PROVE  t \notin pending'
    <3>1. u \in Seqs /\ rank[u] \in Nat /\ rank'[u] = rank[u] /\ rank[u] <= joins
      BY <1>21
    <3>2. t \notin {n, s}
      BY <1>2, <1>10, <1>11, <2>1, <3>1
    <3>3. QED
      BY <1>1, <1>10, <1>11, <2>1, <3>1, <3>2 DEF OrderInv, SentInOrder
  <2>2. QED
    BY <1>1, <2>1 DEF SentInOrder
<1>24. QED
  BY <1>20, <1>22, <1>23 DEF OrderInv

\* The three steps that complete an entry.
LEMMA CompletionOrder ==
  ASSUME OrderInv, TypeInv', NEW s \in todo, Report(s) \/ Commit(s) \/ Notify(s)
  PROVE  OrderInv'
<1>1. todo \subseteq Nat
  BY LineFacts DEF Seqs
<1>2. \A t \in todo : Completing(s) /\ Completing(t) => s = t
  BY <1>1 DEF Completing
<1>3. CASE Report(s)
  BY <1>3, SameLine DEF Report, state, jobsVars, order, Busy
<1>4. CASE Commit(s)
  <2>1. /\ task = "commit" /\ task' = "notify" /\ pending' = pending \ {s} /\ Completing(s)
        /\ UNCHANGED <<fifo, newHeld, nextSeq, held, head, todo, sent, rank, joins>>
    BY <1>4 DEF Commit, jobsVars, order
  <2>2. HeadEntry' = HeadEntry /\ Range(fifo)' = Range(fifo)
    BY <2>1 DEF HeadEntry, Range
  <2>3. Uncommitted = todo /\ Uncommitted' = todo \ {s}
    BY <1>2, <2>1 DEF Uncommitted, Completing
  <2>4. EntriesConserved'
    BY <2>1, <2>2, <2>3 DEF OrderInv, EntriesConserved
  <2>5. LineOrder' /\ SentInOrder'
    BY <2>1, <2>2 DEF OrderInv, LineOrder, SentInOrder
  <2>6. QED
    BY <2>4, <2>5 DEF OrderInv
<1>5. CASE Notify(s)
  <2>1. /\ task = "notify" /\ Completing(s) /\ todo' = todo \ {s}
        /\ task' = (IF todo = {s} THEN after ELSE "report") /\ after \in {"held", "head", "gone"}
        /\ UNCHANGED <<fifo, newHeld, pending, nextSeq, held, head, sent, rank, joins>>
    BY <1>5 DEF Notify, state, jobsVars, order, OrderInv, TypeInv, TypeOK, TaskTypes
  <2>2. HeadEntry' = HeadEntry /\ Range(fifo)' = Range(fifo)
    BY <2>1 DEF HeadEntry, Range
  <2>3. Uncommitted' = Uncommitted
    BY <1>2, <2>1 DEF Uncommitted
  <2>4. EntriesConserved'
    BY <2>1, <2>2, <2>3 DEF OrderInv, EntriesConserved
  <2>5. todo' = {} <=> task' \notin {"report", "commit", "notify"}
    BY <2>1
  <2>6. LineOrder' /\ SentInOrder'
    BY <2>1, <2>2, <2>5 DEF OrderInv, LineOrder, SentInOrder
  <2>7. QED
    BY <2>4, <2>6 DEF OrderInv
<1>6. QED
  BY <1>3, <1>4, <1>5

\* The task ends: what is left is completed, and nothing is sent any more.
LEMMA DropTaskOrder ==
  ASSUME OrderInv, TypeInv', task \in {"new", "select"}, DropTask
  PROVE  OrderInv'
<1>1. /\ todo' = EntriesLeft /\ task' = (IF EntriesLeft = {} THEN "gone" ELSE "report")
      /\ head' = NoSeq /\ held' = {} /\ fifo' = <<>> /\ newHeld' = {}
      /\ UNCHANGED <<pending, nextSeq, sent, rank, joins>>
  BY DEF DropTask, Complete, jobsVars, order
<1>2. todo = {} /\ Uncommitted = {}
  BY DEF OrderInv, LineOrder, Uncommitted
<1>3. HeadEntry' = {} /\ Range(fifo)' = {} /\ DOMAIN fifo' = {}
  BY <1>1 DEF HeadEntry, Range
<1>4. Uncommitted' = EntriesLeft
  BY <1>1 DEF Uncommitted
<1>5. EntriesConserved'
  BY <1>1, <1>2, <1>3, <1>4 DEF OrderInv, EntriesConserved, EntriesLeft
<1>6. LineOrder' /\ SentInOrder'
  BY <1>1, <1>3 DEF OrderInv, LineOrder, SentInOrder
<1>7. QED
  BY <1>5, <1>6 DEF OrderInv

\* Every step keeps the order.
LEMMA NextOrder == OrderInv /\ [Next]_vars => OrderInv'
<1> SUFFICES ASSUME OrderInv, [Next]_vars PROVE OrderInv'
  OBVIOUS
<1>1. TypeInv'
  BY NextType DEF OrderInv
<1>2. CASE Callers
  <2>1. CASE \E w \in HandOvers : HandOver(w)
    BY <1>1, <2>1, HandOverOrder
  <2>2. CASE \/ \E w \in HandOvers : HandOverUnqueued(w)
             \/ \E p \in late : FinishUnqueued(p[1], p[2])
    BY <1>1, <2>2, SameLine
       DEF HandOverUnqueued, FinishUnqueued, state, taskVars, jobsVars, order, Busy
  <2>3. CASE \E m \in Markers : Hold(m)
    BY <1>1, <2>3, HoldOrder
  <2>4. CASE DropQueue
    BY <1>1, <2>4, SameLine DEF DropQueue, taskVars, jobsVars, order
  <2>5. ASSUME NEW w \in Waiters,
               \/ DrainedSubscribe(w) \/ DrainedUpto(w) \/ DrainedCheck(w)
               \/ DrainedChanged(w) \/ DrainedAbandoned(w)
        PROVE  OrderInv'
    <3>1. UNCHANGED <<state, taskVars, jobsVars, order>>
      BY <2>5 DEF DrainedSubscribe, DrainedUpto, DrainedCheck, DrainedChanged,
         DrainedAbandoned, Move
    <3>2. QED
      BY <1>1, <3>1, SameLine DEF state, taskVars, jobsVars, order
  <2>6. QED
    BY <1>2, <2>1, <2>2, <2>3, <2>4, <2>5 DEF Callers
<1>3. CASE TakeNewHeld
  BY <1>1, <1>3, TakeNewHeldOrder
<1>4. CASE TakeHead
  BY <1>1, <1>4, TakeHeadOrder
<1>5. CASE SelectWake
  BY <1>1, <1>5, SameLine DEF SelectWake, state, jobsVars, order, Busy
<1>6. CASE Gates
  <2>1. PICK s \in held : GateStored(s) \/ GateDropped(s)
    BY <1>6 DEF Gates
  <2>2. CASE GateStored(s) /\ ~stopped
    BY <1>1, <2>2, GateStoredOrder, GateFollowOrder
  <2>3. CASE GateDropped(s) \/ (GateStored(s) /\ stopped)
    <3>1. /\ task = "select" /\ held' = held \ {s} /\ todo' = {s} /\ task' = "report"
          /\ UNCHANGED <<fifo, newHeld, pending, nextSeq, head, sent, rank, joins>>
      BY <2>3 DEF GateDropped, GateStored, Complete, state, jobsVars, order
    <3>2. QED
      BY <1>1, <3>1, GateCompletedOrder
  <2>4. QED
    BY <2>1, <2>2, <2>3
<1>7. CASE Attempts
  <2>1. CASE Send
    BY <1>1, <2>1, SendOrder
  <2>2. CASE AttemptDelivered
    BY <1>1, <2>2, EndAttemptOrder
       DEF AttemptDelivered, HeardOk, Heard, state, jobsVars, order
  <2>3. CASE AttemptAgain
    BY <1>1, <2>3, SameLine DEF AttemptAgain, jobsVars, order
  <2>4. CASE AttemptFinal
    BY <1>1, <2>4, EndAttemptOrder
       DEF AttemptFinal, AttemptErrors, Heard, state, jobsVars, order
  <2>5. CASE Resend
    BY <1>1, <2>5, SameLine DEF Resend, state, jobsVars, order
  <2>6. QED
    BY <1>7, <2>1, <2>2, <2>3, <2>4, <2>5 DEF Attempts
<1>8. CASE Completion
  BY <1>1, <1>8, CompletionOrder DEF Completion
<1>9. CASE SelectStop \/ RuntimeStops
  BY <1>1, <1>9, DropTaskOrder DEF SelectStop, RuntimeStops
<1>10. CASE \E s \in sent : JobsApply(s)
  BY <1>1, <1>10, SameLine DEF JobsApply, state, taskVars, order
<1>11. CASE UNCHANGED vars
  BY <1>1, <1>11, SameLine DEF vars, state, taskVars, jobsVars, order
<1>12. QED
  BY <1>2, <1>3, <1>4, <1>5, <1>6, <1>7, <1>8, <1>9, <1>10, <1>11 DEF Next

\* The order holds in every reachable state.
LEMMA OrderInvariant == Spec => []OrderInv
  BY InitOrder, NextOrder, PTL DEF Spec

\* No write is lost: what the queue lists as waiting is exactly what it, its task
\* and the completion under way hold, each entry in one place.
THEOREM Conservation == Spec => []EntriesConserved
<1>1. OrderInv => EntriesConserved
  BY DEF OrderInv
<1>2. QED
  BY <1>1, OrderInvariant, PTL

\* The line is ordered: the fifo ascends in the order of the joins and the head
\* is below it.
THEOREM Lined == Spec => []LineOrder
<1>1. OrderInv => LineOrder
  BY DEF OrderInv
<1>2. QED
  BY <1>1, OrderInvariant, PTL

\* Writes leave in order: a request goes out only when all that joined the fifo
\* before its write has ended, whatever is retried, held or dropped meanwhile.
THEOREM Ordering == Spec => []SentInOrder
<1>1. OrderInv => SentInOrder
  BY DEF OrderInv
<1>2. QED
  BY <1>1, OrderInvariant, PTL

-----------------------------------------------------------------------------
(* Ends                                                                    *)

Dropping == after = "gone"
Joined(s) == rank[s] > 0
Lower(t, s) == 0 < rank[t] /\ rank[t] < rank[s]

\* What is known of an entry from its hand-over on.
EntryKept ==
  /\ \A s \in Seqs : s < nextSeq /\ rank[s] = 0 => OwnKey(write[s]) = {}
  /\ \A s \in Seqs : s < nextSeq => write[s] \in Write
  /\ \A s, t \in Seqs : Joined(s) /\ rank[s] = rank[t] => s = t
  /\ rank[0] = 1 /\ follow[0] = NoWrite

\* What the task knows of the entries that it completes.
TodoKept ==
  /\ Dropping => task \in Busy \cup {"gone"} /\ head = NoSeq /\ stopped
                 /\ (todo # {} => outcome = "LeftUnsent")
  /\ ~Dropping =>
       /\ \A s, t \in todo : s = t
       /\ \A s \in todo : Joined(s) => head = NoSeq /\ \A t \in Range(fifo) : rank[s] < rank[t]
  /\ \A s \in todo : s < nextSeq
  /\ task = "notify" => \A s \in todo : Completing(s) => s \notin pending
  /\ task \in {"commit", "notify"} => \A s \in todo : Completing(s) => report[s] = outcome
  /\ outcome = "Delivered" => todo \subseteq applied
  /\ outcome = "DependsOnRemoved" => todo \cap sent = {}
  /\ sent \cap pending \subseteq HeadEntry \cup todo

\* Until the task is dropped the line ends in its order.
LineEnds ==
  ~Dropping => \A s, t \in Seqs :
     Joined(s) /\ Joined(t) /\ s \notin pending /\ t \in pending => rank[s] < rank[t]
LeftOrDone ==
  \A s \in Seqs : Joined(s) /\ s \notin pending /\ report[s] # "LeftUnsent" =>
     \A t \in Seqs : Lower(t, s) => t \notin pending

\* Of a key that a write of the line had, the last result is known, and when it is
\* a delivery it is the one of the last of these writes.
Closed(k) == {t \in Seqs : Joined(t) /\ t \notin pending /\ k \in OwnKey(write[t])}
EndedTrue ==
  ~Dropping => \A k \in DepKey : \A t \in Closed(k) :
     /\ ended[k] # "None"
     /\ ended[k] = "Delivered" /\ (\A u \in Closed(k) : rank[u] <= rank[t]) =>
          report[t] = "Delivered"

\* The writes that a sent write, or the one being attempted, depends on were delivered.
Served(s) ==
  \A k \in DependsOn(write[s]) : \A t \in Earlier(k, s) :
    (\A u \in Earlier(k, s) : rank[u] <= rank[t]) => report[t] = "Delivered"
AllServed == \A s \in HeadEntry \cup sent : Served(s)

DrainKept ==
  \A w \in Waiters :
    /\ waiter[w].upto <= nextSeq
    /\ waiter[w].at = "returned" => \A s \in Seqs : s < waiter[w].upto => s \notin pending

EndInv == OrderInv /\ EntryKept /\ TodoKept /\ LineEnds /\ LeftOrDone /\ EndedTrue
            /\ AllServed /\ DrainKept
-----------------------------------------------------------------------------
(* Steps that leave the entries as they are                                *)

\* The steps that end nothing and let nothing join.
LEMMA SameEntries ==
  ASSUME EndInv, OrderInv', TodoKept',
         UNCHANGED <<pending, nextSeq, rank, write, follow, report, ended, waiter>>,
         Dropping => Dropping',
         \A s \in (HeadEntry \cup sent)' : s \in HeadEntry \cup sent \/ Served(s)
  PROVE  EndInv'
<1>1. EntryKept' /\ LineEnds' /\ LeftOrDone' /\ DrainKept'
  BY DEF EndInv, EntryKept, Joined, LineEnds, LeftOrDone, Lower, DrainKept
<1>2. EndedTrue'
  <2>1. \A k \in DepKey : Closed(k)' = Closed(k)
    BY DEF Closed, Joined
  <2> QED BY <2>1 DEF EndInv, EndedTrue
<1>3. AllServed'
  <2>1. \A s : Served(s)' <=> Served(s)
    BY DEF Served, Earlier
  <2> QED BY <2>1 DEF EndInv, AllServed
<1> QED BY <1>1, <1>2, <1>3 DEF EndInv

\* The task goes on, or another thread does, and completes nothing.
LEMMA SameTodo ==
  ASSUME EndInv, UNCHANGED <<fifo, pending, nextSeq, rank, report, head, after, todo, outcome,
                     sent>>,
         stopped => stopped', applied \subseteq applied',
         task' = task \/ (task \notin Busy \cup {"gone"} /\ task' \notin Busy \cup {"gone"})
  PROVE  TodoKept'
<1>1. HeadEntry' = HeadEntry /\ Range(fifo)' = Range(fifo)
  BY DEF HeadEntry, Range
<1>2. \A s : Completing(s)' <=> Completing(s)
  BY DEF Completing
<1> QED BY <1>1, <1>2 DEF EndInv, TodoKept, Dropping, Joined, Busy

\* Such steps: a late caller, the drop of the queue, the gates and the resends.
LEMMA RestEnds ==
  ASSUME EndInv, OrderInv',
         \/ \E w \in HandOvers : HandOverUnqueued(w)
         \/ DropQueue \/ TakeNewHeld \/ SelectWake \/ AttemptAgain \/ Resend
         \/ \E s \in sent : JobsApply(s)
         \/ UNCHANGED vars
  PROVE  EndInv'
<1> USE DEF state, entries, taskVars, jobsVars, order
<1>1. /\ UNCHANGED <<fifo, pending, nextSeq, rank, write, follow, report, ended, waiter,
                     head, after, todo, outcome, sent>>
      /\ task' = task \/ (task \notin Busy \cup {"gone"} /\ task' \notin Busy \cup {"gone"})
  BY DEF HandOverUnqueued, DropQueue, TakeNewHeld, SelectWake, AttemptAgain, Resend,
         JobsApply, vars, Busy
<1>2. applied \subseteq applied'
  BY DEF HandOverUnqueued, DropQueue, TakeNewHeld, SelectWake, AttemptAgain, Resend,
         JobsApply, vars
<1>3. stopped => stopped'
  BY Zenon DEF HandOverUnqueued, DropQueue, TakeNewHeld, SelectWake, AttemptAgain, Resend,
         JobsApply, vars
<1>4. TodoKept'
  BY <1>1, <1>2, <1>3, SameTodo
<1>5. HeadEntry' = HeadEntry
  BY <1>1 DEF HeadEntry
<1> QED BY <1>1, <1>4, <1>5, SameEntries DEF Dropping

\* The second lock section of a hand-over records a removal.
LEMMA UnqueuedEnds ==
  ASSUME EndInv, OrderInv', NEW p \in late, FinishUnqueued(p[1], p[2])
  PROVE  EndInv'
<1> USE DEF state, entries, taskVars, jobsVars, order
<1>1. /\ UNCHANGED <<fifo, pending, nextSeq, rank, write, follow, report, waiter,
                     head, after, todo, outcome, sent, task, stopped, applied>>
      /\ ended' = [ended EXCEPT ![p[1]] = p[2]]
  BY DEF FinishUnqueued
<1>2. TodoKept'
  BY <1>1, SameTodo
<1>3. EntryKept' /\ LineEnds' /\ LeftOrDone' /\ DrainKept'
  BY <1>1 DEF EndInv, EntryKept, Joined, LineEnds, LeftOrDone, Lower, DrainKept, Dropping
<1>4. AllServed'
  <2>1. \A s : Served(s)' <=> Served(s)
    BY <1>1 DEF Served, Earlier
  <2>2. HeadEntry' = HeadEntry
    BY <1>1 DEF HeadEntry
  <2> QED BY <1>1, <2>1, <2>2 DEF EndInv, AllServed
<1>5. EndedTrue'
  <2>1. \A k \in DepKey : Closed(k)' = Closed(k)
    BY <1>1 DEF Closed, Joined
  <2>2. p[2] \in Removals /\ ended \in [DepKey -> Results \cup {"None"}]
    BY DEF EndInv, OrderInv, TypeInv, TypeOK, CallerTypes, StateTypes
  <2>3. \A k \in DepKey : ended'[k] = ended[k] \/ ended'[k] \in Removals
    BY <1>1, <2>2
  <2>4. "None" \notin Removals /\ "Delivered" \notin Removals
    BY DEF Removals
  <2> QED BY <1>1, <2>1, <2>3, <2>4 DEF EndInv, EndedTrue, Dropping
<1> QED BY <1>2, <1>3, <1>4, <1>5 DEF EndInv

\* drained() reads the next seq, and returns when nothing below it is waiting.
LEMMA DrainedEnds ==
  ASSUME EndInv, OrderInv', NEW w \in Waiters,
         \/ DrainedSubscribe(w) \/ DrainedUpto(w) \/ DrainedCheck(w)
         \/ DrainedChanged(w) \/ DrainedAbandoned(w)
  PROVE  EndInv'
<1> USE DEF state, entries, taskVars, jobsVars, order
<1>1. UNCHANGED <<fifo, pending, nextSeq, rank, write, follow, report, ended,
                  head, after, todo, outcome, sent, task, stopped, applied>>
  BY DEF DrainedSubscribe, DrainedUpto, DrainedCheck, DrainedChanged, DrainedAbandoned, Move
<1>2. TodoKept'
  BY <1>1, SameTodo
<1>3. EntryKept' /\ LineEnds' /\ LeftOrDone'
  BY <1>1 DEF EndInv, EntryKept, Joined, LineEnds, LeftOrDone, Lower, Dropping
<1>4. AllServed'
  <2>1. \A s : Served(s)' <=> Served(s)
    BY <1>1 DEF Served, Earlier
  <2>2. HeadEntry' = HeadEntry
    BY <1>1 DEF HeadEntry
  <2> QED BY <1>1, <2>1, <2>2 DEF EndInv, AllServed
<1>5. EndedTrue'
  <2>1. \A k \in DepKey : Closed(k)' = Closed(k)
    BY <1>1 DEF Closed, Joined
  <2> QED BY <1>1, <2>1 DEF EndInv, EndedTrue, Dropping
<1>6. DrainKept'
  <2>1. waiter \in [Waiters -> WaiterState] /\ nextSeq \in Nat
    BY DEF EndInv, OrderInv, TypeInv, TypeOK, CallerTypes, StateTypes
  <2>2. PICK at, upto, seen :
          /\ waiter' = [waiter EXCEPT ![w] = [at |-> at, upto |-> upto, seen |-> seen]]
          /\ upto \in {0, nextSeq, waiter[w].upto}
          /\ at = "returned" => upto = waiter[w].upto /\ ~Waits(w)
    BY DEF DrainedSubscribe, DrainedUpto, DrainedCheck, DrainedChanged, DrainedAbandoned, Move
  <2>3. /\ \A v \in Waiters : v # w => waiter'[v] = waiter[v]
        /\ waiter'[w].upto = upto /\ waiter'[w].at = at
    BY <2>1, <2>2
  <2>4. upto <= nextSeq
    BY <2>1, <2>2 DEF EndInv, DrainKept
  <2>5. at = "returned" => \A s \in Seqs : s < upto => s \notin pending
    BY <2>2 DEF Waits
  <2> QED BY <1>1, <2>3, <2>4, <2>5 DEF EndInv, DrainKept
<1> QED BY <1>2, <1>3, <1>4, <1>5, <1>6 DEF EndInv

-----------------------------------------------------------------------------
(* Steps by which entries are taken or join the line                       *)

\* The writes of J join at the end of the line; the seqs below nextSeq keep their
\* writes and none of them ends.
LEMMA Grow ==
  ASSUME EndInv, OrderInv', ~stopped, nextSeq <= nextSeq',
         NEW J \in SUBSET Seqs, J \cap todo = {},
         \A s \in Seqs \ J : rank'[s] = rank[s],
         \A s \in J : rank[s] = 0 /\ rank'[s] > joins /\ s \in pending',
         \A s, t \in J : rank'[s] = rank'[t] => s = t,
         \A s \in Seqs : s < nextSeq => write'[s] = write[s] /\ (s \in pending' <=> s \in pending),
         \A s \in Seqs : nextSeq <= s /\ s < nextSeq' =>
            write'[s] \in Write /\ (s \in J \/ OwnKey(write'[s]) = {}),
         Range(fifo)' \subseteq Range(fifo) \cup J, follow'[0] = follow[0],
         UNCHANGED <<stopped, ended, report, head, after, todo, outcome, sent, applied, waiter>>,
         task' = task \/ (task \notin Busy \cup {"gone"} /\ task' \notin Busy \cup {"gone"})
  PROVE  EndInv'
<1>1. /\ rank \in [Seqs -> Nat] /\ rank' \in [Seqs -> Nat] /\ joins \in Nat
      /\ nextSeq \in Nat /\ nextSeq' \in Nat /\ Seqs \subseteq Nat
      /\ sent \subseteq Seqs /\ HeadEntry \subseteq Seqs /\ todo \subseteq Seqs
      /\ pending \subseteq Seqs /\ Range(fifo) \subseteq Seqs
  <2>1. rank' \in [Seqs -> Nat] /\ nextSeq' \in Nat /\ Seqs \subseteq Nat
    BY DEF OrderInv, TypeInv, TypeOK, StateTypes, HistoryTypes, Seqs
  <2> QED BY <2>1, LineFacts DEF EndInv
<1>2. \A s \in Seqs : rank[s] <= joins /\ (rank[s] > 0 => s < nextSeq)
  BY <1>1 DEF EndInv, OrderInv, LineOrder
<1>3. \A s \in Seqs : rank'[s] > 0 /\ s \notin J => rank[s] > 0 /\ s < nextSeq
  BY <1>1, <1>2
<1>4. \A s \in Seqs : rank[s] > 0 => s \notin J /\ rank'[s] = rank[s]
  BY <1>1
<1>5. ~Dropping /\ ~Dropping' /\ HeadEntry' = HeadEntry
  BY DEF EndInv, TodoKept, Dropping, HeadEntry
<1>6. EntryKept'
  <2>1. \A s \in Seqs : s < nextSeq' /\ rank'[s] = 0 => OwnKey(write'[s]) = {}
    <3> SUFFICES ASSUME NEW s \in Seqs, s < nextSeq', rank'[s] = 0 PROVE OwnKey(write'[s]) = {}
      OBVIOUS
    <3>1. s \notin J /\ rank[s] = 0
      BY <1>1
    <3>2. CASE s < nextSeq
      BY <3>1, <3>2 DEF EndInv, EntryKept
    <3>3. CASE ~(s < nextSeq)
      BY <1>1, <3>1, <3>3
    <3> QED BY <3>2, <3>3
  <2>2. \A s \in Seqs : s < nextSeq' => write'[s] \in Write
    BY <1>1 DEF EndInv, EntryKept
  <2>3. \A s, t \in Seqs : rank'[s] > 0 /\ rank'[s] = rank'[t] => s = t
    <3> SUFFICES ASSUME NEW s \in Seqs, NEW t \in Seqs, rank'[s] > 0, rank'[s] = rank'[t]
                 PROVE  s = t
      OBVIOUS
    <3>1. CASE s \in J /\ t \in J
      BY <3>1
    <3>2. CASE s \notin J /\ t \notin J
      BY <1>1, <3>2 DEF EndInv, EntryKept, Joined
    <3>3. CASE (s \in J /\ t \notin J) \/ (s \notin J /\ t \in J)
      BY <1>1, <1>2, <3>3
    <3> QED BY <3>1, <3>2, <3>3
  <2>4. rank'[0] = 1 /\ follow'[0] = NoWrite
    <3>1. 0 \in Seqs /\ rank[0] = 1
      BY QueueAssumption DEF EndInv, EntryKept, Seqs
    <3> QED BY <1>4, <3>1 DEF EndInv, EntryKept
  <2> QED BY <2>1, <2>2, <2>3, <2>4 DEF EntryKept, Joined
<1>7. TodoKept'
  <2>1. \A s \in todo : rank'[s] > 0 => head = NoSeq /\ \A t \in Range(fifo)' : rank'[s] < rank'[t]
    <3> SUFFICES ASSUME NEW s \in todo, rank'[s] > 0
                 PROVE  head = NoSeq /\ \A t \in Range(fifo)' : rank'[s] < rank'[t]
      OBVIOUS
    <3>1. s \in Seqs /\ s \notin J /\ rank[s] > 0 /\ rank'[s] = rank[s]
      BY <1>1, <1>3
    <3>2. head = NoSeq /\ \A t \in Range(fifo) : rank[s] < rank[t]
      BY <1>5, <3>1 DEF EndInv, TodoKept, Joined
    <3>3. \A t \in Range(fifo) : rank'[t] = rank[t]
      BY <1>1, <1>4 DEF EndInv, OrderInv, LineOrder
    <3>4. \A t \in J : rank[s] < rank'[t]
      <4>1. rank[s] \in Nat /\ rank[s] <= joins /\ joins \in Nat
        BY <1>1, <1>2, <3>1
      <4>2. \A t \in J : rank'[t] \in Nat /\ rank'[t] > joins
        BY <1>1
      <4> QED BY <4>1, <4>2
    <3> QED BY <3>1, <3>2, <3>3, <3>4
  <2>2. \A s \in sent \cap pending' : s \in pending
    BY <1>1, <1>2 DEF EndInv, OrderInv, LineOrder
  <2>3. \A s : Completing(s)' <=> Completing(s)
    BY DEF Completing
  <2>4. \A s \in todo : s < nextSeq'
    BY <1>1 DEF EndInv, TodoKept
  <2>5. task' \in {"commit", "notify"} => task' = task
    BY DEF Busy
  <2>6. \A s, t \in todo : s = t
    BY <1>5 DEF EndInv, TodoKept
  <2>7. \A s \in todo : s \in pending' <=> s \in pending
    BY <1>1 DEF EndInv, TodoKept
  <2> QED BY <1>5, <2>1, <2>2, <2>3, <2>4, <2>5, <2>6, <2>7 DEF EndInv, TodoKept, Joined
<1>8. LineEnds' /\ LeftOrDone'
  <2>1. \A s \in Seqs : rank'[s] > 0 /\ s \notin pending' =>
          s \notin J /\ rank[s] > 0 /\ rank'[s] = rank[s] /\ s < nextSeq /\ s \notin pending
    BY <1>3
  <2>2. \A t \in Seqs : rank'[t] > 0 /\ t \in pending' /\ t \notin J =>
          rank[t] > 0 /\ rank'[t] = rank[t] /\ t \in pending
    BY <1>3
  <2>3. \A s \in Seqs : s \notin J => \A t \in J : rank'[s] < rank'[t]
    BY <1>1, <1>2
  <2>4. LineEnds'
    <3> SUFFICES ASSUME NEW s \in Seqs, NEW t \in Seqs, rank'[s] > 0, rank'[t] > 0,
                        s \notin pending', t \in pending'
                 PROVE  rank'[s] < rank'[t]
      BY DEF LineEnds, Joined
    <3>1. CASE t \in J
      BY <2>1, <2>3, <3>1
    <3>2. CASE t \notin J
      BY <1>5, <2>1, <2>2, <3>2 DEF EndInv, LineEnds, Joined
    <3> QED BY <3>1, <3>2
  <2>5. LeftOrDone'
    <3> SUFFICES ASSUME NEW s \in Seqs, NEW t \in Seqs, rank'[s] > 0, s \notin pending',
                        report[s] # "LeftUnsent", 0 < rank'[t], rank'[t] < rank'[s],
                        t \in pending'
                 PROVE  FALSE
      BY DEF LeftOrDone, Joined, Lower
    <3>1. t \notin J
      BY <1>1, <2>1, <2>3
    <3> QED BY <2>1, <2>2, <3>1 DEF EndInv, LeftOrDone, Joined, Lower
  <2> QED BY <2>4, <2>5
<1>9. EndedTrue'
  <2>1. \A k \in DepKey : Closed(k)' = Closed(k)
    <3>1. \A t \in Seqs : rank'[t] > 0 /\ t \notin pending' <=> rank[t] > 0 /\ t \notin pending
      BY <1>2, <1>3, <1>4
    <3>2. \A t \in Seqs : rank[t] > 0 => write'[t] = write[t]
      BY <1>2
    <3> QED BY <3>1, <3>2 DEF Closed, Joined
  <2>2. \A k \in DepKey : \A t \in Closed(k) : rank'[t] = rank[t]
    BY <1>4 DEF Closed, Joined
  <2> QED BY <1>5, <2>1, <2>2 DEF EndInv, EndedTrue
<1>10. AllServed'
  <2> SUFFICES ASSUME NEW s \in HeadEntry \cup sent PROVE Served(s)'
    BY <1>5 DEF AllServed
  <2>1. s \in Seqs /\ rank[s] > 0 /\ rank'[s] = rank[s] /\ s < nextSeq /\ write'[s] = write[s]
    BY <1>1, <1>2, <1>4 DEF EndInv, OrderInv, LineOrder
  <2>2. \A t \in Seqs : 0 < rank'[t] /\ rank'[t] < rank'[s] <=> 0 < rank[t] /\ rank[t] < rank[s]
    <3>1. \A t \in J : ~(rank'[t] < rank'[s])
      BY <1>1, <1>2, <2>1
    <3>2. \A t \in Seqs \ J : rank'[t] = rank[t]
      OBVIOUS
    <3> QED BY <1>4, <2>1, <3>1, <3>2
  <2>3. \A t \in Seqs : rank[t] > 0 => write'[t] = write[t] /\ rank'[t] = rank[t]
    BY <1>2, <1>4
  <2>4. \A k : Earlier(k, s)' = Earlier(k, s)
    BY <2>2, <2>3 DEF Earlier
  <2>5. \A k : \A t \in Earlier(k, s) : rank'[t] = rank[t]
    BY <2>3 DEF Earlier
  <2>6. Served(s)
    BY DEF EndInv, AllServed
  <2> QED BY <2>1, <2>4, <2>5, <2>6 DEF Served
<1>11. DrainKept'
  <2>1. \A w \in Waiters : waiter[w].upto \in Nat /\ waiter[w].upto <= nextSeq
    BY QueueAssumption DEF EndInv, DrainKept, OrderInv, TypeInv, TypeOK, CallerTypes, WaiterState
  <2> QED BY <1>1, <2>1 DEF EndInv, DrainKept
<1> QED BY <1>6, <1>7, <1>8, <1>9, <1>10, <1>11 DEF EndInv

\* A new seq is above the entries, and its place is not the one of the started fact.
LEMMA NewSeq ==
  ASSUME EndInv, nextSeq < MaxWrites
  PROVE  /\ nextSeq \in Seqs /\ nextSeq \in Nat /\ nextSeq # 0 /\ rank[nextSeq] = 0
         /\ nextSeq \notin todo /\ nextSeq \notin pending
         /\ write \in [Seqs -> Write \cup {NoWrite}] /\ follow \in [Seqs -> Write \cup {NoWrite}]
         /\ rank \in [Seqs -> Nat] /\ joins \in Nat /\ 0 \in Seqs
<1>1. /\ nextSeq \in Seqs /\ nextSeq \in Nat /\ nextSeq # 0 /\ 0 \in Seqs
      /\ write \in [Seqs -> Write \cup {NoWrite}] /\ follow \in [Seqs -> Write \cup {NoWrite}]
      /\ rank \in [Seqs -> Nat] /\ joins \in Nat
  BY QueueAssumption
     DEF EndInv, OrderInv, TypeInv, TypeOK, StateTypes, EntryTypes, HistoryTypes, Seqs
<1>2. rank[nextSeq] = 0 /\ nextSeq \notin pending
  BY <1>1 DEF EndInv, OrderInv, LineOrder
<1>3. nextSeq \notin todo
  BY <1>1 DEF EndInv, TodoKept
<1> QED BY <1>1, <1>2, <1>3

\* hand_over, and below the other steps, one lemma each: the ends are kept.
LEMMA HandOverEnds ==
  ASSUME EndInv, OrderInv', NEW w \in HandOvers, HandOver(w)
  PROVE  EndInv'
<1> DEFINE n == nextSeq
<1>1. n < MaxWrites
  BY ReservedNat, QueueAssumption
     DEF EndInv, OrderInv, TypeInv, TypeOK, HandOver, StateTypes
<1>2. /\ n \in Seqs /\ n \in Nat /\ n # 0 /\ rank[n] = 0 /\ n \notin todo /\ n \notin pending
      /\ write \in [Seqs -> Write \cup {NoWrite}] /\ follow \in [Seqs -> Write \cup {NoWrite}]
      /\ rank \in [Seqs -> Nat] /\ joins \in Nat /\ 0 \in Seqs
  BY <1>1, NewSeq
<1>3. /\ ~stopped /\ nextSeq' = n + 1 /\ pending' = pending \cup {n} /\ PushBack(<<n>>)
      /\ write' = [write EXCEPT ![n] = w] /\ follow' = [follow EXCEPT ![n] = NoWrite]
      /\ rank' = [rank EXCEPT ![n] = joins + 1] /\ joins' = joins + 1
      /\ UNCHANGED <<stopped, ended, report, head, after, todo, outcome, sent, applied, waiter,
                     task>>
  BY DEF HandOver, Register, taskVars, jobsVars
<1>4. Range(fifo)' \subseteq Range(fifo) \cup {n}
  <2>1. n \notin Range(fifo) \cup HeadEntry \cup sent
    BY <1>2 DEF EndInv, OrderInv, LineOrder, EntriesConserved
  <2> QED BY <1>2, <1>3, <2>1, JoinOrder DEF EndInv
<1>5. w \in Write
  BY QueueAssumption
<1>6. /\ \A s \in Seqs \ {n} : rank'[s] = rank[s]
      /\ \A s \in {n} : rank[s] = 0 /\ rank'[s] > joins /\ s \in pending'
  BY <1>2, <1>3
<1>7. /\ \A s \in Seqs : s < nextSeq => write'[s] = write[s] /\ (s \in pending' <=> s \in pending)
      /\ \A s \in Seqs : nextSeq <= s /\ s < nextSeq' => s = n /\ write'[s] \in Write
      /\ follow'[0] = follow[0] /\ nextSeq <= nextSeq'
  BY <1>2, <1>3, <1>5 DEF Seqs
<1>8. /\ {n} \in SUBSET Seqs /\ {n} \cap todo = {} /\ \A s, t \in {n} : s = t
      /\ \A s \in Seqs : nextSeq <= s /\ s < nextSeq' =>
           write'[s] \in Write /\ (s \in {n} \/ OwnKey(write'[s]) = {})
  BY <1>2, <1>7
<1> HIDE DEF n
<1> QED BY <1>3, <1>4, <1>6, <1>7, <1>8, Grow

\* A held marker is pending, and has not joined.
LEMMA HoldEnds ==
  ASSUME EndInv, OrderInv', NEW m \in Markers, Hold(m)
  PROVE  EndInv'
<1> DEFINE n == nextSeq
<1>1. n < MaxWrites
  BY ReservedNat, QueueAssumption
     DEF EndInv, OrderInv, TypeInv, TypeOK, Hold, StateTypes
<1>2. /\ n \in Seqs /\ n \in Nat /\ n # 0 /\ rank[n] = 0 /\ n \notin todo /\ n \notin pending
      /\ write \in [Seqs -> Write \cup {NoWrite}] /\ follow \in [Seqs -> Write \cup {NoWrite}]
      /\ rank \in [Seqs -> Nat] /\ joins \in Nat /\ 0 \in Seqs
  BY <1>1, NewSeq
<1>3. /\ ~stopped /\ nextSeq' = n + 1 /\ pending' = pending \cup {n}
      /\ write' = [write EXCEPT ![n] = m[1]] /\ follow' = [follow EXCEPT ![n] = m[2]]
      /\ UNCHANGED <<fifo, rank, stopped, ended, report, head, after, todo, outcome, sent,
                     applied, waiter, task>>
  BY DEF Hold, Register, taskVars, jobsVars, order
<1>4. Range(fifo)' \subseteq Range(fifo)
  BY <1>3 DEF Range
<1>5. m[1] \in Write /\ OwnKey(m[1]) = {}
  BY QueueAssumption DEF OwnKey
<1>6. /\ \A s \in Seqs : s < nextSeq => write'[s] = write[s] /\ (s \in pending' <=> s \in pending)
      /\ \A s \in Seqs : nextSeq <= s /\ s < nextSeq' =>
           write'[s] \in Write /\ OwnKey(write'[s]) = {}
      /\ follow'[0] = follow[0] /\ nextSeq <= nextSeq'
  BY <1>2, <1>3, <1>5 DEF Seqs
<1>7. \A s \in Seqs \ {} : rank'[s] = rank[s]
  BY <1>3
<1>8. {} \in SUBSET Seqs /\ {} \cap todo = {}
  OBVIOUS
<1> QED BY <1>3, <1>4, <1>6, <1>7, <1>8, Grow

\* A marker whose message is stored joins the line.
LEMMA GateJoinsEnds ==
  ASSUME EndInv, OrderInv', NEW s \in held, GateStored(s), ~stopped, follow[s] = NoWrite
  PROVE  EndInv'
<1>1. /\ PushBack(<<s>>) /\ task = "select" /\ task' = "held"
      /\ rank' = [rank EXCEPT ![s] = joins + 1] /\ joins' = joins + 1
      /\ UNCHANGED <<pending, nextSeq, write, follow, stopped, ended, report, head, after, todo,
                     outcome, sent, applied, waiter>>
  BY DEF GateStored, jobsVars, entries
<1>2. /\ s \in Seqs /\ rank[s] = 0 /\ s \in pending /\ joins \in Nat /\ todo = {}
      /\ rank \in [Seqs -> Nat] /\ s \notin Range(fifo) \cup HeadEntry \cup sent /\ nextSeq \in Nat
  BY <1>1, LineFacts DEF EndInv, OrderInv, LineOrder, EntriesConserved
<1>3. Range(fifo)' \subseteq Range(fifo) \cup {s}
  BY <1>1, <1>2, JoinOrder DEF EndInv
<1>4. /\ \A t \in Seqs \ {s} : rank'[t] = rank[t]
      /\ \A t \in {s} : rank[t] = 0 /\ rank'[t] > joins /\ t \in pending'
  BY <1>1, <1>2
<1>5. /\ \A t \in Seqs : ~(nextSeq <= t /\ t < nextSeq')
      /\ task \notin Busy \cup {"gone"} /\ task' \notin Busy \cup {"gone"} /\ nextSeq <= nextSeq'
  BY <1>1, <1>2 DEF Busy, Seqs
<1>6. {s} \in SUBSET Seqs /\ {s} \cap todo = {} /\ \A t, u \in {s} : t = u
  BY <1>2
<1>7. \A t \in Seqs : t < nextSeq => write'[t] = write[t] /\ (t \in pending' <=> t \in pending)
  BY <1>1
<1> QED BY <1>1, <1>3, <1>4, <1>5, <1>6, <1>7, Grow

\* The finish of a completed call joins, and its marker behind it.
LEMMA GateFollowEnds ==
  ASSUME EndInv, OrderInv', NEW s \in held, GateStored(s), ~stopped, follow[s] # NoWrite
  PROVE  EndInv'
<1> DEFINE n == nextSeq
<1>1. /\ fifo' = fifo \o <<n, s>> /\ task = "select" /\ task' = "held" /\ n < MaxWrites
      /\ rank' = [rank EXCEPT ![n] = joins + 1, ![s] = joins + 2]
      /\ nextSeq' = n + 1 /\ pending' = pending \cup {n}
      /\ write' = [write EXCEPT ![n] = follow[s]] /\ follow' = [follow EXCEPT ![n] = NoWrite]
      /\ UNCHANGED <<stopped, ended, report, head, after, todo,
                     outcome, sent, applied, waiter>>
  BY DEF GateStored, jobsVars, entries, Register, PushBack
<1>2. /\ n \in Seqs /\ n \in Nat /\ n # 0 /\ rank[n] = 0 /\ n \notin todo /\ n \notin pending
      /\ write \in [Seqs -> Write \cup {NoWrite}] /\ follow \in [Seqs -> Write \cup {NoWrite}]
      /\ rank \in [Seqs -> Nat] /\ joins \in Nat /\ 0 \in Seqs
  BY <1>1, NewSeq
<1>3. s \in Seqs /\ rank[s] = 0 /\ s \in pending /\ todo = {} /\ s # n
  BY <1>1, <1>2, LineFacts DEF EndInv, OrderInv, LineOrder, EntriesConserved
<1>4. Range(fifo)' \subseteq Range(fifo) \cup {n, s}
  <2>1. fifo \in Seq(Seqs)
    BY LineFacts DEF EndInv
  <2>2. /\ Len(fifo) \in Nat /\ DOMAIN fifo = 1 .. Len(fifo)
        /\ DOMAIN fifo' = 1 .. (Len(fifo) + 2)
        /\ \A i \in 1 .. Len(fifo) : fifo'[i] = fifo[i]
        /\ fifo'[Len(fifo) + 1] = n /\ fifo'[Len(fifo) + 2] = s
    BY <1>1, <1>2, <1>3, <2>1, PushTwo
  <2>3. \A i \in DOMAIN fifo' : i \in DOMAIN fifo \/ i \in {Len(fifo) + 1, Len(fifo) + 2}
    BY <2>2
  <2>4. \A i \in DOMAIN fifo' : fifo'[i] \in Range(fifo) \cup {n, s}
    BY <2>2, <2>3 DEF Range
  <2> QED BY <2>4 DEF Range
<1>5. /\ \A t \in Seqs \ {n, s} : rank'[t] = rank[t]
      /\ \A t \in {n, s} : rank[t] = 0 /\ rank'[t] > joins /\ t \in pending'
      /\ \A t, u \in {n, s} : rank'[t] = rank'[u] => t = u
  BY <1>1, <1>2, <1>3
<1>6. follow[s] \in Write
  BY <1>2, <1>3
<1>7. /\ \A t \in Seqs : t < nextSeq => write'[t] = write[t] /\ (t \in pending' <=> t \in pending)
      /\ \A t \in Seqs : nextSeq <= t /\ t < nextSeq' => t = n /\ write'[t] \in Write
      /\ follow'[0] = follow[0] /\ nextSeq <= nextSeq'
  BY <1>1, <1>2, <1>6 DEF Seqs
<1>8. task \notin Busy \cup {"gone"} /\ task' \notin Busy \cup {"gone"}
  BY <1>1 DEF Busy
<1>9. {n, s} \in SUBSET Seqs /\ {n, s} \cap todo = {}
  BY <1>2, <1>3
<1> HIDE DEF n
<1>10. \A t \in Seqs : nextSeq <= t /\ t < nextSeq' =>
         write'[t] \in Write /\ (t \in {n, s} \/ OwnKey(write'[t]) = {})
  BY <1>7
<1> QED BY <1>1, <1>4, <1>5, <1>7, <1>8, <1>9, <1>10, Grow

-----------------------------------------------------------------------------
(* Steps of the task that take an entry out of its place                   *)

\* Nothing is below the front of the line when nothing is attempted or completed.
LEMMA FrontServed ==
  ASSUME EndInv, ~Dropping, todo = {}, head = NoSeq,
         NEW h \in Range(fifo), \A t \in Range(fifo) : rank[h] <= rank[t],
         Blocked(write[h], ended) = {}
  PROVE  Served(h)
<1>1. h \in Seqs /\ h \in pending /\ rank[h] > 0 /\ rank \in [Seqs -> Nat]
  BY LineFacts DEF EndInv, OrderInv, LineOrder, EntriesConserved
<1>2. \A t \in Seqs : 0 < rank[t] /\ rank[t] < rank[h] => t \notin pending
  <2>1. HeadEntry = {} /\ Uncommitted = {}
    BY DEF HeadEntry, Uncommitted
  <2>2. \A t \in Range(fifo) : ~(rank[t] < rank[h])
    BY <1>1, LineFacts DEF EndInv
  <2>3. \A t \in newHeld \cup held : ~(0 < rank[t])
    BY DEF EndInv, OrderInv, LineOrder
  <2> QED BY <2>1, <2>2, <2>3 DEF EndInv, OrderInv, EntriesConserved
<1> SUFFICES ASSUME NEW k \in DependsOn(write[h]), NEW t \in Earlier(k, h),
                    \A u \in Earlier(k, h) : rank[u] <= rank[t]
             PROVE  report[t] = "Delivered"
  BY DEF Served
<1>3. t \in Seqs /\ 0 < rank[t] /\ rank[t] < rank[h] /\ k \in OwnKey(write[t]) /\ t \notin pending
  BY <1>2 DEF Earlier
<1>4. k \in DepKey
  <2>1. t < nextSeq
    BY <1>1, <1>3, LineFacts DEF EndInv, OrderInv, LineOrder, Seqs
  <2> QED BY <1>3, <2>1, OwnKeyType DEF EndInv, EntryKept
<1>5. t \in Closed(k)
  BY <1>3 DEF Closed, Joined
<1>6. \A u \in Closed(k) : rank[u] <= rank[t]
  <2>1. \A u \in Closed(k) : rank[u] < rank[h]
    BY <1>1 DEF EndInv, LineEnds, Closed, Joined
  <2>2. \A u \in Closed(k) : u \in Earlier(k, h)
    BY <2>1 DEF Closed, Joined, Earlier
  <2> QED BY <2>2
<1>7. ended[k] = "Delivered"
  <2>1. RemovedDeps(write[h], ended) = {}
    BY DEF Blocked
  <2>2. ended[k] \notin Removals
    BY <2>1 DEF RemovedDeps
  <2>3. ended[k] # "None"
    BY <1>4, <1>5 DEF EndInv, EndedTrue
  <2>4. ended[k] \in Results \cup {"None"}
    BY <1>4 DEF EndInv, OrderInv, TypeInv, TypeOK, StateTypes
  <2> QED BY <2>2, <2>3, <2>4 DEF Results
<1> QED BY <1>4, <1>5, <1>6, <1>7 DEF EndInv, EndedTrue

\* The first of the fifo becomes the head, or ends because of its dependencies.
LEMMA TakeHeadEnds ==
  ASSUME EndInv, OrderInv', TakeHead
  PROVE  EndInv'
<1>1. /\ task = "head"
      /\ UNCHANGED <<pending, nextSeq, rank, write, follow, report, ended, waiter, sent, applied,
                     stopped>>
  BY DEF TakeHead, entries, jobsVars, order
<1>2. ~Dropping /\ todo = {}
  BY <1>1 DEF EndInv, TodoKept, OrderInv, LineOrder, Busy
<1>3. CASE head # NoSeq \/ stopped \/ fifo = <<>>
  <2>1. task' = "select" /\ UNCHANGED <<fifo, head, todo, outcome, after>>
    BY <1>3 DEF TakeHead
  <2>2. task \notin Busy \cup {"gone"} /\ task' \notin Busy \cup {"gone"}
    BY <1>1, <2>1 DEF Busy
  <2>3. TodoKept'
    BY <1>1, <2>1, <2>2, SameTodo
  <2>4. HeadEntry' = HeadEntry
    BY <2>1 DEF HeadEntry
  <2> QED BY <1>1, <1>2, <2>3, <2>4, SameEntries
<1>4. CASE head = NoSeq /\ ~stopped /\ fifo # <<>>
  <2> DEFINE h == Head(fifo)
  <2>1. fifo' = Tail(fifo)
    BY <1>4 DEF TakeHead
  <2>2. /\ h \in Seqs /\ Range(fifo) = Range(Tail(fifo)) \cup {h}
        /\ \A t \in Range(Tail(fifo)) : rank[h] < rank[t]
    BY <1>4, LineFacts, LeaveLine DEF EndInv
  <2>3. Range(fifo)' = Range(Tail(fifo)) /\ h \in Range(fifo) /\ h \in pending
    BY <2>1, <2>2 DEF Range, EndInv, OrderInv, EntriesConserved
  <2>4. HeadEntry = {} /\ sent \cap pending = {}
    BY <1>2, <1>4 DEF HeadEntry, EndInv, TodoKept
  <2>5. h < nextSeq
    BY <2>3 DEF EndInv, OrderInv, LineOrder
  <2> HIDE DEF h
  <2>6. CASE /\ Blocked(write[h], ended) = {} /\ head' = h /\ task' = "select"
             /\ UNCHANGED <<todo, outcome, after>>
    <3>1. \A t \in Range(fifo) : rank[h] <= rank[t]
      BY <2>2, LineFacts DEF EndInv
    <3>2. Served(h)
      BY <1>2, <1>4, <2>3, <2>6, <3>1, FrontServed
    <3>3. TodoKept'
      BY <1>1, <1>2, <2>4, <2>6 DEF TodoKept, Dropping
    <3>4. HeadEntry' \subseteq {h}
      BY <2>6 DEF HeadEntry
    <3> QED BY <1>1, <1>2, <3>2, <3>3, <3>4, SameEntries
  <2>7. ASSUME NEW r \in Blocked(write[h], ended), Complete({h}, r, "head"), head' = head
        PROVE  EndInv'
    <3>1. r \in {"Refused", "DependsOnRemoved"}
      BY DEF Blocked
    <3>2. todo' = {h} /\ outcome' = r /\ after' = "head" /\ task' = "report"
      BY <2>7 DEF Complete
    <3>3. h \notin sent
      BY <2>3, <2>4
    <3>4. TodoKept'
      BY <1>1, <1>4, <2>2, <2>3, <2>4, <2>5, <2>7, <3>1, <3>2, <3>3 DEF TodoKept, Dropping
    <3>5. HeadEntry' = HeadEntry
      BY <2>7 DEF HeadEntry
    <3> QED BY <1>1, <1>2, <3>4, <3>5, SameEntries
  <2> QED BY <1>4, <2>6, <2>7 DEF TakeHead, h
<1> QED BY <1>3, <1>4

\* A held marker is completed: its gate dropped, or the queue has stopped.
LEMMA GateCompletedEnds ==
  ASSUME EndInv, OrderInv', NEW s \in held, task = "select", todo' = {s}, task' = "report",
         after' = "held", outcome' \in {"LeftUnsent", "DependsOnRemoved"},
         UNCHANGED <<fifo, pending, nextSeq, rank, write, follow, report, ended, waiter, head,
                     sent, applied, stopped>>
  PROVE  EndInv'
<1>1. ~Dropping /\ todo = {}
  BY DEF EndInv, TodoKept, OrderInv, LineOrder, Busy
<1>2. s \in Seqs /\ s \in pending /\ s < nextSeq /\ rank[s] = 0 /\ s \notin sent
  BY LineFacts DEF EndInv, OrderInv, LineOrder, EntriesConserved
<1>3. HeadEntry' = HeadEntry /\ sent \cap pending \subseteq HeadEntry
  BY <1>1 DEF HeadEntry, EndInv, TodoKept
<1>4. TodoKept'
  BY <1>2, <1>3 DEF TodoKept, Dropping, Joined
<1> QED BY <1>1, <1>3, <1>4, SameEntries

\* An attempt ends the head: with what jobs answered.
LEMMA EndAttemptEnds ==
  ASSUME EndInv, OrderInv', task = "select", attempt # "none",
         NEW r, EndAttempt(r), r # "DependsOnRemoved", r = "Delivered" => head \in applied,
         UNCHANGED <<fifo, pending, nextSeq, rank, write, follow, report, ended, waiter,
                     sent, applied, stopped>>
  PROVE  EndInv'
<1>1. ~Dropping /\ todo = {}
  BY DEF EndInv, TodoKept, OrderInv, LineOrder, Busy
<1>2. /\ head' = NoSeq /\ todo' = {head} /\ task' = "report" /\ outcome' = r /\ after' = "held"
      /\ head \in Seqs /\ head # NoSeq
  BY QueueAssumption
     DEF EndInv, OrderInv, TypeInv, AttemptHasHead, EndAttempt, Complete, Seqs
<1>3. HeadEntry = {head} /\ HeadEntry' = {} /\ Range(fifo)' = Range(fifo)
  BY <1>2 DEF HeadEntry, Range
<1>4. /\ \A t \in Range(fifo) : rank[head] < rank[t]
      /\ sent \cap pending \subseteq {head} /\ head < nextSeq
  BY <1>1, <1>3 DEF EndInv, OrderInv, LineOrder, TodoKept, EntriesConserved
<1>5. TodoKept'
  BY <1>2, <1>3, <1>4 DEF TodoKept, Dropping
<1> QED BY <1>1, <1>3, <1>5, SameEntries

\* A request leaves for a head whose dependencies were served.
LEMMA SendEnds ==
  ASSUME EndInv, OrderInv', Send
  PROVE  EndInv'
<1>1. /\ task = "select" /\ sent' = sent \cup {head} /\ head \in Seqs
      /\ UNCHANGED <<fifo, pending, nextSeq, rank, write, follow, report, ended, waiter, head,
                     task, after, todo, outcome, applied, stopped>>
  BY DEF Send, state, entries, order, EndInv, OrderInv, TypeInv, AttemptHasHead
<1>2. ~Dropping /\ todo = {}
  BY <1>1 DEF EndInv, TodoKept, OrderInv, LineOrder, Busy
<1>3. HeadEntry' = HeadEntry /\ head \in HeadEntry /\ Range(fifo)' = Range(fifo)
  BY <1>1, QueueAssumption DEF HeadEntry, Seqs, Range
<1>4. TodoKept'
  BY <1>1, <1>2, <1>3 DEF EndInv, TodoKept, Dropping
<1> QED BY <1>1, <1>2, <1>3, <1>4, SameEntries

\* The task ends: the rest is left unsent, which nothing depends on any more.
LEMMA DropTaskEnds ==
  ASSUME EndInv, OrderInv', task \in {"new", "select"}, DropTask
  PROVE  EndInv'
<1>1. /\ todo' = EntriesLeft /\ outcome' = "LeftUnsent" /\ after' = "gone" /\ stopped'
      /\ task' \in {"gone", "report"} /\ head' = NoSeq
      /\ UNCHANGED <<pending, nextSeq, rank, write, follow, report, ended, waiter, sent, applied>>
  BY DEF DropTask, Complete, jobsVars, order, entries
<1>2. ~Dropping /\ todo = {}
  BY DEF EndInv, TodoKept, OrderInv, LineOrder, Busy
<1>3. HeadEntry' = {}
  BY <1>1 DEF HeadEntry
<1>4. \A s \in EntriesLeft : s < nextSeq
  BY DEF EntriesLeft, EndInv, OrderInv, LineOrder, EntriesConserved
<1>5. sent \cap pending \subseteq EntriesLeft
  BY <1>2 DEF EntriesLeft, EndInv, TodoKept
<1>6. TodoKept'
  BY <1>1, <1>3, <1>4, <1>5 DEF TodoKept, Dropping, Busy
<1> QED BY <1>1, <1>2, <1>3, <1>6, SameEntries

-----------------------------------------------------------------------------
(* The completion of an entry                                              *)

\* The result is told to the caller.
LEMMA ReportEnds ==
  ASSUME EndInv, OrderInv', NEW s \in todo, Report(s)
  PROVE  EndInv'
<1>1. /\ task = "report" /\ task' = "commit" /\ report' = [report EXCEPT ![s] = outcome]
      /\ Completing(s)
      /\ UNCHANGED <<fifo, pending, nextSeq, rank, write, follow, ended, waiter, head, after,
                     todo, outcome, sent, applied, stopped>>
  BY DEF Report, state, entries, jobsVars, order
<1>2. s \in Seqs /\ s \in pending /\ report \in [Seqs -> Results \cup {"Open"}]
  BY <1>1, LineFacts DEF EndInv, OrderInv, EntriesConserved, Uncommitted, TypeInv, TypeOK,
     HistoryTypes
<1>3. \A t \in Seqs : t # s => report'[t] = report[t]
  BY <1>1, <1>2
<1>4. \A u \in todo : Completing(u) => u = s
  BY <1>1, LineFacts DEF Completing, EndInv, Seqs
<1>5. HeadEntry' = HeadEntry /\ Range(fifo)' = Range(fifo) /\ \A u : Completing(u)' <=> Completing(u)
  BY <1>1 DEF HeadEntry, Range, Completing
<1>6. TodoKept'
  <2>1. report'[s] = outcome
    BY <1>1, <1>2
  <2> QED BY <1>1, <1>4, <1>5, <2>1 DEF EndInv, TodoKept, Dropping, Joined, Busy
<1>7. EntryKept' /\ LineEnds' /\ DrainKept'
  BY <1>1 DEF EndInv, EntryKept, Joined, LineEnds, DrainKept, Dropping
<1>8. LeftOrDone'
  BY <1>1, <1>2, <1>3 DEF EndInv, LeftOrDone, Joined, Lower
<1>9. EndedTrue'
  <2>1. \A k \in DepKey : Closed(k)' = Closed(k)
    BY <1>1 DEF Closed, Joined
  <2>2. \A k \in DepKey : \A t \in Closed(k) : report'[t] = report[t]
    BY <1>2, <1>3 DEF Closed
  <2> QED BY <1>1, <2>1, <2>2 DEF EndInv, EndedTrue, Dropping
<1>10. AllServed'
  <2> SUFFICES ASSUME NEW x \in HeadEntry \cup sent PROVE Served(x)'
    BY <1>1, <1>5 DEF AllServed
  <2>1. \A k : Earlier(k, x)' = Earlier(k, x)
    BY <1>1 DEF Earlier
  <2>2. \A k : s \notin Earlier(k, x)
    <3>1. CASE x \in sent
      BY <1>2, <3>1 DEF EndInv, OrderInv, SentInOrder, Earlier
    <3>2. CASE x \in HeadEntry
      <4>1. head # NoSeq
        BY <3>2 DEF HeadEntry
      <4>2. ~Joined(s)
        BY <4>1 DEF EndInv, TodoKept
      <4> QED BY <4>2 DEF Earlier, Joined
    <3> QED BY <3>1, <3>2
  <2>3. \A k : \A t \in Earlier(k, x) : report'[t] = report[t]
    BY <1>3, <2>2 DEF Earlier
  <2>4. Served(x)
    BY DEF EndInv, AllServed
  <2> QED BY <1>1, <2>1, <2>3, <2>4 DEF Served
<1> QED BY <1>6, <1>7, <1>8, <1>9, <1>10 DEF EndInv

\* The entry of the line that is completed is its lowest one, unless the task is dropped.
LEMMA CommitLowest ==
  ASSUME EndInv, NEW s \in todo, Completing(s), task = "commit", ~Dropping, Joined(s)
  PROVE  \A t \in pending \ {s} : Joined(t) => rank[s] < rank[t]
<1>1. head = NoSeq /\ (\A t \in Range(fifo) : rank[s] < rank[t]) /\ \A t \in todo : t = s
  BY DEF EndInv, TodoKept
<1>2. HeadEntry = {} /\ Uncommitted \subseteq {s}
  BY <1>1 DEF HeadEntry, Uncommitted
<1>3. \A t \in newHeld \cup held : ~Joined(t)
  BY DEF EndInv, OrderInv, LineOrder, Joined
<1> QED BY <1>1, <1>2, <1>3 DEF EndInv, OrderInv, EntriesConserved

\* The entry leaves the pending ones, and its key ends.
LEMMA CommitEnds ==
  ASSUME EndInv, OrderInv', NEW s \in todo, Commit(s)
  PROVE  EndInv'
<1>1. /\ task = "commit" /\ task' = "notify" /\ Completing(s) /\ pending' = pending \ {s}
      /\ ended' = [k \in DepKey |-> IF k \in OwnKey(write[s]) THEN outcome ELSE ended[k]]
      /\ UNCHANGED <<fifo, nextSeq, rank, write, follow, report, waiter, head, after,
                     todo, outcome, sent, applied, stopped>>
  BY DEF Commit, entries, jobsVars, order
<1>2. /\ s \in Seqs /\ s \in pending /\ report[s] = outcome /\ s < nextSeq
      /\ outcome \in Results /\ rank \in [Seqs -> Nat] /\ pending \subseteq Seqs
  BY <1>1, LineFacts DEF EndInv, OrderInv, EntriesConserved, Uncommitted, TodoKept, TypeInv,
     TypeOK, TaskTypes
<1>3. HeadEntry' = HeadEntry /\ Range(fifo)' = Range(fifo) /\ \A u : Completing(u)' <=> Completing(u)
  BY <1>1 DEF HeadEntry, Range, Completing
<1>4. \A u \in todo : Completing(u) => u = s
  BY <1>1, LineFacts DEF Completing, EndInv, Seqs
<1>5. TodoKept'
  BY <1>1, <1>3, <1>4 DEF EndInv, TodoKept, Dropping, Joined, Busy
<1>6. EntryKept' /\ DrainKept'
  BY <1>1 DEF EndInv, EntryKept, Joined, DrainKept
<1>7. ~Dropping /\ Joined(s) => \A t \in pending' : Joined(t) => rank[s] < rank[t]
  BY <1>1, CommitLowest
<1>8. LineEnds'
  BY <1>1, <1>7 DEF EndInv, LineEnds, Joined, Dropping
<1>9. LeftOrDone'
  <2> SUFFICES ASSUME NEW x \in Seqs, Joined(x), x \notin pending', report[x] # "LeftUnsent",
                      NEW t \in Seqs, Lower(t, x), t \in pending'
               PROVE  FALSE
    BY <1>1 DEF LeftOrDone, Joined, Lower
  <2>1. CASE x = s
    <3>1. ~Dropping
      BY <1>2, <2>1 DEF EndInv, TodoKept
    <3>2. rank[s] < rank[t] /\ rank[t] < rank[s]
      BY <1>7, <2>1, <3>1 DEF Joined, Lower
    <3> QED BY <1>2, <3>2
  <2>2. CASE x # s
    BY <1>1, <2>2 DEF EndInv, LeftOrDone
  <2> QED BY <2>1, <2>2
<1>10. EndedTrue'
  <2> SUFFICES ASSUME ~Dropping, NEW k \in DepKey, NEW t \in Closed(k)'
               PROVE  /\ ended'[k] # "None"
                      /\ ended'[k] = "Delivered" /\ (\A u \in Closed(k)' : rank[u] <= rank[t]) =>
                           report[t] = "Delivered"
    BY <1>1 DEF EndedTrue, Dropping
  <2>1. CASE k \in OwnKey(write[s])
    <3>1. ended'[k] = outcome /\ outcome # "None"
      BY <1>1, <1>2, <2>1 DEF Results, Removals
    <3>2. rank[s] > 0 /\ s \in Closed(k)'
      <4>1. rank[s] # 0
        BY <1>2, <2>1 DEF EndInv, EntryKept
      <4> QED BY <1>1, <1>2, <2>1, <4>1 DEF Closed, Joined
    <3>3. t # s => rank[t] < rank[s]
      <4>1. t # s => t \in Seqs /\ Joined(t) /\ t \notin pending
        BY <1>1 DEF Closed, Joined
      <4> QED BY <1>2, <3>2, <4>1 DEF EndInv, LineEnds, Joined
    <3>4. (\A u \in Closed(k)' : rank[u] <= rank[t]) => t = s
      <4>1. t \in Seqs
        BY DEF Closed
      <4> QED BY <1>2, <3>2, <3>3, <4>1
    <3> QED BY <1>2, <3>1, <3>4
  <2>2. CASE k \notin OwnKey(write[s])
    <3>1. Closed(k)' = Closed(k)
      BY <1>1, <2>2 DEF Closed, Joined
    <3>2. ended'[k] = ended[k]
      BY <1>1, <2>2
    <3> QED BY <3>1, <3>2 DEF EndInv, EndedTrue
  <2> QED BY <2>1, <2>2
<1>11. AllServed'
  <2>1. \A x : Served(x)' <=> Served(x)
    BY <1>1 DEF Served, Earlier
  <2> QED BY <1>1, <1>3, <2>1 DEF EndInv, AllServed
<1> QED BY <1>5, <1>6, <1>8, <1>9, <1>10, <1>11 DEF EndInv

\* The waiters are told.
LEMMA NotifyEnds ==
  ASSUME EndInv, OrderInv', NEW s \in todo, Notify(s)
  PROVE  EndInv'
<1>1. /\ task = "notify" /\ Completing(s) /\ todo' = todo \ {s}
      /\ task' = (IF todo = {s} THEN after ELSE "report") /\ after \in {"held", "head", "gone"}
      /\ UNCHANGED <<fifo, pending, nextSeq, rank, write, follow, report, ended, waiter, head,
                     after, outcome, sent, applied, stopped>>
  BY DEF Notify, state, entries, jobsVars, order, EndInv, OrderInv, TypeInv, TypeOK, TaskTypes
<1>2. HeadEntry' = HeadEntry /\ Range(fifo)' = Range(fifo)
  BY <1>1 DEF HeadEntry, Range
<1>3. s \notin pending
  BY <1>1 DEF EndInv, TodoKept
<1>4. task' \notin {"commit", "notify"} /\ (Dropping => task' \in Busy \cup {"gone"})
  BY <1>1 DEF Dropping, Busy
<1>5. TodoKept'
  BY <1>1, <1>2, <1>3, <1>4 DEF EndInv, TodoKept, Dropping, Joined
<1> QED BY <1>1, <1>2, <1>5, SameEntries DEF Dropping

-----------------------------------------------------------------------------
\* The first state: nothing has ended.
LEMMA InitEnds == Init => EndInv
<1> SUFFICES ASSUME Init PROVE EndInv
  OBVIOUS
<1>1. OrderInv
  BY InitOrder
<1>2. 0 \in Seqs /\ Seqs \subseteq Nat /\ Started \in Write
  BY QueueAssumption DEF Seqs, Started, W, Write, WriteKind, AgentIds, JobIds
<1>3. \A s \in Seqs : rank[s] = IF s = 0 THEN 1 ELSE 0
  BY DEF Init
<1>4. \A s \in Seqs : s < nextSeq => s = 0
  BY <1>2 DEF Init
<1>5. EntryKept
  BY <1>2, <1>3, <1>4 DEF Init, EntryKept, Joined
<1>6. TodoKept
  BY DEF Init, TodoKept, Dropping
<1>7. LineEnds /\ LeftOrDone
  BY <1>2, <1>3 DEF Init, LineEnds, LeftOrDone, Joined, Lower
<1>8. EndedTrue
  <2>1. \A k : Closed(k) = {}
    BY <1>3 DEF Init, Closed, Joined
  <2> QED BY <2>1 DEF EndedTrue
<1>9. AllServed /\ DrainKept
  BY DEF Init, AllServed, HeadEntry, DrainKept
<1> QED BY <1>1, <1>5, <1>6, <1>7, <1>8, <1>9 DEF EndInv

\* Every step keeps the ends.
LEMMA NextEnds == EndInv /\ [Next]_vars => EndInv'
<1> SUFFICES ASSUME EndInv, [Next]_vars PROVE EndInv'
  OBVIOUS
<1>1. OrderInv'
  BY NextOrder DEF EndInv
<1>2. CASE Callers
  <2>1. CASE \E w \in HandOvers : HandOver(w)
    BY <1>1, <2>1, HandOverEnds
  <2>2. CASE (\E w \in HandOvers : HandOverUnqueued(w)) \/ DropQueue
    BY <1>1, <2>2, RestEnds
  <2>3. CASE \E p \in late : FinishUnqueued(p[1], p[2])
    BY <1>1, <2>3, UnqueuedEnds
  <2>4. CASE \E m \in Markers : Hold(m)
    BY <1>1, <2>4, HoldEnds
  <2>5. ASSUME NEW w \in Waiters,
               \/ DrainedSubscribe(w) \/ DrainedUpto(w) \/ DrainedCheck(w)
               \/ DrainedChanged(w) \/ DrainedAbandoned(w)
        PROVE  EndInv'
    BY <1>1, <2>5, DrainedEnds
  <2> QED BY <1>2, <2>1, <2>2, <2>3, <2>4, <2>5 DEF Callers
<1>3. CASE TakeNewHeld \/ SelectWake \/ (\E s \in sent : JobsApply(s)) \/ UNCHANGED vars
  BY <1>1, <1>3, RestEnds
<1>4. CASE TakeHead
  BY <1>1, <1>4, TakeHeadEnds
<1>5. CASE Gates
  <2>1. PICK s \in held : GateStored(s) \/ GateDropped(s)
    BY <1>5 DEF Gates
  <2>2. CASE GateStored(s) /\ ~stopped
    BY <1>1, <2>2, GateJoinsEnds, GateFollowEnds
  <2>3. CASE GateDropped(s) \/ (GateStored(s) /\ stopped)
    <3>1. /\ task = "select" /\ todo' = {s} /\ task' = "report" /\ after' = "held"
          /\ outcome' \in {"LeftUnsent", "DependsOnRemoved"}
          /\ UNCHANGED <<fifo, pending, nextSeq, rank, write, follow, report, ended, waiter,
                         head, sent, applied, stopped>>
      BY <2>3 DEF GateDropped, GateStored, Complete, state, jobsVars, entries, order
    <3> QED BY <1>1, <3>1, GateCompletedEnds
  <2> QED BY <2>1, <2>2, <2>3
<1>6. CASE Attempts
  <2>1. CASE Send
    BY <1>1, <2>1, SendEnds
  <2>2. CASE AttemptDelivered
    BY <1>1, <2>2, EndAttemptEnds
       DEF AttemptDelivered, HeardOk, Heard, state, entries, jobsVars, order
  <2>3. CASE AttemptAgain \/ Resend
    BY <1>1, <2>3, RestEnds
  <2>4. CASE AttemptFinal
    <3>1. PICK e \in AttemptErrors : EndAttempt(FinalRemoval(e))
      BY <2>4 DEF AttemptFinal
    <3>2. FinalRemoval(e) \in {"Refused", "Failed"}
      BY DEF FinalRemoval
    <3>3. attempt # "none"
      BY <3>1 DEF AttemptErrors, Heard
    <3>4. /\ task = "select"
          /\ UNCHANGED <<fifo, pending, nextSeq, rank, write, follow, report, ended, waiter,
                         sent, applied, stopped>>
      BY <2>4 DEF AttemptFinal, state, entries, jobsVars, order
    <3> QED BY <1>1, <3>1, <3>2, <3>3, <3>4, EndAttemptEnds
  <2> QED BY <1>6, <2>1, <2>2, <2>3, <2>4 DEF Attempts
<1>7. CASE Completion
  BY <1>1, <1>7, ReportEnds, CommitEnds, NotifyEnds DEF Completion
<1>8. CASE SelectStop \/ RuntimeStops
  BY <1>1, <1>8, DropTaskEnds DEF SelectStop, RuntimeStops
<1> QED BY <1>2, <1>3, <1>4, <1>5, <1>6, <1>7, <1>8 DEF Next

\* The invariant of the ends of the queue: where the entries are, in which order the line
\* ends, and what is known of the last result of each key.
THEOREM EndInvariant == Spec => []EndInv
  BY InitEnds, NextEnds, PTL DEF Spec

\* blocked works: a request leaves only for a write whose dependencies, as far as they
\* joined the line before it, ended delivered, the last one of each key.
THEOREM DependenciesFirst == Spec => []DependencyRespected
<1>1. EndInv => DependencyRespected
  BY DEF EndInv, AllServed, Served, DependencyRespected
<1> QED BY <1>1, EndInvariant, PTL

\* drained() covers what was handed over before it, the finish in front of a marker too.
THEOREM DrainedIsTrue == Spec => []DrainedCovers
<1>1. EndInv => DrainedCovers
  <2> SUFFICES ASSUME EndInv, NEW w \in Waiters, waiter[w].at = "returned",
                      NEW s \in Seqs, s < waiter[w].upto
               PROVE  /\ s \notin pending
                      /\ follow[s] # NoWrite /\ rank[s] > 0 /\ report[s] # "LeftUnsent" =>
                           \A t \in Seqs : rank[t] = rank[s] - 1 => t \notin pending
    BY DEF DrainedCovers
  <2>1. s \notin pending
    BY DEF EndInv, DrainKept
  <2>2. ASSUME follow[s] # NoWrite, rank[s] > 0, report[s] # "LeftUnsent",
               NEW t \in Seqs, rank[t] = rank[s] - 1
        PROVE  t \notin pending
    <3>1. rank[s] \in Nat /\ rank[t] \in Nat /\ 0 \in Seqs
      BY LineFacts, QueueAssumption DEF EndInv, Seqs
    <3>2. rank[s] # 1
      <4>1. rank[s] = 1 => s = 0
        BY <2>2, <3>1 DEF EndInv, EntryKept, Joined
      <4> QED BY <2>2, <4>1 DEF EndInv, EntryKept
    <3>3. Lower(t, s)
      BY <2>2, <3>1, <3>2 DEF Lower
    <3> QED BY <2>1, <2>2, <3>3 DEF EndInv, LeftOrDone, Joined
  <2> QED BY <2>1, <2>2
<1> QED BY <1>1, EndInvariant, PTL

-----------------------------------------------------------------------------
(* The queue implements its ledger: every step is a step of the ledger or  *)
(* leaves the ledger alone.                                                *)

\* The status that the ledger sees.
LEMMA StatusOf ==
  /\ LedgerStatus = [s \in Seqs |-> LedgerStatus[s]]
  /\ \A s \in Seqs : LedgerStatus[s] = IF s >= nextSeq THEN "absent"
                                       ELSE IF s \in pending THEN "waiting" ELSE report[s]
  BY DEF LedgerStatus

\* An entry that is neither new nor pending is over.
LEMMA OverOf ==
  ASSUME EndInv, NEW t \in Seqs, rank[t] > 0, t \notin pending
  PROVE  Ledger!Over(t)
<1>1. t < nextSeq /\ ~(t >= nextSeq)
  BY LineFacts DEF EndInv, OrderInv, LineOrder, Seqs
<1>2. report[t] \notin {"absent", "waiting"}
  BY DEF EndInv, OrderInv, TypeInv, TypeOK, HistoryTypes, Results, Removals
<1> QED BY <1>1, <1>2, StatusOf DEF Ledger!Over

\* The first state of the queue is one of the ledger.
LEMMA LedgerInit == Init => Ledger!Init
<1> SUFFICES ASSUME Init PROVE Ledger!Init
  OBVIOUS
<1>1. \A s \in Seqs : s >= nextSeq <=> s # 0
  BY DEF Init, Seqs
<1>2. LedgerStatus = [s \in Seqs |-> IF s = 0 THEN "waiting" ELSE "absent"]
  BY <1>1 DEF Init, LedgerStatus
<1>3. (~stopped) = TRUE
  BY Zenon DEF Init
<1> QED BY <1>2, <1>3 DEF Init, Ledger!Init, Ledger!Seqs, Seqs

\* The ledger sees nothing of a report of an entry that is pending.
LEMMA SameStatus ==
  ASSUME UNCHANGED <<nextSeq, pending>>, \A s \in Seqs \ pending : report'[s] = report[s]
  PROVE  LedgerStatus' = LedgerStatus
  BY DEF LedgerStatus

\* Steps that only the queue and its callers see.
LEMMA SameLedger ==
  ASSUME UNCHANGED <<nextSeq, pending, rank, joins, sent, applied, stopped>>,
         \A s \in Seqs \ pending : report'[s] = report[s]
  PROVE  UNCHANGED Ledger!vars
<1>1. LedgerStatus' = LedgerStatus
  BY SameStatus
<1>2. (~stopped)' = (~stopped)
  BY Zenon
<1> QED BY <1>1, <1>2 DEF Ledger!vars

\* The steps that the ledger does not see.
LEMMA HiddenSteps ==
  ASSUME EndInv,
         \/ \E w \in HandOvers : HandOverUnqueued(w)
         \/ \E p \in late : FinishUnqueued(p[1], p[2])
         \/ \E w \in Waiters : \/ DrainedSubscribe(w) \/ DrainedUpto(w) \/ DrainedCheck(w)
                               \/ DrainedChanged(w) \/ DrainedAbandoned(w)
         \/ TakeNewHeld \/ TakeHead \/ SelectWake
         \/ AttemptDelivered \/ AttemptAgain \/ AttemptFinal \/ Resend
         \/ \E s \in held : GateDropped(s) \/ (GateStored(s) /\ stopped)
         \/ \E s \in todo : Report(s) \/ Notify(s)
         \/ UNCHANGED vars
  PROVE  UNCHANGED Ledger!vars
<1> USE DEF state, entries, jobsVars, order
<1>1. CASE \E s \in todo : Report(s)
  <2>1. PICK s \in todo : Report(s)
    BY <1>1
  <2>2. s \in pending /\ s \in Seqs
    BY <2>1, LineFacts DEF Report, EndInv, OrderInv, EntriesConserved, Uncommitted
  <2>3. \A t \in Seqs \ pending : report'[t] = report[t]
    BY <2>1, <2>2 DEF Report, EndInv, OrderInv, TypeInv, TypeOK, HistoryTypes
  <2> QED BY <2>1, <2>3, SameLedger DEF Report
<1>2. CASE \/ \E w \in HandOvers : HandOverUnqueued(w)
           \/ \E p \in late : FinishUnqueued(p[1], p[2])
           \/ \E w \in Waiters : \/ DrainedSubscribe(w) \/ DrainedUpto(w) \/ DrainedCheck(w)
                                 \/ DrainedChanged(w) \/ DrainedAbandoned(w)
  BY <1>2, SameLedger DEF HandOverUnqueued, FinishUnqueued, DrainedSubscribe, DrainedUpto,
     DrainedCheck, DrainedChanged, DrainedAbandoned, Move
<1>3. CASE TakeNewHeld \/ TakeHead \/ SelectWake \/ (\E s \in todo : Notify(s)) \/ UNCHANGED vars
  BY <1>3, SameLedger DEF TakeNewHeld, TakeHead, SelectWake, Notify, vars
<1>4. CASE AttemptDelivered \/ AttemptAgain \/ AttemptFinal \/ Resend
  BY <1>4, SameLedger DEF AttemptDelivered, AttemptAgain, AttemptFinal, Resend
<1>5. CASE \E s \in held : GateDropped(s) \/ (GateStored(s) /\ stopped)
  BY <1>5, SameLedger DEF GateDropped, GateStored
<1> QED BY <1>1, <1>2, <1>3, <1>4, <1>5

\* What a new seq n is to the ledger.
LEMMA NewStatus ==
  ASSUME EndInv, nextSeq < MaxWrites, nextSeq' = nextSeq + 1,
         pending' = pending \cup {nextSeq}, UNCHANGED report
  PROVE  /\ LedgerStatus[nextSeq] = "absent"
         /\ LedgerStatus' = [LedgerStatus EXCEPT ![nextSeq] = "waiting"]
<1>1. nextSeq \in Seqs /\ nextSeq \in Nat
  BY NewSeq
<1>2. LedgerStatus[nextSeq] = "absent"
  BY <1>1, StatusOf
<1>3. \A s \in Seqs : s # nextSeq => (s >= nextSeq' <=> s >= nextSeq)
  BY <1>1 DEF Seqs
<1>4. LedgerStatus' = [LedgerStatus EXCEPT ![nextSeq] = "waiting"]
  <2>1. \A s \in Seqs : s # nextSeq => (s \in pending' <=> s \in pending)
    OBVIOUS
  <2>2. ~(nextSeq >= nextSeq') /\ nextSeq \in pending'
    BY <1>1
  <2>3. \A s \in Seqs : (IF s >= nextSeq' THEN "absent"
                          ELSE IF s \in pending' THEN "waiting" ELSE report'[s]) =
                         IF s = nextSeq THEN "waiting" ELSE LedgerStatus[s]
    BY <1>3, <2>1, <2>2, StatusOf
  <2> QED BY <1>1, <2>3 DEF LedgerStatus
<1> QED BY <1>2, <1>4

\* A write that is taken, or a marker that is held, is accepted by the ledger.
LEMMA AcceptSteps ==
  ASSUME EndInv, (\E w \in HandOvers : HandOver(w)) \/ (\E m \in Markers : Hold(m))
  PROVE  Ledger!Next
<1> DEFINE n == nextSeq
<1>1. n < MaxWrites
  BY ReservedNat, QueueAssumption
     DEF EndInv, OrderInv, TypeInv, TypeOK, HandOver, Hold, StateTypes
<1>2. n \in Seqs /\ ~stopped /\ (~stopped)' = (~stopped)
  <2>1. n \in Seqs
    BY <1>1, NewSeq
  <2>2. ~stopped /\ stopped' = stopped
    BY DEF HandOver, Hold
  <2> QED BY <2>1, <2>2, Zenon
<1>3. nextSeq' = n + 1 /\ pending' = pending \cup {n} /\ UNCHANGED <<report, sent, applied>>
  BY DEF HandOver, Hold, Register, jobsVars
<1>4. LedgerStatus[n] = "absent" /\ LedgerStatus' = [LedgerStatus EXCEPT ![n] = "waiting"]
  BY <1>1, <1>3, NewStatus
<1>5. Ledger!Accept(n)
  BY <1>2, <1>4 DEF Ledger!Accept
<1>6. Ledger!AcceptInLine(n) \/ Ledger!AcceptHeld(n)
  <2>1. CASE \E w \in HandOvers : HandOver(w)
    <3>1. rank' = [rank EXCEPT ![n] = joins + 1] /\ joins' = joins + 1
      BY <2>1 DEF HandOver
    <3> QED BY <1>2, <1>3, <1>5, <3>1 DEF Ledger!AcceptInLine
  <2>2. CASE \E m \in Markers : Hold(m)
    <3>1. UNCHANGED <<rank, joins>>
      BY <2>2 DEF Hold, order
    <3> QED BY <1>2, <1>3, <1>5, <3>1 DEF Ledger!AcceptHeld
  <2> QED BY <2>1, <2>2
<1> QED BY <1>2, <1>6 DEF Ledger!Next, Ledger!Seqs, Seqs

\* A gate that opens is a join of the ledger.
LEMMA JoinSteps ==
  ASSUME EndInv, NEW s \in held, GateStored(s), ~stopped
  PROVE  Ledger!Next
<1>1. s \in Seqs /\ s \in pending /\ rank[s] = 0 /\ s < nextSeq /\ ~(s >= nextSeq)
  BY LineFacts DEF EndInv, OrderInv, LineOrder, EntriesConserved, Seqs
<1>2. stopped' = stopped /\ UNCHANGED <<report, sent, applied>>
  BY DEF GateStored, jobsVars
<1>3. (~stopped)' = (~stopped)
  BY <1>2, Zenon
<1>4. Ledger!Unjoined(s)
  BY <1>1, StatusOf DEF Ledger!Unjoined
<1>5. CASE follow[s] = NoWrite
  <2>1. /\ rank' = [rank EXCEPT ![s] = joins + 1] /\ joins' = joins + 1
        /\ UNCHANGED <<pending, nextSeq>>
    BY <1>5 DEF GateStored
  <2>2. LedgerStatus' = LedgerStatus
    BY <1>2, <2>1, SameStatus
  <2>3. Ledger!Join(s)
    BY <1>2, <1>3, <1>4, <2>1, <2>2 DEF Ledger!Join
  <2> QED BY <1>1, <2>3 DEF Ledger!Next, Ledger!Seqs, Seqs
<1>6. CASE follow[s] # NoWrite
  <2> DEFINE n == nextSeq
  <2>1. /\ rank' = [rank EXCEPT ![n] = joins + 1, ![s] = joins + 2] /\ joins' = joins + 2
        /\ nextSeq' = n + 1 /\ pending' = pending \cup {n} /\ n < MaxWrites
    BY <1>6 DEF GateStored, Register
  <2>2. LedgerStatus[n] = "absent" /\ LedgerStatus' = [LedgerStatus EXCEPT ![n] = "waiting"]
    BY <1>2, <2>1, NewStatus
  <2>3. Ledger!Accept(n) /\ n \in Seqs
    BY <2>1, <2>2, NewSeq DEF Ledger!Accept
  <2>4. Ledger!JoinBehind(s, n)
    BY <1>2, <1>3, <1>4, <2>1, <2>3 DEF Ledger!JoinBehind
  <2> QED BY <1>1, <2>3, <2>4 DEF Ledger!Next, Ledger!Seqs, Seqs
<1> QED BY <1>5, <1>6

\* A request that leaves is a request of the ledger.
LEMMA RequestStep ==
  ASSUME EndInv, EndInv', Send
  PROVE  Ledger!Next
<1>1. /\ sent' = sent \cup {head} /\ head \in Seqs
      /\ UNCHANGED <<pending, nextSeq, rank, joins, report, applied, stopped>>
  BY DEF Send, state, entries, order, EndInv, OrderInv, TypeInv, AttemptHasHead
<1>2. head \in HeadEntry
  BY <1>1, QueueAssumption DEF HeadEntry, Seqs
<1>3. head \in pending /\ rank[head] > 0 /\ ~(head >= nextSeq)
  BY <1>1, <1>2, LineFacts DEF EndInv, OrderInv, LineOrder, EntriesConserved, Seqs
<1>4. LedgerStatus[head] = "waiting"
  BY <1>1, <1>3, StatusOf
<1>5. \A t \in Seqs : 0 < rank[t] /\ rank[t] < rank[head] => Ledger!Over(t)
  <2>1. \A t \in Seqs : 0 < rank[t] /\ rank[t] < rank[head] => t \notin pending
    BY <1>1 DEF EndInv, OrderInv, SentInOrder
  <2> QED BY <2>1, OverOf
<1>6. LedgerStatus' = LedgerStatus
  BY <1>1, SameStatus
<1>7. (~stopped)' = (~stopped)
  BY <1>1, Zenon
<1>8. Ledger!Request(head)
  BY <1>1, <1>3, <1>4, <1>5, <1>6, <1>7 DEF Ledger!Request, Ledger!Seqs, Seqs
<1> QED BY <1>1, <1>8 DEF Ledger!Next, Ledger!Seqs, Seqs

\* What jobs takes, the ledger applies.
LEMMA ApplyStep ==
  ASSUME EndInv, NEW s \in sent, JobsApply(s)
  PROVE  Ledger!Next
<1>1. /\ applied' = applied \cup {s} /\ s \in Seqs
      /\ UNCHANGED <<pending, nextSeq, rank, joins, report, sent, stopped>>
  BY LineFacts DEF JobsApply, state, order, EndInv
<1>2. LedgerStatus' = LedgerStatus
  BY <1>1, SameStatus
<1>3. (~stopped)' = (~stopped)
  BY <1>1, Zenon
<1>4. Ledger!Apply(s)
  BY <1>1, <1>2, <1>3 DEF Ledger!Apply
<1> QED BY <1>1, <1>4 DEF Ledger!Next, Ledger!Seqs, Seqs

\* A commit is the end of a write in the ledger.
LEMMA EndStep ==
  ASSUME EndInv, NEW s \in todo, Commit(s)
  PROVE  Ledger!Next
<1>1. /\ task = "commit" /\ Completing(s) /\ pending' = pending \ {s}
      /\ UNCHANGED <<nextSeq, rank, joins, report, sent, applied, stopped>>
  BY DEF Commit, jobsVars, order
<1>2. s \in Seqs /\ s \in pending /\ report[s] = outcome /\ s < nextSeq /\ outcome \in Results
  BY <1>1, LineFacts DEF EndInv, OrderInv, EntriesConserved, Uncommitted, TodoKept, TypeInv,
     TypeOK, TaskTypes
<1>3. ~(s >= nextSeq)
  BY <1>2, LineFacts DEF EndInv, Seqs
<1>4. LedgerStatus[s] = "waiting" /\ LedgerStatus' = [LedgerStatus EXCEPT ![s] = outcome]
  BY <1>1, <1>2, <1>3 DEF LedgerStatus
<1>5. (outcome = "Delivered" => s \in applied) /\ (outcome = "DependsOnRemoved" => s \notin sent)
  BY DEF EndInv, TodoKept
<1>6. ~stopped /\ rank[s] > 0 =>
        \A t \in Seqs : 0 < rank[t] /\ rank[t] < rank[s] => Ledger!Over(t)
  <2> SUFFICES ASSUME ~stopped, rank[s] > 0, NEW t \in Seqs, 0 < rank[t], rank[t] < rank[s]
               PROVE  Ledger!Over(t)
    OBVIOUS
  <2>1. ~Dropping
    BY DEF EndInv, TodoKept
  <2>2. rank[t] \in Nat /\ rank[s] \in Nat
    BY <1>2, LineFacts DEF EndInv
  <2>3. t \notin pending
    BY <1>1, <2>1, <2>2, CommitLowest DEF Joined
  <2> QED BY <2>3, OverOf
<1>7. (~stopped)' = (~stopped)
  BY <1>1, Zenon
<1>8. Ledger!End(s, outcome)
  BY <1>1, <1>4, <1>5, <1>6, <1>7 DEF Ledger!End, Ledger!Seqs, Seqs
<1>9. outcome \in Removals \cup {"Delivered"}
  BY <1>2 DEF Results
<1> QED BY <1>2, <1>8, <1>9 DEF Ledger!Next, Ledger!Seqs, Seqs

\* The drop of the queue or of its task closes the ledger.
LEMMA CloseStep ==
  ASSUME DropQueue \/ DropTask
  PROVE  Ledger!Next
<1>1. UNCHANGED <<pending, nextSeq, rank, joins, report, sent, applied>>
  BY DEF DropQueue, DropTask, jobsVars, order
<1>2. LedgerStatus' = LedgerStatus
  BY <1>1, SameStatus
<1>3. (~stopped)' = FALSE
  BY Zenon DEF DropQueue, DropTask
<1>4. Ledger!Close
  BY <1>1, <1>2, <1>3 DEF Ledger!Close
<1> QED BY <1>4 DEF Ledger!Next

\* Every step of the queue is a step of the ledger or hidden from it.
LEMMA LedgerNext == EndInv /\ EndInv' /\ [Next]_vars => [Ledger!Next]_(Ledger!vars)
<1> SUFFICES ASSUME EndInv, EndInv', [Next]_vars PROVE Ledger!Next \/ UNCHANGED Ledger!vars
  OBVIOUS
<1>1. CASE Callers
  BY <1>1, HiddenSteps, AcceptSteps, CloseStep DEF Callers
<1>2. CASE TakeNewHeld \/ TakeHead \/ SelectWake \/ UNCHANGED vars
  BY <1>2, HiddenSteps
<1>3. CASE Gates
  BY <1>3, HiddenSteps, JoinSteps DEF Gates
<1>4. CASE Attempts
  BY <1>4, HiddenSteps, RequestStep DEF Attempts
<1>5. CASE Completion
  BY <1>5, HiddenSteps, EndStep DEF Completion
<1>6. CASE SelectStop \/ RuntimeStops
  BY <1>6, CloseStep DEF SelectStop, RuntimeStops
<1>7. CASE \E s \in sent : JobsApply(s)
  BY <1>7, ApplyStep
<1> QED BY <1>1, <1>2, <1>3, <1>4, <1>5, <1>6, <1>7 DEF Next

\* The queue is what its ledger promises: it takes nothing after its stop, requests and
\* ends in the order of the line, ends each write once, and none as delivered that jobs
\* did not take.
THEOREM QueueIsLedger == Spec => ImplementsLedger
<1>1. Init => Ledger!Init
  BY LedgerInit
<1>2. EndInv /\ EndInv' /\ [Next]_vars => [Ledger!Next]_(Ledger!vars)
  BY LedgerNext
<1> QED BY <1>1, <1>2, EndInvariant, PTL DEF Spec, ImplementsLedger, Ledger!Spec
=============================================================================
