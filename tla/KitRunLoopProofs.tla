-------------------------- MODULE KitRunLoopProofs --------------------------
(***************************************************************************)
(* The run loop of the first kit has no more runs under way than slots and *)
(* none twice, tells the bus the truth about its runs and itself, and      *)
(* knows every order once its feed has caught up: for every set of runs,   *)
(* number of slots and bound.                                              *)
(*                                                                         *)
(* KitInv has a part for each of these: HandKept and SlotsKept say who     *)
(* holds a slot, FactsKept where the facts of a task are and in which      *)
(* order, PresenceKept what the presence entry may say, OrdersKept what    *)
(* the entries still on their way will do to the cancel set.               *)
(***************************************************************************)
EXTENDS KitRunLoop, FiniteSetTheorems, SequenceTheorems, TLAPS

Places   == {"Bind", "Poll", "Select", "Publish", "Finish", "Close", "Flush",
             "Returned"}
Holding  == {"Running", "Returned", "Panicked", "Gone"}
TaskType == [run : RunIds, state : Holding \cup {"Joined", "Aborted"},
             cancelled : BOOLEAN]
HandType == [msg : Messages,
             kind : {"None", "Term", "Ack", "Nak", "Start", "Spawn"}]
SlotType == [inFlight : SUBSET RunIds, draining : BOOLEAN]
Facts    == {"Started", "Step", "End", "Late"}
FactType == [fact : {"Step", "Log", "End", "Late"}, task : Nat]
PresType == [phase : {"Ready", "Draining", "Closed"}, last : {"None", "Fresh", "Due"}]
Entries  == [op : {"Put", "Delete"}, run : RunIds]

LoopTypes ==
    /\ pc \in Places /\ hand \in HandType
    /\ slots \in SlotType
    /\ tasks \in Seq(TaskType) /\ Len(tasks) <= MaxTasks
    /\ aborting \in BOOLEAN
FactTypes ==
    /\ chan \in Seq(FactType)
    /\ status \in [1 .. MaxTasks -> Seq(Facts)]
OrderTypes ==
    /\ cancels \subseteq RunIds
    /\ bucket \in [RunIds -> {"None", "Put", "Delete"}]
    /\ watch \in {"Open", "Ended"} /\ feed \in Seq(Entries)
PresTypes ==
    /\ presence \in PresType
    /\ drain \in BOOLEAN
    /\ faults \in Nat
KitTypes == LoopTypes /\ FactTypes /\ OrderTypes /\ PresTypes

Holds(i) == tasks[i].state \in Holding

\* A trigger is in hand only while it is handled; one that claimed its slot is
\* of a run that no task holds. Runs are aborted when the loop is over.
HandKept ==
    /\ pc = "Publish" <=> hand.kind = "Start"
    /\ hand.kind = "Spawn" => pc = "Finish"
    /\ hand.kind \in {"Start", "Spawn"} =>
          /\ hand.msg \in RunIds /\ Len(tasks) < MaxTasks
          /\ \A i \in DOMAIN tasks : Holds(i) => tasks[i].run # hand.msg
    /\ aborting => pc \in {"Close", "Flush", "Returned"}
    /\ pc = "Bind" => Len(tasks) = 0

\* A slot that is taken has one holder.
SlotsKept ==
    /\ IsFiniteSet(slots.inFlight) /\ Cardinality(slots.inFlight) <= Capacity
    /\ \A i, j \in DOMAIN tasks :
          Holds(i) /\ Holds(j) /\ tasks[i].run = tasks[j].run => i = j
    /\ ~aborting => \A r \in RunIds :
          r \in slots.inFlight <=>
             \/ hand.kind \in {"Start", "Spawn"} /\ hand.msg = r
             \/ \E i \in DOMAIN tasks : Holds(i) /\ tasks[i].run = r

\* The facts of the stream start with the start and do not go back; a task that
\* was not spawned yet has at most starts that were told for nothing.
Ordered(s) ==
    /\ s # <<>> => s[1] = "Started"
    /\ \A k, l \in DOMAIN s : k < l => Rank(s[k]) <= Rank(s[l])
Over(i) == \E k \in DOMAIN status[i] : status[i][k] \in {"End", "Late"}
Behind(i, f) == \A k \in DOMAIN status[i] : Rank(status[i][k]) <= Rank(f)

StreamKept ==
    /\ \A i \in 1 .. MaxTasks : Ordered(status[i])
    /\ \A i \in 1 .. MaxTasks :
          i > Len(tasks) => \A k \in DOMAIN status[i] : status[i][k] = "Started"
    /\ \A i \in DOMAIN tasks : status[i] # <<>>
    /\ hand.kind = "Spawn" => status[Len(tasks) + 1] # <<>>

\* The facts of a task go into the channel in their order, behind what the stream has
\* of it; only a task that is over has its end, or a fact of detached work, on its way.
ChanKept ==
    /\ \A k \in DOMAIN chan : chan[k].task \in DOMAIN tasks
    /\ \A k, l \in DOMAIN chan :
          k < l /\ chan[k].task = chan[l].task /\ ~IsLog(chan[k]) /\ ~IsLog(chan[l])
             => Rank(chan[k].fact) <= Rank(chan[l].fact)
    /\ \A k \in DOMAIN chan : ~IsLog(chan[k]) => Behind(chan[k].task, chan[k].fact)
    /\ \A k \in DOMAIN chan :
          chan[k].fact \in {"End", "Late"} => tasks[chan[k].task].state # "Running"
    /\ \A i \in DOMAIN tasks : tasks[i].state = "Running" => ~Over(i)

EndKept ==
    /\ \A i \in DOMAIN tasks :
          tasks[i].state \in {"Returned", "Joined"} => EndKnown(i)
    /\ pc = "Bind" => clones = {}
    /\ pc = "Returned" => PublisherEnded

FactsKept == StreamKept /\ ChanKept /\ EndKept

Phase == IF drain THEN "Draining" ELSE "Ready"
PresenceKept ==
    /\ pc = "Bind" => presence.last = "None"
    /\ pc \notin {"Flush", "Returned"} => presence.phase = Phase
    /\ pc \in {"Select", "Publish", "Finish", "Close"} => presence.last # "None"
    /\ faults = 0 =>
          /\ pc \notin {"Flush", "Returned"} /\ presence.last # "None" => entry = Phase
          /\ pc \in {"Flush", "Returned"} => entry = "None"

\* While the watch is open the last entry for a run says what the bucket says of
\* it, and the cancel set does when there is none; a token follows the set.
Pending(r) == \E k \in DOMAIN feed : feed[k].run = r
LastFor(k) == \A l \in DOMAIN feed : l > k => feed[l].run # feed[k].run
OrdersKept ==
    /\ IsFiniteSet({r \in RunIds : bucket[r] # "None"})
    /\ watch = "Open" =>
          /\ \A r \in RunIds : Pending(r) \/ (r \in cancels <=> bucket[r] = "Put")
          /\ \A k \in DOMAIN feed : LastFor(k) => feed[k].op = bucket[feed[k].run]
    /\ \A i \in DOMAIN tasks :
          tasks[i].state # "Joined" /\ tasks[i].run \in cancels => tasks[i].cancelled

KitInv == KitTypes /\ HandKept /\ SlotsKept /\ FactsKept /\ PresenceKept /\ OrdersKept

-----------------------------------------------------------------------------
(* What happens to a task                                                  *)

States == Holding \cup {"Joined", "Aborted"}

\* What may happen to the tasks while none is spawned.
SameTasks ==
  /\ tasks' \in Seq(TaskType) /\ Len(tasks') = Len(tasks)
  /\ DOMAIN tasks' = DOMAIN tasks
  /\ \A j \in DOMAIN tasks : tasks'[j].run = tasks[j].run
OnlyState(i, x) ==
  /\ SameTasks
  /\ \A j \in DOMAIN tasks :
        /\ tasks'[j].cancelled = tasks[j].cancelled
        /\ tasks'[j].state = IF j = i THEN x ELSE tasks[j].state

\* A task of which only the state changes.
LEMMA Restated ==
  ASSUME tasks \in Seq(TaskType), NEW i \in DOMAIN tasks, NEW x \in States,
         tasks' = [tasks EXCEPT ![i].state = x]
  PROVE  OnlyState(i, x)
<1> DEFINE t == tasks'
<1> HIDE DEF t
<1>0. t = [tasks EXCEPT ![i].state = x]
  BY DEF t
<1>1. \A j \in DOMAIN tasks : tasks[j] \in TaskType
  BY ElementOfSeq
<1>2. \A y \in TaskType :
        /\ [y EXCEPT !.state = x] \in TaskType
        /\ [y EXCEPT !.state = x].run = y.run
        /\ [y EXCEPT !.state = x].cancelled = y.cancelled
        /\ [y EXCEPT !.state = x].state = x
  BY DEF TaskType, States
<1>3. /\ DOMAIN t = DOMAIN tasks
      /\ \A j \in DOMAIN tasks :
            t[j] = IF j = i THEN [tasks[i] EXCEPT !.state = x] ELSE tasks[j]
  BY <1>0
<1>4. \A j \in DOMAIN tasks : t[j] \in TaskType
  BY <1>1, <1>2, <1>3
<1>5. DOMAIN tasks = 1 .. Len(tasks) /\ Len(tasks) \in Nat
  BY LenProperties
<1>6. t \in [1 .. Len(tasks) -> TaskType]
  BY <1>0, <1>3, <1>4, <1>5
<1>7. t \in Seq(TaskType) /\ Len(t) = Len(tasks)
  BY <1>5, <1>6
<1> QED BY <1>1, <1>2, <1>3, <1>7 DEF OnlyState, SameTasks, t

\* The tokens of a run fire: nothing else of its tasks changes.
LEMMA FiredOnly ==
  ASSUME tasks \in Seq(TaskType), NEW r, NEW t, t = Fired(tasks, r)
  PROVE  /\ t \in Seq(TaskType) /\ Len(t) = Len(tasks) /\ DOMAIN t = DOMAIN tasks
         /\ \A j \in DOMAIN tasks :
               /\ t[j].run = tasks[j].run /\ t[j].state = tasks[j].state
               /\ tasks[j].cancelled \/ (tasks[j].run = r /\ tasks[j].state # "Joined")
                     => t[j].cancelled
<1>1. \A j \in DOMAIN tasks : tasks[j] \in TaskType
  BY ElementOfSeq
<1>2. \A y \in TaskType :
        /\ [y EXCEPT !.cancelled = TRUE] \in TaskType
        /\ [y EXCEPT !.cancelled = TRUE].run = y.run
        /\ [y EXCEPT !.cancelled = TRUE].state = y.state
        /\ [y EXCEPT !.cancelled = TRUE].cancelled = TRUE
  BY DEF TaskType
<1>3. /\ DOMAIN t = DOMAIN tasks
      /\ \A j \in DOMAIN tasks :
            t[j] = IF tasks[j].run = r /\ tasks[j].state # "Joined"
                   THEN [tasks[j] EXCEPT !.cancelled = TRUE] ELSE tasks[j]
  BY DEF Fired
<1>4. \A j \in DOMAIN tasks : t[j] \in TaskType
  BY <1>1, <1>2, <1>3
<1>5. DOMAIN tasks = 1 .. Len(tasks) /\ Len(tasks) \in Nat
  BY LenProperties
<1>6. t \in [1 .. Len(tasks) -> TaskType]
  BY <1>3, <1>4, <1>5 DEF Fired
<1>7. t \in Seq(TaskType) /\ Len(t) = Len(tasks)
  BY <1>5, <1>6
<1> QED BY <1>1, <1>2, <1>3, <1>7

-----------------------------------------------------------------------------
(* The slots                                                               *)

SlotPart == LoopTypes /\ HandKept /\ SlotsKept

\* The loop goes on and who holds a slot stays the same.
Onward ==
  /\ pc' \in Places \ {"Bind"}
  /\ pc \in {"Publish", "Finish"} \/ pc' \in {"Publish", "Finish"} => pc' = pc
  /\ pc' = "Returned" \/ pc # "Returned"
  /\ aborting' => pc' \in {"Close", "Flush", "Returned"}

\* A step that moves no task and no permit keeps who holds the slots.
LEMMA SameHolders ==
  ASSUME SlotPart, SameTasks, UNCHANGED hand,
         slots' \in SlotType, slots'.inFlight = slots.inFlight,
         aborting' \in BOOLEAN, aborting => aborting',
         (pc' = pc /\ UNCHANGED aborting) \/ Onward,
         \A j \in DOMAIN tasks : Holds(j)' => Holds(j),
         aborting' \/ \A j \in DOMAIN tasks : Holds(j)' <=> Holds(j)
  PROVE  SlotPart'
<1>1. LoopTypes'
  BY DEF SlotPart, SameTasks, LoopTypes, Onward
<1>2. HandKept'
  BY DEF SlotPart, SameTasks, LoopTypes, HandKept, Onward, Places
<1>3. SlotsKept'
  BY DEF SlotPart, SameTasks, SlotsKept
<1> QED BY <1>1, <1>2, <1>3 DEF SlotPart

\* Steps in which no slot is claimed or released.
LEMMA SlotsRest ==
  ASSUME SlotPart, OrderTypes,
         \/ Bind \/ BindFails \/ PullerEnds \/ PullerAttached
         \/ Poll \/ Shutdown \/ DrainElapsed \/ Heartbeat
         \/ \E r \in RunIds, op \in {"Put", "Delete"} : Order(r, op)
         \/ WatchEnds \/ CancelEvent \/ CancelReset
         \/ Publish \/ PublishFails
         \/ Close \/ Return \/ ShutdownSignal
         \/ UNCHANGED vars
  PROVE  SlotPart'
<1> USE DEF loopVars, cancelBus, factVars, presVars, Holds
<1>0. tasks \in Seq(TaskType) /\ slots \in SlotType /\ aborting \in BOOLEAN /\ pc \in Places
  BY DEF SlotPart, LoopTypes
<1>1. tasks' = tasks => SameTasks /\ \A j \in DOMAIN tasks : Holds(j)' <=> Holds(j)
  BY <1>0 DEF SameTasks
<1>2. CASE \/ PullerEnds \/ PullerAttached
           \/ \E r \in RunIds, op \in {"Put", "Delete"} : Order(r, op)
           \/ WatchEnds \/ Publish \/ PublishFails \/ ShutdownSignal
           \/ UNCHANGED vars
  <2>1. UNCHANGED <<pc, hand, slots, tasks, aborting>>
    BY <1>2 DEF PullerEnds, PullerAttached, Order, WatchEnds, Publish, PublishFails,
                ShutdownSignal, vars
  <2> QED BY <1>0, <1>1, <2>1, SameHolders
<1>3. CASE Bind \/ BindFails \/ Poll \/ Heartbeat \/ CancelReset \/ Close \/ Return
  <2>1. /\ UNCHANGED <<hand, slots, tasks, aborting>>
        /\ pc \notin {"Publish", "Finish", "Returned"}
        /\ pc' \in {"Poll", "Returned", "Close", "Select", "Flush"}
        /\ pc \in {"Close", "Flush"} => pc' \in {"Flush", "Returned"}
    BY <1>3 DEF Bind, BindFails, Poll, Heartbeat, CancelReset, Close, Return
  <2>2. Onward
    BY <1>0, <2>1 DEF Onward, Places, SlotPart, HandKept
  <2> QED BY <1>0, <1>1, <2>1, <2>2, SameHolders
<1>4. CASE Shutdown \/ DrainElapsed
  <2>1. /\ UNCHANGED <<hand, tasks>> /\ pc = "Select" /\ pc' \in {"Poll", "Close"}
        /\ slots' = slots \/ slots' = [slots EXCEPT !.draining = TRUE]
        /\ aborting' = aborting \/ (aborting' = TRUE /\ pc' = "Close")
    BY <1>4 DEF Shutdown, DrainElapsed
  <2>2. slots' \in SlotType /\ slots'.inFlight = slots.inFlight
    BY <1>0, <2>1 DEF SlotType
  <2>3. ~aborting
    BY <2>1 DEF SlotPart, HandKept
  <2>4. aborting' \in BOOLEAN
    BY <1>0, <2>1, Zenon
  <2>5. aborting' => pc' = "Close"
    BY <2>1, <2>3, Zenon
  <2>6. Onward
    BY <1>0, <2>1, <2>5 DEF Onward, Places
  <2> QED BY <1>0, <1>1, <2>1, <2>2, <2>3, <2>4, <2>6, SameHolders
<1>5. CASE CancelEvent
  <2>1. UNCHANGED <<hand, slots, aborting>> /\ pc = "Select" /\ pc' = "Poll"
    BY <1>5 DEF CancelEvent
  <2>2. SameTasks /\ \A j \in DOMAIN tasks : Holds(j)' <=> Holds(j)
    BY <1>0, <1>1, <1>5, FiredOnly DEF CancelEvent, SameTasks
  <2>3. Onward
    BY <2>1 DEF Onward, Places, SlotPart, HandKept
  <2> QED BY <1>0, <2>1, <2>2, <2>3, SameHolders
<1> QED BY <1>2, <1>3, <1>4, <1>5

\* Steps of a task until its code is over.
LEMMA SlotsTasks ==
  ASSUME SlotPart, NEW i \in DOMAIN tasks,
         \/ \E o \in BOOLEAN : RunEnds(i, o) \/ RunPanics(i, o) \/ RunAborted(i, o)
         \/ DetachedEnds(i)
         \/ \E log \in BOOLEAN : Emit(i, log)
  PROVE  SlotPart'
<1> USE DEF loopVars, cancelBus, factVars, presVars, Holds
<1>0. tasks \in Seq(TaskType) /\ slots \in SlotType /\ aborting \in BOOLEAN /\ pc \in Places
  BY DEF SlotPart, LoopTypes
<1>1. /\ UNCHANGED <<pc, hand, slots, aborting>>
      /\ tasks' # tasks => tasks[i].state = "Running"
  BY DEF RunEnds, RunPanics, RunAborted, TaskOver, DetachedEnds, Emit
<1>2. CASE /\ tasks[i].state = "Running"
           /\ \E x \in {"Returned", "Panicked"} : tasks' = [tasks EXCEPT ![i].state = x]
  <2>1. SameTasks /\ \A j \in DOMAIN tasks : Holds(j)' <=> Holds(j)
    <3>1. PICK x \in {"Returned", "Panicked"} : OnlyState(i, x)
      BY <1>0, <1>2, Restated DEF States, Holding
    <3> QED BY <1>2, <3>1 DEF OnlyState, Holding
  <2> QED BY <1>0, <1>1, <2>1, SameHolders
<1>3. CASE /\ aborting /\ tasks[i].state = "Running"
           /\ tasks' = [tasks EXCEPT ![i].state = "Aborted"]
  <2>1. SameTasks /\ \A j \in DOMAIN tasks : Holds(j)' => Holds(j)
    <3>1. OnlyState(i, "Aborted")
      BY <1>0, <1>3, Restated DEF States
    <3> QED BY <1>3, <3>1 DEF OnlyState, Holding
  <2> QED BY <1>0, <1>1, <1>3, <2>1, SameHolders
<1>4. CASE tasks' = tasks
  <2>1. SameTasks /\ \A j \in DOMAIN tasks : Holds(j)' <=> Holds(j)
    BY <1>0, <1>4 DEF SameTasks
  <2> QED BY <1>0, <1>1, <2>1, SameHolders
<1> QED BY <1>2, <1>3, <1>4 DEF RunEnds, RunPanics, RunAborted, TaskOver, DetachedEnds, Emit

\* A task is joined: the slot of one that returned is free again.
LEMMA SlotsJoin ==
  ASSUME SlotPart, NEW i \in DOMAIN tasks, Join(i)
  PROVE  SlotPart'
<1> USE DEF Holds
<1>0. tasks \in Seq(TaskType) /\ slots \in SlotType /\ aborting \in BOOLEAN
  BY DEF SlotPart, LoopTypes
<1>1. /\ UNCHANGED <<hand, aborting>> /\ pc = "Select" /\ pc' = "Poll" /\ ~aborting
      /\ tasks[i].state \in {"Returned", "Panicked"}
  BY DEF Join, SlotPart, HandKept
<1>2. Onward
  BY <1>1 DEF Onward, Places
<1>3. CASE tasks[i].state = "Panicked"
  <2>1. slots' = slots /\ tasks' = [tasks EXCEPT ![i].state = "Gone"]
    BY <1>3 DEF Join
  <2>2. SameTasks /\ \A j \in DOMAIN tasks : Holds(j)' <=> Holds(j)
    <3>1. OnlyState(i, "Gone")
      BY <1>0, <2>1, Restated DEF States, Holding
    <3> QED BY <1>3, <3>1 DEF OnlyState, Holding
  <2> QED BY <1>0, <1>1, <1>2, <2>1, <2>2, SameHolders
<1>4. CASE tasks[i].state = "Returned"
  <2>1. slots' = Released(tasks[i].run) /\ tasks' = [tasks EXCEPT ![i].state = "Joined"]
    BY <1>4 DEF Join
  <2>2. SameTasks /\ \A j \in DOMAIN tasks : Holds(j)' <=> Holds(j) /\ j # i
    <3>1. OnlyState(i, "Joined")
      BY <1>0, <2>1, Restated DEF States
    <3> QED BY <1>4, <3>1 DEF OnlyState, Holding
  <2>3. slots' \in SlotType /\ slots'.inFlight = slots.inFlight \ {tasks[i].run}
    BY <1>0, <2>1 DEF Released, SlotType
  <2>4. IsFiniteSet(slots'.inFlight) /\ Cardinality(slots'.inFlight) <= Capacity
    <3>1. IsFiniteSet(slots.inFlight) /\ Cardinality(slots.inFlight) <= Capacity
      BY DEF SlotPart, SlotsKept
    <3>2. slots'.inFlight \in SUBSET slots.inFlight
      BY <2>3
    <3>3. /\ IsFiniteSet(slots'.inFlight)
          /\ Cardinality(slots'.inFlight) <= Cardinality(slots.inFlight)
      BY <3>1, <3>2, FS_Subset
    <3>4. Cardinality(slots'.inFlight) \in Nat /\ Cardinality(slots.inFlight) \in Nat
      BY <3>1, <3>3, FS_CardinalityType
    <3> QED BY <3>1, <3>3, <3>4, CapacityAssumption
  <2>5. LoopTypes' /\ HandKept'
    BY <1>0, <1>1, <1>2, <2>2, <2>3 DEF SlotPart, SameTasks, LoopTypes, HandKept, Onward, Places
  <2>6. \A k, j \in DOMAIN tasks' :
          Holds(k)' /\ Holds(j)' /\ tasks'[k].run = tasks'[j].run => k = j
    BY <2>2 DEF SlotPart, SlotsKept, SameTasks
  <2>7. \A r \in RunIds : r \in slots'.inFlight <=>
             \/ hand'.kind \in {"Start", "Spawn"} /\ hand'.msg = r
             \/ \E j \in DOMAIN tasks' : Holds(j)' /\ tasks'[j].run = r
    <3>1. hand.kind \notin {"Start", "Spawn"}
      BY <1>1 DEF SlotPart, HandKept
    <3>2. Holds(i)
      BY <1>4 DEF Holding
    <3> QED BY <1>1, <2>2, <2>3, <3>1, <3>2 DEF SlotPart, SlotsKept, SameTasks
  <2> QED BY <2>4, <2>5, <2>6, <2>7 DEF SlotPart, SlotsKept
<1> QED BY <1>1, <1>3, <1>4

\* A verdict that starts is of a run that no slot is taken for, with a slot free.
LEMMA StartClaims ==
  ASSUME NEW m \in Messages, Verdict(m) = "Start"
  PROVE  m \in RunIds /\ m \notin slots.inFlight /\ ~(Cardinality(slots.inFlight) >= Capacity)
<1>1. m # BadFrame /\ TryClaim(m) = "Claimed"
  BY DEF Verdict
<1>2. m \in RunIds
  BY <1>1 DEF Messages
<1>3. m \notin slots.inFlight /\ ~(Cardinality(slots.inFlight) >= Capacity)
  BY <1>1 DEF TryClaim
<1> QED BY <1>2, <1>3

\* What the loop may decide of a trigger.
LEMMA VerdictKind ==
  ASSUME NEW m PROVE Verdict(m) \in {"Term", "Ack", "Start", "Nak"}
  BY DEF Verdict

\* A trigger is taken, with or without a claim.
LEMMA SlotsTake ==
  ASSUME SlotPart, NEW m \in Messages, TakeTrigger(m)
  PROVE  SlotPart'
<1> USE DEF Holds
<1>0. tasks \in Seq(TaskType) /\ slots \in SlotType /\ aborting \in BOOLEAN
  BY DEF SlotPart, LoopTypes
<1>1. /\ UNCHANGED <<tasks, aborting>> /\ pc = "Select" /\ Len(tasks) < MaxTasks
      /\ hand' = [msg |-> m, kind |-> Verdict(m)]
      /\ slots' = IF Verdict(m) = "Start" THEN Claimed(m) ELSE slots
      /\ pc' = IF Verdict(m) = "Start" THEN "Publish" ELSE "Finish"
  BY DEF TakeTrigger, Pulling
<1>2. ~aborting /\ hand.kind \notin {"Start", "Spawn"}
  BY <1>1 DEF SlotPart, HandKept
<1>3. IsFiniteSet(slots.inFlight) /\ Cardinality(slots.inFlight) \in Nat
  BY FS_CardinalityType DEF SlotPart, SlotsKept
<1>4. hand' \in HandType /\ hand'.msg = m /\ hand'.kind = Verdict(m)
  BY <1>1, VerdictKind DEF HandType
<1>5. CASE Verdict(m) = "Start"
  <2>1. m \in RunIds /\ m \notin slots.inFlight /\ Cardinality(slots.inFlight) < Capacity
    BY <1>3, <1>5, StartClaims, CapacityAssumption
  <2>2. slots' \in SlotType /\ slots'.inFlight = slots.inFlight \cup {m}
    BY <1>0, <1>1, <1>5, <2>1 DEF Claimed, SlotType
  <2>3. /\ IsFiniteSet(slots'.inFlight)
        /\ Cardinality(slots'.inFlight) = Cardinality(slots.inFlight) + 1
    BY <1>3, <2>1, <2>2, FS_AddElement
  <2>4. \A i \in DOMAIN tasks : Holds(i) => tasks[i].run # m
    <3>1. \A i \in DOMAIN tasks : tasks[i].run \in RunIds
      <4>1. \A i \in DOMAIN tasks : tasks[i] \in TaskType
        BY <1>0, ElementOfSeq
      <4> QED BY <4>1 DEF TaskType
    <3> QED BY <1>2, <2>1, <3>1 DEF SlotPart, SlotsKept
  <2>5. LoopTypes' /\ HandKept'
    BY <1>0, <1>1, <1>2, <1>4, <1>5, <2>1, <2>2, <2>4
       DEF SlotPart, LoopTypes, HandKept, Places
  <2>6. SlotsKept'
    BY <1>1, <1>2, <1>3, <1>4, <1>5, <2>1, <2>2, <2>3, CapacityAssumption DEF SlotPart, SlotsKept
  <2> QED BY <2>5, <2>6 DEF SlotPart
<1>6. CASE Verdict(m) # "Start"
  <2>1. slots' = slots /\ pc' = "Finish" /\ Verdict(m) \notin {"Start", "Spawn"}
    BY <1>1, <1>6, VerdictKind
  <2>2. LoopTypes' /\ HandKept'
    BY <1>0, <1>1, <1>2, <1>4, <2>1 DEF SlotPart, LoopTypes, HandKept, Places
  <2>3. SlotsKept'
    BY <1>1, <1>2, <1>4, <2>1 DEF SlotPart, SlotsKept
  <2> QED BY <2>2, <2>3 DEF SlotPart
<1> QED BY <1>5, <1>6

\* The start is told, or the claim given back.
LEMMA SlotsStarted ==
  ASSUME SlotPart, PublishStarted \/ StartedFails
  PROVE  SlotPart'
<1> USE DEF Holds
<1>0. tasks \in Seq(TaskType) /\ slots \in SlotType /\ aborting \in BOOLEAN /\ hand \in HandType
  BY DEF SlotPart, LoopTypes
<1>1. /\ UNCHANGED <<tasks, aborting>> /\ pc = "Publish" /\ pc' = "Finish"
  BY DEF PublishStarted, StartedFails
<1>2. ~aborting /\ hand.kind = "Start"
  BY <1>1 DEF SlotPart, HandKept
<1>3. CASE hand' = [hand EXCEPT !.kind = "Spawn"] /\ slots' = slots
  <2>1. hand' \in HandType /\ hand'.msg = hand.msg /\ hand'.kind = "Spawn"
    BY <1>0, <1>3 DEF HandType
  <2>2. LoopTypes' /\ HandKept'
    BY <1>0, <1>1, <1>2, <1>3, <2>1 DEF SlotPart, LoopTypes, HandKept, Places
  <2>3. SlotsKept'
    BY <1>1, <1>2, <1>3, <2>1 DEF SlotPart, SlotsKept
  <2> QED BY <2>2, <2>3 DEF SlotPart
<1>4. CASE hand' = [hand EXCEPT !.kind = "Nak"] /\ slots' = Released(hand.msg)
  <2>1. hand' \in HandType /\ hand'.msg = hand.msg /\ hand'.kind = "Nak"
    BY <1>0, <1>4 DEF HandType
  <2>2. slots' \in SlotType /\ slots'.inFlight = slots.inFlight \ {hand.msg}
    BY <1>0, <1>4 DEF Released, SlotType
  <2>3. LoopTypes' /\ HandKept'
    BY <1>0, <1>1, <1>2, <2>1, <2>2 DEF SlotPart, LoopTypes, HandKept, Places
  <2>4. IsFiniteSet(slots'.inFlight) /\ Cardinality(slots'.inFlight) <= Capacity
    <3>1. IsFiniteSet(slots.inFlight) /\ Cardinality(slots.inFlight) <= Capacity
      BY DEF SlotPart, SlotsKept
    <3>2. slots'.inFlight \in SUBSET slots.inFlight
      BY <2>2
    <3>3. /\ IsFiniteSet(slots'.inFlight)
          /\ Cardinality(slots'.inFlight) <= Cardinality(slots.inFlight)
      BY <3>1, <3>2, FS_Subset
    <3>4. Cardinality(slots'.inFlight) \in Nat /\ Cardinality(slots.inFlight) \in Nat
      BY <3>1, <3>3, FS_CardinalityType
    <3> QED BY <3>1, <3>3, <3>4, CapacityAssumption
  <2>5. SlotsKept'
    BY <1>1, <1>2, <2>1, <2>2, <2>4 DEF SlotPart, SlotsKept, HandKept
  <2> QED BY <2>3, <2>5 DEF SlotPart
<1> QED BY <1>3, <1>4 DEF PublishStarted, StartedFails

\* The task that a settled trigger is spawned as, after the others.
LEMMA Spawned ==
  ASSUME LoopTypes, HandKept, NEW back, Settle(back), hand.kind = "Spawn"
  PROVE  /\ tasks' \in Seq(TaskType) /\ Len(tasks') = Len(tasks) + 1
         /\ Len(tasks') <= MaxTasks /\ Len(tasks) \in Nat
         /\ DOMAIN tasks = 1 .. Len(tasks) /\ DOMAIN tasks' = 1 .. Len(tasks')
         /\ \A j \in DOMAIN tasks : tasks'[j] = tasks[j]
         /\ tasks'[Len(tasks')] = Task(hand.msg, hand.msg \in cancels)
<1> DEFINE new == Task(hand.msg, hand.msg \in cancels)
<1>1. tasks \in Seq(TaskType) /\ Len(tasks) < MaxTasks /\ hand.msg \in RunIds
  BY DEF LoopTypes, HandKept
<1>2. (hand.msg \in cancels) \in BOOLEAN
  OBVIOUS
<1>3. new \in TaskType
  BY <1>1, <1>2 DEF Task, TaskType, Holding
<1> HIDE DEF new
<1>4. tasks' = Append(tasks, new)
  BY DEF Settle, new
<1>5. /\ tasks' \in Seq(TaskType) /\ Len(tasks') = Len(tasks) + 1
      /\ \A j \in 1 .. Len(tasks) : tasks'[j] = tasks[j]
      /\ tasks'[Len(tasks) + 1] = new
  BY <1>1, <1>3, <1>4, AppendProperties
<1>6. Len(tasks) \in Nat /\ DOMAIN tasks = 1 .. Len(tasks) /\ DOMAIN tasks' = 1 .. Len(tasks')
  BY <1>1, <1>5, LenProperties
<1>7. Len(tasks') <= MaxTasks
  BY <1>1, <1>5, <1>6, BoundsAssumption
<1> QED BY <1>5, <1>6, <1>7 DEF new

\* A trigger is settled: a run that started holds its slot through its task.
LEMMA SlotsSettle ==
  ASSUME SlotPart, NEW back, Settle(back)
  PROVE  SlotPart'
<1> USE DEF Holds
<1>0. tasks \in Seq(TaskType) /\ slots \in SlotType /\ aborting \in BOOLEAN /\ hand \in HandType
  BY DEF SlotPart, LoopTypes
<1>1. UNCHANGED <<slots, aborting>> /\ pc = "Finish" /\ pc' = "Poll" /\ hand' = NoHand
  BY DEF Settle
<1>2. ~aborting /\ hand.kind # "Start"
  BY <1>1 DEF SlotPart, HandKept
<1>3. hand' \in HandType /\ hand'.kind = "None"
  BY <1>1 DEF NoHand, HandType, Messages
<1>4. CASE hand.kind # "Spawn"
  <2>1. tasks' = tasks
    BY <1>4 DEF Settle
  <2>2. LoopTypes' /\ HandKept'
    BY <1>0, <1>1, <1>2, <1>3, <2>1 DEF SlotPart, LoopTypes, HandKept, Places
  <2>3. SlotsKept'
    BY <1>1, <1>2, <1>3, <1>4, <2>1 DEF SlotPart, SlotsKept
  <2> QED BY <2>2, <2>3 DEF SlotPart
<1>5. CASE hand.kind = "Spawn"
  <2> DEFINE n == Len(tasks) + 1
  <2>1. /\ tasks' \in Seq(TaskType) /\ Len(tasks') = n /\ n <= MaxTasks
        /\ Len(tasks) \in Nat /\ DOMAIN tasks = 1 .. Len(tasks) /\ DOMAIN tasks' = 1 .. n
        /\ \A j \in DOMAIN tasks : tasks'[j] = tasks[j]
        /\ tasks'[n].run = hand.msg /\ tasks'[n].state = "Running"
    BY <1>5, Spawned DEF SlotPart, Task
  <2>2. LoopTypes' /\ HandKept'
    BY <1>0, <1>1, <1>2, <1>3, <2>1 DEF SlotPart, LoopTypes, HandKept, Places
  <2>3. tasks'[n].state \in Holding /\ \A j \in DOMAIN tasks : Holds(j)' <=> Holds(j)
    BY <2>1 DEF Holding
  <2>4. \A j \in DOMAIN tasks' : j = n \/ j \in DOMAIN tasks
    BY <2>1
  <2>5. DOMAIN tasks \subseteq DOMAIN tasks' /\ n \in DOMAIN tasks'
    BY <2>1
  <2>6. \A j \in DOMAIN tasks : Holds(j) => tasks[j].run # hand.msg
    BY <1>5 DEF SlotPart, HandKept
  <2> HIDE DEF n
  <2>7. \A i, j \in DOMAIN tasks' :
          Holds(i)' /\ Holds(j)' /\ tasks'[i].run = tasks'[j].run => i = j
    BY <2>1, <2>3, <2>4, <2>6 DEF SlotPart, SlotsKept
  <2>8. \A r \in RunIds : r \in slots'.inFlight <=>
          \E i \in DOMAIN tasks' : Holds(i)' /\ tasks'[i].run = r
    BY <1>1, <1>2, <1>5, <2>1, <2>3, <2>4, <2>5 DEF SlotPart, SlotsKept
  <2>9. SlotsKept'
    BY <1>1, <1>3, <2>7, <2>8 DEF SlotPart, SlotsKept
  <2> QED BY <2>2, <2>9 DEF SlotPart
<1> QED BY <1>4, <1>5

\* Every step keeps the slots.
LEMMA SlotsStep ==
  ASSUME SlotPart, OrderTypes, [Next]_vars
  PROVE  SlotPart'
  BY SlotsRest, SlotsTasks, SlotsJoin, SlotsTake, SlotsStarted, SlotsSettle, BoundsAssumption
     DEF Next, Done, FinishDelivery, FinishDeliveryLost

-----------------------------------------------------------------------------
(* The facts                                                               *)

FactPart == FactTypes /\ FactsKept

\* The bound on the tasks is a number.
LEMMA MaxTasksNat == MaxTasks \in Nat
  BY BoundsAssumption

\* A fact is told of a task: the stream of the task is longer by it and stays in
\* order when the fact does not go back.
LEMMA ToldKeeps ==
  ASSUME FactTypes, NEW i \in 1 .. MaxTasks, NEW f \in Facts,
         status' = Told(i, f), Ordered(status[i]),
         status[i] = <<>> => f = "Started",
         \A k \in DOMAIN status[i] : Rank(status[i][k]) <= Rank(f)
  PROVE  /\ status' \in [1 .. MaxTasks -> Seq(Facts)]
         /\ Ordered(status'[i]) /\ status'[i] # <<>>
         /\ \A k \in DOMAIN status'[i] :
               status'[i][k] = f \/ \E l \in DOMAIN status[i] : status'[i][k] = status[i][l]
         /\ \A l \in DOMAIN status[i] :
               l \in DOMAIN status'[i] /\ status'[i][l] = status[i][l]
         /\ \E l \in DOMAIN status'[i] : status'[i][l] = f
         /\ \A j \in 1 .. MaxTasks : j # i => status'[j] = status[j]
<1> DEFINE s == status[i]
           t == status'[i]
<1>1. s \in Seq(Facts) /\ status \in [1 .. MaxTasks -> Seq(Facts)]
  BY DEF FactTypes
<1>2. t = Append(s, f) /\ \A j \in 1 .. MaxTasks : j # i => status'[j] = status[j]
  BY <1>1 DEF Told
<1>3. Ordered(s) /\ (s = <<>> => f = "Started")
      /\ \A k \in DOMAIN s : Rank(s[k]) <= Rank(f)
  OBVIOUS
<1>4. status' \in [1 .. MaxTasks -> Seq(Facts)]
  <2>1. Append(s, f) \in Seq(Facts)
    BY <1>1, AppendProperties
  <2> QED BY <1>1, <2>1 DEF Told
<1> HIDE DEF s, t
<1>5. /\ t \in Seq(Facts) /\ t # <<>> /\ Len(t) = Len(s) + 1
      /\ \A k \in 1 .. Len(s) : t[k] = s[k]
      /\ t[Len(s) + 1] = f
  BY <1>1, <1>2, AppendProperties
<1>6. Len(s) \in Nat /\ DOMAIN s = 1 .. Len(s) /\ DOMAIN t = 1 .. Len(t)
  BY <1>1, <1>5, LenProperties
<1>7. \A k \in DOMAIN t : k \in DOMAIN s \/ k = Len(s) + 1
  BY <1>5, <1>6
<1>8. Ordered(t)
  <2>1. t[1] = "Started"
    <3>1. CASE s = <<>>
      BY <1>3, <1>5, <3>1
    <3>2. CASE s # <<>>
      <4>1. 1 \in 1 .. Len(s)
        BY <1>1, <1>6, <3>2, EmptySeq
      <4> QED BY <1>3, <1>5, <3>2, <4>1 DEF Ordered
    <3> QED BY <3>1, <3>2
  <2>2. ASSUME NEW k \in DOMAIN t, NEW l \in DOMAIN t, k < l
        PROVE  Rank(t[k]) <= Rank(t[l])
    <3>1. k \in DOMAIN s
      BY <1>5, <1>6, <2>2
    <3>2. CASE l \in DOMAIN s
      BY <1>3, <1>5, <1>6, <2>2, <3>1, <3>2 DEF Ordered
    <3>3. CASE l = Len(s) + 1
      BY <1>3, <1>5, <1>6, <3>1, <3>3
    <3> QED BY <1>7, <3>2, <3>3
  <2> QED BY <2>1, <2>2 DEF Ordered
<1>9. \A k \in DOMAIN t : t[k] = f \/ \E l \in DOMAIN s : t[k] = s[l]
  BY <1>5, <1>6, <1>7
<1>10. \A l \in DOMAIN s : l \in DOMAIN t /\ t[l] = s[l]
  BY <1>5, <1>6
<1>11. \E l \in DOMAIN t : t[l] = f
  BY <1>5, <1>6
<1> QED BY <1>2, <1>4, <1>5, <1>8, <1>9, <1>10, <1>11 DEF s, t

\* What is known of an end stays known while the channel, what was given up and
\* the stream of the task keep it.
LEMMA EndStays ==
  ASSUME NEW i, EndKnown(i),
         \A k \in DOMAIN status[i] : \E l \in DOMAIN status'[i] : status'[i][l] = status[i][k],
         \A k \in DOMAIN chan :
            chan[k] = FactOf(i, "End") =>
               \/ \E l \in DOMAIN chan' : chan'[l] = chan[k]
               \/ chan[k] \in lost'
               \/ \E l \in DOMAIN status'[i] : status'[i][l] = "End",
         lost \subseteq lost'
  PROVE  EndKnown(i)'
<1>1. CASE FactOf(i, "End") \in Range(chan)
  <2>1. PICK k \in DOMAIN chan : chan[k] = FactOf(i, "End")
    BY <1>1 DEF Range
  <2> QED BY <2>1 DEF EndKnown, Range, FactOf
<1>2. CASE FactOf(i, "End") \in lost
  BY <1>2 DEF EndKnown, FactOf
<1>3. CASE "End" \in Range(status[i])
  BY <1>3 DEF EndKnown, Range
<1> QED BY <1>1, <1>2, <1>3 DEF EndKnown

\* Steps that touch neither the stream nor the channel.
LEMMA FactsFrame ==
  ASSUME FactPart, SameTasks, UNCHANGED <<chan, status, lost>>,
         hand'.kind = "Spawn" => hand.kind = "Spawn",
         \A j \in DOMAIN tasks : tasks'[j].state = "Running" => tasks[j].state = "Running",
         \A j \in DOMAIN tasks :
            tasks'[j].state \in {"Returned", "Joined"} =>
               tasks[j].state \in {"Returned", "Joined"},
         clones' \subseteq Senders,
         pc' = "Bind" => UNCHANGED <<pc, clones>>,
         pc' = "Returned" => pc = "Returned" \/ PublisherEnded
  PROVE  FactPart'
<1>1. FactTypes' /\ StreamKept'
  BY DEF FactPart, FactsKept, FactTypes, StreamKept, SameTasks
<1>2. ChanKept'
  BY DEF FactPart, FactsKept, ChanKept, SameTasks, Over, Behind
<1>3. EndKept'
  <2>1. \A j \in DOMAIN tasks : EndKnown(j)' <=> EndKnown(j)
    BY DEF EndKnown, FactOf
  <2>2. PublisherEnded => PublisherEnded'
    BY DEF PublisherEnded, Senders, SameTasks
  <2> QED BY <2>1, <2>2 DEF FactPart, FactsKept, EndKept, SameTasks
<1> QED BY <1>1, <1>2, <1>3 DEF FactPart, FactsKept

\* No task is spawned and no fact goes on its way.
LEMMA FactsRest ==
  ASSUME SlotPart, FactPart,
         \/ Bind \/ BindFails \/ PullerEnds \/ PullerAttached
         \/ Poll \/ Shutdown \/ DrainElapsed \/ Heartbeat
         \/ \E m \in Messages : TakeTrigger(m)
         \/ \E r \in RunIds, op \in {"Put", "Delete"} : Order(r, op)
         \/ WatchEnds \/ CancelEvent \/ CancelReset
         \/ \E i \in DOMAIN tasks, o \in BOOLEAN :
               Join(i) \/ DetachedEnds(i) \/ RunPanics(i, o) \/ RunAborted(i, o)
         \/ Close \/ Return \/ ShutdownSignal
         \/ UNCHANGED vars
  PROVE  FactPart'
<1> USE DEF loopVars, cancelBus, factVars, presVars
<1>0. tasks \in Seq(TaskType)
  BY DEF SlotPart, LoopTypes
<1>1. /\ tasks' = tasks => SameTasks
      /\ clones' = clones => clones' \subseteq Senders
  BY <1>0 DEF SameTasks, Senders
<1>2. CASE \/ Bind \/ PullerEnds \/ PullerAttached
           \/ Poll \/ Shutdown \/ DrainElapsed \/ Heartbeat
           \/ \E r \in RunIds, op \in {"Put", "Delete"} : Order(r, op)
           \/ WatchEnds \/ CancelReset
           \/ Close \/ ShutdownSignal
           \/ UNCHANGED vars
  <2>1. /\ UNCHANGED <<tasks, clones, chan, status, lost, hand>>
        /\ pc' = pc \/ pc' \notin {"Bind", "Returned"}
    BY <1>2 DEF Bind, PullerEnds, PullerAttached, Poll, Shutdown, DrainElapsed, Heartbeat,
                Order, WatchEnds, CancelReset, Close, ShutdownSignal, vars
  <2> QED BY <1>1, <2>1, FactsFrame
<1>3. CASE \E m \in Messages : TakeTrigger(m)
  <2>1. PICK m \in Messages : TakeTrigger(m)
    BY <1>3
  <2>2. /\ UNCHANGED <<tasks, clones, chan, status, lost>> /\ pc' \in {"Publish", "Finish"}
        /\ hand' = [msg |-> m, kind |-> Verdict(m)]
    BY <2>1 DEF TakeTrigger
  <2>3. hand'.kind # "Spawn"
    BY <2>2, VerdictKind
  <2> QED BY <1>1, <2>2, <2>3, FactsFrame
<1>4. CASE BindFails
  <2>1. UNCHANGED <<tasks, clones, chan, status, lost, hand>> /\ pc = "Bind"
    BY <1>4 DEF BindFails
  <2>2. DOMAIN tasks = {} /\ clones = {}
    BY <1>0, <2>1, LenProperties DEF SlotPart, HandKept, FactPart, FactsKept, EndKept
  <2>3. DOMAIN chan = {} /\ chan \in Seq(FactType)
    BY <2>2 DEF FactPart, FactTypes, FactsKept, ChanKept
  <2>4. PublisherEnded
    <3>1. Len(chan) = 0
      BY <2>3, LenProperties
    <3>2. chan = <<>>
      BY <2>3, <3>1, EmptySeq
    <3> QED BY <2>2, <3>2 DEF PublisherEnded, Senders
  <2> QED BY <1>1, <2>1, <2>4, FactsFrame
<1>5. CASE Return
  BY <1>1, <1>5, FactsFrame DEF Return
<1>6. CASE CancelEvent
  <2>1. UNCHANGED <<clones, chan, status, lost, hand>> /\ pc' = "Poll"
    BY <1>6 DEF CancelEvent
  <2>2. SameTasks /\ \A j \in DOMAIN tasks : tasks'[j].state = tasks[j].state
    BY <1>0, <1>1, <1>6, FiredOnly DEF CancelEvent, SameTasks
  <2> QED BY <1>1, <2>1, <2>2, FactsFrame
<1>7. CASE \E i \in DOMAIN tasks, o \in BOOLEAN :
               Join(i) \/ RunPanics(i, o) \/ RunAborted(i, o)
  <2>1. PICK i \in DOMAIN tasks, o \in BOOLEAN :
               Join(i) \/ RunPanics(i, o) \/ RunAborted(i, o)
    BY <1>7
  <2>2. UNCHANGED <<chan, status, lost, hand>> /\ (pc' = pc \/ pc' = "Poll")
    BY <2>1 DEF Join, RunPanics, RunAborted
  <2>3. PICK x \in {"Joined", "Gone", "Panicked", "Aborted"} :
          /\ tasks' = [tasks EXCEPT ![i].state = x]
          /\ x = "Joined" => tasks[i].state = "Returned"
          /\ clones' = clones \/ (clones' \subseteq clones \cup {i} /\ tasks[i].state = "Running")
    <3>1. CASE Join(i)
      BY <3>1 DEF Join
    <3>2. CASE RunPanics(i, o)
      BY <3>2 DEF RunPanics, TaskOver
    <3>3. CASE RunAborted(i, o)
      BY <3>3 DEF RunAborted, TaskOver
    <3> QED BY <2>1, <3>1, <3>2, <3>3
  <2>4. OnlyState(i, x)
    BY <1>0, <2>3, Restated DEF States, Holding
  <2>5. SameTasks
    BY <2>4 DEF OnlyState
  <2>6. clones' \subseteq Senders
    BY <2>3 DEF Senders
  <2>7. pc # "Bind"
    BY <1>0, LenProperties DEF SlotPart, HandKept
  <2> QED BY <2>2, <2>3, <2>4, <2>5, <2>6, <2>7, FactsFrame DEF OnlyState
<1>8. CASE \E i \in DOMAIN tasks : DetachedEnds(i)
  <2>1. UNCHANGED <<pc, tasks, chan, status, lost, hand>> /\ clones' \subseteq Senders
    BY <1>8 DEF DetachedEnds, Senders
  <2>2. pc # "Bind"
    BY <1>8 DEF DetachedEnds, FactPart, FactsKept, EndKept
  <2> QED BY <1>1, <2>1, <2>2, FactsFrame
<1> QED BY <1>2, <1>3, <1>4, <1>5, <1>6, <1>7, <1>8

\* The start is told, as the first word of the task that is not spawned yet, or
\* again after a start that was told for nothing.
LEMMA FactsStarted ==
  ASSUME SlotPart, FactPart, PublishStarted \/ StartedFails
  PROVE  FactPart'
<1> DEFINE n == Len(tasks) + 1
<1>1. /\ tasks \in Seq(TaskType) /\ hand \in HandType /\ Len(tasks) \in Nat
      /\ DOMAIN tasks = 1 .. Len(tasks)
  BY LenProperties DEF SlotPart, LoopTypes
<1>2. /\ pc = "Publish" /\ pc' = "Finish" /\ UNCHANGED <<tasks, clones, chan, lost>>
      /\ clones' \subseteq Senders
  BY DEF PublishStarted, StartedFails, Senders
<1>3. n \in 1 .. MaxTasks /\ n \notin DOMAIN tasks /\ n > Len(tasks)
  BY <1>1, <1>2, BoundsAssumption DEF SlotPart, HandKept
<1>4. hand'.kind = "Spawn" => status' = Told(n, "Started")
  BY <1>1 DEF PublishStarted, StartedFails, NextTask, HandType
<1>5. status' = status \/ status' = Told(n, "Started")
  BY DEF PublishStarted, StartedFails, NextTask
<1> HIDE DEF n
<1>6. CASE status' = status /\ hand'.kind # "Spawn"
  BY <1>1, <1>2, <1>6, FactsFrame DEF SameTasks
<1>7. CASE status' = Told(n, "Started")
  <2>1. \A k \in DOMAIN status[n] : status[n][k] = "Started"
    BY <1>3 DEF FactPart, FactsKept, StreamKept
  <2>2. FactTypes /\ Ordered(status[n])
    BY <1>3 DEF FactPart, FactsKept, StreamKept
  <2>3. "Started" \in Facts /\ \A k \in DOMAIN status[n] : Rank(status[n][k]) <= Rank("Started")
    BY <2>1 DEF Facts, Rank
  <2>4. /\ status' \in [1 .. MaxTasks -> Seq(Facts)]
        /\ Ordered(status'[n]) /\ status'[n] # <<>>
        /\ \A k \in DOMAIN status'[n] :
              \/ status'[n][k] = "Started"
              \/ \E l \in DOMAIN status[n] : status'[n][k] = status[n][l]
        /\ \A j \in 1 .. MaxTasks : j # n => status'[j] = status[j]
    BY <1>3, <1>7, <2>2, <2>3, ToldKeeps
  <2>5. \A j \in DOMAIN tasks : j \in 1 .. MaxTasks /\ status'[j] = status[j]
    <3>1. DOMAIN tasks \subseteq 1 .. MaxTasks
      BY <1>1, MaxTasksNat DEF SlotPart, LoopTypes
    <3> QED BY <1>3, <2>4, <3>1
  <2>6. FactTypes'
    BY <1>2, <2>4 DEF FactPart, FactTypes
  <2>7. StreamKept'
    <3>1. \A k \in DOMAIN status'[n] : status'[n][k] = "Started"
      BY <2>1, <2>4
    <3>2. status'[Len(tasks') + 1] # <<>>
      BY <1>2, <2>4 DEF n
    <3>3. \A j \in 1 .. MaxTasks : Ordered(status'[j])
      BY <2>4 DEF FactPart, FactsKept, StreamKept
    <3>4. \A j \in 1 .. MaxTasks :
            j > Len(tasks) => \A k \in DOMAIN status'[j] : status'[j][k] = "Started"
      BY <2>4, <3>1 DEF FactPart, FactsKept, StreamKept
    <3>5. \A j \in DOMAIN tasks : status'[j] # <<>>
      BY <2>5 DEF FactPart, FactsKept, StreamKept
    <3> QED BY <1>2, <3>2, <3>3, <3>4, <3>5 DEF StreamKept
  <2>8. ChanKept'
    BY <1>2, <2>5 DEF FactPart, FactsKept, ChanKept, Over, Behind
  <2>9. EndKept'
    <3>1. \A j \in DOMAIN tasks : EndKnown(j)' <=> EndKnown(j)
      BY <1>2, <2>5 DEF EndKnown, FactOf
    <3> QED BY <1>2, <3>1 DEF FactPart, FactsKept, EndKept
  <2> QED BY <2>6, <2>7, <2>8, <2>9 DEF FactPart, FactsKept
<1> QED BY <1>4, <1>5, <1>6, <1>7

\* The task whose start was told is spawned.
LEMMA FactsSettle ==
  ASSUME SlotPart, FactPart, NEW back, Settle(back)
  PROVE  FactPart'
<1> DEFINE n == Len(tasks) + 1
<1>1. /\ UNCHANGED <<clones, chan, status, lost>> /\ pc' = "Poll" /\ hand' = NoHand
      /\ clones' \subseteq Senders
  BY DEF Settle, factVars, Senders
<1>2. hand'.kind # "Spawn" /\ tasks \in Seq(TaskType)
  BY <1>1 DEF NoHand, SlotPart, LoopTypes
<1>3. CASE hand.kind # "Spawn"
  <2>1. tasks' = tasks
    BY <1>3 DEF Settle
  <2> QED BY <1>1, <1>2, <2>1, FactsFrame DEF SameTasks
<1>4. CASE hand.kind = "Spawn"
  <2>1. /\ tasks' \in Seq(TaskType) /\ Len(tasks') = n /\ n <= MaxTasks
        /\ Len(tasks) \in Nat /\ DOMAIN tasks = 1 .. Len(tasks) /\ DOMAIN tasks' = 1 .. n
        /\ \A j \in DOMAIN tasks : tasks'[j] = tasks[j]
        /\ tasks'[n].state = "Running"
    BY <1>4, Spawned DEF SlotPart, Task
  <2>2. n \in 1 .. MaxTasks /\ status[n] # <<>> /\ \A k \in DOMAIN status[n] : status[n][k] = "Started"
    BY <1>4, <2>1, BoundsAssumption DEF FactPart, FactsKept, StreamKept
  <2>3. ~Over(n)
    BY <2>2 DEF Over
  <2>4. \A j \in DOMAIN tasks' : j = n \/ j \in DOMAIN tasks
    BY <2>1
  <2>5. DOMAIN tasks \subseteq DOMAIN tasks' /\ n \notin DOMAIN tasks
    BY <2>1
  <2>6. \A j \in 1 .. MaxTasks : j > n => j > Len(tasks)
    BY <2>1
  <2> HIDE DEF n
  <2>7. FactTypes'
    BY <1>1 DEF FactPart, FactTypes
  <2>8. StreamKept'
    BY <1>1, <1>2, <2>1, <2>2, <2>4, <2>6 DEF FactPart, FactsKept, StreamKept
  <2>9. ChanKept'
    <3>1. \A j : /\ Over(j)' <=> Over(j)
                 /\ \A f : Behind(j, f)' <=> Behind(j, f)
      BY <1>1 DEF Over, Behind
    <3> QED BY <1>1, <2>1, <2>3, <2>4, <2>5, <3>1 DEF FactPart, FactsKept, ChanKept
  <2>10. EndKept'
    <3>1. \A j \in DOMAIN tasks : EndKnown(j)' <=> EndKnown(j)
      BY <1>1 DEF EndKnown, FactOf
    <3> QED BY <1>1, <2>1, <2>4, <3>1 DEF FactPart, FactsKept, EndKept
  <2> QED BY <2>7, <2>8, <2>9, <2>10 DEF FactPart, FactsKept
<1> QED BY <1>3, <1>4

\* The code of a task puts a fact into the channel, its end as the last one of the task
\* itself, and detached work what it tells after it.
LEMMA FactsSent ==
  ASSUME SlotPart, FactPart, NEW i \in DOMAIN tasks,
         (\E o \in BOOLEAN : RunEnds(i, o)) \/ \E log \in BOOLEAN : Emit(i, log)
  PROVE  FactPart'
<1>1. PICK f \in {"Step", "Log", "End", "Late"} :
        /\ chan' = Append(chan, FactOf(i, f))
        /\ i \in Senders /\ UNCHANGED <<hand, pc, status, lost>>
        /\ f \in {"Step", "End"} => tasks[i].state = "Running"
        /\ f = "Late" => tasks[i].state # "Running"
        /\ f = "End" => tasks' = [tasks EXCEPT ![i].state = "Returned"]
        /\ f # "End" => tasks' = tasks
  <2>1. CASE \E o \in BOOLEAN : RunEnds(i, o)
    BY <2>1 DEF RunEnds, TaskOver, Senders, loopVars
  <2>2. CASE \E log \in BOOLEAN : Emit(i, log)
    BY <2>2 DEF Emit, loopVars
  <2> QED BY <2>1, <2>2
<1>2. tasks \in Seq(TaskType) /\ chan \in Seq(FactType) /\ i \in Nat
  BY LenProperties DEF SlotPart, LoopTypes, FactPart, FactTypes
<1>3. FactOf(i, f) \in FactType /\ FactOf(i, f).task = i /\ FactOf(i, f).fact = f
  BY <1>2 DEF FactOf, FactType
<1>4. /\ chan' \in Seq(FactType) /\ Len(chan') = Len(chan) + 1
      /\ \A k \in 1 .. Len(chan) : chan'[k] = chan[k]
      /\ chan'[Len(chan) + 1] = FactOf(i, f)
  BY <1>1, <1>2, <1>3, AppendProperties
<1>5. Len(chan) \in Nat /\ DOMAIN chan = 1 .. Len(chan) /\ DOMAIN chan' = 1 .. Len(chan')
  BY <1>2, <1>4, LenProperties
<1>6. SameTasks /\ \A j \in DOMAIN tasks :
        tasks'[j].state = IF j = i /\ f = "End" THEN "Returned" ELSE tasks[j].state
  <2>1. CASE f = "End"
    <3>1. OnlyState(i, "Returned")
      BY <1>1, <1>2, <2>1, Restated DEF States, Holding
    <3> QED BY <2>1, <3>1 DEF OnlyState
  <2>2. CASE f # "End"
    BY <1>1, <1>2, <2>2 DEF SameTasks
  <2> QED BY <2>1, <2>2
<1>7. FactTypes' /\ StreamKept'
  BY <1>1, <1>4, <1>6 DEF FactPart, FactTypes, FactsKept, StreamKept, SameTasks
<1>8. ASSUME f # "Log"
      PROVE  /\ Behind(i, f)
             /\ \A k \in DOMAIN chan :
                   chan[k].task = i /\ ~IsLog(chan[k]) => Rank(chan[k].fact) <= Rank(f)
  <2>1. /\ \A k \in DOMAIN chan : chan[k] \in FactType
        /\ \A k \in DOMAIN status[i] : status[i][k] \in Facts
    <3>1. i \in 1 .. MaxTasks
      BY MaxTasksNat, LenProperties DEF SlotPart, LoopTypes
    <3> QED BY <1>2, <3>1, ElementOfSeq DEF FactPart, FactTypes
  <2>2. CASE f = "Late"
    BY <2>1, <2>2 DEF Behind, Rank, Facts, FactType, IsLog
  <2>3. CASE f \in {"Step", "End"}
    <3>1. ~Over(i) /\ \A k \in DOMAIN chan :
             chan[k].task = i => chan[k].fact \notin {"End", "Late"}
      BY <1>1, <2>3 DEF FactPart, FactsKept, ChanKept
    <3> QED BY <2>1, <2>3, <3>1 DEF Behind, Over, Rank, Facts, FactType, IsLog
  <2> QED BY <1>8, <2>2, <2>3
<1>9. ChanKept'
  <2>1. \A j : /\ Over(j)' <=> Over(j)
               /\ \A g : Behind(j, g)' <=> Behind(j, g)
    BY <1>1 DEF Over, Behind
  <2>2. \A k \in DOMAIN chan' : k \in DOMAIN chan \/ k = Len(chan) + 1
    BY <1>4, <1>5
  <2>3. \A k \in DOMAIN chan' : chan'[k].task \in DOMAIN tasks'
    BY <1>3, <1>4, <1>5, <1>6, <2>2 DEF FactPart, FactsKept, ChanKept, SameTasks
  <2>4. ASSUME NEW k \in DOMAIN chan', NEW l \in DOMAIN chan', k < l,
               chan'[k].task = chan'[l].task, ~IsLog(chan'[k]), ~IsLog(chan'[l])
        PROVE  Rank(chan'[k].fact) <= Rank(chan'[l].fact)
    <3>1. k \in DOMAIN chan /\ chan'[k] = chan[k]
      BY <1>4, <1>5, <2>4
    <3>2. CASE l \in DOMAIN chan
      BY <1>4, <1>5, <2>4, <3>1, <3>2 DEF FactPart, FactsKept, ChanKept
    <3>3. CASE l = Len(chan) + 1
      BY <1>3, <1>4, <1>8, <2>4, <3>1, <3>3 DEF IsLog
    <3> QED BY <2>2, <3>2, <3>3
  <2>5. ASSUME NEW k \in DOMAIN chan', ~IsLog(chan'[k])
        PROVE  Behind(chan'[k].task, chan'[k].fact)
    <3>1. CASE k \in DOMAIN chan
      BY <1>4, <1>5, <2>5, <3>1 DEF FactPart, FactsKept, ChanKept
    <3>2. CASE k = Len(chan) + 1
      BY <1>3, <1>4, <1>8, <2>5, <3>2 DEF IsLog
    <3> QED BY <2>2, <3>1, <3>2
  <2>6. ASSUME NEW k \in DOMAIN chan', chan'[k].fact \in {"End", "Late"}
        PROVE  tasks'[chan'[k].task].state # "Running"
    <3>1. CASE k \in DOMAIN chan
      BY <1>4, <1>5, <1>6, <2>6, <3>1 DEF FactPart, FactsKept, ChanKept
    <3>2. CASE k = Len(chan) + 1
      BY <1>1, <1>3, <1>4, <1>6, <2>6, <3>2
    <3> QED BY <2>2, <3>1, <3>2
  <2>7. \A j \in DOMAIN tasks' : tasks'[j].state = "Running" => ~Over(j)
    BY <1>6 DEF FactPart, FactsKept, ChanKept, SameTasks
  <2>8. \A k \in DOMAIN chan' : ~IsLog(chan'[k]) => Behind(chan[k].task, chan[k].fact)'
    BY <1>1, <2>5 DEF Behind
  <2> QED BY <2>1, <2>3, <2>4, <2>6, <2>7, <2>8 DEF ChanKept
<1>10. EndKept'
  <2>1. ASSUME NEW j \in DOMAIN tasks', tasks'[j].state \in {"Returned", "Joined"}
        PROVE  EndKnown(j)'
    <3>1. CASE tasks[j].state \in {"Returned", "Joined"}
      <4>1. EndKnown(j)
        BY <1>6, <2>1, <3>1 DEF FactPart, FactsKept, EndKept, SameTasks
      <4>2. \A k \in DOMAIN chan : k \in DOMAIN chan' /\ chan'[k] = chan[k]
        BY <1>4, <1>5
      <4> QED BY <1>1, <4>1, <4>2, EndStays
    <3>2. CASE j = i /\ f = "End"
      <4>1. Len(chan) + 1 \in DOMAIN chan'
        BY <1>4, <1>5
      <4> QED BY <1>4, <3>2, <4>1 DEF EndKnown, Range, FactOf
    <3> QED BY <1>6, <2>1, <3>1, <3>2 DEF SameTasks
  <2>2. pc' \notin {"Bind", "Returned"}
    BY <1>1, <1>2, LenProperties
       DEF SlotPart, HandKept, FactPart, FactsKept, EndKept, PublisherEnded
  <2> QED BY <2>1, <2>2 DEF EndKept
<1> QED BY <1>7, <1>9, <1>10 DEF FactPart, FactsKept

\* A fact at the head of the channel does not go back on the stream of its task.
LEMMA HeadInOrder ==
  ASSUME SlotPart, FactPart, chan # <<>>, ~IsLog(Head(chan))
  PROVE  /\ Head(chan).fact \in {"Step", "End", "Late"} /\ Head(chan).task \in 1 .. MaxTasks
         /\ Head(chan).task \in DOMAIN tasks /\ status[Head(chan).task] # <<>>
         /\ \A k \in DOMAIN status[Head(chan).task] :
               Rank(status[Head(chan).task][k]) <= Rank(Head(chan).fact)
<1> DEFINE h == Head(chan)
<1>1. chan \in Seq(FactType) /\ status \in [1 .. MaxTasks -> Seq(Facts)]
  BY DEF FactPart, FactTypes
<1>2. h = chan[1] /\ 1 \in DOMAIN chan /\ h \in FactType
  BY <1>1, EmptySeq, LenProperties, HeadTailProperties
<1>3. h.fact \in {"Step", "End", "Late"}
  BY <1>2 DEF IsLog, FactType
<1>4. h.task \in DOMAIN tasks /\ status[h.task] # <<>>
  BY <1>2 DEF FactPart, FactsKept, ChanKept, StreamKept
<1>5. DOMAIN tasks \subseteq 1 .. MaxTasks
  BY MaxTasksNat, LenProperties DEF SlotPart, LoopTypes
<1>6. \A k \in DOMAIN status[h.task] : Rank(status[h.task][k]) <= Rank(h.fact)
  BY <1>2 DEF FactPart, FactsKept, ChanKept, Behind
<1> QED BY <1>3, <1>4, <1>5, <1>6

\* The publisher takes the head of the channel, tells it, or both.
Taken ==
  /\ chan' = chan \/ chan' = Tail(chan)
  /\ IF status' = status THEN TRUE
     ELSE ~IsLog(Head(chan)) /\ status' = Told(Head(chan).task, Head(chan).fact)
  /\ lost \subseteq lost'
  /\ chan' = chan \/ IsLog(Head(chan)) \/ Head(chan) \in lost'
       \/ status' = Told(Head(chan).task, Head(chan).fact)

\* The forwarder takes a fact from the channel.
LEMMA FactsTaken ==
  ASSUME SlotPart, FactPart, chan # <<>>, Taken, UNCHANGED <<pc, hand, tasks, clones>>
  PROVE  FactPart'
<1> DEFINE h == Head(chan)
<1>1. chan \in Seq(FactType) /\ status \in [1 .. MaxTasks -> Seq(Facts)] /\ FactTypes
  BY DEF FactPart, FactTypes
<1>2. h = chan[1] /\ h \in FactType /\ Len(chan) \in Nat /\ DOMAIN chan = 1 .. Len(chan)
      /\ Len(chan) > 0
  BY <1>1, EmptySeq, LenProperties, HeadTailProperties
<1>3. \/ chan' = chan
      \/ /\ chan' \in Seq(FactType) /\ Len(chan') = Len(chan) - 1
         /\ \A k \in 1 .. Len(chan') : chan'[k] = chan[k + 1]
  BY <1>1, HeadTailProperties DEF Taken
<1>4. chan' \in Seq(FactType) /\ DOMAIN chan' = 1 .. Len(chan') /\ Len(chan') \in Nat
  BY <1>1, <1>3, LenProperties
<1>5. PICK d \in {0, 1} : /\ Len(chan') = Len(chan) - d
                          /\ \A k \in DOMAIN chan' : k + d \in DOMAIN chan /\ chan'[k] = chan[k + d]
                          /\ d = 0 => chan' = chan
  <2>1. CASE chan' = chan
    <3>1. Len(chan') = Len(chan) - 0 /\ \A k \in DOMAIN chan' : k + 0 = k
      BY <1>2, <1>4, <2>1
    <3> QED BY <2>1, <3>1
  <2>2. CASE chan' # chan
    <3>1. /\ Len(chan') = Len(chan) - 1
          /\ \A k \in 1 .. Len(chan') : chan'[k] = chan[k + 1]
      BY <1>3, <2>2
    <3>2. \A k \in DOMAIN chan' : k + 1 \in DOMAIN chan
      BY <1>2, <1>4, <3>1
    <3> QED BY <1>4, <3>1, <3>2
  <2> QED BY <2>1, <2>2
<1>6. \A k \in DOMAIN chan : k = 1 \/ (k - d \in DOMAIN chan' /\ chan'[k - d] = chan[k])
  BY <1>2, <1>4, <1>5
<1>7. /\ status' \in [1 .. MaxTasks -> Seq(Facts)]
      /\ \A j \in 1 .. MaxTasks : /\ Ordered(status'[j])
                                  /\ status[j] # <<>> => status'[j] # <<>>
      /\ \A j \in 1 .. MaxTasks : \A l \in DOMAIN status[j] :
            l \in DOMAIN status'[j] /\ status'[j][l] = status[j][l]
      /\ \A j \in 1 .. MaxTasks :
            j > Len(tasks) => \A k \in DOMAIN status'[j] : status'[j][k] = "Started"
      /\ \A j \in 1 .. MaxTasks : \A l \in DOMAIN status'[j] :
            \/ \E m \in DOMAIN status[j] : status'[j][l] = status[j][m]
            \/ h.task = j /\ ~IsLog(h) /\ status'[j][l] = h.fact
      /\ status' # status => \E l \in DOMAIN status'[h.task] : status'[h.task][l] = h.fact
  <2>1. CASE status' = status
    BY <1>1, <2>1 DEF FactPart, FactsKept, StreamKept
  <2>2. CASE status' # status
    <3>1. ~IsLog(h) /\ status' = Told(h.task, h.fact)
      BY <2>2 DEF Taken
    <3>2. /\ h.fact \in Facts /\ h.task \in 1 .. MaxTasks
          /\ h.task \in DOMAIN tasks /\ status[h.task] # <<>>
          /\ \A k \in DOMAIN status[h.task] : Rank(status[h.task][k]) <= Rank(h.fact)
      BY <3>1, HeadInOrder DEF Facts
    <3>3. Ordered(status[h.task])
      BY <3>2 DEF FactPart, FactsKept, StreamKept
    <3> HIDE DEF h
    <3>4. /\ status' \in [1 .. MaxTasks -> Seq(Facts)]
          /\ Ordered(status'[h.task]) /\ status'[h.task] # <<>>
          /\ \A k \in DOMAIN status'[h.task] :
                \/ status'[h.task][k] = h.fact
                \/ \E l \in DOMAIN status[h.task] : status'[h.task][k] = status[h.task][l]
          /\ \A l \in DOMAIN status[h.task] :
                l \in DOMAIN status'[h.task] /\ status'[h.task][l] = status[h.task][l]
          /\ \E l \in DOMAIN status'[h.task] : status'[h.task][l] = h.fact
          /\ \A j \in 1 .. MaxTasks : j # h.task => status'[j] = status[j]
      BY <1>1, <3>1, <3>2, <3>3, ToldKeeps
    <3>5. h.task <= Len(tasks)
      BY <3>2, LenProperties DEF SlotPart, LoopTypes
    <3>6. \A j \in 1 .. MaxTasks : \A l \in DOMAIN status'[j] :
            \/ \E m \in DOMAIN status[j] : status'[j][l] = status[j][m]
            \/ h.task = j /\ ~IsLog(h) /\ status'[j][l] = h.fact
      BY <3>1, <3>4
    <3>7. \A j \in 1 .. MaxTasks : \A l \in DOMAIN status[j] :
            l \in DOMAIN status'[j] /\ status'[j][l] = status[j][l]
      BY <3>4
    <3>8. \A j \in 1 .. MaxTasks : /\ Ordered(status'[j])
                                   /\ status[j] # <<>> => status'[j] # <<>>
      BY <3>4 DEF FactPart, FactsKept, StreamKept
    <3>9. \A j \in 1 .. MaxTasks :
            j > Len(tasks) => \A k \in DOMAIN status'[j] : status'[j][k] = "Started"
      <4>1. Len(tasks) \in Nat
        BY LenProperties DEF SlotPart, LoopTypes
      <4>2. \A j \in 1 .. MaxTasks : j > Len(tasks) => j # h.task
        BY <3>2, <3>5, <4>1
      <4> QED BY <3>4, <4>2 DEF FactPart, FactsKept, StreamKept
    <3> QED BY <3>4, <3>6, <3>7, <3>8, <3>9
  <2> QED BY <2>1, <2>2
<1>8. DOMAIN tasks \subseteq 1 .. MaxTasks
  BY MaxTasksNat, LenProperties DEF SlotPart, LoopTypes
<1>9. FactTypes'
  BY <1>4, <1>7 DEF FactTypes
<1>10. StreamKept'
  <2>1. hand.kind = "Spawn" => Len(tasks) + 1 \in 1 .. MaxTasks
    BY MaxTasksNat, LenProperties DEF SlotPart, LoopTypes, HandKept
  <2>2. \A j \in DOMAIN tasks : status'[j] # <<>>
    BY <1>7, <1>8 DEF FactPart, FactsKept, StreamKept
  <2>3. hand.kind = "Spawn" => status'[Len(tasks) + 1] # <<>>
    BY <1>7, <2>1 DEF FactPart, FactsKept, StreamKept
  <2> QED BY <1>7, <2>2, <2>3 DEF StreamKept
<1>11. \A k \in DOMAIN chan :
         k # 1 /\ ~IsLog(chan[k]) /\ ~IsLog(h) /\ chan[k].task = h.task
            => Rank(h.fact) <= Rank(chan[k].fact)
  BY <1>2 DEF FactPart, FactsKept, ChanKept
<1>12. 1 \in DOMAIN chan /\ h.task \in DOMAIN tasks
  BY <1>2 DEF FactPart, FactsKept, ChanKept
<1>13. ChanKept'
  <2>1. \A k \in DOMAIN chan' : chan'[k].task \in DOMAIN tasks'
    BY <1>5 DEF FactPart, FactsKept, ChanKept
  <2>2. ASSUME NEW k \in DOMAIN chan', NEW l \in DOMAIN chan', k < l,
               chan'[k].task = chan'[l].task, ~IsLog(chan'[k]), ~IsLog(chan'[l])
        PROVE  Rank(chan'[k].fact) <= Rank(chan'[l].fact)
    <3>1. k + d \in DOMAIN chan /\ l + d \in DOMAIN chan /\ k + d < l + d
      BY <1>4, <1>5, <2>2
    <3> QED BY <1>5, <2>2, <3>1 DEF FactPart, FactsKept, ChanKept
  <2>3. ASSUME NEW k \in DOMAIN chan', ~IsLog(chan'[k])
        PROVE  Behind(chan[k].task, chan[k].fact)'
    <3> DEFINE j == chan'[k].task
               g == chan'[k].fact
    <3>1. k + d \in DOMAIN chan /\ chan'[k] = chan[k + d] /\ chan'[k] \in FactType
      BY <1>4, <1>5, ElementOfSeq
    <3>2. Behind(j, g) /\ j \in 1 .. MaxTasks
      BY <1>8, <2>3, <3>1 DEF FactPart, FactsKept, ChanKept
    <3>3. h.task = j /\ ~IsLog(h) => Rank(h.fact) <= Rank(g)
      <4>1. CASE k + d = 1
        <5>1. g = h.fact /\ (~IsLog(h) => h.fact \in {"Step", "End", "Late"})
          BY <1>2, <3>1, <4>1 DEF IsLog, FactType
        <5> QED BY <5>1 DEF Rank
      <4>2. CASE k + d # 1
        BY <1>11, <2>3, <3>1, <4>2
      <4> QED BY <4>1, <4>2
    <3>4. \A l \in DOMAIN status'[j] : Rank(status'[j][l]) <= Rank(g)
      <4>1. \A m \in DOMAIN status[j] : Rank(status[j][m]) <= Rank(g)
        BY <3>2 DEF Behind
      <4> HIDE DEF h, j, g
      <4> QED BY <1>7, <3>2, <3>3, <4>1
    <3> QED BY <3>4 DEF Behind
  <2>4. \A k \in DOMAIN chan' :
          chan'[k].fact \in {"End", "Late"} => tasks'[chan'[k].task].state # "Running"
    BY <1>5 DEF FactPart, FactsKept, ChanKept
  <2>5. ASSUME NEW j \in DOMAIN tasks, tasks[j].state = "Running"
        PROVE  ~Over(j)'
    <3>1. ~Over(j) /\ ~(h.task = j /\ h.fact \in {"End", "Late"})
      BY <1>2, <1>12, <2>5 DEF FactPart, FactsKept, ChanKept
    <3>2. \A l \in DOMAIN status'[j] : status'[j][l] \notin {"End", "Late"}
      <4>1. \A m \in DOMAIN status[j] : status[j][m] \notin {"End", "Late"}
        BY <3>1 DEF Over
      <4> HIDE DEF h
      <4> QED BY <1>7, <1>8, <3>1, <4>1
    <3> QED BY <3>2 DEF Over
  <2> QED BY <2>1, <2>2, <2>3, <2>4, <2>5 DEF ChanKept
<1>14. EndKept'
  <2>1. ASSUME NEW j \in DOMAIN tasks, tasks[j].state \in {"Returned", "Joined"}
        PROVE  EndKnown(j)'
    <3>1. EndKnown(j) /\ j \in 1 .. MaxTasks
      BY <1>8, <2>1 DEF FactPart, FactsKept, EndKept
    <3>2. \A k \in DOMAIN status[j] :
            \E l \in DOMAIN status'[j] : status'[j][l] = status[j][k]
      BY <1>7, <3>1
    <3>3. ASSUME NEW k \in DOMAIN chan, chan[k] = FactOf(j, "End")
          PROVE  \/ \E l \in DOMAIN chan' : chan'[l] = chan[k]
                 \/ chan[k] \in lost'
                 \/ \E l \in DOMAIN status'[j] : status'[j][l] = "End"
      <4>1. CASE k # 1
        BY <1>6, <4>1
      <4>2. CASE k = 1 /\ chan' = chan
        BY <4>2
      <4>3. CASE k = 1 /\ chan' # chan
        <5>1. h.fact = "End" /\ h.task = j /\ ~IsLog(h)
          BY <1>2, <3>3, <4>3 DEF FactOf, IsLog
        <5>2. CASE h \in lost'
          BY <1>2, <4>3, <5>2
        <5>3. CASE status' = Told(h.task, h.fact)
          <6>1. CASE status' # status
            BY <1>7, <5>1, <6>1
          <6>2. CASE status' = status
            <7>1. status'[j] = Append(status[j], "End")
              BY <1>1, <3>1, <5>1, <5>3 DEF Told
            <7>2. status[j] \in Seq(Facts) /\ "End" \in Facts
              BY <1>1, <3>1 DEF Facts
            <7> QED BY <6>2, <7>1, <7>2, AppendProperties, LenProperties
          <6> QED BY <6>1, <6>2
        <5> QED BY <4>3, <5>1, <5>2, <5>3 DEF Taken
      <4> QED BY <4>1, <4>2, <4>3
    <3> QED BY <3>1, <3>2, <3>3, EndStays DEF Taken
  <2>2. pc # "Returned" /\ (pc = "Bind" => clones' = {})
    BY DEF FactPart, FactsKept, EndKept, PublisherEnded
  <2> QED BY <2>1, <2>2 DEF EndKept
<1> QED BY <1>9, <1>10, <1>13, <1>14 DEF FactPart, FactsKept

\* The publisher tells a fact, fails, or gives it up.
LEMMA FactsPublished ==
  ASSUME SlotPart, FactPart, Publish \/ PublishFails
  PROVE  FactPart'
<1>1. chan # <<>> /\ UNCHANGED <<pc, hand, tasks, clones>>
  BY DEF Publish, PublishFails, loopVars
<1>2. Taken
  <2>1. CASE Publish
    BY <2>1 DEF Publish, Taken
  <2>2. CASE PublishFails
    <3>1. lost \subseteq lost'
      BY <2>2 DEF PublishFails
    <3> QED BY <2>2, <3>1 DEF PublishFails, Taken
  <2> QED BY <2>1, <2>2
<1> QED BY <1>1, <1>2, FactsTaken

\* Every step keeps the facts.
LEMMA FactsStep ==
  ASSUME SlotPart, FactPart, [Next]_vars
  PROVE  FactPart'
  BY FactsRest, FactsStarted, FactsSettle, FactsSent, FactsPublished, BoundsAssumption
     DEF Next, Done, FinishDelivery, FinishDeliveryLost

-----------------------------------------------------------------------------
(* The presence                                                            *)

PresPart == pc \in Places /\ PresTypes /\ PresenceKept

\* A step of the loop that writes no presence, or any step beside the loop.
LEMMA PresFrame ==
  ASSUME PresPart, UNCHANGED <<presence, entry>>, faults' \in Nat, faults' = 0 => faults = 0,
         UNCHANGED drain,
         \/ pc' = pc
         \/ pc' \in Places \ {"Bind"} /\ pc \in {"Select", "Publish", "Finish"}
              /\ pc' \notin {"Flush", "Returned"}
  PROVE  PresPart'
<1>1. PresTypes' /\ pc' \in Places
  BY DEF PresPart, PresTypes
<1>2. PresenceKept'
  BY DEF PresPart, PresTypes, PresenceKept, Phase
<1> QED BY <1>1, <1>2 DEF PresPart

\* A failure counts, and after it nothing is said of the entry.
LEMMA FaultCounts ==
  ASSUME faults \in Nat, Faulty PROVE faults' \in Nat /\ faults' # 0
  BY DEF Faulty

\* Every step keeps what the presence entry says.
LEMMA PresStep ==
  ASSUME PresPart, [Next]_vars
  PROVE  PresPart'
<1> USE DEF loopVars, cancelBus, factVars, presVars
<1>0. faults \in Nat /\ presence \in PresType /\ drain \in BOOLEAN
  BY DEF PresPart, PresTypes
<1>1. CASE \/ PullerEnds \/ PullerAttached \/ DrainElapsed
           \/ \E m \in Messages : TakeTrigger(m)
           \/ PublishStarted \/ StartedFails
           \/ FinishDelivery \/ FinishDeliveryLost
           \/ \E r \in RunIds, op \in {"Put", "Delete"} : Order(r, op)
           \/ WatchEnds \/ CancelEvent \/ CancelReset
           \/ \E i \in DOMAIN tasks :
                 \/ Join(i) \/ DetachedEnds(i)
                 \/ \E o \in BOOLEAN : RunEnds(i, o) \/ RunPanics(i, o) \/ RunAborted(i, o)
                 \/ \E log \in BOOLEAN : Emit(i, log)
           \/ Publish \/ PublishFails
           \/ ShutdownSignal \/ Done \/ UNCHANGED vars
  <2>1. UNCHANGED <<presence, entry>> /\ (UNCHANGED faults \/ Faulty)
    BY <1>1 DEF PullerEnds, PullerAttached, DrainElapsed, TakeTrigger, PublishStarted,
                StartedFails, FinishDelivery, FinishDeliveryLost, Settle, Fine, Order,
                WatchEnds, CancelEvent, CancelReset, Join, DetachedEnds, RunEnds, RunPanics,
                RunAborted, TaskOver, Emit, Publish, PublishFails, ShutdownSignal, Done, vars
  <2>2. UNCHANGED drain
    BY <1>1 DEF PullerEnds, PullerAttached, DrainElapsed, TakeTrigger, PublishStarted,
                StartedFails, FinishDelivery, FinishDeliveryLost, Settle, Order,
                WatchEnds, CancelEvent, CancelReset, Join, DetachedEnds, RunEnds, RunPanics,
                RunAborted, TaskOver, Emit, Publish, PublishFails, ShutdownSignal, Done, vars
  <2>3. \/ pc' = pc
        \/ /\ pc \in {"Select", "Publish", "Finish"}
           /\ pc' \in {"Poll", "Close", "Publish", "Finish"}
    BY <1>1 DEF PullerEnds, PullerAttached, DrainElapsed, TakeTrigger, Pulling,
                PublishStarted,
                StartedFails, FinishDelivery, FinishDeliveryLost, Settle, Order,
                WatchEnds, CancelEvent, CancelReset, Join, DetachedEnds, RunEnds, RunPanics,
                RunAborted, TaskOver, Emit, Publish, PublishFails, ShutdownSignal, Done, vars
  <2>4. faults' \in Nat /\ (faults' = 0 => faults = 0)
    BY <1>0, <2>1, FaultCounts
  <2> QED BY <2>1, <2>2, <2>3, <2>4, PresFrame DEF Places
<1>2. CASE Bind
  <2>1. PresTypes' /\ pc' \in Places
    BY <1>2 DEF Bind, PresPart, PresTypes, Places
  <2>2. PresenceKept'
    BY <1>2 DEF Bind, PresPart, PresenceKept, Phase
  <2> QED BY <2>1, <2>2 DEF PresPart
<1>3. CASE BindFails
  <2>1. PresTypes' /\ pc' \in Places /\ faults' # 0
    BY <1>0, <1>3, FaultCounts DEF BindFails, PresTypes, Places
  <2>2. PresenceKept'
    BY <1>3, <2>1 DEF BindFails, PresenceKept
  <2> QED BY <2>1, <2>2 DEF PresPart
<1>4. CASE Poll
  <2>1. /\ UNCHANGED drain /\ pc = "Poll" /\ pc' \in {"Close", "Select"}
        /\ presence.phase = Phase /\ Phase' = Phase
    BY <1>4 DEF Poll, PresPart, PresenceKept, Phase
  <2>2. CASE PollDue
    <3>1. presence' = [presence EXCEPT !.last = "Fresh"] /\ Apply(presence.phase)
      BY <1>4, <2>2 DEF Poll
    <3>2. presence' \in PresType /\ presence'.phase = presence.phase /\ presence'.last = "Fresh"
      BY <1>0, <3>1 DEF PresType
    <3>3. faults' \in Nat /\ (faults' = 0 => entry' = presence.phase)
      BY <1>0, <3>1, FaultCounts DEF Apply, Fine
    <3>4. PresTypes' /\ pc' \in Places
      BY <1>0, <2>1, <3>2, <3>3 DEF PresTypes, Places
    <3>5. PresenceKept'
      BY <2>1, <3>2, <3>3 DEF PresenceKept
    <3> QED BY <3>4, <3>5 DEF PresPart
  <2>3. CASE ~PollDue
    <3>1. UNCHANGED <<presence, entry, faults>>
      BY <1>4, <2>3 DEF Poll
    <3>2. presence.last # "None"
      BY <2>1, <2>3 DEF PollDue, NextDue, Phase
    <3>3. PresTypes' /\ pc' \in Places
      BY <1>0, <2>1, <3>1 DEF PresTypes, Places
    <3>4. PresenceKept'
      BY <2>1, <3>1, <3>2 DEF PresPart, PresenceKept
    <3> QED BY <3>3, <3>4 DEF PresPart
  <2> QED BY <2>2, <2>3
<1>5. CASE Shutdown
  <2>1. /\ UNCHANGED <<faults, entry>> /\ pc = "Select" /\ pc' = "Poll"
        /\ ~drain /\ drain' = TRUE /\ presence' = PresenceDrained
    BY <1>5 DEF Shutdown
  <2>2. presence' = [phase |-> "Draining", last |-> "None"]
    BY <2>1 DEF PresenceDrained, PresPart, PresenceKept, Phase
  <2>3. PresTypes' /\ pc' \in Places
    BY <1>0, <2>1, <2>2 DEF PresTypes, PresType, Places
  <2>4. PresenceKept'
    BY <2>1, <2>2 DEF PresenceKept, Phase
  <2> QED BY <2>3, <2>4 DEF PresPart
<1>6. CASE Heartbeat
  <2>1. /\ UNCHANGED <<faults, entry, drain>> /\ pc = "Select" /\ pc' = "Poll"
        /\ presence' = [presence EXCEPT !.last = "Due"]
    BY <1>6 DEF Heartbeat
  <2>2. presence' \in PresType /\ presence'.phase = presence.phase /\ presence'.last = "Due"
    BY <1>0, <2>1 DEF PresType
  <2>3. PresTypes' /\ pc' \in Places
    BY <1>0, <2>1, <2>2 DEF PresTypes, Places
  <2>4. PresenceKept'
    BY <2>1, <2>2 DEF PresPart, PresenceKept, Phase
  <2> QED BY <2>3, <2>4 DEF PresPart
<1>7. CASE Close
  <2>1. /\ UNCHANGED drain /\ pc = "Close" /\ pc' = "Flush" /\ Apply("None")
        /\ presence' = [presence EXCEPT !.phase = "Closed"]
    BY <1>7 DEF Close, PresenceClosed
  <2>2. presence' \in PresType
    BY <1>0, <2>1 DEF PresType
  <2>3. faults' \in Nat /\ (faults' = 0 => entry' = "None")
    BY <1>0, <2>1, FaultCounts DEF Apply, Fine
  <2>4. PresTypes' /\ pc' \in Places
    BY <1>0, <2>1, <2>2, <2>3 DEF PresTypes, Places
  <2>5. PresenceKept'
    BY <2>1, <2>3 DEF PresenceKept
  <2> QED BY <2>4, <2>5 DEF PresPart
<1>8. CASE Return
  <2>1. UNCHANGED <<drain, presence, entry, faults>> /\ pc = "Flush" /\ pc' = "Returned"
    BY <1>8 DEF Return
  <2>2. PresTypes' /\ pc' \in Places
    BY <1>0, <2>1 DEF PresTypes, Places
  <2>3. PresenceKept'
    BY <2>1 DEF PresPart, PresenceKept
  <2> QED BY <2>2, <2>3 DEF PresPart
<1> QED BY <1>1, <1>2, <1>3, <1>4, <1>5, <1>6, <1>7, <1>8, BoundsAssumption DEF Next

-----------------------------------------------------------------------------
(* The orders                                                              *)

OrderPart == OrderTypes /\ OrdersKept

\* A finite set as a sequence: every element is in it, and nothing else.
LEMMA AllInSeq ==
  ASSUME NEW S, IsFiniteSet(S)
  PROVE  SetToSeq(S) \in Seq(S) /\ \A x \in S : \E k \in DOMAIN SetToSeq(S) : SetToSeq(S)[k] = x
<1> DEFINE n == Cardinality(S)
           s == SetToSeq(S)
<1>1. n \in Nat /\ ExistsBijection(1 .. n, S)
  BY FS_CardinalityType
<1>2. PICK f \in Bijection(1 .. n, S) : TRUE
  BY <1>1 DEF ExistsBijection
<1>3. f \in [1 .. n -> S] /\ IsInjective(f)
  BY <1>2 DEF Bijection, Injection
<1>4. s \in [1 .. n -> S] /\ IsInjective(s)
  BY <1>3 DEF SetToSeq
<1> HIDE DEF s
<1>5. s \in Injection(1 .. n, S)
  BY <1>4 DEF Injection
<1>6. Cardinality(1 .. n) = n
  BY <1>1, FS_Interval
<1>7. s \in Surjection(1 .. n, S)
  BY <1>5, <1>6, FS_Injection
<1>8. \A x \in S : \E k \in 1 .. n : s[k] = x
  BY <1>7 DEF Surjection
<1>9. s \in Seq(S) /\ DOMAIN s = 1 .. n
  BY <1>1, <1>4
<1> QED BY <1>8, <1>9 DEF s

\* Steps that touch neither the bucket, the watch nor the cancel set.
LEMMA OrdersFrame ==
  ASSUME OrderPart, UNCHANGED <<bucket, watch, feed, cancels>>, SameTasks,
         \A j \in DOMAIN tasks :
            /\ tasks'[j].state # "Joined" => tasks[j].state # "Joined"
            /\ tasks[j].cancelled => tasks'[j].cancelled
  PROVE  OrderPart'
<1>1. OrderTypes'
  BY DEF OrderPart, OrderTypes
<1>2. OrdersKept'
  BY DEF OrderPart, OrdersKept, Pending, LastFor, SameTasks
<1> QED BY <1>1, <1>2 DEF OrderPart

\* jobs writes an order, and an open watch gives it after the others.
LEMMA OrdersOrder ==
  ASSUME OrderPart, NEW r \in RunIds, NEW op \in {"Put", "Delete"}, Order(r, op)
  PROVE  OrderPart'
<1> USE DEF loopVars
<1>0. /\ bucket \in [RunIds -> {"None", "Put", "Delete"}] /\ feed \in Seq(Entries)
      /\ cancels \subseteq RunIds /\ watch \in {"Open", "Ended"}
  BY DEF OrderPart, OrderTypes
<1>1. /\ bucket' = [bucket EXCEPT ![r] = op] /\ UNCHANGED <<watch, cancels, tasks>>
      /\ feed' = IF watch = "Open" THEN Append(feed, [op |-> op, run |-> r]) ELSE feed
  BY DEF Order
<1>2. /\ bucket' \in [RunIds -> {"None", "Put", "Delete"}]
      /\ \A x \in RunIds : bucket'[x] = IF x = r THEN op ELSE bucket[x]
  BY <1>0, <1>1
<1>3. IsFiniteSet({x \in RunIds : bucket'[x] # "None"})
  <2>1. {x \in RunIds : bucket'[x] # "None"} = {x \in RunIds : bucket[x] # "None"} \cup {r}
    BY <1>2
  <2> QED BY <2>1, FS_AddElement DEF OrderPart, OrdersKept
<1>4. CASE watch = "Ended"
  BY <1>0, <1>1, <1>2, <1>3, <1>4 DEF OrderPart, OrderTypes, OrdersKept
<1>5. CASE watch = "Open"
  <2> DEFINE e == [op |-> op, run |-> r]
  <2>1. e \in Entries /\ e.op = op /\ e.run = r
    BY DEF Entries
  <2>2. feed' = Append(feed, e)
    BY <1>1, <1>5
  <2> HIDE DEF e
  <2>3. /\ feed' \in Seq(Entries) /\ Len(feed') = Len(feed) + 1
        /\ \A k \in 1 .. Len(feed) : feed'[k] = feed[k]
        /\ feed'[Len(feed) + 1] = e
    BY <1>0, <2>1, <2>2, AppendProperties
  <2>4. Len(feed) \in Nat /\ DOMAIN feed = 1 .. Len(feed) /\ DOMAIN feed' = 1 .. Len(feed')
    BY <1>0, <2>3, LenProperties
  <2>5. \A k \in DOMAIN feed' : k \in DOMAIN feed \/ k = Len(feed) + 1
    BY <2>3, <2>4
  <2>6. DOMAIN feed \subseteq DOMAIN feed' /\ Len(feed) + 1 \in DOMAIN feed'
    BY <2>3, <2>4
  <2>7. \A x \in RunIds : Pending(x)' \/ (x \in cancels' <=> bucket'[x] = "Put")
    <3>1. Pending(r)'
      BY <2>1, <2>3, <2>6 DEF Pending
    <3>2. \A x \in RunIds : Pending(x) => Pending(x)'
      BY <2>3, <2>4, <2>6 DEF Pending
    <3> QED BY <1>1, <1>2, <1>5, <3>1, <3>2 DEF OrderPart, OrdersKept
  <2>8. ASSUME NEW k \in DOMAIN feed', LastFor(k)'
        PROVE  feed'[k].op = bucket'[feed'[k].run]
    <3>0. \A l \in DOMAIN feed' : l > k => feed'[l].run # feed'[k].run
      BY <2>8 DEF LastFor
    <3>1. CASE k = Len(feed) + 1
      BY <1>2, <2>1, <2>3, <3>1
    <3>2. CASE k \in DOMAIN feed
      <4>1. feed'[k] = feed[k] /\ feed[k] \in Entries
        BY <1>0, <2>3, <2>4, <3>2, ElementOfSeq
      <4>2. Len(feed) + 1 > k
        BY <2>4, <3>2
      <4>3. feed[k].run # r /\ feed[k].run \in RunIds
        BY <2>1, <2>3, <2>6, <3>0, <4>1, <4>2 DEF Entries
      <4>4. LastFor(k)
        BY <2>3, <2>4, <2>6, <3>0, <4>1 DEF LastFor
      <4> QED BY <1>2, <1>5, <3>2, <4>1, <4>3, <4>4 DEF OrderPart, OrdersKept
    <3> QED BY <2>5, <3>1, <3>2
  <2>9. OrderTypes'
    BY <1>0, <1>1, <1>2, <2>3 DEF OrderTypes
  <2>10. OrdersKept'
    BY <1>1, <1>3, <2>7, <2>8 DEF OrderPart, OrdersKept
  <2> QED BY <2>9, <2>10 DEF OrderPart
<1> QED BY <1>0, <1>4, <1>5

\* The watch ends, with the last of its entries not given.
LEMMA OrdersEnd ==
  ASSUME OrderPart, WatchEnds
  PROVE  OrderPart'
<1>1. UNCHANGED <<bucket, cancels, tasks>> /\ watch' = "Ended"
  BY DEF WatchEnds, loopVars
<1>2. feed' \in Seq(Entries)
  <2>1. PICK n \in 0 .. Len(feed) : feed' = SubSeq(feed, 1, n)
    BY DEF WatchEnds
  <2>2. feed \in Seq(Entries)
    BY DEF OrderPart, OrderTypes
  <2>3. \A k \in 1 .. n : feed[k] \in Entries
    BY <2>2, ElementOfSeq, LenProperties
  <2> QED BY <2>1, <2>2, <2>3, LenProperties, SubSeqProperties
<1>3. OrderTypes'
  BY <1>1, <1>2 DEF OrderPart, OrderTypes
<1>4. OrdersKept'
  BY <1>1 DEF OrderPart, OrdersKept
<1> QED BY <1>3, <1>4 DEF OrderPart

\* The loop applies an entry, to the set and to the tokens of the run.
LEMMA OrdersEvent ==
  ASSUME SlotPart, OrderPart, CancelEvent
  PROVE  OrderPart'
<1>0. /\ bucket \in [RunIds -> {"None", "Put", "Delete"}] /\ feed \in Seq(Entries)
      /\ cancels \subseteq RunIds /\ tasks \in Seq(TaskType)
  BY DEF OrderPart, OrderTypes, SlotPart, LoopTypes
<1> DEFINE h == Head(feed)
<1>1. /\ feed # <<>> /\ feed' = Tail(feed) /\ UNCHANGED <<bucket, watch>>
      /\ cancels' = Applied(h)
      /\ tasks' = IF h.op = "Put" THEN Fired(tasks, h.run) ELSE tasks
  BY DEF CancelEvent
<1>2. h = feed[1] /\ h \in Entries /\ Len(feed) \in Nat /\ DOMAIN feed = 1 .. Len(feed)
      /\ Len(feed) > 0
  BY <1>0, <1>1, EmptySeq, LenProperties, HeadTailProperties
<1>3. /\ feed' \in Seq(Entries) /\ Len(feed') = Len(feed) - 1
      /\ \A k \in 1 .. Len(feed') : feed'[k] = feed[k + 1]
  BY <1>0, <1>1, HeadTailProperties
<1>4. DOMAIN feed' = 1 .. Len(feed')
  BY <1>3, LenProperties
<1>5. h.run \in RunIds /\ h.op \in {"Put", "Delete"}
  BY <1>2 DEF Entries
<1> HIDE DEF h
<1>6. \A k \in DOMAIN feed' : k + 1 \in DOMAIN feed /\ feed'[k] = feed[k + 1]
  BY <1>2, <1>3, <1>4
<1>7. \A k \in DOMAIN feed : k = 1 \/ (k - 1 \in DOMAIN feed' /\ feed'[k - 1] = feed[k])
  BY <1>2, <1>3, <1>4
<1>8. cancels' \subseteq RunIds
  BY <1>0, <1>1, <1>5 DEF Applied
<1>9. \A x \in RunIds : x # h.run => (x \in cancels' <=> x \in cancels)
  BY <1>1 DEF Applied
<1>10. h.run \in cancels' <=> h.op = "Put"
  BY <1>1, <1>5 DEF Applied
<1>11. ASSUME watch = "Open", NEW x \in RunIds, ~Pending(x)'
       PROVE  x \in cancels' <=> bucket[x] = "Put"
  <2>0. \A k \in DOMAIN feed' : feed'[k].run # x
    BY <1>11 DEF Pending
  <2>1. CASE x = h.run
    <3>1. LastFor(1)
      BY <1>2, <1>7, <2>0, <2>1 DEF LastFor
    <3>2. 1 \in DOMAIN feed
      BY <1>2
    <3> QED BY <1>2, <1>10, <1>11, <2>1, <3>1, <3>2 DEF OrderPart, OrdersKept
  <2>2. CASE x # h.run
    <3>1. ~Pending(x)
      BY <1>2, <1>7, <2>0, <2>2 DEF Pending
    <3> QED BY <1>9, <1>11, <2>2, <3>1 DEF OrderPart, OrdersKept
  <2> QED BY <2>1, <2>2
<1>12. ASSUME watch = "Open", NEW k \in DOMAIN feed', LastFor(k)'
       PROVE  feed'[k].op = bucket[feed'[k].run]
  <2>1. \A l \in DOMAIN feed' : l > k => feed'[l].run # feed'[k].run
    BY <1>12 DEF LastFor
  <2>2. LastFor(k + 1)
    <3> SUFFICES ASSUME NEW l \in DOMAIN feed, l > k + 1
                 PROVE  feed[l].run # feed[k + 1].run
      BY DEF LastFor
    <3>1. l - 1 \in DOMAIN feed' /\ feed'[l - 1] = feed[l] /\ l - 1 > k
      BY <1>2, <1>4, <1>7
    <3> QED BY <1>6, <2>1, <3>1
  <2> QED BY <1>6, <1>12, <2>2 DEF OrderPart, OrdersKept
<1>13. ASSUME NEW j \in DOMAIN tasks', tasks'[j].state # "Joined", tasks'[j].run \in cancels'
       PROVE  tasks'[j].cancelled
  <2>1. CASE h.op = "Put"
    <3>1. /\ DOMAIN tasks' = DOMAIN tasks
          /\ tasks'[j].run = tasks[j].run /\ tasks'[j].state = tasks[j].state
          /\ tasks[j].cancelled \/ (tasks[j].run = h.run /\ tasks[j].state # "Joined")
                => tasks'[j].cancelled
      BY <1>0, <1>1, <2>1, FiredOnly
    <3>2. tasks[j].run \in cancels \/ tasks[j].run = h.run
      BY <1>1, <1>13, <2>1, <3>1 DEF Applied
    <3> QED BY <1>13, <3>1, <3>2 DEF OrderPart, OrdersKept
  <2>2. CASE h.op # "Put"
    BY <1>1, <1>13, <2>2 DEF OrderPart, OrdersKept, Applied
  <2> QED BY <2>1, <2>2
<1>14. OrderTypes'
  BY <1>1, <1>3, <1>8 DEF OrderPart, OrderTypes
<1>15. OrdersKept'
  BY <1>1, <1>11, <1>12, <1>13 DEF OrderPart, OrdersKept
<1> QED BY <1>14, <1>15 DEF OrderPart

\* The watch is opened again: the set starts empty and the history fills it.
LEMMA OrdersReset ==
  ASSUME OrderPart, CancelReset
  PROVE  OrderPart'
<1> DEFINE S == {[op |-> bucket[r], run |-> r] : r \in {x \in RunIds : bucket[x] # "None"}}
           T == {x \in RunIds : bucket[x] # "None"}
<1>0. bucket \in [RunIds -> {"None", "Put", "Delete"}] /\ IsFiniteSet(T)
  BY DEF OrderPart, OrderTypes, OrdersKept
<1>1. /\ UNCHANGED <<bucket, tasks>> /\ watch' = "Open" /\ cancels' = {}
      /\ feed' = SetToSeq(S)
  BY DEF CancelReset, Replay
<1>2. IsFiniteSet(S)
  <2> DEFINE f == [x \in T |-> [op |-> bucket[x], run |-> x]]
  <2>1. f \in Surjection(T, S)
    BY DEF Surjection
  <2> QED BY <1>0, <2>1, FS_Surjection
<1>3. \A e \in S : e \in Entries /\ e.op = bucket[e.run]
  BY <1>0 DEF Entries
<1>4. \A x \in RunIds : bucket[x] # "None" => \E e \in S : e.run = x
  <2> SUFFICES ASSUME NEW x \in RunIds, bucket[x] # "None"
               PROVE  \E e \in S : e.run = x
    OBVIOUS
  <2>1. [op |-> bucket[x], run |-> x] \in S
    OBVIOUS
  <2> QED BY <2>1
<1> HIDE DEF S
<1>5. feed' \in Seq(S) /\ \A e \in S : \E k \in DOMAIN feed' : feed'[k] = e
  BY <1>1, <1>2, AllInSeq
<1>6. \A k \in DOMAIN feed' : feed'[k] \in S
  BY <1>5, ElementOfSeq
<1>7. feed' \in Seq(Entries)
  BY <1>3, <1>5, <1>6, LenProperties
<1>8. \A x \in RunIds : Pending(x)' \/ (x \in cancels' <=> bucket'[x] = "Put")
  BY <1>1, <1>4, <1>5 DEF Pending
<1>9. \A k \in DOMAIN feed' : feed'[k].op = bucket'[feed'[k].run]
  BY <1>1, <1>3, <1>6
<1>10. OrderTypes'
  BY <1>0, <1>1, <1>7 DEF OrderTypes
<1>11. OrdersKept'
  BY <1>1, <1>8, <1>9 DEF OrderPart, OrdersKept
<1> QED BY <1>10, <1>11 DEF OrderPart

\* Every step keeps the orders.
LEMMA OrdersStep ==
  ASSUME SlotPart, OrderPart, [Next]_vars
  PROVE  OrderPart'
<1> USE DEF loopVars, cancelBus, factVars, presVars
<1>0. tasks \in Seq(TaskType)
  BY DEF SlotPart, LoopTypes
<1>1. CASE \/ Bind \/ BindFails \/ PullerEnds \/ PullerAttached
           \/ Poll \/ Shutdown \/ DrainElapsed \/ Heartbeat
           \/ \E m \in Messages : TakeTrigger(m)
           \/ PublishStarted \/ StartedFails
           \/ \E i \in DOMAIN tasks :
                 DetachedEnds(i) \/ \E log \in BOOLEAN : Emit(i, log)
           \/ Publish \/ PublishFails
           \/ Close \/ Return \/ ShutdownSignal \/ Done \/ UNCHANGED vars
  <2>1. UNCHANGED <<bucket, watch, feed, cancels, tasks>>
    BY <1>1 DEF Bind, BindFails, PullerEnds, PullerAttached, Poll, Shutdown, DrainElapsed,
                Heartbeat, TakeTrigger, PublishStarted, StartedFails, DetachedEnds,
                Emit, Publish, PublishFails, Close, Return, ShutdownSignal, Done, vars
  <2> QED BY <1>0, <2>1, OrdersFrame DEF SameTasks
<1>2. CASE \E i \in DOMAIN tasks, o \in BOOLEAN :
               Join(i) \/ RunEnds(i, o) \/ RunPanics(i, o) \/ RunAborted(i, o)
  <2>1. PICK i \in DOMAIN tasks, o \in BOOLEAN :
               Join(i) \/ RunEnds(i, o) \/ RunPanics(i, o) \/ RunAborted(i, o)
    BY <1>2
  <2>2. /\ UNCHANGED <<bucket, watch, feed, cancels>>
        /\ tasks[i].state \in {"Running", "Returned", "Panicked"}
    BY <2>1 DEF Join, RunEnds, RunPanics, RunAborted, TaskOver
  <2>3. PICK x \in {"Joined", "Gone", "Returned", "Panicked", "Aborted"} :
          tasks' = [tasks EXCEPT ![i].state = x]
    <3>1. CASE Join(i)
      BY <3>1 DEF Join
    <3>2. CASE RunEnds(i, o)
      BY <3>2 DEF RunEnds, TaskOver
    <3>3. CASE RunPanics(i, o)
      BY <3>3 DEF RunPanics, TaskOver
    <3>4. CASE RunAborted(i, o)
      BY <3>4 DEF RunAborted, TaskOver
    <3> QED BY <2>1, <3>1, <3>2, <3>3, <3>4
  <2>4. OnlyState(i, x)
    BY <1>0, <2>3, Restated DEF States, Holding
  <2> QED BY <2>2, <2>4, OrdersFrame DEF OnlyState
<1>3. ASSUME NEW back, Settle(back) PROVE OrderPart'
  <2>1. UNCHANGED <<bucket, watch, feed, cancels>>
    BY <1>3 DEF Settle
  <2>2. CASE hand.kind # "Spawn"
    BY <1>0, <1>3, <2>1, <2>2, OrdersFrame DEF SameTasks, Settle
  <2>3. CASE hand.kind = "Spawn"
    <3>1. /\ DOMAIN tasks = 1 .. Len(tasks) /\ DOMAIN tasks' = 1 .. Len(tasks')
          /\ Len(tasks') = Len(tasks) + 1 /\ Len(tasks) \in Nat
          /\ \A j \in DOMAIN tasks : tasks'[j] = tasks[j]
          /\ tasks'[Len(tasks')] = Task(hand.msg, hand.msg \in cancels)
      BY <1>3, <2>3, Spawned DEF SlotPart
    <3>2. \A j \in DOMAIN tasks' : j = Len(tasks') \/ j \in DOMAIN tasks
      BY <3>1
    <3>3. tasks'[Len(tasks')].run \in cancels => tasks'[Len(tasks')].cancelled
      <4> DEFINE last == tasks'[Len(tasks')]
      <4>0. \A a, b : Task(a, b).run = a /\ Task(a, b).cancelled = b
        BY DEF Task
      <4>1. last.run = hand.msg /\ last.cancelled = (hand.msg \in cancels)
        <5>1. last = Task(hand.msg, hand.msg \in cancels)
          BY <3>1
        <5> HIDE DEF last
        <5>2. last.run = Task(hand.msg, hand.msg \in cancels).run
          BY <5>1, Zenon
        <5>3. last.cancelled = Task(hand.msg, hand.msg \in cancels).cancelled
          BY <5>1, Zenon
        <5> QED BY <4>0, <5>2, <5>3, Zenon
      <4> HIDE DEF last
      <4>2. last.run \in cancels => last.cancelled
        BY <4>1, Zenon
      <4> QED BY <4>2 DEF last
    <3>4. OrderTypes'
      BY <2>1 DEF OrderPart, OrderTypes
    <3>5. OrdersKept'
      BY <2>1, <3>1, <3>2, <3>3 DEF OrderPart, OrdersKept, Pending, LastFor
    <3> QED BY <3>4, <3>5 DEF OrderPart
  <2> QED BY <2>2, <2>3
<1> QED BY <1>1, <1>2, <1>3, OrdersOrder, OrdersEnd, OrdersEvent, OrdersReset,
           BoundsAssumption
        DEF Next, FinishDelivery, FinishDeliveryLost

-----------------------------------------------------------------------------
(* The theorems                                                            *)

\* The loop before it is bound.
LEMMA InitKit == Init => SlotPart /\ FactPart /\ PresPart /\ OrderPart
<1> SUFFICES ASSUME Init PROVE SlotPart /\ FactPart /\ PresPart /\ OrderPart
  OBVIOUS
<1>1. /\ tasks = <<>> /\ DOMAIN tasks = {} /\ Len(tasks) = 0 /\ tasks \in Seq(TaskType)
      /\ chan = <<>> /\ DOMAIN chan = {} /\ chan \in Seq(FactType)
      /\ feed = <<>> /\ DOMAIN feed = {} /\ feed \in Seq(Entries)
  BY DEF Init
<1>2. slots.inFlight = {} /\ slots \in SlotType
  BY DEF Init, SlotType
<1>3. aborting \in BOOLEAN /\ ~aborting
  BY Zenon DEF Init
<1>4. hand \in HandType /\ hand.kind = "None" /\ pc = "Bind"
  BY DEF Init, NoHand, HandType, Messages
<1>5. SlotPart
  <2>1. LoopTypes
    BY <1>1, <1>2, <1>3, <1>4, MaxTasksNat DEF LoopTypes, Places
  <2>2. HandKept
    BY <1>1, <1>3, <1>4 DEF HandKept
  <2>3. IsFiniteSet(slots.inFlight) /\ Cardinality(slots.inFlight) <= Capacity
    BY <1>2, FS_EmptySet, CapacityAssumption
  <2>4. SlotsKept
    BY <1>1, <1>2, <1>4, <2>3 DEF SlotsKept
  <2> QED BY <2>1, <2>2, <2>4 DEF SlotPart
<1>6. FactPart
  <2>1. \A i \in 1 .. MaxTasks : status[i] = <<>> /\ DOMAIN status[i] = {}
    BY DEF Init
  <2>2. status \in [1 .. MaxTasks -> Seq(Facts)]
    <3>1. <<>> \in Seq(Facts)
      OBVIOUS
    <3> QED BY <3>1 DEF Init
  <2>3. FactTypes
    BY <1>1, <2>2 DEF FactTypes
  <2>4. StreamKept
    BY <1>1, <1>4, <2>1 DEF StreamKept, Ordered
  <2>5. clones = {}
    BY DEF Init
  <2>6. ChanKept /\ EndKept
    BY <1>1, <1>4, <2>5 DEF ChanKept, EndKept
  <2> QED BY <2>3, <2>4, <2>6 DEF FactPart, FactsKept
<1>7. PresPart
  BY DEF Init, NewPresence, PresPart, PresTypes, PresType, PresenceKept, Places, Phase
<1>8. OrderPart
  <2>1. /\ bucket = [r \in RunIds |-> "None"] /\ cancels = {} /\ watch = "Open"
    BY DEF Init
  <2>2. {r \in RunIds : bucket[r] # "None"} = {}
    BY <2>1
  <2>3. IsFiniteSet({r \in RunIds : bucket[r] # "None"})
    BY <2>2, FS_EmptySet
  <2>4. OrderTypes
    BY <1>1, <2>1 DEF OrderTypes
  <2>5. OrdersKept
    BY <1>1, <2>1, <2>3 DEF OrdersKept
  <2> QED BY <2>4, <2>5 DEF OrderPart
<1> QED BY <1>5, <1>6, <1>7, <1>8

\* The parts, with the place of the loop that two of them speak of, are the invariant.
LEMMA Parts ==
  (SlotPart /\ FactPart /\ PresPart /\ OrderPart) <=> KitInv
  BY DEF SlotPart, FactPart, PresPart, OrderPart, KitInv, KitTypes, LoopTypes

\* The inductive invariant of the run loop holds in every state.
THEOREM KitInvariant == Spec => []KitInv
<1> DEFINE P == SlotPart /\ FactPart /\ PresPart /\ OrderPart
<1>1. Init => P
  BY InitKit
<1>2. P /\ [Next]_vars => P'
  BY SlotsStep, FactsStep, PresStep, OrdersStep DEF OrderPart
<1>3. P => KitInv
  BY Parts
<1> QED BY <1>1, <1>2, <1>3, PTL DEF Spec

\* No more runs are under way than there are slots, none is under way twice although
\* its trigger comes again, and a slot that is taken has a trigger or a task for it.
THEOREM RunsFitSlots == Spec => []SlotsHold
<1>1. KitInv => SlotsHold
  <2> SUFFICES ASSUME KitInv PROVE SlotsHold
    OBVIOUS
  <2>1. SlotsKept /\ LoopTypes /\ HandKept
    BY DEF KitInv, KitTypes
  <2>2. \A i, j \in LiveTasks : tasks[i].run = tasks[j].run => i = j
    BY <2>1 DEF SlotsKept, LiveTasks, IsLive, Holds, Holding
  <2>3. ASSUME ~aborting
        PROVE  slots.inFlight = Claiming \cup HeldBy({"Running", "Returned", "Panicked", "Gone"})
    <3>1. \A i \in DOMAIN tasks : tasks[i] \in TaskType
      BY <2>1, ElementOfSeq DEF LoopTypes
    <3>2. \A i \in DOMAIN tasks : tasks[i].run \in RunIds
      BY <3>1 DEF TaskType
    <3>3. slots.inFlight \subseteq RunIds
      BY <2>1 DEF LoopTypes, SlotType
    <3>4. \A r : r \in Claiming <=> hand.kind \in {"Start", "Spawn"} /\ hand.msg = r
      BY DEF Claiming
    <3>5. \A r : r \in HeldBy(Holding) <=> \E i \in DOMAIN tasks : Holds(i) /\ tasks[i].run = r
      BY DEF HeldBy, Holds
    <3>6. \A r : r \in Claiming \cup HeldBy(Holding) => r \in RunIds
      BY <2>1, <3>2, <3>4, <3>5 DEF HandKept
    <3>7. \A r \in RunIds : r \in slots.inFlight <=> r \in Claiming \cup HeldBy(Holding)
      BY <2>1, <2>3, <3>4, <3>5 DEF SlotsKept
    <3> QED BY <3>3, <3>6, <3>7 DEF Holding
  <2> QED BY <2>1, <2>2, <2>3 DEF SlotsHold, SlotsKept
<1> QED BY <1>1, KitInvariant, PTL

\* The bus is told the facts of every run in their order and its end whenever its code
\* returned, and of the runner that it drains and that it is gone.
THEOREM ToldTheBus == Spec => []BusTold
<1>1. KitInv => BusTold
  <2> SUFFICES ASSUME KitInv PROVE BusTold
    OBVIOUS
  <2>1. LoopTypes /\ StreamKept /\ EndKept /\ PresenceKept
    BY DEF KitInv, KitTypes, FactsKept
  <2>2. DOMAIN tasks \subseteq 1 .. MaxTasks
    BY <2>1, MaxTasksNat, LenProperties DEF LoopTypes
  <2>3. \A i \in DOMAIN tasks : InOrder(i)
    BY <2>1, <2>2 DEF StreamKept, Ordered, InOrder
  <2>4. FactsTold
    BY <2>1, <2>3 DEF FactsTold, EndKept, PublisherEnded
  <2>5. DrainTold
    BY <2>1 DEF DrainTold, PresenceKept, Phase
  <2> QED BY <2>4, <2>5 DEF BusTold
<1> QED BY <1>1, KitInvariant, PTL

\* Once the feed has caught up with the bucket, the cancel set is the bucket, and the
\* token of every run under way whose order stands is cancelled.
THEOREM OrdersKnown == Spec => []CaughtUp
<1>1. KitInv => CaughtUp
  <2> SUFFICES ASSUME KitInv, watch = "Open", feed = <<>>
               PROVE  /\ cancels = {r \in RunIds : bucket[r] = "Put"}
                      /\ \A i \in LiveTasks :
                            bucket[tasks[i].run] = "Put" => tasks[i].cancelled
    BY DEF CaughtUp
  <2>1. OrdersKept /\ OrderTypes /\ LoopTypes
    BY DEF KitInv, KitTypes
  <2>2. \A r \in RunIds : r \in cancels <=> bucket[r] = "Put"
    BY <2>1 DEF OrdersKept, Pending
  <2>3. cancels = {r \in RunIds : bucket[r] = "Put"}
    BY <2>1, <2>2 DEF OrderTypes
  <2>4. \A i \in DOMAIN tasks : tasks[i] \in TaskType
    BY <2>1, ElementOfSeq DEF LoopTypes
  <2>5. \A i \in LiveTasks : tasks[i].run \in RunIds /\ tasks[i].state # "Joined" /\ i \in DOMAIN tasks
    BY <2>4 DEF LiveTasks, IsLive, TaskType
  <2> QED BY <2>1, <2>2, <2>3, <2>5 DEF OrdersKept
<1> QED BY <1>1, KitInvariant, PTL

=============================================================================
