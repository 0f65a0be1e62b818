------------------------- MODULE RunLifecycleProofs -------------------------
(***************************************************************************)
(* The life of a Run, for every set of instances and lookups: what jobs    *)
(* hears of its start and of its end, when its hooks are called, what a    *)
(* lookup finds, and what the report of a drain tells.                     *)
(*                                                                         *)
(* LifeInv has one part per kind of state.  The queue: what waits is in    *)
(* the fifo, once and in order (LineKept), and how the completed fact      *)
(* stands to its parts (ResultsKept).  The places: which steps of the slot,*)
(* the closing and the drain go together (PlacesKept).  Then what each     *)
(* property needs beyond these (StartKept, EndKept, HooksKept, ByIdKept,   *)
(* DrainKept).                                                             *)
(***************************************************************************)
EXTENDS RunLifecycle, TLAPS

Result(w) == queue.result[w]
Parts == {"Answer", "SavedState"}
EndKinds == {"Answer", "SavedState", "Completed", "Failed"}
Queued(w) == \E i \in DOMAIN queue.fifo : queue.fifo[i] = w

\* The steps of the slot after the start, up to the hand-over of the end, and after it.
Body == {"prepare", "reading", "starting", "executing", "settle", "observing", "call",
         "calling", "wait", "sleep", "drained", "ready"}
Ended == {"drop", "remove", "spawn", "add"}
AbortsSlot == {"take", "join", "left", "forget", "runs", "call", "calling", "remove"}

\* The line of the queue: what waits is in the fifo, once and in order.
LineKept ==
  /\ \A w \in RunWrites : Result(w) = "waiting" <=> Queued(w)
  /\ \A i, j \in DOMAIN queue.fifo : queue.fifo[i] = queue.fifo[j] => i = j
  /\ \A i, j \in DOMAIN queue.fifo :
       queue.fifo[i] = "Completed" /\ queue.fifo[j] \in Parts => j < i

\* How the results of the writes stand to one another.
ResultsKept ==
  /\ \A w \in RunWrites : Result(w) = "LeftUnsent" => queue.refs = {}
  /\ \A w \in Parts : Result(w) # "absent" => Result("Completed") # "absent"
  /\ Result("Completed") \in {"Delivered", "Refused", "Failed"} =>
       \A w \in Parts : Result(w) \in {"absent", "Delivered"}
  /\ Result("Completed") # "absent" /\ Result("Failed") # "absent" =>
       Result("Completed") = "DependsOnRemoved"

\* Where the slot, the closing and the drain are together.
PlacesKept ==
  /\ closing.at # "none" => slot.at \in {"add", "returned"}
  /\ slot.at = "add" => closing.at = "spawned"
  /\ closing.listed => closing.at \in ClosingAwaits \cup {"delist"} /\ slot.at = "returned"
  /\ closing.at \in ClosingAwaits \cup {"delist"} /\ slot.at = "returned" /\ ~closing.listed =>
       drain.at = "join"
  /\ drain.at \in {"closings", "sleep"} => slot.at = "returned"
  /\ drain.at \in AbortsSlot => slot.at \in {"returned", "aborted"}
  /\ slot.at = "aborted" => drain.at \in {"take", "runs", "call", "calling", "remove", "done"}
  /\ drain.at = "join" => /\ closing.at \in ClosingAwaits \cup {"delist", "forget", "over"}
                          /\ ~closing.listed
  /\ drain.at \in {"left", "forget"} => closing.at \in {"over", "aborted"}
  /\ closing.at = "aborted" => drain.at \in {"left", "forget", "done"}
  /\ drain.at \in {"runs", "call", "calling", "remove", "done"} =>
       slot.at \in {"returned", "aborted"} /\ closing.at \in {"none", "forget", "over", "aborted"}
  /\ slot.at \in Body \cup Ended \cup {"opening"} => queue.refs = {"record", "task"}
  /\ closing.at \in ClosingAwaits => queue.refs = {"record", "task"}
  /\ drain.at = "left" /\ closing.at = "aborted" => "record" \in queue.refs

\* The started fact and the trigger.
StartKept ==
  /\ slot.at = "registered" => (\A w \in RunWrites : Result(w) = "absent") /\ ~rec.context
  /\ slot.at \in {"registered", "opening"} => rec.trigger = "held" /\ ~rec.graph
  /\ slot.at \in Body \cup Ended =>
       /\ Result("Started") = "Delivered" /\ ~rec.startedPending
       /\ rec.source = "Trigger" => rec.trigger = "acked"
  /\ rec.trigger = "back" => slot.at = "returned"
  /\ AckAfterStart

\* The writes of the end and who hands them over.
EndKept ==
  /\ slot.at \in Body \cup {"registered", "opening", "aborted"} => Terminal = {}
  /\ slot.at = "returned" /\ closing.at = "none" => Terminal = {}
  /\ slot.ending = "Cancelled" => Terminal = {}
  /\ closing.at \in {"drained", "delist", "forget", "over"} =>
       /\ \A w \in EndKinds : Result(w) \notin {"waiting", "LeftUnsent"}
       /\ (\E w \in Parts : Result(w) \in {"Refused", "Failed"}) => Result("Failed") # "absent"

\* The instances and their hooks.
Reporting(i) == observer \in {"insert", "bump", "look"} \X {i}
HooksKept ==
  /\ ~rec.graph => inst.made = {} /\ observer = Idle
  /\ inst.hooked \subseteq inst.made /\ inst.running \subseteq inst.hooked
  /\ inst.byId \subseteq inst.made
  /\ slot.calling \subseteq inst.made /\ drain.due \subseteq inst.made
  /\ \A i \in Instances : Reporting(i) => i \in inst.made
  /\ \A i \in Instances : inst.calls[i] = IF i \in inst.hooked THEN 1 ELSE 0
  /\ slot.calling # {} => slot.at = "calling"
  /\ drain.due # {} => drain.at = "calling"
  /\ rec.obsOver => observer = Idle
  /\ slot.at \in {"call", "calling", "wait", "sleep", "drained", "ready", "drop"} =>
       Observed /\ rec.phase = "ExecutorReturned"
  /\ rec.phase # "Live" =>
       \A i \in inst.made \ inst.hooked :
         Reporting(i) \/ slot.at = "call" \/ i \in slot.calling
                      \/ drain.at = "call" \/ i \in drain.due
  /\ slot.at \in {"drained", "ready", "drop"} /\ rec.obsExpected => inst.running = {}

\* The instances that the lookup holds.
ByIdKept ==
  /\ \A i \in Lookups : lookup[i].at = "wait" /\ i \in inst.byId
                        => lookup[i].fresh \/ observer = <<"bump", i>>
  /\ slot.at \in {"remove", "spawn", "add"} => rec.phase = "Dropped"
  /\ slot.at = "returned" => ~rec.graph \/ rec.phase \in {"Dropped", "Aborted"}
  /\ slot.at = "aborted" /\ drain.at \in {"call", "calling", "remove", "done"} =>
       rec.phase = "Aborted"
  /\ slot.at \in {"spawn", "add", "returned"} \/ (slot.at = "aborted" /\ drain.at = "done")
       => inst.byId = {}

\* What the report of the drain tells.
DrainKept ==
  /\ slot.at = "aborted" /\ drain.at \in {"take", "runs"} => rec.registered
  /\ slot.at = "aborted" /\ drain.at \in {"remove", "done"} =>
       drain.report.listed /\ drain.report.aborted
  /\ slot.at \notin {"returned", "aborted"} => rec.registered
  /\ drain.at \in {"forget", "done"} =>
       \A w \in Terminal : Result(w) \in {"waiting", "LeftUnsent"} => w \in drain.report.unsent

LifeInv == /\ TypeOK /\ LineKept /\ ResultsKept /\ PlacesKept
           /\ StartKept /\ EndKept /\ HooksKept /\ ByIdKept /\ DrainKept
-----------------------------------------------------------------------------
(* Which steps change which variable                                       *)

RecSteps ==
  \/ Unmade \/ StartedDelivered \/ StartedRemoved \/ MakeBook \/ RunStarted
  \/ ExecutorReturns \/ ExecutorRefuses \/ BodyPanics \/ CancelOrder \/ ObservationsEnd
  \/ SetReturned \/ SetDropped \/ SpawnClosing \/ ClosingForgets
  \/ ForgetLeft \/ AbortRun \/ AbortRemove
InstSteps ==
  \/ \E i \in Instances : \/ Created(i) \/ Insert(i) \/ LookAtPhase(i) \/ EventHandled(i)
                          \/ HookReturns(i)
  \/ CallEach \/ RemoveRun \/ AbortCallEach \/ AbortRemove
SlotSteps ==
  Execute \/ ExecutorReturns \/ ExecutorRefuses \/ BodyPanics \/ Hooks \/ AbortSlot
LookupSteps == Lookup \/ \E i \in Instances : Bump(i)
ObserverSteps == \E i \in Instances : Created(i) \/ Insert(i) \/ Bump(i) \/ LookAtPhase(i)
ClosingSteps == SpawnClosing \/ AddClosing \/ Closing \/ TakeClosings \/ JoinClosing
QueueSteps ==
  \/ Queue \/ NodeWrites \/ OpenQueue \/ StartedRemoved \/ HandOverEnd
  \/ ClosingEnds \/ ClosingDrained \/ AbortSlot \/ JoinClosing \/ ForgetLeft \/ AbortRemove
DrainSteps == ClosingDelists \/ DrainBegins \/ DrainWaits \/ Timeout \/ DrainAborts

\* What changes a variable is one of its steps.
LEMMA Frames ==
  ASSUME [Next]_vars
  PROVE  /\ RecSteps \/ UNCHANGED rec
         /\ InstSteps \/ UNCHANGED inst
         /\ SlotSteps \/ UNCHANGED slot
         /\ LookupSteps \/ UNCHANGED lookup
         /\ ObserverSteps \/ UNCHANGED observer
         /\ ClosingSteps \/ UNCHANGED closing
         /\ QueueSteps \/ UNCHANGED queue
         /\ DrainSteps \/ UNCHANGED drain
<1> USE DEF RecSteps, InstSteps, SlotSteps, LookupSteps, ObserverSteps, ClosingSteps,
            QueueSteps, DrainSteps
<1>1. CASE Queue \/ NodeWrites \/ CancelOrder \/ Hooks
  BY <1>1 DEF Queue, QueueEnds, QueueStops, NodeWrites, CancelOrder, Hooks, HookReturns
<1>2. CASE Executor
  BY <1>2 DEF Executor, ExecutorReturns, ExecutorRefuses, BodyPanics, Created, Insert, Bump,
     LookAtPhase, EventHandled, ObservationsEnd
<1>3. CASE Execute
  BY <1>3 DEF Execute, Unmade, OpenQueue, StartedDelivered, StartedRemoved, Prepare, ReadFails,
     MakeBook, StartRefused, RunStarted, Settle, SetReturned, CallAll, CallEach, HooksReturned,
     HooksChanged, Settled, HandOverEnd, SetDropped, RemoveRun, SpawnClosing, AddClosing
<1>4. CASE Closing
  BY <1>4 DEF Closing, ClosingBegins, ClosingEnds, ClosingDrained, ClosingDelists,
     ClosingForgets
<1>5. CASE Lookup
  BY <1>5 DEF Lookup, LookupSubscribe, LookupCheck, LookupChanged, Look
<1>6. CASE DrainBegins \/ DrainWaits \/ Timeout
  BY <1>6 DEF DrainBegins, DrainWaits, SlotEnded, ClosingsLook, ClosingsChanged, Timeout
<1>7. CASE DrainAborts
  BY <1>7 DEF DrainAborts, AbortSlot, TakeClosings, JoinClosing, ReportLeft, ForgetLeft,
     AbortRun, AbortCallAll, AbortCallEach, AbortRemove
<1>8. CASE UNCHANGED vars
  BY <1>8 DEF vars
<1> QED BY <1>1, <1>2, <1>3, <1>4, <1>5, <1>6, <1>7, <1>8 DEF Next

-----------------------------------------------------------------------------
(* Types                                                                   *)

RecSet ==
  [registered : BOOLEAN, source : {"Trigger", "Claim"}, trigger : {"held", "acked", "back"},
   cancelled : BOOLEAN, startedPending : BOOLEAN, executorRunning : BOOLEAN,
   obsExpected : BOOLEAN, obsOver : BOOLEAN, graph : BOOLEAN,
   phase : {"Live", "ExecutorReturned", "Aborted", "Dropped"}, book : BOOLEAN, context : BOOLEAN]

\* The record keeps its type.
LEMMA RecTypes ==
  ASSUME TypeOK, [Next]_vars
  PROVE  RecordType'
<1> USE DEF TypeOK, RecordType
<1>1. CASE Unmade \/ StartedDelivered \/ MakeBook
  <2>1. CASE Unmade \/ StartedDelivered
    BY <2>1 DEF Unmade, StartedDelivered, Acknowledged
  <2>2. CASE MakeBook
    BY <2>2 DEF MakeBook, Acknowledged
  <2> QED BY <1>1, <2>1, <2>2
<1>2. CASE StartedRemoved
  <2> DEFINE b == queue.result["Started"] # "Refused"
             R(x) == [rec EXCEPT !.startedPending = x, !.trigger = AckRefused, !.registered = FALSE]
  <2>1. b \in BOOLEAN
    OBVIOUS
  <2>2. AckRefused \in {"held", "acked", "back"}
    BY DEF AckRefused, Acknowledged
  <2>3. \A x \in BOOLEAN : R(x) \in RecSet
    BY <2>2 DEF RecSet
  <2>4. rec' = R(b)
    BY <1>2, Zenon DEF StartedRemoved
  <2> HIDE DEF b, R
  <2>5. rec' \in RecSet
    BY <2>1, <2>3, <2>4, Zenon
  <2> QED BY <2>5 DEF RecSet
<1>3. CASE RunStarted \/ ExecutorReturns \/ ExecutorRefuses \/ BodyPanics
  <2>1. CASE RunStarted \/ ExecutorReturns
    BY <2>1 DEF RunStarted, ExecutorReturns
  <2>2. CASE ExecutorRefuses \/ BodyPanics
    BY <2>2 DEF ExecutorRefuses, BodyPanics
  <2> QED BY <1>3, <2>1, <2>2
<1>4. CASE CancelOrder \/ ObservationsEnd \/ SetReturned \/ SetDropped \/ SpawnClosing
  <2>1. CASE CancelOrder \/ ObservationsEnd
    BY <2>1 DEF CancelOrder, ObservationsEnd
  <2>2. CASE SetReturned \/ SetDropped \/ SpawnClosing
    BY <2>2 DEF SetReturned, SetDropped, SpawnClosing
  <2> QED BY <1>4, <2>1, <2>2
<1>5. CASE ClosingForgets \/ ForgetLeft \/ AbortRun \/ AbortRemove
  <2>1. CASE ClosingForgets
    BY <2>1 DEF ClosingForgets
  <2>2. CASE ForgetLeft
    BY <2>2 DEF ForgetLeft
  <2>3. CASE AbortRun
    BY <2>3 DEF AbortRun
  <2>4. CASE AbortRemove
    BY <2>4 DEF AbortRemove
  <2> QED BY <1>5, <2>1, <2>2, <2>3, <2>4
<1>6. CASE UNCHANGED rec
  BY <1>6
<1> QED BY <1>1, <1>2, <1>3, <1>4, <1>5, <1>6, Frames DEF RecSteps

\* The hooks that are called for S.
LEMMA CalledType ==
  ASSUME InstanceType, NEW S \in SUBSET Instances
  PROVE  /\ Called(S) \in [made : SUBSET Instances, hooked : SUBSET Instances,
                           running : SUBSET Instances, byId : SUBSET Instances,
                           calls : [Instances -> Nat]]
         /\ Called(S).made = inst.made /\ Called(S).byId = inst.byId
         /\ Called(S).hooked = inst.hooked \cup S
         /\ Called(S).running = inst.running \cup (S \ inst.hooked)
         /\ \A i \in Instances : Called(S).calls[i] =
              IF i \in S \ inst.hooked THEN inst.calls[i] + 1 ELSE inst.calls[i]
<1> DEFINE c == [i \in Instances |-> IF i \in S \ inst.hooked THEN inst.calls[i] + 1
                                     ELSE inst.calls[i]]
<1>1. c \in [Instances -> Nat]
  BY DEF InstanceType
<1>2. Called(S) = [inst EXCEPT !.hooked = inst.hooked \cup (S \ inst.hooked),
                               !.running = inst.running \cup (S \ inst.hooked), !.calls = c]
  BY DEF Called, ClaimOnce
<1> HIDE DEF c
<1>3. /\ Called(S) \in [made : SUBSET Instances, hooked : SUBSET Instances,
                           running : SUBSET Instances, byId : SUBSET Instances,
                           calls : [Instances -> Nat]]
      /\ Called(S).made = inst.made /\ Called(S).byId = inst.byId
      /\ Called(S).hooked = inst.hooked \cup (S \ inst.hooked)
      /\ Called(S).running = inst.running \cup (S \ inst.hooked)
      /\ Called(S).calls = c
  BY <1>1, <1>2 DEF InstanceType
<1> QED BY <1>3 DEF c

\* The instances keep their type.
LEMMA InstTypes ==
  ASSUME TypeOK, [Next]_vars
  PROVE  InstanceType'
<1> USE DEF TypeOK
<1>1. CASE \E i \in Instances : Created(i) \/ Insert(i) \/ HookReturns(i)
  BY <1>1 DEF Created, Insert, HookReturns, InstanceType
<1>2. CASE \E i \in Instances : LookAtPhase(i) \/ EventHandled(i)
  <2>1. inst' = inst \/ \E S \in SUBSET Instances : inst' = Called(S)
    BY <1>2 DEF LookAtPhase, EventHandled
  <2> QED BY <2>1, CalledType DEF InstanceType
<1>3. CASE CallEach \/ AbortCallEach
  <2>1. \E S \in SUBSET Instances : inst' = Called(S)
    BY <1>3 DEF CallEach, AbortCallEach, SlotType, TaskTypes
  <2> QED BY <2>1, CalledType DEF InstanceType
<1>4. CASE RemoveRun \/ AbortRemove
  BY <1>4 DEF RemoveRun, AbortRemove, InstanceType
<1>5. CASE UNCHANGED inst
  BY <1>5 DEF InstanceType
<1> QED BY <1>1, <1>2, <1>3, <1>4, <1>5, Frames DEF InstSteps

\* The slot keeps its type.
LEMMA SlotTypes ==
  ASSUME TypeOK, [Next]_vars
  PROVE  SlotType'
<1> USE DEF TypeOK, SlotType, SlotAt, SlotAwaits
<1>1. CASE \/ Unmade \/ OpenQueue \/ StartedDelivered \/ StartedRemoved \/ Prepare \/ ReadFails
           \/ MakeBook \/ StartRefused \/ RunStarted
  <2>1. CASE Unmade \/ OpenQueue \/ StartedDelivered
    BY <2>1 DEF Unmade, OpenQueue, StartedDelivered, Ends, Goes
  <2>2. CASE StartedRemoved \/ Prepare
    BY <2>2 DEF StartedRemoved, Prepare, Ends, Goes
  <2>3. CASE ReadFails \/ MakeBook
    BY <2>3 DEF ReadFails, MakeBook, Ends, Goes
  <2>4. CASE StartRefused
    BY <2>4 DEF StartRefused, Ends
  <2>5. CASE RunStarted
    BY <2>5 DEF RunStarted, Goes, Ends
  <2> QED BY <1>1, <2>1, <2>2, <2>3, <2>4, <2>5
<1>2. CASE Settle
  BY <1>2 DEF Settle, Waiting
<1>3. CASE SetReturned \/ CallEach \/ HooksReturned \/ HooksChanged \/ Settled \/ HandOverEnd
  <2>1. CASE SetReturned \/ CallEach \/ HooksReturned
    BY <2>1 DEF SetReturned, CallEach, HooksReturned, Goes
  <2>2. CASE HooksChanged \/ Settled \/ HandOverEnd
    BY <2>2 DEF HooksChanged, Settled, HandOverEnd, Goes
  <2> QED BY <1>3, <2>1, <2>2
<1>4. CASE CallAll
  BY <1>4 DEF CallAll, InstanceType
<1>5. CASE SetDropped \/ RemoveRun \/ SpawnClosing \/ AddClosing
  BY <1>5 DEF SetDropped, RemoveRun, SpawnClosing, AddClosing, Goes
<1>6. CASE ExecutorReturns \/ ExecutorRefuses \/ BodyPanics
  BY <1>6 DEF ExecutorReturns, ExecutorRefuses, BodyPanics, Ends
<1>7. CASE Hooks
  <2>1. HookNote \in BOOLEAN
    BY DEF HookNote
  <2> QED BY <1>7, <2>1 DEF Hooks, HookReturns
<1>8. CASE AbortSlot
  BY <1>8 DEF AbortSlot
<1>9. CASE UNCHANGED slot
  BY <1>9
<1> QED BY <1>1, <1>2, <1>3, <1>4, <1>5, <1>6, <1>7, <1>8, <1>9, Frames DEF SlotSteps, Execute

\* The lookups, the observer, the closing and the drain keep their types.
LEMMA OtherTypes ==
  ASSUME TypeOK, [Next]_vars
  PROVE  TaskTypes'
<1> USE DEF TypeOK
<1>1. lookup' \in [Lookups -> [at : {"none", "check", "wait"}, fresh : BOOLEAN]]
  <2> DEFINE LT == [at : {"none", "check", "wait"}, fresh : BOOLEAN]
  <2>1. lookup \in [Lookups -> LT]
    BY DEF TaskTypes
  <2>2. CASE \E i \in Instances : Bump(i)
    <3>1. lookup' = [i \in Lookups |-> [lookup[i] EXCEPT !.fresh = @ \/ lookup[i].at # "none"]]
      BY <2>2 DEF Bump, Changed
    <3>2. \A i \in Lookups : (lookup[i].fresh \/ lookup[i].at # "none") \in BOOLEAN
      BY <2>1
    <3>3. \A i \in Lookups, b \in BOOLEAN : [lookup[i] EXCEPT !.fresh = b] \in LT
      BY <2>1
    <3>4. \A i \in Lookups : [lookup[i] EXCEPT !.fresh = @ \/ lookup[i].at # "none"] \in LT
      BY <3>2, <3>3
    <3> QED BY <3>1, <3>4
  <2>3. CASE Lookup
    <3>1. PICK i \in Lookups : LookupSubscribe(i) \/ LookupCheck(i) \/ LookupChanged(i)
      BY <2>3 DEF Lookup
    <3>2. PICK a \in {"none", "check", "wait"}, b \in {FALSE, lookup[i].fresh} :
            lookup' = [lookup EXCEPT ![i] = [at |-> a, fresh |-> b]]
      BY <3>1 DEF LookupSubscribe, LookupCheck, LookupChanged, Look
    <3>3. b \in BOOLEAN
      BY <2>1
    <3> QED BY <2>1, <3>2, <3>3
  <2>4. CASE UNCHANGED lookup
    BY <2>1, <2>4
  <2> QED BY <2>2, <2>3, <2>4, Frames DEF LookupSteps
<1>2. observer' \in {Idle} \cup {"insert", "bump", "look"} \X Instances
  <2>1. CASE ObserverSteps
    BY <2>1 DEF ObserverSteps, Created, Insert, Bump, LookAtPhase
  <2>2. CASE UNCHANGED observer
    BY <2>2 DEF TaskTypes
  <2> QED BY <2>1, <2>2, Frames
<1>3. closing' \in [at : ClosingAt, listed : BOOLEAN, covers : SUBSET RunWrites]
  <2> USE DEF TaskTypes, ClosingAt, ClosingAwaits
  <2>1. CASE SpawnClosing \/ AddClosing \/ TakeClosings \/ JoinClosing
    BY <2>1 DEF SpawnClosing, AddClosing, TakeClosings, JoinClosing
  <2>2. CASE Closing
    <3>1. Waiting \subseteq RunWrites
      BY DEF Waiting
    <3>2. CASE ClosingBegins \/ ClosingEnds
      BY <3>1, <3>2 DEF ClosingBegins, ClosingEnds
    <3>3. CASE ClosingDrained \/ ClosingDelists \/ ClosingForgets
      BY <3>3 DEF ClosingDrained, ClosingDelists, ClosingForgets
    <3> QED BY <2>2, <3>2, <3>3 DEF Closing
  <2>3. CASE UNCHANGED closing
    BY <2>3
  <2> QED BY <2>1, <2>2, <2>3, Frames DEF ClosingSteps
<1>4. drain' \in [at : DrainAt, note : BOOLEAN, due : SUBSET Instances,
                  report : [listed : BOOLEAN, aborted : BOOLEAN, unsent : SUBSET RunWrites]]
  <2> USE DEF TaskTypes, DrainAt
  <2>1. CASE ClosingDelists
    <3>1. (drain.at = "sleep") \in BOOLEAN
      OBVIOUS
    <3>2. \A b \in BOOLEAN : [drain EXCEPT !.note = b] \in
             [at : DrainAt, note : BOOLEAN, due : SUBSET Instances,
              report : [listed : BOOLEAN, aborted : BOOLEAN, unsent : SUBSET RunWrites]]
      OBVIOUS
    <3>3. drain' = [drain EXCEPT !.note = (drain.at = "sleep")]
      BY <2>1, Zenon DEF ClosingDelists
    <3> QED BY <3>1, <3>2, <3>3, Zenon
  <2>2. CASE DrainBegins \/ DrainWaits \/ Timeout
    BY <2>2 DEF DrainBegins, DrainWaits, SlotEnded, ClosingsLook, ClosingsChanged, Timeout, Drains
  <2>3. CASE AbortSlot \/ TakeClosings \/ JoinClosing \/ ForgetLeft \/ AbortRun \/ AbortRemove
    BY <2>3 DEF AbortSlot, TakeClosings, JoinClosing, ForgetLeft, AbortRun, AbortRemove, Drains
  <2>4. CASE AbortCallAll
    BY <2>4 DEF AbortCallAll, InstanceType
  <2>5. CASE ReportLeft \/ AbortCallEach
    <3>1. Unsent \in SUBSET RunWrites /\ (Unsent # {}) \in BOOLEAN
      BY DEF Unsent, Waiting
    <3> DEFINE r(l, a) == [listed |-> l, aborted |-> a, unsent |-> Unsent]
               D == [at : DrainAt, note : BOOLEAN, due : SUBSET Instances,
                     report : [listed : BOOLEAN, aborted : BOOLEAN, unsent : SUBSET RunWrites]]
    <3>2. \A l, a \in BOOLEAN :
            /\ [drain EXCEPT !.at = "forget", !.report = r(l, a)] \in D
            /\ [drain EXCEPT !.at = "remove", !.due = {}, !.report = r(l, a)] \in D
      BY <3>1
    <3>3. CASE ReportLeft
      <4>1. drain' = [drain EXCEPT !.at = "forget", !.report = r(Unsent # {}, FALSE)]
        BY <3>3, Zenon DEF ReportLeft
      <4> HIDE DEF D, r
      <4>2. drain' \in D
        BY <3>1, <3>2, <4>1, Zenon
      <4> QED BY <4>2 DEF D
    <3>4. CASE AbortCallEach
      <4>1. drain' = [drain EXCEPT !.at = "remove", !.due = {}, !.report = r(TRUE, TRUE)]
        BY <3>4, Zenon DEF AbortCallEach
      <4> HIDE DEF D, r
      <4>2. drain' \in D
        BY <3>2, <4>1, Zenon
      <4> QED BY <4>2 DEF D
    <3> QED BY <2>5, <3>3, <3>4
  <2>6. CASE UNCHANGED drain
    BY <2>6
  <2> QED BY <2>1, <2>2, <2>3, <2>4, <2>5, <2>6, Frames DEF DrainSteps, DrainAborts
<1> QED BY <1>1, <1>2, <1>3, <1>4 DEF TaskTypes

QueueSet ==
  [fifo : Seq(RunWrites), result : [RunWrites -> Results \cup {"absent", "waiting"}],
   refs : SUBSET {"record", "task"}]

\* The queue after the writes ws, or the write w, were handed over.
LEMMA HandedOverFields ==
  ASSUME NEW q \in QueueSet, NEW ws \in Seq(RunWrites)
  PROVE  /\ HandedOver(q, ws) \in QueueSet
         /\ HandedOver(q, ws).fifo = q.fifo \o ws
         /\ HandedOver(q, ws).refs = q.refs
         /\ \A w \in RunWrites : HandedOver(q, ws).result[w] =
              IF \E i \in DOMAIN ws : ws[i] = w THEN "waiting" ELSE q.result[w]
<1> DEFINE f == [w \in RunWrites |-> IF \E i \in DOMAIN ws : ws[i] = w THEN "waiting"
                                     ELSE q.result[w]]
<1>1. f \in [RunWrites -> Results \cup {"absent", "waiting"}]
  BY DEF QueueSet
<1>2. HandedOver(q, ws) = [q EXCEPT !.fifo = q.fifo \o ws, !.result = f]
  BY DEF HandedOver
<1>3. \A w \in RunWrites : f[w] = IF \E i \in DOMAIN ws : ws[i] = w THEN "waiting"
                                  ELSE q.result[w]
  OBVIOUS
<1>4. q.fifo \o ws \in Seq(RunWrites)
  BY DEF QueueSet
<1> HIDE DEF f
<1>5. /\ HandedOver(q, ws) \in QueueSet /\ HandedOver(q, ws).fifo = q.fifo \o ws
      /\ HandedOver(q, ws).refs = q.refs /\ HandedOver(q, ws).result = f
  BY <1>1, <1>2, <1>4 DEF QueueSet
<1> QED BY <1>3, <1>5

\* The sequences of writes that are handed over.
LEMMA WriteSeqs ==
  /\ <<>> \in Seq(RunWrites) /\ <<"Started">> \in Seq(RunWrites)
  /\ <<"PlanDeclared">> \in Seq(RunWrites) /\ <<"Failed">> \in Seq(RunWrites)
  /\ <<"Completed">> \in Seq(RunWrites) /\ <<"Answer", "Completed">> \in Seq(RunWrites)
  /\ <<"SavedState", "Completed">> \in Seq(RunWrites)
  /\ <<"Answer", "SavedState", "Completed">> \in Seq(RunWrites)
<1>1. /\ "Started" \in RunWrites /\ "PlanDeclared" \in RunWrites /\ "Failed" \in RunWrites
      /\ "Completed" \in RunWrites /\ "Answer" \in RunWrites /\ "SavedState" \in RunWrites
  BY DEF RunWrites
<1> QED BY <1>1

\* What hand_over hands over are writes of the Run.
LEMMA EndWritesType == \A ws \in EndWrites : ws \in Seq(RunWrites)
<1> DEFINE A == {<<>>, <<"Failed">>, <<"Completed">>, <<"Answer", "Completed">>,
                 <<"SavedState", "Completed">>, <<"Answer", "SavedState", "Completed">>}
<1>1. EndWrites \subseteq A
  BY DEF EndWrites, PanicWrites
<1>2. \A ws \in A : ws \in Seq(RunWrites)
  BY WriteSeqs
<1> QED BY <1>1, <1>2

\* None of these writes is a create, so a removed dependency is all it is told.
LEMMA BlockedResults ==
  ASSUME NEW w \in RunWrites
  PROVE  BlockedBy(w) \subseteq {"DependsOnRemoved"}
  BY DEF BlockedBy, Blocked, W, RunWrites

\* The queue keeps its type.
LEMMA QueueTypes ==
  ASSUME TypeOK, [Next]_vars
  PROVE  QueueType'
<1>0. queue \in QueueSet /\ (QueueType' <=> queue' \in QueueSet)
  BY DEF TypeOK, QueueType, QueueSet
<1>1. CASE QueueEnds
  <2> DEFINE w == Head(queue.fifo)
  <2>1. w \in RunWrites /\ Tail(queue.fifo) \in Seq(RunWrites)
    BY <1>0, <1>1 DEF QueueEnds, QueueSet
  <2>2. PICK r \in {"Delivered", "Refused", "Failed"} \cup BlockedBy(w) :
          queue' = [queue EXCEPT !.fifo = Tail(@), !.result[w] = r]
    BY <1>1 DEF QueueEnds
  <2>3. r \in Results
    BY <2>1, BlockedResults DEF Results, Removals
  <2>4. [queue.result EXCEPT ![w] = r] \in [RunWrites -> Results \cup {"absent", "waiting"}]
    BY <1>0, <2>1, <2>3 DEF QueueSet
  <2>5. queue' = [queue EXCEPT !.fifo = Tail(queue.fifo),
                               !.result = [queue.result EXCEPT ![w] = r]]
    BY <1>0, <2>2 DEF QueueSet
  <2> QED BY <1>0, <2>1, <2>4, <2>5 DEF QueueSet
<1>2. CASE QueueStops
  <2> DEFINE f == [w \in RunWrites |-> IF w \in Waiting THEN "LeftUnsent" ELSE queue.result[w]]
  <2>1. f \in [RunWrites -> Results \cup {"absent", "waiting"}]
    BY <1>0 DEF QueueSet, Results, Removals
  <2>2. queue' = [queue EXCEPT !.fifo = <<>>, !.result = f]
    BY <1>2 DEF QueueStops
  <2> HIDE DEF f
  <2>3. [queue EXCEPT !.fifo = <<>>, !.result = f] \in QueueSet
    BY <1>0, <2>1, WriteSeqs DEF QueueSet
  <2> QED BY <1>0, <2>2, <2>3
<1>3. CASE NodeWrites \/ ClosingEnds
  <2>1. UNCHANGED queue \/ \E ws \in {<<"PlanDeclared">>, <<"Failed">>} : queue' = HandedOver(queue, ws)
    BY <1>3 DEF NodeWrites, ClosingEnds
  <2>2. \A ws \in {<<"PlanDeclared">>, <<"Failed">>} : ws \in Seq(RunWrites)
    BY WriteSeqs
  <2> QED BY <1>0, <2>1, <2>2, HandedOverFields
<1>4. CASE OpenQueue
  <2>1. <<"Started">> \in Seq(RunWrites)
    BY DEF RunWrites
  <2> DEFINE q == HandedOver(queue, <<"Started">>)
  <2>2. q \in QueueSet /\ queue' = [q EXCEPT !.refs = {"record", "task"}]
    BY <1>0, <1>4, <2>1, HandedOverFields DEF OpenQueue
  <2> HIDE DEF q
  <2> QED BY <1>0, <2>2 DEF QueueSet
<1>5. CASE HandOverEnd
  <2>1. \E ws \in EndWrites : queue' = HandedOver(queue, ws)
    BY <1>5 DEF HandOverEnd
  <2> QED BY <1>0, <2>1, EndWritesType, HandedOverFields
<1>6. CASE StartedRemoved \/ ClosingDrained \/ AbortSlot \/ JoinClosing \/ ForgetLeft \/ AbortRemove
  <2>1. \E S \in SUBSET {"record", "task"} : queue' = [queue EXCEPT !.refs = S]
    <3>1. UNCHANGED queue => queue' = [queue EXCEPT !.refs = queue.refs]
      BY <1>0 DEF QueueSet
    <3>2. queue.refs \in SUBSET {"record", "task"}
      BY <1>0 DEF QueueSet
    <3> QED BY <1>6, <3>1, <3>2 DEF StartedRemoved, ClosingDrained, AbortSlot, JoinClosing,
               ForgetLeft, AbortRemove, NoTask, NoRecord
  <2> QED BY <1>0, <2>1 DEF QueueSet
<1>7. CASE UNCHANGED queue
  BY <1>0, <1>7
<1> QED BY <1>1, <1>2, <1>3, <1>4, <1>5, <1>6, <1>7, Frames DEF QueueSteps, Queue

\* Every step keeps the types.
LEMMA NextTypes == TypeOK /\ [Next]_vars => TypeOK'
  BY RecTypes, InstTypes, SlotTypes, OtherTypes, QueueTypes DEF TypeOK

-----------------------------------------------------------------------------
(* The queue                                                               *)

\* The fields of the queue.
LEMMA QueueFacts ==
  ASSUME TypeOK
  PROVE  /\ queue \in QueueSet /\ queue.fifo \in Seq(RunWrites) /\ queue.refs \subseteq {"record", "task"}
         /\ queue.result \in [RunWrites -> Results \cup {"absent", "waiting"}]
         /\ \A w \in RunWrites : Result(w) \in Results \cup {"absent", "waiting"}
         /\ Len(queue.fifo) \in Nat /\ DOMAIN queue.fifo = 1 .. Len(queue.fifo)
         /\ \A i \in DOMAIN queue.fifo : queue.fifo[i] \in RunWrites
<1>1. queue \in QueueSet
  BY DEF TypeOK, QueueType, QueueSet
<1>2. /\ queue.fifo \in Seq(RunWrites) /\ queue.refs \subseteq {"record", "task"}
      /\ queue.result \in [RunWrites -> Results \cup {"absent", "waiting"}]
  BY <1>1 DEF QueueSet
<1> QED BY <1>1, <1>2 DEF Result

\* What a step of the queue does to its fields.
LEMMA EndsFields ==
  ASSUME TypeOK, QueueEnds
  PROVE  \E w \in RunWrites :
         /\ queue.fifo # <<>> /\ queue.fifo[1] = w /\ 1 \in DOMAIN queue.fifo
         /\ queue.refs # {} /\ queue'.refs = queue.refs /\ queue'.fifo = Tail(queue.fifo)
         /\ \A x \in RunWrites \ {w} : Result(x)' = Result(x)
         /\ \/ BlockedBy(w) = {} /\ Result(w)' \in {"Delivered", "Refused", "Failed"}
            \/ BlockedBy(w) # {} /\ Result(w)' = "DependsOnRemoved"
<1>1. queue.fifo # <<>> /\ queue.refs # {}
  BY DEF QueueEnds
<1>2. /\ Head(queue.fifo) \in RunWrites /\ queue.fifo[1] = Head(queue.fifo)
      /\ 1 \in DOMAIN queue.fifo
  BY <1>1, QueueFacts
<1>3. PICK w \in RunWrites : w = Head(queue.fifo)
  BY <1>2
<1>4. PICK r \in (IF BlockedBy(w) = {} THEN {"Delivered", "Refused", "Failed"} ELSE BlockedBy(w)) :
        queue' = [queue EXCEPT !.fifo = Tail(@), !.result[w] = r]
  BY <1>3 DEF QueueEnds
<1>5. /\ queue'.refs = queue.refs /\ queue'.fifo = Tail(queue.fifo)
      /\ queue'.result = [queue.result EXCEPT ![w] = r]
  BY <1>4, QueueFacts DEF QueueSet
<1>6. queue'.result[w] = r /\ \A x \in RunWrites \ {w} : queue'.result[x] = queue.result[x]
  BY <1>5, QueueFacts
<1>7. \A x \in RunWrites : Result(x)' = queue'.result[x]
  BY DEF Result
<1>8. \A x \in RunWrites \ {w} : Result(x)' = Result(x)
  BY <1>6 DEF Result
<1>9. \/ BlockedBy(w) = {} /\ Result(w)' \in {"Delivered", "Refused", "Failed"}
      \/ BlockedBy(w) # {} /\ Result(w)' = "DependsOnRemoved"
  BY <1>4, <1>6, <1>7, BlockedResults
<1> QED BY <1>1, <1>2, <1>3, <1>5, <1>8, <1>9

\* The task of the queue ends: what waited is left unsent.
LEMMA StopsFields ==
  ASSUME TypeOK, QueueStops
  PROVE  /\ queue.refs = {} /\ queue'.refs = {} /\ queue'.fifo = <<>>
         /\ \A x \in RunWrites : Result(x)' = IF Result(x) = "waiting" THEN "LeftUnsent" ELSE Result(x)
<1> DEFINE f == [w \in RunWrites |-> IF w \in Waiting THEN "LeftUnsent" ELSE queue.result[w]]
<1>1. queue' = [queue EXCEPT !.fifo = <<>>, !.result = f] /\ queue.refs = {}
  BY DEF QueueStops
<1>2. \A x \in RunWrites : f[x] = IF Result(x) = "waiting" THEN "LeftUnsent" ELSE Result(x)
  BY DEF Waiting, Result
<1> HIDE DEF f
<1>3. queue'.fifo = <<>> /\ queue'.result = f /\ queue'.refs = queue.refs
  BY <1>1, QueueFacts DEF QueueSet
<1>4. \A x \in RunWrites : Result(x)' = f[x]
  BY <1>3 DEF Result
<1> QED BY <1>1, <1>2, <1>3, <1>4

\* Writes are handed over.
LEMMA JoinFields ==
  ASSUME TypeOK, NEW ws \in Seq(RunWrites), queue' = HandedOver(queue, ws)
  PROVE  /\ queue'.refs = queue.refs /\ queue'.fifo = queue.fifo \o ws
         /\ \A x \in RunWrites : Result(x)' = IF \E i \in DOMAIN ws : ws[i] = x THEN "waiting"
                                              ELSE Result(x)
<1>1. queue \in QueueSet
  BY QueueFacts
<1>2. /\ queue'.refs = queue.refs /\ queue'.fifo = queue.fifo \o ws
      /\ \A x \in RunWrites : queue'.result[x] = IF \E i \in DOMAIN ws : ws[i] = x THEN "waiting"
                                                  ELSE queue.result[x]
  <2> DEFINE h == HandedOver(queue, ws)
  <2>1. /\ h.fifo = queue.fifo \o ws /\ h.refs = queue.refs
        /\ \A w \in RunWrites : h.result[w] = IF \E i \in DOMAIN ws : ws[i] = w THEN "waiting"
                                             ELSE queue.result[w]
    BY <1>1, HandedOverFields, ZenonT(30)
  <2>2. queue' = h
    OBVIOUS
  <2> HIDE DEF h
  <2> QED BY <2>1, <2>2
<1> QED BY <1>2 DEF Result

\* A reference is dropped.
LEMMA RefsFields ==
  ASSUME TypeOK, NEW S, queue' = [queue EXCEPT !.refs = S]
  PROVE  queue'.refs = S /\ queue'.fifo = queue.fifo /\ queue'.result = queue.result
  BY QueueFacts DEF QueueSet

\* Writes that were absent join: the line stays in order.
LEMMA JoinLine ==
  ASSUME TypeOK, LineKept, NEW ws \in Seq(RunWrites), queue'.fifo = queue.fifo \o ws,
         \A x \in RunWrites : Result(x)' = IF \E i \in DOMAIN ws : ws[i] = x THEN "waiting"
                                           ELSE Result(x),
         \A i \in DOMAIN ws : Result(ws[i]) = "absent",
         \A i, j \in DOMAIN ws : ws[i] = ws[j] => i = j,
         \A i, j \in DOMAIN ws : ws[i] = "Completed" /\ ws[j] \in Parts => j < i,
         \A i \in DOMAIN ws : ws[i] \in Parts => Result("Completed") = "absent"
  PROVE  LineKept'
<1> DEFINE q == queue.fifo
           p == queue'.fifo
           n == Len(q)
           m == Len(ws)
<1>1. /\ q \in Seq(RunWrites) /\ n \in Nat /\ DOMAIN q = 1 .. n
      /\ \A i \in 1 .. n : q[i] \in RunWrites
  BY QueueFacts
<1>2. m \in Nat /\ DOMAIN ws = 1 .. m /\ \A i \in 1 .. m : ws[i] \in RunWrites
  OBVIOUS
<1>3. DOMAIN p = 1 .. (n + m) /\ \A i \in 1 .. n : p[i] = q[i]
  BY <1>1, <1>2
<1>4. \A i \in 1 .. m : p[n + i] = ws[i]
  BY <1>1, <1>2
<1>5. \A i \in 1 .. (n + m) : i \in 1 .. n \/ (i - n \in 1 .. m /\ p[i] = ws[i - n])
  <2> SUFFICES ASSUME NEW i \in 1 .. (n + m), i \notin 1 .. n
               PROVE  i - n \in 1 .. m /\ p[i] = ws[i - n]
    OBVIOUS
  <2>1. i - n \in 1 .. m /\ n + (i - n) = i
    BY <1>1, <1>2
  <2> QED BY <1>4, <2>1
<1>6. \A i \in 1 .. n, j \in 1 .. m : q[i] # ws[j]
  <2>1. \A i \in 1 .. n : Result(q[i]) = "waiting"
    BY <1>1 DEF LineKept, Queued
  <2> QED BY <1>2, <2>1
<1>7. \A w \in RunWrites : Result(w)' = "waiting" <=> \E i \in 1 .. (n + m) : p[i] = w
  <2> SUFFICES ASSUME NEW w \in RunWrites
               PROVE  Result(w)' = "waiting" <=> \E i \in 1 .. (n + m) : p[i] = w
    OBVIOUS
  <2>1. ASSUME NEW i \in 1 .. m, ws[i] = w PROVE \E k \in 1 .. (n + m) : p[k] = w
    <3>1. n + i \in 1 .. (n + m)
      BY <1>1, <1>2
    <3> QED BY <1>4, <2>1, <3>1
  <2>2. ASSUME NEW i \in 1 .. n, q[i] = w PROVE \E k \in 1 .. (n + m) : p[k] = w
    <3>1. i \in 1 .. (n + m)
      BY <1>1, <1>2
    <3> QED BY <1>3, <2>2, <3>1
  <2>3. Result(w) = "waiting" <=> \E i \in 1 .. n : q[i] = w
    BY <1>1 DEF LineKept, Queued
  <2>4. (\E k \in 1 .. (n + m) : p[k] = w) =>
          (\E i \in 1 .. n : q[i] = w) \/ (\E i \in 1 .. m : ws[i] = w)
    BY <1>3, <1>5
  <2>5. Result(w)' = IF \E i \in 1 .. m : ws[i] = w THEN "waiting" ELSE Result(w)
    BY <1>2
  <2> HIDE DEF p, q, n, m
  <2> QED BY <2>1, <2>2, <2>3, <2>4, <2>5
<1>8. \A i, j \in 1 .. (n + m) : p[i] = p[j] => i = j
  <2> SUFFICES ASSUME NEW i \in 1 .. (n + m), NEW j \in 1 .. (n + m), p[i] = p[j] PROVE i = j
    OBVIOUS
  <2>1. CASE i \in 1 .. n /\ j \in 1 .. n
    BY <1>1, <1>3, <2>1 DEF LineKept
  <2>2. CASE i \in 1 .. n /\ j \notin 1 .. n
    BY <1>3, <1>5, <1>6, <2>2
  <2>3. CASE i \notin 1 .. n /\ j \in 1 .. n
    BY <1>3, <1>5, <1>6, <2>3
  <2>4. CASE i \notin 1 .. n /\ j \notin 1 .. n
    <3>1. ws[i - n] = ws[j - n] /\ i - n \in 1 .. m /\ j - n \in 1 .. m
      BY <1>5, <2>4
    <3>2. \A a, b \in 1 .. m : ws[a] = ws[b] => a = b
      BY <1>2
    <3>3. i - n = j - n
      BY <3>1, <3>2
    <3> QED BY <1>1, <3>3
  <2> QED BY <2>1, <2>2, <2>3, <2>4
<1>9. \A i, j \in 1 .. (n + m) : p[i] = "Completed" /\ p[j] \in Parts => j < i
  <2> SUFFICES ASSUME NEW i \in 1 .. (n + m), NEW j \in 1 .. (n + m),
                      p[i] = "Completed", p[j] \in Parts
               PROVE  j < i
    OBVIOUS
  <2>1. CASE i \in 1 .. n /\ j \in 1 .. n
    BY <1>1, <1>3, <2>1 DEF LineKept
  <2>2. CASE i \notin 1 .. n /\ j \in 1 .. n
    <3> HIDE DEF n, m, p
    <3> QED BY <1>1, <1>2, <2>2
  <2>3. CASE i \in 1 .. n /\ j \notin 1 .. n
    <3>1. Result("Completed") = "absent"
      BY <1>2, <1>5, <2>3
    <3>2. q[i] = "Completed" /\ q[i] \in RunWrites
      BY <1>1, <1>3, <2>3
    <3>3. Result("Completed") = "waiting"
      BY <1>1, <2>3, <3>2 DEF LineKept, Queued
    <3> QED BY <3>1, <3>3
  <2>4. CASE i \notin 1 .. n /\ j \notin 1 .. n
    <3>1. ws[i - n] = "Completed" /\ ws[j - n] \in Parts /\ i - n \in 1 .. m /\ j - n \in 1 .. m
      BY <1>5, <2>4
    <3>2. j - n < i - n
      BY <1>2, <3>1
    <3> QED BY <1>1, <3>2
  <2> QED BY <2>1, <2>2, <2>3, <2>4
<1> HIDE DEF n, m
<1> QED BY <1>3, <1>7, <1>8, <1>9 DEF LineKept, Queued

\* The first of the line leaves it.
LEMMA LeaveLine ==
  ASSUME TypeOK, LineKept, NEW w \in RunWrites, queue.fifo # <<>>, queue.fifo[1] = w,
         queue'.fifo = Tail(queue.fifo), Result(w)' # "waiting",
         \A x \in RunWrites \ {w} : Result(x)' = Result(x)
  PROVE  LineKept'
<1> DEFINE q == queue.fifo
           p == queue'.fifo
           n == Len(q)
<1>1. /\ n \in Nat \ {0} /\ DOMAIN q = 1 .. n
      /\ \A i \in 1 .. n : q[i] \in RunWrites
  BY QueueFacts
<1>2. DOMAIN p = 1 .. (n - 1) /\ \A i \in 1 .. (n - 1) : p[i] = q[i + 1]
  BY <1>1, QueueFacts
<1>3. \A i, j \in 1 .. n : q[i] = q[j] => i = j
  BY <1>1 DEF LineKept
<1>4. \A x \in RunWrites : Result(x) = "waiting" <=> \E i \in 1 .. n : q[i] = x
  BY <1>1 DEF LineKept, Queued
<1>5. \A i, j \in 1 .. n : q[i] = "Completed" /\ q[j] \in Parts => j < i
  BY <1>1 DEF LineKept
<1>6. q[1] = w
  OBVIOUS
<1> HIDE DEF q, p, n
<1>7. \A i \in 1 .. (n - 1) : i \in 1 .. n /\ i + 1 \in 1 .. n /\ i + 1 # 1
  BY <1>1
<1>8. \A x \in RunWrites : Result(x)' = "waiting" <=> \E i \in 1 .. (n - 1) : p[i] = x
  <2> SUFFICES ASSUME NEW x \in RunWrites
               PROVE  Result(x)' = "waiting" <=> \E i \in 1 .. (n - 1) : p[i] = x
    OBVIOUS
  <2>1. 1 \in 1 .. n
    BY <1>1
  <2>2. CASE x = w
    <3>1. \A i \in 1 .. (n - 1) : p[i] # w
      BY <1>2, <1>3, <1>6, <1>7, <2>1
    <3> QED BY <2>2, <3>1
  <2>3. CASE x # w
    <3>1. ASSUME NEW i \in 1 .. n, q[i] = x PROVE \E k \in 1 .. (n - 1) : p[k] = x
      <4>1. i # 1
        BY <1>6, <2>3, <3>1
      <4>2. i - 1 \in 1 .. (n - 1) /\ (i - 1) + 1 = i
        BY <1>1, <4>1
      <4> QED BY <1>2, <3>1, <4>2
    <3>2. ASSUME NEW k \in 1 .. (n - 1), p[k] = x PROVE \E i \in 1 .. n : q[i] = x
      BY <1>2, <1>7, <3>2
    <3>3. Result(x)' = Result(x)
      BY <2>3
    <3> QED BY <1>4, <3>1, <3>2, <3>3
  <2> QED BY <2>2, <2>3
<1>9. \A i, j \in 1 .. (n - 1) : p[i] = p[j] => i = j
  <2> SUFFICES ASSUME NEW i \in 1 .. (n - 1), NEW j \in 1 .. (n - 1), p[i] = p[j] PROVE i = j
    OBVIOUS
  <2>1. i + 1 = j + 1
    BY <1>2, <1>3, <1>7
  <2> QED BY <1>1, <2>1
<1>10. \A i, j \in 1 .. (n - 1) : p[i] = "Completed" /\ p[j] \in Parts => j < i
  <2> SUFFICES ASSUME NEW i \in 1 .. (n - 1), NEW j \in 1 .. (n - 1),
                      p[i] = "Completed", p[j] \in Parts
               PROVE  j < i
    OBVIOUS
  <2>1. j + 1 < i + 1
    BY <1>2, <1>5, <1>7
  <2> QED BY <1>1, <2>1
<1>11. LineKept'
  <2> USE DEF p
  <2> QED BY <1>2, <1>8, <1>9, <1>10 DEF LineKept, Queued
<1> QED BY <1>11

\* A completed fact that no removal blocks: no part of the end was removed.
LEMMA PartsUnblocked ==
  ASSUME BlockedBy("Completed") = {}
  PROVE  \A w \in Parts : Result(w) \notin Removals
<1> SUFFICES ASSUME NEW w \in Parts, Result(w) \in Removals PROVE FALSE
  OBVIOUS
<1>1. <<w, NoId>> \in DepKey /\ w \in RunWrites
  BY DEF DepKey, DepKinds, Parts, RunWrites
<1>2. EndedKeys[<<w, NoId>>] \in Removals
  BY <1>1 DEF EndedKeys, Result, Results
<1>3. <<w, NoId>> \in DependsOn(W("Completed", NoId, NoId))
  BY DEF DependsOn, W, Parts
<1>4. RemovedDeps(W("Completed", NoId, NoId), EndedKeys) # {}
  BY <1>2, <1>3 DEF RemovedDeps
<1> QED BY <1>4 DEF BlockedBy, Blocked, W

\* The head ends: the completed fact only behind its parts, and not against them.
LEMMA EndsKept ==
  ASSUME TypeOK, LineKept, ResultsKept, QueueEnds
  PROVE  LineKept' /\ ResultsKept'
<1>1. PICK w \in RunWrites :
         /\ queue.fifo # <<>> /\ queue.fifo[1] = w /\ 1 \in DOMAIN queue.fifo
         /\ queue.refs # {} /\ queue'.refs = queue.refs /\ queue'.fifo = Tail(queue.fifo)
         /\ \A x \in RunWrites \ {w} : Result(x)' = Result(x)
         /\ \/ BlockedBy(w) = {} /\ Result(w)' \in {"Delivered", "Refused", "Failed"}
            \/ BlockedBy(w) # {} /\ Result(w)' = "DependsOnRemoved"
  BY EndsFields
<1>2. Result(w)' \in {"Delivered", "Refused", "Failed", "DependsOnRemoved"}
  BY <1>1
<1>3. LineKept'
  BY <1>1, <1>2, LeaveLine
<1>4. Result(w) = "waiting"
  BY <1>1 DEF LineKept, Queued
<1>5. Parts \subseteq RunWrites /\ {"Completed", "Failed"} \subseteq RunWrites \ Parts
  BY DEF Parts, RunWrites
<1>6. \A x \in RunWrites : Result(x)' = "LeftUnsent" => queue'.refs = {}
  BY <1>1, <1>2 DEF ResultsKept
<1>7. \A x \in Parts : Result(x)' # "absent" => Result("Completed")' # "absent"
  BY <1>1, <1>2, <1>4, <1>5 DEF ResultsKept
<1>8. Result("Completed")' \in {"Delivered", "Refused", "Failed"} =>
        \A x \in Parts : Result(x)' \in {"absent", "Delivered"}
  <2>1. CASE w = "Completed"
    <3> SUFFICES ASSUME BlockedBy(w) = {}, NEW x \in Parts
                 PROVE  Result(x) \in {"absent", "Delivered"}
      BY <1>1, <1>5, <2>1
    <3>1. Result(x) \notin Removals
      BY <2>1, PartsUnblocked
    <3>2. Result(x) # "waiting"
      <4> SUFFICES ASSUME Queued(x) PROVE FALSE
        BY <1>5 DEF LineKept
      <4>1. PICK j \in DOMAIN queue.fifo : queue.fifo[j] = x
        BY DEF Queued
      <4>2. j < 1
        BY <1>1, <2>1, <4>1 DEF LineKept
      <4> QED BY <4>1, <4>2, QueueFacts
    <3> QED BY <1>5, <3>1, <3>2, QueueFacts DEF Results
  <2>2. CASE w # "Completed"
    BY <1>1, <1>2, <1>4, <1>5, <2>2 DEF ResultsKept
  <2> QED BY <2>1, <2>2
<1>9. Result("Completed")' # "absent" /\ Result("Failed")' # "absent" =>
        Result("Completed")' = "DependsOnRemoved"
  BY <1>1, <1>2, <1>4, <1>5 DEF ResultsKept
<1> QED BY <1>3, <1>6, <1>7, <1>8, <1>9 DEF ResultsKept

\* What waited is left unsent, and nobody holds the queue.
LEMMA StopsKept ==
  ASSUME TypeOK, LineKept, ResultsKept, QueueStops
  PROVE  LineKept' /\ ResultsKept'
<1>1. /\ queue'.refs = {} /\ queue'.fifo = <<>>
      /\ \A x \in RunWrites : Result(x)' = IF Result(x) = "waiting" THEN "LeftUnsent" ELSE Result(x)
  BY StopsFields
<1>2. Parts \subseteq RunWrites /\ {"Completed", "Failed"} \subseteq RunWrites
  BY DEF Parts, RunWrites
<1>3. DOMAIN queue'.fifo = {}
  BY <1>1
<1>4. LineKept'
  BY <1>1, <1>3 DEF LineKept, Queued
<1>5. ResultsKept'
  BY <1>1, <1>2 DEF ResultsKept
<1> QED BY <1>4, <1>5

\* The steps that drop a reference to the queue, and no more.
LEMMA RefsKept ==
  ASSUME LineKept, ResultsKept, queue'.fifo = queue.fifo, queue'.result = queue.result,
         queue'.refs \subseteq queue.refs
  PROVE  LineKept' /\ ResultsKept'
<1>1. \A x : Result(x)' = Result(x)
  BY DEF Result
<1>2. LineKept'
  BY <1>1 DEF LineKept, Queued
<1>3. ResultsKept'
  BY <1>1 DEF ResultsKept
<1> QED BY <1>2, <1>3

\* The writes of an end: each once, the completed fact behind its parts, no part
\* without it, and it or the failed fact.
LEMMA EndShape ==
  ASSUME NEW ws \in EndWrites
  PROVE  /\ ws \in Seq(RunWrites) /\ \A i \in DOMAIN ws : ws[i] \in EndKinds
         /\ \A i, j \in DOMAIN ws : ws[i] = ws[j] => i = j
         /\ \A i, j \in DOMAIN ws : ws[i] = "Completed" /\ ws[j] \in Parts => j < i
         /\ \A i \in DOMAIN ws : ws[i] \in Parts => \E j \in DOMAIN ws : ws[j] = "Completed"
         /\ \A i, j \in DOMAIN ws : ws[i] = "Failed" => ws[j] # "Completed"
         /\ slot.ending = "Cancelled" => DOMAIN ws = {}
<1> DEFINE P(s) == /\ \A i \in DOMAIN s : s[i] \in EndKinds
                   /\ \A i, j \in DOMAIN s : s[i] = s[j] => i = j
                   /\ \A i, j \in DOMAIN s : s[i] = "Completed" /\ s[j] \in Parts => j < i
                   /\ \A i \in DOMAIN s : s[i] \in Parts => \E j \in DOMAIN s : s[j] = "Completed"
                   /\ \A i, j \in DOMAIN s : s[i] = "Failed" => s[j] # "Completed"
<1> USE DEF Parts, EndKinds
<1>1. P(<<>>) /\ DOMAIN <<>> = {}
  OBVIOUS
<1>2. P(<<"Failed">>)
  OBVIOUS
<1>3. P(<<"Completed">>)
  OBVIOUS
<1>4. P(<<"Answer", "Completed">>)
  OBVIOUS
<1>5. P(<<"SavedState", "Completed">>)
  OBVIOUS
<1>6. P(<<"Answer", "SavedState", "Completed">>)
  OBVIOUS
<1>7. /\ ws \in {<<>>, <<"Failed">>, <<"Completed">>, <<"Answer", "Completed">>,
                 <<"SavedState", "Completed">>, <<"Answer", "SavedState", "Completed">>}
      /\ slot.ending = "Cancelled" => ws = <<>>
  BY DEF EndWrites, PanicWrites
<1> HIDE DEF P
<1>8. P(ws)
  BY <1>1, <1>2, <1>3, <1>4, <1>5, <1>6, <1>7
<1>9. slot.ending = "Cancelled" => DOMAIN ws = {}
  BY <1>1, <1>7
<1> USE DEF P
<1> QED BY <1>8, <1>9, EndWritesType

\* Writes that join behind the others.
LEMMA JoinKept ==
  ASSUME TypeOK, LineKept, ResultsKept, NEW ws \in Seq(RunWrites),
         queue'.fifo = queue.fifo \o ws,
         queue'.refs = queue.refs \/ \A w \in RunWrites : Result(w) = "absent",
         \A x \in RunWrites : Result(x)' = IF \E i \in DOMAIN ws : ws[i] = x THEN "waiting"
                                           ELSE Result(x),
         \A i \in DOMAIN ws : Result(ws[i]) = "absent",
         \A i, j \in DOMAIN ws : ws[i] = ws[j] => i = j,
         \A i, j \in DOMAIN ws : ws[i] = "Completed" /\ ws[j] \in Parts => j < i,
         \A i \in DOMAIN ws : ws[i] \in Parts => \E j \in DOMAIN ws : ws[j] = "Completed",
         \A i, j \in DOMAIN ws : ws[i] = "Failed" => ws[j] # "Completed",
         \A i \in DOMAIN ws : ws[i] = "Completed" => Result("Failed") = "absent",
         \A i \in DOMAIN ws : ws[i] = "Failed" => Result("Completed") \in {"absent", "DependsOnRemoved"}
  PROVE  LineKept' /\ ResultsKept'
<1> DEFINE J(x) == \E i \in DOMAIN ws : ws[i] = x
<1>1. \A x \in RunWrites : Result(x)' = IF J(x) THEN "waiting" ELSE Result(x)
  OBVIOUS
<1>2. /\ \A x \in RunWrites : J(x) => Result(x) = "absent"
      /\ \A x \in Parts : J(x) => J("Completed")
      /\ J("Failed") => ~J("Completed") /\ Result("Completed") \in {"absent", "DependsOnRemoved"}
      /\ J("Completed") => Result("Failed") = "absent"
  OBVIOUS
<1>3. \A i \in DOMAIN ws : ws[i] \in Parts => Result("Completed") = "absent"
  OBVIOUS
<1>4. LineKept'
  BY <1>3, JoinLine
<1> HIDE DEF J
<1>5. Parts \subseteq RunWrites /\ {"Completed", "Failed"} \subseteq RunWrites \ Parts
  BY DEF Parts, RunWrites
<1>6. \A x \in RunWrites : Result(x)' = "LeftUnsent" => queue'.refs = {}
  BY <1>1 DEF ResultsKept
<1>7. \A x \in Parts : Result(x)' # "absent" => Result("Completed")' # "absent"
  BY <1>1, <1>2, <1>5 DEF ResultsKept
<1>8. Result("Completed")' \in {"Delivered", "Refused", "Failed"} =>
        \A x \in Parts : Result(x)' \in {"absent", "Delivered"}
  BY <1>1, <1>2, <1>5 DEF ResultsKept
<1>9. Result("Completed")' # "absent" /\ Result("Failed")' # "absent" =>
        Result("Completed")' = "DependsOnRemoved"
  BY <1>1, <1>2, <1>5 DEF ResultsKept
<1>10. ResultsKept'
  BY <1>6, <1>7, <1>8, <1>9 DEF ResultsKept
<1> QED BY <1>4, <1>10

\* One write joins that is no part of a completed end.
LEMMA JoinOne ==
  ASSUME TypeOK, LineKept, ResultsKept,
         NEW w \in {"Started", "PlanDeclared", "Failed"}, Result(w) = "absent",
         queue'.fifo = queue.fifo \o <<w>>,
         queue'.refs = queue.refs \/ \A x \in RunWrites : Result(x) = "absent",
         \A x \in RunWrites : Result(x)' = IF x = w THEN "waiting" ELSE Result(x),
         w = "Failed" => Result("Completed") \in {"absent", "DependsOnRemoved"}
  PROVE  LineKept' /\ ResultsKept'
<1> DEFINE ws == <<w>>
<1>1. w \in RunWrites /\ w # "Completed" /\ w \notin Parts
  BY DEF RunWrites, Parts
<1>2. ws \in Seq(RunWrites) /\ DOMAIN ws = {1} /\ ws[1] = w
  BY <1>1
<1>3. \A x \in RunWrites : Result(x)' = IF \E i \in DOMAIN ws : ws[i] = x THEN "waiting"
                                        ELSE Result(x)
  BY <1>2
<1>4. queue'.fifo = queue.fifo \o ws
  OBVIOUS
<1> HIDE DEF ws
<1>5. /\ \A i \in DOMAIN ws : Result(ws[i]) = "absent"
      /\ \A i, j \in DOMAIN ws : ws[i] = ws[j] => i = j
      /\ \A i, j \in DOMAIN ws : ws[i] = "Completed" /\ ws[j] \in Parts => j < i
      /\ \A i \in DOMAIN ws : ws[i] \in Parts => \E j \in DOMAIN ws : ws[j] = "Completed"
      /\ \A i, j \in DOMAIN ws : ws[i] = "Failed" => ws[j] # "Completed"
      /\ \A i \in DOMAIN ws : ws[i] = "Completed" => Result("Failed") = "absent"
      /\ \A i \in DOMAIN ws : ws[i] = "Failed" => Result("Completed") \in {"absent", "DependsOnRemoved"}
  BY <1>1, <1>2
<1> QED BY <1>2, <1>3, <1>4, <1>5, JoinKept

\* The queue after such a write.
LEMMA OneFields ==
  ASSUME TypeOK, NEW w \in {"Started", "PlanDeclared", "Failed"}, NEW q,
         q = HandedOver(queue, <<w>>)
  PROVE  /\ q \in QueueSet /\ q.refs = queue.refs /\ q.fifo = queue.fifo \o <<w>>
         /\ \A x \in RunWrites : q.result[x] = IF x = w THEN "waiting" ELSE Result(x)
<1> DEFINE ws == <<w>>
<1>1. w \in RunWrites
  BY DEF RunWrites
<1>2. ws \in Seq(RunWrites) /\ DOMAIN ws = {1} /\ ws[1] = w
  BY <1>1
<1>3. queue \in QueueSet
  BY QueueFacts
<1>4. q = HandedOver(queue, ws) /\ ws = <<w>>
  OBVIOUS
<1> HIDE DEF ws
<1>5. LET h == HandedOver(queue, ws) IN
      /\ h \in QueueSet /\ h.refs = queue.refs /\ h.fifo = queue.fifo \o ws
      /\ \A x \in RunWrites : h.result[x] = IF \E i \in DOMAIN ws : ws[i] = x THEN "waiting"
                                            ELSE queue.result[x]
  BY <1>2, <1>3, HandedOverFields, Zenon
<1> QED BY <1>2, <1>4, <1>5 DEF Result

\* How the queue moves: a write that waits ends, and is left unsent only when
\* nobody holds the queue; a write joins at one of four steps.
Joins(x) ==
  \/ x = "Started" /\ OpenQueue
  \/ x = "PlanDeclared" /\ NodeWrites
  \/ x \in EndKinds /\ HandOverEnd /\ slot.ending # "Cancelled"
  \/ x = "Failed" /\ ClosingEnds /\ Replaced
Moves(x) ==
  \/ Result(x)' = Result(x)
  \/ Result(x) = "waiting" /\ Result(x)' \in Results /\ UNCHANGED <<rec, inst, slot, lookup, observer, closing, drain>>
  \/ Result(x) = "absent" /\ Result(x)' = "waiting" /\ Joins(x)
RefsMove ==
  \/ queue'.refs = queue.refs /\ ~OpenQueue
  \/ queue'.refs = {"record", "task"} /\ OpenQueue
  \/ queue'.refs = {} /\ (StartedRemoved \/ ClosingDrained)
  \/ queue'.refs = queue.refs \ {"task"} /\ AbortSlot /\ slot.at # "returned"
  \/ queue'.refs = queue.refs \ {"task"} /\ JoinClosing /\ closing.at \in ClosingAwaits
  \/ queue'.refs = queue.refs \ {"record"} /\ (ForgetLeft \/ AbortRemove)

QueueNext == LineKept' /\ ResultsKept' /\ RefsMove /\ \A x \in RunWrites : Moves(x)

\* A reference to the queue is dropped and no write moves.
LEMMA DropsNext ==
  ASSUME LifeInv, NEW S, queue' = [queue EXCEPT !.refs = S], S \subseteq queue.refs
  PROVE  /\ LineKept' /\ ResultsKept' /\ queue'.refs = S
         /\ \A x \in RunWrites : Moves(x)
<1>1. queue'.refs = S /\ queue'.fifo = queue.fifo /\ queue'.result = queue.result
  BY RefsFields DEF LifeInv
<1>2. LineKept' /\ ResultsKept'
  BY <1>1, RefsKept DEF LifeInv
<1>3. \A x \in RunWrites : Moves(x)
  BY <1>1 DEF Moves, Result
<1> QED BY <1>1, <1>2, <1>3

\* Every step moves the queue in these ways only.
LEMMA QueueMoves ==
  ASSUME LifeInv, [Next]_vars
  PROVE  QueueNext
<1> USE DEF LifeInv
<1>0. /\ queue.refs \subseteq {"record", "task"}
      /\ queue.fifo \in Seq(RunWrites) /\ queue \in QueueSet
      /\ \A x \in RunWrites : Result(x) \in Results \cup {"absent", "waiting"}
  BY QueueFacts
<1>10. OpenQueue => slot'.at = "opening" /\ slot.at = "registered"
  BY DEF OpenQueue, TypeOK, SlotType
<1>1. CASE QueueEnds
  <2>1. LineKept' /\ ResultsKept'
    BY <1>1, EndsKept
  <2>2. PICK w \in RunWrites :
         /\ queue.fifo[1] = w /\ 1 \in DOMAIN queue.fifo /\ queue'.refs = queue.refs
         /\ \A x \in RunWrites \ {w} : Result(x)' = Result(x)
         /\ \/ BlockedBy(w) = {} /\ Result(w)' \in {"Delivered", "Refused", "Failed"}
            \/ BlockedBy(w) # {} /\ Result(w)' = "DependsOnRemoved"
    BY <1>1, EndsFields
  <2>3. Result(w) = "waiting"
    BY <2>2 DEF LineKept, Queued
  <2>4. Result(w)' \in Results
    BY <2>2 DEF Results, Removals
  <2>5. UNCHANGED <<rec, inst, slot, lookup, observer, closing, drain>>
    BY <1>1 DEF QueueEnds
  <2>6. \A x \in RunWrites : Moves(x)
    BY <2>2, <2>3, <2>4, <2>5 DEF Moves
  <2>7. ~OpenQueue
    BY <1>10, <2>5
  <2> QED BY <2>1, <2>2, <2>6, <2>7 DEF QueueNext, RefsMove
<1>2. CASE QueueStops
  <2>1. LineKept' /\ ResultsKept'
    BY <1>2, StopsKept
  <2>2. /\ queue'.refs = queue.refs
        /\ \A x \in RunWrites : Result(x)' = IF Result(x) = "waiting" THEN "LeftUnsent" ELSE Result(x)
    BY <1>2, StopsFields
  <2>3. UNCHANGED <<rec, inst, slot, lookup, observer, closing, drain>>
    BY <1>2 DEF QueueStops
  <2>4. \A x \in RunWrites : Moves(x)
    BY <2>2, <2>3 DEF Moves, Results, Removals
  <2>5. ~OpenQueue
    BY <1>10, <2>3
  <2> QED BY <2>1, <2>2, <2>4, <2>5 DEF QueueNext, RefsMove
<1>3. CASE NodeWrites
  <2>1. queue' = HandedOver(queue, <<"PlanDeclared">>) /\ Result("PlanDeclared") = "absent" /\ slot' = slot
    BY <1>3 DEF NodeWrites, Result
  <2>2. /\ queue'.refs = queue.refs /\ queue'.fifo = queue.fifo \o <<"PlanDeclared">>
        /\ \A x \in RunWrites : queue'.result[x] = IF x = "PlanDeclared" THEN "waiting" ELSE Result(x)
    BY <2>1, OneFields
  <2>3. \A x \in RunWrites : Result(x)' = IF x = "PlanDeclared" THEN "waiting" ELSE Result(x)
    BY <2>2 DEF Result
  <2>4. LineKept' /\ ResultsKept'
    BY <2>1, <2>2, <2>3, JoinOne
  <2>5. \A x \in RunWrites : Moves(x)
    BY <1>3, <2>1, <2>3 DEF Moves, Joins
  <2> QED BY <1>10, <2>1, <2>2, <2>4, <2>5 DEF QueueNext, RefsMove
<1>4. CASE OpenQueue
  <2> DEFINE q == HandedOver(queue, <<"Started">>)
  <2>1. queue' = [q EXCEPT !.refs = {"record", "task"}]
    BY <1>4 DEF OpenQueue
  <2>2. /\ q \in QueueSet /\ q.refs = queue.refs /\ q.fifo = queue.fifo \o <<"Started">>
        /\ \A x \in RunWrites : q.result[x] = IF x = "Started" THEN "waiting" ELSE Result(x)
    BY OneFields
  <2> HIDE DEF q
  <2>3. queue'.refs = {"record", "task"} /\ queue'.fifo = q.fifo /\ queue'.result = q.result
    BY <2>1, <2>2 DEF QueueSet
  <2>4. \A x \in RunWrites : Result(x)' = IF x = "Started" THEN "waiting" ELSE Result(x)
    BY <2>2, <2>3 DEF Result
  <2>5. \A x \in RunWrites : Result(x) = "absent"
    BY <1>4 DEF OpenQueue, StartKept
  <2>6. "Started" \in RunWrites
    BY DEF RunWrites
  <2>7. LineKept' /\ ResultsKept'
    BY <2>2, <2>3, <2>4, <2>5, <2>6, JoinOne
  <2>8. \A x \in RunWrites : Moves(x)
    BY <1>4, <2>4, <2>5 DEF Moves, Joins
  <2> QED BY <1>4, <2>3, <2>7, <2>8 DEF QueueNext, RefsMove
<1>5. CASE HandOverEnd
  <2>1. PICK ws \in EndWrites : queue' = HandedOver(queue, ws)
    BY <1>5 DEF HandOverEnd
  <2>2. /\ ws \in Seq(RunWrites) /\ \A i \in DOMAIN ws : ws[i] \in EndKinds
        /\ \A i, j \in DOMAIN ws : ws[i] = ws[j] => i = j
        /\ \A i, j \in DOMAIN ws : ws[i] = "Completed" /\ ws[j] \in Parts => j < i
        /\ \A i \in DOMAIN ws : ws[i] \in Parts => \E j \in DOMAIN ws : ws[j] = "Completed"
        /\ \A i, j \in DOMAIN ws : ws[i] = "Failed" => ws[j] # "Completed"
        /\ slot.ending = "Cancelled" => DOMAIN ws = {}
    BY EndShape
  <2>3. /\ queue'.refs = queue.refs /\ queue'.fifo = queue.fifo \o ws
        /\ \A x \in RunWrites : Result(x)' = IF \E i \in DOMAIN ws : ws[i] = x THEN "waiting"
                                             ELSE Result(x)
    BY <2>1, <2>2, JoinFields
  <2>4. \A x \in EndKinds : Result(x) = "absent"
    <3>1. Terminal = {}
      BY <1>5 DEF HandOverEnd, EndKept, Body
    <3> QED BY <3>1 DEF Terminal, Result, EndKinds
  <2>5. /\ \A i \in DOMAIN ws : Result(ws[i]) = "absent"
        /\ \A i \in DOMAIN ws : ws[i] = "Completed" => Result("Failed") = "absent"
        /\ \A i \in DOMAIN ws : ws[i] = "Failed" => Result("Completed") \in {"absent", "DependsOnRemoved"}
    BY <2>2, <2>4 DEF EndKinds
  <2>6. LineKept' /\ ResultsKept'
    BY <2>2, <2>3, <2>5, JoinKept
  <2>7. \A x \in RunWrites : Moves(x)
    BY <1>5, <2>2, <2>3, <2>4 DEF Moves, Joins
  <2>8. slot.at # "registered"
    BY <1>5 DEF HandOverEnd
  <2> QED BY <1>10, <2>3, <2>6, <2>7, <2>8 DEF QueueNext, RefsMove
<1>6. CASE ClosingEnds /\ Replaced
  <2>1. queue' = HandedOver(queue, <<"Failed">>) /\ slot' = slot
    BY <1>6 DEF ClosingEnds
  <2>2. Result("Failed") = "absent" /\ Result("Completed") = "DependsOnRemoved"
    BY <1>6 DEF Replaced, Result
  <2>3. /\ queue'.refs = queue.refs /\ queue'.fifo = queue.fifo \o <<"Failed">>
        /\ \A x \in RunWrites : queue'.result[x] = IF x = "Failed" THEN "waiting" ELSE Result(x)
    BY <2>1, OneFields
  <2>4. \A x \in RunWrites : Result(x)' = IF x = "Failed" THEN "waiting" ELSE Result(x)
    BY <2>3 DEF Result
  <2>5. LineKept' /\ ResultsKept'
    BY <2>2, <2>3, <2>4, JoinOne
  <2>6. \A x \in RunWrites : Moves(x)
    BY <1>6, <2>2, <2>4 DEF Moves, Joins
  <2> QED BY <1>10, <2>1, <2>3, <2>5, <2>6 DEF QueueNext, RefsMove
<1>7. CASE StartedRemoved \/ ClosingDrained
  <2>1. queue' = [queue EXCEPT !.refs = {}]
    BY <1>7 DEF StartedRemoved, ClosingDrained
  <2> QED BY <1>7, <2>1, DropsNext DEF QueueNext, RefsMove
<1>8. CASE (AbortSlot /\ slot.at # "returned") \/ (JoinClosing /\ closing.at \in ClosingAwaits)
  <2>1. queue' = NoTask
    BY <1>8 DEF AbortSlot, JoinClosing, ClosingAwaits
  <2>2. queue' = [queue EXCEPT !.refs = queue.refs \ {"task"}]
    BY <1>0, <2>1 DEF NoTask, QueueSet
  <2> QED BY <1>8, <2>2, DropsNext DEF QueueNext, RefsMove
<1>9. CASE ForgetLeft \/ AbortRemove
  <2>1. queue' = NoRecord
    BY <1>9 DEF ForgetLeft, AbortRemove
  <2>2. queue' = [queue EXCEPT !.refs = queue.refs \ {"record"}]
    BY <1>0, <2>1 DEF NoRecord, QueueSet
  <2> QED BY <1>9, <2>2, DropsNext DEF QueueNext, RefsMove
<1>11. CASE UNCHANGED queue /\ ~OpenQueue
  <2>1. LineKept' /\ ResultsKept'
    BY <1>11, RefsKept
  <2>2. \A x \in RunWrites : Moves(x)
    BY <1>11 DEF Moves, Result
  <2> QED BY <1>11, <2>1, <2>2 DEF QueueNext, RefsMove
<1>12. /\ ClosingEnds /\ ~Replaced => UNCHANGED queue
       /\ AbortSlot /\ slot.at = "returned" => UNCHANGED queue
       /\ JoinClosing /\ closing.at \notin ClosingAwaits => UNCHANGED queue
  BY DEF ClosingEnds, AbortSlot, JoinClosing, SlotAwaits
<1> QED BY <1>1, <1>2, <1>3, <1>4, <1>5, <1>6, <1>7, <1>8, <1>9, <1>11, <1>12, Frames
        DEF QueueSteps, Queue

\* These steps drop no reference.
LEMMA RefsSame ==
  ASSUME LifeInv, Queue \/ NodeWrites \/ HandOverEnd \/ ClosingEnds
  PROVE  queue'.refs = queue.refs
<1> USE DEF LifeInv
<1>1. CASE QueueEnds
  BY <1>1, EndsFields
<1>2. CASE QueueStops
  BY <1>2, StopsFields
<1>3. CASE NodeWrites \/ ClosingEnds
  <2>1. UNCHANGED queue \/ \E w \in {"PlanDeclared", "Failed"} : queue' = HandedOver(queue, <<w>>)
    BY <1>3 DEF NodeWrites, ClosingEnds
  <2> QED BY <2>1, OneFields
<1>4. CASE HandOverEnd
  <2>1. PICK ws \in EndWrites : queue' = HandedOver(queue, ws)
    BY <1>4 DEF HandOverEnd
  <2> QED BY <2>1, JoinFields, EndWritesType
<1> QED BY <1>1, <1>2, <1>3, <1>4 DEF Queue

-----------------------------------------------------------------------------
(* The places of the slot, the closing and the drain                       *)

\* Every step keeps the places together.
LEMMA PlacesNext ==
  ASSUME LifeInv, [Next]_vars
  PROVE  PlacesKept'
<1>0. /\ PlacesKept /\ SlotType /\ queue.refs \subseteq {"record", "task"}
      /\ closing \in [at : ClosingAt, listed : BOOLEAN, covers : SUBSET RunWrites]
      /\ drain \in [at : DrainAt, note : BOOLEAN, due : SUBSET Instances,
                    report : [listed : BOOLEAN, aborted : BOOLEAN, unsent : SUBSET RunWrites]]
  BY QueueFacts DEF LifeInv, TypeOK, TaskTypes
<1>r. RefsMove
  BY QueueMoves DEF QueueNext
<1> USE DEF PlacesKept, Body, Ended, AbortsSlot, ClosingAwaits
<1>1. CASE Queue \/ NodeWrites \/ CancelOrder \/ Lookup
  <2>1. queue'.refs = queue.refs
    BY <1>1, RefsSame DEF CancelOrder, Lookup, LookupSubscribe, LookupCheck, LookupChanged, Look
  <2>2. UNCHANGED <<slot, closing, drain>>
    BY <1>1 DEF Queue, QueueEnds, QueueStops, NodeWrites, CancelOrder, Lookup, LookupSubscribe,
       LookupCheck, LookupChanged, Look
  <2> QED BY <1>0, <2>1, <2>2
<1>2. CASE Hooks
  <2>1. UNCHANGED <<slot.at, closing, drain, queue>>
    BY <1>0, <1>2 DEF Hooks, HookReturns, SlotType
  <2> QED BY <1>0, <2>1
<1>3. CASE Executor
  <2>1. /\ UNCHANGED <<closing, drain, queue>>
        /\ slot' = slot \/ (slot.at \in {"starting", "executing"} /\ slot'.at = "settle")
    BY <1>0, <1>3 DEF Executor, ExecutorReturns, ExecutorRefuses, BodyPanics, Created, Insert, Bump,
       LookAtPhase, EventHandled, ObservationsEnd, Ends, SlotType
  <2> QED BY <1>0, <2>1
<1>4. CASE Unmade \/ OpenQueue \/ StartedDelivered \/ StartedRemoved
  <2>1. UNCHANGED <<closing, drain>>
    BY <1>4 DEF Unmade, OpenQueue, StartedDelivered, StartedRemoved
  <2>2. \/ slot.at = "registered" /\ slot'.at = "returned"
        \/ slot.at = "registered" /\ slot'.at = "opening" /\ queue'.refs = {"record", "task"}
        \/ slot.at = "opening" /\ slot'.at = "prepare" /\ queue' = queue
        \/ slot.at = "opening" /\ slot'.at = "returned"
    <3>1. CASE OpenQueue
      <4>1. queue'.refs = {"record", "task"}
        BY <1>0, <1>r, <3>1 DEF RefsMove, OpenQueue, StartedRemoved, ClosingDrained, AbortSlot,
           JoinClosing, ForgetLeft, AbortRemove, Drains
      <4> QED BY <1>0, <3>1, <4>1 DEF OpenQueue, SlotType
    <3>2. CASE Unmade \/ StartedDelivered \/ StartedRemoved
      BY <1>0, <3>2 DEF Unmade, StartedDelivered, StartedRemoved, SlotType
    <3> QED BY <1>4, <3>1, <3>2
  <2> QED BY <1>0, <2>1, <2>2
<1>5. CASE \/ Prepare \/ ReadFails \/ MakeBook \/ StartRefused \/ RunStarted
           \/ Settle \/ SetReturned \/ CallAll \/ CallEach \/ HooksReturned \/ HooksChanged
           \/ Settled
  <2>1. /\ UNCHANGED <<closing, drain, queue>>
        /\ slot.at \in Body /\ slot'.at \in Body
    <3>1. CASE Prepare \/ ReadFails \/ MakeBook \/ StartRefused \/ RunStarted
      BY <1>0, <3>1 DEF Prepare, ReadFails, MakeBook, StartRefused, RunStarted, Ends, Goes, SlotType
    <3>2. CASE Settle \/ SetReturned \/ CallAll \/ CallEach
      BY <1>0, <3>2 DEF Settle, SetReturned, CallAll, CallEach, Goes, SlotType
    <3>3. CASE HooksReturned \/ HooksChanged \/ Settled
      BY <1>0, <3>3 DEF HooksReturned, HooksChanged, Settled, Goes, SlotType
    <3> QED BY <1>5, <3>1, <3>2, <3>3
  <2> QED BY <1>0, <2>1
<1>6. CASE HandOverEnd \/ SetDropped \/ RemoveRun
  <2>1. queue'.refs = queue.refs
    BY <1>6, RefsSame DEF SetDropped, RemoveRun
  <2>2. /\ UNCHANGED <<closing, drain>>
        /\ slot.at \in {"ready", "drop", "remove"} /\ slot'.at \in {"drop", "remove", "spawn"}
    BY <1>0, <1>6 DEF HandOverEnd, SetDropped, RemoveRun, Goes, SlotType
  <2> QED BY <1>0, <2>1, <2>2
<1>7. CASE SpawnClosing
  BY <1>0, <1>7 DEF SpawnClosing, Goes, SlotType
<1>8. CASE AddClosing
  BY <1>0, <1>8 DEF AddClosing, Goes, SlotType
<1>9. CASE ClosingBegins \/ ClosingEnds
  <2>1. queue'.refs = queue.refs
    BY <1>9, RefsSame DEF ClosingBegins
  <2>2. /\ UNCHANGED <<slot, drain, closing.listed>> /\ closing.at \in {"spawned", "ends"}
        /\ closing'.at \in {"ends", "drained"} /\ slot.at # "add"
    BY <1>0, <1>9 DEF ClosingBegins, ClosingEnds, Listed
  <2> QED BY <1>0, <2>1, <2>2
<1>10. CASE ClosingDrained
  BY <1>0, <1>10 DEF ClosingDrained
<1>11. CASE ClosingDelists
  BY <1>0, <1>11 DEF ClosingDelists
<1>12. CASE ClosingForgets
  BY <1>0, <1>12 DEF ClosingForgets
<1>13. CASE DrainBegins \/ SlotEnded \/ ClosingsLook \/ ClosingsChanged \/ Timeout
  <2>1. UNCHANGED <<slot, closing, queue>>
    BY <1>13 DEF DrainBegins, SlotEnded, ClosingsLook, ClosingsChanged, Timeout
  <2>2. \/ drain'.at \in {"slots", "abort"}
        \/ drain'.at \in {"closings", "sleep"} /\ slot.at = "returned"
        \/ drain'.at = "done" /\ slot.at = "returned" /\ ~closing.listed
    BY <1>0, <1>13 DEF DrainBegins, SlotEnded, ClosingsLook, ClosingsChanged, Timeout, Drains
  <2>3. drain.at \in {"no", "slots", "closings", "sleep"}
    BY <1>13 DEF DrainBegins, SlotEnded, ClosingsLook, ClosingsChanged, Timeout
  <2> QED BY <1>0, <2>1, <2>2, <2>3 DEF ClosingAt
<1>14. CASE AbortSlot
  BY <1>0, <1>14 DEF AbortSlot, Drains, SlotType, SlotAwaits
<1>15. CASE TakeClosings
  BY <1>0, <1>15 DEF TakeClosings, Drains, ClosingAt
<1>16. CASE JoinClosing
  <2>1. /\ UNCHANGED slot /\ drain.at = "join" /\ drain'.at = "left"
        /\ \/ closing.at = "over" /\ UNCHANGED <<closing, queue>>
           \/ closing.at \in ClosingAwaits /\ closing'.at = "aborted" /\ closing'.listed = closing.listed
    BY <1>0, <1>16 DEF JoinClosing, Drains
  <2>2. closing.at \in ClosingAwaits => queue'.refs = queue.refs \ {"task"}
    BY <1>0, <1>16, QueueFacts DEF JoinClosing, NoTask, LifeInv, QueueSet
  <2> QED BY <1>0, <2>1, <2>2
<1>17. CASE ReportLeft \/ AbortRun \/ AbortCallAll \/ AbortCallEach
  <2>1. CASE ReportLeft \/ AbortRun
    BY <1>0, <2>1 DEF ReportLeft, AbortRun, Drains
  <2>2. CASE AbortCallAll \/ AbortCallEach
    BY <1>0, <2>2 DEF AbortCallAll, AbortCallEach, Drains
  <2> QED BY <1>17, <2>1, <2>2
<1>18. CASE ForgetLeft \/ AbortRemove
  BY <1>0, <1>18 DEF ForgetLeft, AbortRemove, Drains
<1>19. CASE UNCHANGED vars
  BY <1>0, <1>19 DEF vars
<1> QED BY <1>1, <1>2, <1>3, <1>4, <1>5, <1>6, <1>7, <1>8, <1>9, <1>10, <1>11, <1>12, <1>13,
           <1>14, <1>15, <1>16, <1>17, <1>18, <1>19
        DEF Next, Execute, Closing, DrainWaits, DrainAborts

-----------------------------------------------------------------------------
(* Where the steps of the slot lead, and what they do to the record        *)

\* The slot moves forward; what the drain and the hooks do to it is apart.
LEMMA SlotMoves ==
  ASSUME LifeInv, [Next]_vars
  PROVE  \/ slot'.at = slot.at /\ slot'.ending = slot.ending
         \/ slot.at = "registered" /\ slot'.at = "returned" /\ Unmade
         \/ slot.at = "registered" /\ slot'.at = "opening" /\ OpenQueue
         \/ slot.at = "opening" /\ slot'.at = "prepare" /\ StartedDelivered
         \/ slot.at = "opening" /\ slot'.at = "returned" /\ StartedRemoved
         \/ slot.at \in Body /\ slot'.at \in Body
         \/ slot.at = "ready" /\ slot'.at = "drop" /\ HandOverEnd /\ slot'.ending = slot.ending
         \/ slot.at \in Ended /\ slot'.at \in Ended /\ slot'.ending = slot.ending
         \/ slot.at = "add" /\ slot'.at = "returned" /\ AddClosing /\ slot'.ending = slot.ending
         \/ slot.at \in SlotAwaits /\ slot'.at = "aborted" /\ AbortSlot /\ slot'.ending = slot.ending
<1>0. SlotType
  BY DEF LifeInv, TypeOK
<1>1. CASE Unmade \/ OpenQueue \/ StartedDelivered \/ StartedRemoved
  BY <1>0, <1>1 DEF Unmade, OpenQueue, StartedDelivered, StartedRemoved, SlotType
<1>2. CASE \/ Prepare \/ ReadFails \/ MakeBook \/ StartRefused \/ RunStarted
           \/ Settle \/ SetReturned \/ CallAll \/ CallEach \/ HooksReturned \/ HooksChanged
           \/ Settled
  BY <1>0, <1>2 DEF Prepare, ReadFails, MakeBook, StartRefused, RunStarted, Settle, SetReturned,
     CallAll, CallEach, HooksReturned, HooksChanged, Settled, Ends, Goes, SlotType, Body
<1>3. CASE HandOverEnd \/ AddClosing
  BY <1>0, <1>3 DEF HandOverEnd, AddClosing, Goes, SlotType
<1>4. CASE SetDropped \/ RemoveRun \/ SpawnClosing
  BY <1>0, <1>4 DEF SetDropped, RemoveRun, SpawnClosing, Goes, SlotType, Ended
<1>5. CASE ExecutorReturns \/ ExecutorRefuses \/ BodyPanics
  BY <1>0, <1>5 DEF ExecutorReturns, ExecutorRefuses, BodyPanics, Ends, SlotType, Body
<1>6. CASE Hooks
  BY <1>0, <1>6 DEF Hooks, HookReturns, SlotType
<1>7. CASE AbortSlot
  BY <1>0, <1>7 DEF AbortSlot, SlotType
<1>8. CASE UNCHANGED slot
  BY <1>8
<1> QED BY <1>1, <1>2, <1>3, <1>4, <1>5, <1>6, <1>7, <1>8, Frames DEF SlotSteps, Execute

\* The trigger is settled by the start, the graph by the run start function.
LEMMA RecMoves ==
  ASSUME LifeInv, [Next]_vars
  PROVE  /\ \/ UNCHANGED <<rec.trigger, rec.startedPending>>
            \/ Unmade \/ StartedDelivered \/ StartedRemoved
         /\ rec'.source = rec.source
         /\ rec'.graph = rec.graph \/ (RunStarted /\ rec'.graph)
         /\ rec'.context = rec.context \/ (MakeBook /\ rec'.context)
<1>0. RecordType
  BY DEF LifeInv, TypeOK
<1> USE DEF RecordType
<1>1. CASE Unmade \/ StartedDelivered \/ MakeBook
  BY <1>0, <1>1 DEF Unmade, StartedDelivered, MakeBook
<1>2. CASE StartedRemoved
  BY <1>0, <1>2 DEF StartedRemoved
<1>3. CASE RunStarted \/ ExecutorReturns \/ ExecutorRefuses \/ BodyPanics
  BY <1>0, <1>3 DEF RunStarted, ExecutorReturns, ExecutorRefuses, BodyPanics
<1>4. CASE CancelOrder \/ ObservationsEnd \/ SetReturned \/ SetDropped \/ SpawnClosing
  BY <1>0, <1>4 DEF CancelOrder, ObservationsEnd, SetReturned, SetDropped, SpawnClosing
<1>5. CASE ClosingForgets \/ ForgetLeft \/ AbortRun \/ AbortRemove
  BY <1>0, <1>5 DEF ClosingForgets, ForgetLeft, AbortRun, AbortRemove
<1>6. CASE UNCHANGED rec
  BY <1>6
<1> QED BY <1>1, <1>2, <1>3, <1>4, <1>5, <1>6, Frames DEF RecSteps

\* What has ended stays, and what is absent waits for its step.
LEMMA StartedStays ==
  ASSUME LifeInv, [Next]_vars
  PROVE  /\ Result("Started") \notin {"absent", "waiting"} => Result("Started")' = Result("Started")
         /\ slot.at # "registered" /\ Result("Started") = "absent" => Result("Started")' = "absent"
<1>1. Moves("Started")
  BY QueueMoves DEF QueueNext, RunWrites
<1>2. Joins("Started") => slot.at = "registered"
  BY DEF Joins, OpenQueue, EndKinds
<1> QED BY <1>1, <1>2 DEF Moves

-----------------------------------------------------------------------------
(* The start                                                               *)

\* Every step keeps what is known of the start.
LEMMA StartNext ==
  ASSUME LifeInv, [Next]_vars
  PROVE  StartKept'
<1>0. /\ StartKept /\ RecordType /\ SlotType
      /\ Result("Started") \in Results \cup {"absent", "waiting"}
  BY QueueFacts DEF LifeInv, TypeOK, RunWrites
<1>1. slot'.at = "registered" => (\A w \in RunWrites : Result(w)' = "absent") /\ ~rec'.context
  <2> SUFFICES ASSUME slot'.at = "registered"
               PROVE  (\A w \in RunWrites : Result(w)' = "absent") /\ ~rec'.context
    OBVIOUS
  <2>1. slot.at = "registered" /\ ~OpenQueue
    <3>1. slot.at = "registered"
      BY SlotMoves DEF Body, Ended
    <3>2. OpenQueue => slot'.at = "opening"
      BY <1>0 DEF OpenQueue, SlotType
    <3> QED BY <3>1, <3>2
  <2>2. closing.at = "none"
    BY <2>1 DEF LifeInv, PlacesKept
  <2>3. \A w \in RunWrites : Result(w) = "absent"
    BY <1>0, <2>1 DEF StartKept
  <2>4. ~rec.context
    BY <1>0, <2>1 DEF StartKept
  <2>5. \A w \in RunWrites : ~Joins(w)
    BY <2>1, <2>2, <2>4 DEF Joins, NodeWrites, HandOverEnd, ClosingEnds
  <2>6. \A w \in RunWrites : Result(w)' = "absent"
    BY <2>3, <2>5, QueueMoves DEF QueueNext, Moves
  <2>7. ~rec'.context
    BY <2>1, <2>4, RecMoves DEF MakeBook
  <2> QED BY <2>6, <2>7
<1> DEFINE R == Result("Started")
<1>2. CASE Unmade
  <2>1. /\ slot.at = "registered" /\ slot'.at = "returned" /\ queue' = queue
        /\ rec'.trigger \in {rec.trigger, "back"} /\ rec'.graph = rec.graph
    BY <1>0, <1>2 DEF Unmade, SlotType, RecordType
  <2>2. R = "absent" /\ R' = "absent" /\ rec.trigger = "held" /\ ~rec.graph
    BY <1>0, <2>1 DEF StartKept, RunWrites, Result
  <2> QED BY <2>1, <2>2 DEF StartKept, AckAfterStart, Body, Ended, Result
<1>3. CASE OpenQueue
  <2>1. slot.at = "registered" /\ slot'.at = "opening" /\ rec' = rec
    BY <1>0, <1>3 DEF OpenQueue, SlotType
  <2>2. rec.trigger = "held" /\ ~rec.graph
    BY <1>0, <2>1 DEF StartKept
  <2> QED BY <2>1, <2>2 DEF StartKept, AckAfterStart, Body, Ended, Result
<1>4. CASE StartedDelivered
  <2>1. /\ slot.at = "opening" /\ slot'.at = "prepare" /\ R = "Delivered" /\ queue' = queue
        /\ rec'.trigger = Acknowledged /\ ~rec'.startedPending
        /\ UNCHANGED <<rec.graph, rec.source>>
    BY <1>0, <1>4 DEF StartedDelivered, SlotType, RecordType, Result
  <2>2. rec.trigger = "held" /\ ~rec.graph
    BY <1>0, <2>1 DEF StartKept
  <2>3. R' = "Delivered"
    BY <2>1 DEF Result
  <2> QED BY <2>1, <2>2, <2>3 DEF StartKept, AckAfterStart, Body, Ended, Result, Acknowledged
<1>5. CASE StartedRemoved
  <2>1. /\ slot.at = "opening" /\ slot'.at = "returned" /\ R \in Removals
        /\ rec'.trigger = AckRefused /\ UNCHANGED <<rec.graph, rec.source>>
    BY <1>0, <1>5 DEF StartedRemoved, SlotType, RecordType, Result
  <2>2. rec.trigger = "held" /\ ~rec.graph
    BY <1>0, <2>1 DEF StartKept
  <2>3. R' = R
    BY <2>1, StartedStays DEF Removals
  <2>4. AckRefused = "held" \/ (AckRefused = "acked" /\ R = "Refused")
    BY <2>2 DEF AckRefused, Acknowledged, Result
  <2> QED BY <2>1, <2>2, <2>3, <2>4 DEF StartKept, AckAfterStart, Body, Ended, Result
<1>6. CASE ~Unmade /\ ~OpenQueue /\ ~StartedDelivered /\ ~StartedRemoved
  <2>1. /\ UNCHANGED <<rec.trigger, rec.startedPending>> /\ rec'.source = rec.source
        /\ rec'.graph = rec.graph \/ (RunStarted /\ rec'.graph)
    BY <1>6, RecMoves
  <2>2. RunStarted => slot.at = "starting" /\ slot'.at \in Body
    BY <1>0 DEF RunStarted, Goes, Ends, SlotType, Body
  <2>3. \/ slot'.at = slot.at
        \/ slot.at \in Body \cup Ended /\ slot'.at \in Body \cup Ended \cup {"returned"}
        \/ slot.at \in SlotAwaits /\ slot'.at = "aborted"
    BY <1>6, SlotMoves DEF Ended, Body
  <2>4. (slot.at \in Body \cup Ended) => R' = "Delivered"
    BY <1>0, StartedStays DEF StartKept
  <2>5. rec.trigger = "acked" => R' = R
    BY <1>0, StartedStays DEF StartKept, AckAfterStart, Result
  <2>6. rec.trigger = "back" => R' = "absent" /\ slot'.at = "returned"
    <3> SUFFICES ASSUME rec.trigger = "back" PROVE R' = "absent" /\ slot'.at = "returned"
      OBVIOUS
    <3>1. slot.at = "returned" /\ R = "absent"
      BY <1>0 DEF StartKept, AckAfterStart, Result
    <3> QED BY <2>3, <3>1, StartedStays DEF SlotAwaits, Body, Ended
  <2>7. rec.graph => R' = "Delivered"
    BY <1>0, StartedStays DEF StartKept, AckAfterStart, Result
  <2>8. AckAfterStart'
    <3>1. \A v \in {"Delivered", "Refused", "absent"} : R' = v <=> queue'.result["Started"] = v
      BY DEF Result
    <3>2. rec'.trigger = "acked" => queue'.result["Started"] \in {"Delivered", "Refused"}
      BY <1>0, <2>1, <2>5, <3>1 DEF StartKept, AckAfterStart, Result
    <3>3. rec'.graph => /\ R' = "Delivered" /\ ~rec'.startedPending
                        /\ rec'.source = "Trigger" => rec'.trigger = "acked"
      <4>1. CASE rec'.graph = rec.graph
        BY <1>0, <2>1, <2>7, <4>1 DEF StartKept, AckAfterStart
      <4>2. CASE RunStarted
        BY <1>0, <2>1, <2>2, <2>4, <4>2 DEF StartKept, Body
      <4> QED BY <2>1, <4>1, <4>2
    <3> QED BY <2>1, <2>6, <3>1, <3>2, <3>3 DEF AckAfterStart
  <2>9. slot'.at \in Body \cup Ended =>
          /\ R' = "Delivered" /\ ~rec'.startedPending
          /\ rec'.source = "Trigger" => rec'.trigger = "acked"
    <3>1. slot'.at \in Body \cup Ended => slot.at \in Body \cup Ended
      BY <2>3 DEF Body, Ended
    <3> QED BY <1>0, <2>1, <2>4, <3>1 DEF StartKept
  <2>10. slot'.at \in {"registered", "opening"} => rec'.trigger = "held" /\ ~rec'.graph
    <3>1. slot'.at \in {"registered", "opening"} => slot'.at = slot.at /\ ~RunStarted
      BY <2>2, <2>3 DEF Body, Ended
    <3> QED BY <1>0, <2>1, <3>1 DEF StartKept
  <2> QED BY <1>1, <2>1, <2>6, <2>8, <2>9, <2>10 DEF StartKept
<1> QED BY <1>2, <1>3, <1>4, <1>5, <1>6

-----------------------------------------------------------------------------
(* The end                                                                 *)

\* The closing moves forward.
LEMMA ClosingMoves ==
  ASSUME LifeInv, [Next]_vars
  PROVE  \/ closing'.at = closing.at
         \/ SpawnClosing /\ closing'.at = "spawned"
         \/ ClosingBegins /\ closing'.at = "ends"
         \/ ClosingEnds /\ ~Replaced /\ closing'.at = "drained" /\ UNCHANGED queue
         \/ closing.at = "drained" /\ closing'.at = "delist"
         \/ closing.at = "delist" /\ closing'.at = "forget"
         \/ closing.at = "forget" /\ closing'.at = "over" /\ ClosingForgets
         \/ JoinClosing /\ closing'.at = "aborted"
<1>0. closing \in [at : ClosingAt, listed : BOOLEAN, covers : SUBSET RunWrites]
  BY DEF LifeInv, TypeOK, TaskTypes
<1>1. CASE SpawnClosing \/ AddClosing \/ TakeClosings \/ JoinClosing
  BY <1>0, <1>1 DEF SpawnClosing, AddClosing, TakeClosings, JoinClosing
<1>2. CASE Closing
  BY <1>0, <1>2 DEF Closing, ClosingBegins, ClosingEnds, ClosingDrained, ClosingDelists,
     ClosingForgets
<1>3. CASE UNCHANGED closing
  BY <1>3
<1> QED BY <1>1, <1>2, <1>3, Frames DEF ClosingSteps

\* No write of the end was handed over.
LEMMA NoTerminal ==
  /\ Terminal = {} <=> \A w \in EndKinds : Result(w) = "absent"
  /\ Terminal' = {} <=> \A w \in EndKinds : Result(w)' = "absent"
  BY DEF Terminal, EndKinds, Result

\* Only the hand-over of the end brings the first of its writes.
LEMMA NoTerminalYet ==
  ASSUME LifeInv, [Next]_vars, Terminal = {}
  PROVE  Terminal' = {} \/ (HandOverEnd /\ slot.ending # "Cancelled")
<1> SUFFICES ASSUME ~(HandOverEnd /\ slot.ending # "Cancelled")
             PROVE  \A w \in EndKinds : Result(w)' = "absent"
  BY NoTerminal
<1>1. ~Replaced
  <2>1. "Completed" \in EndKinds
    BY DEF EndKinds
  <2> QED BY <2>1, NoTerminal DEF Replaced, Result
<1>2. \A w \in EndKinds : w \in RunWrites /\ ~Joins(w)
  BY <1>1 DEF Joins, EndKinds, RunWrites
<1> QED BY <1>2, NoTerminal, QueueMoves DEF QueueNext, Moves

\* While the closing has awaited the writes of the end, none of them moves.
LEMMA EndStays ==
  ASSUME LifeInv, [Next]_vars, closing.at \in {"drained", "delist", "forget", "over"}
  PROVE  \A w \in EndKinds : Result(w)' = Result(w)
<1>1. \A w \in EndKinds : w \in RunWrites /\ Result(w) # "waiting"
  BY DEF LifeInv, EndKept, EndKinds, RunWrites
<1>2. slot.at \in {"add", "returned"}
  BY DEF LifeInv, PlacesKept
<1>3. \A w \in EndKinds : ~Joins(w)
  BY <1>2 DEF Joins, EndKinds, HandOverEnd, ClosingEnds
<1> QED BY <1>1, <1>3, QueueMoves DEF QueueNext, Moves

\* Every step keeps what is known of the end.
LEMMA EndNext ==
  ASSUME LifeInv, [Next]_vars
  PROVE  EndKept'
<1>0. EndKept /\ PlacesKept
  BY DEF LifeInv
<1>1. slot'.at \in Body \cup {"registered", "opening", "aborted"} => Terminal' = {}
  <2> SUFFICES ASSUME slot'.at \in Body \cup {"registered", "opening", "aborted"}
               PROVE  Terminal' = {}
    OBVIOUS
  <2>1. slot.at \in Body \cup {"registered", "opening", "aborted"}
    BY SlotMoves DEF Body, Ended, SlotAwaits
  <2>2. ~HandOverEnd
    <3>1. HandOverEnd => slot'.at = "drop"
      BY DEF HandOverEnd, LifeInv, TypeOK, SlotType
    <3> QED BY <3>1 DEF Body
  <2> QED BY <1>0, <2>1, <2>2, NoTerminalYet DEF EndKept
<1>2. slot'.at = "returned" /\ closing'.at = "none" => Terminal' = {}
  <2> SUFFICES ASSUME slot'.at = "returned", closing'.at = "none"
               PROVE  Terminal' = {}
    OBVIOUS
  <2>1. closing.at = "none"
    BY ClosingMoves
  <2>2. slot.at \in {"returned", "registered", "opening"}
    BY <1>0, <2>1, SlotMoves DEF Body, Ended, PlacesKept
  <2>3. ~HandOverEnd
    BY <2>2 DEF HandOverEnd
  <2> QED BY <1>0, <2>1, <2>2, <2>3, NoTerminalYet DEF EndKept
<1>3. slot'.ending = "Cancelled" => Terminal' = {}
  <2> SUFFICES ASSUME slot'.ending = "Cancelled"
               PROVE  Terminal' = {}
    OBVIOUS
  <2>1. CASE slot'.ending = slot.ending
    BY <1>0, <2>1, NoTerminalYet DEF EndKept
  <2>2. CASE slot.at \in {"registered", "opening"}
    BY <1>0, <2>2, NoTerminalYet DEF EndKept, HandOverEnd
  <2>3. CASE slot.at \in Body /\ slot'.at \in Body
    BY <1>1, <2>3
  <2> QED BY <2>1, <2>2, <2>3, SlotMoves
<1>4. closing'.at \in {"drained", "delist", "forget", "over"} =>
        /\ \A w \in EndKinds : Result(w)' \notin {"waiting", "LeftUnsent"}
        /\ (\E w \in Parts : Result(w)' \in {"Refused", "Failed"}) => Result("Failed")' # "absent"
  <2> SUFFICES ASSUME closing'.at \in {"drained", "delist", "forget", "over"}
               PROVE  /\ \A w \in EndKinds : Result(w)' \notin {"waiting", "LeftUnsent"}
                      /\ (\E w \in Parts : Result(w)' \in {"Refused", "Failed"})
                           => Result("Failed")' # "absent"
    OBVIOUS
  <2>1. CASE closing.at \in {"drained", "delist", "forget", "over"}
    <3>1. Parts \subseteq EndKinds /\ "Failed" \in EndKinds
      BY DEF Parts, EndKinds
    <3> QED BY <1>0, <2>1, <3>1, EndStays DEF EndKept
  <2>2. CASE ClosingEnds /\ ~Replaced /\ UNCHANGED queue
    <3>1. \A w \in EndKinds : w \in RunWrites /\ Result(w) # "waiting"
      BY <2>2 DEF ClosingEnds, Terminal, Waiting, EndKinds, RunWrites, Result
    <3>2. queue.refs # {}
      BY <1>0, <2>2 DEF ClosingEnds, PlacesKept, ClosingAwaits
    <3>3. \A w \in EndKinds : Result(w) # "LeftUnsent"
      BY <3>1, <3>2 DEF LifeInv, ResultsKept
    <3>4. \A w \in EndKinds : Result(w)' = Result(w)
      BY <2>2 DEF Result
    <3>5. ASSUME NEW w \in Parts, Result(w) \in {"Refused", "Failed"}
          PROVE  Result("Failed") # "absent"
      <4>1. Result("Completed") \notin {"absent", "Delivered", "Refused", "Failed"}
        BY <3>5 DEF LifeInv, ResultsKept
      <4>2. "Completed" \in EndKinds /\ "Completed" \in RunWrites
        BY DEF EndKinds, RunWrites
      <4>3. Result("Completed") = "DependsOnRemoved"
        BY <3>1, <3>3, <4>1, <4>2, QueueFacts DEF LifeInv, Results, Removals
      <4> QED BY <2>2, <3>5, <4>3 DEF Replaced, Result, Parts
    <3>6. Parts \subseteq EndKinds /\ "Failed" \in EndKinds
      BY DEF Parts, EndKinds
    <3> QED BY <3>1, <3>3, <3>4, <3>5, <3>6
  <2> QED BY <2>1, <2>2, ClosingMoves
<1> QED BY <1>1, <1>2, <1>3, <1>4 DEF EndKept

-----------------------------------------------------------------------------
(* The hooks                                                               *)

\* What the observer reports.
LEMMA ObserverFacts ==
  /\ observer = Idle => \A i : ~Reporting(i)
  /\ observer' = Idle => \A i : ~Reporting(i)'
  /\ \A j : \A s \in {"insert", "bump", "look"} :
       /\ observer = <<s, j>> => \A i : Reporting(i) <=> i = j
       /\ observer' = <<s, j>> => \A i : Reporting(i)' <=> i = j
  /\ \A j : \A s \in {"insert", "bump", "look"} : <<s, j>> # Idle
  BY DEF Reporting, Idle

\* The steps of the slot between the return of the executor and the drop of the Run.
AfterReturn == {"call", "calling", "wait", "sleep", "drained", "ready", "drop"}

\* The steps that change nothing of what the hooks are about.
LEMMA HooksSame ==
  ASSUME HooksKept, UNCHANGED <<inst, observer, rec.graph, rec.phase, rec.obsOver, rec.obsExpected,
                                slot.at, slot.calling, drain.at, drain.due>>
  PROVE  HooksKept'
<1>1. \A i : Reporting(i)' <=> Reporting(i)
  BY DEF Reporting
<1>2. Observed' <=> Observed
  BY DEF Observed
<1> QED BY <1>1, <1>2 DEF HooksKept

\* A step of the slot that is not one of the hooks'.
LEMMA HooksSlot ==
  ASSUME HooksKept, UNCHANGED <<inst, observer, rec.graph, rec.phase, rec.obsOver, rec.obsExpected,
                                slot.calling, drain.at, drain.due>>,
         slot.at \notin {"call", "calling"}, slot'.at # "calling",
         slot'.at \in AfterReturn => slot.at \in AfterReturn,
         slot'.at \in {"drained", "ready", "drop"} =>
           slot.at \in {"drained", "ready", "drop"} \/ inst.running = {}
  PROVE  HooksKept'
<1>1. \A i : Reporting(i)' <=> Reporting(i)
  BY DEF Reporting
<1>2. Observed' <=> Observed
  BY DEF Observed
<1> QED BY <1>1, <1>2 DEF HooksKept, AfterReturn

\* call_once for the instances of S.
LEMMA CalledHooks ==
  ASSUME LifeInv, NEW S \in SUBSET Instances, S \subseteq inst.made, inst' = Called(S)
  PROVE  /\ inst'.made = inst.made /\ inst'.byId = inst.byId
         /\ inst'.hooked = inst.hooked \cup S
         /\ inst'.hooked \subseteq inst'.made /\ inst'.running \subseteq inst'.hooked
         /\ \A i \in Instances : inst'.calls[i] = IF i \in inst'.hooked THEN 1 ELSE 0
<1>1. /\ inst'.made = inst.made /\ inst'.byId = inst.byId
      /\ inst'.hooked = inst.hooked \cup S
      /\ inst'.running = inst.running \cup (S \ inst.hooked)
      /\ \A i \in Instances : inst'.calls[i] =
           IF i \in S \ inst.hooked THEN inst.calls[i] + 1 ELSE inst.calls[i]
  BY CalledType DEF LifeInv, TypeOK
<1> QED BY <1>1 DEF LifeInv, HooksKept

\* The executor, its observer and the hooks.
LEMMA HooksExecutor ==
  ASSUME LifeInv, Executor \/ Hooks
  PROVE  HooksKept'
<1>0. /\ HooksKept /\ RecordType /\ SlotType /\ InstanceType /\ PlacesKept
      /\ drain.due \in SUBSET Instances
  BY DEF LifeInv, TypeOK, TaskTypes
<1>1. CASE ExecutorReturns \/ ExecutorRefuses \/ BodyPanics
  <2>1. /\ UNCHANGED <<inst, observer, drain, rec.graph, rec.phase, slot.calling>>
        /\ slot.at \in {"starting", "executing"} /\ slot'.at = "settle"
        /\ rec'.obsOver = rec.obsOver \/ observer = Idle
    BY <1>0, <1>1 DEF ExecutorReturns, ExecutorRefuses, BodyPanics, Ends, RecordType, SlotType
  <2>2. \A i : Reporting(i)' <=> Reporting(i)
    BY <2>1 DEF Reporting
  <2> QED BY <1>0, <2>1, <2>2 DEF HooksKept
<1>2. CASE \E i \in Instances : Created(i)
  <2>1. PICK i \in Instances : Created(i)
    BY <1>2
  <2>2. /\ observer = Idle /\ rec.graph /\ ~rec.obsOver /\ observer' = <<"insert", i>>
        /\ inst'.made = inst.made \cup {i}
        /\ UNCHANGED <<rec, slot, drain, inst.hooked, inst.running, inst.byId, inst.calls>>
    BY <1>0, <2>1 DEF Created, InstanceType
  <2>3. \A j : ~Reporting(j) /\ (Reporting(j)' <=> j = i)
    BY <2>2, ObserverFacts
  <2>4. Observed' <=> Observed
    BY <2>2 DEF Observed
  <2> QED BY <1>0, <2>2, <2>3, <2>4 DEF HooksKept
<1>3. CASE \E i \in Instances : Insert(i) \/ Bump(i)
  <2>1. PICK i \in Instances : Insert(i) \/ Bump(i)
    BY <1>3
  <2>2. /\ UNCHANGED <<rec, slot, drain, inst.made, inst.hooked, inst.running, inst.calls>>
        /\ inst'.byId \subseteq inst.byId \cup {i}
        /\ observer \in {<<"insert", i>>, <<"bump", i>>} /\ observer' \in {<<"bump", i>>, <<"look", i>>}
    BY <1>0, <2>1 DEF Insert, Bump, InstanceType
  <2>3. \A j : (Reporting(j) <=> j = i) /\ (Reporting(j)' <=> j = i)
    BY <2>2, ObserverFacts
  <2>4. observer # Idle
    BY <2>2, ObserverFacts
  <2>5. Observed' <=> Observed
    BY <2>2 DEF Observed
  <2> QED BY <1>0, <2>2, <2>3, <2>4, <2>5 DEF HooksKept
<1>4. CASE \E i \in Instances : LookAtPhase(i)
  <2>1. PICK i \in Instances : LookAtPhase(i)
    BY <1>4
  <2>2. /\ observer = <<"look", i>> /\ observer' = Idle /\ UNCHANGED <<rec, slot, drain>>
        /\ inst' = IF rec.phase # "Live" THEN Called({i}) ELSE inst
    BY <2>1 DEF LookAtPhase, Late
  <2>3. \A j : (Reporting(j) <=> j = i) /\ ~Reporting(j)'
    BY <2>2, ObserverFacts
  <2>4. ~rec.obsOver /\ i \in inst.made
    BY <1>0, <2>2, <2>3, ObserverFacts DEF HooksKept
  <2>5. Observed' <=> Observed
    BY <2>2 DEF Observed
  <2>6. slot.at \in AfterReturn => ~rec.obsExpected
    BY <1>0, <2>4 DEF HooksKept, AfterReturn, Observed
  <2>7. CASE rec.phase = "Live"
    BY <1>0, <2>2, <2>3, <2>5, <2>7 DEF HooksKept
  <2>8. CASE rec.phase # "Live"
    <3>1. PICK S \in SUBSET Instances : S = {i}
      OBVIOUS
    <3>2. /\ inst'.made = inst.made /\ inst'.byId = inst.byId
          /\ inst'.hooked = inst.hooked \cup S
          /\ inst'.hooked \subseteq inst'.made /\ inst'.running \subseteq inst'.hooked
          /\ \A j \in Instances : inst'.calls[j] = IF j \in inst'.hooked THEN 1 ELSE 0
      BY <2>2, <2>4, <2>8, <3>1, CalledHooks
    <3> QED BY <1>0, <2>2, <2>3, <2>5, <2>6, <2>8, <3>1, <3>2 DEF HooksKept, AfterReturn
  <2> QED BY <2>7, <2>8
<1>5. CASE \E i \in Instances : EventHandled(i)
  <2>1. PICK i \in Instances : EventHandled(i)
    BY <1>5
  <2>2. PICK S \in SUBSET Instances : S = {i}
    OBVIOUS
  <2>3. /\ observer = Idle /\ i \in inst.made /\ ~rec.obsOver /\ inst' = Called(S)
        /\ UNCHANGED <<rec, slot, drain, observer>>
    BY <2>1, <2>2 DEF EventHandled
  <2>4. /\ inst'.made = inst.made /\ inst'.byId = inst.byId
        /\ inst'.hooked = inst.hooked \cup S
        /\ inst'.hooked \subseteq inst'.made /\ inst'.running \subseteq inst'.hooked
        /\ \A j \in Instances : inst'.calls[j] = IF j \in inst'.hooked THEN 1 ELSE 0
    BY <2>2, <2>3, CalledHooks
  <2>5. \A j : Reporting(j)' <=> Reporting(j)
    BY <2>3 DEF Reporting
  <2>6. Observed' <=> Observed
    BY <2>3 DEF Observed
  <2>7. slot.at \in AfterReturn => ~rec.obsExpected
    BY <1>0, <2>3 DEF HooksKept, AfterReturn, Observed
  <2> QED BY <1>0, <2>3, <2>4, <2>5, <2>6, <2>7 DEF HooksKept, AfterReturn
<1>6. CASE ObservationsEnd
  <2>1. /\ observer = Idle /\ rec'.obsOver
        /\ UNCHANGED <<inst, observer, slot, drain, rec.graph, rec.phase, rec.obsExpected>>
    BY <1>0, <1>6 DEF ObservationsEnd, RecordType
  <2>2. \A j : Reporting(j)' <=> Reporting(j)
    BY <2>1 DEF Reporting
  <2>3. Observed'
    BY <2>1 DEF Observed
  <2> QED BY <1>0, <2>1, <2>2, <2>3 DEF HooksKept
<1>7. CASE Hooks
  <2>1. PICK i \in Instances : HookReturns(i)
    BY <1>7 DEF Hooks
  <2>2. /\ inst'.running \subseteq inst.running
        /\ UNCHANGED <<rec, drain, observer, inst.made, inst.hooked, inst.byId, inst.calls,
                       slot.at, slot.calling>>
    BY <1>0, <2>1 DEF HookReturns, InstanceType, SlotType
  <2>3. \A j : Reporting(j)' <=> Reporting(j)
    BY <2>2 DEF Reporting
  <2>4. Observed' <=> Observed
    BY <2>2 DEF Observed
  <2> QED BY <1>0, <2>2, <2>3, <2>4 DEF HooksKept
<1> QED BY <1>1, <1>2, <1>3, <1>4, <1>5, <1>6, <1>7 DEF Executor

\* The slot: call_all finds every instance that has no call yet.
LEMMA HooksExecute ==
  ASSUME LifeInv, Execute
  PROVE  HooksKept'
<1>0. HooksKept /\ RecordType /\ SlotType /\ InstanceType /\ PlacesKept
  BY DEF LifeInv, TypeOK
<1>1. CASE Unmade \/ OpenQueue \/ StartedDelivered \/ StartedRemoved
  <2>1. /\ UNCHANGED <<inst, observer, rec.graph, rec.phase, rec.obsOver, rec.obsExpected,
                        slot.calling, drain.at, drain.due>>
        /\ slot.at \in {"registered", "opening"} /\ slot'.at \in {"returned", "opening", "prepare"}
    BY <1>0, <1>1 DEF Unmade, OpenQueue, StartedDelivered, StartedRemoved, RecordType, SlotType
  <2> QED BY <1>0, <2>1, HooksSlot DEF AfterReturn
<1>2. CASE Prepare \/ ReadFails \/ MakeBook \/ StartRefused \/ Settle
  <2>1. /\ UNCHANGED <<inst, observer, rec.graph, rec.phase, rec.obsOver, rec.obsExpected,
                        slot.calling, drain.at, drain.due>>
        /\ slot.at \in {"prepare", "reading", "starting", "settle"}
        /\ slot'.at \in {"reading", "starting", "settle", "observing"}
    BY <1>0, <1>2 DEF Prepare, ReadFails, MakeBook, StartRefused, Settle, Ends, Goes, RecordType,
       SlotType
  <2> QED BY <1>0, <2>1, HooksSlot DEF AfterReturn
<1>3. CASE RunStarted
  <2>1. /\ UNCHANGED <<inst, observer, drain, slot.calling, rec.phase, rec.obsOver, rec.obsExpected>>
        /\ rec'.graph = rec.graph \/ rec'.graph
        /\ slot.at = "starting" /\ slot'.at \in {"executing", "settle"}
    BY <1>0, <1>3 DEF RunStarted, Ends, Goes, RecordType, SlotType
  <2>2. \A j : Reporting(j)' <=> Reporting(j)
    BY <2>1 DEF Reporting
  <2> QED BY <1>0, <2>1, <2>2 DEF HooksKept
<1>4. CASE SetReturned
  <2>1. /\ UNCHANGED <<inst, observer, drain, slot.calling, rec.graph, rec.obsOver, rec.obsExpected>>
        /\ rec'.phase = "ExecutorReturned" /\ Observed
        /\ slot.at = "observing" /\ slot'.at = "call"
    BY <1>0, <1>4 DEF SetReturned, Goes, RecordType, SlotType
  <2>2. \A j : Reporting(j)' <=> Reporting(j)
    BY <2>1 DEF Reporting
  <2>3. Observed'
    BY <2>1 DEF Observed
  <2> QED BY <1>0, <2>1, <2>2, <2>3 DEF HooksKept
<1>5. CASE CallAll
  <2>1. /\ UNCHANGED <<inst, observer, drain, rec>>
        /\ slot'.calling = inst.made \ inst.hooked
        /\ slot.at = "call" /\ slot'.at = "calling"
    BY <1>0, <1>5 DEF CallAll, SlotType
  <2>2. \A j : Reporting(j)' <=> Reporting(j)
    BY <2>1 DEF Reporting
  <2>3. Observed' <=> Observed
    BY <2>1 DEF Observed
  <2> QED BY <1>0, <2>1, <2>2, <2>3 DEF HooksKept
<1>6. CASE CallEach
  <2>1. /\ UNCHANGED <<observer, drain, rec>> /\ inst' = Called(slot.calling)
        /\ slot'.calling = {} /\ slot.at = "calling" /\ slot'.at = "wait"
        /\ slot.calling \in SUBSET Instances
    BY <1>0, <1>6 DEF CallEach, SlotType
  <2>2. slot.calling \subseteq inst.made
    BY <1>0 DEF HooksKept
  <2>3. /\ inst'.made = inst.made /\ inst'.byId = inst.byId
        /\ inst'.hooked = inst.hooked \cup slot.calling
        /\ inst'.hooked \subseteq inst'.made /\ inst'.running \subseteq inst'.hooked
        /\ \A j \in Instances : inst'.calls[j] = IF j \in inst'.hooked THEN 1 ELSE 0
    BY <2>1, <2>2, CalledHooks
  <2>4. \A j : Reporting(j)' <=> Reporting(j)
    BY <2>1 DEF Reporting
  <2>5. Observed' <=> Observed
    BY <2>1 DEF Observed
  <2> QED BY <1>0, <2>1, <2>3, <2>4, <2>5 DEF HooksKept
<1>7. CASE HooksReturned \/ HooksChanged \/ Settled \/ HandOverEnd
  <2>1. /\ UNCHANGED <<inst, observer, rec, slot.calling, drain>>
        /\ slot.at \in {"wait", "sleep", "drained", "ready"}
        /\ slot'.at \in {"drained", "sleep", "wait", "ready", "drop"}
        /\ slot'.at \in {"drained", "ready", "drop"} =>
             slot.at \in {"drained", "ready"} \/ inst.running = {}
    BY <1>0, <1>7 DEF HooksReturned, HooksChanged, Settled, HandOverEnd, Goes, SlotType
  <2> QED BY <1>0, <2>1, HooksSlot DEF AfterReturn
<1>8. CASE SetDropped
  <2>1. /\ UNCHANGED <<inst, observer, drain, slot.calling, rec.graph, rec.obsOver, rec.obsExpected>>
        /\ rec'.phase = "Dropped" /\ slot.at = "drop" /\ slot'.at = "remove"
    BY <1>0, <1>8 DEF SetDropped, Goes, RecordType, SlotType
  <2>2. \A j : Reporting(j)' <=> Reporting(j)
    BY <2>1 DEF Reporting
  <2> QED BY <1>0, <2>1, <2>2 DEF HooksKept
<1>9. CASE RemoveRun
  <2>1. /\ UNCHANGED <<observer, drain, slot.calling, rec, inst.made, inst.hooked, inst.running,
                       inst.calls>>
        /\ inst'.byId = {} /\ slot.at = "remove" /\ slot'.at = "spawn"
    BY <1>0, <1>9 DEF RemoveRun, Goes, InstanceType, SlotType
  <2>2. \A j : Reporting(j)' <=> Reporting(j)
    BY <2>1 DEF Reporting
  <2> QED BY <1>0, <2>1, <2>2 DEF HooksKept
<1>10. CASE SpawnClosing \/ AddClosing
  <2>1. /\ UNCHANGED <<inst, observer, rec.graph, rec.phase, rec.obsOver, rec.obsExpected,
                        slot.calling, drain.at, drain.due>>
        /\ slot.at \in {"spawn", "add"} /\ slot'.at \in {"add", "returned"}
    BY <1>0, <1>10 DEF SpawnClosing, AddClosing, Goes, RecordType, SlotType
  <2> QED BY <1>0, <2>1, HooksSlot DEF AfterReturn
<1> QED BY <1>1, <1>2, <1>3, <1>4, <1>5, <1>6, <1>7, <1>8, <1>9, <1>10 DEF Execute

\* The drain: the abort calls the hooks that the slot could not.
LEMMA HooksDrain ==
  ASSUME LifeInv, DrainBegins \/ DrainWaits \/ Timeout \/ DrainAborts
  PROVE  HooksKept'
<1> DEFINE DT == [at : DrainAt, note : BOOLEAN, due : SUBSET Instances,
                  report : [listed : BOOLEAN, aborted : BOOLEAN, unsent : SUBSET RunWrites]]
<1>0. HooksKept /\ RecordType /\ SlotType /\ InstanceType /\ PlacesKept /\ drain \in DT
  BY DEF LifeInv, TypeOK, TaskTypes
<1>1. CASE \/ DrainBegins \/ SlotEnded \/ ClosingsLook \/ ClosingsChanged \/ Timeout
           \/ TakeClosings \/ JoinClosing \/ ReportLeft \/ ForgetLeft
  <2>1. /\ UNCHANGED <<inst, observer, slot, drain.due, rec.graph, rec.phase, rec.obsOver,
                       rec.obsExpected>>
        /\ drain.at \notin {"call", "calling"} /\ drain'.at \notin {"call", "calling"}
    <3>1. CASE DrainBegins \/ SlotEnded \/ ClosingsLook \/ ClosingsChanged
      BY <1>0, <3>1 DEF DrainBegins, SlotEnded, ClosingsLook, ClosingsChanged, Drains
    <3>2. CASE Timeout \/ TakeClosings \/ JoinClosing
      BY <1>0, <3>2 DEF Timeout, TakeClosings, JoinClosing, Drains
    <3>3. CASE ReportLeft \/ ForgetLeft
      BY <1>0, <3>3 DEF ReportLeft, ForgetLeft, Drains, RecordType
    <3> QED BY <1>1, <3>1, <3>2, <3>3
  <2>2. \A j : Reporting(j)' <=> Reporting(j)
    BY <2>1 DEF Reporting
  <2>3. Observed' <=> Observed
    BY <2>1 DEF Observed
  <2> QED BY <1>0, <2>1, <2>2, <2>3 DEF HooksKept
<1>2. CASE AbortSlot
  <2>1. /\ UNCHANGED <<inst, observer, rec, drain.due, slot.calling>>
        /\ drain.at = "abort" /\ drain'.at = "take"
        /\ slot' = slot \/ (slot.at \in SlotAwaits /\ slot'.at = "aborted")
    BY <1>0, <1>2 DEF AbortSlot, Drains, SlotType
  <2>2. \A j : Reporting(j)' <=> Reporting(j)
    BY <2>1 DEF Reporting
  <2>3. Observed' <=> Observed
    BY <2>1 DEF Observed
  <2> QED BY <1>0, <2>1, <2>2, <2>3 DEF HooksKept, SlotAwaits
<1>3. CASE AbortRun
  <2>1. /\ UNCHANGED <<inst, observer, slot, drain.due, rec.graph, rec.obsOver, rec.obsExpected>>
        /\ drain.at = "runs"
        /\ \/ drain'.at = "call"
           \/ drain'.at = "done" /\ rec'.phase = rec.phase
    BY <1>0, <1>3 DEF AbortRun, Drains, RecordType
  <2>2. \A j : Reporting(j)' <=> Reporting(j)
    BY <2>1 DEF Reporting
  <2>3. slot.at \in {"returned", "aborted"}
    BY <1>0, <2>1 DEF PlacesKept
  <2> QED BY <1>0, <2>1, <2>2, <2>3 DEF HooksKept
<1>4. CASE AbortCallAll
  <2>1. /\ UNCHANGED <<inst, observer, slot, rec>>
        /\ drain.at = "call" /\ drain'.at = "calling" /\ drain'.due = inst.made \ inst.hooked
    BY <1>0, <1>4 DEF AbortCallAll
  <2>2. \A j : Reporting(j)' <=> Reporting(j)
    BY <2>1 DEF Reporting
  <2>3. Observed' <=> Observed
    BY <2>1 DEF Observed
  <2> QED BY <1>0, <2>1, <2>2, <2>3 DEF HooksKept
<1>5. CASE AbortCallEach
  <2>1. /\ UNCHANGED <<observer, slot, rec>> /\ inst' = Called(drain.due)
        /\ drain.due \in SUBSET Instances
        /\ drain.at = "calling" /\ drain'.at = "remove" /\ drain'.due = {}
    BY <1>0, <1>5 DEF AbortCallEach
  <2>2. drain.due \subseteq inst.made
    BY <1>0 DEF HooksKept
  <2>3. /\ inst'.made = inst.made /\ inst'.byId = inst.byId
        /\ inst'.hooked = inst.hooked \cup drain.due
        /\ inst'.hooked \subseteq inst'.made /\ inst'.running \subseteq inst'.hooked
        /\ \A j \in Instances : inst'.calls[j] = IF j \in inst'.hooked THEN 1 ELSE 0
    BY <2>1, <2>2, CalledHooks
  <2>4. \A j : Reporting(j)' <=> Reporting(j)
    BY <2>1 DEF Reporting
  <2>5. Observed' <=> Observed
    BY <2>1 DEF Observed
  <2>6. slot.at \in {"returned", "aborted"}
    BY <1>0, <2>1 DEF PlacesKept
  <2> QED BY <1>0, <2>1, <2>3, <2>4, <2>5, <2>6 DEF HooksKept
<1>6. CASE AbortRemove
  <2>1. /\ UNCHANGED <<observer, slot, drain.due, inst.made, inst.hooked, inst.running, inst.calls,
                       rec.graph, rec.phase, rec.obsOver, rec.obsExpected>>
        /\ inst'.byId = {} /\ drain.at = "remove" /\ drain'.at = "done"
    BY <1>0, <1>6 DEF AbortRemove, Drains, InstanceType, RecordType
  <2>2. \A j : Reporting(j)' <=> Reporting(j)
    BY <2>1 DEF Reporting
  <2>3. Observed' <=> Observed
    BY <2>1 DEF Observed
  <2> QED BY <1>0, <2>1, <2>2, <2>3 DEF HooksKept
<1> QED BY <1>1, <1>2, <1>3, <1>4, <1>5, <1>6 DEF DrainWaits, DrainAborts

\* Every step keeps what is known of the hooks.
LEMMA HooksNext ==
  ASSUME LifeInv, [Next]_vars
  PROVE  HooksKept'
<1>0. HooksKept /\ RecordType
      /\ drain \in [at : DrainAt, note : BOOLEAN, due : SUBSET Instances,
                    report : [listed : BOOLEAN, aborted : BOOLEAN, unsent : SUBSET RunWrites]]
  BY DEF LifeInv, TypeOK, TaskTypes
<1>1. CASE Queue \/ NodeWrites \/ CancelOrder \/ Closing \/ Lookup \/ UNCHANGED vars
  <2>1. UNCHANGED <<inst, observer, slot, rec.graph, rec.phase, rec.obsOver, rec.obsExpected,
                    drain.at, drain.due>>
    BY <1>0, <1>1 DEF Queue, QueueEnds, QueueStops, NodeWrites, CancelOrder, Closing, ClosingBegins,
       ClosingEnds, ClosingDrained, ClosingDelists, ClosingForgets, Lookup, LookupSubscribe,
       LookupCheck, LookupChanged, Look, vars, RecordType
  <2> QED BY <1>0, <2>1, HooksSame
<1> QED BY <1>1, HooksExecutor, HooksExecute, HooksDrain DEF Next

-----------------------------------------------------------------------------
(* The lookup and the drain                                                *)

\* The phase and the registration move at these steps only.
LEMMA PhaseMoves ==
  ASSUME LifeInv, [Next]_vars
  PROVE  /\ \/ rec'.phase = rec.phase
            \/ slot.at \in {"observing", "drop"} /\ slot'.at \in {"call", "remove"}
               /\ (slot'.at = "remove" => rec'.phase = "Dropped")
            \/ AbortRun /\ rec.registered /\ rec'.phase = "Aborted"
         /\ \/ rec'.registered = rec.registered
            \/ Unmade \/ StartedRemoved \/ ClosingForgets \/ ForgetLeft \/ AbortRemove
<1>0. RecordType /\ SlotType
  BY DEF LifeInv, TypeOK
<1> USE DEF RecordType
<1>1. CASE Unmade \/ StartedDelivered \/ MakeBook
  BY <1>0, <1>1 DEF Unmade, StartedDelivered, MakeBook
<1>2. CASE StartedRemoved
  BY <1>0, <1>2 DEF StartedRemoved
<1>3. CASE RunStarted \/ ExecutorReturns \/ ExecutorRefuses \/ BodyPanics
  BY <1>0, <1>3 DEF RunStarted, ExecutorReturns, ExecutorRefuses, BodyPanics
<1>4. CASE CancelOrder \/ ObservationsEnd \/ SpawnClosing
  BY <1>0, <1>4 DEF CancelOrder, ObservationsEnd, SpawnClosing
<1>5. CASE SetReturned \/ SetDropped
  BY <1>0, <1>5 DEF SetReturned, SetDropped, Goes, SlotType
<1>6. CASE ClosingForgets \/ ForgetLeft \/ AbortRun \/ AbortRemove
  BY <1>0, <1>6 DEF ClosingForgets, ForgetLeft, AbortRun, AbortRemove
<1>7. CASE UNCHANGED rec
  BY <1>7
<1> QED BY <1>1, <1>2, <1>3, <1>4, <1>5, <1>6, <1>7, Frames DEF RecSteps

\* The lookup gains an instance of a live Run, or loses all.
LEMMA ByIdMoves ==
  ASSUME LifeInv, [Next]_vars
  PROVE  \/ inst'.byId = inst.byId
         \/ \E i \in Instances : /\ Insert(i) /\ rec.phase \notin {"Dropped", "Aborted"}
                                 /\ inst'.byId = inst.byId \cup {i}
         \/ inst'.byId = {}
<1>0. InstanceType /\ slot.calling \in SUBSET Instances /\ drain.due \in SUBSET Instances
  BY DEF LifeInv, TypeOK, SlotType, TaskTypes
<1>1. CASE \E i \in Instances : Created(i) \/ Insert(i) \/ HookReturns(i)
  BY <1>0, <1>1 DEF Created, Insert, HookReturns, InstanceType, HeldIfAlive
<1>2. CASE \E i \in Instances : LookAtPhase(i) \/ EventHandled(i)
  <2>1. inst' = inst \/ \E S \in SUBSET Instances : inst' = Called(S)
    BY <1>2 DEF LookAtPhase, EventHandled
  <2> QED BY <1>0, <2>1, CalledType
<1>3. CASE CallEach \/ AbortCallEach
  <2>1. \E S \in SUBSET Instances : inst' = Called(S)
    BY <1>0, <1>3 DEF CallEach, AbortCallEach
  <2> QED BY <1>0, <2>1, CalledType
<1>4. CASE RemoveRun \/ AbortRemove
  BY <1>0, <1>4 DEF RemoveRun, AbortRemove, InstanceType
<1>5. CASE UNCHANGED inst
  BY <1>5
<1> QED BY <1>1, <1>2, <1>3, <1>4, <1>5, Frames DEF InstSteps

\* The drain moves forward.
LEMMA DrainMoves ==
  ASSUME LifeInv, [Next]_vars
  PROVE  \/ drain'.at = drain.at /\ drain'.report = drain.report
         \/ drain.at \in {"no", "slots", "closings", "sleep"} /\ drain'.at \in {"slots", "closings", "sleep", "abort"}
         \/ drain.at = "closings" /\ drain'.at = "done" /\ ~closing.listed
         \/ drain.at = "abort" /\ drain'.at = "take" /\ AbortSlot
         \/ drain.at = "take" /\ drain'.at \in {"join", "runs"} /\ TakeClosings
         \/ drain.at = "join" /\ drain'.at = "left"
         \/ drain.at = "left" /\ drain'.at = "forget" /\ drain'.report.unsent = Unsent
             /\ UNCHANGED queue
         \/ drain.at = "forget" /\ drain'.at = "done" /\ drain'.report = drain.report
         \/ drain.at = "runs" /\ drain'.at = "call" /\ AbortRun /\ rec.registered
         \/ drain.at = "runs" /\ drain'.at = "done" /\ ~rec.registered
         \/ drain.at = "call" /\ drain'.at = "calling"
         \/ drain.at = "calling" /\ drain'.at = "remove" /\ drain'.report.listed /\ drain'.report.aborted
         \/ drain.at = "remove" /\ drain'.at = "done" /\ drain'.report = drain.report /\ AbortRemove
<1>0. drain \in [at : DrainAt, note : BOOLEAN, due : SUBSET Instances,
                 report : [listed : BOOLEAN, aborted : BOOLEAN, unsent : SUBSET RunWrites]]
  BY DEF LifeInv, TypeOK, TaskTypes
<1>1. CASE ClosingDelists
  BY <1>0, <1>1 DEF ClosingDelists
<1>2. CASE DrainBegins \/ DrainWaits \/ Timeout
  BY <1>0, <1>2 DEF DrainBegins, DrainWaits, SlotEnded, ClosingsLook, ClosingsChanged, Timeout, Drains
<1>3. CASE AbortSlot \/ TakeClosings \/ JoinClosing \/ ForgetLeft
  BY <1>0, <1>3 DEF AbortSlot, TakeClosings, JoinClosing, ForgetLeft, Drains
<1>4. CASE ReportLeft
  BY <1>0, <1>4 DEF ReportLeft
<1>5. CASE AbortRun \/ AbortCallAll \/ AbortRemove
  BY <1>0, <1>5 DEF AbortRun, AbortCallAll, AbortRemove, Drains
<1>6. CASE AbortCallEach
  BY <1>0, <1>6 DEF AbortCallEach
<1>7. CASE UNCHANGED drain
  BY <1>7
<1> QED BY <1>1, <1>2, <1>3, <1>4, <1>5, <1>6, <1>7, Frames DEF DrainSteps, DrainAborts

\* Every step keeps what is known of the lookup.
LEMMA ByIdNext ==
  ASSUME LifeInv, [Next]_vars
  PROVE  ByIdKept'
<1>0. /\ ByIdKept /\ PlacesKept /\ HooksKept /\ StartKept /\ DrainKept /\ InstanceType /\ SlotType
      /\ lookup \in [Lookups -> [at : {"none", "check", "wait"}, fresh : BOOLEAN]]
  BY DEF LifeInv, TypeOK, TaskTypes
<1>1. \A i \in Lookups : lookup'[i].at = "wait" /\ i \in inst'.byId
                         => lookup'[i].fresh \/ observer' = <<"bump", i>>
  <2> SUFFICES ASSUME NEW i \in Lookups, lookup'[i].at = "wait", i \in inst'.byId
               PROVE  lookup'[i].fresh \/ observer' = <<"bump", i>>
    OBVIOUS
  <2>0. \A j \in Instances : Bump(j) => UNCHANGED inst
    BY DEF Bump
  <2>1. CASE \E j \in Instances : Bump(j)
    <3>1. lookup' = [k \in Lookups |-> [lookup[k] EXCEPT !.fresh = @ \/ lookup[k].at # "none"]]
      BY <2>1 DEF Bump, Changed
    <3>2. lookup'[i] = [lookup[i] EXCEPT !.fresh = @ \/ lookup[i].at # "none"]
      BY <3>1
    <3>3. lookup'[i].at = lookup[i].at /\ lookup'[i].fresh = (lookup[i].fresh \/ lookup[i].at # "none")
      BY <1>0, <3>2
    <3> QED BY <3>3
  <2>2. CASE Lookup
    <3>1. PICK j \in Lookups : LookupSubscribe(j) \/ LookupCheck(j) \/ LookupChanged(j)
      BY <2>2 DEF Lookup
    <3>2. UNCHANGED <<inst, observer>>
      BY <3>1 DEF LookupSubscribe, LookupCheck, LookupChanged, Look
    <3>3. \/ j # i /\ lookup'[i] = lookup[i]
          \/ j = i /\ lookup'[i].at \in {"check", "none"}
          \/ j = i /\ i \notin inst.byId
      BY <1>0, <3>1 DEF LookupSubscribe, LookupCheck, LookupChanged, Look
    <3> QED BY <1>0, <3>2, <3>3 DEF ByIdKept
  <2>3. CASE UNCHANGED lookup /\ ~(\E j \in Instances : Bump(j))
    <3>1. CASE i \in inst.byId
      <4>1. lookup[i].fresh \/ observer = <<"bump", i>>
        BY <1>0, <2>3, <3>1 DEF ByIdKept
      <4>2. observer = <<"bump", i>> => observer' = observer
        BY <2>3, Frames DEF ObserverSteps, Created, Insert, LookAtPhase, Idle
      <4> QED BY <2>3, <4>1, <4>2
    <3>2. CASE i \notin inst.byId
      <4>1. PICK j \in Instances : /\ Insert(j) /\ rec.phase \notin {"Dropped", "Aborted"}
                                   /\ inst'.byId = inst.byId \cup {j}
        BY <3>2, ByIdMoves
      <4>2. j = i /\ observer' = <<"bump", j>>
        BY <3>2, <4>1 DEF Insert, HeldIfAlive
      <4> QED BY <4>2
    <3> QED BY <3>1, <3>2
  <2> QED BY <2>1, <2>2, <2>3, Frames DEF LookupSteps
<1>2. slot'.at \in {"remove", "spawn", "add"} => rec'.phase = "Dropped"
  <2> SUFFICES ASSUME slot'.at \in {"remove", "spawn", "add"} PROVE rec'.phase = "Dropped"
    OBVIOUS
  <2>1. CASE slot.at \in {"remove", "spawn", "add"}
    <3>1. rec.phase = "Dropped"
      BY <1>0, <2>1 DEF ByIdKept
    <3>2. ~AbortRun
      BY <1>0, <2>1 DEF AbortRun, PlacesKept
    <3> QED BY <2>1, <3>1, <3>2, PhaseMoves
  <2>2. CASE slot.at = "drop"
    <3>1. slot'.at = "remove" /\ SetDropped
      BY <1>0, <2>2, Frames DEF SlotSteps, Execute, Unmade, OpenQueue, StartedDelivered,
         StartedRemoved, Prepare, ReadFails, MakeBook, StartRefused, RunStarted, Settle,
         SetReturned, CallAll, CallEach, HooksReturned, HooksChanged, Settled, HandOverEnd,
         SetDropped, RemoveRun, SpawnClosing, AddClosing, ExecutorReturns, ExecutorRefuses,
         BodyPanics, Hooks, HookReturns, AbortSlot, SlotAwaits, Goes, SlotType
    <3> QED BY <3>1 DEF SetDropped, LifeInv, TypeOK, RecordType
  <2> QED BY <2>1, <2>2, SlotMoves DEF Body, Ended
<1>3. slot'.at = "returned" => ~rec'.graph \/ rec'.phase \in {"Dropped", "Aborted"}
  <2> SUFFICES ASSUME slot'.at = "returned"
               PROVE  ~rec'.graph \/ rec'.phase \in {"Dropped", "Aborted"}
    OBVIOUS
  <2>1. slot.at \in {"returned", "registered", "opening", "add"}
    BY SlotMoves DEF Body, Ended
  <2>2. rec'.graph = rec.graph
    BY <2>1, RecMoves DEF RunStarted
  <2>3. ~rec.graph \/ rec.phase \in {"Dropped", "Aborted"}
    BY <1>0, <2>1 DEF ByIdKept, StartKept
  <2>4. rec'.phase = rec.phase \/ rec'.phase = "Aborted"
    BY <2>1, PhaseMoves
  <2> QED BY <2>2, <2>3, <2>4
<1>4. slot'.at = "aborted" /\ drain'.at \in {"call", "calling", "remove", "done"} =>
        rec'.phase = "Aborted" /\ (drain'.at = "done" /\ drain.at # "done" => AbortRemove)
  <2> SUFFICES ASSUME slot'.at = "aborted", drain'.at \in {"call", "calling", "remove", "done"}
               PROVE  rec'.phase = "Aborted" /\ (drain'.at = "done" /\ drain.at # "done" => AbortRemove)
    OBVIOUS
  <2>1. ~AbortSlot
    <3>1. AbortSlot => drain'.at = "take"
      BY DEF AbortSlot, Drains, LifeInv, TypeOK, TaskTypes
    <3> QED BY <3>1
  <2>2. slot.at = "aborted"
    BY <2>1, SlotMoves DEF Body, Ended
  <2>3. drain.at \in {"take", "runs", "call", "calling", "remove", "done"}
    BY <1>0, <2>2 DEF PlacesKept
  <2>4. drain.at = "runs" => rec.registered
    BY <1>0, <2>2 DEF DrainKept
  <2>5. CASE drain.at \in {"call", "calling", "remove", "done"}
    <3>1. rec.phase = "Aborted" /\ rec'.phase = rec.phase
      BY <1>0, <2>2, <2>5, PhaseMoves DEF ByIdKept, AbortRun
    <3> QED BY <2>5, <3>1, DrainMoves
  <2>6. CASE drain.at \in {"take", "runs"}
    <3>1. AbortRun /\ rec.registered /\ drain'.at = "call"
      BY <2>3, <2>4, <2>6, DrainMoves
    <3> QED BY <3>1 DEF AbortRun, LifeInv, TypeOK, RecordType
  <2> QED BY <2>3, <2>5, <2>6
<1>5. slot'.at \in {"spawn", "add", "returned"} \/ (slot'.at = "aborted" /\ drain'.at = "done")
        => inst'.byId = {}
  <2>1. AbortRemove => inst'.byId = {}
    BY <1>0 DEF AbortRemove, InstanceType
  <2>2. CASE slot'.at = "aborted" /\ drain'.at = "done"
    <3>1. CASE AbortRemove
      BY <2>1, <3>1
    <3>2. CASE ~AbortRemove
      <4>1. drain.at = "done"
        BY <1>4, <2>2, <3>2
      <4>2. slot.at = "aborted"
        BY <2>2, <4>1, SlotMoves DEF Body, Ended, AbortSlot
      <4>3. inst.byId = {} /\ rec.phase = "Aborted"
        BY <1>0, <4>1, <4>2 DEF ByIdKept
      <4> QED BY <4>3, ByIdMoves
    <3> QED BY <3>1, <3>2
  <2>3. CASE slot'.at \in {"spawn", "add", "returned"}
    <3>1. CASE slot.at \in {"spawn", "add", "returned"}
      <4>1. inst.byId = {}
        BY <1>0, <3>1 DEF ByIdKept
      <4>2. ASSUME NEW i \in Instances, Insert(i) PROVE rec.phase \in {"Dropped", "Aborted"}
        <5>1. observer # Idle
          BY <4>2, ObserverFacts DEF Insert
        <5>2. rec.graph
          BY <1>0, <5>1 DEF HooksKept
        <5> QED BY <1>0, <3>1, <5>2 DEF ByIdKept
      <4> QED BY <4>1, <4>2, ByIdMoves
    <3>2. CASE slot.at \in {"registered", "opening"}
      <4>1. ~rec.graph
        BY <1>0, <3>2 DEF StartKept
      <4>2. inst.byId = {} /\ observer = Idle
        BY <1>0, <4>1 DEF HooksKept
      <4>3. \A i \in Instances : ~Insert(i)
        BY <4>2, ObserverFacts DEF Insert
      <4> QED BY <4>2, <4>3, ByIdMoves
    <3>3. CASE slot.at \in {"drop", "remove"}
      <4>1. RemoveRun
        BY <1>0, <2>3, <3>3, Frames DEF SlotSteps, Execute, Unmade, OpenQueue, StartedDelivered,
           StartedRemoved, Prepare, ReadFails, MakeBook, StartRefused, RunStarted, Settle,
           SetReturned, CallAll, CallEach, HooksReturned, HooksChanged, Settled, HandOverEnd,
           SetDropped, RemoveRun, SpawnClosing, AddClosing, ExecutorReturns, ExecutorRefuses,
           BodyPanics, Hooks, HookReturns, AbortSlot, SlotAwaits, Goes, SlotType
      <4> QED BY <1>0, <4>1 DEF RemoveRun, InstanceType
    <3> QED BY <2>3, <3>1, <3>2, <3>3, SlotMoves DEF Body, Ended
  <2> QED BY <2>2, <2>3
<1> QED BY <1>1, <1>2, <1>3, <1>4, <1>5 DEF ByIdKept

\* When a drain ends without a report of its own, nothing of the end is left to tell.
LEMMA NothingLeft ==
  ASSUME LifeInv, \/ drain.at = "closings" /\ ~closing.listed
                  \/ drain.at = "runs" /\ ~rec.registered
                  \/ drain.at = "remove"
  PROVE  \A w \in EndKinds : Result(w) \notin {"waiting", "LeftUnsent"}
<1>0. PlacesKept /\ EndKept /\ DrainKept /\ closing.at \in ClosingAt
  BY DEF LifeInv, TypeOK, TaskTypes
<1>1. slot.at \in {"returned", "aborted"} /\ closing.at \in {"none", "forget", "over"}
  BY <1>0 DEF PlacesKept, ClosingAt, ClosingAwaits
<1>2. CASE slot.at = "aborted" \/ closing.at = "none"
  <2>1. Terminal = {}
    BY <1>0, <1>1, <1>2 DEF EndKept
  <2> QED BY <2>1, NoTerminal
<1>3. CASE closing.at \in {"forget", "over"}
  BY <1>0, <1>3 DEF EndKept
<1> QED BY <1>1, <1>2, <1>3

\* Every step keeps what the report tells.
LEMMA DrainNext ==
  ASSUME LifeInv, [Next]_vars
  PROVE  DrainKept'
<1>0. /\ PlacesKept /\ EndKept /\ DrainKept /\ ResultsKept /\ SlotType /\ RecordType
      /\ drain \in [at : DrainAt, note : BOOLEAN, due : SUBSET Instances,
                    report : [listed : BOOLEAN, aborted : BOOLEAN, unsent : SUBSET RunWrites]]
      /\ EndKinds \subseteq RunWrites
  BY DEF LifeInv, TypeOK, TaskTypes, EndKinds, RunWrites
<1>1. slot'.at \notin {"returned", "aborted"} => rec'.registered
  <2> SUFFICES ASSUME slot'.at \notin {"returned", "aborted"} PROVE rec'.registered
    OBVIOUS
  <2>1. slot.at \notin {"returned", "aborted"}
    BY SlotMoves DEF Body, Ended, SlotAwaits
  <2>2. rec.registered
    BY <1>0, <2>1 DEF DrainKept
  <2>3. ~Unmade /\ ~StartedRemoved
    BY <1>0 DEF Unmade, StartedRemoved, SlotType
  <2>4. ~ClosingForgets /\ ~ForgetLeft /\ ~AbortRemove
    BY <1>0, <2>1 DEF ClosingForgets, ForgetLeft, AbortRemove, PlacesKept, AbortsSlot
  <2> QED BY <2>2, <2>3, <2>4, PhaseMoves
<1>2. slot'.at = "aborted" /\ drain'.at \in {"take", "runs"} => rec'.registered
  <2> SUFFICES ASSUME slot'.at = "aborted", drain'.at \in {"take", "runs"} PROVE rec'.registered
    OBVIOUS
  <2>1. rec.registered
    <3>1. CASE slot.at = "aborted"
      <4>1. drain.at \in {"take", "runs"}
        BY <1>0, <3>1, DrainMoves DEF PlacesKept
      <4> QED BY <1>0, <3>1, <4>1 DEF DrainKept
    <3>2. CASE slot.at # "aborted"
      <4>1. slot.at \in SlotAwaits
        BY <3>2, SlotMoves DEF Body, Ended
      <4> QED BY <1>0, <4>1 DEF DrainKept, SlotAwaits
    <3> QED BY <3>1, <3>2
  <2>2. ~Unmade /\ ~StartedRemoved
    BY <1>0 DEF Unmade, StartedRemoved, SlotType
  <2>3. ~ForgetLeft /\ ~AbortRemove
    BY <1>0 DEF ForgetLeft, AbortRemove, Drains
  <2>4. ~ClosingForgets
    <3>1. ClosingForgets => slot' = slot /\ closing.at = "forget"
      BY DEF ClosingForgets
    <3> QED BY <1>0, <3>1 DEF PlacesKept
  <2> QED BY <2>1, <2>2, <2>3, <2>4, PhaseMoves
<1>3. slot'.at = "aborted" /\ drain'.at \in {"remove", "done"} =>
        drain'.report.listed /\ drain'.report.aborted
  <2> SUFFICES ASSUME slot'.at = "aborted", drain'.at \in {"remove", "done"}
               PROVE  drain'.report.listed /\ drain'.report.aborted
    OBVIOUS
  <2>1. AbortSlot => drain'.at = "take"
    BY <1>0 DEF AbortSlot, Drains
  <2>2. slot.at = "aborted"
    BY <2>1, SlotMoves DEF Body, Ended
  <2>3. drain.at \in {"take", "runs", "call", "calling", "remove", "done"}
    BY <1>0, <2>2 DEF PlacesKept
  <2>4. drain.at = "runs" => rec.registered
    BY <1>0, <2>2 DEF DrainKept
  <2> QED BY <1>0, <2>2, <2>3, <2>4, DrainMoves DEF DrainKept
<1>4. drain'.at \in {"forget", "done"} =>
        \A w \in EndKinds : Result(w)' \in {"waiting", "LeftUnsent"} => w \in drain'.report.unsent
  <2> SUFFICES ASSUME drain'.at \in {"forget", "done"}, NEW w \in EndKinds,
                      Result(w)' \in {"waiting", "LeftUnsent"}
               PROVE  w \in drain'.report.unsent
    OBVIOUS
  <2>1. w \in RunWrites /\ Moves(w)
    BY <1>0, QueueMoves DEF QueueNext
  <2>2. ~Joins(w)
    <3>1. ~HandOverEnd
      <4>1. HandOverEnd => slot.at = "ready" /\ drain' = drain
        BY DEF HandOverEnd
      <4> QED BY <1>0, <4>1 DEF PlacesKept, AbortsSlot
    <3>2. ~ClosingEnds
      <4>1. ClosingEnds => closing.at = "ends" /\ drain' = drain
        BY DEF ClosingEnds
      <4> QED BY <1>0, <4>1 DEF PlacesKept
    <3> QED BY <3>1, <3>2 DEF Joins, EndKinds
  <2>3. Result(w) \in {"waiting", "LeftUnsent"}
    BY <2>1, <2>2 DEF Moves
  <2>4. CASE drain.at \in {"forget", "done"}
    <3>1. w \in Terminal
      BY <2>3 DEF Terminal, EndKinds, Result
    <3>2. w \in drain.report.unsent
      BY <1>0, <2>3, <2>4, <3>1 DEF DrainKept
    <3>3. drain'.report = drain.report
      BY <2>4, DrainMoves
    <3> QED BY <3>2, <3>3
  <2>5. CASE drain.at = "left"
    <3>1. drain'.report.unsent = Unsent
      BY <2>5, DrainMoves
    <3>2. closing.at = "aborted"
      BY <1>0, <2>3, <2>5 DEF PlacesKept, EndKept
    <3>3. "record" \in queue.refs
      BY <1>0, <2>5, <3>2 DEF PlacesKept
    <3>4. Result(w) = "waiting"
      BY <1>0, <2>1, <2>3, <3>3 DEF ResultsKept
    <3> QED BY <2>1, <3>1, <3>3, <3>4 DEF Unsent, Waiting, Result
  <2>6. CASE drain.at \notin {"forget", "done", "left"}
    <3>1. \/ drain.at = "closings" /\ ~closing.listed
          \/ drain.at = "runs" /\ ~rec.registered
          \/ drain.at = "remove"
      BY <2>6, DrainMoves
    <3> QED BY <2>3, <3>1, NothingLeft
  <2> QED BY <2>4, <2>5, <2>6
<1>5. drain'.at \in {"forget", "done"} =>
        \A w \in Terminal' : Result(w)' \in {"waiting", "LeftUnsent"} => w \in drain'.report.unsent
  BY <1>4 DEF Terminal, EndKinds
<1> QED BY <1>1, <1>2, <1>3, <1>5 DEF DrainKept

-----------------------------------------------------------------------------
(* The theorems                                                            *)

\* The first state satisfies the invariant.
LEMMA InitLife == Init => LifeInv
<1> SUFFICES ASSUME Init PROVE LifeInv
  OBVIOUS
<1>1. PICK s \in Sources, c \in BOOLEAN :
       rec = [registered |-> TRUE, source |-> s, trigger |-> "held", cancelled |-> c,
              startedPending |-> TRUE, executorRunning |-> FALSE, obsExpected |-> FALSE,
              obsOver |-> FALSE, graph |-> FALSE, phase |-> "Live", book |-> FALSE,
              context |-> FALSE]
  BY DEF Init
<1>2. RecordType
  BY <1>1, LifecycleAssumption DEF RecordType
<1>3. /\ rec.registered /\ rec.trigger = "held" /\ ~rec.graph /\ ~rec.obsExpected /\ ~rec.obsOver
      /\ rec.phase = "Live" /\ ~rec.context
  BY <1>1
<1>4. /\ inst.made = {} /\ inst.hooked = {} /\ inst.running = {} /\ inst.byId = {}
      /\ inst.calls = [i \in Instances |-> 0]
  BY DEF Init
<1>5. InstanceType
  BY DEF Init, InstanceType
<1>6. SlotType /\ slot.at = "registered" /\ slot.ending = "None" /\ slot.calling = {}
  BY DEF Init, SlotType, SlotAt, SlotAwaits
<1>7. /\ closing \in [at : ClosingAt, listed : BOOLEAN, covers : SUBSET RunWrites]
      /\ closing.at = "none" /\ ~closing.listed
  BY DEF Init, ClosingAt
<1>8. /\ drain \in [at : DrainAt, note : BOOLEAN, due : SUBSET Instances,
                    report : [listed : BOOLEAN, aborted : BOOLEAN, unsent : SUBSET RunWrites]]
      /\ drain.at = "no" /\ drain.due = {}
  BY DEF Init, DrainAt, NoReport
<1>9. /\ lookup \in [Lookups -> [at : {"none", "check", "wait"}, fresh : BOOLEAN]]
      /\ \A i \in Lookups : lookup[i].at = "none"
      /\ observer = Idle
  BY DEF Init
<1>10. QueueType /\ queue.fifo = <<>> /\ queue.refs = {} /\ \A w \in RunWrites : Result(w) = "absent"
  <2>1. queue = [fifo |-> <<>>, result |-> [w \in RunWrites |-> "absent"], refs |-> {}]
    BY DEF Init
  <2>2. \A w \in RunWrites : Result(w) = "absent"
    BY <2>1 DEF Result
  <2>3. <<>> \in Seq(RunWrites)
    BY WriteSeqs
  <2> QED BY <2>1, <2>2, <2>3 DEF QueueType
<1>11. TypeOK
  BY <1>2, <1>5, <1>6, <1>7, <1>8, <1>9, <1>10 DEF TypeOK, TaskTypes
<1>12. EndKinds \subseteq RunWrites /\ Parts \subseteq RunWrites /\ "Started" \in RunWrites
       /\ "Completed" \in RunWrites
  BY DEF EndKinds, Parts, RunWrites
<1>13. DOMAIN queue.fifo = {}
  BY <1>10
<1>14. LineKept
  BY <1>10, <1>13 DEF LineKept, Queued
<1>15. ResultsKept
  BY <1>10, <1>12 DEF ResultsKept
<1>16. PlacesKept
  BY <1>6, <1>7, <1>8 DEF PlacesKept, ClosingAwaits, AbortsSlot, Body, Ended
<1>17. Terminal = {}
  BY <1>10, <1>12, NoTerminal
<1>18. StartKept
  BY <1>3, <1>6, <1>10, <1>12 DEF StartKept, AckAfterStart, Body, Ended
<1>19. EndKept
  BY <1>6, <1>7, <1>17 DEF EndKept
<1>20. HooksKept
  <2>1. \A i : ~Reporting(i)
    BY <1>9, ObserverFacts
  <2> QED BY <1>3, <1>4, <1>6, <1>8, <1>9, <2>1 DEF HooksKept
<1>21. ByIdKept
  BY <1>4, <1>6, <1>9 DEF ByIdKept
<1>22. DrainKept
  BY <1>3, <1>6, <1>8 DEF DrainKept
<1> QED BY <1>11, <1>14, <1>15, <1>16, <1>18, <1>19, <1>20, <1>21, <1>22 DEF LifeInv

\* Every step keeps the invariant.
LEMMA NextLife == LifeInv /\ [Next]_vars => LifeInv'
<1> SUFFICES ASSUME LifeInv, [Next]_vars PROVE LifeInv'
  OBVIOUS
<1>1. TypeOK'
  BY NextTypes DEF LifeInv
<1>2. LineKept' /\ ResultsKept'
  BY QueueMoves DEF QueueNext
<1>3. PlacesKept' /\ StartKept' /\ EndKept'
  BY PlacesNext, StartNext, EndNext
<1>4. HooksKept' /\ ByIdKept' /\ DrainKept'
  BY HooksNext, ByIdNext, DrainNext
<1> QED BY <1>1, <1>2, <1>3, <1>4 DEF LifeInv

\* The inductive invariant holds in every reachable state.
THEOREM LifeInvariant == Spec => []LifeInv
<1> QED BY InitLife, NextLife, PTL DEF Spec

\* The record, the instances, the tasks, the queue and the drain keep their types.
THEOREM LifeTypes == Spec => []TypeOK
<1>1. LifeInv => TypeOK
  BY DEF LifeInv
<1> QED BY <1>1, LifeInvariant, PTL

\* open_queue: the trigger is acknowledged only after the started fact was answered,
\* given back only if no start was asked for, and before the graph runs.
THEOREM AcknowledgedInTime == Spec => []AckAfterStart
<1>1. LifeInv => AckAfterStart
  BY DEF LifeInv, StartKept
<1> QED BY <1>1, LifeInvariant, PTL

\* hand_over and closing::run: the completed fact is delivered only whole and alone, a
\* refused part is told by a failed fact, and a cancelled Run tells nothing.
THEOREM EndIsWhole == Spec => []EndFacts
<1>1. LifeInv => EndFacts
  <2> SUFFICES ASSUME LifeInv PROVE EndFacts
    OBVIOUS
  <2>1. queue.result["Completed"] = "Delivered" =>
          /\ queue.result["Failed"] = "absent"
          /\ \A w \in {"Answer", "SavedState"} : queue.result[w] \in {"absent", "Delivered"}
    BY DEF LifeInv, ResultsKept, Result, Parts
  <2>2. /\ closing.at \in {"drained", "delist", "forget", "over"}
        /\ \E w \in {"Answer", "SavedState"} : queue.result[w] \in {"Refused", "Failed"}
        => queue.result["Failed"] \notin {"absent", "waiting"}
    BY DEF LifeInv, EndKept, Result, Parts, EndKinds
  <2>3. slot.ending = "Cancelled" => Terminal = {}
    BY DEF LifeInv, EndKept
  <2> QED BY <2>1, <2>2, <2>3 DEF EndFacts
<1> QED BY <1>1, LifeInvariant, PTL

\* call_once, call_all and the observer: a hook is called at most once, none is
\* forgotten once the executor is over, and all have returned when the end is handed over.
THEOREM HooksCalledOnce == Spec => []HookOnce
<1>1. LifeInv => HookOnce
  <2> SUFFICES ASSUME LifeInv PROVE HookOnce
    OBVIOUS
  <2>0. HooksKept /\ PlacesKept
    BY DEF LifeInv
  <2>1. \A i \in Instances : inst.calls[i] <= 1
    <3>1. \A i \in Instances : inst.calls[i] \in {0, 1}
      BY <2>0 DEF HooksKept
    <3> QED BY <3>1
  <2>2. rec.phase # "Live" =>
         \A i \in inst.made \ inst.hooked :
           \/ observer \in {"insert", "bump", "look"} \X {i}
           \/ slot.at = "call" \/ i \in slot.calling
           \/ drain.at = "call" \/ i \in drain.due
    BY <2>0 DEF HooksKept, Reporting
  <2>3. slot.at \in {"ready", "drop"} /\ rec.obsExpected =>
         observer = Idle /\ inst.running = {} /\ inst.made = inst.hooked
    <3> SUFFICES ASSUME slot.at \in {"ready", "drop"}, rec.obsExpected
                 PROVE  observer = Idle /\ inst.running = {} /\ inst.made = inst.hooked
      OBVIOUS
    <3>1. Observed /\ rec.phase = "ExecutorReturned" /\ inst.running = {}
      BY <2>0 DEF HooksKept
    <3>2. observer = Idle
      BY <2>0, <3>1 DEF HooksKept, Observed
    <3>3. drain.at \notin {"call", "calling"}
      BY <2>0 DEF PlacesKept
    <3>4. slot.calling = {} /\ drain.due = {}
      BY <2>0, <3>3 DEF HooksKept
    <3>5. \A i : ~Reporting(i)
      BY <3>2, ObserverFacts
    <3>6. inst.made \ inst.hooked = {}
      BY <2>0, <3>1, <3>3, <3>4, <3>5 DEF HooksKept
    <3> QED BY <2>0, <3>1, <3>2, <3>6 DEF HooksKept
  <2> QED BY <2>1, <2>2, <2>3 DEF HookOnce
<1> QED BY <1>1, LifeInvariant, PTL

\* find, insert and remove_run: no lookup sleeps over its instance, and none is held of
\* a Run that is gone.
THEOREM LookupsWoken == Spec => []LookupWoken
<1>1. LifeInv => LookupWoken
  BY DEF LifeInv, ByIdKept, LookupWoken
<1> QED BY <1>1, LifeInvariant, PTL

\* The report of a drain tells of a Run that it cut off, and of every write of an end
\* that it left unsent.
THEOREM ReportIsWhole == Spec => []DrainTellsAll
<1>1. LifeInv => DrainTellsAll
  BY DEF LifeInv, DrainKept, DrainTellsAll, Result
<1> QED BY <1>1, LifeInvariant, PTL

=============================================================================
