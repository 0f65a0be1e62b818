---------------------------- MODULE RunLifecycle ----------------------------
(***************************************************************************)
(* One Run of br-runner-toolkit, from its registration to the moment the   *)
(* runner forgets it: the slot that executes it (run/), the executor and   *)
(* its observer, the lifecycle hooks, the instance lookup, the task that   *)
(* closes the Run, and a drain that may cut all of them off.  A step is    *)
(* what a thread does between two awaits or two lock sections; only an     *)
(* await is a place where the abort of a task takes effect.                *)
(***************************************************************************)
EXTENDS QueueWrites, Sequences, FiniteSets

CONSTANTS Sources,    \* how the Run was given: "Trigger", "Claim"
          Instances,  \* the instances the executor may report
          Lookups,    \* the instances that a caller looks up
          MayDrain    \* a drain may begin

ASSUME LifecycleAssumption ==
  Sources \subseteq {"Trigger", "Claim"} /\ Lookups \subseteq Instances /\ MayDrain \in BOOLEAN

\* The writes of the Run that its slot and its closing look at. PlanDeclared
\* stands for all that the nodes hand over while the graph runs.
RunWrites == {"Started", "PlanDeclared", "Answer", "SavedState", "Completed", "Failed"}

VARIABLES
  rec,      \* RunRecord with the registry entry and the trigger; graph: the
            \* executor was started
  inst,     \* the instances: known, hook claimed, hook running, held by the lookup
  slot,     \* execute: where it is, its Ending, what its drained() waits for, the
            \* instances call_all has still to call, a notify of the hooks
  lookup,   \* find for each of Lookups: where it is, a change it has not seen
  observer, \* the observer of the executor: a step and an instance
  closing,  \* the closing task: where it is, and whether Closings holds it
  queue,    \* the delivery queue: its order, the end of each write, who holds it
  drain     \* the drain: where it is, a notify, instances to call, its report

vars == <<rec, inst, slot, lookup, observer, closing, queue, drain>>

Idle == <<"idle", NoId>>
NoReport == [listed |-> FALSE, aborted |-> FALSE, unsent |-> {}]

\* register_run has just taken the Run; a known cancel order has fired its
\* token. The trigger is "held" until it is acknowledged or given back.
Init ==
  /\ \E s \in Sources, c \in BOOLEAN :
       rec = [registered |-> TRUE, source |-> s, trigger |-> "held", cancelled |-> c,
              startedPending |-> TRUE, executorRunning |-> FALSE, obsExpected |-> FALSE,
              obsOver |-> FALSE, graph |-> FALSE, phase |-> "Live", book |-> FALSE,
              context |-> FALSE]
  /\ inst = [made |-> {}, hooked |-> {}, running |-> {}, byId |-> {},
             calls |-> [i \in Instances |-> 0]]
  /\ slot = [at |-> "registered", ending |-> "None", covers |-> {}, calling |-> {},
             note |-> FALSE]
  /\ lookup = [i \in Lookups |-> [at |-> "none", fresh |-> FALSE]]
  /\ observer = Idle
  /\ closing = [at |-> "none", listed |-> FALSE, covers |-> {}]
  /\ queue = [fifo |-> <<>>, result |-> [w \in RunWrites |-> "absent"], refs |-> {}]
  /\ drain = [at |-> "no", note |-> FALSE, due |-> {}, report |-> NoReport]

-----------------------------------------------------------------------------
(* The delivery queue, as DeliveryQueue shows it to its owner              *)

Waiting == {w \in RunWrites : queue.result[w] = "waiting"}
EndedKeys == [k \in DepKey |-> IF k[1] \in RunWrites /\ queue.result[k[1]] \in Results
                               THEN queue.result[k[1]] ELSE "None"]
BlockedBy(w) == Blocked(W(w, NoId, NoId), EndedKeys)

\* The queue q after the writes of ws were handed over to it.
HandedOver(q, ws) ==
  [q EXCEPT !.fifo = @ \o ws,
            !.result = [w \in RunWrites |-> IF \E i \in DOMAIN ws : ws[i] = w
                                            THEN "waiting" ELSE @[w]]]

\* The head of the queue ends, behind its dependencies.
QueueEnds ==
  /\ queue.fifo # <<>> /\ queue.refs # {}
  /\ LET w == Head(queue.fifo) IN
     \E r \in (IF BlockedBy(w) = {} THEN {"Delivered", "Refused", "Failed"}
               ELSE BlockedBy(w)) :
       queue' = [queue EXCEPT !.fifo = Tail(@), !.result[w] = r]
  /\ UNCHANGED <<rec, inst, slot, lookup, observer, closing, drain>>

\* The task of a queue that nobody holds any more ends what is left.
QueueStops ==
  /\ queue.fifo # <<>> /\ queue.refs = {}
  /\ queue' = [queue EXCEPT !.fifo = <<>>,
                            !.result = [w \in RunWrites |->
                                          IF w \in Waiting THEN "LeftUnsent" ELSE @[w]]]
  /\ UNCHANGED <<rec, inst, slot, lookup, observer, closing, drain>>

\* A node hands a write over through its RunContext, which upgrades a weak
\* reference to the queue.
NodeWrites ==
  /\ rec.context /\ queue.refs # {} /\ queue.result["PlanDeclared"] = "absent"
  /\ queue' = HandedOver(queue, <<"PlanDeclared">>)
  /\ UNCHANGED <<rec, inst, slot, lookup, observer, closing, drain>>

-----------------------------------------------------------------------------
(* execute: the queue is opened and the started fact is awaited            *)

Acknowledged == IF rec.source = "Trigger" THEN "acked" ELSE rec.trigger

\* delivery_queue gives an error or panics: unmade.
Unmade ==
  /\ slot.at = "registered"
  /\ rec' = [rec EXCEPT !.trigger = IF rec.source = "Trigger" THEN "back" ELSE @,
                        !.registered = FALSE]
  /\ slot' = [slot EXCEPT !.at = "returned"]
  /\ UNCHANGED <<inst, lookup, observer, closing, queue, drain>>

OpenQueue ==
  /\ slot.at = "registered"
  /\ queue' = [HandedOver(queue, <<"Started">>) EXCEPT !.refs = {"record", "task"}]
  /\ slot' = [slot EXCEPT !.at = "opening"]
  /\ UNCHANGED <<rec, inst, lookup, observer, closing, drain>>

StartedDelivered ==
  /\ slot.at = "opening" /\ queue.result["Started"] = "Delivered"
  /\ rec' = [rec EXCEPT !.startedPending = FALSE, !.trigger = Acknowledged]
  /\ slot' = [slot EXCEPT !.at = "prepare"]
  /\ UNCHANGED <<inst, lookup, observer, closing, queue, drain>>

\* After a removal the trigger is acknowledged only if jobs refused the start.
AckRemoved == Acknowledged
AckRefused == IF queue.result["Started"] = "Refused" THEN Acknowledged ELSE rec.trigger

StartedRemoved ==
  /\ slot.at = "opening" /\ queue.result["Started"] \in Removals
  /\ rec' = [rec EXCEPT !.startedPending = queue.result["Started"] # "Refused",
                        !.trigger = AckRefused, !.registered = FALSE]
  /\ queue' = [queue EXCEPT !.refs = {}]
  /\ slot' = [slot EXCEPT !.at = "returned"]
  /\ UNCHANGED <<inst, lookup, observer, closing, drain>>

-----------------------------------------------------------------------------
(* body: prepare and the executor                                          *)

Ends(e) == slot' = [slot EXCEPT !.at = "settle", !.ending = e]
Goes(at) == slot' = [slot EXCEPT !.at = at]

\* Up to the first await: a Run cancelled already ends here.
Prepare ==
  /\ slot.at = "prepare"
  /\ IF rec.cancelled THEN Ends("Cancelled") ELSE Goes("reading")
  /\ UNCHANGED <<rec, inst, lookup, observer, closing, queue, drain>>

\* The saved state of a restart cannot be read or decoded, or the agent book
\* cannot be made.
ReadFails ==
  /\ slot.at = "reading" /\ Ends("Failed")
  /\ UNCHANGED <<rec, inst, lookup, observer, closing, queue, drain>>

\* The book is made, for a restart from the saved state, and set.
MakeBook ==
  /\ slot.at = "reading"
  /\ rec' = [rec EXCEPT !.book = TRUE, !.context = TRUE]
  /\ IF rec.cancelled THEN Ends("Cancelled") ELSE Goes("starting")
  /\ UNCHANGED <<inst, lookup, observer, closing, queue, drain>>

\* The run start function refuses the Run, its future panics, or the state it
\* gives is refused.
StartRefused ==
  /\ slot.at = "starting" /\ Ends("Failed")
  /\ UNCHANGED <<rec, inst, lookup, observer, closing, queue, drain>>

\* The run start function returned: the cancel token is looked at a last time.
RunStarted ==
  /\ slot.at = "starting"
  /\ IF rec.cancelled THEN Ends("Cancelled") /\ UNCHANGED rec
     ELSE Goes("executing") /\ rec' = [rec EXCEPT !.executorRunning = TRUE, !.graph = TRUE]
  /\ UNCHANGED <<inst, lookup, observer, closing, queue, drain>>

\* The executor gives an outcome; its last observations may come later.
ExecutorReturns ==
  /\ slot.at = "executing"
  /\ rec' = [rec EXCEPT !.executorRunning = FALSE, !.obsExpected = TRUE]
  /\ Ends("Ended") \/ Ends("Failed") \/ (rec.cancelled /\ Ends("Cancelled"))
  /\ UNCHANGED <<inst, lookup, observer, closing, queue, drain>>

\* start gives a StartError: no instance was made and none will be.
ExecutorRefuses ==
  /\ slot.at = "executing" /\ inst.made = {} /\ observer = Idle
  /\ rec' = [rec EXCEPT !.executorRunning = FALSE, !.obsOver = TRUE]
  /\ Ends("Failed")
  /\ UNCHANGED <<inst, lookup, observer, closing, queue, drain>>

\* A panic of the executor or of the call of the run start function.
BodyPanics ==
  /\ slot.at \in {"starting", "executing"}
  /\ rec' = [rec EXCEPT !.executorRunning = FALSE, !.cancelled = TRUE]
  /\ Ends("Failed")
  /\ UNCHANGED <<inst, lookup, observer, closing, queue, drain>>

\* order_made or replace_orders, for a Run that the registry holds.
CancelOrder ==
  /\ rec.registered /\ ~rec.cancelled
  /\ rec' = [rec EXCEPT !.cancelled = TRUE]
  /\ UNCHANGED <<inst, slot, lookup, observer, closing, queue, drain>>

-----------------------------------------------------------------------------
(* The observer, called by the tasks of the executor, also after it has    *)
(* returned, panicked or was dropped. It is over after its Outcome, or when*)
(* the executor drops it.                                                  *)

\* InstanceCreated, step by step: the record learns the instance, the lookup
\* holds it unless the Run is gone, and a hook that call_all may have missed
\* is called.
Created(i) ==
  /\ observer = Idle /\ rec.graph /\ ~rec.obsOver /\ i \notin inst.made
  /\ inst' = [inst EXCEPT !.made = @ \cup {i}]
  /\ observer' = <<"insert", i>>
  /\ UNCHANGED <<rec, slot, lookup, closing, queue, drain>>

\* The phase is read under the lock of the lookup.
HeldIfAlive(i) == rec.phase \notin {"Dropped", "Aborted"}

Insert(i) ==
  /\ observer = <<"insert", i>>
  /\ IF HeldIfAlive(i)
     THEN inst' = [inst EXCEPT !.byId = @ \cup {i}] /\ observer' = <<"bump", i>>
     ELSE UNCHANGED inst /\ observer' = <<"look", i>>
  /\ UNCHANGED <<rec, slot, lookup, closing, queue, drain>>

\* The generation is bumped after the lock: whoever subscribed sees a change.
Unchanged == UNCHANGED lookup
Changed == lookup' = [i \in Lookups |-> [lookup[i] EXCEPT !.fresh = @ \/ lookup[i].at # "none"]]

Bump(i) ==
  /\ observer = <<"bump", i>>
  /\ Changed
  /\ observer' = <<"look", i>>
  /\ UNCHANGED <<rec, inst, slot, closing, queue, drain>>

\* call_once, up to the spawn: claim_hook is one lock section.
ClaimOnce(S) == S \ inst.hooked
Called(S) ==
  [inst EXCEPT !.hooked = @ \cup ClaimOnce(S), !.running = @ \cup ClaimOnce(S),
               !.calls = [i \in Instances |-> IF i \in ClaimOnce(S) THEN @[i] + 1 ELSE @[i]]]

LateNever == FALSE
Late == rec.phase # "Live"

LookAtPhase(i) ==
  /\ observer = <<"look", i>>
  /\ inst' = IF Late THEN Called({i}) ELSE inst
  /\ observer' = Idle
  /\ UNCHANGED <<rec, slot, lookup, closing, queue, drain>>

\* EventHandled: the end event of an instance.
EventHandled(i) ==
  /\ observer = Idle /\ ~rec.obsOver /\ i \in inst.made \ inst.hooked
  /\ inst' = Called({i})
  /\ UNCHANGED <<rec, slot, lookup, observer, closing, queue, drain>>

\* hook_returned: notify_waiters wakes the waiter that is enabled, and stores nothing.
HookUnheard == slot.note
HookNote == slot.at = "sleep"

\* The Outcome, or the drop of the observer.
ObservationsEnd ==
  /\ observer = Idle /\ rec.graph /\ ~rec.obsOver
  /\ slot.ending # "None" \/ slot.at = "aborted"
  /\ rec' = [rec EXCEPT !.obsOver = TRUE]
  /\ UNCHANGED <<inst, slot, lookup, observer, closing, queue, drain>>

HookReturns(i) ==
  /\ i \in inst.running
  /\ inst' = [inst EXCEPT !.running = @ \ {i}]
  /\ slot' = [slot EXCEPT !.note = HookNote]
  /\ UNCHANGED <<rec, lookup, observer, closing, queue, drain>>

-----------------------------------------------------------------------------
(* Instances::find and the book of the record                              *)

Look(i, at, fresh) ==
  /\ lookup' = [lookup EXCEPT ![i] = [at |-> at, fresh |-> fresh]]
  /\ UNCHANGED <<rec, inst, slot, observer, closing, queue, drain>>

LookupSubscribe(i) == lookup[i].at = "none" /\ Look(i, "check", FALSE)

\* An instance that is held is answered: the record of a live Run with the book it
\* still has, or that the Run ended.  The caller may ask again.
LookupCheck(i) ==
  /\ lookup[i].at = "check"
  /\ IF i \in inst.byId THEN Look(i, "none", FALSE) ELSE Look(i, "wait", lookup[i].fresh)

LookupChanged(i) == lookup[i].at = "wait" /\ lookup[i].fresh /\ Look(i, "check", FALSE)

-----------------------------------------------------------------------------
(* settle, the hand-over of the end and the rest of execute                *)

\* drained() is polled a first time: it waits for what is in the queue now.
Settle ==
  /\ slot.at = "settle"
  /\ slot' = [slot EXCEPT !.at = "observing", !.covers = Waiting]
  /\ UNCHANGED <<rec, inst, lookup, observer, closing, queue, drain>>

Observed == rec.obsExpected => rec.obsOver

SetReturned ==
  /\ slot.at = "observing" /\ Observed
  /\ rec' = [rec EXCEPT !.phase = "ExecutorReturned"]
  /\ Goes("call")
  /\ UNCHANGED <<inst, lookup, observer, closing, queue, drain>>

\* call_all: the instances without a hook call, then call_once for each.
CallAll ==
  /\ slot.at = "call"
  /\ slot' = [slot EXCEPT !.at = "calling", !.calling = inst.made \ inst.hooked]
  /\ UNCHANGED <<rec, inst, lookup, observer, closing, queue, drain>>

CallEach ==
  /\ slot.at = "calling"
  /\ inst' = Called(slot.calling)
  /\ slot' = [slot EXCEPT !.at = "wait", !.calling = {}]
  /\ UNCHANGED <<rec, lookup, observer, closing, queue, drain>>

\* hooks_returned: enabled on the notify before it looks.
HooksReturned ==
  /\ slot.at = "wait"
  /\ slot' = [slot EXCEPT !.at = IF inst.running = {} THEN "drained" ELSE "sleep",
                          !.note = FALSE]
  /\ UNCHANGED <<rec, inst, lookup, observer, closing, queue, drain>>

HooksChanged ==
  /\ slot.at = "sleep" /\ slot.note
  /\ slot' = [slot EXCEPT !.at = "wait", !.note = FALSE]
  /\ UNCHANGED <<rec, inst, lookup, observer, closing, queue, drain>>

Settled ==
  /\ slot.at = "drained" /\ slot.covers \cap Waiting = {}
  /\ Goes("ready")
  /\ UNCHANGED <<rec, inst, lookup, observer, closing, queue, drain>>

\* The author's code that makes the writes runs before the first of them is handed
\* over; execute catches a panic of it, with the executor over by then, and hands
\* over a failed fact.
PanicWrites == <<"Failed">>

\* hand_over: what is made of the state decides which writes there are, and a state
\* of which nothing can be made fails the Run as a panic does.
EndWrites ==
  CASE slot.ending = "Cancelled" -> {<<>>}
    [] slot.ending = "Failed"    -> {<<"Failed">>}
    [] OTHER -> {PanicWrites, <<"Completed">>, <<"Answer", "Completed">>,
                 <<"SavedState", "Completed">>, <<"Answer", "SavedState", "Completed">>}

HandOverEnd ==
  /\ slot.at = "ready"
  /\ \E ws \in EndWrites : queue' = HandedOver(queue, ws)
  /\ slot' = [slot EXCEPT !.at = "drop", !.covers = {}]
  /\ UNCHANGED <<rec, inst, lookup, observer, closing, drain>>

\* remove_run: the phase, then the lock section of the lookup.
SetDropped ==
  /\ slot.at = "drop"
  /\ rec' = [rec EXCEPT !.phase = "Dropped"]
  /\ Goes("remove")
  /\ UNCHANGED <<inst, lookup, observer, closing, queue, drain>>

RemoveRun ==
  /\ slot.at = "remove"
  /\ inst' = [inst EXCEPT !.byId = {}]
  /\ Goes("spawn")
  /\ UNCHANGED <<rec, lookup, observer, closing, queue, drain>>

\* The book is taken and the closing spawned; its reference to the queue is the
\* one the slot held.
SpawnClosing ==
  /\ slot.at = "spawn"
  /\ rec' = [rec EXCEPT !.book = FALSE]
  /\ closing' = [closing EXCEPT !.at = "spawned"]
  /\ Goes("add")
  /\ UNCHANGED <<inst, lookup, observer, queue, drain>>

\* Closings::add, and the word to the closing that it is listed.
AddClosing ==
  /\ slot.at = "add"
  /\ closing' = [closing EXCEPT !.listed = TRUE]
  /\ Goes("returned")
  /\ UNCHANGED <<rec, inst, lookup, observer, queue, drain>>

-----------------------------------------------------------------------------
(* The closing task                                                        *)

\* closing::run waits for the word that Closings holds it.
Listed == slot.at = "returned"

ClosingBegins ==
  /\ closing.at = "spawned" /\ Listed
  /\ closing' = [closing EXCEPT !.at = "ends"]
  /\ UNCHANGED <<rec, inst, slot, lookup, observer, queue, drain>>

Terminal == {w \in {"Answer", "SavedState", "Completed", "Failed"} : queue.result[w] # "absent"}

\* The completed fact was removed because jobs refused the answer or the saved
\* state, or one of them failed for good.
Replaced ==
  /\ queue.result["Completed"] = "DependsOnRemoved" /\ queue.result["Failed"] = "absent"
  /\ \E w \in {"Answer", "SavedState"} : queue.result[w] \in {"Refused", "Failed"}

\* The writes of the Terminal are awaited; a failed fact may take the place of
\* the completed one, and drained() is called.
ClosingEnds ==
  /\ closing.at = "ends" /\ Terminal \cap Waiting = {}
  /\ IF Replaced
     THEN queue' = HandedOver(queue, <<"Failed">>) /\ UNCHANGED closing
     ELSE closing' = [closing EXCEPT !.at = "drained", !.covers = Waiting] /\ UNCHANGED queue
  /\ UNCHANGED <<rec, inst, slot, lookup, observer, drain>>

\* drained() has returned: both references to the queue are dropped. What the closing
\* calls of the author's code catches its own panics, so its panic arm is left out.
ClosingDrained ==
  /\ closing.at = "drained" /\ closing.covers \cap Waiting = {}
  /\ queue' = [queue EXCEPT !.refs = {}]
  /\ closing' = [closing EXCEPT !.at = "delist", !.covers = {}]
  /\ UNCHANGED <<rec, inst, slot, lookup, observer, drain>>

\* Closings::remove, which notifies a drain that waits.
ClosingDelists ==
  /\ closing.at = "delist"
  /\ closing' = [closing EXCEPT !.at = "forget", !.listed = FALSE]
  /\ drain' = [drain EXCEPT !.note = drain.at = "sleep"]
  /\ UNCHANGED <<rec, inst, slot, lookup, observer, queue>>

ClosingForgets ==
  /\ closing.at = "forget"
  /\ rec' = [rec EXCEPT !.registered = FALSE]
  /\ closing' = [closing EXCEPT !.at = "over"]
  /\ UNCHANGED <<inst, slot, lookup, observer, queue, drain>>

-----------------------------------------------------------------------------
(* The drain                                                               *)

Drains(at) == drain' = [drain EXCEPT !.at = at]

DrainBegins ==
  /\ MayDrain /\ drain.at = "no" /\ Drains("slots")
  /\ UNCHANGED <<rec, inst, slot, lookup, observer, closing, queue>>

\* wait_for_runs: the slot, which returns when the drain has begun, and then
\* the closings; all_ended is enabled on the notify before it looks.
SlotEnded ==
  /\ drain.at = "slots" /\ slot.at = "returned" /\ Drains("closings")
  /\ UNCHANGED <<rec, inst, slot, lookup, observer, closing, queue>>

ClosingsLook ==
  /\ drain.at = "closings"
  /\ drain' = [drain EXCEPT !.at = IF closing.listed THEN "sleep" ELSE "done", !.note = FALSE]
  /\ UNCHANGED <<rec, inst, slot, lookup, observer, closing, queue>>

ClosingsChanged ==
  /\ drain.at = "sleep" /\ drain.note
  /\ drain' = [drain EXCEPT !.at = "closings", !.note = FALSE]
  /\ UNCHANGED <<rec, inst, slot, lookup, observer, closing, queue>>

Timeout ==
  /\ drain.at \in {"slots", "closings", "sleep"} /\ Drains("abort")
  /\ UNCHANGED <<rec, inst, slot, lookup, observer, closing, queue>>

\* The awaits of execute and of the closing.
SlotAwaits == {"registered", "opening", "reading", "starting", "executing", "observing",
               "sleep", "drained"}
ClosingAwaits == {"spawned", "ends", "drained"}

NoTask == [queue EXCEPT !.refs = @ \ {"task"}]
NoRecord == [queue EXCEPT !.refs = @ \ {"record"}]

\* The slot is aborted at an await, or returns before it comes to one.
AbortSlot ==
  /\ drain.at = "abort"
  /\ \/ slot.at = "returned" /\ UNCHANGED <<slot, queue>>
     \/ slot.at \in SlotAwaits /\ queue' = NoTask
        /\ slot' = [slot EXCEPT !.at = "aborted", !.covers = {}, !.note = FALSE]
  /\ Drains("take")
  /\ UNCHANGED <<rec, inst, lookup, observer, closing>>

\* take_all; a Run that Closings does not hold is looked for in the registry.
TakeClosings ==
  /\ drain.at = "take"
  /\ Drains(IF closing.listed THEN "join" ELSE "runs")
  /\ closing' = [closing EXCEPT !.listed = FALSE]
  /\ UNCHANGED <<rec, inst, slot, lookup, observer, queue>>

\* The closing is aborted at an await, or has ended.
JoinClosing ==
  /\ drain.at = "join"
  /\ \/ closing.at = "over" /\ UNCHANGED <<closing, queue>>
     \/ closing.at \in ClosingAwaits /\ queue' = NoTask
        /\ closing' = [closing EXCEPT !.at = "aborted", !.covers = {}]
  /\ Drains("left")
  /\ UNCHANGED <<rec, inst, slot, lookup, observer>>

UnsentOfTask == IF "task" \in queue.refs THEN Waiting ELSE {}
Unsent == IF "record" \in queue.refs THEN Waiting ELSE {}

ReportLeft ==
  /\ drain.at = "left"
  /\ drain' = [drain EXCEPT !.at = "forget",
                            !.report = [listed |-> Unsent # {}, aborted |-> FALSE, unsent |-> Unsent]]
  /\ UNCHANGED <<rec, inst, slot, lookup, observer, closing, queue>>

ForgetLeft ==
  /\ drain.at = "forget"
  /\ queue' = NoRecord
  /\ rec' = [rec EXCEPT !.registered = FALSE]
  /\ Drains("done")
  /\ UNCHANGED <<inst, slot, lookup, observer, closing>>

\* abort_run for a Run of the registry.
AbortRun ==
  /\ drain.at = "runs"
  /\ IF rec.registered
     THEN Drains("call") /\ rec' = [rec EXCEPT !.phase = "Aborted", !.cancelled = TRUE]
     ELSE Drains("done") /\ UNCHANGED rec
  /\ UNCHANGED <<inst, slot, lookup, observer, closing, queue>>

AbortCallAll ==
  /\ drain.at = "call"
  /\ drain' = [drain EXCEPT !.at = "calling", !.due = inst.made \ inst.hooked]
  /\ UNCHANGED <<rec, inst, slot, lookup, observer, closing, queue>>

AbortCallEach ==
  /\ drain.at = "calling"
  /\ inst' = Called(drain.due)
  /\ drain' = [drain EXCEPT !.at = "remove", !.due = {},
                            !.report = [listed |-> TRUE, aborted |-> TRUE, unsent |-> Unsent]]
  /\ UNCHANGED <<rec, slot, lookup, observer, closing, queue>>

AbortRemove ==
  /\ drain.at = "remove"
  /\ rec' = [rec EXCEPT !.book = FALSE, !.registered = FALSE]
  /\ inst' = [inst EXCEPT !.byId = {}]
  /\ queue' = NoRecord
  /\ Drains("done")
  /\ UNCHANGED <<slot, lookup, observer, closing>>

-----------------------------------------------------------------------------
Queue == QueueEnds \/ QueueStops
Executor ==
  \/ ExecutorReturns \/ ExecutorRefuses \/ BodyPanics
  \/ \E i \in Instances : Created(i) \/ Insert(i) \/ Bump(i) \/ LookAtPhase(i) \/ EventHandled(i)
  \/ ObservationsEnd
Hooks == \E i \in Instances : HookReturns(i)
Execute ==
  \/ Unmade \/ OpenQueue \/ StartedDelivered \/ StartedRemoved
  \/ Prepare \/ ReadFails \/ MakeBook \/ StartRefused \/ RunStarted
  \/ Settle \/ SetReturned \/ CallAll \/ CallEach \/ HooksReturned \/ HooksChanged
  \/ Settled \/ HandOverEnd \/ SetDropped \/ RemoveRun \/ SpawnClosing \/ AddClosing
Closing == ClosingBegins \/ ClosingEnds \/ ClosingDrained \/ ClosingDelists \/ ClosingForgets
Lookup == \E i \in Lookups : LookupSubscribe(i) \/ LookupCheck(i) \/ LookupChanged(i)
DrainWaits == SlotEnded \/ ClosingsLook \/ ClosingsChanged
DrainAborts ==
  \/ AbortSlot \/ TakeClosings \/ JoinClosing \/ ReportLeft \/ ForgetLeft
  \/ AbortRun \/ AbortCallAll \/ AbortCallEach \/ AbortRemove

Next ==
  \/ Queue \/ NodeWrites \/ Executor \/ Hooks \/ Execute \/ CancelOrder \/ Closing
  \/ Lookup \/ DrainBegins \/ DrainWaits \/ Timeout \/ DrainAborts

Spec == Init /\ [][Next]_vars
-----------------------------------------------------------------------------
(* Properties                                                              *)

SlotAt == SlotAwaits \cup {"prepare", "settle", "call", "calling", "wait", "ready", "drop",
                           "remove", "spawn", "add", "returned", "aborted"}
ClosingAt == ClosingAwaits \cup {"none", "delist", "forget", "over", "aborted"}
DrainAt == {"no", "slots", "closings", "sleep", "abort", "take", "join", "left", "forget",
            "runs", "call", "calling", "remove", "done"}

RecordType ==
  rec \in [registered : BOOLEAN, source : {"Trigger", "Claim"}, trigger : {"held", "acked", "back"},
           cancelled : BOOLEAN, startedPending : BOOLEAN, executorRunning : BOOLEAN,
           obsExpected : BOOLEAN, obsOver : BOOLEAN, graph : BOOLEAN,
           phase : {"Live", "ExecutorReturned", "Aborted", "Dropped"},
           book : BOOLEAN, context : BOOLEAN]
InstanceType ==
  inst \in [made : SUBSET Instances, hooked : SUBSET Instances, running : SUBSET Instances,
            byId : SUBSET Instances, calls : [Instances -> Nat]]
SlotType ==
  slot \in [at : SlotAt, ending : {"None", "Ended", "Failed", "Cancelled"},
            covers : SUBSET RunWrites, calling : SUBSET Instances, note : BOOLEAN]
TaskTypes ==
  /\ lookup \in [Lookups -> [at : {"none", "check", "wait"}, fresh : BOOLEAN]]
  /\ observer \in {Idle} \cup {"insert", "bump", "look"} \X Instances
  /\ closing \in [at : ClosingAt, listed : BOOLEAN, covers : SUBSET RunWrites]
  /\ drain \in [at : DrainAt, note : BOOLEAN, due : SUBSET Instances,
                report : [listed : BOOLEAN, aborted : BOOLEAN, unsent : SUBSET RunWrites]]
QueueType ==
  queue \in [fifo : Seq(RunWrites),
             result : [RunWrites -> Results \cup {"absent", "waiting"}],
             refs : SUBSET {"record", "task"}]

\* The fields of the record, the locals of the tasks and the queue keep to the
\* values the code gives them.
TypeOK == RecordType /\ InstanceType /\ SlotType /\ TaskTypes /\ QueueType

\* The end that jobs hears: the completed fact is delivered only with every part
\* of the end it stands for, never beside a failed fact, and a part that jobs
\* refused is told by a failed fact before the closing ends. A cancelled ending
\* tells nothing.
EndFacts ==
  /\ queue.result["Completed"] = "Delivered" =>
       /\ queue.result["Failed"] = "absent"
       /\ \A w \in {"Answer", "SavedState"} : queue.result[w] \in {"absent", "Delivered"}
  /\ /\ closing.at \in {"drained", "delist", "forget", "over"}
     /\ \E w \in {"Answer", "SavedState"} : queue.result[w] \in {"Refused", "Failed"}
     => queue.result["Failed"] \notin {"absent", "waiting"}
  /\ slot.ending = "Cancelled" => Terminal = {}

\* open_queue and the trigger: it is acknowledged only after the started fact
\* ended with an answer of jobs, it is given back only if no start was asked for,
\* and a graph never runs before its trigger is acknowledged.
AckAfterStart ==
  /\ rec.trigger = "acked" => queue.result["Started"] \in {"Delivered", "Refused"}
  /\ rec.trigger = "back" => queue.result["Started"] = "absent"
  /\ rec.graph /\ rec.source = "Trigger" => rec.trigger = "acked"
  /\ rec.graph => queue.result["Started"] = "Delivered" /\ ~rec.startedPending

\* The hook of every instance is called, and once: the end event, call_all of settle,
\* call_all of the abort and a late report never call it twice; once the executor is
\* over, by its return, its panic or the abort of a drain, an instance without a call is
\* one that the observer or call_all is about to call; and when the end of the Run is
\* handed over, every instance that the executor made, the late ones too, had its hook
\* called and returned.
HookOnce ==
  /\ \A i \in Instances : inst.calls[i] <= 1
  /\ rec.phase # "Live" =>
       \A i \in inst.made \ inst.hooked :
         \/ observer \in {"insert", "bump", "look"} \X {i}
         \/ slot.at = "call" \/ i \in slot.calling
         \/ drain.at = "call" \/ i \in drain.due
  /\ slot.at \in {"ready", "drop"} /\ rec.obsExpected =>
       observer = Idle /\ inst.running = {} /\ inst.made = inst.hooked

\* find and remove_run against insert: a lookup that waits while its instance is held
\* has a change to wake up for, or the observer is about to make it; and it holds no
\* instance of a Run that was dropped or aborted, however late the executor reports it.
LookupWoken ==
  /\ \A i \in Lookups : lookup[i].at = "wait" /\ i \in inst.byId
                        => lookup[i].fresh \/ observer = <<"bump", i>>
  /\ slot.at \in {"spawn", "add", "returned"} \/ (slot.at = "aborted" /\ drain.at = "done")
       => inst.byId = {}

\* The drain report tells all that was lost: a Run whose slot was cut off, and
\* every write of its end that was left unsent.
DrainTellsAll ==
  drain.at = "done" =>
    /\ slot.at = "aborted" => drain.report.listed /\ drain.report.aborted
    /\ \A w \in Terminal : queue.result[w] = "LeftUnsent" => w \in drain.report.unsent

\* The README of the toolkit, Drain: "The report lists a Run that was aborted, and
\* a Run whose end-of-run writes were not sent." So a Run listed as aborted is one
\* whose slot the drain cut off. closing::run leaves Closings before it leaves the
\* registry; a timeout between the two lists a Run that had ended.
AbortedWasCut == drain.report.aborted => slot.at = "aborted"

-----------------------------------------------------------------------------
(* Fairness. The async runtime polls every task that is ready. The queue,  *)
(* the executor, the hooks and the run start function end in the end: that *)
(* is for jobs and for the author of the runner, and nothing here can hurry*)
(* them.                                                                   *)
Observer == \E i \in Instances : Insert(i) \/ Bump(i) \/ LookAtPhase(i)
Fairness ==
  /\ WF_vars(Execute) /\ WF_vars(Closing) /\ WF_vars(Observer)
  /\ WF_vars(DrainWaits) /\ WF_vars(DrainAborts)
  /\ WF_vars(Queue) /\ WF_vars(ExecutorReturns) /\ WF_vars(ObservationsEnd)
  /\ \A i \in Instances : WF_vars(HookReturns(i))

FairSpec == Spec /\ Fairness

\* A Run is forgotten and a drain ends, without its timeout too: no wake-up of settle, of
\* the closing or of the drain is lost, and a closing is listed before it can leave.
RunForgotten ==
  /\ rec.registered ~> ~rec.registered
  /\ drain.at = "slots" ~> drain.at = "done"
=============================================================================
