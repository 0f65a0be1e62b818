----------------------------- MODULE KitRunLoop -----------------------------
(***************************************************************************)
(* The run loop of the first kit (br-jobs-runner-kit, src/run_loop.rs)      *)
(* over its core (br-jobs-runner-core): the slot pool, the cancel set and   *)
(* its feed, the presence session, the publisher of the facts, and the      *)
(* tasks of the runs.                                                       *)
(*                                                                          *)
(* The loop is one task: while it handles a trigger (accept_trigger) it     *)
(* takes nothing else.  The tasks of the runs and the publisher run beside  *)
(* it and share with it the channel of the facts.                           *)
(***************************************************************************)
EXTENDS Integers, Sequences, FiniteSets, SequencesExt

CONSTANTS
    RunIds,       \* the runs for which a trigger is published
    BadFrame,     \* a trigger frame that does not decode
    Capacity,     \* slots: max_concurrent_runs
    MaxAttempts,  \* STATUS_PUBLISH_ATTEMPTS
    MaxTriggers,  \* bound: triggers published
    MaxTasks,     \* bound: tasks spawned
    Cancellable,  \* bound: the runs whose keys jobs writes in the cancel bucket
    MaxOrders,    \* bound: writes to the cancel bucket
    MaxFacts,     \* bound: facts the runs emit besides their ends
    MaxFaults,    \* bound: failures of the bus and panics of runs
    MaxClones,    \* bound: tasks at a time whose RunContext outlives them
    Panics        \* whether the code of a run may panic

ASSUME CapacityAssumption == Capacity \in Nat \ {0}
ASSUME BoundsAssumption ==
    /\ BadFrame \notin RunIds /\ Cancellable \subseteq RunIds
    /\ MaxAttempts \in Nat \ {0}
    /\ {MaxTriggers, MaxTasks, MaxOrders, MaxFacts, MaxFaults,
        MaxClones} \subseteq Nat
    /\ Panics \in BOOLEAN

VARIABLES
    pc,        \* where the loop is
    puller,    \* the pull stream of the triggers
    triggers,  \* the messages of the trigger stream that are not settled
    hand,      \* the trigger that accept_trigger holds and how it settles it
    slots,     \* the slot pool: in_flight, draining
    cancels,   \* the cancel set
    bucket,    \* the cancel bucket: the last operation on each key
    watch,     \* the watch of the bucket
    feed,      \* the entries of the watch that are not consumed
    tasks,     \* the tasks spawned: run, state, token
    clones,    \* the tasks that are over while other work holds their RunContext
    aborting,  \* abort_all was called
    chan,      \* the channel of the facts
    tries,     \* attempts made to publish the head of the channel
    status,    \* the status stream: what it holds of each task, in its order
    lost,      \* the facts the publisher gave up
    emitted,   \* facts emitted besides the ends
    presence,  \* the presence session: phase, last
    entry,     \* the presence entry of the instance in its bucket
    drain,     \* whether drain_deadline is set
    stop,      \* the shutdown future is ready
    orders,    \* writes made to the cancel bucket
    faults     \* failures so far

loopVars   == <<pc, puller, hand, slots, cancels, drain>>
cancelBus  == <<bucket, watch, feed, orders>>
factVars   == <<chan, tries, status, lost, emitted>>
presVars   == <<presence, entry>>
vars == <<loopVars, triggers, cancelBus, tasks, clones, aborting, factVars, presVars,
          stop, faults>>

Messages == RunIds \cup {BadFrame}
NoHand   == [msg |-> BadFrame, kind |-> "None"]

(***************************************************************************)
(* What the bus, the tasks and the channel may look like.                   *)
(***************************************************************************)
Task(r, cut) == [run |-> r, state |-> "Running", cancelled |-> cut]
IsLive(t)  == t.state \in {"Running", "Returned", "Panicked"}
LiveTasks  == {i \in DOMAIN tasks : IsLive(tasks[i])}
Faulty     == faults < MaxFaults /\ faults' = faults + 1
Fine       == UNCHANGED faults
IsLog(f)   == f.fact = "Log"

\* PresenceSession::new; the interval is a third of the time to live of the
\* bucket, which bind found not to be zero.
NewPresence == [phase |-> "Ready", last |-> "None"]

Init ==
    /\ pc = "Bind"
    /\ puller = "Closed"
    /\ triggers \in {S \in SUBSET Messages : Cardinality(S) = MaxTriggers}
    /\ hand = NoHand
    /\ slots = [inFlight |-> {}, draining |-> FALSE]
    /\ cancels = {}
    /\ bucket = [r \in RunIds |-> "None"]
    /\ watch = "Open" /\ feed = <<>>
    /\ tasks = <<>> /\ clones = {} /\ aborting = FALSE
    /\ chan = <<>> /\ tries = 0 /\ status = [i \in 1 .. MaxTasks |-> <<>>]
    /\ lost = {}
    /\ presence = NewPresence
    /\ entry = "None"
    /\ drain = FALSE /\ stop = FALSE
    /\ orders = 0 /\ emitted = 0 /\ faults = 0

(***************************************************************************)
(* The slot pool of the core.                                               *)
(***************************************************************************)
\* Mutant: the claim of a run in flight is not refused.
TryClaimAgain(r) ==
    IF slots.draining THEN "Draining"
    ELSE IF Cardinality(slots.inFlight) >= Capacity THEN "AtCapacity"
    ELSE "Claimed"

TryClaim(r) ==
    IF slots.draining THEN "Draining"
    ELSE IF r \in slots.inFlight THEN "AlreadyInFlight"
    ELSE IF Cardinality(slots.inFlight) >= Capacity THEN "AtCapacity"
    ELSE "Claimed"

HasFreeSlot == ~slots.draining /\ Cardinality(slots.inFlight) < Capacity
Claimed(r)  == [slots EXCEPT !.inFlight = @ \cup {r}]
Released(r) == [slots EXCEPT !.inFlight = @ \ {r}]

(***************************************************************************)
(* The presence session of the core.  Of the time of the last publication  *)
(* only matters whether the next beat is due.                               *)
(***************************************************************************)
NextDue == IF presence.phase = "Closed" THEN "Never"
           ELSE IF presence.last = "None" THEN "Now"
           ELSE presence.last

PollDue == NextDue \in {"Now", "Due"}

PresenceDrained ==
    IF presence.phase = "Ready" THEN [phase |-> "Draining", last |-> "None"]
                                ELSE presence

PresenceClosed == [presence EXCEPT !.phase = "Closed"]

\* A write of the presence that fails is only logged.
Apply(word) ==
    \/ entry' = word /\ Fine
    \/ UNCHANGED entry /\ Faulty

(***************************************************************************)
(* The loop: its head, and the branches of its select.                      *)
(***************************************************************************)
\* The transport is bound, the cancel watch and the pull stream are opened,
\* and the publisher is spawned.
Bind ==
    /\ pc = "Bind"
    /\ pc' = "Poll"
    /\ puller' = "Open"
    /\ UNCHANGED <<hand, slots, cancels, drain, triggers, cancelBus, tasks,
                   clones, aborting, factVars, presVars, stop, faults>>

\* A stream or a bucket that is not there ends run_loop with its error.
BindFails ==
    /\ pc = "Bind"
    /\ Faulty
    /\ pc' = "Returned"
    /\ UNCHANGED <<puller, hand, slots, cancels, drain, triggers, cancelBus,
                   tasks, clones, aborting, factVars, presVars, stop>>

\* presence.poll and, when draining with no task left, the end of the loop.
Poll ==
    /\ pc = "Poll"
    /\ pc' = IF drain /\ LiveTasks = {} THEN "Close" ELSE "Select"
    /\ IF PollDue
       THEN /\ Apply(presence.phase)
            /\ presence' = [presence EXCEPT !.last = "Fresh"]
       ELSE UNCHANGED <<presVars, faults>>
    /\ UNCHANGED <<puller, hand, slots, cancels, drain, triggers, cancelBus, tasks,
                   clones, aborting, factVars, stop>>

Shutdown ==
    /\ pc = "Select" /\ stop /\ ~drain
    /\ drain' = TRUE
    /\ slots' = [slots EXCEPT !.draining = TRUE]
    /\ presence' = PresenceDrained
    /\ pc' = "Poll"
    /\ UNCHANGED <<puller, hand, cancels, triggers, cancelBus, tasks, clones, aborting,
                   factVars, entry, stop, faults>>

\* Mutant: the time limit passes and the runs are not aborted.
DrainElapsedWaits ==
    /\ pc = "Select" /\ drain
    /\ pc' = "Poll"
    /\ UNCHANGED <<puller, hand, slots, cancels, drain, triggers, cancelBus, tasks,
                   clones, aborting, factVars, presVars, stop, faults>>

\* The time limit of the drain passes while the loop waits, or passed while it was
\* busy.
DrainElapsed ==
    /\ pc = "Select" /\ drain
    /\ aborting' = TRUE
    /\ pc' = "Close"
    /\ UNCHANGED <<puller, hand, slots, cancels, drain, triggers, cancelBus, tasks,
                   clones, factVars, presVars, stop, faults>>

\* join_next: a task that panicked gives no run id.
Join(i) ==
    /\ pc = "Select"
    /\ tasks[i].state \in {"Returned", "Panicked"}
    /\ tasks' = [tasks EXCEPT ![i].state =
                    IF @ = "Returned" THEN "Joined" ELSE "Gone"]
    /\ slots' = IF tasks[i].state = "Returned" THEN Released(tasks[i].run)
                                               ELSE slots
    /\ pc' = "Poll"
    /\ UNCHANGED <<puller, hand, cancels, drain, triggers, cancelBus, clones, aborting,
                   factVars, presVars, stop, faults>>

\* The interval of the heartbeat passes while the loop waits.  When it passes
\* while the loop is busy, the next Poll publishes as it does after this step.
Heartbeat ==
    /\ pc = "Select"
    /\ presence' = [presence EXCEPT !.last = "Due"]
    /\ pc' = "Poll"
    /\ UNCHANGED <<puller, hand, slots, cancels, drain, triggers, cancelBus, tasks,
                   clones, aborting, factVars, entry, stop, faults>>

(***************************************************************************)
(* accept_trigger.                                                          *)
(***************************************************************************)
\* How a trigger is settled at once, or "Start" when its slot is claimed.
Verdict(m) ==
    IF m = BadFrame THEN "Term"
    ELSE IF m \in cancels THEN "Ack"
    ELSE CASE TryClaim(m) = "Claimed"         -> "Start"
           [] TryClaim(m) = "AlreadyInFlight" -> "Ack"
           [] OTHER                           -> "Nak"

\* The branch of the select that pulls.
Pulling == pc = "Select" /\ ~drain /\ HasFreeSlot

\* The pull stream ends or errors; the branch attaches the durable again.
PullerEnds ==
    /\ puller = "Open" /\ pc # "Returned"
    /\ Faulty
    /\ puller' = "Closed"
    /\ UNCHANGED <<pc, hand, slots, cancels, drain, triggers, cancelBus,
                   tasks, clones, aborting, factVars, presVars, stop>>

PullerAttached ==
    /\ Pulling /\ puller = "Closed"
    /\ puller' = "Open"
    /\ UNCHANGED <<pc, hand, slots, cancels, drain, triggers, cancelBus,
                   tasks, clones, aborting, factVars, presVars, stop, faults>>

TakeTrigger(m) ==
    /\ Pulling /\ puller = "Open"
    /\ m \in triggers
    /\ Len(tasks) < MaxTasks
    /\ triggers' = triggers \ {m}
    /\ hand' = [msg |-> m, kind |-> Verdict(m)]
    /\ slots' = IF Verdict(m) = "Start" THEN Claimed(m) ELSE slots
    /\ pc' = IF Verdict(m) = "Start" THEN "Publish" ELSE "Finish"
    /\ UNCHANGED <<puller, cancels, drain, cancelBus, tasks, clones, aborting, factVars,
                   presVars, stop, faults>>

\* The task that the trigger in hand is spawned as.
NextTask == Len(tasks) + 1
Told(i, f) == [status EXCEPT ![i] = Append(@, f)]

\* publish_acked of RunStarted: the bus takes it, or fails before or after
\* it took it.
PublishStarted ==
    /\ pc = "Publish"
    /\ status' = Told(NextTask, "Started")
    /\ hand' = [hand EXCEPT !.kind = "Spawn"]
    /\ pc' = "Finish"
    /\ UNCHANGED <<puller, slots, cancels, drain, triggers, cancelBus, tasks,
                   clones, aborting, chan, tries, lost, emitted, presVars, stop, faults>>

StartedFails ==
    /\ pc = "Publish"
    /\ Faulty
    /\ status' \in {status, Told(NextTask, "Started")}
    /\ hand' = [hand EXCEPT !.kind = "Nak"]
    /\ slots' = Released(hand.msg)
    /\ pc' = "Finish"
    /\ UNCHANGED <<puller, cancels, drain, triggers, cancelBus, tasks, clones, aborting,
                   chan, tries, lost, emitted, presVars, stop>>

\* The durable of the triggers wants explicit settlements and delivers a
\* message as often as it takes: one that is not settled comes again.
Unsettled(back) == IF back THEN triggers \cup {hand.msg} ELSE triggers

\* finish_delivery: a settlement that is lost is only logged, and the message
\* comes again.  After the Ack of a run that started its task is spawned.
Settle(back) ==
    /\ pc = "Finish"
    /\ triggers' = Unsettled(back)
    /\ tasks' = IF hand.kind = "Spawn"
                THEN Append(tasks, Task(hand.msg, hand.msg \in cancels))
                ELSE tasks
    /\ hand' = NoHand
    /\ pc' = "Poll"
    /\ UNCHANGED <<puller, slots, cancels, drain, cancelBus, clones, aborting, factVars,
                   presVars, stop>>

FinishDelivery     == Settle(hand.kind = "Nak") /\ Fine
FinishDeliveryLost == Settle(TRUE) /\ Faulty

(***************************************************************************)
(* The cancel feed: a watch with the last entry of each key as its history, *)
(* opened again when it ends, and then replayed after a Reset.              *)
(***************************************************************************)
\* jobs orders the cancellation of a run, or clears the order.
Order(r, op) ==
    /\ orders < MaxOrders /\ pc # "Returned"
    /\ bucket[r] # op
    /\ op = "Delete" => bucket[r] = "Put"
    /\ bucket' = [bucket EXCEPT ![r] = op]
    /\ orders' = orders + 1
    /\ feed' = IF watch = "Open" THEN Append(feed, [op |-> op, run |-> r])
                                 ELSE feed
    /\ UNCHANGED <<loopVars, triggers, watch, tasks, clones, aborting, factVars,
                   presVars, stop, faults>>

\* The watch ends or errors: what the client had not received is not given.
WatchEnds ==
    /\ watch = "Open" /\ pc # "Returned"
    /\ Faulty
    /\ watch' = "Ended"
    /\ \E n \in 0 .. Len(feed) : feed' = SubSeq(feed, 1, n)
    /\ UNCHANGED <<loopVars, triggers, bucket, orders, tasks, clones, aborting,
                   factVars, presVars, stop>>

\* Mutant: the order is noted, and the run under way does not hear of it.
FiredNever(ts, r) == ts

\* The token that tokens holds for a run.
Fired(ts, r) ==
    [i \in DOMAIN ts |->
        IF ts[i].run = r /\ ts[i].state # "Joined"
        THEN [ts[i] EXCEPT !.cancelled = TRUE] ELSE ts[i]]

\* The cancel set after an entry of the watch.
Applied(e) == IF e.op = "Put" THEN cancels \cup {e.run} ELSE cancels \ {e.run}

CancelEvent ==
    /\ pc = "Select" /\ feed # <<>>
    /\ feed' = Tail(feed)
    /\ cancels' = Applied(Head(feed))
    /\ tasks' = IF Head(feed).op = "Put" THEN Fired(tasks, Head(feed).run)
                                         ELSE tasks
    /\ pc' = "Poll"
    /\ UNCHANGED <<puller, hand, slots, drain, triggers, bucket, watch, orders,
                   clones, aborting, factVars, presVars, stop, faults>>

Replay == SetToSeq({[op |-> bucket[r], run |-> r] :
                        r \in {x \in RunIds : bucket[x] # "None"}})

\* The watch is opened again, after delays that are not modelled.
CancelReset ==
    /\ pc = "Select" /\ watch = "Ended" /\ feed = <<>>
    /\ watch' = "Open"
    /\ feed' = Replay
    /\ cancels' = {}
    /\ pc' = "Poll"
    /\ UNCHANGED <<puller, hand, slots, drain, triggers, bucket, orders, tasks,
                   clones, aborting, factVars, presVars, stop, faults>>

(***************************************************************************)
(* The task of a run, and what its code does with its RunContext.           *)
(***************************************************************************)
FactOf(i, f) == [fact |-> f, task |-> i]

\* RunContext is Clone: the code of a run may hand it to work that outlives its task
\* (a spawned task, a closure of spawn_blocking), which holds it until it ends.
TaskOver(i, state, outlived) ==
    /\ tasks[i].state = "Running"
    /\ tasks' = [tasks EXCEPT ![i].state = state]
    /\ outlived => Cardinality(clones) < MaxClones
    /\ clones' = IF outlived THEN clones \cup {i} ELSE clones

DetachedEnds(i) ==
    /\ i \in clones
    /\ clones' = clones \ {i}
    /\ UNCHANGED <<loopVars, triggers, cancelBus, tasks, aborting, factVars,
                   presVars, stop, faults>>

\* The tasks whose code holds a sender of the facts.
Senders == {i \in DOMAIN tasks : tasks[i].state = "Running"} \cup clones

\* A log line, or a fact of a step: "Late" when the task of the run is over.
Emit(i, log) ==
    /\ i \in Senders /\ emitted < MaxFacts
    /\ emitted' = emitted + 1
    /\ chan' = Append(chan, FactOf(i, IF log THEN "Log"
                                      ELSE IF tasks[i].state = "Running" THEN "Step" ELSE "Late"))
    /\ UNCHANGED <<loopVars, triggers, cancelBus, tasks, clones, aborting, tries,
                   status, lost, presVars, stop, faults>>

\* The code returns its outcome, or its payload did not decode: the fact is a
\* RunCompleted or a RunFailed.
RunEnds(i, outlived) ==
    /\ TaskOver(i, "Returned", outlived)
    /\ chan' = Append(chan, FactOf(i, "End"))
    /\ UNCHANGED <<loopVars, triggers, cancelBus, aborting, tries, status,
                   lost, emitted, presVars, stop, faults>>

RunPanics(i, outlived) ==
    /\ Panics /\ Faulty
    /\ TaskOver(i, "Panicked", outlived)
    /\ UNCHANGED <<loopVars, triggers, cancelBus, aborting, factVars, presVars, stop>>

\* An aborted task is dropped where it waits, if its code ever waits.
RunAborted(i, outlived) ==
    /\ aborting
    /\ TaskOver(i, "Aborted", outlived)
    /\ UNCHANGED <<loopVars, triggers, cancelBus, aborting, factVars,
                   presVars, stop, faults>>

(***************************************************************************)
(* The publisher: facts one after the other, status facts with a bounded    *)
(* number of attempts, log lines with one.                                  *)
(***************************************************************************)
Publish ==
    /\ chan # <<>>
    /\ status' = IF IsLog(Head(chan)) THEN status
                  ELSE Told(Head(chan).task, Head(chan).fact)
    /\ chan' = Tail(chan) /\ tries' = 0
    /\ UNCHANGED <<loopVars, triggers, cancelBus, tasks, clones, aborting, lost,
                   emitted, presVars, stop, faults>>

\* Mutant: a fact that failed is put behind the others.
PublishFailsLater ==
    /\ chan # <<>> /\ ~IsLog(Head(chan)) /\ Faulty
    /\ chan' = Append(Tail(chan), Head(chan))
    /\ UNCHANGED <<loopVars, triggers, cancelBus, tasks, clones, aborting, tries,
                   status, lost, emitted, presVars, stop>>

\* The attempt fails, before or after the bus took the fact.
PublishFails ==
    /\ chan # <<>>
    /\ ~IsLog(Head(chan))
    /\ Faulty
    /\ status' \in {status, Told(Head(chan).task, Head(chan).fact)}
    /\ LET last == tries + 1 = MaxAttempts
       IN  /\ tries' = IF last THEN 0 ELSE tries + 1
           /\ chan' = IF last THEN Tail(chan) ELSE chan
           /\ lost' = IF last THEN lost \cup {Head(chan)} ELSE lost
    /\ UNCHANGED <<loopVars, triggers, cancelBus, tasks, clones, aborting, emitted,
                   presVars, stop>>

(***************************************************************************)
(* The end of run_loop: the presence entry is deleted, and the publisher is *)
(* awaited, which ends when no sender is left and the channel is empty.     *)
(* The loop drops its own sender; a run may hold one for as long as it likes.*)
(***************************************************************************)
Close ==
    /\ pc = "Close"
    /\ presence' = PresenceClosed
    /\ Apply("None")
    /\ pc' = "Flush"
    /\ UNCHANGED <<puller, hand, slots, cancels, drain, triggers, cancelBus, tasks,
                   clones, aborting, factVars, stop>>

\* Mutant: the senders that detached work holds are not waited for.
PublisherOfTasks ==
    /\ chan = <<>>
    /\ \A i \in DOMAIN tasks : tasks[i].state # "Running"

PublisherEnded == chan = <<>> /\ Senders = {}

Return ==
    /\ pc = "Flush"
    /\ PublisherEnded
    /\ pc' = "Returned"
    /\ UNCHANGED <<puller, hand, slots, cancels, drain, triggers, cancelBus, tasks,
                   clones, aborting, factVars, presVars, stop, faults>>

ShutdownSignal ==
    /\ ~stop /\ pc # "Returned" /\ stop' = TRUE
    /\ UNCHANGED <<loopVars, triggers, cancelBus, tasks, clones, aborting, factVars,
                   presVars, faults>>

Done == pc = "Returned" /\ UNCHANGED vars

Next ==
    \/ Bind \/ BindFails \/ PullerEnds \/ PullerAttached
    \/ Poll \/ Shutdown \/ DrainElapsed \/ Heartbeat
    \/ \E m \in Messages : TakeTrigger(m)
    \/ PublishStarted \/ StartedFails
    \/ FinishDelivery \/ FinishDeliveryLost
    \/ \E r \in Cancellable, op \in {"Put", "Delete"} : Order(r, op)
    \/ WatchEnds \/ CancelEvent \/ CancelReset
    \/ \E i \in DOMAIN tasks :
          \/ Join(i) \/ DetachedEnds(i)
          \/ \E outlived \in BOOLEAN :
                RunEnds(i, outlived) \/ RunPanics(i, outlived) \/ RunAborted(i, outlived)
          \/ \E log \in BOOLEAN : Emit(i, log)
    \/ Publish \/ PublishFails
    \/ Close \/ Return \/ ShutdownSignal
    \/ Done

(***************************************************************************)
(* The select is not biased: a branch that is ready again and again is      *)
(* taken in the end.  The code of a run need not end, nor wait, so that an  *)
(* abort need not stop it, nor let go of what it cloned.                    *)
(***************************************************************************)
Fairness ==
    /\ WF_pc(Bind \/ Poll \/ PublishStarted \/ FinishDelivery \/ Close \/ Return)
    /\ SF_pc(Shutdown \/ DrainElapsed)
    /\ WF_chan(Publish)

Spec == Init /\ [][Next]_vars /\ Fairness

(***************************************************************************)
(* Properties.                                                              *)
(***************************************************************************)
Claiming == IF hand.kind \in {"Start", "Spawn"} THEN {hand.msg} ELSE {}
HeldBy(states) == {tasks[i].run : i \in {j \in DOMAIN tasks :
                                            tasks[j].state \in states}}

\* slots.rs:30, run_loop.rs:120-124, 166-206: no more runs are under way than
\* there are slots, no run is under way twice although its trigger comes
\* again, and a slot that is taken is the one of the trigger in hand, of a task
\* that was not joined, or of a task whose code panicked.
SlotsHold ==
    /\ Cardinality(slots.inFlight) <= Capacity
    /\ \A i, j \in LiveTasks : tasks[i].run = tasks[j].run => i = j
    /\ aborting \/ slots.inFlight
                     = Claiming \cup HeldBy({"Running", "Returned",
                                             "Panicked", "Gone"})

Rank(f) == CASE f = "Started" -> 0 [] f = "Step" -> 1 [] f = "End" -> 2
             [] f = "Late" -> 3

InOrder(i) ==
    /\ status[i] # <<>> /\ status[i][1] = "Started"
    /\ \A k, l \in DOMAIN status[i] : k < l => Rank(status[i][k]) <= Rank(status[i][l])

EndKnown(i) == \/ FactOf(i, "End") \in Range(chan) \cup lost
               \/ "End" \in Range(status[i])

\* publish.rs:20, 58-70, run_loop.rs:133-134, 183-205: on the status stream the
\* start of a run comes before its other facts and its end after them, and only what
\* detached work emits once the task is over follows the end, however often an
\* attempt fails or is taken without an answer; the end of every run whose code
\* returned is in the channel, on the stream, or was given up after all attempts;
\* and run_loop returns with an empty channel and no code of a run that could emit.
FactsTold ==
    /\ \A i \in DOMAIN tasks :
          /\ InOrder(i)
          /\ tasks[i].state \in {"Returned", "Joined"} => EndKnown(i)
    /\ pc = "Returned" => chan = <<>> /\ Senders = {}

\* core presence.rs:81: while no write failed, the instance is told as draining
\* before the loop waits again after the shutdown, never as ready after it, and
\* its entry is gone when run_loop waits for its last facts.
DrainTold ==
    faults = 0 =>
        /\ pc \in {"Select", "Publish", "Finish", "Close"} =>
              entry = IF drain THEN "Draining" ELSE "Ready"
        /\ pc \in {"Flush", "Returned"} => entry = "None"

\* What the bus is told is the truth: of every run its facts, of the runner its drain.
BusTold == FactsTold /\ DrainTold

\* run_loop.rs:110-119, 191-195, cancel.rs:33: when the feed has caught up with
\* the bucket, the cancel set is the bucket, and every run under way whose
\* order stands has its token cancelled, whatever the order of the trigger, the
\* order, the end of the watch and its replay.
CaughtUp ==
    watch = "Open" /\ feed = <<>> =>
        /\ cancels = {r \in RunIds : bucket[r] = "Put"}
        /\ \A i \in LiveTasks :
              bucket[tasks[i].run] = "Put" => tasks[i].cancelled

\* run_loop.rs:76, 89-101, 130-135, publish.rs:58: after a shutdown the loop ends and the
\* presence entry is deleted, whatever the runs do and however often the bus fails
\* within its bounds; and then run_loop returns once no code of a run holds a
\* RunContext.  It does not return before: code that never waits, or that left a
\* clone behind, holds it up for good, past the time limit of the drain.
ShutdownReturns ==
    stop ~> pc = "Returned" \/ (pc = "Flush" /\ Senders # {})

\* README.md:123 of the kit: "a broken-but-alive runner does not idle - it keeps
\* winning triggers and failing them".  With no run under way a runner that
\* does not drain has a free slot.
DoesNotIdle ==
    pc = "Select" /\ ~drain /\ LiveTasks = {} => HasFreeSlot

=============================================================================
