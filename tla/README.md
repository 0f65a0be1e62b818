# A TLA+ model of the runner libraries

The crates of this repository let a program run Jobs of a platform: it takes Runs
from *jobs*, executes their graphs, writes what happens to *jobs* (facts, answers,
mail, child jobs) and to *Threads* (messages of conversations), and stops without
losing what it has accepted. This directory models the parts that carry state
across tasks, checks them with TLC on small instances, and proves with TLAPS, for all
values of their constants, the safety of each of them: the delivery queue (order,
dependencies, ends, and that it implements its ledger), the lifecycle of a Run, the slot
loop, the run loop of the first kit, the calls of children, the delete of the presence,
the thread adapter and the stream handle, the arrivals and the inbox (section 13).

A module is named in **bold** where its section begins. Every definition that
models code is listed in `PROJECT.json` ("map") with the lines it stands for;
"hazards" there lists what is hard to test in this code, at its line, with the
properties that would catch it going wrong.

## 1. Inventory

| Part | State it keeps | Operations | Talks to | What is hard | What makes it correct | Module |
|---|---|---|---|---|---|---|
| Delivery queue (`br-runner-jobs/src/queue`) | fifo, held entries with gates, pending seqs, ends by dependency key, last failure, progress | hand over, hold behind a gate, send, resend, complete, `drained`, drop | callers in many threads; jobs; the observer | lock sections that are apart, lost answers, drop in mid-attempt, wake-ups | nothing lost, order, dependencies, one true end per write, `drained` covers and returns | DeliveryQueue |
| Run lifecycle (`br-runner-toolkit/src/run`, `record`, `hooks`, `instances`, `closings`, `drain`) | phase of a Run, instances, hooks called, lookup table, list of closings, drain report | start, prelude, body, observe, settle, end facts, closing, lookup, drain | the queue, the executor, the user's hooks | late observations, hooks racing the end, drain timeout racing a closing | right end facts, each hook once, lookup forgets, drain tells all and ends | RunLifecycle |
| Slot loop (`br-runner-toolkit/src/slot`, `shared`, `feeds`, `calls`), cancel feed (`runner_transport/cancel`) | mode, epochs, held claims, registry of Runs, cancel orders | claim, take a trigger, register, acknowledge, give back, cancel, stop | jobs, the two feeds, the Run | lost answers, the same Run twice, feeds that end and replay, two slots in one check | a Run is executed once, its trigger acknowledged after its start, orders reach it, slots wake and end | SlotLoop |
| Presence and mode feed (`br-runner-toolkit/src/presence`, `runner`, `supervise`, `feeds`; `runner_transport/mode`) | status, publication under way, watch of the bucket, mode | beat, publish, restart, drain, delete; open, read, receive | the buckets of the bus | a beat that drops a publication, an abort in a publication, a change between watch and read, panics of tasks | the mode reaches the loop, the drain is told, nothing follows the delete | RunnerBeats |
| Thread adapter (`br-runner-threads/src/adapter`, `response`, `queue`) | store, queue, turn states, open responses, tip, refused and broken messages | the operations of the port, delivery, keepalives, `read`, `entry_stored`, `instance_ended`, drop, restart | Threads, the store, the executor | operations interleaved with sinks and keepalives, a store that fails, restart, waits | order, nothing lost, chunks without a gap, whole seals, responses end once, waits return | ThreadQueue |
| Stream handle (`br-runner-threads/src/stream`, `client`) | chunks sent, broken flag, closings | write a chunk, close | the bus, Threads | many writers, a closing whose outcome is lost, a dropped future | numbers without a gap, seal equals what was sent, spent after a confirmed closing | ThreadStream |
| Arrivals and end waits (`br-runner-jobs/src/arrival`, `endwait`, `book`) | the feed's buffer, ends of children, generations of the feed | open, replay, resolve, tell the book; wait for an end | GraphQL, the event stream, callers | an end before its wait, between consumer and list, in a break of the feed | an end is never missed and told the same to all, no wait fails for the past | Arrivals |
| Inbox of an agent (`br-runner-jobs/src/adapter/inbox_port`, `book/inbox*`) | agents, listed and marked items, one snapshot, watchers | list in pages, wait, mark, send | the queue, GraphQL, the arrivals | two listings over one snapshot, marks that Jobs does not know yet, an item during a read | a listing is whole, a wait misses nothing | InboxPort |
| Command session (`runner_transport/outcomes`) | subscription, attempt, outcome | subscribe, publish, await, look again | the streams of jobs | a lost confirmation, a lost or late outcome, a resend that is stored again | the write is told what jobs decided | CommandSession |
| As tool, as node (`br-runner-as-tool`, `br-runner-as-node`, `br-runner-jobs/src/caller`) | the child job of a call | prepare, upload, create, follow, cancel, finish | queue, session, end waits | cancel racing the end of the child, a call that is over before its create is sent | never a cancel and a finish, no child left, every call ends | ChildCall |
| First kit (`br-jobs-runner-core`, `br-jobs-runner-kit`) | slot pool, cancel set, presence session, channel of facts | run loop | the bus | a trigger that comes again, a watch that ends, a drain timeout, a panic of a run | no more runs than slots, facts in order, orders reach runs, the loop ends | KitRunLoop |
| Other client operations, connection, GraphQL, wire, test doubles | none that outlives a call | conversions, I/O | | | left to unit tests | none |

How the modules fit together:

- the *queue* is modelled by itself in DeliveryQueue; RunLifecycle, ChildCall and
  InboxPort use it through what DeliveryQueue shows (writes end in order, once, and a
  write behind a removed one is removed), with the vocabulary of **QueueWrites**, which
  is the vocabulary of `write.rs` and `deps.rs`: the kinds of writes, the key under
  which the end of each is recorded, which keys it depends on, which errors are sent again;
- SlotLoop ends a Run in one step where RunLifecycle has the steps of it, and takes the
  mode as a stream of values, which RunnerBeats takes down to the bucket;
- ChildCall EXTENDS CommandSession: the queue of the call opens a session for each
  command that it sends, and the two are checked composed;
- InboxPort takes the arrival feed at what Arrivals shows: what is stored while the feed
  is up is rung, and what is unread is rung again when it is back, but for what the feed
  could not read: an event, an item, or the whole listing. ChildCall takes the
  end store at what Arrivals shows: it decides once, or fails.

## 2. Bounds, parts, and what a run is

A module has its constants; a `.cfg` gives them values. `MCDeliveryQueue`, `MCThreads` and
`MCInbox` join behaviours that do not touch one another in one run: a variable `part`,
chosen by `Init` and never changed, says which of them this behaviour is. That adds the
state spaces instead of multiplying them, and each part is a plain restriction of the
callers (which operations are called), never of the queue, the task, the bus or the faults;
the three scopes of the thread adapter also share out the faults, and the theorems about it
are for every scope.

Time is not modelled: a timeout or a pause may end at any moment after it began.
Symmetry is used in the two safety runs of the slot loop (slots and claims are
interchangeable there) and in `inbox` (so are the listings); no liveness is checked under
it.
`CHECK_DEADLOCK FALSE` is set where a system stops for good: a queue that is dropped, a
Run that is forgotten, a runner that returned, a call that ended, a bound that is used up.
The run loop of the first kit has an explicit `Done` step, and deadlock is checked there.

## 3. The delivery queue

**DeliveryQueue** models one queue. Every section of the code under the mutex of
`Shared` is one action; between two of them any other thread may run.

| Code | Model |
|---|---|
| `State` (`shared.rs`) | `fifo`, `newHeld`, `pending`, `ended`, `nextSeq`, `stopped`, `lastFailure` |
| `wake` (a `Notify`), `progress` (a watch) | a permit; a version that each `drained` has seen or not |
| `enqueue` and its early return for a blocked write | `HandOver`; `HandOverUnqueued` then `FinishUnqueued`, the two lock sections |
| `hold` | `Hold` with the gate of the marker, and a follow-up write that joins first |
| the loop of `task.rs` | `TakeNewHeld`, `TakeHead`, `SelectWake`, `SelectStop`, `GateStored`, `GateDropped` |
| `attempt`, the sender | `Send`, `AttemptDelivered`, `AttemptAgain`, `AttemptFinal`, `Resend` |
| `complete`, which reports before it commits | `Report`, `Commit`, `Notify` |
| `Drop` of the queue and of the task | `DropQueue`, `RuntimeStops`, `DropTask` |
| `drained` | `DrainedSubscribe`, `DrainedUpto`, `DrainedCheck`, `DrainedChanged` |

jobs is the environment: it takes a write or refuses it, and the answer may be lost
after it was taken. **WriteLedger** is what the queue promises, without a task: a
ledger of writes that are accepted in an order and end one at a time, each once, and
delivered only if jobs took them. `ImplementsLedger` is the refinement, with the ledger
instantiated over the variables of the queue.

Run `queue` (`MCDeliveryQueue`), in three parts: the upload and the create of a call
("order"); one of them and hand-overs that find a removal and are between their two lock
sections ("late"); a registration, and a read marker behind its gate with the finish of a
call, while a `drained` waits ("agent"). The task sends, retries and is dropped in all.

- `EntriesConserved`: an entry is in exactly one place, and none is lost.
- `SentInOrder`, `DependencyRespected`: a request leaves only when what joined before its
  write has ended, and never behind a removed dependency.
- `DrainedCovers`: `drained` returns only when what was handed over before it has ended.
- `ImplementsLedger`: the refinement; in particular each write ends once, with a result
  that jobs agrees with. Of "agrees" the ledger says two things: what ended as delivered was
  applied by jobs, and what ended behind a removed dependency was never requested. A write
  that ended as refused or failed may have been applied (its answer was lost), and the
  ledger allows it.
- `AllEnd`: after a drop every write ends whatever jobs does; if jobs answers, every write
  ends without a drop and a `drained` returns.

All but `AllEnd` are also proved (section 13).

Bounds: the first seq is 1 and `MaxWrites` = 3 lets two writes enter, one and the one that
depends on it or follows it, in every order; a third adds no pair of positions that two do
not have. `MaxLate` = 1: two hand-overs between their lock sections touch different keys or
the same one in some order, which one of them and the task do already.

## 4. The lifecycle of a Run

**RunLifecycle** follows one Run through `run::execute`: the queue is opened and the
started fact awaited (`OpenQueue`, `StartedDelivered`, `StartedRemoved`), the trigger
acknowledged, the prelude (`Prepare`, `ReadFails`, `MakeBook`, `StartRefused`,
`RunStarted`), the body (`ExecutorReturns`, `ExecutorRefuses`, `BodyPanics`), the
observations of the executor task, which may come late (`Created`, `LookAtPhase`,
`EventHandled`), the settling and the hooks, the end facts (`HandOverEnd`), the
closing task and its list, and the drain with its timeout (`DrainBegins` ...
`AbortRemove`). A lookup of an instance by another task is modelled step by step
(`LookupSubscribe`, `LookupCheck`, `LookupChanged`).

`execute` catches a panic and hands over a failed fact (`run/mod.rs:77`). The author's code
that runs under it is the prelude, the body (`BodyPanics`) and the making of the last writes,
which is over before the first of them is handed over (`PanicWrites`). The closing catches
too (`closing.rs:71`), but what it calls of the author's, the mapping of a failure, catches
its own panics (`failure.rs:129`): that arm is left out, and with it panics of the library
itself and of a destructor of the author's state after the end was handed over.

- Run `run`: `EndFacts` (which end facts a Run has sent when it is forgotten),
  `AckAfterStart`, `HookOnce` (a hook is never called twice, never missed by an instance
  reported late, and the end facts wait for the observations), `LookupWoken` (no wake-up
  of a lookup is lost, and a lookup forgets a Run that is over), `DrainTellsAll`, and
  `RunForgotten` (a Run is forgotten and a drain ends). It assumes that hooks return: a hook
  that waits for its own Run, or for the drain, is outside of it.
- Run `run_aborted` (a violation): a drain timeout between the two last steps of a
  closing reports a Run that ended as aborted.

The five invariants of the run `run` are also proved (section 13).

Bounds: one Run, because the registry and the lists are keyed by Run; one instance, which
is created before, during or after the return of the executor, so that both places that
call hooks meet it; hooks of two instances share no state but the phase. `run` gives the
Run by a trigger (`Sources`): a claim differs in that nothing is acknowledged, and
`run_aborted` has both.

## 5. The slot loop

**SlotLoop** has the slots of one runner, the two feeds, the registry and jobs. The
mode feed is `ModeEpoch` and `ModeSent` (the epoch is raised before the watch is
sent), the cancel feed is `FeedOpens`, `ReplayEntry`, `ReplayComplete`,
`ReplaySent`, `LiveEntry`, `FeedEnds`; a slot goes through `Top`, `Decide`,
`WaitEnds`, `Claim` and its answers, `TriggerRead`, `Register`, the start, and
`Closed`. `StopsAt` is the check of `stop_claims` and `ClaimsStop` its store. A slot may
panic anywhere (`SlotPanics`), which drops what it has in hand, and is made again by its
supervision after a beat (`Restarts`). A Run that it executed stays in
the registry then, in no hand; panics of the author's code do not come so far (section 4).
A panic of the task of a feed is seen as an end of the feed (`FeedEnds`).

- Run `slot_safe`: two slots and one Run that comes by every way. `OneHand` joins `NotTwice`
  (one slot at a time executes the Run), `ClaimKept` (a claim that jobs answered is not
  forgotten, but by a panic of the slot that had it: `panicked`) and `AckedStarted` (a
  trigger is acknowledged only after its started fact was answered): the three are one
  question, whether the Run is in one hand all the way. `WaiterWoken`: no wake-up of a
  waiting slot is lost.
- Run `slot_live`: one slot that may panic, two claims and one Run, which may be ordered to
  stop, with a cancel feed that ends once. `OrderHonoured` (an order that stays fires the
  token of a held Run), `SlotsEnd` (a drain ends a slot wherever it waits).
- Run `slot_refusal` (a violation): two slots between the check and the store of
  `stop_claims`.

`OneHand` and `WaiterWoken` are also proved (section 13).

Bounds: two mode values (`MaxEpoch`) in the safety run are a claim of an old value under a new one; two
changes of the orders (`MaxOrders`) are an order and its deletion; one end of the feed
(`MaxEnds`) is a replay over what was known; one panic (`MaxPanics`) falls at every place of
a slot, and the slot made again goes through all of them again. `slot_live` has a mode value
that lets a slot wait for triggers and one that lets it claim.

## 6. Presence and the feed of the mode

**RunnerBeats** is a runner from `start` to its return. The feed of the mode is taken down
to its bucket: `WatchPolled` starts the watch, and only then the entry is read (`Got`);
`Received` and `push` drop a value that was given already; `Told` gives it to the loop;
`WatchEnds`, `FeedBreaks`, `FeedPanics` end it and a beat starts it again. The presence is
`Publishes`, `PublicationEnds` and `Beat`, which drops a publication that is still running;
`PresencePanics` starts it again at once. The end is `DrainBegins`, `DrainReturns`, the
join of the aborted task (`PresenceJoined`), `DeleteSent`, `Returns`. Operations of one
connection reach a bucket in their order (`net`), and may be lost there.

Run `beats`: `ModeReaches` (a value that stays in the bucket reaches the loop, through the
window between watch and read, ends and panics of the feed, and publications that are
never answered), `DrainTold` (a runner that drains says so), `PresenceGone` (after a
delete that was answered, no publication reaches the bucket), which is also proved
(section 13).

Bounds: two changes of the entry put one change on each side of the read; one fault and one
lost operation fall at every step; two operations on their way are a publication that was
dropped and the next one, or the delete.

## 7. The thread adapter

**ThreadQueue** has one thread of the `ThreadAccessAdapter`. An operation holds the
order of the thread from its first to its last step (`op`): it decides under the
memory lock, appends to the store (`Append1`, or `AppendFails`), enqueues and keeps
what it has done (`Enqueue`), and goes on when it opens a turn first or queues
several deltas (`Continue`). The delivery task is `WorkerLooks`, `Delivered`,
`AttemptFails`, `Refused`, `EndItem`, `RemoveEnds`, `WorkerEnds`. A response is a
sink with `sent`, `done` and the failure it keeps. `wait` is one caller of `read`,
`entry_stored` or `instance_ended`, which subscribes, looks and parks. `DropBegins`,
`DropReports` and `WorkerAborted` are the drop; `Restart` ends the process anywhere
and builds a new adapter over the store.

What a behaviour may have is its `scope`, chosen from `Scopes` at first: the operations and
the waits that callers make, for which entries, how many items and restarts there is room
for, what Threads may answer, whether the store fails and whether the adapter is dropped. A
run takes a few small scopes; a theorem holds for every scope. `Restart` keeps the list of
the responses, all of them done: a response of the new adapter has a number of its own.

Abstractions: an item is a record of its kind, message, number, entry, seal and parent; the
content of a draft is the number of deltas it still lacks (1 or 2) and the choice whether a
delta applies; the wire is left out. The thread has no writer but this adapter. Threads may
refuse any item, also one that it took before (an outcome that was lost, then a second send:
`br-runner-threads/README.md:209`). An instance does not begin operations after
`instance_ended` was called for it; its sinks and keepalive tasks go on.

Run `threads` (`MCThreads`) has three scopes of it beside the stream handle: `TurnsOfOne` (an
AI turn with entries, annotations, keepalives and closings over a failing store, with the
drop and a restart), `ResponsesOfOne` (two responses of an entry, and an `instance_ended` at
any moment of it), `WaitsOfOne` (two input turns, every wait, attempts that are made again, a
restart). All five properties are also proved (section 13).

- `InOrder`: first in, first out, across resends and a restart.
- `NothingLost`: what was accepted and has not ended is in the store and in the queue.
- `SealWhole`: chunks have no gap, and the seal counts all of them.
- `ResponseEndsOnce`: whoever completes, discards, reopens or ends it.
- `WaitsTell`: a wait for an item is woken, an entry is told stored or not as it is, and
  `instance_ended` returns after the items of its agent.

Bounds: four items reach an opening, two chunks and a closing; three reach an opening,
the end of a response and a late delta of its sink; two sinks are a response and the
one that takes its place; one restart; one agent (operations of another agent differ
only in what `instance_ended` purges).

## 8. The stream handle

**ThreadStream** has one `Core` of `stream/shared.rs`: the chunks under the gate, the
broken flag and the closings. `push` takes the gate, judges and numbers; `sending`
says that the gate is held until the bus answers (`Published`) or the send fails or is
dropped (`PushBreaks`, the `BreakOnDrop` guard), after which the bus may still take
the chunk (`BusTakesLate`). `close_message` is judged, sealed and noted under the gate;
its outcome comes later (`ClosingConfirmed`, `ClosingUnsent`, `ClosingRefused`) or is
lost (`ClosingLost`, the guard), and Threads takes one closing of a message, which may
be a lost one (`ThreadsTakes`). A closing without the handle does not touch the handle
and is left out.

It is the part "stream" of the run `threads`, with three chunks and three closings (a
refused, a lost and a new one). `NoGap`: the bus has every chunk but perhaps the last.
`SealOnBus`: a seal counts only what the bus has. `LastWord`: no chunk follows a closing
that Threads took. All three are also proved (section 13).

## 9. Arrivals, end waits and the inbox

**Arrivals** follows the end of a child Job to the one who waits for it. Jobs stores a
notice and rings for it (`Stored`, `RungFor`, `RungAgain`); the arrival task makes its consumer
before it reads the unread items (`OpenConsumer`, `ReadGiven`, `OpenAgain`), gives what it
holds to the book (`Give`), takes events (`Pull`) and reads the item behind each run-level
one (`Resolve`); it ends with an error and opens again after a beat (`FeedEnds`, `Panics`,
`NextBeat`). The end store keeps the first outcome of a child and the generation of the
feed; a wait reads the generation and subscribes when it is made (`WaitMade`), looks and
sleeps (`Polled`, `WaitWoken`). `cut` and `blind` are history, read by the properties only.

**InboxPort** is the port of an agent: `AgentFor` and its registration in the queue,
listings in pages over the one snapshot of the agent (`ListAsked`, `ListRead`, `ListGiven`),
waits (`WaitAsked`, `Look`, `WaitRead`, `Woken`), `MarkRead`, `Send`, and the book that goes
away while a wait sleeps (`BookLeft`). A read is an await: it is asked, answered with what
Jobs holds then, and used later.

The two modules share no name, so that `MCInbox` and `InboxProofs` extend both. In
InboxPort, `due`, `out` and `behind` of a listing are history (`Begun`): what was unread and
what was marked when it began, and whether another listing had then read and not yet kept
what it read.

Run `inbox` (`MCInbox`), in two parts:

- `NoItemMissed`: a wait that sleeps with nothing to wake it misses no item, unless the feed
  could not read it after the last read of that wait: its event or the item did not decode,
  or the listing of the replay did not and the feed opened without it
  (`arrival/mod.rs:61`). Those items are the history `deaf`, which a read of the wait clears;
  what was stored before that read is never excused. `ItemStored` and `FeedBack` choose what
  is readable.
- `ListingWhole`: the pages of a listing ascend and leave no hole: what was unread when it
  began, up to the last item given, was given or was marked meanwhile, whatever another
  listing did with the snapshot. At its end all of it was given, unless another listing was
  behind. Nothing that was marked before it began is given.
- `NoLostWake`: no wait for an end sleeps with something to be told.
- `NotFailedForThePast`: a wait is failed only for a break of its own time, and all waits of
  a child are told the same outcome.
- `EndKnown`: an end that was stored and rung is in the book once the task has given all it
  holds.

Bounds: two listings have three items in pages of one. Fewer would not do: a listing that is
behind has a next page (two items) and lacks one that the other was to be given (the third).
What does not touch a listing is left out of that part (`PortNext`). A listing and a wait
have two items, a first page, a second page and an item that comes between. Two failures of
the feed are a break before a wait and one after it; a child with its end, a notice of it
that cannot be decoded and an event that cannot be decoded are the forms that change what is
told. The other forms (mail, an early or a foreign event) change nothing but what the
consumer skips.

## 10. A call of a child

**CommandSession** is the session of one command about a child: it subscribes, publishes,
awaits, and before a resend looks for the outcome of the earlier attempt (`Subscribe`,
`LookSilent`, `Publish`, `PublishUnconfirmed`, `Hear`, `HearFails`, `WaitFires`, `Missing`,
`Resend`); a wait may fire with the outcome on its way, and a confirmation may be lost. The
stream drops a resend by its message id while the window of the ids lasts; past it the
resend is a second copy (`Stored`), whether the first was handled or not. jobs handles each
copy: it tells again what it accepted, and judges again what it refused (`Decisions`,
`br-runner-jobs/README.md:270`), so that a refusal may be overturned by a later copy.

**ChildCall** puts one call over it: the tool in sync and background mode, and the node.
The payload is prepared, uploaded when it is kept, the child created; then the call waits
for an end, a removed create, its cancel, or the drop of its event source, and cancels or
finishes the child. The queue of the call keeps the order of its writes and may be dropped.

Run `calls`: `AnswersTrue` (a write is told what jobs decided; a refused write was not
accepted, and a call that is told of a refused create has no child, unless the stream took
the command more than once), `OneWord` (never a cancel and a finish, each once, a finish
only of a completed child), `ChildNotLeft` (a child of a cancelled call does not stay alive
unless a write was lost, or jobs accepted a later copy of a create whose refusal was heard),
`CallEnds`. The first two are also proved (section 13), for any number of faults and copies.

Bounds: one fault (`MaxFaults`) is a lost confirmation, a lost outcome or a failed read at
every step; waits that fire and resends are not bounded by it. Two copies (`MaxCopies`) that
wait at once are the first and one resend; more may follow when one was handled. All three
kinds and both forms are initial states.

## 11. The run loop of the first kit

**KitRunLoop** is `run_loop` as one task (`pc`), with the tasks of the runs and the
publisher beside it: `Poll` and the branches of the select (`Shutdown`, `DrainElapsed`,
`Join`, `Heartbeat`, the pull, `CancelEvent`), `accept_trigger` from its verdict to the
settlement (`TakeTrigger`, `PublishStarted`, `StartedFails`, `FinishDelivery`), the watch of
the cancel bucket with its end and its replay after a `Reset`, the code of a run (`Emit`,
`RunEnds`, `RunPanics`, `RunAborted`), the publisher with its attempts, and the end.
`RunContext` is `Clone` and holds a sender of the facts: when a task is over, other work of
its code may still hold one (`clones`, until `DetachedEnds`) and emit ("Late" facts). The
publisher ends, and `run_loop` returns, when no such sender is left (`PublisherEnded`).

Run `kit_loop`: `SlotsHold` (no more runs than slots, no run twice although its trigger comes
again, and a taken slot is accounted for), `BusTold` (the start of a run before its facts
and its end after them, no end lost in the loop, and the drain told and never taken back),
`CaughtUp` (once the feed has caught up, the runs whose order stands have their token
cancelled), `ShutdownReturns` (after a shutdown the loop ends and deletes its entry, and
returns once no code of a run holds a `RunContext`; with code that an abort does not stop,
`br-jobs-runner-kit/README.md:112`, or a clone that is kept, it waits for it in `Flush`, past
the time limit of the drain). The first three are also proved (section 13). Run
`kit_panics` is a violation (section 14). Where the code makes its checks one after the
other (`try_claim`, the verdict on a trigger, the next publication) the model has a chain
of IFs and no CASE, whose arms TLA+ may take in any order. Bounds: two
slots and two triggers are a free slot and a trigger that comes again; two attempts are one
that fails and one more; one order (for one of the runs, `Cancellable`), one clone and one
fault fall at every step. Three things lie beyond these bounds and are the theorems' to say:
with as many run ids as slots the count of the runs cannot exceed the slots, whatever the
code does (`RunsFitSlots`); one fault does not use up the attempts, so that no fact is given
up (`ToldTheBus`); one order is never followed by its deletion (`OrdersKnown`).

## 12. Fairness

Safety does not rest on fairness. The liveness properties assume:

- weak fairness of each task and of each operation that was begun: tokio polls a
  task that was woken, and the code never blocks a thread between awaits. In the loop of
  the first kit the select is not biased, so a branch that is ready again and again is taken
  (strong fairness of the shutdown and of the drain deadline);
- that an attempt ends: the code bounds each wait with a timeout. That a resend
  *succeeds* at last is an assumption on jobs (strong fairness of a final answer), stated
  only where a property needs it: as a premise in `AllEnd`, and in `Fairness` of ChildCall,
  whose attempts are made again without a limit. The code retries without a limit, so without
  it these writes wait for ever, as documented. Failures other than a wait that fires are
  bounded by a constant in every run. The waits of the thread adapter are checked as safety
  (a caller that sleeps with no change to see has nothing to return for), which needs no
  assumption on Threads;
- that the hooks and the body of a Run return (`RunForgotten`), and that the author's
  functions and the read of a result return (`CallEnds`: an end of the child that came is
  settled only by them);
- nothing of the runs of the first kit: they need not end, nor wait, so that the abort after
  the drain timeout need not stop them, nor let go of their clones (`ShutdownReturns`). It
  assumes only that a run that never waits leaves a thread of the runtime for the loop and
  the publisher;
- that the supervision makes a slot again that panicked (`SlotsEnd`, `OrderHonoured`);
- nothing about callers, cancel orders, drains, drops, restarts and panics: they may or may
  not come. Nothing makes a drain begin in RunnerBeats.

## 13. What is proved

Eight modules hold proofs, one per component, beside it (the arrivals and the inbox are in
one, and so are the thread adapter and the stream handle). Each theorem has the form
`Spec => []P`, or `Spec => P` for an action property and for the refinement
(`ImplementsLedger`), and holds for all values of the constants. What is assumed are the
named assumptions of the modules on their constants (`QueueAssumption`, `IdsAssumption`,
`LifecycleAssumption`, `LoopAssumption`, `BeatsAssumption`, `KindsAssumption`,
`FaultsAssumption`, `CapacityAssumption`, `BoundsAssumption`, `StreamAssumption`,
`ThreadAssumption`, `InboxAssumption`, `ArrivalsAssumption`), which TLC evaluates in the
runs; they say that bounds are numbers, that a name for "none" is none of the names, and the
like. No theorem uses fairness. Every proof goes the same way: an inductive invariant, a
lemma that it holds at first, lemmas that each step keeps it, and the property as a
consequence. The property alone is inductive nowhere; what the invariant adds is said here.

**DeliveryQueueProofs.** `TypeCorrect`, `Conservation` (`EntriesConserved`), `Lined`,
`Ordering` (`SentInOrder`), `DependenciesFirst` (`DependencyRespected`), `DrainedIsTrue`
(`DrainedCovers`), `QueueIsLedger` (`ImplementsLedger`).

- *Order.* `SentInOrder` says nothing of where the earlier writes are. `OrderInv` says that
  a pending write that has joined is in the fifo, or is the head, or is being completed,
  that ranks grow along the fifo and the head ranks below it, and that each entry is in one
  place. `JoinLine` and `LeaveLine` are the two facts about sequences: a join extends an
  ascending line above its last, a leave cuts it at its first.
- *Ends.* A write is blocked by what `ended` records for a key, and `ended` keeps the last
  result only, which a removal of another thread may overwrite late. `EndInv` adds that the
  line ends in its order until the task is dropped (`LineEnds`, `LeftOrDone`), that a
  recorded delivery is the result of the last write of the line with that key
  (`EndedTrue`: a late record is a removal, which blocks too much and never too little), and
  what the task knows between report, commit and notify (`TodoKept`).
- *Ledger.* The initial states map to initial states, and every action maps to one step of
  `WriteLedger` or leaves it alone: hand-overs accept and join, a send requests, jobs takes,
  the report ends. A report of a delivery is allowed since the completed entry was taken by
  jobs, and a second end is not possible since an entry leaves `pending` once.

**RunLifecycleProofs.** `LifeTypes`, `AcknowledgedInTime` (`AckAfterStart`), `EndIsWhole`
(`EndFacts`), `HooksCalledOnce` (`HookOnce`), `LookupsWoken` (`LookupWoken`),
`ReportIsWhole` (`DrainTellsAll`), for every set of instances and lookups. `PlacesKept`
carries the most: which steps of the slot, the closing and the drain can be together, and
when both references of the queue are held. On it rest

- the end: the failed fact is handed over alone, or after a completed fact that was removed
  for one of its parts, and a write is left unsent only when nobody holds the queue
  (`ResultsKept`), so a closing that drained has told all (`EndKept`);
- the hooks: an instance that has no hook call yet although the phase is past `Live` is
  being reported, or is before the slot or the drain (`HooksKept`); observations that are
  over leave the observer idle, so nobody comes after the last look;
- the lookup: an instance is inserted only before the phase `Dropped` or `Aborted`, which
  is set before the Run is removed from the table (`ByIdKept`);
- the report: from the moment the drain forgets what is left, `unsent` covers every write
  of the end that waits or was left (`DrainKept`).

**SlotLoopProofs.** `LoopTypes`, `NeverTwice` (`OneHand`), `NoWakeLost` (`WaiterWoken`),
for every set of slots, Runs, claims and modes. `LoopInv` says which fields go with the
place of a slot (`SlotOK`), that a Run in hand is registered, not in its closing and in one
hand (`HandKept`: the registry is what refuses the second slot), that a claim with a Run is
asked or held (`ClaimsKept`), and that a view with no change since is the state of the loop
(`WakeOK`), so that a slot that sleeps decided on what is still true.

**KitRunLoopProofs.** `RunsFitSlots` (`SlotsHold`), `ToldTheBus` (`BusTold`), `OrdersKnown`
(`CaughtUp`), for every number of slots and Runs. `SlotsKept` says that a taken slot has one
holder: the trigger in hand or one task. `FactsKept` follows a fact from the task through
the channel to the stream: nothing of a task but what its clones emit late follows its end
in any of the three, and the end of a task that returned is in one of them. `PresenceKept`
ties the entry to the phase of the drain while nothing failed. `OrdersKept` says that the
last entry on its way for a run is what the bucket says of it, and that the cancel set is
where none is on its way: this survives a replay, which repeats what is known.

**ChildCallProofs.** `ToldTheTruth` (`AnswersTrue`), `SaidOnce` (`OneWord`), for every kind
of call and any number of faults and copies. `LineKept` enumerates the few lines of writes
that a call can have handed over at each of its places. `SessionKept` says that the session
is the one of the first write with no end, that a command reached the bus in its own session
only, and that what the session holds is a decision of jobs, so a write never takes the
answer of another. `CompletedKept` says that a child that was seen completed stays so or is
finished.

**RunnerBeatsProofs.** `NotSeenAgain` (`PresenceGone`), for any number of operations on
their way. `GoneInv` says that the task of the presence has ended before the delete is sent
(`Silent`), that the delete is the last operation on its way (`DeleteLast`), and that an
answered one left nothing behind it (`NothingAfter`).

**ThreadProofs.** Of the adapter `QueueInvariant`, `NothingIsLost` (`NothingLost`),
`ItemsInOrder` (`InOrder`), `SealsAreWhole` (`SealWhole`), `ResponsesEndOnce`
(`ResponseEndsOnce`) and `WaitsAreTold` (`WaitsTell`), for any turns, inputs, entries and
agents, any bounds and every scope; of the stream handle `StreamTypes`, `ChunksWhole`
(`NoGap`), `Sealed` (`SealOnBus`) and `ClosingLast` (`LastWord`), for every set of closings
and every number of chunks.

- *The line.* `NothingLost` does not say why the delivery task takes the right item next.
  `LineInv` says that the numbers ascend in the store and in the queue, and that an item that
  has not ended and is not in the queue was made after all that is there and after
  `last_no`: it is the one on its way between the store and the queue (`FlightInv`).
  `WorkerInv` says that an attempt is at the head of the queue and that what is being removed
  from the store has ended. So the store holds what has not ended whenever a restart comes,
  and whatever was made before the head has ended, which is `InOrder`. After a restart the
  queue may hold items that had ended (the removal failed): the line allows it.
- *Turns.* `SealWhole` counts items, and the code counts what it remembers. `TurnInv` says
  that an open turn remembers as many chunks as were kept for it, none after a closing, and
  that a turn with nothing in memory has no items or a writer that is gone; `OpInv` says that
  the item of an operation fits that memory (its number is the next one, its seal counts
  all) from the decision to the moment when the memory takes it, the item being in the store
  and not in memory between the two steps (`Landed`).
- *Responses.* `SinkInv` says that a response whose end was kept is done; an operation whose
  item is on its way has a response that is not.
- *Waits.* `WaitInv` follows an `instance_ended`: what was accepted before its call was
  queued at or before its target, and has ended when it may purge; `UpToLast` says that an
  item up to `last_no` has ended or is in the queue. `EndedFirst` says that without a restart
  what has ended was made before all that waits, which makes the set of dropped entries tell
  the fate of the last item of an entry (`EntryTold`).
- *The handle.* `StreamInv` adds that a held gate means a whole handle (`GateHeld`), that a
  free gate on a whole handle means that the bus has every chunk (`AllOnBus`: so a new chunk
  leaves no gap behind it, and a seal counts chunks that arrived), and that a closing that is
  waiting, lost or confirmed was made after the last chunk (`NoChunkSince`: a chunk passes
  `judge_chunk` only when every closing was refused, and Threads takes none of those).

**InboxProofs.** Of the inbox port `WaitsMissNothing` (`NoItemMissed`) and
`ListingsAreWhole` (`ListingWhole`), for any number of items, listings and waits and any
page size; of the arrivals `WakesAreNotLost` (`NoLostWake`), `ToldOfItsTime`
(`NotFailedForThePast`) and `EndsAreKnown` (`EndKnown`), for any items, children and waits
and any number of breaks.

- *Waits.* `Seen` says that a wait that sleeps, or has its answer and is about to look at it,
  with no wake stored, has seen every unmarked item but those still to be rung for: the
  watch is subscribed before the read, so what was rung since is a wake. `Registered` says
  that nobody is past the look at the registration while it is queued.
- *Listings.* `ListingWhole` says nothing of the snapshot. `Lists` says that every list that
  Jobs gave ascends, and that below its last item it lacks only marked ones (`Sound`), so a
  page cut from an old list has no hole; `Pages` says what was given up to the cursor and
  what the page under way adds to it (`Given`, `Paged`); `Newer` says that the lists that the
  next pages can be cut from hold all that is due, unless another listing is behind. The
  proof did not go through without that exception, and TLC then showed why with three items
  (section 15).
- *End waits.* `NoLostWake` is kept as it stands with the types: whatever makes a look into
  the store decide also signals. `CutKept` ties the generation that a wait remembers to the
  breaks of its own time, `ToldKept` says that the outcome of a child is set once, and of
  that child, and that what a wait was told is that outcome.
- *Ends.* `WayKept` says where an end that was stored and rung for is, from the answer of the
  list on: it is in the store of the book, in the bell, being resolved, or in the buffer. An
  end that was rung before the consumer was made is in the list, since the consumer is made
  before the list is read.

A page, a replay and a marked item leave lists through `FlattenSeq`, a fold. What it joins
is proved here from its definition by an induction on the numbers that needs no operator as
a parameter: the least number with no such prefix (`Least`, `Numbers`, `Flattened`).

Only model-checked:

- all liveness, since fairness and `ENABLED` are outside the prover's reach: `AllEnd`,
  `RunForgotten`, `SlotsEnd`, `OrderHonoured`, `ModeReaches`, `DrainTold`, `ChildNotLeft`,
  `CallEnds`, `ShutdownReturns`.

No module declares a recursive operator. `TypeOK` is proved for the queue, the lifecycle,
the slot loop, the thread adapter, the stream handle, the inbox port and the arrivals; the
proofs of the calls, the first kit and the presence carry the types that they need in their
own invariant (`CallTypes`, `KitTypes`, `BeatTypes`).

## 14. Disagreements that a run shows

- `run_aborted`: `closing::run` leaves `Closings` before it leaves the registry; a drain
  timeout between the two aborts and reports a Run that ended
  (`br-runner-toolkit/src/run/closing.rs:76`).
- `slot_refusal`: `stop_claims` compares the epoch and stores it in two steps, so the late
  store of an older epoch overwrites the stop of the current one
  (`br-runner-toolkit/src/shared.rs:174`).
- `kit_panics`: a run whose code panics keeps its slot, so a runner with as many panics as
  slots is alive and idle, which the README of the kit excludes
  (`br-jobs-runner-kit/src/run_loop.rs:121`).

## 15. Disagreements met without a run

Five more places were met where the code does not do what a README says. They follow from
reading the code and the counterexamples are short, but no run shows them:

- `br-runner-jobs/src/adapter/inbox_port/listing.rs:98`: the listings of an agent share one
  snapshot, and a listing keeps what it read after its page was converted, whatever was kept
  meanwhile. Another listing that began in between, with an item that the older read lacks,
  then takes its next page from the older one and ends without the item ("Listing gives every
  unread item of the address of the agent", `br-runner-jobs/README.md:240`). The next listing
  gives it. `ListingWhole` has the case as its exception (`behind`); without the exception it
  fails in twelve states with two listings, three items and pages of one.

- `br-runner-toolkit/src/run/prelude.rs:95`: a refusal of the run start function sends a
  failed fact although the cancel order had come ("A Run that was cancelled ends with no
  completed and no failed fact", `br-runner-toolkit/README.md:153`).
- `br-runner-threads/src/adapter/ops/read.rs:27`: `read` sets the tip from an answer that
  may be older than a message queued meanwhile, which is then passed over as a parent
  ("takes the tip of that thread as its parent message, then becomes the tip",
  `br-runner-threads/README.md:180`). It is the one hazard without a property: the property
  would be false.
- `br-runner-threads/src/adapter/mod.rs:123`: an item whose end is under way when the
  adapter is dropped is reported as `Unsent` and then leaves the store ("the items stay
  in the store", `README.md:186`).
- `br-runner-threads/src/adapter/mod.rs:76`: the refusals are in memory only, so after a
  restart the later items of a refused opening are sent ("drops the later items of its
  message unsent", `README.md:182`).

## 16. What could be proved next

Every safety property of a passing run is stated by a theorem. What is left is the
composition: RunLifecycle, ChildCall and InboxPort take the delivery queue, and ChildCall and
InboxPort the arrivals, at what the theorems of those modules say; a refinement from each of
them to the module it uses would replace that reading by a proof. The abstract specification
to go through exists for the queue (`WriteLedger`, `QueueIsLedger`), not for the arrivals.

## 17. Not modelled, and why

- The GraphQL documents and the data model of jobs (`graphql`, `model`, `reason`), the wire
  and the encodings: stateless conversions, which unit tests cover by their cases.
- The other operations of the thread client: one command or one read each, with the
  outcomes that ThreadQueue and ThreadStream meet; the chunk lane of the client (`lane.rs`)
  repeats the sink that ThreadQueue has over the lane of the adapter.
- Connecting, credentials and TLS: I/O.
- The test doubles, the examples and the `local` host: test and development support.
- The executor, the graphs, the hooks' and functions' own work: the environment. Settings
  and plans are data.
- Backoff durations of the first kit: of them only that an attempt comes again.
- Texts for the author, reports and logs: no property is about them.
