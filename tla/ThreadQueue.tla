---------------------------- MODULE ThreadQueue ----------------------------
(***************************************************************************)
(* The queue of one thread of the ThreadAccessAdapter of br-runner-threads:*)
(* the operations of the port, which take their place on the thread one at *)
(* a time (adapter/ops), the acceptance of an item (store, then queue), the*)
(* delivery task (adapter/deliver.rs), the keepalives, the responses and   *)
(* their sinks (response/), the waits of read, entry_stored and            *)
(* instance_ended, the drop of the adapter, and a restart over the store.  *)
(* Threads and the bus are the environment of the delivery task.           *)
(***************************************************************************)
EXTENDS Integers, Sequences, FiniteSets, SequencesExt

CONSTANTS Turns,      \* the messages of AI turns
          Inputs,     \* the whole messages of input turns
          Entries,    \* entries; an input turn holds the entry EntryOf[n]
          Agents, AgentOf, EntryOf,
          Scopes,     \* bound: what a behaviour may have, see Scope
          MaxItems,   \* bound on the items kept
          MaxSinks,   \* bound on the responses opened
          NoMessage, NoEntry, NoAgent

Jobs == {"input", "entry", "result", "annotation", "keepalive", "close",
         "open", "discard", "complete", "send"}

\* The operations and the waits that callers make, and for which entries; the items that
\* there is room for and the restarts; what Threads may answer; whether the adapter is
\* dropped and whether the store fails.
Scope == [jobs : SUBSET Jobs, waits : SUBSET {"entry", "read", "ended"}, entries : SUBSET Entries,
          items : Nat, crashes : Nat, answers : SUBSET {"taken", "again", "refused"},
          drops : BOOLEAN, fails : BOOLEAN]

ASSUME ThreadAssumption ==
  /\ MaxItems \in Nat /\ MaxSinks \in Nat /\ Scopes \subseteq Scope
  /\ AgentOf \in [Turns \cup Inputs -> Agents] /\ EntryOf \in [Inputs -> Entries]
  /\ Turns \cap Inputs = {} /\ NoMessage \notin Turns \cup Inputs /\ NoEntry \notin Entries

Ids == 1..MaxItems
NoSeal == 0

VARIABLES
  items,   \* every item kept so far, by its number: kind, message, number, entry, seal, parent
  store,   \* the QueueStore: item numbers, in the order of append
  queue,   \* QueueInner: items, dropped entries, last_failure, worker_running, last_no
  turns,   \* Mem::turns: per message its state, its chunks, its entries, its keepalive task
  held,    \* Mem::responses: the open response of an entry
  sinks,   \* the responses opened: entry, turn, sent, done and the kept failure
  tip,     \* Mem::tip
  refused, broken, \* the messages whose opening, or one of whose chunks, was refused
  stopped, \* whether the adapter is stopped, and whether its drop has reported
  worker,  \* the delivery task: where it is and how its item ends
  op,      \* the operation that holds the order of the thread
  wait,    \* a caller of read, entry_stored or instance_ended
  scope,   \* what this behaviour may have
  past     \* history: items taken, their ends, reported Unsent, turns given up, agents ended

vars == <<items, store, queue, turns, held, sinks, tip, refused, broken, stopped, worker, op, wait, scope, past>>
memVars == <<turns, held, sinks, tip>>
flagVars == <<refused, broken, stopped, scope>>

NoItem == [kind |-> "none", message |-> NoMessage, seq |-> 0, entry |-> NoEntry, body |-> "turn",
           seal |-> NoSeal, parent |-> NoMessage, sink |-> 0]
NoTurn == [at |-> "none", chunks |-> <<>>, entries |-> {}, keepalive |-> FALSE]
NoOp == [at |-> "none", job |-> "none", turn |-> NoMessage, entry |-> NoEntry,
         sink |-> 0, left |-> 0, item |-> NoItem]
NoWait == [at |-> "none", what |-> "none", entry |-> NoEntry, agent |-> NoAgent,
           target |-> 0, since |-> 0, holds |-> FALSE, fresh |-> FALSE, tip |-> NoMessage]
EmptyQueue == [ids |-> <<>>, dropped |-> {}, failure |-> 0, running |-> FALSE, last |-> 0]

Init ==
  /\ items = <<>> /\ store = <<>> /\ queue = EmptyQueue
  /\ turns = [t \in Turns |-> NoTurn]
  /\ held = [e \in Entries |-> 0] /\ sinks = <<>> /\ tip = NoMessage
  /\ refused = {} /\ broken = {} /\ stopped = [is |-> FALSE, told |-> FALSE]
  /\ worker = [at |-> "idle", how |-> "delivered", item |-> 0]
  /\ op = NoOp /\ wait = NoWait /\ scope \in Scopes
  /\ past = [taken |-> {}, end |-> [i \in Ids |-> "none"], unsent |-> {},
             gone |-> {}, ended |-> {}, crashes |-> 0]

Kinds == {"WholeMessage", "Opening", "Chunk", "Closing"}
Message(i) == items[i].message
IsMessage(i) == items[i].kind \in {"WholeMessage", "Opening"}

-----------------------------------------------------------------------------
(* The items that operations make                                          *)

Item(kind, message, seq, entry, body, seal, parent, sink) ==
  [kind |-> kind, message |-> message, seq |-> seq, entry |-> entry, body |-> body,
   seal |-> seal, parent |-> parent, sink |-> sink]

whole_item(n) == Item("WholeMessage", n, 0, EntryOf[n], "turn", NoSeal, tip, 0)
opening_item(t) == Item("Opening", t, 0, NoEntry, "turn", NoSeal, tip, 0)
chunk_item(t, e, body, s) ==
  Item("Chunk", t, Len(turns[t].chunks), e, body, NoSeal, NoMessage, s)
closing_item(t, seal) == Item("Closing", t, 0, NoEntry, "turn", seal, NoMessage, 0)

carries_content(t) == \E k \in DOMAIN turns[t].chunks : turns[t].chunks[k] # "keepalive"

-----------------------------------------------------------------------------
(* An operation holds the order of the thread from its first step to its   *)
(* end.  Decide is what it does when it has the order, and again after the *)
(* opening of its turn or after a delta was queued.                        *)

Ends == op' = NoOp
\* accept: nothing is kept once the adapter is stopped.
Accepts(o, item) ==
  /\ op' = [o EXCEPT !.at = IF stopped.is THEN "stopped" ELSE "append", !.item = item]
  /\ UNCHANGED <<items, store, queue, wait, worker, past, memVars, flagVars>>
Fails == Ends /\ UNCHANGED <<items, store, queue, wait, worker, past, memVars, flagVars>>

\* The failure that a response keeps: the first one stays.
Kept(all, s, error) == [all EXCEPT ![s].kept = IF @ = "none" THEN error ELSE @]
Keeps(s, error) ==
  /\ sinks' = IF s = 0 THEN sinks ELSE Kept(sinks, s, error)
  /\ UNCHANGED <<items, store, queue, wait, worker, past, turns, held, tip, flagVars>>

\* ensure_turn, for an operation that may open its turn.
NeedsTurn(o) == o.job \in {"entry", "result", "open", "complete"}
OpensTurn(o) ==
  /\ NeedsTurn(o) /\ turns[o.turn].at = "none"
  /\ Accepts(o, opening_item(o.turn))
TurnIsClosed(o) ==
  /\ NeedsTurn(o) /\ turns[o.turn].at = "closed"
  /\ Fails
HasTurn(o) == turns[o.turn].at = "open"

AddInput(o) == o.job = "input" /\ Accepts(o, whole_item(o.turn))

AddEntry(o) == o.job = "entry" /\ HasTurn(o) /\ Accepts(o, chunk_item(o.turn, o.entry, "entry", 0))

OpenResult(o) == o.job = "result" /\ HasTurn(o) /\ Fails

AddAnnotation(o) ==
  /\ o.job = "annotation"
  /\ IF HasTurn(o) /\ o.entry \in turns[o.turn].entries
     THEN Accepts(o, chunk_item(o.turn, NoEntry, "annotation", 0)) ELSE Fails

KeepaliveDue(t) == turns[t].at = "open" /\ queue.ids = <<>> /\ t \notin refused
QueueKeepalive(o) ==
  /\ o.job = "keepalive"
  /\ IF KeepaliveDue(o.turn) THEN Accepts(o, chunk_item(o.turn, NoEntry, "keepalive", 0)) ELSE Fails

Completed(o) == o.left = 1
\* Mutant: the seal of a closing leaves out the chunks of a keepalive.
SealsContent(o) == Cardinality({k \in DOMAIN turns[o.turn].chunks : turns[o.turn].chunks[k] # "keepalive"})
SealOf(o) == Len(turns[o.turn].chunks)
CloseTurn(o) ==
  /\ o.job = "close"
  /\ IF turns[o.turn].at = "closed" \/ (Completed(o) /\ ~carries_content(o.turn)) THEN Fails
     ELSE Accepts(o, closing_item(o.turn,
            IF carries_content(o.turn) /\ (Completed(o) \/ o.turn \notin broken)
            THEN SealOf(o) ELSE NoSeal))

-----------------------------------------------------------------------------
(* The responses of entries and their sinks                                *)

Ended(s) == [sinks EXCEPT ![s].done = TRUE]
\* ResponseControl::discard sends the delta that ends the response as interrupted.
Interrupts(s) ==
  /\ ~sinks[s].done /\ sinks[s].sent /\ sinks[s].kept \notin {"Broken", "Closed"}

\* A new response takes the place of the earlier one, which has ended.
NewSink(o, before) ==
  /\ Len(before) < MaxSinks
  /\ sinks' = Append(before, [entry |-> o.entry, turn |-> o.turn, sent |-> FALSE, done |-> FALSE, kept |-> "none"])
  /\ held' = [held EXCEPT ![o.entry] = Len(before) + 1]
  /\ Ends /\ UNCHANGED <<items, store, queue, wait, worker, past, turns, tip, flagVars>>

OpenResponse(o) ==
  /\ o.job = "open" /\ HasTurn(o) /\ Len(sinks) < MaxSinks
  /\ LET s == held[o.entry] IN
     IF s = 0 THEN NewSink(o, sinks)
     ELSE IF ~Interrupts(s) THEN NewSink(o, Ended(s))
     ELSE IF turns[sinks[s].turn].at # "open" THEN NewSink(o, Kept(Ended(s), s, "Closed"))
     ELSE Accepts([o EXCEPT !.sink = s], chunk_item(sinks[s].turn, o.entry, "end", s))

DropsResponse(o, after) ==
  /\ sinks' = after
  /\ held' = [held EXCEPT ![o.entry] = 0]
  /\ Ends /\ UNCHANGED <<items, store, queue, wait, worker, past, turns, tip, flagVars>>

DiscardResponse(o) ==
  /\ o.job = "discard"
  /\ LET s == held[o.entry] IN
     IF s = 0 THEN Fails
     ELSE IF ~Interrupts(s) THEN DropsResponse(o, Ended(s))
     ELSE IF turns[sinks[s].turn].at # "open" THEN DropsResponse(o, Kept(Ended(s), s, "Closed"))
     ELSE Accepts([o EXCEPT !.sink = s], chunk_item(sinks[s].turn, o.entry, "end", s))

\* complete: the deltas that the draft lacks (o.left of them), the last one ends the
\* response. The response may not be reachable from what was sent: nothing is queued.
CompleteResponse(o) ==
  /\ o.job = "complete" /\ HasTurn(o)
  /\ LET s == held[o.entry]
         t == IF s = 0 THEN o.turn ELSE sinks[s].turn
         body == IF o.left = 1 THEN "end" ELSE "delta" IN
     \/ o.at # "more" /\ Fails
     \/ /\ s # 0 => ~sinks[s].done /\ sinks[s].kept \in {"none", "Library"}
        /\ turns[t].at # "open" /\ Ends /\ Keeps(s, "Closed")
     \/ /\ s # 0 => ~sinks[s].done /\ sinks[s].kept \in {"none", "Library"}
        /\ turns[t].at = "open"
        /\ Accepts([o EXCEPT !.sink = s], chunk_item(t, o.entry, body, s))

\* The sink of a response sends a delta: nothing once the response has ended or failed.
\* A completion is checked and not sent; a delta that does not apply is kept as a failure.
SinkSends(o) ==
  /\ o.job = "send"
  /\ LET s == o.sink IN
     \/ (sinks[s].done \/ sinks[s].kept # "none") /\ Fails
     \/ /\ ~sinks[s].done /\ sinks[s].kept = "none"
        /\ \/ Fails
           \/ Ends /\ Keeps(s, "Library")
           \/ turns[sinks[s].turn].at # "open" /\ Ends /\ Keeps(s, "Closed")
           \/ turns[sinks[s].turn].at = "open"
              /\ Accepts(o, chunk_item(sinks[s].turn, sinks[s].entry, "delta", s))

Decide(o) ==
  \/ OpensTurn(o) \/ TurnIsClosed(o) \/ AddInput(o) \/ AddEntry(o) \/ OpenResult(o)
  \/ AddAnnotation(o) \/ QueueKeepalive(o) \/ CloseTurn(o)
  \/ OpenResponse(o) \/ DiscardResponse(o) \/ CompleteResponse(o) \/ SinkSends(o)

-----------------------------------------------------------------------------
(* The calls. A turn is written by the instance that began it, while it    *)
(* lives; any turn can be closed. A message is queued once.                *)

\* The bounds: room for the items that the operation can make, and for a response.
Room(job, t, left) ==
  /\ Len(items) + (IF job \in {"entry", "result", "open", "complete"} /\ turns[t].at = "none" THEN 1 ELSE 0)
       + (IF job = "complete" THEN left ELSE IF job = "result" THEN 0 ELSE 1) <= scope.items
  /\ job = "open" => Len(sinks) < MaxSinks

Call(job, t, e, left) ==
  /\ op.at = "none" /\ job \in scope.jobs /\ ~stopped.is /\ Room(job, t, left)
  /\ Decide([NoOp EXCEPT !.job = job, !.turn = t, !.entry = e, !.left = left])

\* How many deltas the draft of a response still lacks, the completion included.
whole_response_deltas == 1..2

InputCall(n) == (\A i \in DOMAIN items : items[i].message # n) /\ Call("input", n, NoEntry, 0)
TurnCall(t, e) ==
  /\ t \notin past.gone /\ e \in scope.entries
  /\ \/ \E job \in {"entry", "annotation", "open", "discard"} : Call(job, t, e, 0)
     \/ \E left \in whole_response_deltas : Call("complete", t, e, left)
ResultCall(t) == t \notin past.gone /\ Call("result", t, NoEntry, 0)
CloseCall(t) == \E kind \in 0..1 : Call("close", t, NoEntry, kind)
KeepaliveCall(t) == turns[t].keepalive /\ Call("keepalive", t, NoEntry, 0)
SendCall(s) ==
  /\ op.at = "none" /\ "send" \in scope.jobs /\ Len(items) < scope.items
  /\ Decide([NoOp EXCEPT !.job = "send", !.sink = s])

-----------------------------------------------------------------------------
(* accept: the store, then the queue                                       *)

\* The append, or the stopped adapter, ends the acceptance with a Store error.
AppendFails ==
  /\ op.at = "stopped" \/ (op.at = "append" /\ scope.fails)
  /\ Ends
  /\ IF op.job \in {"open", "discard", "complete", "send"} /\ op.item.kind = "Chunk"
     THEN Keeps(op.sink, "Store")
     ELSE UNCHANGED <<items, store, queue, wait, worker, past, memVars, flagVars>>

Append1 ==
  /\ op.at = "append" /\ Len(items) < MaxItems
  /\ items' = Append(items, op.item)
  /\ store' = Append(store, Len(items) + 1)
  /\ op' = [op EXCEPT !.at = "enqueue"]
  /\ past' = [past EXCEPT !.end[Len(items) + 1] = "kept"]
  /\ UNCHANGED <<queue, wait, worker, memVars, flagVars>>

Bumped(w) == IF w.at = "none" THEN w ELSE [w EXCEPT !.fresh = TRUE]

\* Mutant: the item goes before the ones that wait.
PushedFront(ids, i) == <<i>> \o ids
PushedBack(ids, i) == Append(ids, i)

Enqueued(i) ==
  IF stopped.is
  THEN /\ past' = [past EXCEPT !.unsent = @ \cup {i}]
       /\ UNCHANGED <<queue, worker, wait>>
  ELSE /\ queue' = [queue EXCEPT !.ids = PushedBack(@, i), !.dropped = @ \ {items[i].entry},
                                 !.last = i, !.running = TRUE]
       /\ worker' = IF queue.running THEN worker ELSE [worker EXCEPT !.at = "look"]
       /\ wait' = Bumped(wait)
       /\ UNCHANGED past

\* What the operation keeps in memory once its item is accepted.
ClosedAfter(m) == [turns EXCEPT ![m].at = "closed", ![m].keepalive = FALSE]
ChunkPushed(item) ==
  [turns EXCEPT ![item.message].chunks = Append(@, item.body),
                ![item.message].entries = @ \cup ({item.entry} \ {NoEntry})]
NewTurn(alive) == [at |-> "open", chunks |-> <<>>, entries |-> {}, keepalive |-> alive]
TurnsAfter(item) ==
  CASE item.kind = "Opening" -> [turns EXCEPT ![item.message] = NewTurn(~stopped.is)]
    [] item.kind = "Chunk"   -> ChunkPushed(item)
    [] item.kind = "Closing" -> ClosedAfter(item.message)
    [] OTHER                 -> turns

\* Mutant: the end of a response by an interruption or a completion is not noted.
StaysUndone(s) == sinks
SentDelta(s) == [sinks EXCEPT ![s].sent = TRUE]
DoneBy(s) == Ended(s)

\* The rest of the operation.
Continues ==
  LET item == op.item
      s == op.sink IN
  IF item.kind = "Opening" \/ (op.job = "complete" /\ op.left > 1)
  THEN /\ op' = IF item.kind = "Opening" THEN [op EXCEPT !.at = "ready", !.item = NoItem]
                ELSE [op EXCEPT !.at = "more", !.item = NoItem, !.left = @ - 1]
       /\ sinks' = IF item.kind = "Chunk" /\ s # 0 THEN SentDelta(s) ELSE sinks
       /\ UNCHANGED held
  ELSE /\ op' = IF op.job = "open" THEN [op EXCEPT !.at = "ready", !.item = NoItem, !.sink = 0] ELSE NoOp
       /\ sinks' = IF s = 0 THEN sinks ELSE IF op.job = "send" THEN SentDelta(s) ELSE DoneBy(s)
       /\ held' = IF op.job \in {"complete", "discard"} THEN [held EXCEPT ![op.entry] = 0] ELSE held

Enqueue ==
  /\ op.at = "enqueue"
  /\ Enqueued(Len(items))
  /\ turns' = TurnsAfter(op.item)
  /\ tip' = IF op.item.kind \in {"WholeMessage", "Opening"} THEN op.item.message ELSE tip
  /\ Continues
  /\ UNCHANGED <<items, store, flagVars>>

Continue ==
  /\ op.at \in {"ready", "more"}
  /\ Decide(op)

-----------------------------------------------------------------------------
(* The delivery task                                                       *)

H == worker.item
Step(at) == worker' = [worker EXCEPT !.at = at]
Ending(how) == worker' = [worker EXCEPT !.at = "ending", !.how = how]

WorkerEnds ==
  /\ worker.at = "look" /\ queue.ids = <<>>
  /\ Step("idle")
  /\ queue' = [queue EXCEPT !.running = FALSE]
  /\ UNCHANGED <<items, store, op, wait, past, memVars, flagVars>>

IsRefused(i) == items[i].kind # "Opening" /\ Message(i) \in refused
WorkerLooks ==
  /\ worker.at = "look" /\ queue.ids # <<>>
  /\ LET h == Head(queue.ids) IN
     worker' = [at |-> IF IsRefused(h) THEN "ending" ELSE "trying", how |-> "unsent", item |-> h]
  /\ UNCHANGED <<items, store, queue, op, wait, past, memVars, flagVars>>

Delivered ==
  /\ worker.at = "trying" /\ "taken" \in scope.answers
  /\ Ending("delivered")
  /\ past' = [past EXCEPT !.taken = @ \cup {H}]
  /\ UNCHANGED <<items, store, queue, op, wait, memVars, flagVars>>

\* An attempt that is made again: the item may have been taken.
AttemptFails ==
  /\ worker.at = "trying" /\ "again" \in scope.answers
  /\ Step("pause")
  /\ queue' = [queue EXCEPT !.failure = H]
  /\ \E took \in BOOLEAN : past' = IF took THEN [past EXCEPT !.taken = @ \cup {H}] ELSE past
  /\ UNCHANGED <<items, store, op, wait, memVars, flagVars>>

PauseEnds ==
  /\ worker.at = "pause"
  /\ Step("look")
  /\ UNCHANGED <<items, store, queue, op, wait, past, memVars, flagVars>>

\* Any other error is final, also for an item that Threads took before, whose outcome was
\* lost.  (The live backend answers a chunk with no other error than the one that is
\* retried.)
Refused ==
  /\ worker.at = "trying" /\ "refused" \in scope.answers
  /\ Ending("refused")
  /\ refused' = IF items[H].kind = "Opening" THEN refused \cup {Message(H)} ELSE refused
  /\ UNCHANGED <<items, store, queue, op, wait, past, memVars, broken, stopped, scope>>

\* Mutant: the waiting callers are not told of the end of an item.
NotBumped(w) == w
BumpedAtEnd(w) == Bumped(w)

DroppedBy(how) == IF how = "delivered" THEN queue.dropped ELSE queue.dropped \cup ({items[H].entry} \ {NoEntry})

EndItem ==
  /\ worker.at = "ending"
  /\ broken' = IF items[H].kind = "Chunk" /\ worker.how # "delivered" THEN broken \cup {Message(H)} ELSE broken
  /\ queue' = [queue EXCEPT !.ids = Tail(@), !.failure = 0, !.dropped = DroppedBy(worker.how)]
  /\ past' = [past EXCEPT !.end[H] = worker.how]
  /\ wait' = BumpedAtEnd(wait)
  /\ Step("removing")
  /\ UNCHANGED <<items, store, op, memVars, refused, stopped, scope>>

RemoveEnds ==
  /\ worker.at = "removing"
  /\ Step("look")
  /\ \/ \E k \in DOMAIN store : store[k] = H /\ store' = RemoveAt(store, k)
     \/ scope.fails /\ UNCHANGED store
  /\ UNCHANGED <<items, queue, op, wait, past, memVars, flagVars>>

-----------------------------------------------------------------------------
(* The waits: each subscribes to the changes of the queue, looks, and waits*)
(* for a change when it has to.                                            *)

Calls(w) ==
  /\ wait.at = "none" /\ ~stopped.is
  /\ wait' = w
  /\ UNCHANGED <<items, store, queue, worker, op, memVars, flagVars>>

EntryStored(e) ==
  /\ "entry" \in scope.waits
  /\ Calls([NoWait EXCEPT !.at = "look", !.what = "entry", !.entry = e]) /\ UNCHANGED past

Read ==
  /\ "read" \in scope.waits
  /\ Calls([NoWait EXCEPT !.at = "look", !.what = "read", !.target = queue.last]) /\ UNCHANGED past

OfAgent(a) == {m \in Turns \cup Inputs : AgentOf[m] = a}
HoldsItem(a) == \E i \in ToSet(queue.ids) : Message(i) \in OfAgent(a)
HoldsState(a) ==
  \/ \E t \in OfAgent(a) \cap Turns : turns[t].at # "none"
  \/ \E e \in Entries : held[e] # 0 /\ sinks[held[e]].turn \in OfAgent(a)

\* The memory of the thread is not locked: between operations, and between two items of
\* one, except where the operation keeps the lock from its opening to its end.
MemFree == op.at \in {"none", "more"} \/ (op.at = "ready" /\ op.job \notin {"entry", "result"})

\* instance_ended looks at the queue, then at the memory of the thread, which an
\* operation keeps locked while it has an item accepted.
InstanceEnded(a) ==
  /\ "ended" \in scope.waits /\ a \notin past.ended
  /\ Calls([NoWait EXCEPT !.at = "asks", !.what = "ended", !.agent = a,
                         !.since = queue.last, !.holds = HoldsItem(a)])
  /\ past' = [past EXCEPT !.gone = @ \cup (OfAgent(a) \cap Turns)]

EndedAsks ==
  /\ wait.at = "asks" /\ MemFree
  /\ IF wait.holds \/ HoldsState(wait.agent)
     THEN wait' = [wait EXCEPT !.at = "look", !.target = queue.last] /\ UNCHANGED past
     ELSE wait' = NoWait /\ past' = [past EXCEPT !.ended = @ \cup {wait.agent}]
  /\ UNCHANGED <<items, store, queue, worker, op, memVars, flagVars>>

EntryOutcome(e) ==
  IF e \in queue.dropped THEN "Dropped"
  ELSE IF \E i \in ToSet(queue.ids) : items[i].entry = e THEN "Waits" ELSE "Stored"
PastTarget(target) == queue.ids = <<>> \/ Head(queue.ids) > target

MayReturn == IF wait.what = "entry" THEN EntryOutcome(wait.entry) # "Waits" ELSE PastTarget(wait.target)

WaitLooks ==
  /\ wait.at = "look"
  /\ wait' = IF ~MayReturn THEN [wait EXCEPT !.at = "parked", !.fresh = FALSE]
             ELSE IF wait.what = "entry" THEN NoWait
             ELSE [wait EXCEPT !.at = IF wait.what = "read" THEN "asking" ELSE "purge"]
  /\ UNCHANGED <<items, store, queue, worker, op, past, memVars, flagVars>>

WaitWakes ==
  /\ wait.at = "parked" /\ wait.fresh
  /\ wait' = [wait EXCEPT !.at = "look"]
  /\ UNCHANGED <<items, store, queue, worker, op, past, memVars, flagVars>>

\* Threads answers with the conversation, whose last turn is the last message it took.
LastTaken ==
  LET S == {i \in past.taken : IsMessage(i)} IN
  IF S = {} THEN NoMessage ELSE Message(CHOOSE i \in S : \A j \in S : j <= i)

ReadAnswered ==
  /\ wait.at = "asking"
  /\ \/ wait' = [wait EXCEPT !.at = "answered", !.tip = LastTaken]
     \/ wait' = NoWait
  /\ UNCHANGED <<items, store, queue, worker, op, past, memVars, flagVars>>

\* The read takes the memory of the thread, not its order.
ReadReturns ==
  /\ wait.at = "answered" /\ MemFree
  /\ tip' = wait.tip
  /\ wait' = NoWait
  /\ UNCHANGED <<items, store, queue, worker, op, past, turns, held, sinks, flagVars>>

TurnsWithout(a) == [t \in Turns |-> IF AgentOf[t] = a THEN NoTurn ELSE turns[t]]

Purge ==
  /\ wait.at = "purge" /\ op.at = "none"
  /\ LET mine == {t \in OfAgent(wait.agent) \cap Turns : turns[t].at # "none"}
         gone == {e \in Entries : held[e] # 0 /\ sinks[held[e]].turn \in OfAgent(wait.agent)} IN
     /\ broken' = broken \ mine
     /\ turns' = TurnsWithout(wait.agent)
     /\ held' = [e \in Entries |-> IF e \in gone THEN 0 ELSE held[e]]
     /\ sinks' = [s \in DOMAIN sinks |-> IF \E e \in gone : held[e] = s THEN [sinks[s] EXCEPT !.done = TRUE] ELSE sinks[s]]
  /\ past' = [past EXCEPT !.ended = @ \cup {wait.agent}]
  /\ wait' = NoWait
  /\ UNCHANGED <<items, store, queue, worker, op, tip, refused, stopped, scope>>

-----------------------------------------------------------------------------
(* The drop of the adapter, and a restart                                  *)

\* Drop: the adapter is stopped and its tasks are told to abort ...
DropBegins ==
  /\ scope.drops /\ ~stopped.is /\ wait.at = "none"
  /\ stopped' = [is |-> TRUE, told |-> FALSE]
  /\ UNCHANGED <<items, store, queue, worker, op, wait, past, memVars, refused, broken, scope>>

\* ... then, under the lock of the queue, each waiting item is reported.
DropReports ==
  /\ stopped.is /\ ~stopped.told
  /\ past' = [past EXCEPT !.unsent = @ \cup ToSet(queue.ids)]
  /\ stopped' = [stopped EXCEPT !.told = TRUE]
  /\ UNCHANGED <<items, store, queue, worker, op, wait, memVars, refused, broken, scope>>

\* An abort takes effect where the delivery task awaits, not in the middle of a step.
WorkerAborted ==
  /\ stopped.is /\ worker.at \in {"look", "trying", "pause", "removing"}
  /\ Step("aborted")
  /\ UNCHANGED <<items, store, queue, op, wait, past, memVars, flagVars>>

\* Mutant: the leftovers of the store are not queued.
NoLeftovers == <<>>
Leftovers == store

\* The process ends at any point and a new adapter is built over the store.  The responses
\* of the old one are over; the numbers of the new ones go on behind theirs.
Restart ==
  /\ past.crashes < scope.crashes
  /\ queue' = [EmptyQueue EXCEPT !.ids = Leftovers, !.running = Leftovers # <<>>,
                                 !.last = IF Leftovers = <<>> THEN 0 ELSE Last(Leftovers)]
  /\ worker' = [at |-> IF Leftovers = <<>> THEN "idle" ELSE "look", how |-> "delivered", item |-> 0]
  /\ turns' = [t \in Turns |-> NoTurn]
  /\ held' = [e \in Entries |-> 0] /\ tip' = NoMessage
  /\ sinks' = [s \in DOMAIN sinks |-> [sinks[s] EXCEPT !.done = TRUE]]
  /\ refused' = {} /\ broken' = {} /\ stopped' = [is |-> FALSE, told |-> FALSE]
  /\ op' = NoOp /\ wait' = NoWait
  /\ past' = [past EXCEPT !.crashes = @ + 1, !.unsent = {}, !.ended = Agents,
                          !.gone = @ \cup {t \in Turns : \E i \in DOMAIN items : Message(i) = t}]
  /\ UNCHANGED <<items, store, scope>>

-----------------------------------------------------------------------------
Worker ==
  \/ WorkerEnds \/ WorkerLooks \/ Delivered \/ AttemptFails \/ PauseEnds \/ Refused
  \/ EndItem \/ RemoveEnds
Operation == Append1 \/ AppendFails \/ Enqueue \/ Continue
Waiting == EndedAsks \/ WaitLooks \/ WaitWakes \/ ReadAnswered \/ ReadReturns \/ Purge

Next ==
  \/ \E n \in Inputs : InputCall(n)
  \/ \E t \in Turns, e \in Entries : TurnCall(t, e)
  \/ \E t \in Turns : ResultCall(t) \/ CloseCall(t) \/ KeepaliveCall(t)
  \/ \E s \in DOMAIN sinks : SendCall(s)
  \/ Operation \/ Worker \/ WorkerAborted \/ Waiting
  \/ \E e \in Entries : EntryStored(e)
  \/ \E a \in Agents : InstanceEnded(a)
  \/ Read \/ DropBegins \/ DropReports \/ Restart

Spec == Init /\ [][Next]_vars

-----------------------------------------------------------------------------
(* Properties                                                              *)

Messages == Turns \cup Inputs \cup {NoMessage}
ItemBodies == {"turn", "entry", "annotation", "keepalive", "delta", "end"}
ItemType ==
  [kind : Kinds, message : Turns \cup Inputs, seq : Nat, entry : Entries \cup {NoEntry},
   body : ItemBodies, seal : Nat, parent : Messages, sink : Nat]
TurnType ==
  [at : {"none", "open", "closed"}, chunks : Seq(ItemBodies), entries : SUBSET Entries, keepalive : BOOLEAN]
SinkType ==
  [entry : Entries, turn : Turns, sent : BOOLEAN, done : BOOLEAN,
   kept : {"none", "Library", "Closed", "Store"}]
OpType ==
  [at : {"none", "ready", "more", "stopped", "append", "enqueue"}, job : Jobs \cup {"none"},
   turn : Messages, entry : Entries \cup {NoEntry}, sink : Nat, left : Nat, item : ItemType \cup {NoItem}]
WaitType ==
  [at : {"none", "asks", "look", "parked", "asking", "answered", "purge"},
   what : {"none", "entry", "read", "ended"}, entry : Entries \cup {NoEntry},
   agent : Agents \cup {NoAgent}, target : Nat, since : Nat, holds : BOOLEAN, fresh : BOOLEAN, tip : Messages]
PastType ==
  [taken : SUBSET Ids, end : [Ids -> {"none", "kept", "delivered", "refused", "unsent"}],
   unsent : SUBSET Ids, gone : SUBSET Turns, ended : SUBSET Agents, crashes : Nat]

\* The state of the thread has its types (inner.rs, item.rs); an item of the queue or of
\* the store is an item made, and an operation is on a response that was opened.
ItemsOK ==
  /\ items \in Seq(ItemType) /\ Len(items) <= MaxItems
  /\ past \in PastType /\ past.taken \subseteq DOMAIN items
QueueOK ==
  /\ store \in Seq(DOMAIN items)
  /\ queue \in [ids : Seq(DOMAIN items), dropped : SUBSET Entries, failure : Nat,
                running : BOOLEAN, last : 0..Len(items)]
  /\ worker \in [at : {"idle", "look", "trying", "pause", "ending", "removing", "aborted"},
                 how : {"delivered", "refused", "unsent"}, item : 0..Len(items)]
MemOK ==
  /\ turns \in [Turns -> TurnType] /\ tip \in Messages
  /\ sinks \in Seq(SinkType) /\ held \in [Entries -> 0..Len(sinks)]
FlagsOK ==
  /\ refused \subseteq Turns \cup Inputs /\ broken \subseteq Turns \cup Inputs
  /\ stopped \in [is : BOOLEAN, told : BOOLEAN] /\ scope \in Scope
CallsOK == op \in OpType /\ op.sink <= Len(sinks) /\ wait \in WaitType
TypeOK == ItemsOK /\ QueueOK /\ MemOK /\ FlagsOK /\ CallsOK

HasEnded(i) == past.end[i] \in {"delivered", "refused", "unsent"}

\* First in, first out across resends and restarts: Threads takes an item for the first
\* time only when every item kept before it has ended.
InOrder ==
  [][\A i \in past'.taken \ past.taken : \A j \in 1..(i - 1) : HasEnded(j)]_vars

\* "Every write operation of the port returns when the item is in the store": an item
\* that was kept and has not ended is in the store, whatever fails, stops or restarts,
\* and while the adapter lives it waits in the queue or is about to.
NothingLost ==
  \A i \in DOMAIN items : ~HasEnded(i) =>
    /\ i \in ToSet(store)
    /\ ~stopped.is => i \in ToSet(queue.ids) \/ (op.at = "enqueue" /\ i = Len(items))

\* "With no gap even when many tasks write": the chunks kept for a turn are numbered
\* from 0 in the order of the queue, keepalives included and although an append may
\* fail, the seal of its closing counts all of them, and no chunk follows the closing.
SealWhole ==
  \A t \in Turns :
    LET chunks == {i \in DOMAIN items : items[i].kind = "Chunk" /\ Message(i) = t} IN
    /\ \A i \in chunks : items[i].seq = Cardinality({j \in chunks : j < i})
    /\ \A c \in DOMAIN items : items[c].kind = "Closing" /\ Message(c) = t =>
         /\ \A i \in chunks : i < c
         /\ items[c].seal # NoSeal => items[c].seal = Cardinality(chunks)

\* A response ends once: no delta of a response follows the delta that ended it, however
\* its sink, its completion, its discard and its reopening interleave.
ResponseEndsOnce ==
  \A i, j \in DOMAIN items :
    i < j /\ items[i].sink # 0 /\ items[i].sink = items[j].sink => items[i].body # "end"

\* entry_stored does not say Stored of an entry whose last item was refused or dropped.
EntryTold ==
  past.crashes = 0 => \A e \in Entries :
    LET of == {i \in DOMAIN items : items[i].entry = e /\ HasEnded(i)} IN
    of # {} /\ EntryOutcome(e) = "Stored"
      => \A i \in of : (\A j \in of : j <= i) => past.end[i] = "delivered"

\* instance_ended returns after the items of the agent accepted before its call have
\* ended, whatever is accepted meanwhile.
EndedAfterItems ==
  [][\A a \in past'.ended \ past.ended : past'.crashes = past.crashes
       => \A i \in 1..wait.since : Message(i) \in OfAgent(a) => HasEnded(i)]_vars

\* No wake-up is lost: a caller of read, entry_stored or instance_ended that sleeps and
\* has nothing to see may not return yet, whatever was queued, ended or dropped since it
\* looked.
WaitWoken == wait.at = "parked" /\ ~wait.fresh => ~MayReturn

\* The three waits of a caller (waits.rs) are woken, and are told the truth: Stored is
\* said of no entry that was lost, and instance_ended returns after its items.
WaitsTell == [](WaitWoken /\ EntryTold) /\ EndedAfterItems
=============================================================================
