--------------------------- MODULE DeliveryQueue ---------------------------
(***************************************************************************)
(* The delivery queue of one Run (br-runner-jobs/src/queue): threads hand  *)
(* writes over, one task sends them to jobs first in first out and sends   *)
(* again what may pass, read markers wait outside the order for their      *)
(* gate, drained() waits for what was handed over before it, and dropping  *)
(* the queue ends whatever is left.  Every lock section of the code is one *)
(* action; between two of them any other thread may run.                   *)
(***************************************************************************)
EXTENDS QueueWrites, Sequences, FiniteSets, Functions

CONSTANTS HandOvers,  \* the writes that callers may hand over
          Markers,    \* the <<marker, follow>> pairs that may be held; follow is
                      \* the finish of a completed call, or NoWrite
          Waiters,    \* the callers of drained()
          MaxWrites,  \* bound on the writes that enter the queue
          MaxLate,    \* bound on the hand-overs between their two lock sections
          NoWrite, NoSeq

ASSUME QueueAssumption ==
  /\ NoWrite \notin Write
  /\ MaxWrites \in Nat \ {0}
  /\ MaxLate \in Nat
  /\ NoSeq \notin Nat
  /\ HandOvers \subseteq Write
  /\ Markers \subseteq Write \X (Write \cup {NoWrite})
  /\ \A m \in Markers : m[1].kind = "ReadMarker"

Seqs == 0 .. (MaxWrites - 1)

VARIABLES
  \* State, under the mutex of Shared
  fifo,         \* the entries in order, by their seq
  newHeld,      \* held entries the task has not taken yet
  pending,      \* the seqs that have no end yet
  ended,        \* the last result for each DepKey
  nextSeq, stopped, lastFailure,
  \* the rest of Shared
  alive,        \* the DeliveryQueue has not been dropped (stop is its negation)
  wake,         \* the permit of the Notify
  progress,     \* the version of the progress watch
  \* the entries
  write, follow,\* per seq: the write, and the write that joins before it
  end,          \* per seq: what its WriteEnd gives, or "Open"
  \* the task
  task,         \* where the task is
  after,        \* where it goes on after a completion
  held, head,   \* entries whose gate is awaited; the entry being attempted
  attempt,      \* "none", "ready" (about to send), "sent", "resting"
  todo, outcome,\* the entries being completed, smallest seq first, and their result
  late,         \* hand-overs that found their removal and still have to record it
  waiter,       \* per caller of drained(): where it is, upto and the seen version
  \* jobs (external) and history
  sent,         \* the writes for which a request left the runner
  applied,      \* the writes that jobs took (a repeat carries the same id)
  report,       \* what the observer was told of each write, or "Open"
  rank, joins   \* the order in which the writes joined the fifo

state  == <<fifo, newHeld, pending, ended, nextSeq, stopped, lastFailure>>
entries == <<write, follow>>
taskVars == <<task, after, held, head, attempt, todo, outcome>>
jobsVars == <<sent, applied>>
order  == <<rank, joins>>
vars == <<state, alive, wake, progress, entries, end, taskVars, late, waiter,
          jobsVars, report, order>>

-----------------------------------------------------------------------------
(* DeliveryQueue::start: the task is spawned, not polled yet, and the      *)
(* started fact is the first write.                                        *)
Init ==
  /\ fifo = <<0>>
  /\ newHeld = {}
  /\ pending = {0}
  /\ ended = [k \in DepKey |-> "None"]
  /\ nextSeq = 1
  /\ stopped = FALSE
  /\ lastFailure = NoSeq
  /\ alive = TRUE
  /\ wake = TRUE
  /\ progress = 0
  /\ write = [s \in Seqs |-> IF s = 0 THEN Started ELSE NoWrite]
  /\ follow = [s \in Seqs |-> NoWrite]
  /\ end = [s \in Seqs |-> "Open"]
  /\ task = "new" /\ after = "held"
  /\ held = {} /\ head = NoSeq /\ attempt = "none"
  /\ todo = {} /\ outcome = "Delivered"
  /\ late = {}
  /\ waiter = [w \in Waiters |-> [at |-> "idle", upto |-> 0, seen |-> 0]]
  /\ sent = {} /\ applied = {}
  /\ report = [s \in Seqs |-> "Open"]
  /\ rank = [s \in Seqs |-> IF s = 0 THEN 1 ELSE 0] /\ joins = 1

\* Seqs still owed to the follows of held markers.
Reserved == Cardinality({s \in newHeld \cup held : follow[s] # NoWrite})

-----------------------------------------------------------------------------
(* Hand-overs, on the thread of the caller                                 *)

\* push_back on the fifo, in the order of ss, and notify_one on the wake.
PushFront(ss) == fifo' = ss \o fifo
PushBack(ss) == fifo' = fifo \o ss
NoNotify == UNCHANGED wake
NotifyOne == wake' = TRUE

\* register: a new seq for w, listed as waiting.
Register(w, f) ==
  /\ nextSeq' = nextSeq + 1
  /\ pending' = pending \cup {nextSeq}
  /\ write' = [write EXCEPT ![nextSeq] = w]
  /\ follow' = [follow EXCEPT ![nextSeq] = f]

MayHandOver(w) == w.kind \in OwnerKind => alive

\* enqueue, when the queue takes the write.
HandOver(w) ==
  /\ MayHandOver(w)
  /\ ~stopped /\ Blocked(w, ended) = {}
  /\ nextSeq + Reserved < MaxWrites
  /\ Register(w, NoWrite)
  /\ PushBack(<<nextSeq>>)
  /\ rank' = [rank EXCEPT ![nextSeq] = joins + 1] /\ joins' = joins + 1
  /\ NotifyOne
  /\ UNCHANGED <<newHeld, ended, stopped, lastFailure, alive, progress, end,
                 taskVars, late, waiter, jobsVars, report>>

\* enqueue, when the queue is stopped or a dependency ended removed: the
\* removal is found under the lock and recorded under a second one.
HandOverUnqueued(w) ==
  /\ MayHandOver(w)
  /\ Cardinality(late) < MaxLate
  /\ \E r \in (IF stopped THEN {"LeftUnsent"} ELSE Blocked(w, ended)) :
       late' = late \cup (OwnKey(w) \X {r})
  /\ UNCHANGED <<state, alive, wake, progress, entries, end, taskVars, waiter,
                 jobsVars, report, order>>

\* finish_unqueued, the second lock section.
FinishUnqueued(k, r) ==
  /\ <<k, r>> \in late
  /\ late' = late \ {<<k, r>>}
  /\ ended' = [ended EXCEPT ![k] = r]
  /\ UNCHANGED <<fifo, newHeld, pending, nextSeq, stopped, lastFailure, alive,
                 wake, progress, entries, end, taskVars, waiter, jobsVars, report, order>>

\* hold: the marker waits outside the order of the queue for its gate. (After
\* a stop the marker, which has no key of its own, ends at once and changes
\* nothing here.)
Hold(m) ==
  /\ ~stopped
  /\ nextSeq + Reserved + (IF m[2] = NoWrite THEN 0 ELSE 1) < MaxWrites
  /\ Register(m[1], m[2])
  /\ newHeld' = newHeld \cup {nextSeq}
  /\ NotifyOne
  /\ UNCHANGED <<fifo, ended, stopped, lastFailure, alive, progress, end,
                 taskVars, late, waiter, jobsVars, report, order>>

\* Drop of the DeliveryQueue, stop_now. Nobody is inside drained(): that call
\* borrows the queue. The flag and the cancel of the token are one step: what the
\* task may do between the two it may do after both as well, because a poll of
\* its select may have passed the stop branch already.
DropQueue ==
  /\ alive
  /\ \A w \in Waiters : waiter[w].at \in {"idle", "returned"}
  /\ alive' = FALSE
  /\ stopped' = TRUE
  /\ UNCHANGED <<fifo, newHeld, pending, ended, nextSeq, lastFailure, wake, progress,
                 entries, end, taskVars, late, waiter, jobsVars, report, order>>

-----------------------------------------------------------------------------
(* The task                                                                *)

TakeNewHeld ==
  /\ task \in {"new", "held"}
  /\ held' = held \cup newHeld
  /\ newHeld' = {}
  /\ task' = "head"
  /\ UNCHANGED <<fifo, pending, ended, nextSeq, stopped, lastFailure, alive, wake,
                 progress, entries, end, after, head, attempt, todo, outcome, late,
                 waiter, jobsVars, report, order>>

\* complete is entered for the entries of S, all with result r.
Complete(S, r, next) ==
  /\ todo' = S /\ outcome' = r /\ after' = next
  /\ task' = IF S = {} THEN next ELSE "report"

\* take_head and next_head: an entry with a removed dependency is completed
\* and the next one is looked at; a stopped queue gives no head.
TakeHead ==
  /\ task = "head"
  /\ IF head # NoSeq \/ stopped \/ fifo = <<>>
     THEN /\ task' = "select"
          /\ UNCHANGED <<fifo, head, attempt, todo, outcome, after>>
     ELSE LET h == Head(fifo) IN
          /\ fifo' = Tail(fifo)
          /\ \/ /\ Blocked(write[h], ended) = {}
                /\ head' = h /\ attempt' = "ready" /\ task' = "select"
                /\ UNCHANGED <<todo, outcome, after>>
             \/ \E r \in Blocked(write[h], ended) :
                /\ Complete({h}, r, "head")
                /\ UNCHANGED <<head, attempt>>
  /\ UNCHANGED <<newHeld, pending, ended, nextSeq, stopped, lastFailure, alive, wake,
                 progress, entries, end, held, late, waiter, jobsVars, report, order>>

SelectWake ==
  /\ task = "select" /\ wake
  /\ wake' = FALSE /\ task' = "held"
  /\ UNCHANGED <<state, alive, progress, entries, end, after, held, head, attempt,
                 todo, outcome, late, waiter, jobsVars, report, order>>

\* gate_ended with Gate::Stored: the follow and then the marker join the fifo.
GateStored(s) ==
  /\ task = "select" /\ s \in held
  /\ held' = held \ {s}
  /\ \/ /\ stopped
        /\ Complete({s}, "LeftUnsent", "held")
        /\ UNCHANGED <<fifo, pending, nextSeq, wake, entries, order>>
     \/ /\ ~stopped /\ follow[s] = NoWrite
        /\ PushBack(<<s>>)
        /\ rank' = [rank EXCEPT ![s] = joins + 1] /\ joins' = joins + 1
        /\ NotifyOne /\ task' = "held"
        /\ UNCHANGED <<pending, nextSeq, entries, after, todo, outcome>>
     \/ /\ ~stopped /\ follow[s] # NoWrite /\ nextSeq < MaxWrites
        /\ Register(follow[s], NoWrite)
        /\ PushBack(<<nextSeq, s>>)
        /\ rank' = [rank EXCEPT ![nextSeq] = joins + 1, ![s] = joins + 2]
        /\ joins' = joins + 2
        /\ NotifyOne /\ task' = "held"
        /\ UNCHANGED <<after, todo, outcome>>
  /\ UNCHANGED <<newHeld, ended, stopped, lastFailure, alive, progress, end, head,
                 attempt, late, waiter, jobsVars, report>>

\* gate_ended with Gate::Dropped.
GateDropped(s) ==
  /\ task = "select" /\ s \in held
  /\ held' = held \ {s}
  /\ Complete({s}, "DependsOnRemoved", "held")
  /\ UNCHANGED <<state, alive, wake, progress, entries, end, head, attempt, late,
                 waiter, jobsVars, report, order>>

-----------------------------------------------------------------------------
(* The attempts of the head, polled inside the select                      *)

Send ==
  /\ task = "select" /\ attempt = "ready"
  /\ attempt' = "sent"
  /\ sent' = sent \cup {head}
  /\ UNCHANGED <<state, alive, wake, progress, entries, end, task, after, held, head,
                 todo, outcome, late, waiter, applied, report, order>>

\* The attempt is over: the entry is taken and completed.
EndAttempt(r) ==
  /\ head' = NoSeq /\ attempt' = "none"
  /\ Complete({head}, r, "held")

\* The commands whose outcome is an event that an earlier attempt may have
\* caused: it is looked for before the command is sent again.
ChildKind == {"Create", "Finish", "Cancel"}
Heard == attempt = "sent" \/ (attempt = "ready" /\ head \in sent /\ write[head].kind \in ChildKind)

\* Ok(()) from the session: jobs took the write.
HeardAnything == Heard
HeardOk == Heard /\ head \in applied

AttemptDelivered ==
  /\ task = "select" /\ HeardOk
  /\ EndAttempt("Delivered")
  /\ UNCHANGED <<state, alive, wake, progress, entries, end, held, late, waiter,
                 jobsVars, report, order>>

\* The errors an attempt may end with: a refusal needs an outcome of jobs,
\* the others may come before the request has left or after it.
AttemptErrors ==
  IF Heard THEN ErrorKind
  ELSE IF attempt = "ready" THEN ErrorKind \ {"InstanceUnknown", "OtherRefusal"}
  ELSE {}

\* record_failure, and the sleep of the wait between attempts. The timeout of
\* the outcome wait is the error "Lost".
AttemptAgain ==
  /\ task = "select"
  /\ \E e \in AttemptErrors : Resendable(write[head], e)
  /\ lastFailure' = head
  /\ attempt' = "resting"
  /\ UNCHANGED <<fifo, newHeld, pending, ended, nextSeq, stopped, alive, wake, progress,
                 entries, end, task, after, held, head, todo, outcome, late, waiter,
                 jobsVars, report, order>>

AttemptFinal ==
  /\ task = "select"
  /\ \E e \in AttemptErrors : ~Resendable(write[head], e) /\ EndAttempt(FinalRemoval(e))
  /\ UNCHANGED <<state, alive, wake, progress, entries, end, held, late, waiter,
                 jobsVars, report, order>>

Resend ==
  /\ task = "select" /\ attempt = "resting"
  /\ attempt' = "ready"
  /\ UNCHANGED <<state, alive, wake, progress, entries, end, task, after, held, head,
                 todo, outcome, late, waiter, jobsVars, report, order>>

\* jobs takes a request, at once or long after the attempt gave up. A repeat
\* carries the id of the first and changes nothing.
JobsApply(s) ==
  /\ s \in sent \ applied
  /\ applied' = applied \cup {s}
  /\ UNCHANGED <<state, alive, wake, progress, entries, end, taskVars, late, waiter,
                 sent, report, order>>

-----------------------------------------------------------------------------
(* complete, entry by entry: the report, then the lock section, then the   *)
(* end of the write and the progress                                       *)

Completing(s) == s \in todo /\ \A t \in todo : s <= t

Report(s) ==
  /\ task = "report" /\ Completing(s)
  /\ report' = [report EXCEPT ![s] = outcome]
  /\ task' = "commit"
  /\ UNCHANGED <<state, alive, wake, progress, entries, end, after, held, head, attempt,
                 todo, outcome, late, waiter, jobsVars, order>>

ClearedFailure(s) == IF lastFailure = s THEN NoSeq ELSE lastFailure

Commit(s) ==
  /\ task = "commit" /\ Completing(s)
  /\ pending' = pending \ {s}
  /\ ended' = [k \in DepKey |-> IF k \in OwnKey(write[s]) THEN outcome ELSE ended[k]]
  /\ lastFailure' = ClearedFailure(s)
  /\ task' = "notify"
  /\ UNCHANGED <<fifo, newHeld, nextSeq, stopped, alive, wake, progress, entries, end,
                 after, held, head, attempt, todo, outcome, late, waiter, jobsVars,
                 report, order>>

Progressed == progress' = progress + 1

Notify(s) ==
  /\ task = "notify" /\ Completing(s)
  /\ end' = [end EXCEPT ![s] = outcome]
  /\ Progressed
  /\ todo' = todo \ {s}
  /\ task' = IF todo = {s} THEN after ELSE "report"
  /\ UNCHANGED <<state, alive, wake, entries, after, held, head, attempt, outcome,
                 late, waiter, jobsVars, report, order>>

HeadEntry == {head} \ {NoSeq}

\* Drop for Task: every entry left, wherever it is, ends with LeftUnsent.
EntriesTaken == HeadEntry \cup held \cup Range(fifo)
EntriesLeft == HeadEntry \cup held \cup Range(fifo) \cup newHeld

DropTask ==
  /\ Complete(EntriesLeft, "LeftUnsent", "gone")
  /\ head' = NoSeq /\ attempt' = "none"
  /\ held' = {} /\ fifo' = <<>> /\ newHeld' = {}
  /\ stopped' = TRUE
  /\ UNCHANGED <<pending, ended, nextSeq, lastFailure, alive, wake, progress, entries,
                 end, late, waiter, jobsVars, report, order>>

\* The stop branch of the select.
SelectStop == task = "select" /\ ~alive /\ DropTask

\* The async runtime drops the task, at an await or before its first poll.
RuntimeStops == task \in {"new", "select"} /\ DropTask

-----------------------------------------------------------------------------
(* drained: subscribe to the progress, read next_seq, then check and wait  *)

Move(w, at, upto, seen) ==
  /\ waiter' = [waiter EXCEPT ![w] = [at |-> at, upto |-> upto, seen |-> seen]]
  /\ UNCHANGED <<state, alive, wake, progress, entries, end, taskVars, late, jobsVars,
                 report, order>>

DrainedSubscribe(w) ==
  waiter[w].at = "idle" /\ alive /\ Move(w, "subscribed", 0, progress)

DrainedUpto(w) ==
  waiter[w].at = "subscribed" /\ Move(w, "check", nextSeq, waiter[w].seen)

WaitsBelow(w) == \E s \in pending : s + 1 < waiter[w].upto
Waits(w) == \E s \in pending : s < waiter[w].upto

DrainedCheck(w) ==
  /\ waiter[w].at = "check"
  /\ Move(w, IF Waits(w) THEN "waiting" ELSE "returned", waiter[w].upto, waiter[w].seen)

DrainedChanged(w) ==
  /\ waiter[w].at = "waiting" /\ progress # waiter[w].seen
  /\ Move(w, "check", waiter[w].upto, progress)

\* The future is dropped before it is ready.
DrainedAbandoned(w) ==
  waiter[w].at \in {"subscribed", "check", "waiting"} /\ Move(w, "idle", 0, 0)

-----------------------------------------------------------------------------
Callers ==
  \/ \E w \in HandOvers : HandOver(w) \/ HandOverUnqueued(w)
  \/ \E p \in late : FinishUnqueued(p[1], p[2])
  \/ \E m \in Markers : Hold(m)
  \/ DropQueue
  \/ \E w \in Waiters : \/ DrainedSubscribe(w) \/ DrainedUpto(w) \/ DrainedCheck(w)
                        \/ DrainedChanged(w) \/ DrainedAbandoned(w)

Completion == \E s \in todo : Report(s) \/ Commit(s) \/ Notify(s)
Gates      == \E s \in held : GateStored(s) \/ GateDropped(s)
Attempts   == Send \/ AttemptDelivered \/ AttemptAgain \/ AttemptFinal \/ Resend

Next ==
  \/ Callers
  \/ TakeNewHeld \/ TakeHead \/ SelectWake
  \/ Gates \/ Attempts \/ Completion
  \/ SelectStop \/ RuntimeStops
  \/ \E s \in sent : JobsApply(s)

Spec == Init /\ [][Next]_vars
-----------------------------------------------------------------------------
(* Properties                                                              *)

WaiterState == [at : {"idle", "subscribed", "check", "waiting", "returned"},
                upto : 0 .. MaxWrites, seen : Nat]

StateTypes ==
  /\ fifo \in Seq(Seqs) /\ newHeld \subseteq Seqs /\ pending \subseteq Seqs
  /\ ended \in [DepKey -> Results \cup {"None"}]
  /\ nextSeq \in 1 .. MaxWrites /\ stopped \in BOOLEAN
  /\ lastFailure \in Seqs \cup {NoSeq}
  /\ alive \in BOOLEAN /\ wake \in BOOLEAN /\ progress \in Nat
EntryTypes ==
  /\ write \in [Seqs -> Write \cup {NoWrite}] /\ follow \in [Seqs -> Write \cup {NoWrite}]
  /\ end \in [Seqs -> Results \cup {"Open"}]
TaskTypes ==
  /\ task \in {"new", "held", "head", "select", "report", "commit", "notify", "gone"}
  /\ after \in {"held", "head", "gone"}
  /\ held \subseteq Seqs /\ head \in Seqs \cup {NoSeq}
  /\ attempt \in {"none", "ready", "sent", "resting"}
  /\ todo \subseteq Seqs /\ outcome \in Results
CallerTypes ==
  /\ late \subseteq DepKey \X Removals
  /\ waiter \in [Waiters -> WaiterState]
HistoryTypes ==
  /\ sent \subseteq Seqs /\ applied \subseteq Seqs
  /\ report \in [Seqs -> Results \cup {"Open"}]
  /\ rank \in [Seqs -> Nat] /\ joins \in Nat

\* Every variable keeps to the values that its field or local in the code may
\* hold, and the seqs stay below their bound.
TypeOK == StateTypes /\ EntryTypes /\ TaskTypes /\ CallerTypes /\ HistoryTypes

\* The entries being completed whose lock section of complete is still due.
Uncommitted == {s \in todo : ~(task = "notify" /\ Completing(s))}

\* No write is lost and none is in two places: the entries listed as waiting
\* are exactly the ones the queue and its task still hold, through hold,
\* take_new_held, take_head, gate_ended, complete and the drop of the task.
EntriesConserved ==
  /\ pending = Range(fifo) \cup newHeld \cup held \cup HeadEntry \cup Uncommitted
  /\ Range(fifo) \cap (newHeld \cup held \cup HeadEntry \cup Uncommitted) = {}
  /\ newHeld \cap (held \cup HeadEntry \cup Uncommitted) = {}
  /\ held \cap (HeadEntry \cup Uncommitted) = {}
  /\ HeadEntry \cap Uncommitted = {}
  /\ \A i, j \in DOMAIN fifo : fifo[i] = fifo[j] => i = j

\* next_head gives one head at a time and in order: a request for a write leaves
\* the runner only when every write that joined the fifo before it has ended.
SentInOrder ==
  \A s \in sent : \A t \in Seqs : 0 < rank[t] /\ rank[t] < rank[s] => t \notin pending

\* The writes with key k that joined the fifo before s.
Earlier(k, s) == {t \in Seqs : 0 < rank[t] /\ rank[t] < rank[s] /\ k \in OwnKey(write[t])}

\* blocked keeps a write back from jobs: of the writes it depends on that joined
\* before it, the last one ended delivered before the first request left.
DependencyRespected ==
  \A s \in sent : \A k \in DependsOn(write[s]) : \A t \in Earlier(k, s) :
    (\A u \in Earlier(k, s) : rank[u] <= rank[t]) => report[t] = "Delivered"

\* drained() waits for what was handed over before it was called: when it
\* returns, all of that has ended, and so has the finish that joined the fifo
\* in front of a marker, unless the task was dropped with the marker in it.
DrainedCovers ==
  \A w \in Waiters : waiter[w].at = "returned" =>
    \A s \in Seqs : s < waiter[w].upto =>
      /\ s \notin pending
      /\ follow[s] # NoWrite /\ rank[s] > 0 /\ report[s] # "LeftUnsent" =>
           \A t \in Seqs : rank[t] = rank[s] - 1 => t \notin pending

\* Why the order holds, as an inductive invariant: the entries that have not
\* joined have no rank, the fifo ascends, the head is below it, and nothing is
\* being completed while the task waits in its select.
LineOrder ==
  /\ todo = {} <=> task \notin {"report", "commit", "notify"}
  /\ \A s \in pending \cup sent : s < nextSeq
  /\ \A s \in Seqs : rank[s] <= joins /\ (s >= nextSeq => rank[s] = 0)
  /\ \A s \in newHeld \cup held : rank[s] = 0
  /\ \A s \in Range(fifo) \cup HeadEntry \cup sent : rank[s] > 0
  /\ \A i, j \in DOMAIN fifo : i < j => rank[fifo[i]] < rank[fifo[j]]
  /\ \A s \in HeadEntry, t \in Range(fifo) : rank[s] < rank[t]

-----------------------------------------------------------------------------
(* Fairness. The async runtime polls the task (or drops it), so its own    *)
(* steps go on. An attempt ends: the timeout of the outcome wait cuts it.  *)
TaskSteps == TakeNewHeld \/ TakeHead \/ SelectWake \/ Completion
TaskFairness == WF_vars(TaskSteps) /\ WF_vars(SelectStop)

\* A request gets through and is answered in the end, whatever is lost before,
\* and every gate ends.
\* That is outside the queue: only the properties that need it assume it.
JobsFairness ==
  /\ SF_vars(Send) /\ WF_vars(Resend) /\ WF_vars(\E s \in sent : JobsApply(s))
  /\ SF_vars(AttemptDelivered) /\ WF_vars(Gates)

WaiterSteps(w) == DrainedUpto(w) \/ DrainedCheck(w) \/ DrainedChanged(w)
WaiterFairness == \A w \in Waiters : WF_vars(WaiterSteps(w))

TaskSpec == Spec /\ TaskFairness

\* Everything that is waited for ends, and no wake-up is lost on the way: what a drop
\* of the queue or of its task leaves ends even when jobs never answers; if jobs
\* answers, a write handed over ends without a drop too, and a call of drained()
\* returns unless its caller gives it up.
AllEnd ==
  /\ stopped ~> \A s \in Seqs : s < nextSeq => end[s] # "Open"
  /\ JobsFairness => \A s \in Seqs : s \in pending ~> end[s] # "Open"
  /\ JobsFairness /\ WaiterFairness =>
       \A w \in Waiters : waiter[w].at = "subscribed" ~> waiter[w].at \in {"returned", "idle"}
-----------------------------------------------------------------------------
(* The queue implements the ledger of its writes.                          *)

LedgerStatus ==
  [s \in Seqs |-> IF s >= nextSeq THEN "absent"
                  ELSE IF s \in pending THEN "waiting" ELSE report[s]]

Ledger == INSTANCE WriteLedger WITH status <- LedgerStatus, requested <- sent,
                                    open <- ~stopped

\* Seen by its callers and by jobs, the queue is the ledger of WriteLedger: it
\* takes nothing after its stop, sends and ends in the order of the line, ends
\* each write once, and ends none as delivered that jobs did not take.
ImplementsLedger == Ledger!Spec
=============================================================================
