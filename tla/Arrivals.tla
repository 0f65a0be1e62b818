------------------------------- MODULE Arrivals -------------------------------
(***************************************************************************)
(* How the end of a child Job reaches the one who waits for it.  Jobs      *)
(* keeps the notice among the unread items of the Run and rings for it on  *)
(* the event stream; the arrival task of the Run keeps a feed open, reads  *)
(* the unread items when the feed opens and again for every run-level      *)
(* notice that is rung, and gives what it finds to the agent book; an end  *)
(* wait looks into the end store of the book and sleeps on its changes.    *)
(*                                                                         *)
(*   jobs    store, rung                (external)                         *)
(*   task    task, wasCut, bell, buffer, resolving, arrivalBreaks          *)
(*   book    ends, alive                                                   *)
(*   waits   wait                                                          *)
(*   history cut, blind                 (read by the properties only)      *)
(***************************************************************************)
EXTENDS Naturals, Sequences, FiniteSets, SequencesExt

CONSTANTS
    Notices,      \* what Jobs stores or rings for
    Form,       \* how each of them reads, see Forms
    ChildOf,    \* the child Job of a notice, or NoChild
    Children, NoChild,
    NoItem,
    Waits,      \* the end waits that are made
    WaitFor,    \* the child of each of them
    MaxArrivalBreaks   \* bound: failures of reads and of the consumer, repeated events, panics

\* "end": a run-level notice that ends its child.  "flawed": one of an ending
\* kind without the field that makes it an end.  "bad": a notice that cannot be
\* decoded but names its item.  "nameless": one that does not even do that.
\* "early": a run-level notice that ends nothing.  "mail": an item for the
\* address of an agent.  "garbled", "foreign": events that cannot be decoded or
\* that are of another Run; nothing is stored for them.
Forms == {"end", "flawed", "bad", "nameless", "early", "mail", "garbled", "foreign"}

\* An item has a form and names a child or none.
ASSUME ArrivalsAssumption ==
    /\ Form \in [Notices -> Forms] /\ ChildOf \in [Notices -> Children \cup {NoChild}]
    /\ WaitFor \in [Waits -> Children]
    /\ NoChild \notin Children /\ NoItem \notin Notices /\ MaxArrivalBreaks \in Nat

NoOutcome == <<>>

VARIABLES store, rung,
          task, wasCut, bell, buffer, resolving, arrivalBreaks,
          ends, alive, wait, cut, blind

arrivalJobs == <<store, rung>>
arrivalFeed == <<task, wasCut, bell, buffer, resolving, arrivalBreaks>>
arrivalBook == <<ends, alive>>
arrivalVars == <<arrivalJobs, arrivalFeed, arrivalBook, wait, cut, blind>>

Outcomes == ({"end", "unreadable"} \X Notices) \cup {<<"infra">>, <<"dropped">>}

\* The variants of Arrival, without their text.
Item(i) == [arrival |-> "item", of |-> i]
SyncEnd(i) == [arrival |-> "end", of |-> i]
Unreadable(i) == [arrival |-> "unreadable", of |-> i]

ArrivalTypeOK ==
    /\ store \in Seq(Notices) /\ rung \subseteq Notices
    /\ task \in {"open", "read", "answered", "next", "beat", "aborted"}
    /\ wasCut \in BOOLEAN /\ alive \in BOOLEAN /\ arrivalBreaks \in 0..MaxArrivalBreaks
    /\ bell \in Seq(Notices) /\ resolving \in Notices \cup {NoItem}
    /\ buffer \in Seq([arrival : {"item", "end", "unreadable"}, of : Notices \cup {NoItem}])
    /\ ends \in [outcomes : [Children -> Outcomes \cup {NoOutcome}],
                 kept : BOOLEAN, generation : Nat]
    /\ wait \in [Waits -> [at : {"none", "decide", "parked", "done"},
                           generation : Nat, changed : BOOLEAN,
                           told : Outcomes \cup {NoOutcome}]]
    /\ cut \in [Waits -> BOOLEAN] /\ blind \subseteq Notices

ArrivalInit ==
    /\ store = <<>> /\ rung = {}
    /\ task = "open" /\ wasCut = FALSE /\ bell = <<>> /\ buffer = <<>>
    /\ resolving = NoItem /\ arrivalBreaks = 0
    /\ ends = [outcomes |-> [c \in Children |-> NoOutcome],
               kept |-> FALSE, generation |-> 0]
    /\ alive = TRUE
    /\ wait = [w \in Waits |-> [at |-> "none", generation |-> 0,
                                changed |-> FALSE, told |-> NoOutcome]]
    /\ cut = [w \in Waits |-> FALSE] /\ blind = {}

-------------------------------------------------------------------------------
(* Jobs and the event stream *)

IsStored(i) == i \in ToSet(store)
\* What the items that are stored give, one after the other.
Over(read) == FlattenSeq([n \in DOMAIN store |-> read[store[n]]])

\* Mutant: the consumer is made after the list was read.
ConsumerAfterRead == task = "next"
HasConsumer == task \in {"read", "answered", "next"}
ArrivalBreaks == arrivalBreaks < MaxArrivalBreaks /\ arrivalBreaks' = arrivalBreaks + 1

\* Jobs stores an item and rings for it once it can be read.  Nobody looks at
\* what it does after the end of the Run.
Stored(i) ==
    /\ Form[i] \notin {"garbled", "foreign"}
    /\ alive /\ ~IsStored(i) /\ i \notin rung
    /\ store' = Append(store, i)
    /\ UNCHANGED <<rung, arrivalFeed, arrivalBook, wait, cut, blind>>

\* The consumer of the feed has every event that is published while it exists
\* (DeliverPolicy::New); an event without a consumer is gone.
RungFor(i) ==
    /\ alive /\ i \notin rung
    /\ IsStored(i) \/ Form[i] \in {"garbled", "foreign"}
    /\ rung' = rung \cup {i}
    /\ bell' = IF HasConsumer THEN Append(bell, i) ELSE bell
    /\ UNCHANGED <<store, task, wasCut, buffer, resolving, arrivalBreaks, arrivalBook, wait, cut, blind>>

\* The acknowledgement of an event may fail unseen: the event comes again.
RungAgain(i) ==
    /\ i \in rung \ ToSet(bell)
    /\ HasConsumer /\ ArrivalBreaks
    /\ bell' = Append(bell, i)
    /\ UNCHANGED <<arrivalJobs, task, wasCut, buffer, resolving, arrivalBook, wait, cut, blind>>

\* Once a wait was told, the caller finishes the call and Jobs drops the notice.
Dropped(i) ==
    /\ alive /\ IsStored(i)
    /\ \E w \in Waits : wait[w].told = <<"end", i>>
    /\ store' = Over([j \in Notices |-> IF j = i THEN <<>> ELSE <<j>>])
    /\ UNCHANGED <<rung, arrivalFeed, arrivalBook, wait, cut, blind>>

-------------------------------------------------------------------------------
(* The end store of the agent book *)

\* The watch channel: every wait that is subscribed has a change to see.
Signalled(ws) ==
    [w \in Waits |-> [ws[w] EXCEPT !.changed = @ \/ ws[w].at \in {"decide", "parked"}]]

\* The first outcome of a child is kept, a later one changes nothing.
Record(c, outcome) ==
    IF ends.outcomes[c] = NoOutcome
    THEN /\ ends' = [ends EXCEPT !.outcomes[c] = outcome]
         /\ wait' = Signalled(wait)
    ELSE UNCHANGED <<ends, wait>>

\* AgentBook::arrival.  An item wakes the watchers of its address, which the
\* module InboxPort models; here it changes nothing, and neither does what
\* cannot be read and names no child.
ChildNamed(a) == IF a.of = NoItem THEN NoChild ELSE ChildOf[a.of]

BookArrival(a) ==
    IF a.arrival # "item" /\ ChildNamed(a) # NoChild
    THEN Record(ChildNamed(a), <<a.arrival, a.of>>)
    ELSE UNCHANGED <<ends, wait>>

\* AgentBook::arrival_ended.  Only a missing stream, consumer or Jobs ends the
\* waits; after a lost connection they go on.
\* Mutant: the end of the feed is noted and the waits are not woken.
EndedQuietly(error) ==
    /\ ends' = IF error = "infra"
               THEN [ends EXCEPT !.kept = TRUE, !.generation = @ + 1] ELSE ends
    /\ cut' = [w \in Waits |-> cut[w] \/ (error = "infra" /\ wait[w].at # "none")]
    /\ wait' = wait

ArrivalEnded(error) ==
    /\ ends' = IF error = "infra"
               THEN [ends EXCEPT !.kept = TRUE, !.generation = @ + 1] ELSE ends
    /\ wait' = IF error = "infra" THEN Signalled(wait) ELSE wait
    /\ cut' = [w \in Waits |-> cut[w] \/ (error = "infra" /\ wait[w].at # "none")]

-------------------------------------------------------------------------------
(* The arrival feed *)

\* What one unread item gives: an end, a bad item, or nothing.
EndsSync(i) ==
    CASE Form[i] = "end" -> <<SyncEnd(i)>>
      [] Form[i] = "flawed" -> <<Unreadable(i)>>
      [] OTHER -> <<>>

IsBad(i) == Form[i] \in {"bad", "nameless"}

ReplayOne(i) == IF IsBad(i) THEN <<Unreadable(i)>> ELSE <<Item(i)>> \o EndsSync(i)

\* A bad item that does not name itself may be the one that was rung for.
Resolved(i, event) ==
    IF IsBad(i)
    THEN IF Form[i] = "nameless" \/ i = event THEN <<Unreadable(i)>> ELSE <<>>
    ELSE IF i = event THEN EndsSync(i) ELSE <<>>

IsRunLevelNotice(i) == Form[i] \in {"end", "flawed", "bad", "nameless", "early"}

-------------------------------------------------------------------------------
(* The arrival task of a Run: keep and one_feed *)

\* The consumer is made before the unread items are read.
OpenConsumer ==
    /\ task = "open"
    /\ task' = "read" /\ bell' = <<>> /\ buffer' = <<>> /\ resolving' = NoItem
    /\ UNCHANGED <<arrivalJobs, wasCut, arrivalBreaks, arrivalBook, wait, cut, blind>>

\* Jobs answers with what it holds now; the answer is used later.
ReadGiven ==
    /\ task = "read"
    /\ task' = "answered"
    /\ buffer' = Over([i \in Notices |-> ReplayOne(i)])
    /\ blind' = {}
    /\ UNCHANGED <<arrivalJobs, wasCut, bell, resolving, arrivalBreaks, arrivalBook, wait, cut>>

\* The whole list cannot be decoded: the feed opens without a replay.
ReadUnreadable ==
    /\ task = "read" /\ ArrivalBreaks
    /\ task' = "answered"
    /\ buffer' = <<Unreadable(NoItem)>>
    /\ blind' = blind \cup {i \in ToSet(store) : i \in rung /\ i \notin ToSet(bell)}
    /\ UNCHANGED <<arrivalJobs, wasCut, bell, resolving, arrivalBook, wait, cut>>

\* The feed is open; a task that was cut tells the book so.
OpenAgain ==
    /\ task = "answered"
    /\ task' = "next" /\ wasCut' = FALSE
    /\ ends' = [ends EXCEPT !.kept = @ /\ ~wasCut]
    /\ UNCHANGED <<arrivalJobs, bell, buffer, resolving, arrivalBreaks, alive, wait, cut, blind>>

\* The feed cannot be opened, or its consumer fails, or the read that resolves a
\* notice fails: the book is told, the feed is dropped and opened after a beat.
FeedEnds(error) ==
    /\ task \in {"open", "read", "next"} /\ ArrivalBreaks
    /\ task = "next" => buffer = <<>>
    /\ ArrivalEnded(error)
    /\ task' = "beat" /\ wasCut' = TRUE
    /\ bell' = <<>> /\ buffer' = <<>> /\ resolving' = NoItem
    /\ UNCHANGED <<arrivalJobs, alive, blind>>

\* A panic of the task: the book is told of an error that ends no wait.
Panics ==
    /\ task \in {"open", "read", "next"} /\ ArrivalBreaks
    /\ ArrivalEnded("invalid")
    /\ task' = "beat" /\ wasCut' = TRUE
    /\ bell' = <<>> /\ buffer' = <<>> /\ resolving' = NoItem
    /\ UNCHANGED <<arrivalJobs, alive, blind>>

NextBeat ==
    /\ task = "beat"
    /\ task' = "open"
    /\ UNCHANGED <<arrivalJobs, wasCut, bell, buffer, resolving, arrivalBreaks, arrivalBook, wait, cut, blind>>

Give ==
    /\ task = "next" /\ buffer # <<>>
    /\ BookArrival(Head(buffer))
    /\ buffer' = Tail(buffer)
    /\ UNCHANGED <<arrivalJobs, task, wasCut, bell, resolving, arrivalBreaks, alive, cut, blind>>

\* One event of the consumer: one of another Run is skipped, one that cannot be
\* decoded is given as such, a run-level notice is to be resolved.
Pull ==
    /\ task = "next" /\ buffer = <<>> /\ resolving = NoItem /\ bell # <<>>
    /\ LET i == Head(bell) IN
       /\ bell' = Tail(bell)
       /\ buffer' = CASE Form[i] = "foreign" -> <<>>
                      [] Form[i] = "garbled" -> <<Unreadable(NoItem)>>
                      [] OTHER -> <<Item(i)>>
       /\ resolving' = IF IsRunLevelNotice(i) THEN i ELSE NoItem
    /\ UNCHANGED <<arrivalJobs, task, wasCut, arrivalBreaks, arrivalBook, wait, cut, blind>>

Resolve ==
    /\ task = "next" /\ buffer = <<>> /\ resolving # NoItem
    /\ buffer' = Over([i \in Notices |-> Resolved(i, resolving)])
    /\ resolving' = NoItem
    /\ UNCHANGED <<arrivalJobs, task, wasCut, bell, arrivalBreaks, arrivalBook, wait, cut, blind>>

ResolveUnreadable ==
    /\ task = "next" /\ buffer = <<>> /\ resolving # NoItem /\ ArrivalBreaks
    /\ buffer' = <<Unreadable(NoItem)>>
    /\ blind' = blind \cup {resolving}
    /\ resolving' = NoItem
    /\ UNCHANGED <<arrivalJobs, task, wasCut, bell, arrivalBook, wait, cut>>

\* The Run is over: its arrival task is aborted and the book dropped, and with
\* it the sender of the watch channel.
BookDropped ==
    /\ alive
    /\ alive' = FALSE /\ task' = "aborted"
    /\ bell' = <<>> /\ buffer' = <<>> /\ resolving' = NoItem
    /\ UNCHANGED <<arrivalJobs, wasCut, arrivalBreaks, ends, wait, cut, blind>>

-------------------------------------------------------------------------------
(* End waits *)

\* CallerHandle::end_wait: the generation is read and the changes are subscribed
\* when the wait is made, not when it is first polled.
WaitMade(w) ==
    /\ wait[w].at = "none"
    /\ wait' = [wait EXCEPT ![w] =
                  IF alive
                  THEN [@ EXCEPT !.at = "decide", !.generation = ends.generation]
                  ELSE [@ EXCEPT !.at = "done", !.told = <<"dropped">>]]
    /\ cut' = [cut EXCEPT ![w] = ends.kept]
    /\ UNCHANGED <<arrivalJobs, arrivalFeed, arrivalBook, blind>>

\* Mutant: a wait is failed by any end of the feed, also one before it.
DecideByLast(c, generation) ==
    CASE ends.outcomes[c] # NoOutcome -> ends.outcomes[c]
      [] ends.outcomes[c] = NoOutcome /\ (ends.kept \/ ends.generation > 0) -> <<"infra">>
      [] OTHER -> NoOutcome

\* EndStore::decide.
Decide(c, generation) ==
    CASE ends.outcomes[c] # NoOutcome -> ends.outcomes[c]
      [] ends.outcomes[c] = NoOutcome /\ (ends.kept \/ ends.generation # generation) -> <<"infra">>
      [] OTHER -> NoOutcome

\* One turn of watch_store: told, or parked on the changes.
Polled(w) ==
    /\ wait[w].at = "decide"
    /\ LET told == IF alive THEN Decide(WaitFor[w], wait[w].generation) ELSE <<"dropped">> IN
       wait' = [wait EXCEPT ![w] = IF told = NoOutcome
                                   THEN [@ EXCEPT !.at = "parked"]
                                   ELSE [@ EXCEPT !.at = "done", !.told = told, !.changed = FALSE]]
    /\ UNCHANGED <<arrivalJobs, arrivalFeed, arrivalBook, cut, blind>>

WaitWoken(w) ==
    /\ wait[w].at = "parked"
    /\ wait[w].changed \/ ~alive
    /\ wait' = [wait EXCEPT ![w] =
                  IF wait[w].changed
                  THEN [@ EXCEPT !.at = "decide", !.changed = FALSE]
                  ELSE [@ EXCEPT !.at = "done", !.told = <<"dropped">>]]
    /\ UNCHANGED <<arrivalJobs, arrivalFeed, arrivalBook, cut, blind>>

-------------------------------------------------------------------------------
TaskStep == \/ OpenConsumer \/ ReadGiven \/ OpenAgain \/ NextBeat \/ Give \/ Pull \/ Resolve

ArrivalNext ==
    \/ \E i \in Notices : Stored(i) \/ RungFor(i) \/ RungAgain(i) \/ Dropped(i)
    \/ TaskStep
    \/ ReadUnreadable \/ ResolveUnreadable
    \/ \E error \in {"infra", "lost"} : FeedEnds(error)
    \/ Panics \/ BookDropped
    \/ \E w \in Waits : WaitMade(w) \/ Polled(w) \/ WaitWoken(w)

ArrivalSpec == ArrivalInit /\ [][ArrivalNext]_arrivalVars

-------------------------------------------------------------------------------
\* A wait that sleeps with no change to see has nothing to be told: neither an
\* outcome nor a failure slips in between the look into the store and the sleep.
NoLostWake ==
    \A w \in Waits : (alive /\ wait[w].at = "parked" /\ ~wait[w].changed)
                        => Decide(WaitFor[w], wait[w].generation) = NoOutcome

\* A wait is told what is true of its own time: it is failed for a missing infrastructure
\* only if the feed was down for it when it was made or went down since, never for a
\* failure that was over before; and all the waits of one child that are told an outcome
\* are told the same one, of their child, whether it was replayed, rung, rung twice or
\* read between two failures of the feed.
NotFailedForThePast ==
    \A v, w \in Waits :
        LET told == wait[w].told IN
        /\ told = <<"infra">> => cut[w]
        /\ Len(told) = 2 =>
             /\ ChildOf[told[2]] = WaitFor[w]
             /\ WaitFor[v] = WaitFor[w] /\ Len(wait[v].told) = 2
                   => wait[v].told = told

\* No end is lost between the list that the feed replays and the events that follow, or
\* in a break of the feed: once the task has given all that it holds, the book has an
\* outcome for every end that Jobs stored and rang for.  The exception is an end that only
\* a list that could not be decoded would have shown.
EndKnown ==
    (alive /\ task = "next" /\ buffer = <<>> /\ bell = <<>> /\ resolving = NoItem) =>
        \A i \in (ToSet(store) \cap rung) \ blind :
            Form[i] \in {"end", "flawed", "bad"} /\ ChildOf[i] # NoChild
                => ends.outcomes[ChildOf[i]] # NoOutcome
===============================================================================
