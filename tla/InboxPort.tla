------------------------------ MODULE InboxPort -------------------------------
(***************************************************************************)
(* The inbox port of an agent over its agent book: listing the unread      *)
(* items page by page, waiting for one, marking one as read, sending mail. *)
(* Jobs keeps the items of the agent; a read of them is an await, so marks *)
(* and other calls come between the question and the use of the answer.    *)
(* The arrival feed is taken at what the module Arrivals shows of it: what *)
(* is stored while it is up is rung for, and what is unread is rung for    *)
(* again when it comes back.  An event, an item or a whole listing that    *)
(* cannot be read rings for nothing, and the feed goes on.                 *)
(*                                                                         *)
(*   jobs   unread, stored, ring       (external)                          *)
(*   queue  written, registration      (the delivery queue, as seen here)  *)
(*   book   booked, restored, kept, marked, listed, snapshot, taken, left  *)
(*   calls  callers, list, watch                                           *)
(*   feed   up, breaks                                                     *)
(*   history deaf                      (read by the properties only)       *)
(***************************************************************************)
EXTENDS Naturals, Sequences, FiniteSets, SequencesExt

CONSTANTS
    MaxItems,   \* bound: items 1..MaxItems are stored, in the order of their ids
    Mails,      \* mails the agent may send
    Listers,    \* listings: calls of InboxPort::items that follow one cursor
    Waiters,    \* callers of InboxPort::wait
    Limit,      \* the size of a page
    CallerSets, \* bound: the listings and waits of one behaviour
    MaxBreaks   \* bound: failed reads and ends of the feed

ASSUME InboxAssumption ==
    /\ MaxItems \in Nat /\ MaxBreaks \in Nat /\ Limit \in Nat \ {0}
    /\ CallerSets \subseteq SUBSET (Listers \cup Waiters)

Items == 1..MaxItems

VARIABLES unread, stored, ring, written, registration,
          booked, restored, kept, marked, listed, snapshot, taken, left,
          callers, list, watch, up, breaks, deaf

jobs == <<unread, stored, ring>>
queue == <<written, registration>>
inbox == <<marked, listed, snapshot, taken>>
book == <<booked, restored, kept, inbox, left>>
feed == <<up, breaks, deaf>>
calls == <<callers, list, watch>>
vars == <<jobs, queue, book, calls, feed>>

\* The writes this module hands to the delivery queue.
Writes == ({"marker"} \X Items) \cup ({"mail"} \X Mails) \cup {<<"registration">>}

NoList == [at |-> "idle", after |-> 0, rest |-> <<>>, fresh |-> <<>>, more |-> FALSE,
           given |-> <<>>, due |-> {}, out |-> {}, behind |-> FALSE]
NoWatch == [at |-> "none", wakes |-> {}, waitsForIt |-> FALSE, first |-> TRUE,
            found |-> <<>>]

ListType == [at : {"idle", "read", "convert", "page", "end", "failed"},
             after : 0..MaxItems, rest : Seq(Items), fresh : Seq(Items), more : BOOLEAN,
             given : Seq(Items), due : SUBSET Items, out : SUBSET Items, behind : BOOLEAN]
WatchType == [at : {"none", "look", "read", "answered", "asleep", "item", "error"},
              wakes : SUBSET {"item", "ended"}, waitsForIt : BOOLEAN, first : BOOLEAN,
              found : Seq(Items)]

TypeOK ==
    /\ unread \in Seq(Items) /\ stored \in 0..MaxItems /\ ring \subseteq Items
    /\ written \in [Writes -> Nat] /\ registration \in {"none", "queued", "ended"}
    /\ {booked, restored, kept, up, left} \subseteq BOOLEAN
    /\ marked \subseteq Items /\ listed \subseteq Items /\ taken \subseteq Mails
    /\ snapshot \in Seq(Items) /\ breaks \in 0..MaxBreaks
    /\ list \in [Listers -> ListType] /\ watch \in [Waiters -> WatchType]
    /\ deaf \in [Waiters -> SUBSET Items]

\* A book is made empty, or with the agent restored from a Run before.
Init ==
    /\ unread = <<>> /\ stored = 0 /\ ring = {}
    /\ restored \in BOOLEAN /\ booked = restored
    /\ registration = IF restored THEN "queued" ELSE "none"
    /\ written = [w \in Writes |-> IF w = <<"registration">> /\ restored THEN 1 ELSE 0]
    /\ kept = FALSE /\ marked = {} /\ listed = {} /\ snapshot = <<>> /\ taken = {}
    /\ left = FALSE
    /\ callers \in CallerSets
    /\ list = [l \in Listers |-> NoList] /\ watch = [v \in Waiters |-> NoWatch]
    /\ up = TRUE /\ breaks = 0 /\ deaf = [v \in Waiters |-> {}]

\* The items of a list that are in a set, in their order.
Only(items, set) ==
    FlattenSeq([n \in DOMAIN items |-> IF items[n] \in set THEN <<items[n]>> ELSE <<>>])

Breaks == breaks < MaxBreaks /\ breaks' = breaks + 1
Enqueued(w) == written' = [written EXCEPT ![w] = @ + 1]

-------------------------------------------------------------------------------
(* The agents of the book *)

\* AgentBook::agent_for: found under the lock, or registered under it.
AgentFor ==
    /\ ~left /\ ~booked
    /\ booked' = TRUE /\ registration' = "queued"
    /\ Enqueued(<<"registration">>)
    /\ UNCHANGED <<jobs, restored, kept, inbox, left, calls, feed>>

\* The registration left the queue.
RegistrationEnds ==
    /\ registration = "queued"
    /\ registration' = "ended"
    /\ UNCHANGED <<jobs, written, book, calls, feed>>

\* The agent is booked under the inbox key of the node, with an inbox.
HoldsInbox == booked

RegistrationQueued == ~restored /\ registration = "queued"

-------------------------------------------------------------------------------
(* Jobs and the arrival feed *)

\* What the properties remember: items that the feed did not ring for since the last
\* read of a wait, because it could not read what told of them.
Unrung(items) == deaf' = [v \in Waiters |-> deaf[v] \cup items]

\* The feed that is up rings for the item, if it can read the event.
ItemStored(readable) ==
    /\ booked /\ ~left /\ stored < MaxItems
    /\ stored' = stored + 1
    /\ unread' = Append(unread, stored + 1)
    /\ ring' = IF up /\ readable THEN ring \cup {stored + 1} ELSE ring
    /\ Unrung(IF up /\ ~readable THEN {stored + 1} ELSE {})
    /\ UNCHANGED <<queue, book, calls, up, breaks>>

\* A marker was written: Jobs drops the item.
MarkerSent(i) ==
    /\ written[<<"marker", i>>] > 0 /\ i \in ToSet(unread)
    /\ unread' = Only(unread, Items \ {i})
    /\ UNCHANGED <<stored, ring, queue, book, calls, feed>>

\* Mutant: a wait that reads is not woken.
WatchingAsleep == {v \in Waiters : watch[v].at = "asleep"}
Watching == {v \in Waiters : watch[v].at \in {"look", "read", "answered", "asleep"}}

WakeAll(wake) == watch' = [v \in Waiters |->
    IF v \in Watching THEN [watch[v] EXCEPT !.wakes = @ \cup {wake}] ELSE watch[v]]

\* AgentBook::arrival with an item: Inbox::wake_address.
Rung(i) ==
    /\ up /\ ~left /\ i \in ring
    /\ ring' = ring \ {i}
    /\ WakeAll("item")
    /\ UNCHANGED <<unread, stored, queue, book, callers, list, feed>>

\* AgentBook::arrival_ended: a missing infrastructure is kept, all are woken.
FeedEnded(error) ==
    /\ up /\ ~left /\ Breaks
    /\ up' = FALSE /\ ring' = {}
    /\ kept' = (kept \/ error = "infra")
    /\ WakeAll("ended")
    /\ UNCHANGED <<unread, stored, queue, booked, restored, inbox, left, callers, list, deaf>>

\* AgentBook::arrival_open_again, and the replay of what is unread.  ArrivalFeed::from_raw
\* decodes each item alone and opens the feed with no replay at all when the listing is
\* malformed: what it could read is rung for.
FeedBack(readable) ==
    /\ ~up /\ ~left /\ readable \subseteq ToSet(unread)
    /\ up' = TRUE /\ kept' = FALSE /\ ring' = readable
    /\ Unrung(ToSet(unread) \ readable)
    /\ UNCHANGED <<unread, stored, queue, booked, restored, inbox, left, calls, breaks>>

-------------------------------------------------------------------------------
(* InboxPort::items *)

LeaveOutMarked(items) == Only(items, Items \ marked)

LaterThan(items, after) == Only(items, {i \in Items : i > after})

\* The items behind the cursor, if the list has it.
HasItem(items, after) == after \in ToSet(items)
AfterItem(items, after) == SubSeq(items, CHOOSE n \in DOMAIN items : items[n] = after, Len(items))

\* Mutant: a cursor that the list lost ends the listing.
NothingLater(items, after) ==
    IF after = 0 THEN items
    ELSE IF HasItem(items, after) THEN Tail(AfterItem(items, after)) ELSE <<>>

RestOf(items, after) ==
    IF after = 0 THEN items
    ELSE IF HasItem(items, after) THEN Tail(AfterItem(items, after))
    ELSE LaterThan(items, after)

\* What the properties remember of a listing that begins: what is unread and what is
\* marked, and whether another one has read and not yet kept what it read.
Begun(l) == [list[l] EXCEPT !.at = "read", !.due = ToSet(unread) \ marked, !.out = marked,
               !.behind = \E k \in Listers : list[k].at = "convert" /\ list[k].fresh # <<>>]

\* The page is cut out of the rest; its items are converted, which may await.
Page(l, rest, fresh) ==
    LET left_in == LeaveOutMarked(rest) IN
    list' = [list EXCEPT ![l].at = "convert", ![l].fresh = fresh,
                         ![l].rest = SubSeq(left_in, 1, IF Len(left_in) < Limit THEN Len(left_in) ELSE Limit),
                         ![l].more = Len(left_in) > Limit]

\* A listing begins with no cursor or goes on behind the last item it was given.
\* An agent whose registration is queued has no items yet.
ListAsked(l) ==
    /\ l \in callers /\ HoldsInbox /\ ~left /\ list[l].at \in {"idle", "page"}
    /\ LET after == list[l].after
           kept_list == after # 0 /\ HasItem(snapshot, after)
       IN IF RegistrationQueued
          THEN list' = [list EXCEPT ![l].at = "end"]
          ELSE IF kept_list
          THEN Page(l, RestOf(snapshot, after), <<>>)
          ELSE list' = [list EXCEPT ![l] =
                  IF after = 0 THEN Begun(l) ELSE [@ EXCEPT !.at = "read"]]
    /\ UNCHANGED <<jobs, queue, book, callers, watch, feed>>

ListRead(l) ==
    /\ list[l].at = "read"
    /\ Page(l, RestOf(unread, list[l].after), unread)
    /\ UNCHANGED <<jobs, queue, book, callers, watch, feed>>

\* The read fails, or an item of the page cannot be converted.
ListFails(l) ==
    /\ list[l].at \in {"read", "convert"} /\ Breaks
    /\ list' = [list EXCEPT ![l].at = "failed"]
    /\ UNCHANGED <<jobs, queue, book, callers, watch, up, deaf>>

\* The snapshot is kept while there is a next page, the items are recorded.
ListGiven(l) ==
    /\ list[l].at = "convert"
    /\ LET page == list[l].rest IN
       /\ list' = [list EXCEPT ![l].at = IF list[l].more THEN "page" ELSE "end",
                               ![l].after = IF page = <<>> THEN @ ELSE Last(page),
                               ![l].given = @ \o page, ![l].rest = <<>>, ![l].fresh = <<>>]
       /\ snapshot' = IF ~list[l].more THEN <<>>
                      ELSE IF list[l].fresh # <<>> THEN list[l].fresh ELSE snapshot
       /\ listed' = listed \cup ToSet(page)
    /\ UNCHANGED <<jobs, queue, booked, restored, kept, marked, taken, left, callers, watch, feed>>

-------------------------------------------------------------------------------
(* InboxPort::mark_read and InboxPort::send *)

\* Only what was listed is marked, and only once: the marker is held for its gate.
MarkRead(i) ==
    /\ ~left /\ i \in listed
    /\ i \notin marked
    /\ marked' = marked \cup {i}
    /\ Enqueued(<<"marker", i>>)
    /\ UNCHANGED <<jobs, registration, booked, restored, kept, listed, snapshot, taken, left, calls, feed>>

Send(mail) ==
    /\ HoldsInbox /\ ~left
    /\ mail \notin taken
    /\ taken' = taken \cup {mail}
    /\ Enqueued(<<"mail", mail>>)
    /\ UNCHANGED <<jobs, registration, booked, restored, kept, marked, listed, snapshot, left, calls, feed>>

-------------------------------------------------------------------------------
(* InboxPort::wait *)

\* The watch is subscribed before the first look.
WaitAsked(v) ==
    /\ v \in callers /\ HoldsInbox /\ ~left /\ watch[v].at = "none"
    /\ watch' = [watch EXCEPT ![v] = [NoWatch EXCEPT !.at = "look",
                                                     !.waitsForIt = RegistrationQueued]]
    /\ UNCHANGED <<jobs, queue, book, callers, list, feed>>

\* Nothing is held: the first look also asks how the feed is.
Nothing(v) == [watch[v] EXCEPT !.at = IF watch[v].first /\ kept THEN "error" ELSE "asleep",
                               !.first = FALSE]

\* One turn of the loop up to the read.  The book may be gone.
Look(v) ==
    /\ watch[v].at = "look"
    /\ watch' = [watch EXCEPT ![v] =
          IF left THEN [watch[v] EXCEPT !.at = "error"]
          ELSE IF RegistrationQueued THEN Nothing(v)
          ELSE [watch[v] EXCEPT !.at = "read", !.waitsForIt = FALSE]]
    /\ UNCHANGED <<jobs, queue, book, callers, list, feed>>

\* Jobs answers with what it holds now; the marks are looked at afterwards.
WaitAnswered(v) ==
    /\ watch[v].at = "read"
    /\ watch' = [watch EXCEPT ![v].at = "answered", ![v].found = unread]
    /\ deaf' = [deaf EXCEPT ![v] = {}]
    /\ UNCHANGED <<jobs, queue, book, callers, list, up, breaks>>

WaitRead(v) ==
    /\ watch[v].at = "answered"
    /\ watch' = [watch EXCEPT ![v] =
          IF LeaveOutMarked(@.found) # <<>>
          THEN [NoWatch EXCEPT !.at = "item"] ELSE [Nothing(v) EXCEPT !.found = <<>>]]
    /\ UNCHANGED <<jobs, queue, book, callers, list, feed>>

WaitReadFails(v) ==
    /\ watch[v].at = "read" /\ Breaks
    /\ watch' = [watch EXCEPT ![v].at = "error"]
    /\ UNCHANGED <<jobs, queue, book, callers, list, up, deaf>>

\* Woken by an item, by the end of the feed, by the end of the registration or
\* by the book going away; all the wakes that wait are taken with the first.
Wakes(v) ==
    \/ watch[v].wakes # {}
    \/ watch[v].waitsForIt /\ registration = "ended"
    \/ left

Woken(v) ==
    /\ watch[v].at = "asleep" /\ Wakes(v)
    /\ watch' = [watch EXCEPT ![v] =
          [watch[v] EXCEPT !.at = IF left \/ "ended" \in watch[v].wakes THEN "error" ELSE "look",
                           !.wakes = {},
                           !.waitsForIt = watch[v].waitsForIt /\ registration # "ended"]]
    /\ UNCHANGED <<jobs, queue, book, callers, list, feed>>

\* A wait holds the book until it first sleeps and while it reads.
HoldsBook(w) == w.at \in {"read", "answered"} \/ (w.at = "look" /\ w.first)

\* Everyone but the waits has let go of the book: its watchers are dropped.
BookLeft ==
    /\ ~left /\ \A l \in Listers : list[l].at \notin {"read", "convert"}
    /\ \A v \in Waiters : ~HoldsBook(watch[v])
    /\ left' = TRUE
    /\ UNCHANGED <<jobs, queue, booked, restored, kept, inbox, calls, feed>>

-------------------------------------------------------------------------------
Next ==
    \/ AgentFor \/ RegistrationEnds
    \/ BookLeft
    \/ \E readable \in BOOLEAN : ItemStored(readable)
    \/ \E readable \in SUBSET Items : FeedBack(readable)
    \/ \E i \in Items : MarkerSent(i) \/ Rung(i) \/ MarkRead(i)
    \/ \E error \in {"infra", "lost"} : FeedEnded(error)
    \/ \E l \in Listers : ListAsked(l) \/ ListRead(l) \/ ListFails(l) \/ ListGiven(l)
    \/ \E mail \in Mails : Send(mail)
    \/ \E v \in Waiters : WaitAsked(v) \/ Look(v) \/ WaitAnswered(v) \/ WaitRead(v) \/ WaitReadFails(v) \/ Woken(v)

Spec == Init /\ [][Next]_vars

-------------------------------------------------------------------------------
\* A wait that sleeps with nothing to wake it misses no item, while the feed is up: one
\* that is unread and not marked is still to be rung for.  The one excuse is an item that
\* the feed did not ring for after the last read of this wait, because it could not read
\* the event, the item or the listing: such an item waits for the next ring or the next
\* wait.  An item stored before that read is never excused.
NoItemMissed ==
    \A v \in Waiters :
        (watch[v].at = "asleep" /\ ~Wakes(v) /\ ~RegistrationQueued /\ up)
            => ToSet(unread) \ marked \subseteq ring \cup deaf[v]

\* The pages of a listing are in the order of Jobs, with no item twice and no hole: an item
\* that was unread when it began, up to the last one given, is given or was marked
\* meanwhile, whatever other listings did with the one snapshot of the agent.  A listing
\* that ended gave every such item, unless another one was behind: had read before it
\* began and kept what it read afterwards.  An item marked before it began is in none of
\* its pages, though Jobs may hold it as unread until the marker is sent.
ListingWhole ==
    \A l \in Listers :
        /\ \A i \in list[l].due \ marked :
             \/ i <= list[l].after
             \/ list[l].at = "end" /\ ~list[l].behind
             => i \in ToSet(list[l].given)
        /\ \A m, n \in DOMAIN list[l].given : m < n => list[l].given[m] < list[l].given[n]
        /\ list[l].out \cap ToSet(list[l].given \o list[l].rest) = {}
===============================================================================
