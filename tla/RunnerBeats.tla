----------------------------- MODULE RunnerBeats -----------------------------
(***************************************************************************)
(* What a runner of br-runner-toolkit tells of itself and what it follows: *)
(* the presence that it puts at every beat and deletes at its end          *)
(* (presence.rs, runner.rs), and the feed of its dispatch mode, from the   *)
(* watch of the bucket (runner_transport/mode.rs) to the state of the loop *)
(* (feeds.rs).  They meet in the beat: a feed that ended, or a task that   *)
(* panicked (supervise.rs), starts again at the next beat of the presence. *)
(* SlotLoop has what the slots do with the mode; the drain is one step.    *)
(* Both buckets are the environment.                                       *)
(***************************************************************************)
EXTENDS Integers, Sequences

CONSTANTS Entries,    \* the values of the entry of the mode in its bucket
          MaxChanges, \* bound on the changes of the entry
          MaxFaults,  \* bound on the ends of the feed, its failed openings and the panics
          MaxLost,    \* bound on the lost operations of a presence bucket that answers
          MaxNet      \* the operations on their way to the presence bucket

Modes == {"Push", "Claim", "NoEntry"}

ASSUME BeatsAssumption ==
  /\ Entries \subseteq Modes \cup {"Unreadable", "NotJson"}
  /\ MaxChanges \in Nat /\ MaxFaults \in Nat /\ MaxLost \in Nat /\ MaxNet \in Nat \ {0}

NoValue == "none"

VARIABLES
  entry,    \* external: the entry of the mode in its bucket
  feed,     \* the task dispatch_mode and its ModeFeed: where it is, the values of the
            \* watch to come, pending, last, ended
  mode,     \* LoopState::mode
  status,   \* Shared::status
  presence, \* the task beats: where it is, and the status that it read last
  net,      \* the operations on their way to the presence bucket, in order
  bucket,   \* external: the presence in its bucket
  main,     \* RunnerBuilder::start: where it is, whether the delete was answered
  up,       \* external: whether the presence bucket answers at all
  spent     \* what the bounds count: changes, faults, lost

vars == <<entry, feed, mode, status, presence, net, bucket, main, up, spent>>
feedVars == <<entry, feed, mode>>
presenceVars == <<status, presence, net, bucket>>

ClosedFeed == [at |-> "off", items |-> <<>>, pending |-> <<>>, last |-> NoValue, ended |-> FALSE]

Init ==
  /\ entry \in Entries
  /\ feed = ClosedFeed /\ mode = "NoEntry"
  /\ status = "Ready" /\ presence = [at |-> "off", current |-> "Ready"]
  /\ net = <<>> /\ bucket = NoValue
  /\ main = [at |-> "begin", deleted |-> FALSE]
  /\ up \in BOOLEAN
  /\ spent = [changes |-> 0, faults |-> 0, lost |-> 0]

Faulty == spent.faults < MaxFaults /\ spent' = [spent EXCEPT !.faults = @ + 1]

-----------------------------------------------------------------------------
(* The start                                                               *)

\* The signals cannot be listened to, the capacity is refused, or the time to live of
\* the presence cannot be read: nothing was spawned.
StartFails ==
  /\ main.at = "begin"
  /\ main' = [main EXCEPT !.at = "failed"]
  /\ UNCHANGED <<feedVars, presenceVars, up, spent>>

\* spawn_loop
Starts ==
  /\ main.at = "begin"
  /\ main' = [main EXCEPT !.at = "serving"]
  /\ feed' = [feed EXCEPT !.at = "open"]
  /\ presence' = [presence EXCEPT !.at = "loop"]
  /\ UNCHANGED <<entry, mode, status, net, bucket, up, spent>>

-----------------------------------------------------------------------------
(* The feed of the dispatch mode                                           *)

FeedAt(place) == feed.at = place
OnlyFeed == UNCHANGED <<entry, mode, presenceVars, main, up>>

FeedOpens ==
  /\ FeedAt("open")
  /\ feed' = [ClosedFeed EXCEPT !.at = "opened"]
  /\ OnlyFeed /\ UNCHANGED spent

FeedNotOpened ==
  /\ FeedAt("open") /\ Faulty
  /\ feed' = [feed EXCEPT !.at = "beat"]
  /\ OnlyFeed

\* ModeFeed::start polls the watch once, and reads the entry only then. The watch may
\* begin with the entry of that moment.
WatchPolled ==
  /\ FeedAt("opened")
  /\ \E first \in {<<>>, <<entry>>} : feed' = [feed EXCEPT !.at = "polled", !.items = first]
  /\ OnlyFeed /\ UNCHANGED spent

\* Mutant: the entry is read before the watch begins.
WatchingLate == FeedAt("next") /\ ~feed.ended
Watching == feed.at \in {"polled", "next"} /\ ~feed.ended

\* read: an entry that is no mode is an error of the feed, and so is one that is no JSON.
read(value) == IF value \in Modes THEN value ELSE "Unreadable"

\* ModeFeed::push: a value equal to the last one is not given again.
push(f, item) ==
  IF item = f.last THEN f
  ELSE [f EXCEPT !.pending = Append(@, item), !.last = IF item \in Modes THEN item ELSE NoValue]

Got ==
  /\ FeedAt("polled") /\ ~feed.ended
  /\ feed' = push([feed EXCEPT !.at = "next"], read(entry))
  /\ OnlyFeed /\ UNCHANGED spent

\* The watch ends at its poll, or the entry cannot be read.
StartOfFeedFails ==
  /\ feed.at \in {"opened", "polled"} /\ Faulty
  /\ feed' = [feed EXCEPT !.at = "next", !.items = <<>>, !.ended = TRUE]
  /\ OnlyFeed

Reading == FeedAt("next") /\ feed.pending = <<>>

\* An item of the watch; it ends on an entry that is not JSON, after the error of it.
Received ==
  /\ Reading /\ ~feed.ended /\ feed.items # <<>>
  /\ LET item == Head(feed.items) IN
     feed' = IF item = "NotJson"
             THEN [feed EXCEPT !.pending = <<"Unreadable">>, !.items = <<>>, !.ended = TRUE]
             ELSE push([feed EXCEPT !.items = Tail(@)], read(item))
  /\ OnlyFeed /\ UNCHANGED spent

\* What the watch did not give yet is lost with it.
WatchEnds ==
  /\ Reading /\ ~feed.ended /\ Faulty
  /\ feed' = [feed EXCEPT !.items = <<>>, !.ended = TRUE]
  /\ OnlyFeed

\* dispatch_mode takes the next item: an unreadable one leaves the mode.
Told ==
  /\ FeedAt("next") /\ feed.pending # <<>>
  /\ mode' = IF Head(feed.pending) \in Modes THEN Head(feed.pending) ELSE mode
  /\ feed' = [feed EXCEPT !.pending = Tail(@)]
  /\ UNCHANGED <<entry, presenceVars, main, up, spent>>

FeedBreaks ==
  /\ Reading /\ feed.ended
  /\ feed' = [ClosedFeed EXCEPT !.at = "beat"]
  /\ OnlyFeed /\ UNCHANGED spent

\* supervised, AfterBeat: the task waits for a beat, or for the drain.
FeedPanics ==
  /\ feed.at \in {"open", "opened", "polled", "next"} /\ Faulty
  /\ feed' = [ClosedFeed EXCEPT !.at = "panicked"]
  /\ OnlyFeed

RestartedByDrain ==
  /\ FeedAt("panicked") /\ main.at \notin {"begin", "serving"}
  /\ feed' = [feed EXCEPT !.at = "open"]
  /\ OnlyFeed /\ UNCHANGED spent

-----------------------------------------------------------------------------
(* The presence                                                            *)

\* Mutant: the status of the first beat is published at every beat.
ReadOnce == presence.current
ReadStatus == status

\* A beat of beats: the status is read and its publication begins.
Publishes ==
  /\ presence.at = "loop" /\ Len(net) < MaxNet
  /\ presence' = [at |-> "publishing", current |-> ReadStatus]
  /\ net' = Append(net, ReadStatus)
  /\ UNCHANGED <<feedVars, status, bucket, main, up, spent>>

\* The publication ends: answered, refused, or its reply wait fired.
PublicationEnds ==
  /\ presence.at = "publishing"
  /\ presence' = [presence EXCEPT !.at = "waiting"]
  /\ UNCHANGED <<feedVars, status, net, bucket, main, up, spent>>

\* on_beat: the waits of next_beat end.
OnBeat ==
  feed' = IF feed.at \in {"beat", "panicked"} THEN [feed EXCEPT !.at = "open"] ELSE feed

\* The next tick, which drops a publication that is still running; a change of the status
\* ends a wait as well, and no wait is longer than a tick.
Beat ==
  /\ presence.at \in {"publishing", "waiting"}
  /\ presence' = [presence EXCEPT !.at = "loop"]
  /\ OnBeat
  /\ UNCHANGED <<entry, mode, status, net, bucket, main, up, spent>>

\* supervised, AtOnce: keep begins again.
Restarted == "loop"

PresencePanics ==
  /\ presence.at \in {"loop", "publishing", "waiting"} /\ Faulty
  /\ presence' = [presence EXCEPT !.at = Restarted]
  /\ UNCHANGED <<feedVars, status, net, bucket, main, up>>

-----------------------------------------------------------------------------
(* The end                                                                 *)

\* wait_for_shutdown, and the drain tells its status.
DrainBegins ==
  /\ main.at = "serving"
  /\ main' = [main EXCEPT !.at = "draining"]
  /\ status' = "Draining"
  /\ UNCHANGED <<feedVars, presence, net, bucket, up, spent>>

\* The drain returns: the abort of the presence is asked.
DrainReturns ==
  /\ main.at = "draining"
  /\ main' = [main EXCEPT !.at = "aborting"]
  /\ UNCHANGED <<feedVars, presenceVars, up, spent>>

\* The task of the presence, which may first finish the poll that it is in, ends.
PresenceJoined ==
  /\ main.at \notin {"begin", "failed", "serving", "draining"} /\ presence.at # "off"
  /\ presence' = [presence EXCEPT !.at = "off"]
  /\ UNCHANGED <<feedVars, status, net, bucket, main, up, spent>>

\* Mutant: the delete is sent without waiting for the task of the presence.
AtOnce == TRUE
PresenceEnded == presence.at = "off"

\* The feeds are aborted, and the presence is deleted.
DeleteSent ==
  /\ main.at = "aborting" /\ PresenceEnded /\ Len(net) < MaxNet
  /\ main' = [main EXCEPT !.at = "deleting"]
  /\ feed' = ClosedFeed
  /\ net' = Append(net, "delete")
  /\ UNCHANGED <<entry, mode, status, presence, bucket, up, spent>>

\* start returns, whether the delete was answered or not.
Returns ==
  /\ main.at = "deleting"
  /\ main' = [main EXCEPT !.at = "returned"]
  /\ UNCHANGED <<feedVars, presenceVars, up, spent>>

-----------------------------------------------------------------------------
(* The buckets                                                             *)

\* The operations of one connection reach the bucket in their order.
Delivered ==
  /\ up /\ net # <<>>
  /\ bucket' = IF Head(net) = "delete" THEN NoValue ELSE Head(net)
  /\ net' = Tail(net)
  /\ main' = [main EXCEPT !.deleted = @ \/ (Head(net) = "delete" /\ main.at = "deleting")]
  /\ UNCHANGED <<feedVars, status, presence, up, spent>>

LostOnTheWay ==
  /\ net # <<>> /\ (up => spent.lost < MaxLost)
  /\ net' = Tail(net)
  /\ spent' = IF up THEN [spent EXCEPT !.lost = @ + 1] ELSE spent
  /\ UNCHANGED <<feedVars, status, presence, bucket, main, up>>

\* The time to live of the presence bucket.
Expires ==
  /\ bucket # NoValue
  /\ bucket' = NoValue
  /\ UNCHANGED <<feedVars, status, presence, net, main, up, spent>>

EntryChanges ==
  /\ spent.changes < MaxChanges
  /\ \E value \in Entries \ {entry} :
       /\ entry' = value
       /\ feed' = IF Watching THEN [feed EXCEPT !.items = Append(@, value)] ELSE feed
  /\ spent' = [spent EXCEPT !.changes = @ + 1]
  /\ UNCHANGED <<mode, presenceVars, main, up>>

-----------------------------------------------------------------------------
FeedTask == FeedOpens \/ WatchPolled \/ Got \/ Received \/ Told \/ FeedBreaks \/ RestartedByDrain
PresenceTask == Publishes \/ PublicationEnds
Ending == PresenceJoined \/ DeleteSent \/ Returns

Next ==
  \/ StartFails \/ Starts
  \/ FeedTask \/ FeedNotOpened \/ StartOfFeedFails \/ WatchEnds \/ FeedPanics
  \/ PresenceTask \/ Beat \/ PresencePanics
  \/ DrainBegins \/ DrainReturns \/ Ending
  \/ Delivered \/ LostOnTheWay \/ Expires \/ EntryChanges

Spec == Init /\ [][Next]_vars

\* The tasks run, a tick comes, and the client sends what it was given; a bucket that
\* answers takes it. Nothing makes the drain begin or return.
Fairness ==
  /\ WF_vars(FeedTask) /\ WF_vars(PresenceTask) /\ WF_vars(Beat) /\ WF_vars(Ending)
  /\ WF_vars(Delivered \/ LostOnTheWay)
FairSpec == Spec /\ Fairness

-----------------------------------------------------------------------------
(* Properties                                                              *)

\* An entry that stays reaches the loop of a runner that serves (mode.rs, feeds.rs):
\* whichever changes fall between the start of the watch, the read of the entry and the
\* items on their way; and the feed ends, is not opened, and its task or the one of the
\* presence panics, and each time a beat starts it again, also when no publication of
\* the presence is ever answered (presence.rs, supervise.rs).
ModeReaches ==
  \A value \in Modes :
    <>[](entry = value /\ main.at = "serving") => <>[](mode = value)

\* A runner that drains says so (presence.rs): as long as the drain goes on, a bucket
\* that answers gets the status Draining, whatever was being published when it began.
DrainTold ==
  main.at = "draining" /\ up ~> bucket = "Draining" \/ main.at # "draining"

\* A runner that returned and whose delete was answered is not seen again (runner.rs):
\* no publication that was dropped or aborted reaches the bucket after the delete.
PresenceGone ==
  main.deleted => bucket = NoValue /\ \A k \in DOMAIN net : net[k] = "delete"
==============================================================================
