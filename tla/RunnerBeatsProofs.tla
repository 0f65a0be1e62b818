------------------------- MODULE RunnerBeatsProofs -------------------------
(***************************************************************************)
(* A runner whose delete was answered is not seen again, for any number of *)
(* operations on their way, faults and changes: the task of the presence   *)
(* has ended before the delete is sent, so the delete is the last of them. *)
(***************************************************************************)
EXTENDS RunnerBeats, TLAPS

Statuses == {"Ready", "Draining"}
Over == {"deleting", "returned"}

BeatTypes ==
  /\ status \in Statuses
  /\ presence \in [at : {"off", "loop", "publishing", "waiting"}, current : Statuses]
  /\ net \in Seq(Statuses \cup {"delete"})
  /\ main \in [at : {"begin", "failed", "serving", "draining", "aborting"} \cup Over,
               deleted : BOOLEAN]

\* Once the delete is sent no task of the presence runs.
Silent == main.at \in Over => presence.at = "off"

\* The delete is the last operation on its way.
DeleteLast == \A k \in DOMAIN net : net[k] = "delete" => main.at \in Over /\ k = Len(net)

\* An answered delete has left nothing on the way, and the bucket without the runner.
NothingAfter == main.deleted => main.at \in Over /\ net = <<>> /\ bucket = NoValue

GoneInv == BeatTypes /\ Silent /\ DeleteLast /\ NothingAfter

-----------------------------------------------------------------------------
\* Nothing is on its way before the start (RunnerBuilder::start).
LEMMA InitGone == Init => GoneInv
  BY DEF Init, GoneInv, BeatTypes, Statuses, Over, Silent, DeleteLast, NothingAfter

\* What concerns neither the presence nor the end leaves the invariant as it is.
LEMMA StutterGone ==
  ASSUME GoneInv, UNCHANGED <<status, presence, net, bucket, main>>
  PROVE  GoneInv'
  BY DEF GoneInv, BeatTypes, Silent, DeleteLast, NothingAfter

\* The feed of the dispatch mode touches neither (feeds.rs, mode.rs).
LEMMA FeedGone ==
  ASSUME GoneInv,
         \/ FeedTask \/ FeedNotOpened \/ StartOfFeedFails \/ WatchEnds \/ FeedPanics
         \/ EntryChanges
  PROVE  GoneInv'
<1>1. UNCHANGED <<status, presence, net, bucket, main>>
  BY DEF FeedTask, FeedOpens, WatchPolled, Got, Received, Told, FeedBreaks, RestartedByDrain,
         FeedNotOpened, StartOfFeedFails, WatchEnds, FeedPanics, EntryChanges, OnlyFeed,
         presenceVars
<1> QED BY <1>1, StutterGone

\* A beat publishes only while the task runs, so before the delete (beats, keep).
LEMMA PresenceStepGone ==
  ASSUME GoneInv, Publishes \/ PublicationEnds \/ Beat \/ PresencePanics
  PROVE  GoneInv'
<1>1. presence.at # "off" /\ main.at \notin Over /\ ~main.deleted /\ UNCHANGED <<status, main, bucket>>
  BY DEF GoneInv, Silent, NothingAfter, Publishes, PublicationEnds, Beat, PresencePanics
<1>2. BeatTypes'
  BY <1>1 DEF GoneInv, BeatTypes, Publishes, PublicationEnds, Beat, PresencePanics, ReadStatus,
         Restarted
<1>3. DeleteLast'
  <2>1. \A k \in DOMAIN net : net[k] # "delete"
    BY <1>1 DEF GoneInv, DeleteLast
  <2>2. CASE Publishes
    <3>1. /\ net \in Seq(Statuses \cup {"delete"}) /\ status \in Statuses
          /\ net' = Append(net, status)
      BY <2>2 DEF GoneInv, BeatTypes, Publishes, ReadStatus
    <3>2. \A k \in DOMAIN net' : net'[k] # "delete"
      BY <2>1, <3>1 DEF Statuses
    <3> QED BY <3>2 DEF DeleteLast
  <2>3. CASE ~Publishes
    <3>1. net' = net
      BY <2>3 DEF PublicationEnds, Beat, PresencePanics
    <3> QED BY <2>1, <3>1 DEF DeleteLast
  <2> QED BY <2>2, <2>3
<1>4. Silent' /\ NothingAfter'
  BY <1>1 DEF Silent, NothingAfter
<1> QED BY <1>2, <1>3, <1>4 DEF GoneInv

\* The start, the drain and the end of the task (RunnerBuilder::start).
LEMMA MainGone ==
  ASSUME GoneInv,
         StartFails \/ Starts \/ DrainBegins \/ DrainReturns \/ PresenceJoined \/ Returns
  PROVE  GoneInv'
<1>1. net' = net /\ bucket' = bucket /\ main'.deleted = main.deleted
  BY DEF GoneInv, BeatTypes, StartFails, Starts, DrainBegins, DrainReturns, PresenceJoined,
         Returns, presenceVars
<1>2. main.at \in Over <=> main'.at \in Over
  BY DEF GoneInv, BeatTypes, StartFails, Starts, DrainBegins, DrainReturns, PresenceJoined,
         Returns, Over
<1>3. BeatTypes'
  BY DEF GoneInv, BeatTypes, Statuses, Over, StartFails, Starts, DrainBegins, DrainReturns,
         PresenceJoined, Returns, presenceVars
<1>4. Silent'
  BY DEF GoneInv, BeatTypes, Silent, Over, StartFails, Starts, DrainBegins, DrainReturns,
         PresenceJoined, Returns, presenceVars
<1>5. DeleteLast' /\ NothingAfter'
  BY <1>1, <1>2 DEF GoneInv, DeleteLast, NothingAfter
<1> QED BY <1>3, <1>4, <1>5 DEF GoneInv

\* The delete is sent behind everything that the task had sent (runner.rs).
LEMMA DeleteGone ==
  ASSUME GoneInv, DeleteSent
  PROVE  GoneInv'
<1>1. /\ main.at \notin Over /\ ~main.deleted /\ presence.at = "off"
      /\ net \in Seq(Statuses \cup {"delete"}) /\ net' = Append(net, "delete")
  BY DEF GoneInv, BeatTypes, NothingAfter, DeleteSent, PresenceEnded, Over
<1>2. \A k \in DOMAIN net : net[k] # "delete"
  BY <1>1 DEF GoneInv, DeleteLast
<1>3. main'.at \in Over /\ main'.deleted = main.deleted
  BY DEF GoneInv, BeatTypes, DeleteSent, Over
<1>4. BeatTypes'
  BY <1>1 DEF GoneInv, BeatTypes, DeleteSent, Over
<1>5. DeleteLast'
  <2>1. \A k \in DOMAIN net' : k \in DOMAIN net \/ k = Len(net')
    BY <1>1
  <2>2. \A k \in DOMAIN net : net'[k] = net[k]
    BY <1>1
  <2> QED BY <1>2, <1>3, <2>1, <2>2 DEF DeleteLast
<1>6. Silent' /\ NothingAfter'
  BY <1>1, <1>3 DEF Silent, NothingAfter, DeleteSent
<1> QED BY <1>4, <1>5, <1>6 DEF GoneInv

\* The bucket takes, misses or forgets an operation; the delete has none behind it.
LEMMA BucketGone ==
  ASSUME GoneInv, Delivered \/ LostOnTheWay \/ Expires
  PROVE  GoneInv'
<1>1. CASE Expires
  BY <1>1 DEF Expires, GoneInv, BeatTypes, Silent, DeleteLast, NothingAfter
<1>2. CASE Delivered \/ LostOnTheWay
  <2>1. /\ net \in Seq(Statuses \cup {"delete"}) /\ net # <<>> /\ net' = Tail(net)
        /\ main'.at = main.at /\ UNCHANGED <<status, presence>> /\ ~main.deleted
    BY <1>2 DEF GoneInv, BeatTypes, NothingAfter, Delivered, LostOnTheWay
  <2>2. BeatTypes'
    <3>1. net' \in Seq(Statuses \cup {"delete"})
      BY <2>1
    <3> QED BY <1>2, <2>1, <3>1 DEF GoneInv, BeatTypes, Delivered, LostOnTheWay
  <2>3. /\ Len(net) \in Nat \ {0} /\ DOMAIN net = 1..Len(net) /\ Len(net') = Len(net) - 1
        /\ DOMAIN net' = 1..(Len(net) - 1) /\ \A k \in DOMAIN net' : net'[k] = net[k + 1]
        /\ Head(net) = net[1]
    BY <2>1
  <2>4. DeleteLast'
    <3> SUFFICES ASSUME NEW k \in DOMAIN net', net'[k] = "delete"
                 PROVE  main'.at \in Over /\ k = Len(net')
      BY DEF DeleteLast
    <3>1. k + 1 \in DOMAIN net /\ net[k + 1] = "delete" /\ k \in Nat
      BY <2>3
    <3>2. main.at \in Over /\ k + 1 = Len(net)
      BY <3>1 DEF GoneInv, DeleteLast
    <3> QED BY <2>1, <2>3, <3>1, <3>2
  <2>5. NothingAfter'
    <3>1. CASE Delivered /\ Head(net) = "delete"
      <4>1. Len(net) = 1 /\ main.at \in Over
        BY <2>3, <3>1 DEF GoneInv, DeleteLast
      <4>2. net' = <<>>
        BY <2>1, <2>3, <4>1
      <4> QED BY <2>1, <3>1, <4>1, <4>2 DEF NothingAfter, Delivered
    <3>2. CASE ~(Delivered /\ Head(net) = "delete")
      <4>1. ~main'.deleted
        BY <1>2, <2>1, <3>2 DEF GoneInv, BeatTypes, Delivered, LostOnTheWay
      <4> QED BY <4>1 DEF NothingAfter
    <3> QED BY <3>1, <3>2
  <2>6. Silent'
    BY <2>1 DEF GoneInv, Silent
  <2> QED BY <2>2, <2>4, <2>5, <2>6 DEF GoneInv
<1> QED BY <1>1, <1>2

\* Every step of the runner and of its buckets keeps the invariant.
LEMMA NextGone == GoneInv /\ [Next]_vars => GoneInv'
<1> SUFFICES ASSUME GoneInv, [Next]_vars PROVE GoneInv'
  OBVIOUS
<1>1. CASE \/ FeedTask \/ FeedNotOpened \/ StartOfFeedFails \/ WatchEnds \/ FeedPanics
           \/ EntryChanges
  BY <1>1, FeedGone
<1>2. CASE PresenceTask \/ Beat \/ PresencePanics
  BY <1>2, PresenceStepGone DEF PresenceTask
<1>3. CASE StartFails \/ Starts \/ DrainBegins \/ DrainReturns \/ PresenceJoined \/ Returns
  BY <1>3, MainGone
<1>4. CASE DeleteSent
  BY <1>4, DeleteGone
<1>5. CASE Delivered \/ LostOnTheWay \/ Expires
  BY <1>5, BucketGone
<1>6. CASE UNCHANGED vars
  BY <1>6, StutterGone DEF vars
<1> QED BY <1>1, <1>2, <1>3, <1>4, <1>5, <1>6 DEF Next, Ending

\* The inductive invariant of the presence and its end holds in every state.
THEOREM GoneInvariant == Spec => []GoneInv
  BY InitGone, NextGone, PTL DEF Spec

\* No publication that was dropped or aborted reaches the bucket after the delete.
THEOREM NotSeenAgain == Spec => []PresenceGone
<1>1. GoneInv => PresenceGone
  BY DEF GoneInv, NothingAfter, PresenceGone
<1> QED BY <1>1, GoneInvariant, PTL
=============================================================================
