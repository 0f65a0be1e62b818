------------------------------ MODULE SlotLoop ------------------------------
(***************************************************************************)
(* The loop of a runner of br-runner-toolkit: its slots (slot.rs), which   *)
(* claim Runs or read triggers, the state they share (shared.rs), and the  *)
(* feeds of the dispatch mode and of the cancel orders (feeds.rs).  The    *)
(* execution of a Run is one step here (RunLifecycle has its detail), and  *)
(* so is a wait for the next beat, which lasts as long as it likes.  The   *)
(* claims, triggers and cancel orders of jobs are the environment.         *)
(***************************************************************************)
EXTENDS Integers, Sequences, FiniteSets, SequencesExt

CONSTANTS Slots, Runs,
          Modes,      \* the values that the mode feed may give
          Claims,     \* claim ids
          Orderable,  \* the Runs for which a cancel order may be made
          MaxEpoch,   \* bound on the values of the mode feed
          MaxOrders,  \* bound on the changes of the cancel orders
          MaxEnds,    \* bound on the ends of the feed of the cancel orders
          MaxPanics,  \* bound on the panics of slots
          MayDrain,   \* whether the drain may begin
          NoRun, NoClaim, NoMode

ASSUME LoopAssumption ==
  /\ Modes \subseteq {"NoEntry", "Push", "Claim"} /\ NoMode \notin Modes
  /\ Orderable \subseteq Runs /\ NoRun \notin Runs /\ NoClaim \notin Claims
  /\ MaxEpoch \in Nat /\ MaxOrders \in Nat /\ MaxEnds \in Nat /\ MaxPanics \in Nat
  /\ MayDrain \in BOOLEAN

NOT_STOPPED == -1

VARIABLES
  loop,     \* LoopState: the mode and whether the replay of the orders is complete
  epochs,   \* mode_epoch and stopped_epoch
  registry, \* the Runs held, those whose token fired, the known cancel orders,
            \* those whose started fact ended, those in their closing
  slot,     \* per slot: where it is, its view of loop, whether loop changed since,
            \* the claim it holds, the claim it makes and its epoch, its Run and source
  drain,    \* the drain token
  modeFeed, \* a value of the mode feed between the two steps of mode_changed
  orderFeed,\* the feed of the cancel orders: where it is, the entries of the bucket
            \* to come, how many of them are of the replay, the replayed set
  jobs,     \* external: the Runs still to run, claims, triggers and cancel orders
  refused,  \* history: the epochs of the claims that a refusal is to stop
  answered, \* history: the Runs whose started fact jobs delivered or refused
  inHand,   \* history: the slots that execute each Run
  panicked  \* history: the panics of slots, and the claims that ended with them

vars == <<loop, epochs, registry, slot, drain, modeFeed, orderFeed, jobs, refused, answered, inHand,
          panicked>>
feedVars == <<modeFeed, orderFeed>>
pastVars == <<refused, answered, inHand, panicked>>

CanAsk(l) == l.mode # "NoEntry" /\ l.replay
ClaimsStopped == epochs.stopped = epochs.mode

LoopStart == [mode |-> "NoEntry", replay |-> FALSE]
Idle == [at |-> "top", view |-> LoopStart, fresh |-> FALSE, held |-> NoClaim,
         claim |-> NoClaim, epoch |-> 0, run |-> NoRun, source |-> "Claim"]

Init ==
  /\ loop = LoopStart
  /\ epochs = [mode |-> 0, stopped |-> NOT_STOPPED]
  /\ registry = [runs |-> {}, fired |-> {}, known |-> {}, started |-> {}, closing |-> {}]
  /\ slot = [s \in Slots |-> Idle]
  /\ drain = FALSE
  /\ modeFeed = NoMode
  /\ orderFeed = [at |-> "closed", entries |-> <<>>, left |-> 0, replayed |-> {}, ends |-> 0]
  /\ jobs = [todo |-> Runs, gave |-> [c \in Claims |-> NoRun], spent |-> {},
             ready |-> {}, acked |-> {}, orders |-> {}, keys |-> {}, changes |-> 0]
  /\ refused = {} /\ answered = {} /\ inHand = [r \in Runs |-> {}]
  /\ panicked = [times |-> 0, claims |-> {}]

\* send_modify on the loop state: every subscribed slot sees a change.
Sent(l) ==
  /\ loop' = l
  /\ slot' = [s \in Slots |-> [slot[s] EXCEPT !.fresh = TRUE]]

-----------------------------------------------------------------------------
(* The feed of the dispatch mode                                           *)

\* mode_changed: the epoch first, then the loop state.
ModeEpoch(m) ==
  /\ modeFeed = NoMode /\ epochs.mode < MaxEpoch
  /\ epochs' = [epochs EXCEPT !.mode = @ + 1]
  /\ modeFeed' = m
  /\ UNCHANGED <<loop, registry, slot, drain, orderFeed, jobs>> /\ UNCHANGED pastVars

\* Mutant: a mode equal to the one before is not told to the slots.
SentIfNew(m) ==
  IF loop.mode = m THEN UNCHANGED <<loop, slot>> ELSE Sent([loop EXCEPT !.mode = m])
SentAlways(m) == Sent([loop EXCEPT !.mode = m])

ModeSent ==
  /\ modeFeed # NoMode
  /\ SentAlways(modeFeed)
  /\ modeFeed' = NoMode
  /\ UNCHANGED <<epochs, registry, drain, orderFeed, jobs>> /\ UNCHANGED pastVars

-----------------------------------------------------------------------------
(* The feed of the cancel orders: the entries <<"put", r>> and <<"del", r>>*)
(* of the bucket.  The replay is complete at the entry that the server sent*)
(* with nothing pending behind it, which is the last entry that the bucket *)
(* held at the open or one that came since.                                *)

Entry(r) == IF r \in jobs.orders THEN <<"put", r>> ELSE <<"del", r>>

FeedNotOpened ==
  /\ orderFeed.at = "closed"
  /\ Sent([loop EXCEPT !.replay = FALSE])
  /\ UNCHANGED <<epochs, registry, drain, jobs, feedVars>> /\ UNCHANGED pastVars

FeedOpens ==
  /\ orderFeed.at = "closed"
  /\ Sent([loop EXCEPT !.replay = FALSE])
  /\ orderFeed' = [orderFeed EXCEPT
       !.at = IF jobs.keys = {} THEN "complete" ELSE "replay",
       !.entries = LET keys == SetToSeq(jobs.keys) IN [i \in DOMAIN keys |-> Entry(keys[i])],
       !.left = Cardinality(jobs.keys), !.replayed = {}]
  /\ UNCHANGED <<epochs, registry, drain, jobs, modeFeed>> /\ UNCHANGED pastVars

\* A deletion in the replay is not given to the loop.
ReplayEntry ==
  /\ orderFeed.at = "replay" /\ orderFeed.entries # <<>>
  /\ LET entry == Head(orderFeed.entries)
         behind == Len(orderFeed.entries) > 1 IN
     \E seen \in (IF orderFeed.left > 1 THEN {FALSE} ELSE {TRUE} \cup (IF behind THEN {FALSE} ELSE {})) :
       orderFeed' = [orderFeed EXCEPT
         !.at = IF seen THEN "complete" ELSE "replay",
         !.entries = Tail(@),
         !.left = IF @ = 0 THEN 0 ELSE @ - 1,
         !.replayed = IF entry[1] = "put" THEN @ \cup {entry[2]} ELSE @]
  /\ UNCHANGED <<loop, epochs, registry, slot, drain, jobs, modeFeed>> /\ UNCHANGED pastVars

\* Mutant: the orders of the replay are known, and the tokens of held Runs are not fired.
ReplaceSilently(orders) == [registry EXCEPT !.known = orders]
Replaced(orders) ==
  [registry EXCEPT !.fired = @ \cup (orders \cap registry.runs), !.known = orders]

ReplayComplete ==
  /\ orderFeed.at = "complete"
  /\ registry' = Replaced(orderFeed.replayed)
  /\ orderFeed' = [orderFeed EXCEPT !.at = "replaced", !.replayed = {}]
  /\ UNCHANGED <<loop, epochs, slot, drain, jobs, modeFeed>> /\ UNCHANGED pastVars

ReplaySent ==
  /\ orderFeed.at = "replaced"
  /\ Sent([loop EXCEPT !.replay = TRUE])
  /\ orderFeed' = [orderFeed EXCEPT !.at = "live"]
  /\ UNCHANGED <<epochs, registry, drain, jobs, modeFeed>> /\ UNCHANGED pastVars

OrderMade(r) == [registry EXCEPT !.known = @ \cup {r}, !.fired = @ \cup ({r} \cap registry.runs)]
OrderDeleted(r) == [registry EXCEPT !.known = @ \ {r}]

LiveEntry ==
  /\ orderFeed.at = "live" /\ orderFeed.entries # <<>>
  /\ LET entry == Head(orderFeed.entries) IN
     registry' = IF entry[1] = "put" THEN OrderMade(entry[2]) ELSE OrderDeleted(entry[2])
  /\ orderFeed' = [orderFeed EXCEPT !.entries = Tail(@)]
  /\ UNCHANGED <<loop, epochs, slot, drain, jobs, modeFeed>> /\ UNCHANGED pastVars

FeedEnds ==
  /\ orderFeed.at \in {"replay", "live"} /\ orderFeed.ends < MaxEnds
  /\ Sent([loop EXCEPT !.replay = FALSE])
  /\ orderFeed' = [orderFeed EXCEPT !.at = "closed", !.entries = <<>>, !.left = 0,
                                    !.replayed = {}, !.ends = @ + 1]
  /\ UNCHANGED <<epochs, registry, drain, jobs, modeFeed>> /\ UNCHANGED pastVars

-----------------------------------------------------------------------------
(* The step of a slot                                                      *)

At(s, places) == slot[s].at \in places
Goes(s, place) == slot' = [slot EXCEPT ![s].at = place]
\* A round ends: of the slot's locals only the held claim and its receiver stay.
BackToTop(s) ==
  slot' = [slot EXCEPT ![s] = [Idle EXCEPT !.fresh = slot[s].fresh, !.held = slot[s].held]]

Top(s) ==
  /\ At(s, {"top"})
  /\ IF drain THEN Goes(s, "gone")
     ELSE slot' = [slot EXCEPT ![s].at = "decide", ![s].view = loop, ![s].fresh = FALSE]
  /\ UNCHANGED <<loop, epochs, registry, drain, jobs, feedVars>> /\ UNCHANGED pastVars

Claiming(s, l) == slot[s].held # NoClaim \/ l.mode = "Claim"
MustWait(s, l, blocked) ==
  ~CanAsk(l) \/ (blocked /\ (l.mode # "Push" \/ slot[s].held # NoClaim))

Decide(s) ==
  /\ At(s, {"decide"})
  /\ LET view == slot[s].view
         blocked == Claiming(s, view) /\ ClaimsStopped IN
     Goes(s, IF MustWait(s, view, blocked) THEN "waiting"
             ELSE IF Claiming(s, view) /\ ~blocked THEN "claim" ELSE "push")
  /\ UNCHANGED <<loop, epochs, registry, drain, jobs, feedVars>> /\ UNCHANGED pastVars

\* Mutant: the wait for a change of the loop state does not end at the drain.
WaitIgnoresDrain(s) ==
  /\ At(s, {"waiting"}) /\ slot[s].fresh
  /\ BackToTop(s)
  /\ UNCHANGED <<loop, epochs, registry, drain, jobs, feedVars>> /\ UNCHANGED pastVars
WaitEnds(s) ==
  /\ At(s, {"waiting"})
  /\ \/ slot[s].fresh /\ BackToTop(s)
     \/ drain /\ Goes(s, "gone")
  /\ UNCHANGED <<loop, epochs, registry, drain, jobs, feedVars>> /\ UNCHANGED pastVars

-----------------------------------------------------------------------------
(* claim_step                                                              *)

InUse == {slot[s].held : s \in Slots} \cup {slot[s].claim : s \in Slots} \cup panicked.claims
         \cup {c \in Claims : jobs.gave[c] # NoRun} \cup jobs.spent

Claim(s) ==
  /\ At(s, {"claim"})
  /\ \E c \in (IF slot[s].held # NoClaim THEN {slot[s].held} ELSE Claims \ InUse) :
       slot' = [slot EXCEPT ![s].at = "asked", ![s].held = NoClaim,
                            ![s].claim = c, ![s].epoch = epochs.mode]
  /\ UNCHANGED <<loop, epochs, registry, drain, jobs, feedVars>> /\ UNCHANGED pastVars

ClaimGivesWork(s) ==
  /\ At(s, {"asked"}) /\ jobs.gave[slot[s].claim] # NoRun
  /\ slot' = [slot EXCEPT ![s].at = "given", ![s].source = "Claim", ![s].claim = NoClaim,
                          ![s].run = jobs.gave[slot[s].claim]]
  /\ jobs' = [jobs EXCEPT !.gave[slot[s].claim] = NoRun]
  /\ UNCHANGED <<loop, epochs, registry, drain, feedVars>> /\ UNCHANGED pastVars

ClaimGivesNone(s) ==
  /\ At(s, {"asked"}) /\ jobs.gave[slot[s].claim] = NoRun /\ slot[s].claim \notin jobs.spent
  /\ BackToTop(s)
  /\ UNCHANGED <<loop, epochs, registry, drain, jobs, feedVars>> /\ UNCHANGED pastVars

\* Busy, InstanceUnknown or a missing answer: the claim is held, after a pause.
KeepsClaim(s) ==
  slot' = [slot EXCEPT ![s].at = "pause", ![s].held = slot[s].claim, ![s].claim = NoClaim]

ClaimRepeated(s) ==
  /\ At(s, {"asked"})
  /\ KeepsClaim(s)
  /\ UNCHANGED <<loop, epochs, registry, drain, jobs, feedVars>> /\ UNCHANGED pastVars

PauseEnds(s) ==
  /\ At(s, {"pause"})
  /\ BackToTop(s)
  /\ UNCHANGED <<loop, epochs, registry, drain, jobs, feedVars>> /\ UNCHANGED pastVars

ClaimSpent(s) ==
  /\ At(s, {"asked"}) /\ slot[s].claim \in jobs.spent
  /\ BackToTop(s)
  /\ jobs' = [jobs EXCEPT !.spent = @ \ {slot[s].claim}]
  /\ UNCHANGED <<loop, epochs, registry, drain, feedVars>> /\ UNCHANGED pastVars

\* Any other refusal, or a call that cannot be made: stop_claims loads the epoch ...
ClaimRefused(s) ==
  /\ At(s, {"asked"}) /\ jobs.gave[slot[s].claim] = NoRun /\ slot[s].claim \notin jobs.spent
  /\ IF slot[s].epoch = epochs.mode
     THEN slot' = [slot EXCEPT ![s].at = "stopping", ![s].claim = NoClaim]
     ELSE BackToTop(s)
  /\ refused' = refused \cup {slot[s].epoch}
  /\ UNCHANGED <<loop, epochs, registry, drain, jobs, feedVars, answered, inHand, panicked>>

StopsAt(s) == slot[s].epoch

\* ... and stores the stop.
ClaimsStop(s) ==
  /\ At(s, {"stopping"})
  /\ epochs' = [epochs EXCEPT !.stopped = StopsAt(s)]
  /\ BackToTop(s)
  /\ UNCHANGED <<loop, registry, drain, jobs, feedVars>> /\ UNCHANGED pastVars

-----------------------------------------------------------------------------
(* push_step                                                               *)

PushUnusable(s) ==
  /\ At(s, {"push"}) /\ ~(CanAsk(loop) /\ loop.mode = "Push")
  /\ slot' = [slot EXCEPT ![s] = [Idle EXCEPT !.held = slot[s].held]]
  /\ UNCHANGED <<loop, epochs, registry, drain, jobs, feedVars>> /\ UNCHANGED pastVars

PushDrained(s) ==
  /\ At(s, {"push"}) /\ drain
  /\ BackToTop(s)
  /\ UNCHANGED <<loop, epochs, registry, drain, jobs, feedVars>> /\ UNCHANGED pastVars

TriggerRead(s, r) ==
  /\ At(s, {"push"}) /\ r \in jobs.ready
  /\ slot' = [slot EXCEPT ![s].at = "given", ![s].source = "Trigger", ![s].run = r]
  /\ jobs' = [jobs EXCEPT !.ready = @ \ {r}]
  /\ UNCHANGED <<loop, epochs, registry, drain, feedVars>> /\ UNCHANGED pastVars

-----------------------------------------------------------------------------
(* execute                                                                 *)

IsTrigger(s) == slot[s].source = "Trigger"
GivenBack(s) == IF IsTrigger(s) THEN [jobs EXCEPT !.ready = @ \cup {slot[s].run}] ELSE jobs
Acknowledged(s) == IF IsTrigger(s) THEN [jobs EXCEPT !.acked = @ \cup {slot[s].run}] ELSE jobs

\* given_back_when_draining and dropped_for_drain
Given(s) ==
  /\ At(s, {"given"})
  /\ \/ drain /\ BackToTop(s) /\ jobs' = GivenBack(s)
     \/ ~drain /\ Goes(s, "register") /\ UNCHANGED jobs
  /\ UNCHANGED <<loop, epochs, registry, drain, feedVars>> /\ UNCHANGED pastVars

\* settle_known: only when the started fact has ended. A claim's Run is dropped.
SettleKnown(s) == IF slot[s].run \in registry.started THEN Acknowledged(s) ELSE jobs

\* Mutant: the registry is not asked whether it holds the Run.
NotAsked(r) == FALSE
IsHeld(r) == r \in registry.runs

RegisterRun(r) ==
  [registry EXCEPT !.runs = @ \cup {r}, !.started = @ \ {r}, !.closing = @ \ {r},
                   !.fired = IF r \in registry.known THEN @ \cup {r} ELSE @ \ {r}]

Register(s) ==
  /\ At(s, {"register"})
  /\ LET r == slot[s].run IN
     \/ /\ IsHeld(r)
        /\ BackToTop(s) /\ jobs' = SettleKnown(s) /\ UNCHANGED <<registry, inHand>>
     \/ /\ ~IsHeld(r)
        /\ Goes(s, "opening") /\ registry' = RegisterRun(r)
        /\ inHand' = [inHand EXCEPT ![r] = @ \cup {s}]
        /\ UNCHANGED jobs
  /\ UNCHANGED <<loop, epochs, drain, feedVars, refused, answered, panicked>>

Forgotten(r) ==
  [registry EXCEPT !.runs = @ \ {r}, !.fired = @ \ {r}, !.started = @ \ {r}, !.closing = @ \ {r}]
OutOfHand(s) == inHand' = [inHand EXCEPT ![slot[s].run] = @ \ {s}]

\* The started fact: delivered, refused, removed otherwise, or a queue that is not made.
StartDelivered(s) ==
  /\ At(s, {"opening"})
  /\ Goes(s, "executing")
  /\ registry' = [registry EXCEPT !.started = @ \cup {slot[s].run}]
  /\ jobs' = Acknowledged(s)
  /\ answered' = answered \cup {slot[s].run}
  /\ UNCHANGED <<loop, epochs, drain, feedVars, refused, inHand, panicked>>

StartRefused(s) ==
  /\ At(s, {"opening"})
  /\ BackToTop(s) /\ OutOfHand(s)
  /\ registry' = Forgotten(slot[s].run)
  /\ jobs' = [Acknowledged(s) EXCEPT !.todo = @ \ {slot[s].run}]
  /\ answered' = answered \cup {slot[s].run}
  /\ UNCHANGED <<loop, epochs, drain, feedVars, refused, panicked>>

StartRemoved(s) ==
  /\ At(s, {"opening"})
  /\ BackToTop(s) /\ OutOfHand(s)
  /\ registry' = Forgotten(slot[s].run)
  /\ UNCHANGED <<loop, epochs, drain, jobs, feedVars, refused, answered, panicked>>

Unmade(s) ==
  /\ At(s, {"opening"})
  /\ BackToTop(s) /\ OutOfHand(s)
  /\ registry' = Forgotten(slot[s].run)
  /\ jobs' = GivenBack(s)
  /\ UNCHANGED <<loop, epochs, drain, feedVars, refused, answered, panicked>>

\* The Run is settled and its closing is spawned: the slot is free.
Executed(s) ==
  /\ At(s, {"executing"})
  /\ BackToTop(s) /\ OutOfHand(s)
  /\ registry' = [registry EXCEPT !.closing = @ \cup {slot[s].run}]
  /\ UNCHANGED <<loop, epochs, drain, jobs, feedVars, refused, answered, panicked>>

-----------------------------------------------------------------------------
(* The supervisor of a slot (supervised), and the closings                 *)

\* A panic ends the slot wherever it is.  What only its stack held goes with it: the
\* claim that it asked or held, and the Run that it executed, which stays in the
\* registry for nobody.
SlotPanics(s) ==
  /\ ~At(s, {"panicked", "gone"}) /\ panicked.times < MaxPanics
  /\ slot' = [slot EXCEPT ![s] = [Idle EXCEPT !.at = "panicked"]]
  /\ inHand' = [r \in Runs |-> inHand[r] \ {s}]
  /\ panicked' = [times |-> panicked.times + 1,
                  claims |-> panicked.claims \cup ({slot[s].held, slot[s].claim} \ {NoClaim})]
  /\ UNCHANGED <<loop, epochs, registry, drain, jobs, feedVars, refused, answered>>

\* The slot is made again after a beat, or at once when the drain has begun.
Restarts(s) ==
  /\ At(s, {"panicked"})
  /\ Goes(s, "top")
  /\ UNCHANGED <<loop, epochs, registry, drain, jobs, feedVars>> /\ UNCHANGED pastVars

\* The closing ends: the Run is forgotten, and jobs has its end.
Closed(r) ==
  /\ r \in registry.closing
  /\ registry' = Forgotten(r)
  /\ jobs' = [jobs EXCEPT !.todo = @ \ {r}]
  /\ UNCHANGED <<loop, epochs, slot, drain, feedVars>> /\ UNCHANGED pastVars

-----------------------------------------------------------------------------
(* The shutdown and jobs                                                   *)

DrainBegins ==
  /\ MayDrain /\ ~drain
  /\ drain' = TRUE
  /\ UNCHANGED <<loop, epochs, registry, slot, jobs, feedVars>> /\ UNCHANGED pastVars

\* jobs gives a Run that has not ended to a claim in flight, or to one whose answer
\* the slot no longer waits for, or whose slot ended by a panic; the answer may be lost.
JobsGives(c, r) ==
  /\ c \in panicked.claims \/ \E s \in Slots : c \in {slot[s].claim, slot[s].held}
  /\ r \in jobs.todo /\ jobs.gave[c] = NoRun /\ c \notin jobs.spent
  /\ jobs' = [jobs EXCEPT !.gave[c] = r]
  /\ UNCHANGED <<loop, epochs, registry, slot, drain, feedVars>> /\ UNCHANGED pastVars

\* jobs takes back a Run that was given and not started: the claim is spent.
JobsTakesBack(c) ==
  /\ jobs.gave[c] # NoRun
  /\ jobs' = [jobs EXCEPT !.gave[c] = NoRun, !.spent = @ \cup {c}]
  /\ UNCHANGED <<loop, epochs, registry, slot, drain, feedVars>> /\ UNCHANGED pastVars

\* A trigger is published, or given again when it is not acknowledged in time.
JobsTriggers(r) ==
  /\ "Push" \in Modes /\ r \in jobs.todo \ (jobs.acked \cup jobs.ready)
  /\ jobs' = [jobs EXCEPT !.ready = @ \cup {r}]
  /\ UNCHANGED <<loop, epochs, registry, slot, drain, feedVars>> /\ UNCHANGED pastVars

\* A cancel order is put into the bucket or deleted from it.
JobsOrders(r) ==
  /\ jobs.changes < MaxOrders
  /\ jobs' = [jobs EXCEPT !.orders = IF r \in @ THEN @ \ {r} ELSE @ \cup {r},
                          !.keys = @ \cup {r}, !.changes = @ + 1]
  /\ orderFeed' = IF orderFeed.at = "closed" THEN orderFeed
                  ELSE [orderFeed EXCEPT !.entries =
                          Append(@, IF r \in jobs.orders THEN <<"del", r>> ELSE <<"put", r>>)]
  /\ UNCHANGED <<loop, epochs, registry, slot, drain, modeFeed>> /\ UNCHANGED pastVars

-----------------------------------------------------------------------------
Feed ==
  \/ FeedOpens \/ ReplayEntry \/ ReplayComplete \/ ReplaySent \/ LiveEntry

Reply(s) ==
  \/ ClaimGivesWork(s) \/ ClaimGivesNone(s) \/ ClaimRepeated(s)
  \/ ClaimSpent(s) \/ ClaimRefused(s)

Opened(s) ==
  \/ StartDelivered(s) \/ StartRefused(s) \/ StartRemoved(s) \/ Unmade(s)

SlotStep(s) ==
  \/ Top(s) \/ Decide(s) \/ WaitEnds(s) \/ Claim(s) \/ Reply(s) \/ PauseEnds(s) \/ ClaimsStop(s)
  \/ PushUnusable(s) \/ PushDrained(s) \/ Given(s) \/ Register(s) \/ Opened(s) \/ Executed(s)
  \/ Restarts(s)

Next ==
  \/ \E m \in Modes : ModeEpoch(m)
  \/ ModeSent
  \/ Feed \/ FeedNotOpened \/ FeedEnds
  \/ \E s \in Slots : SlotStep(s) \/ SlotPanics(s)
  \/ \E s \in Slots, r \in Runs : TriggerRead(s, r)
  \/ \E c \in Claims, r \in Runs : JobsGives(c, r)
  \/ \E r \in Runs : Closed(r) \/ JobsTriggers(r)
  \/ \E r \in Orderable : JobsOrders(r)
  \/ \E c \in Claims : JobsTakesBack(c)
  \/ DrainBegins

Spec == Init /\ [][Next]_vars

\* The tasks of the feeds and of the slots run; a claim is answered, or its wait
\* ends; a started fact ends; a Run is settled; the feed is opened after a beat, and
\* a slot that panicked is made again after one.  No slot need panic.
Fairness ==
  /\ WF_vars(ModeSent) /\ WF_vars(Feed)
  /\ \A s \in Slots : WF_vars(SlotStep(s))
FairSpec == Spec /\ Fairness

-----------------------------------------------------------------------------
(* Properties                                                              *)

SlotPlaces == {"top", "decide", "waiting", "claim", "asked", "pause", "stopping", "push",
               "given", "register", "opening", "executing", "panicked", "gone"}
LoopStates == [mode : {"NoEntry", "Push", "Claim"}, replay : BOOLEAN]

\* Every part of the state of the loop (shared.rs, slot.rs, feeds.rs) has its type,
\* and the fired, started and closing Runs are Runs that the registry holds.
TypeOK ==
  /\ loop \in LoopStates
  /\ epochs \in [mode : 0..MaxEpoch, stopped : {NOT_STOPPED} \cup 0..MaxEpoch]
  /\ registry \in [runs : SUBSET Runs, fired : SUBSET Runs, known : SUBSET Runs,
                   started : SUBSET Runs, closing : SUBSET Runs]
  /\ registry.fired \cup registry.started \cup registry.closing \subseteq registry.runs
  /\ slot \in [Slots -> [at : SlotPlaces, view : LoopStates, fresh : BOOLEAN,
                         held : Claims \cup {NoClaim}, claim : Claims \cup {NoClaim},
                         epoch : 0..MaxEpoch, run : Runs \cup {NoRun},
                         source : {"Claim", "Trigger"}]]
  /\ drain \in BOOLEAN
  /\ modeFeed \in Modes \cup {NoMode}
  /\ orderFeed \in [at : {"closed", "replay", "complete", "replaced", "live"},
                    entries : Seq({"put", "del"} \X Runs), left : Nat,
                    replayed : SUBSET Runs, ends : 0..MaxEnds]
  /\ jobs \in [todo : SUBSET Runs, gave : [Claims -> Runs \cup {NoRun}], spent : SUBSET Claims,
               ready : SUBSET Runs, acked : SUBSET Runs, orders : SUBSET Runs,
               keys : SUBSET Runs, changes : 0..MaxOrders]
  /\ refused \subseteq 0..MaxEpoch /\ answered \subseteq Runs
  /\ inHand \in [Runs -> SUBSET Slots]
  /\ panicked \in [times : 0..MaxPanics, claims : SUBSET Claims]

\* "It never starts a second Run", and it loses none: however triggers are given again
\* and claims repeated, at most one slot is between register_run and the end of a Run,
\* none while its closing goes on, and a Run in hand is in the registry; and a Run that
\* jobs gave to a claim, and did not take back, has a slot that still asks or holds that
\* claim, unless the drain has begun or that slot panicked. A trigger is acknowledged only after jobs answered
\* the started fact of its Run, by its own slot or by the slot that reads it again.
OneHand ==
  /\ \A r \in Runs :
       /\ Cardinality(inHand[r]) <= 1
       /\ inHand[r] # {} => r \in registry.runs \ registry.closing
  /\ ~drain => \A c \in Claims : jobs.gave[c] # NoRun =>
       c \in panicked.claims \/ \E s \in Slots : c \in {slot[s].held, slot[s].claim}
  /\ jobs.acked \subseteq answered

\* No wake-up is lost: a slot that waits with nothing to wait for (the loop may ask,
\* and no claim of this mode value was refused) has a change of the loop state to
\* see, or the mode feed is about to send it.
WaiterWoken ==
  \A s \in Slots :
    /\ At(s, {"waiting"}) /\ ~slot[s].fresh /\ modeFeed = NoMode
    => ~CanAsk(loop) \/ (Claiming(s, loop) /\ epochs.mode \in refused)

\* The drain ends every slot: it waits on no feed, no pause and no change.
SlotsEnd == drain ~> \A s \in Slots : slot[s].at = "gone"

\* An order for a held Run fires its token, unless the Run ends or the order is
\* deleted first, however often the feed ended before.
OrderHonoured ==
  \A r \in Orderable :
    (r \in registry.runs /\ r \in jobs.orders)
      ~> (r \in registry.fired \/ r \notin registry.runs \/ r \notin jobs.orders)

\* "Any other refusal stops the claims until the dispatch mode feed gives a new value
\* after that claim was sent": when no stop is on its way, a refusal of a claim of
\* this epoch has stopped the claims.
RefusalStops ==
  epochs.mode \in refused /\ (\A s \in Slots : ~At(s, {"stopping"})) => ClaimsStopped
=============================================================================
