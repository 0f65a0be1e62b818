--------------------------- MODULE SlotLoopProofs ---------------------------
(***************************************************************************)
(* The loop of a runner keeps its types, starts no Run twice, loses no Run *)
(* that jobs gave to a claim, acknowledges no trigger too early and lets   *)
(* no slot sleep through a change, for every set of slots, Runs, claims    *)
(* and modes and every bound.                                              *)
(*                                                                         *)
(* LoopInv says per slot which fields go with its place (SlotOK), that a   *)
(* Run in hand is in the registry (HandKept), where the claims are that    *)
(* jobs gave Runs to (ClaimsKept), and what a slot that looks at its view  *)
(* may rely on (WakeOK).                                                   *)
(***************************************************************************)
EXTENDS SlotLoop, FiniteSetTheorems, TLAPS

SlotType == [at : SlotPlaces, view : LoopStates, fresh : BOOLEAN,
             held : Claims \cup {NoClaim}, claim : Claims \cup {NoClaim},
             epoch : 0..MaxEpoch, run : Runs \cup {NoRun}, source : {"Claim", "Trigger"}]

InHand  == {"opening", "executing"}
WithRun == {"given", "register"} \cup InHand

\* A slot has a claim in flight only while it asks, and a Run once it was given one.
SlotOK(x) ==
  /\ x.at = "asked" => x.claim \in Claims /\ x.held = NoClaim
  /\ x.at # "asked" => x.claim = NoClaim
  /\ x.at \in WithRun => x.run \in Runs

\* A Run in hand is registered, not in its closing, and in the hand of one slot.
HandKept ==
  /\ \A s \in Slots, r \in Runs : s \in inHand[r] <=> slot[s].at \in InHand /\ slot[s].run = r
  /\ \A s \in Slots : slot[s].at \in InHand => slot[s].run \in registry.runs \ registry.closing
  /\ \A s, t \in Slots :
       slot[s].at \in InHand /\ slot[t].at \in InHand /\ slot[s].run = slot[t].run => s = t
  /\ registry.started \subseteq answered

\* A claim that has a Run is asked or held, or ended with its slot; a spent one has none.
ClaimsKept ==
  /\ \A c \in Claims : jobs.gave[c] # NoRun =>
       c \in panicked.claims \/ \E s \in Slots : c \in {slot[s].held, slot[s].claim}
  /\ \A c \in jobs.spent : jobs.gave[c] = NoRun
  /\ jobs.acked \subseteq answered

\* A view that saw no change since is the loop state; a stop is of a refused epoch.
WakeOK(s) ==
  /\ slot[s].at \in {"decide", "waiting"} /\ ~slot[s].fresh => slot[s].view = loop
  /\ slot[s].at = "stopping" => slot[s].epoch \in refused
  /\ slot[s].at = "waiting" /\ ~slot[s].fresh /\ modeFeed = NoMode =>
       ~CanAsk(loop) \/ (Claiming(s, loop) /\ epochs.mode \in refused)
StopTrue == epochs.stopped = NOT_STOPPED \/ epochs.stopped \in refused

LoopInv ==
  /\ TypeOK /\ IsFiniteSet(jobs.keys)
  /\ \A s \in Slots : SlotOK(slot[s])
  /\ HandKept /\ ClaimsKept
  /\ \A s \in Slots : WakeOK(s)
  /\ StopTrue

-----------------------------------------------------------------------------
\* The loop before its feeds and slots run (spawn_loop).
LEMMA InitLoop == Init => LoopInv
<1> SUFFICES ASSUME Init PROVE LoopInv
  OBVIOUS
<1>1. slot \in [Slots -> SlotType] /\ \A s \in Slots : slot[s] = Idle
  BY LoopAssumption DEF Init, Idle, LoopStart, SlotType, SlotPlaces, LoopStates
<1>2. orderFeed \in [at : {"closed", "replay", "complete", "replaced", "live"},
                     entries : Seq({"put", "del"} \X Runs), left : Nat,
                     replayed : SUBSET Runs, ends : 0..MaxEnds]
  BY LoopAssumption DEF Init
<1>3. TypeOK
  <2>1. jobs \in [todo : SUBSET Runs, gave : [Claims -> Runs \cup {NoRun}], spent : SUBSET Claims,
                 ready : SUBSET Runs, acked : SUBSET Runs, orders : SUBSET Runs,
                 keys : SUBSET Runs, changes : 0..MaxOrders]
    BY LoopAssumption DEF Init
  <2>2. /\ registry \in [runs : SUBSET Runs, fired : SUBSET Runs, known : SUBSET Runs,
                        started : SUBSET Runs, closing : SUBSET Runs]
        /\ registry.fired \cup registry.started \cup registry.closing \subseteq registry.runs
    BY DEF Init
  <2>3. /\ loop \in LoopStates /\ modeFeed \in Modes \cup {NoMode}
        /\ epochs \in [mode : 0..MaxEpoch, stopped : {NOT_STOPPED} \cup 0..MaxEpoch]
    BY LoopAssumption DEF Init, LoopStart, LoopStates
  <2>4. inHand \in [Runs -> SUBSET Slots]
    BY DEF Init
  <2>5. refused \subseteq 0..MaxEpoch /\ answered \subseteq Runs
    BY DEF Init
  <2>6. drain \in BOOLEAN
    BY Zenon DEF Init
  <2>7. panicked \in [times : 0..MaxPanics, claims : SUBSET Claims]
    BY LoopAssumption DEF Init
  <2> QED BY <1>1, <1>2, <2>1, <2>2, <2>3, <2>4, <2>5, <2>6, <2>7 DEF TypeOK, SlotType
<1>4. IsFiniteSet(jobs.keys)
  BY FS_EmptySet DEF Init
<1>5. HandKept /\ ClaimsKept /\ StopTrue
  BY <1>1 DEF Init, Idle, HandKept, ClaimsKept, StopTrue, InHand
<1>6. \A s \in Slots : SlotOK(slot[s]) /\ WakeOK(s)
  BY <1>1 DEF Idle, SlotOK, WakeOK, WithRun, InHand
<1> QED BY <1>3, <1>4, <1>5, <1>6 DEF LoopInv

-----------------------------------------------------------------------------
(* Steps of the feeds, of jobs and of the shutdown                         *)

FeedType == [at : {"closed", "replay", "complete", "replaced", "live"},
             entries : Seq({"put", "del"} \X Runs), left : Nat,
             replayed : SUBSET Runs, ends : 0..MaxEnds]
JobsType == [todo : SUBSET Runs, gave : [Claims -> Runs \cup {NoRun}], spent : SUBSET Claims,
             ready : SUBSET Runs, acked : SUBSET Runs, orders : SUBSET Runs,
             keys : SUBSET Runs, changes : 0..MaxOrders]
RegistryType == [runs : SUBSET Runs, fired : SUBSET Runs, known : SUBSET Runs,
                 started : SUBSET Runs, closing : SUBSET Runs]
PanicsType == [times : 0..MaxPanics, claims : SUBSET Claims]
RegistryOK == registry.fired \cup registry.started \cup registry.closing \subseteq registry.runs

Types ==
  /\ loop \in LoopStates
  /\ epochs \in [mode : 0..MaxEpoch, stopped : {NOT_STOPPED} \cup 0..MaxEpoch]
  /\ registry \in RegistryType /\ RegistryOK
  /\ slot \in [Slots -> SlotType]
  /\ drain \in BOOLEAN /\ modeFeed \in Modes \cup {NoMode}
  /\ orderFeed \in FeedType /\ jobs \in JobsType
  /\ refused \subseteq 0..MaxEpoch /\ answered \subseteq Runs /\ inHand \in [Runs -> SUBSET Slots]
  /\ panicked \in PanicsType

\* The parts of TypeOK by their names, in a state and in the next one.
LEMMA TypeParts == (TypeOK <=> Types) /\ (TypeOK' <=> Types')
  BY DEF TypeOK, Types, RegistryType, RegistryOK, SlotType, FeedType, JobsType, PanicsType

\* A change of the loop state is for every slot to see (send_modify).
LEMMA SentKeeps ==
  ASSUME LoopInv, NEW l \in LoopStates, Sent(l),
         UNCHANGED <<epochs, registry, drain, jobs, refused, answered, inHand, panicked>>,
         modeFeed' \in Modes \cup {NoMode}, orderFeed' \in FeedType
  PROVE  LoopInv'
<1>1. /\ slot' \in [Slots -> SlotType] /\ loop' = l
      /\ \A s \in Slots : slot'[s] = [slot[s] EXCEPT !.fresh = TRUE] /\ slot'[s].fresh
  <2>1. \A x \in SlotType : [x EXCEPT !.fresh = TRUE] \in SlotType /\ [x EXCEPT !.fresh = TRUE].fresh
    BY DEF SlotType
  <2>2. slot \in [Slots -> SlotType]
    BY TypeParts DEF LoopInv, Types
  <2>3. /\ loop' = l /\ slot' = [s \in Slots |-> [slot[s] EXCEPT !.fresh = TRUE]]
    BY DEF Sent
  <2> QED BY <2>1, <2>2, <2>3
<1>2. \A s \in Slots : /\ slot'[s].at = slot[s].at /\ slot'[s].held = slot[s].held
                       /\ slot'[s].claim = slot[s].claim /\ slot'[s].run = slot[s].run
                       /\ slot'[s].epoch = slot[s].epoch
  BY <1>1 DEF LoopInv, TypeOK, SlotType
<1>3. TypeOK'
  BY <1>1, TypeParts DEF Types, LoopInv, RegistryOK
<1>4. \A s \in Slots : SlotOK(slot'[s]) /\ WakeOK(s)'
  BY <1>1, <1>2 DEF LoopInv, SlotOK, WakeOK
<1>5. HandKept' /\ ClaimsKept' /\ StopTrue'
  BY <1>2 DEF LoopInv, HandKept, ClaimsKept, StopTrue
<1> QED BY <1>3, <1>4, <1>5 DEF LoopInv

\* The keys of the bucket in some order.
LEMMA KeysInOrder ==
  ASSUME NEW S, IsFiniteSet(S)
  PROVE  Cardinality(S) \in Nat /\ SetToSeq(S) \in [1..Cardinality(S) -> S]
<1>1. Cardinality(S) \in Nat /\ \E f \in [1..Cardinality(S) -> S] : IsInjective(f)
  BY FS_CardinalityType DEF ExistsBijection, Bijection, Injection
<1> QED BY <1>1, Zenon DEF SetToSeq

\* The feeds tell the slots of every value and of every end (feeds.rs).
LEMMA TellsKeep ==
  ASSUME LoopInv, ModeSent \/ FeedNotOpened \/ FeedOpens \/ ReplaySent \/ FeedEnds
  PROVE  LoopInv'
<1>0. loop \in LoopStates /\ modeFeed \in Modes \cup {NoMode} /\ orderFeed \in FeedType /\ jobs \in JobsType
  BY TypeParts DEF LoopInv, Types
<1>1. CASE ModeSent
  <2>1. [loop EXCEPT !.mode = modeFeed] \in LoopStates
    BY <1>0, <1>1, LoopAssumption DEF ModeSent, LoopStates
  <2> QED BY <1>0, <1>1, <2>1, SentKeeps DEF ModeSent, SentAlways, pastVars
<1>2. [loop EXCEPT !.replay = FALSE] \in LoopStates /\ [loop EXCEPT !.replay = TRUE] \in LoopStates
  BY <1>0 DEF LoopStates
<1>3. CASE FeedNotOpened
  BY <1>0, <1>2, <1>3, SentKeeps DEF FeedNotOpened, feedVars, pastVars
<1>4. CASE FeedOpens
  <2>1. LET keys == SetToSeq(jobs.keys)
        IN  [i \in DOMAIN keys |-> Entry(keys[i])] \in Seq({"put", "del"} \X Runs)
    <3> DEFINE keys == SetToSeq(jobs.keys)
    <3>1. Cardinality(jobs.keys) \in Nat /\ keys \in [1..Cardinality(jobs.keys) -> jobs.keys]
      BY KeysInOrder DEF LoopInv
    <3>2. \A r \in jobs.keys : Entry(r) \in {"put", "del"} \X Runs
      BY <1>0 DEF Entry, JobsType
    <3> HIDE DEF keys
    <3>3. [i \in DOMAIN keys |-> Entry(keys[i])] \in [1..Cardinality(jobs.keys) -> {"put", "del"} \X Runs]
      BY <3>1, <3>2
    <3>4. [i \in DOMAIN keys |-> Entry(keys[i])] \in Seq({"put", "del"} \X Runs)
      BY <3>1, <3>3
    <3> QED BY <3>4 DEF keys
  <2>2. Cardinality(jobs.keys) \in Nat
    BY KeysInOrder DEF LoopInv
  <2>3. orderFeed' \in FeedType
    BY <1>0, <1>4, <2>1, <2>2 DEF FeedOpens, FeedType
  <2> QED BY <1>0, <1>2, <1>4, <2>3, SentKeeps DEF FeedOpens, pastVars
<1>5. CASE ReplaySent
  <2>1. orderFeed' \in FeedType
    BY <1>0, <1>5 DEF ReplaySent, FeedType
  <2> QED BY <1>0, <1>2, <1>5, <2>1, SentKeeps DEF ReplaySent, pastVars
<1>6. CASE FeedEnds
  <2>1. orderFeed' \in FeedType
    <3>1. orderFeed.ends + 1 \in 0..MaxEnds /\ <<>> \in Seq({"put", "del"} \X Runs)
      BY <1>0, <1>6, LoopAssumption DEF FeedEnds, FeedType
    <3> QED BY <1>0, <1>6, <3>1 DEF FeedEnds, FeedType
  <2> QED BY <1>0, <1>2, <1>6, <2>1, SentKeeps DEF FeedEnds, pastVars
<1> QED BY <1>1, <1>3, <1>4, <1>5, <1>6

\* A step that no slot sees.
LEMMA Unseen ==
  ASSUME LoopInv, TypeOK', IsFiniteSet(jobs'.keys), HandKept', ClaimsKept',
         UNCHANGED <<slot, loop, refused>>, epochs'.stopped = epochs.stopped,
         modeFeed' = NoMode => modeFeed = NoMode /\ epochs'.mode = epochs.mode
  PROVE  LoopInv'
  BY DEF LoopInv, SlotOK, WakeOK, StopTrue, Claiming

\* A new value of the mode, and the entries of the bucket (mode_changed, cancel_orders).
LEMMA EntriesKeep ==
  ASSUME LoopInv,
         (\E m \in Modes : ModeEpoch(m)) \/ ReplayEntry \/ ReplayComplete \/ LiveEntry
  PROVE  LoopInv'
<1>0. /\ UNCHANGED <<slot, loop, jobs, drain, refused, answered, inHand, panicked>>
      /\ epochs'.stopped = epochs.stopped
  BY DEF ModeEpoch, ReplayEntry, ReplayComplete, LiveEntry, pastVars, LoopInv, TypeOK
<1>1. orderFeed \in FeedType /\ registry \in RegistryType /\ RegistryOK
  BY TypeParts DEF LoopInv, Types
<1>2. CASE \E m \in Modes : ModeEpoch(m)
  <2>1. PICK m \in Modes : ModeEpoch(m)
    BY <1>2
  <2>2. /\ epochs' \in [mode : 0..MaxEpoch, stopped : {NOT_STOPPED} \cup 0..MaxEpoch]
        /\ modeFeed' \in Modes /\ modeFeed' # NoMode /\ UNCHANGED <<registry, orderFeed>>
    <3>1. epochs.mode + 1 \in 0..MaxEpoch
      BY <2>1, LoopAssumption DEF ModeEpoch, LoopInv, TypeOK
    <3> QED BY <2>1, <3>1, LoopAssumption DEF ModeEpoch, LoopInv, TypeOK
  <2>3. TypeOK'
    BY <1>0, <2>2, TypeParts DEF Types, LoopInv, RegistryOK
  <2>4. HandKept' /\ ClaimsKept' /\ IsFiniteSet(jobs'.keys)
    BY <1>0, <2>2 DEF LoopInv, HandKept, ClaimsKept
  <2> QED BY <1>0, <2>2, <2>3, <2>4, Unseen
<1>3. CASE ReplayEntry \/ ReplayComplete \/ LiveEntry
  <2>1. modeFeed' = modeFeed /\ epochs' = epochs
    BY <1>3 DEF ReplayEntry, ReplayComplete, LiveEntry
  <2>2. orderFeed.entries # <<>> =>
          /\ Head(orderFeed.entries)[1] \in {"put", "del"} /\ Head(orderFeed.entries)[2] \in Runs
          /\ Tail(orderFeed.entries) \in Seq({"put", "del"} \X Runs)
    <3>1. orderFeed.entries \in Seq({"put", "del"} \X Runs)
      BY <1>1 DEF FeedType
    <3>2. orderFeed.entries # <<>> => /\ Head(orderFeed.entries) \in {"put", "del"} \X Runs
                                      /\ Tail(orderFeed.entries) \in Seq({"put", "del"} \X Runs)
      BY <3>1
    <3> QED BY <3>2
  <2>3. orderFeed' \in FeedType
    <3>1. CASE ReplayEntry
      <4>1. PICK at \in {"complete", "replay"}, left \in Nat, replayed \in SUBSET Runs :
              orderFeed' = [orderFeed EXCEPT !.at = at, !.entries = Tail(@), !.left = left,
                                             !.replayed = replayed]
        <5>1. \A n \in Nat : (IF n = 0 THEN 0 ELSE n - 1) \in Nat
          OBVIOUS
        <5>2. orderFeed.left \in Nat /\ orderFeed.replayed \in SUBSET Runs
          BY <1>1 DEF FeedType
        <5>3. (IF Head(orderFeed.entries)[1] = "put"
               THEN orderFeed.replayed \cup {Head(orderFeed.entries)[2]}
               ELSE orderFeed.replayed) \in SUBSET Runs
          BY <2>2, <3>1, <5>2 DEF ReplayEntry
        <5> QED BY <3>1, <5>1, <5>2, <5>3 DEF ReplayEntry
      <4> QED BY <1>1, <2>2, <3>1, <4>1 DEF ReplayEntry, FeedType
    <3>2. CASE ReplayComplete \/ LiveEntry
      BY <1>1, <2>2, <3>2 DEF ReplayComplete, LiveEntry, FeedType
    <3> QED BY <1>3, <3>1, <3>2
  <2>4. /\ registry' \in RegistryType /\ RegistryOK'
        /\ UNCHANGED <<registry.runs, registry.started, registry.closing>>
    <3>1. CASE ReplayEntry
      BY <1>1, <3>1 DEF ReplayEntry, RegistryOK
    <3>2. CASE ReplayComplete
      BY <1>1, <3>2 DEF ReplayComplete, Replaced, RegistryType, RegistryOK, FeedType
    <3>3. CASE LiveEntry
      BY <1>1, <2>2, <3>3 DEF LiveEntry, OrderMade, OrderDeleted, RegistryType, RegistryOK
    <3> QED BY <1>3, <3>1, <3>2, <3>3
  <2>5. TypeOK'
    BY <1>0, <2>1, <2>3, <2>4, TypeParts DEF Types, LoopInv
  <2>6. HandKept' /\ ClaimsKept' /\ IsFiniteSet(jobs'.keys)
    BY <1>0, <2>4 DEF LoopInv, HandKept, ClaimsKept
  <2> QED BY <1>0, <2>1, <2>5, <2>6, Unseen
<1> QED BY <1>2, <1>3

\* The end of a closing, the drain, and what jobs does.
LEMMA JobsKeep ==
  ASSUME LoopInv,
         \/ \E c \in Claims, r \in Runs : JobsGives(c, r)
         \/ \E r \in Runs : Closed(r) \/ JobsTriggers(r)
         \/ \E r \in Orderable : JobsOrders(r)
         \/ \E c \in Claims : JobsTakesBack(c)
         \/ DrainBegins
  PROVE  LoopInv'
<1>0. /\ UNCHANGED <<slot, loop, epochs, modeFeed, refused, answered, inHand, panicked>>
      /\ Types /\ HandKept /\ ClaimsKept
  BY TypeParts DEF JobsGives, Closed, JobsTriggers, JobsOrders, JobsTakesBack, DrainBegins, pastVars,
         feedVars, LoopInv
<1>1. CASE \E c \in Claims, r \in Runs : JobsGives(c, r)
  <2>1. PICK c \in Claims, r \in Runs : JobsGives(c, r)
    BY <1>1
  <2>2. /\ jobs' = [jobs EXCEPT !.gave[c] = r] /\ c \notin jobs.spent
        /\ c \in panicked.claims \/ \E s \in Slots : c \in {slot[s].claim, slot[s].held}
        /\ UNCHANGED <<registry, drain, orderFeed>>
    BY <2>1 DEF JobsGives, feedVars
  <2>3. /\ jobs' \in JobsType /\ jobs'.keys = jobs.keys /\ jobs'.acked = jobs.acked
        /\ jobs'.spent = jobs.spent /\ \A d \in Claims : d # c => jobs'.gave[d] = jobs.gave[d]
    BY <1>0, <2>2 DEF Types, JobsType
  <2>4. TypeOK'
    BY <1>0, <2>2, <2>3, TypeParts DEF Types, RegistryOK
  <2>5. HandKept'
    BY <1>0, <2>2 DEF HandKept
  <2>6. ClaimsKept'
    BY <1>0, <2>2, <2>3 DEF Types, JobsType, ClaimsKept
  <2> QED BY <1>0, <2>3, <2>4, <2>5, <2>6, Unseen DEF LoopInv
<1>2. CASE \E c \in Claims : JobsTakesBack(c)
  <2>1. PICK c \in Claims : JobsTakesBack(c)
    BY <1>2
  <2>2. /\ jobs' = [jobs EXCEPT !.gave[c] = NoRun, !.spent = @ \cup {c}]
        /\ UNCHANGED <<registry, drain, orderFeed>>
    BY <2>1 DEF JobsTakesBack, feedVars
  <2>3. /\ jobs' \in JobsType /\ jobs'.keys = jobs.keys /\ jobs'.acked = jobs.acked
        /\ jobs'.spent = jobs.spent \cup {c} /\ jobs'.gave[c] = NoRun
        /\ \A d \in Claims : d # c => jobs'.gave[d] = jobs.gave[d]
    BY <1>0, <2>2 DEF Types, JobsType
  <2>4. TypeOK'
    BY <1>0, <2>2, <2>3, TypeParts DEF Types, RegistryOK
  <2>5. HandKept'
    BY <1>0, <2>2 DEF HandKept
  <2>6. ClaimsKept'
    BY <1>0, <2>3 DEF Types, JobsType, ClaimsKept
  <2> QED BY <1>0, <2>3, <2>4, <2>5, <2>6, Unseen DEF LoopInv
<1>3. CASE \E r \in Runs : Closed(r)
  <2>1. PICK r \in Runs : Closed(r)
    BY <1>3
  <2>2. /\ r \in registry.closing /\ registry' = Forgotten(r) /\ jobs' = [jobs EXCEPT !.todo = @ \ {r}]
        /\ UNCHANGED <<drain, orderFeed>>
    BY <2>1 DEF Closed, feedVars
  <2>3. /\ registry' \in RegistryType /\ RegistryOK' /\ registry'.runs = registry.runs \ {r}
        /\ registry'.closing = registry.closing \ {r} /\ registry'.started \subseteq registry.started
    BY <1>0, <2>2 DEF Types, RegistryType, RegistryOK, Forgotten
  <2>4. /\ jobs' \in JobsType /\ jobs'.keys = jobs.keys /\ jobs'.acked = jobs.acked
        /\ jobs'.spent = jobs.spent /\ jobs'.gave = jobs.gave
    BY <1>0, <2>2 DEF Types, JobsType
  <2>5. TypeOK'
    BY <1>0, <2>2, <2>3, <2>4, TypeParts DEF Types
  <2>6. HandKept'
    BY <1>0, <2>2, <2>3 DEF HandKept
  <2>7. ClaimsKept'
    BY <1>0, <2>4 DEF ClaimsKept
  <2> QED BY <1>0, <2>4, <2>5, <2>6, <2>7, Unseen DEF LoopInv
<1>4. CASE \E r \in Runs : JobsTriggers(r)
  <2>1. PICK r \in Runs : JobsTriggers(r)
    BY <1>4
  <2>2. jobs' = [jobs EXCEPT !.ready = @ \cup {r}] /\ UNCHANGED <<registry, drain, orderFeed>>
    BY <2>1 DEF JobsTriggers, feedVars
  <2>3. /\ jobs' \in JobsType /\ jobs'.keys = jobs.keys /\ jobs'.acked = jobs.acked
        /\ jobs'.spent = jobs.spent /\ jobs'.gave = jobs.gave
    BY <1>0, <2>2 DEF Types, JobsType
  <2>4. TypeOK'
    BY <1>0, <2>2, <2>3, TypeParts DEF Types, RegistryOK
  <2>5. HandKept' /\ ClaimsKept'
    BY <1>0, <2>2, <2>3 DEF HandKept, ClaimsKept
  <2> QED BY <1>0, <2>3, <2>4, <2>5, Unseen DEF LoopInv
<1>5. CASE \E r \in Orderable : JobsOrders(r)
  <2>1. PICK r \in Runs : JobsOrders(r)
    BY <1>5, LoopAssumption
  <2>2. /\ jobs.changes < MaxOrders
        /\ jobs' = [jobs EXCEPT !.orders = IF r \in @ THEN @ \ {r} ELSE @ \cup {r},
                                !.keys = @ \cup {r}, !.changes = @ + 1]
        /\ UNCHANGED <<registry, drain>>
    BY <2>1 DEF JobsOrders
  <2>3. jobs.changes + 1 \in 0..MaxOrders
    BY <1>0, <2>2, LoopAssumption DEF Types, JobsType
  <2>4. /\ jobs' \in JobsType /\ jobs'.keys = jobs.keys \cup {r} /\ jobs'.acked = jobs.acked
        /\ jobs'.spent = jobs.spent /\ jobs'.gave = jobs.gave
    BY <1>0, <2>2, <2>3 DEF Types, JobsType
  <2>5. IsFiniteSet(jobs'.keys)
    BY <2>4, FS_AddElement DEF LoopInv
  <2>6. orderFeed' \in FeedType
    <3>1. \A e \in {"put", "del"} \X Runs :
            Append(orderFeed.entries, e) \in Seq({"put", "del"} \X Runs)
      BY <1>0 DEF Types, FeedType
    <3> QED BY <1>0, <2>1, <3>1 DEF Types, FeedType, JobsOrders
  <2>7. TypeOK'
    BY <1>0, <2>2, <2>4, <2>6, TypeParts DEF Types, RegistryOK
  <2>8. HandKept' /\ ClaimsKept'
    BY <1>0, <2>2, <2>4 DEF HandKept, ClaimsKept
  <2> QED BY <1>0, <2>5, <2>7, <2>8, Unseen
<1>6. CASE DrainBegins
  <2>1. drain' \in BOOLEAN /\ UNCHANGED <<registry, jobs, orderFeed>>
    BY <1>6, Zenon DEF DrainBegins, feedVars
  <2>2. TypeOK' /\ HandKept' /\ ClaimsKept'
    BY <1>0, <2>1, TypeParts DEF Types, RegistryOK, HandKept, ClaimsKept
  <2> QED BY <1>0, <2>1, <2>2, Unseen DEF LoopInv
<1> QED BY <1>1, <1>2, <1>3, <1>4, <1>5, <1>6

-----------------------------------------------------------------------------
(* Steps of a slot                                                         *)

Others(s) == \A t \in Slots \ {s} : slot'[t] = slot[t]

\* A slot goes to a place, and the others stay where they are.
LEMMA GoesFacts ==
  ASSUME LoopInv, NEW s \in Slots, NEW p \in SlotPlaces, Goes(s, p)
  PROVE  /\ slot' \in [Slots -> SlotType] /\ Others(s)
         /\ slot'[s] = [slot[s] EXCEPT !.at = p] /\ slot[s] \in SlotType
<1>1. slot \in [Slots -> SlotType]
  BY TypeParts DEF LoopInv, Types
<1> QED BY <1>1 DEF Goes, Others, SlotType

\* A slot as it is made (run).
LEMMA IdleSlot == Idle \in SlotType /\ Idle.at = "top" /\ Idle.claim = NoClaim /\ ~Idle.fresh
  BY LoopAssumption DEF SlotType, SlotPlaces, Idle, LoopStart, LoopStates

\* A slot goes back to its top without a claim and without a Run.
LEMMA BackFacts ==
  ASSUME LoopInv, NEW s \in Slots, BackToTop(s)
  PROVE  /\ slot' \in [Slots -> SlotType] /\ Others(s) /\ slot[s] \in SlotType
         /\ slot'[s].at = "top" /\ slot'[s].claim = NoClaim /\ slot'[s].held = slot[s].held
<1>1. slot \in [Slots -> SlotType]
  BY TypeParts DEF LoopInv, Types
<1>2. \A x \in SlotType : LET y == [Idle EXCEPT !.fresh = x.fresh, !.held = x.held]
                          IN  y \in SlotType /\ y.at = "top" /\ y.claim = NoClaim /\ y.held = x.held
  BY IdleSlot DEF SlotType, SlotPlaces
<1>3. slot' = [slot EXCEPT ![s] = [Idle EXCEPT !.fresh = slot[s].fresh, !.held = slot[s].held]]
  BY DEF BackToTop
<1> QED BY <1>1, <1>2, <1>3 DEF Others

\* A step of a slot that has no Run in hand, and gets none.
LEMMA EmptyHanded ==
  ASSUME LoopInv, NEW s \in Slots, Others(s), UNCHANGED <<registry, inHand, answered>>,
         slot[s].at \notin InHand, slot'[s].at \notin InHand
  PROVE  HandKept'
  BY DEF LoopInv, HandKept, Others

\* A step of a slot that drops no claim that has a Run.
LEMMA ClaimsHeld ==
  ASSUME LoopInv, NEW s \in Slots, Others(s), answered \subseteq answered',
         panicked.claims \subseteq panicked'.claims,
         \A c \in Claims : jobs'.gave[c] # NoRun =>
           /\ jobs.gave[c] # NoRun
           /\ c \in {slot[s].held, slot[s].claim} =>
                c \in {slot'[s].held, slot'[s].claim} \cup panicked'.claims,
         jobs'.spent \subseteq jobs.spent, jobs'.spent \subseteq Claims, jobs'.acked \subseteq answered'
  PROVE  ClaimsKept'
<1>1. \A c \in Claims : jobs'.gave[c] # NoRun =>
        c \in panicked'.claims \/ \E t \in Slots : c \in {slot'[t].held, slot'[t].claim}
  <2> SUFFICES ASSUME NEW c \in Claims, jobs'.gave[c] # NoRun, c \notin panicked'.claims
               PROVE  \E t \in Slots : c \in {slot'[t].held, slot'[t].claim}
    OBVIOUS
  <2>1. PICK t \in Slots : c \in {slot[t].held, slot[t].claim}
    BY DEF LoopInv, ClaimsKept
  <2>2. CASE t = s
    BY <2>1, <2>2
  <2>3. CASE t # s
    BY <2>1, <2>3 DEF Others
  <2> QED BY <2>2, <2>3
<1>2. \A c \in jobs'.spent : jobs'.gave[c] = NoRun
  BY DEF LoopInv, ClaimsKept
<1> QED BY <1>1, <1>2 DEF ClaimsKept

\* A step of a slot, by its parts.
LEMMA OneSlot ==
  ASSUME LoopInv, NEW s \in Slots, Others(s), TypeOK', HandKept', ClaimsKept', StopTrue',
         UNCHANGED <<loop, modeFeed>>, epochs'.mode = epochs.mode, jobs'.keys = jobs.keys,
         refused \subseteq refused', SlotOK(slot'[s]), WakeOK(s)'
  PROVE  LoopInv'
<1>1. \A t \in Slots \ {s} : SlotOK(slot'[t]) /\ WakeOK(t)'
  BY DEF LoopInv, Others, WakeOK, Claiming
<1> QED BY <1>1 DEF LoopInv

\* A step that changes the slot, the stop of the claims and the refusals only.
LEMMA QuietSlot ==
  ASSUME LoopInv, NEW s \in Slots, slot' \in [Slots -> SlotType], Others(s),
         UNCHANGED <<loop, registry, drain, jobs, modeFeed, orderFeed, answered, inHand, panicked>>,
         epochs' \in [mode : 0..MaxEpoch, stopped : {NOT_STOPPED} \cup 0..MaxEpoch],
         epochs'.mode = epochs.mode, refused' \subseteq 0..MaxEpoch, refused \subseteq refused',
         StopTrue', slot[s].at \notin InHand, slot'[s].at \notin InHand,
         SlotOK(slot'[s]), WakeOK(s)',
         \A c \in Claims : c \in {slot[s].held, slot[s].claim} /\ jobs.gave[c] # NoRun =>
           c \in {slot'[s].held, slot'[s].claim}
  PROVE  LoopInv'
<1>1. TypeOK'
  BY TypeParts DEF LoopInv, Types, RegistryOK
<1>2. jobs.spent \subseteq Claims
  BY DEF LoopInv, TypeOK
<1>3. HandKept' /\ ClaimsKept'
  BY <1>2, EmptyHanded, ClaimsHeld DEF LoopInv, ClaimsKept
<1> QED BY <1>1, <1>3, OneSlot

\* Where a slot looks at the loop state, waits for it, or leaves (slot.rs, step).
LEMMA LookSteps ==
  ASSUME LoopInv, NEW s \in Slots,
         \/ Top(s) \/ Decide(s) \/ WaitEnds(s) \/ PauseEnds(s) \/ PushUnusable(s) \/ PushDrained(s)
         \/ Restarts(s)
  PROVE  LoopInv'
<1>0. /\ UNCHANGED <<loop, registry, drain, jobs, modeFeed, orderFeed, answered, inHand, panicked,
                     epochs, refused>>
      /\ slot[s].at \in {"top", "decide", "waiting", "pause", "push", "panicked"}
  BY DEF Top, Decide, WaitEnds, PauseEnds, PushUnusable, PushDrained, Restarts, At, feedVars, pastVars
<1>1. /\ slot \in [Slots -> SlotType] /\ slot[s] \in SlotType /\ loop \in LoopStates
      /\ epochs \in [mode : 0..MaxEpoch, stopped : {NOT_STOPPED} \cup 0..MaxEpoch]
      /\ refused \subseteq 0..MaxEpoch /\ SlotOK(slot[s]) /\ WakeOK(s) /\ StopTrue
      /\ slot[s].claim = NoClaim
  BY <1>0, TypeParts DEF LoopInv, Types, SlotOK
<1>2. /\ slot' \in [Slots -> SlotType] /\ Others(s)
      /\ slot'[s].claim = NoClaim /\ slot'[s].held = slot[s].held
      /\ slot'[s].at \in {"top", "gone", "decide", "waiting", "claim", "push"}
      /\ slot'[s].at \in {"decide", "waiting"} /\ ~slot'[s].fresh => slot'[s].view = loop
      /\ slot'[s].at = "waiting" /\ ~slot'[s].fresh /\ modeFeed = NoMode =>
           ~CanAsk(loop) \/ (Claiming(s, loop) /\ ClaimsStopped)
  <2>1. CASE Top(s) /\ ~drain
    <3>1. slot' = [slot EXCEPT ![s].at = "decide", ![s].view = loop, ![s].fresh = FALSE]
      BY <2>1 DEF Top
    <3> QED BY <1>1, <3>1 DEF Others, SlotType, SlotPlaces
  <2>2. CASE Decide(s)
    <3>1. PICK p \in {"waiting", "claim", "push"} :
            /\ Goes(s, p)
            /\ p = "waiting" => MustWait(s, slot[s].view, Claiming(s, slot[s].view) /\ ClaimsStopped)
      BY <2>2 DEF Decide
    <3>2. /\ slot' \in [Slots -> SlotType] /\ Others(s) /\ slot'[s] = [slot[s] EXCEPT !.at = p]
      BY <3>1, GoesFacts DEF SlotPlaces
    <3>3. ~slot[s].fresh => slot[s].view = loop
      BY <1>1, <2>2 DEF WakeOK, Decide, At
    <3> QED BY <1>1, <3>1, <3>2, <3>3 DEF MustWait, SlotType
  <2>3. CASE PushUnusable(s)
    <3>1. slot' = [slot EXCEPT ![s] = [Idle EXCEPT !.held = slot[s].held]]
      BY <2>3 DEF PushUnusable
    <3>2. \A x \in SlotType : LET y == [Idle EXCEPT !.held = x.held]
                            IN  y \in SlotType /\ y.at = "top" /\ y.claim = NoClaim /\ y.held = x.held
      BY IdleSlot DEF SlotType, SlotPlaces
    <3> QED BY <1>1, <3>1, <3>2 DEF Others
  <2>4. CASE BackToTop(s)
    BY <2>4, BackFacts
  <2>5. CASE Goes(s, "top") \/ Goes(s, "gone")
    <3>1. PICK p \in {"top", "gone"} : Goes(s, p)
      BY <2>5
    <3>2. /\ slot' \in [Slots -> SlotType] /\ Others(s) /\ slot'[s] = [slot[s] EXCEPT !.at = p]
      BY <3>1, GoesFacts DEF SlotPlaces
    <3> QED BY <1>1, <3>1, <3>2 DEF SlotType
  <2>6. \/ (Top(s) /\ ~drain) \/ Decide(s) \/ PushUnusable(s) \/ BackToTop(s)
        \/ Goes(s, "top") \/ Goes(s, "gone")
    BY DEF Top, WaitEnds, PauseEnds, PushDrained, Restarts
  <2> QED BY <2>1, <2>2, <2>3, <2>4, <2>5, <2>6
<1>3. SlotOK(slot'[s])
  BY <1>0, <1>1, <1>2 DEF SlotOK, WithRun, InHand
<1>4. ClaimsStopped => epochs.mode \in refused
  BY <1>1, LoopAssumption DEF ClaimsStopped, StopTrue, NOT_STOPPED
<1>5. WakeOK(s)'
  BY <1>0, <1>2, <1>4 DEF WakeOK, Claiming
<1>6. StopTrue'
  BY <1>0, <1>1 DEF StopTrue
<1> QED BY <1>0, <1>1, <1>2, <1>3, <1>5, <1>6, LoopAssumption, QuietSlot DEF InHand

\* The claim and its answers that give no Run (claim_step).
LEMMA AskSteps ==
  ASSUME LoopInv, NEW s \in Slots,
         \/ Claim(s) \/ ClaimGivesNone(s) \/ ClaimRepeated(s) \/ ClaimRefused(s) \/ ClaimsStop(s)
  PROVE  LoopInv'
<1>0. /\ UNCHANGED <<loop, registry, drain, jobs, modeFeed, orderFeed, answered, inHand, panicked>>
      /\ slot[s].at \in {"claim", "asked", "stopping"}
  BY DEF Claim, ClaimGivesNone, ClaimRepeated, ClaimRefused, ClaimsStop, At, feedVars, pastVars
<1>1. /\ slot \in [Slots -> SlotType] /\ slot[s] \in SlotType
      /\ epochs \in [mode : 0..MaxEpoch, stopped : {NOT_STOPPED} \cup 0..MaxEpoch]
      /\ refused \subseteq 0..MaxEpoch /\ SlotOK(slot[s]) /\ WakeOK(s) /\ StopTrue
  BY TypeParts DEF LoopInv, Types
<1>2. CASE Claim(s)
  <2>1. PICK c \in Claims :
          /\ slot[s].held # NoClaim => c = slot[s].held
          /\ slot' = [slot EXCEPT ![s].at = "asked", ![s].held = NoClaim,
                                  ![s].claim = c, ![s].epoch = epochs.mode]
    <3>1. PICK c \in (IF slot[s].held # NoClaim THEN {slot[s].held} ELSE Claims \ InUse) :
            slot' = [slot EXCEPT ![s].at = "asked", ![s].held = NoClaim,
                                 ![s].claim = c, ![s].epoch = epochs.mode]
      BY <1>2, Zenon DEF Claim
    <3>2. c \in Claims /\ (slot[s].held # NoClaim => c = slot[s].held)
      BY <1>1 DEF SlotType
    <3> QED BY <3>1, <3>2
  <2>2. /\ slot' \in [Slots -> SlotType] /\ Others(s) /\ slot'[s].at = "asked"
        /\ slot'[s].held = NoClaim /\ slot'[s].claim = c
    BY <1>1, <2>1 DEF Others, SlotType, SlotPlaces
  <2>3. SlotOK(slot'[s]) /\ WakeOK(s)' /\ slot[s].claim = NoClaim
    BY <1>1, <1>2, <2>2 DEF SlotOK, WakeOK, WithRun, InHand, Claim, At
  <2>4. UNCHANGED <<epochs, refused>> /\ StopTrue'
    BY <1>1, <1>2 DEF Claim, pastVars, StopTrue
  <2> QED BY <1>0, <1>1, <2>1, <2>2, <2>3, <2>4, LoopAssumption, QuietSlot DEF InHand
<1>3. CASE ClaimRepeated(s)
  <2>1. slot' = [slot EXCEPT ![s].at = "pause", ![s].held = slot[s].claim, ![s].claim = NoClaim]
    BY <1>3 DEF ClaimRepeated, KeepsClaim
  <2>2. /\ slot' \in [Slots -> SlotType] /\ Others(s) /\ slot'[s].at = "pause"
        /\ slot'[s].held = slot[s].claim /\ slot'[s].claim = NoClaim
    BY <1>1, <2>1 DEF Others, SlotType, SlotPlaces
  <2>3. SlotOK(slot'[s]) /\ WakeOK(s)' /\ slot[s].held = NoClaim
    BY <1>1, <1>3, <2>2 DEF SlotOK, WakeOK, WithRun, InHand, ClaimRepeated, At
  <2>4. UNCHANGED <<epochs, refused>> /\ StopTrue'
    BY <1>1, <1>3 DEF ClaimRepeated, pastVars, StopTrue
  <2> QED BY <1>0, <1>1, <2>2, <2>3, <2>4, LoopAssumption, QuietSlot DEF InHand
<1>4. CASE ClaimRefused(s) /\ slot[s].epoch = epochs.mode
  <2>1. /\ slot' = [slot EXCEPT ![s].at = "stopping", ![s].claim = NoClaim]
        /\ refused' = refused \cup {slot[s].epoch} /\ epochs' = epochs
        /\ jobs.gave[slot[s].claim] = NoRun
    BY <1>4 DEF ClaimRefused
  <2>2. /\ slot' \in [Slots -> SlotType] /\ Others(s) /\ slot'[s].at = "stopping"
        /\ slot'[s].held = slot[s].held /\ slot'[s].claim = NoClaim /\ slot'[s].epoch = slot[s].epoch
        /\ slot[s].epoch \in 0..MaxEpoch
    BY <1>1, <2>1 DEF Others, SlotType, SlotPlaces
  <2>3. SlotOK(slot'[s]) /\ WakeOK(s)' /\ StopTrue'
    BY <1>1, <2>1, <2>2 DEF SlotOK, WakeOK, WithRun, InHand, StopTrue
  <2> QED BY <1>0, <1>1, <2>1, <2>2, <2>3, QuietSlot DEF InHand
<1>5. CASE \/ ClaimGivesNone(s) \/ ClaimsStop(s)
           \/ ClaimRefused(s) /\ slot[s].epoch # epochs.mode
  <2>1. BackToTop(s)
    BY <1>5 DEF ClaimGivesNone, ClaimsStop, ClaimRefused
  <2>2. /\ slot' \in [Slots -> SlotType] /\ Others(s) /\ slot'[s].at = "top"
        /\ slot'[s].held = slot[s].held /\ slot'[s].claim = NoClaim /\ slot[s].epoch \in 0..MaxEpoch
    BY <1>1, <2>1, BackFacts DEF SlotType
  <2>3. SlotOK(slot'[s]) /\ WakeOK(s)'
    BY <2>2 DEF SlotOK, WakeOK, WithRun, InHand
  <2>4. slot[s].claim \in Claims => jobs.gave[slot[s].claim] = NoRun
    <3>1. CASE ClaimGivesNone(s) \/ ClaimRefused(s)
      BY <3>1 DEF ClaimGivesNone, ClaimRefused
    <3>2. CASE ClaimsStop(s)
      BY <1>1, <3>2, LoopAssumption DEF ClaimsStop, SlotOK, At
    <3> QED BY <1>5, <3>1, <3>2
  <2>5. /\ epochs' \in [mode : 0..MaxEpoch, stopped : {NOT_STOPPED} \cup 0..MaxEpoch]
        /\ epochs'.mode = epochs.mode /\ StopTrue'
        /\ refused \subseteq refused' /\ refused' \subseteq 0..MaxEpoch
    <3>1. CASE ClaimGivesNone(s)
      BY <1>1, <3>1 DEF ClaimGivesNone, pastVars, StopTrue
    <3>2. CASE ClaimsStop(s)
      <4>1. slot[s].epoch \in refused
        BY <1>1, <3>2 DEF ClaimsStop, WakeOK, At
      <4> QED BY <1>1, <2>2, <3>2, <4>1 DEF ClaimsStop, StopsAt, pastVars, StopTrue
    <3>3. CASE ClaimRefused(s)
      BY <1>1, <2>2, <3>3 DEF ClaimRefused, StopTrue
    <3> QED BY <1>5, <3>1, <3>2, <3>3
  <2> QED BY <1>0, <1>1, <2>2, <2>3, <2>4, <2>5, QuietSlot DEF InHand
<1> QED BY <1>2, <1>3, <1>4, <1>5

\* A step of a slot to a place where it does not look at its view.
LEMMA BusySlot ==
  ASSUME LoopInv, NEW s \in Slots, slot' \in [Slots -> SlotType], Others(s),
         UNCHANGED <<loop, epochs, drain, modeFeed, orderFeed, refused>>, panicked' \in PanicsType,
         registry' \in RegistryType, RegistryOK', answered' \subseteq Runs,
         inHand' \in [Runs -> SUBSET Slots], jobs' \in JobsType, jobs'.keys = jobs.keys,
         slot'[s].at \notin {"decide", "waiting", "stopping"}, SlotOK(slot'[s]),
         HandKept', ClaimsKept'
  PROVE  LoopInv'
<1>1. TypeOK'
  BY TypeParts DEF LoopInv, Types
<1>2. WakeOK(s)' /\ StopTrue'
  BY DEF LoopInv, WakeOK, StopTrue
<1> QED BY <1>1, <1>2, OneSlot

\* What a slot makes of a trigger or of a claim that was spent.
LEMMA JobsFacts ==
  ASSUME LoopInv, NEW s \in Slots, slot[s].at \in WithRun
  PROVE  /\ jobs \in JobsType /\ slot[s].run \in Runs
         /\ \A j \in {GivenBack(s), Acknowledged(s), SettleKnown(s)} :
              /\ j \in JobsType /\ j.keys = jobs.keys /\ j.gave = jobs.gave /\ j.spent = jobs.spent
              /\ j.acked \subseteq jobs.acked \cup {slot[s].run}
         /\ GivenBack(s).acked = jobs.acked
         /\ SettleKnown(s).acked \subseteq answered
<1>1. jobs \in JobsType /\ slot[s].run \in Runs
  BY TypeParts DEF LoopInv, Types, SlotOK
<1>2. /\ jobs.acked \subseteq answered /\ registry.started \subseteq answered
  BY DEF LoopInv, ClaimsKept, HandKept
<1>3. /\ GivenBack(s) \in JobsType /\ GivenBack(s).keys = jobs.keys /\ GivenBack(s).gave = jobs.gave
      /\ GivenBack(s).spent = jobs.spent /\ GivenBack(s).acked = jobs.acked
  BY <1>1 DEF GivenBack, JobsType
<1>4. /\ Acknowledged(s) \in JobsType /\ Acknowledged(s).keys = jobs.keys
      /\ Acknowledged(s).gave = jobs.gave /\ Acknowledged(s).spent = jobs.spent
      /\ Acknowledged(s).acked \subseteq jobs.acked \cup {slot[s].run}
  BY <1>1 DEF Acknowledged, JobsType
<1>5. SettleKnown(s) \in {jobs, Acknowledged(s)} /\ SettleKnown(s).acked \subseteq answered
  BY <1>2, <1>4 DEF SettleKnown
<1> QED BY <1>1, <1>3, <1>4, <1>5

\* A slot is given a Run, or finds its claim spent (claim_step, push_step, execute).
LEMMA GivenSteps ==
  ASSUME LoopInv, NEW s \in Slots,
         \/ ClaimGivesWork(s) \/ ClaimSpent(s) \/ Given(s) \/ \E r \in Runs : TriggerRead(s, r)
  PROVE  LoopInv'
<1>0. /\ UNCHANGED <<loop, epochs, registry, drain, modeFeed, orderFeed, refused, answered, inHand>>
      /\ UNCHANGED panicked
      /\ slot[s].at \in {"asked", "push", "given"}
  BY DEF ClaimGivesWork, ClaimSpent, Given, TriggerRead, At, feedVars, pastVars
<1>1. /\ slot \in [Slots -> SlotType] /\ slot[s] \in SlotType /\ jobs \in JobsType
      /\ registry \in RegistryType /\ RegistryOK /\ RegistryOK' /\ answered \subseteq Runs
      /\ inHand \in [Runs -> SUBSET Slots] /\ panicked \in PanicsType
      /\ SlotOK(slot[s]) /\ ClaimsKept /\ HandKept
  BY <1>0, TypeParts DEF LoopInv, Types, RegistryOK
<1>2. CASE ClaimGivesWork(s)
  <2> DEFINE c == slot[s].claim
  <2>1. /\ c \in Claims /\ slot[s].held = NoClaim /\ jobs.gave[c] \in Runs
        /\ slot' = [slot EXCEPT ![s].at = "given", ![s].source = "Claim", ![s].claim = NoClaim,
                                ![s].run = jobs.gave[c]]
        /\ jobs' = [jobs EXCEPT !.gave[c] = NoRun]
    BY <1>1, <1>2 DEF ClaimGivesWork, At, SlotOK, JobsType
  <2>2. /\ slot' \in [Slots -> SlotType] /\ Others(s) /\ slot'[s].at = "given"
        /\ slot'[s].claim = NoClaim /\ slot'[s].held = NoClaim /\ slot'[s].run \in Runs
    BY <1>1, <2>1 DEF Others, SlotType, SlotPlaces
  <2>3. /\ jobs' \in JobsType /\ jobs'.keys = jobs.keys /\ jobs'.acked = jobs.acked
        /\ jobs'.spent = jobs.spent /\ jobs'.gave[c] = NoRun
        /\ \A d \in Claims : d # c => jobs'.gave[d] = jobs.gave[d]
    BY <1>1, <2>1 DEF JobsType
  <2>4. SlotOK(slot'[s])
    BY <2>2 DEF SlotOK
  <2>5. ClaimsKept'
    BY <1>0, <1>1, <2>1, <2>2, <2>3, ClaimsHeld, LoopAssumption DEF ClaimsKept, JobsType
  <2>6. HandKept'
    BY <1>0, <2>2, EmptyHanded DEF InHand
  <2> QED BY <1>0, <1>1, <2>2, <2>3, <2>4, <2>5, <2>6, BusySlot
<1>3. CASE ClaimSpent(s)
  <2> DEFINE c == slot[s].claim
  <2>1. /\ c \in jobs.spent /\ jobs.gave[c] = NoRun /\ BackToTop(s)
        /\ jobs' = [jobs EXCEPT !.spent = @ \ {c}]
    BY <1>1, <1>3 DEF ClaimSpent, ClaimsKept
  <2>2. /\ slot' \in [Slots -> SlotType] /\ Others(s) /\ slot'[s].at = "top"
        /\ slot'[s].claim = NoClaim /\ slot'[s].held = slot[s].held
    BY <2>1, BackFacts
  <2>3. /\ jobs' \in JobsType /\ jobs'.keys = jobs.keys /\ jobs'.acked = jobs.acked
        /\ jobs'.spent \subseteq jobs.spent /\ jobs'.gave = jobs.gave
    BY <1>1, <2>1 DEF JobsType
  <2>4. SlotOK(slot'[s])
    BY <2>2 DEF SlotOK, WithRun, InHand
  <2>5. ClaimsKept'
    BY <1>0, <1>1, <2>1, <2>2, <2>3, ClaimsHeld DEF ClaimsKept, JobsType
  <2>6. HandKept'
    BY <1>0, <2>2, EmptyHanded DEF InHand
  <2> QED BY <1>0, <1>1, <2>2, <2>3, <2>4, <2>5, <2>6, BusySlot
<1>4. CASE \E r \in Runs : TriggerRead(s, r)
  <2>1. PICK r \in Runs : /\ slot[s].at = "push"
                          /\ slot' = [slot EXCEPT ![s].at = "given", ![s].source = "Trigger", ![s].run = r]
                          /\ jobs' = [jobs EXCEPT !.ready = @ \ {r}]
    BY <1>4 DEF TriggerRead, At
  <2>2. /\ slot' \in [Slots -> SlotType] /\ Others(s) /\ slot'[s].at = "given" /\ slot'[s].run \in Runs
        /\ slot'[s].claim = slot[s].claim /\ slot'[s].held = slot[s].held
    BY <1>1, <2>1 DEF Others, SlotType, SlotPlaces
  <2>3. /\ jobs' \in JobsType /\ jobs'.keys = jobs.keys /\ jobs'.acked = jobs.acked
        /\ jobs'.spent = jobs.spent /\ jobs'.gave = jobs.gave
    BY <1>1, <2>1 DEF JobsType
  <2>4. SlotOK(slot'[s])
    BY <1>1, <2>1, <2>2 DEF SlotOK
  <2>5. ClaimsKept'
    BY <1>0, <1>1, <2>2, <2>3, ClaimsHeld DEF ClaimsKept, JobsType
  <2>6. HandKept'
    BY <1>0, <2>2, EmptyHanded DEF InHand
  <2> QED BY <1>0, <1>1, <2>2, <2>3, <2>4, <2>5, <2>6, BusySlot
<1>5. CASE Given(s)
  <2>0. slot[s].at = "given" /\ slot[s].claim = NoClaim /\ slot[s].run \in Runs
    BY <1>1, <1>5 DEF Given, At, SlotOK, WithRun
  <2>1. /\ jobs' \in JobsType /\ jobs'.keys = jobs.keys /\ jobs'.acked = jobs.acked
        /\ jobs'.spent = jobs.spent /\ jobs'.gave = jobs.gave
    BY <1>1, <1>5, <2>0, JobsFacts DEF Given, WithRun
  <2>2. /\ slot' \in [Slots -> SlotType] /\ Others(s) /\ slot'[s].at \in {"top", "register"}
        /\ slot'[s].claim = NoClaim /\ slot'[s].held = slot[s].held
        /\ slot'[s].at = "register" => slot'[s].run \in Runs
    <3>1. CASE BackToTop(s)
      BY <3>1, BackFacts
    <3>2. CASE Goes(s, "register")
      <4>1. /\ slot' \in [Slots -> SlotType] /\ Others(s)
            /\ slot'[s] = [slot[s] EXCEPT !.at = "register"]
        BY <3>2, GoesFacts DEF SlotPlaces
      <4> QED BY <1>1, <2>0, <4>1 DEF SlotType
    <3> QED BY <1>5, <3>1, <3>2 DEF Given
  <2>3. SlotOK(slot'[s])
    BY <2>2 DEF SlotOK, WithRun, InHand
  <2>4. ClaimsKept'
    BY <1>0, <1>1, <2>0, <2>1, <2>2, ClaimsHeld, LoopAssumption DEF ClaimsKept, JobsType
  <2>5. HandKept'
    BY <1>0, <2>0, <2>2, EmptyHanded DEF InHand
  <2> QED BY <1>0, <1>1, <2>1, <2>2, <2>3, <2>4, <2>5, BusySlot
<1> QED BY <1>2, <1>3, <1>4, <1>5

\* A slot that ends a Run gives it out of its hand (RunGuard, closing).
LEMMA LetGo ==
  ASSUME LoopInv, NEW s \in Slots, slot[s].at \in InHand, Others(s), slot'[s].at = "top",
         OutOfHand(s), answered \subseteq answered',
         \/ registry' = Forgotten(slot[s].run)
         \/ registry' = [registry EXCEPT !.closing = @ \cup {slot[s].run}]
  PROVE  /\ HandKept' /\ registry' \in RegistryType /\ RegistryOK'
         /\ inHand' \in [Runs -> SUBSET Slots]
<1>1. /\ registry \in RegistryType /\ RegistryOK /\ inHand \in [Runs -> SUBSET Slots]
      /\ slot[s].run \in Runs /\ slot[s].run \in registry.runs /\ HandKept
  BY TypeParts DEF LoopInv, Types, HandKept, SlotOK, WithRun
<1>2. /\ registry' \in RegistryType /\ RegistryOK' /\ registry'.started \subseteq registry.started
      /\ registry.runs \ {slot[s].run} \subseteq registry'.runs
      /\ registry'.closing \subseteq registry.closing \cup {slot[s].run}
  <2>1. CASE registry' = Forgotten(slot[s].run)
    BY <1>1, <2>1 DEF RegistryType, RegistryOK, Forgotten
  <2>2. CASE registry' = [registry EXCEPT !.closing = @ \cup {slot[s].run}]
    BY <1>1, <2>2 DEF RegistryType, RegistryOK
  <2> QED BY <2>1, <2>2
<1>3. /\ inHand' \in [Runs -> SUBSET Slots] /\ inHand'[slot[s].run] = inHand[slot[s].run] \ {s}
      /\ \A r \in Runs : r # slot[s].run => inHand'[r] = inHand[r]
  BY <1>1 DEF OutOfHand
<1>4. \A t \in Slots : t # s /\ slot[t].at \in InHand => slot[t].run # slot[s].run
  BY <1>1 DEF HandKept
<1>5. "top" \notin InHand
  BY DEF InHand
<1>6. \A t \in Slots, r \in Runs : t \in inHand'[r] <=> slot'[t].at \in InHand /\ slot'[t].run = r
  <2> SUFFICES ASSUME NEW t \in Slots, NEW r \in Runs
               PROVE  t \in inHand'[r] <=> slot'[t].at \in InHand /\ slot'[t].run = r
    OBVIOUS
  <2>1. CASE t = s
    BY <1>1, <1>3, <1>5, <2>1 DEF HandKept
  <2>2. CASE t # s
    BY <1>1, <1>3, <2>2 DEF HandKept, Others
  <2> QED BY <2>1, <2>2
<1>7. \A t \in Slots : slot'[t].at \in InHand => slot'[t].run \in registry'.runs \ registry'.closing
  BY <1>1, <1>2, <1>4, <1>5 DEF HandKept, Others
<1>8. \A t, u \in Slots :
        slot'[t].at \in InHand /\ slot'[u].at \in InHand /\ slot'[t].run = slot'[u].run => t = u
  BY <1>1, <1>5 DEF HandKept, Others
<1> QED BY <1>1, <1>2, <1>3, <1>6, <1>7, <1>8 DEF HandKept

\* A Run is registered, started, refused, given back or executed (slot.rs, execute).
LEMMA ExecuteSteps ==
  ASSUME LoopInv, NEW s \in Slots, Register(s) \/ Opened(s) \/ Executed(s)
  PROVE  LoopInv'
<1>0. /\ UNCHANGED <<loop, epochs, drain, modeFeed, orderFeed, refused, panicked>>
      /\ slot[s].at \in {"register", "opening", "executing"} /\ slot[s].at \in WithRun
  BY DEF Register, Opened, StartDelivered, StartRefused, StartRemoved, Unmade, Executed, At,
         feedVars, WithRun, InHand
<1>1. /\ slot \in [Slots -> SlotType] /\ slot[s] \in SlotType /\ jobs \in JobsType
      /\ registry \in RegistryType /\ RegistryOK /\ answered \subseteq Runs
      /\ inHand \in [Runs -> SUBSET Slots] /\ panicked \in PanicsType
      /\ SlotOK(slot[s]) /\ ClaimsKept /\ HandKept
  BY TypeParts DEF LoopInv, Types
<1>2. slot[s].run \in Runs /\ slot[s].claim = NoClaim
  BY <1>0, <1>1 DEF SlotOK
<1>3. ASSUME BackToTop(s), jobs' \in JobsType, jobs'.keys = jobs.keys, jobs'.gave = jobs.gave,
             jobs'.spent = jobs.spent, jobs'.acked \subseteq answered', answered \subseteq answered',
             answered' \subseteq Runs, inHand' \in [Runs -> SUBSET Slots],
             registry' \in RegistryType, RegistryOK', HandKept'
      PROVE  LoopInv'
  <2>1. /\ slot' \in [Slots -> SlotType] /\ Others(s) /\ slot'[s].at = "top"
        /\ slot'[s].claim = NoClaim /\ slot'[s].held = slot[s].held
    BY <1>3, BackFacts
  <2>2. SlotOK(slot'[s])
    BY <2>1 DEF SlotOK, WithRun, InHand
  <2>3. ClaimsKept'
    BY <1>0, <1>1, <1>2, <1>3, <2>1, LoopAssumption, ClaimsHeld DEF JobsType
  <2> QED BY <1>0, <1>1, <1>3, <2>1, <2>2, <2>3, BusySlot
<1>4. CASE Register(s) /\ IsHeld(slot[s].run)
  <2>1. /\ BackToTop(s) /\ jobs' = SettleKnown(s) /\ UNCHANGED <<registry, inHand, answered>>
        /\ slot[s].at = "register"
    BY <1>4 DEF Register, At
  <2>2. HandKept'
    BY <2>1, BackFacts, EmptyHanded DEF InHand
  <2> QED BY <1>0, <1>1, <1>3, <2>1, <2>2, JobsFacts DEF RegistryOK
<1>5. CASE Register(s) /\ ~IsHeld(slot[s].run)
  <2> DEFINE r == slot[s].run
  <2>1. /\ Goes(s, "opening") /\ registry' = RegisterRun(r) /\ UNCHANGED <<jobs, answered>>
        /\ inHand' = [inHand EXCEPT ![r] = @ \cup {s}] /\ r \notin registry.runs
        /\ slot[s].at = "register"
    BY <1>5 DEF Register, At, IsHeld
  <2>2. /\ slot' \in [Slots -> SlotType] /\ Others(s) /\ slot'[s] = [slot[s] EXCEPT !.at = "opening"]
    BY <2>1, GoesFacts DEF SlotPlaces
  <2>3. /\ slot'[s].at = "opening" /\ slot'[s].run = r /\ slot'[s].claim = NoClaim
        /\ slot'[s].held = slot[s].held
    BY <1>1, <1>2, <2>2 DEF SlotType
  <2>4. /\ registry' \in RegistryType /\ RegistryOK' /\ registry'.runs = registry.runs \cup {r}
        /\ registry'.closing = registry.closing \ {r} /\ registry'.started = registry.started \ {r}
    BY <1>1, <1>2, <2>1 DEF RegistryType, RegistryOK, RegisterRun
  <2>5. /\ inHand' \in [Runs -> SUBSET Slots] /\ inHand'[r] = inHand[r] \cup {s}
        /\ \A q \in Runs : q # r => inHand'[q] = inHand[q]
    BY <1>1, <1>2, <2>1
  <2>6. \A t \in Slots : slot[t].at \in InHand => t # s /\ slot[t].run # r
    BY <1>1, <2>1 DEF HandKept, InHand
  <2>7. HandKept'
    <3>1. \A t \in Slots, q \in Runs : t \in inHand'[q] <=> slot'[t].at \in InHand /\ slot'[t].run = q
      <4> SUFFICES ASSUME NEW t \in Slots, NEW q \in Runs
                   PROVE  t \in inHand'[q] <=> slot'[t].at \in InHand /\ slot'[t].run = q
        OBVIOUS
      <4>1. CASE t = s
        BY <1>1, <2>3, <2>5, <2>6, <4>1 DEF HandKept, InHand
      <4>2. CASE t # s
        BY <1>1, <2>2, <2>5, <2>6, <4>2 DEF HandKept, Others
      <4> QED BY <4>1, <4>2
    <3>2. \A t \in Slots : slot'[t].at \in InHand => slot'[t].run \in registry'.runs \ registry'.closing
      BY <1>1, <2>2, <2>3, <2>4, <2>6 DEF HandKept, Others
    <3>3. \A t, u \in Slots :
            slot'[t].at \in InHand /\ slot'[u].at \in InHand /\ slot'[t].run = slot'[u].run => t = u
      <4>1. \A t \in Slots : slot'[t].at \in InHand =>
              t = s \/ (slot[t].at \in InHand /\ slot'[t].run = slot[t].run /\ slot[t].run # r)
        BY <2>2, <2>6 DEF Others
      <4> QED BY <1>1, <2>3, <4>1 DEF HandKept
    <3> QED BY <1>1, <2>1, <2>4, <3>1, <3>2, <3>3 DEF HandKept
  <2>8. SlotOK(slot'[s])
    BY <1>2, <2>3 DEF SlotOK
  <2>9. ClaimsKept'
    BY <1>0, <1>1, <1>2, <2>1, <2>2, <2>3, ClaimsHeld DEF ClaimsKept, JobsType
  <2> QED BY <1>0, <1>1, <2>1, <2>2, <2>3, <2>4, <2>5, <2>7, <2>8, <2>9, BusySlot
<1>6. CASE StartDelivered(s)
  <2>1. /\ Goes(s, "executing") /\ registry' = [registry EXCEPT !.started = @ \cup {slot[s].run}]
        /\ jobs' = Acknowledged(s) /\ answered' = answered \cup {slot[s].run} /\ inHand' = inHand
        /\ slot[s].at = "opening"
    BY <1>6 DEF StartDelivered, At
  <2>2. /\ slot' \in [Slots -> SlotType] /\ Others(s) /\ slot'[s] = [slot[s] EXCEPT !.at = "executing"]
    BY <2>1, GoesFacts DEF SlotPlaces
  <2>3. /\ slot'[s].at = "executing" /\ slot'[s].run = slot[s].run /\ slot'[s].claim = NoClaim
        /\ slot'[s].held = slot[s].held
    BY <1>1, <1>2, <2>2 DEF SlotType
  <2>4. slot[s].run \in registry.runs
    BY <1>1, <2>1 DEF HandKept, InHand
  <2>5. /\ registry' \in RegistryType /\ RegistryOK' /\ registry'.runs = registry.runs
        /\ registry'.closing = registry.closing /\ registry'.started = registry.started \cup {slot[s].run}
    BY <1>1, <1>2, <2>1, <2>4 DEF RegistryType, RegistryOK
  <2>6. \A t \in Slots : (slot'[t].at \in InHand <=> slot[t].at \in InHand) /\ slot'[t].run = slot[t].run
    BY <2>1, <2>2, <2>3 DEF Others, InHand
  <2>7. HandKept'
    BY <1>1, <2>1, <2>5, <2>6 DEF HandKept
  <2>8. SlotOK(slot'[s])
    BY <1>2, <2>3 DEF SlotOK
  <2>9. /\ jobs' \in JobsType /\ jobs'.keys = jobs.keys /\ jobs'.gave = jobs.gave
        /\ jobs'.spent = jobs.spent /\ jobs'.acked \subseteq answered'
    BY <1>0, <1>1, <2>1, JobsFacts DEF ClaimsKept
  <2>10. ClaimsKept'
    BY <1>0, <1>1, <1>2, <2>1, <2>2, <2>3, <2>9, ClaimsHeld DEF JobsType
  <2>11. answered' \subseteq Runs
    BY <1>1, <1>2, <2>1
  <2> QED BY <1>0, <1>1, <2>1, <2>2, <2>3, <2>5, <2>7, <2>8, <2>9, <2>10, <2>11, BusySlot
<1>7. CASE StartRefused(s) \/ StartRemoved(s) \/ Unmade(s) \/ Executed(s)
  <2>1. /\ BackToTop(s) /\ OutOfHand(s) /\ slot[s].at \in InHand
        /\ \/ registry' = Forgotten(slot[s].run)
           \/ registry' = [registry EXCEPT !.closing = @ \cup {slot[s].run}]
    BY <1>7 DEF StartRefused, StartRemoved, Unmade, Executed, At, InHand
  <2>2. /\ jobs' \in JobsType /\ jobs'.keys = jobs.keys /\ jobs'.gave = jobs.gave
        /\ jobs'.spent = jobs.spent /\ jobs'.acked \subseteq answered'
        /\ answered \subseteq answered' /\ answered' \subseteq Runs
    <3>1. CASE StartRefused(s)
      <4>1. /\ jobs' = [Acknowledged(s) EXCEPT !.todo = @ \ {slot[s].run}]
            /\ answered' = answered \cup {slot[s].run}
        BY <3>1 DEF StartRefused
      <4>2. /\ Acknowledged(s) \in JobsType /\ Acknowledged(s).keys = jobs.keys
            /\ Acknowledged(s).gave = jobs.gave /\ Acknowledged(s).spent = jobs.spent
            /\ Acknowledged(s).acked \subseteq jobs.acked \cup {slot[s].run}
        BY <1>0, JobsFacts
      <4>3. /\ jobs' \in JobsType /\ jobs'.keys = jobs.keys /\ jobs'.gave = jobs.gave
            /\ jobs'.spent = jobs.spent /\ jobs'.acked = Acknowledged(s).acked
        BY <4>1, <4>2 DEF JobsType
      <4> QED BY <1>1, <1>2, <4>1, <4>2, <4>3 DEF ClaimsKept
    <3>2. CASE StartRemoved(s) \/ Executed(s)
      BY <1>1, <3>2 DEF StartRemoved, Executed, ClaimsKept
    <3>3. CASE Unmade(s)
      BY <1>0, <1>1, <3>3, JobsFacts DEF Unmade, ClaimsKept
    <3> QED BY <1>7, <3>1, <3>2, <3>3
  <2>3. /\ HandKept' /\ registry' \in RegistryType /\ RegistryOK'
        /\ inHand' \in [Runs -> SUBSET Slots]
    BY <2>1, <2>2, BackFacts, LetGo
  <2> QED BY <1>3, <2>1, <2>2, <2>3
<1> QED BY <1>4, <1>5, <1>6, <1>7 DEF Opened

\* A slot ends by a panic (supervised): its claim is told among those that ended so,
\* and the Run that it executed is in no hand.
LEMMA PanicKeeps ==
  ASSUME LoopInv, NEW s \in Slots, SlotPanics(s)
  PROVE  LoopInv'
<1>0. /\ UNCHANGED <<loop, epochs, registry, drain, jobs, modeFeed, orderFeed, refused, answered>>
      /\ slot' = [slot EXCEPT ![s] = [Idle EXCEPT !.at = "panicked"]]
      /\ inHand' = [r \in Runs |-> inHand[r] \ {s}] /\ panicked.times < MaxPanics
      /\ panicked' = [times |-> panicked.times + 1,
                      claims |-> panicked.claims \cup ({slot[s].held, slot[s].claim} \ {NoClaim})]
  BY DEF SlotPanics, feedVars
<1>1. /\ slot \in [Slots -> SlotType] /\ slot[s] \in SlotType /\ panicked \in PanicsType
      /\ jobs \in JobsType /\ registry \in RegistryType /\ RegistryOK /\ RegistryOK'
      /\ answered \subseteq Runs /\ inHand \in [Runs -> SUBSET Slots] /\ HandKept /\ ClaimsKept
  BY <1>0, TypeParts DEF LoopInv, Types, RegistryOK
<1>2. /\ slot' \in [Slots -> SlotType] /\ Others(s) /\ slot'[s].at = "panicked"
      /\ slot'[s].claim = NoClaim
  <2>1. LET x == [Idle EXCEPT !.at = "panicked"]
        IN  x \in SlotType /\ x.at = "panicked" /\ x.claim = NoClaim
    BY IdleSlot DEF SlotType, SlotPlaces
  <2> QED BY <1>0, <1>1, <2>1 DEF Others
<1>3. SlotOK(slot'[s])
  BY <1>2 DEF SlotOK, WithRun, InHand
<1>4. panicked' \in PanicsType
  <2>1. panicked.times + 1 \in 0..MaxPanics
    BY <1>0, <1>1, LoopAssumption DEF PanicsType
  <2>2. panicked.claims \cup ({slot[s].held, slot[s].claim} \ {NoClaim}) \in SUBSET Claims
    BY <1>1 DEF PanicsType, SlotType
  <2> QED BY <1>0, <2>1, <2>2 DEF PanicsType
<1>5. ClaimsKept'
  BY <1>0, <1>1, <1>2, LoopAssumption, ClaimsHeld DEF ClaimsKept, JobsType
<1>6. HandKept'
  <2>1. \A t \in Slots : slot'[t].at \in InHand => t # s /\ slot'[t] = slot[t]
    BY <1>2 DEF Others, InHand
  <2>2. \A t \in Slots, r \in Runs : t \in inHand'[r] <=> t # s /\ t \in inHand[r]
    BY <1>0
  <2>3. \A t \in Slots, r \in Runs : t \in inHand'[r] <=> slot'[t].at \in InHand /\ slot'[t].run = r
    BY <1>1, <1>2, <2>1, <2>2 DEF HandKept, Others
  <2> QED BY <1>0, <1>1, <2>1, <2>3 DEF HandKept
<1>7. inHand' \in [Runs -> SUBSET Slots]
  BY <1>0, <1>1
<1> QED BY <1>0, <1>1, <1>2, <1>3, <1>4, <1>5, <1>6, <1>7, BusySlot

\* Every step of the loop and of its environment keeps the invariant.
LEMMA NextLoop == LoopInv /\ [Next]_vars => LoopInv'
<1> SUFFICES ASSUME LoopInv, [Next]_vars PROVE LoopInv'
  OBVIOUS
<1>1. CASE ModeSent \/ FeedNotOpened \/ FeedEnds \/ FeedOpens \/ ReplaySent
  BY <1>1, TellsKeep
<1>2. CASE (\E m \in Modes : ModeEpoch(m)) \/ ReplayEntry \/ ReplayComplete \/ LiveEntry
  BY <1>2, EntriesKeep
<1>3. CASE \/ \E c \in Claims, r \in Runs : JobsGives(c, r)
           \/ \E r \in Runs : Closed(r) \/ JobsTriggers(r)
           \/ \E r \in Orderable : JobsOrders(r)
           \/ \E c \in Claims : JobsTakesBack(c)
           \/ DrainBegins
  BY <1>3, JobsKeep
<1>4. CASE \E s \in Slots : SlotStep(s)
  BY <1>4, LookSteps, AskSteps, GivenSteps, ExecuteSteps DEF SlotStep, Reply
<1>5. CASE \E s \in Slots, r \in Runs : TriggerRead(s, r)
  BY <1>5, GivenSteps
<1>6. CASE \E s \in Slots : SlotPanics(s)
  BY <1>6, PanicKeeps
<1>7. CASE UNCHANGED vars
  <2>1. TypeOK' /\ HandKept' /\ ClaimsKept' /\ IsFiniteSet(jobs'.keys)
    BY <1>7 DEF vars, LoopInv, TypeOK, HandKept, ClaimsKept
  <2> QED BY <1>7, <2>1, Unseen DEF vars
<1> QED BY <1>1, <1>2, <1>3, <1>4, <1>5, <1>6, <1>7 DEF Next, Feed

\* The inductive invariant of the loop holds in every state.
THEOREM LoopInvariant == Spec => []LoopInv
  BY InitLoop, NextLoop, PTL DEF Spec

\* Every part of the loop keeps its type, and what the registry says of a Run is of a
\* Run that it holds.
THEOREM LoopTypes == Spec => []TypeOK
<1>1. LoopInv => TypeOK
  BY DEF LoopInv
<1> QED BY <1>1, LoopInvariant, PTL

\* No Run is started twice or lost, and no trigger is acknowledged too early.
THEOREM NeverTwice == Spec => []OneHand
<1>1. LoopInv => OneHand
  <2> SUFFICES ASSUME LoopInv PROVE OneHand
    OBVIOUS
  <2>1. ASSUME NEW r \in Runs
        PROVE  /\ Cardinality(inHand[r]) <= 1
               /\ inHand[r] # {} => r \in registry.runs \ registry.closing
    <3>0. inHand[r] \in SUBSET Slots
      BY DEF LoopInv, TypeOK
    <3>1. CASE inHand[r] = {}
      BY <3>1, FS_EmptySet
    <3>2. CASE inHand[r] # {}
      <4>1. PICK s \in Slots : s \in inHand[r]
        BY <3>0, <3>2
      <4>2. slot[s].at \in InHand /\ slot[s].run = r
        BY <4>1 DEF LoopInv, HandKept
      <4>3. \A t \in inHand[r] : t = s
        BY <3>0, <4>2 DEF LoopInv, HandKept
      <4>4. inHand[r] = {s}
        BY <4>1, <4>3
      <4>5. Cardinality(inHand[r]) = 1
        BY <4>4, FS_Singleton
      <4> QED BY <4>2, <4>5 DEF LoopInv, HandKept
    <3> QED BY <3>1, <3>2
  <2> QED BY <2>1 DEF OneHand, LoopInv, ClaimsKept
<1> QED BY <1>1, LoopInvariant, PTL

\* No slot waits for a change that it has already missed.
THEOREM NoWakeLost == Spec => []WaiterWoken
<1>1. LoopInv => WaiterWoken
  BY DEF LoopInv, WakeOK, WaiterWoken, At
<1> QED BY <1>1, LoopInvariant, PTL
=============================================================================
