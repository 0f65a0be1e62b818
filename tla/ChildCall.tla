------------------------------ MODULE ChildCall ------------------------------
(***************************************************************************)
(* One call of a runner by another one: the tool of br-runner-as-tool, in  *)
(* sync or in background mode, or the node of br-runner-as-node.  The call *)
(* hands its writes over through the caller handle of br-runner-jobs       *)
(* (caller/live.rs); the delivery queue sends them one at a time, the      *)
(* commands in the session of CommandSession, and the end of the child Job *)
(* comes back through the end store.                                       *)
(*                                                                         *)
(* The queue and the end store are modelled by themselves (DeliveryQueue,  *)
(* Arrivals); here the queue keeps the order of its writes and the rule on *)
(* a removed dependency (QueueWrites), and the store holds one end.        *)
(***************************************************************************)
EXTENDS CommandSession

CONSTANT Kinds   \* the kinds of call to look at

Tools == {"Sync", "Background"}
Forms == {"Inline", "Kept"}   \* a reference is a create with no upload too

ASSUME KindsAssumption == Kinds \subseteq Tools \cup {"Node"}

VARIABLES
    call,       \* the call: kind, form, at, poll, heard, end
    outcome,    \* what the call gave, "None" before
    triggered,  \* the cancel view is triggered
    dropped,    \* the host dropped the event end of the instance of the node
    ends,       \* the end store: what it decides for the child
    open,       \* the delivery queue is alive
    handed,     \* the writes handed over, in order
    res         \* and how each ended, "None" before

callVars  == <<call, outcome>>
queueVars == <<open, handed, res>>
vars == <<sessVars, faults, callVars, triggered, dropped, ends, queueVars>>

Queue == INSTANCE QueueWrites WITH Agents <- {}, Jobs <- {"child"}, NoId <- "none"

\* A tool starts with its payload, an instance of a node with its input.
FirstStep(k) == IF k = "Node" THEN "Input" ELSE "Prepare"

Init ==
    /\ SessionInit
    /\ \E k \in Kinds, f \in Forms :
          call = [kind |-> k, form |-> f, poll |-> 1, heard |-> FALSE, end |-> "None",
                  at |-> FirstStep(k)]
    /\ outcome = "None"
    /\ triggered = FALSE /\ dropped = FALSE
    /\ ends = "None"
    /\ open = TRUE
    /\ handed = <<>> /\ res = <<>>

-----------------------------------------------------------------------------
(* The writes of the call.                                                 *)
Given(k) == \E i \in DOMAIN handed : handed[i] = k
EndOf(k) == IF Given(k) THEN res[CHOOSE i \in DOMAIN handed : handed[i] = k] ELSE "None"

\* A queue that is gone ends a write at once.
HandOver(k) ==
    /\ handed' = Append(handed, k)
    /\ res' = Append(res, IF open THEN "None" ELSE "LeftUnsent")

HandNothing == UNCHANGED <<handed, res>>

\* cancel_unless_dead: the create is known to be dead when its end is there,
\* was not heard yet, and is a removal.
Dead == ~call.heard /\ EndOf("Create") \in Queue!Removals

\* Variant: a call that stops leaves its child alone.
CancelNever == HandNothing

CancelUnlessDead == IF Dead THEN HandNothing ELSE HandOver("Cancel")

-----------------------------------------------------------------------------
(* The steps of the call.                                                  *)
Is(kinds, place) == call.kind \in kinds /\ call.at = place
CallAt(place)    == call' = [call EXCEPT !.at = place] /\ UNCHANGED outcome
Ends(o)          == call' = [call EXCEPT !.at = "Over"] /\ outcome' = o

\* unless_cancelled: the trigger is looked at before the function that runs.
UnlessCancelled(step) ==
    \/ triggered /\ Ends("Cancelled")
    \/ ~triggered /\ step

\* Signals::guard: the dropped event end, the trigger, then the work.
Guarded(step) ==
    IF dropped THEN Ends("Gone") ELSE UnlessCancelled(step)

AuthorFails == Ends("Flag") \/ Ends("Fault")

\* prepare: a tool with no builder takes the arguments without a look at the
\* trigger, and can fail on them.
Prepare ==
    /\ Is(Tools, "Prepare")
    /\ \/ CallAt("Upload") \/ Ends("Fault")
       \/ UnlessCancelled(CallAt("Upload") \/ AuthorFails)
    /\ HandNothing

HandUpload ==
    /\ Is(Tools, "Upload")
    /\ IF call.form = "Inline" THEN CallAt("Create") /\ HandNothing
       ELSE IF triggered THEN Ends("Cancelled") /\ HandNothing
       ELSE CallAt("Create") /\ HandOver("Upload")

HandCreate ==
    /\ Is(Tools, "Create")
    /\ IF triggered THEN Ends("Cancelled") /\ HandNothing
       ELSE /\ CallAt(IF call.kind = "Sync" THEN "Wait" ELSE "Check")
            /\ HandOver("Create")

\* stop_if_cancelled, then the acknowledgement of a background call.
StopIfCancelled ==
    /\ Is({"Background"}, "Check")
    /\ IF triggered THEN Ends("Cancelled") /\ CancelUnlessDead
                    ELSE Ends("Acknowledged") /\ HandNothing

\* last_state: the first input, or an input end that is dropped.
LastState ==
    /\ Is({"Node"}, "Input")
    /\ Guarded(CallAt("Request") \/ Ends("Gone"))
    /\ HandNothing

\* The request function and the caller source.
Request ==
    /\ Is({"Node"}, "Request")
    /\ Guarded(CallAt("Source") \/ Ends("Failed"))
    /\ HandNothing

AskSource ==
    /\ Is({"Node"}, "Source")
    /\ Guarded(CallAt(IF call.form = "Kept" THEN "Upload" ELSE "Create") \/ Ends("Failed"))
    /\ HandNothing

\* hand_over looks at neither signal.
NodeHands ==
    \/ Is({"Node"}, "Upload") /\ CallAt("Create") /\ HandOver("Upload")
    \/ Is({"Node"}, "Create") /\ CallAt("Wait") /\ HandOver("Create")

-----------------------------------------------------------------------------
(* The wait for the end.  A poll looks at the branches one after the other; *)
(* a branch that gets ready after its turn is seen in the next poll.        *)
\* Variant: the trigger is not among what a sync call waits for.
DeafBranches ==
    IF call.kind = "Sync" THEN <<"End", "Created">>
                          ELSE <<"Dropped", "Trigger", "End", "Created">>

Branches ==
    IF call.kind = "Sync" THEN <<"End", "Created", "Trigger">>
                          ELSE <<"Dropped", "Trigger", "End", "Created">>
Branch == Branches[call.poll]

PollOn == call' = [call EXCEPT !.poll = IF @ = Len(Branches) THEN 1 ELSE @ + 1]

Pending ==
    /\ CASE Branch = "End"     -> ends = "None"
         [] Branch = "Created" -> call.heard \/ EndOf("Create") = "None"
         [] Branch = "Trigger" -> ~triggered
         [] Branch = "Dropped" -> ~dropped
    /\ PollOn
    /\ UNCHANGED outcome /\ HandNothing

Fault == IF call.kind = "Node" THEN "Failed" ELSE "Fault"

\* An end of the wait, or an error of it: then the call is not settled.
TakeEnd ==
    /\ Branch = "End" /\ ends # "None"
    /\ \/ /\ ends = "Error"
          /\ Ends(Fault) /\ CancelUnlessDead
       \/ /\ ends # "Error"
          /\ call' = [call EXCEPT !.at = IF call.kind = "Sync" THEN "Settle" ELSE "Finish",
                                  !.end = ends]
          /\ UNCHANGED outcome /\ HandNothing

\* The end of the create: delivered, refused, or removed otherwise.
TakeCreated ==
    /\ Branch = "Created" /\ ~call.heard /\ EndOf("Create") # "None"
    /\ CASE EndOf("Create") = "Delivered" ->
              call' = [call EXCEPT !.heard = TRUE, !.poll = 1] /\ UNCHANGED outcome
         [] EndOf("Create") = "Refused" ->
              IF call.kind = "Sync" THEN Ends("Flag")
              ELSE call' = [call EXCEPT !.at = "Finish", !.end = "Refusal"] /\ UNCHANGED outcome
         [] OTHER -> Ends(Fault)
    /\ HandNothing

TakeTrigger ==
    /\ Branch = "Trigger" /\ triggered
    /\ Ends("Cancelled") /\ CancelUnlessDead

TakeDropped ==
    /\ Branch = "Dropped" /\ dropped
    /\ Ends("Gone") /\ HandNothing

WaitForEnd ==
    /\ call.at = "Wait"
    /\ Pending \/ TakeEnd \/ TakeCreated \/ TakeTrigger \/ TakeDropped

-----------------------------------------------------------------------------
(* After the end.                                                          *)
\* settle: a failed or a cancelled child is a flag.
Settle ==
    /\ Is({"Sync"}, "Settle")
    /\ IF call.end = "Completed" THEN CallAt("Read")
                                 ELSE Ends("Flag")
    /\ HandNothing

\* take_result and the finish, which goes out whatever the read gave.
TakeResult ==
    /\ Is({"Sync"}, "Read")
    /\ IF triggered THEN Ends("Cancelled") /\ HandNothing
       ELSE /\ CallAt("Process") \/ Ends("Flag") \/ Ends("Fault")
            /\ HandOver("Finish")

\* process: the default content, or the processor of the author.
Process ==
    /\ Is({"Sync"}, "Process")
    /\ \/ Ends("Content")
       \/ UnlessCancelled(Ends("Content") \/ AuthorFails)
    /\ HandNothing

\* Variant: a node finishes its child whatever it ended with.
FinishAny ==
    /\ Is({"Node"}, "Finish")
    /\ IF triggered THEN Ends("Cancelled") /\ HandNothing
                    ELSE CallAt("Respond") /\ HandOver("Finish")

\* hand_over_unless_cancelled.
FinishUnlessCancelled ==
    /\ Is({"Node"}, "Finish")
    /\ IF triggered THEN Ends("Cancelled") /\ HandNothing
       ELSE /\ CallAt("Respond")
            /\ IF call.end = "Completed" THEN HandOver("Finish") ELSE HandNothing

Respond ==
    /\ Is({"Node"}, "Respond")
    /\ Guarded(Ends("Result") \/ Ends("Failed"))
    /\ HandNothing

CallStep ==
    /\ \/ Prepare \/ HandUpload \/ HandCreate \/ StopIfCancelled
       \/ LastState \/ Request \/ AskSource \/ NodeHands
       \/ WaitForEnd \/ Settle \/ TakeResult \/ Process
       \/ FinishUnlessCancelled \/ Respond
    /\ UNCHANGED <<sessVars, faults, triggered, dropped, ends, open>>

-----------------------------------------------------------------------------
(* The delivery queue: the first write with no end is the head.            *)
Front == CHOOSE i \in DOMAIN res : res[i] = "None" /\ \A j \in 1..(i-1) : res[j] # "None"
HasHead == \E i \in DOMAIN res : res[i] = "None"

EndedKeys == [key \in Queue!DepKey |-> IF key[2] = "child" THEN EndOf(key[1]) ELSE "None"]
BlockedHead == Queue!Blocked(Queue!W(handed[Front], "none", "child"), EndedKeys)

WriteEnds(r) == res' = [res EXCEPT ![Front] = r] /\ UNCHANGED <<open, handed>>

\* A write whose dependency was removed is removed before it is sent.
RemoveBlocked ==
    /\ HasHead /\ sess = NoSession
    /\ \E r \in BlockedHead : WriteEnds(r)
    /\ UNCHANGED <<sessVars, faults>>

\* The upload is no command; its attempts are left to DeliveryQueue.
SendUpload ==
    /\ HasHead /\ handed[Front] = "Upload"
    /\ \/ Fine /\ WriteEnds("Delivered")
       \/ Faulty /\ (WriteEnds("Refused") \/ WriteEnds("Failed"))
    /\ UNCHANGED sessVars

OpenSession ==
    /\ HasHead /\ sess = NoSession /\ handed[Front] \in Commands
    /\ BlockedHead = {}
    /\ sess' = Opened(handed[Front]) /\ inbox' = {}
    /\ UNCHANGED <<stream, verdict, job, faults, queueVars>>

CloseSession ==
    /\ sess.at = "Ended" /\ HasHead
    /\ WriteEnds(sess.result)
    /\ sess' = NoSession /\ inbox' = {}
    /\ UNCHANGED <<stream, verdict, job, faults>>

\* The owner drops the queue: what is not sent is left, the attempt cut.
QueueDropped ==
    /\ open /\ open' = FALSE
    /\ res' = [i \in DOMAIN res |-> IF res[i] = "None" THEN "LeftUnsent" ELSE res[i]]
    /\ sess' = NoSession /\ inbox' = {}
    /\ Faulty
    /\ UNCHANGED <<stream, verdict, job, handed>>

QueueStep ==
    /\ RemoveBlocked \/ SendUpload \/ OpenSession \/ CloseSession
    /\ UNCHANGED <<callVars, triggered, dropped, ends>>

Outside == UNCHANGED <<callVars, triggered, dropped, ends, queueVars>>

(***************************************************************************)
(* What comes from outside.                                                *)
(***************************************************************************)
Trigger ==
    /\ ~triggered /\ triggered' = TRUE
    /\ UNCHANGED <<sessVars, faults, callVars, dropped, ends, queueVars>>

DropInstance ==
    /\ call.kind = "Node" /\ ~dropped /\ dropped' = TRUE
    /\ UNCHANGED <<sessVars, faults, callVars, triggered, ends, queueVars>>

\* The end of the child reaches the store.  It holds the first one.
EndArrives ==
    /\ ends = "None" /\ Given("Create")
    /\ job \in {"Completed", "Failed", "Cancelled"}
    /\ ends' = job
    /\ UNCHANGED <<sessVars, faults, callVars, triggered, dropped, queueVars>>

\* The feed of arrivals fails, the book is dropped, or the end is unreadable.
EndLost ==
    /\ ends = "None" /\ Faulty
    /\ ends' = "Error"
    /\ UNCHANGED <<sessVars, callVars, triggered, dropped, queueVars>>

Next ==
    \/ CallStep
    \/ QueueStep
    \/ QueueDropped /\ UNCHANGED <<callVars, triggered, dropped, ends>>
    \/ SessionNext /\ Outside
    \/ Trigger \/ DropInstance \/ EndArrives \/ EndLost

(***************************************************************************)
(* The tasks of the call and of the queue run on; jobs handles what is on  *)
(* its stream.  The waits are finite and are made again: an attempt that   *)
(* is made over and over is subscribed once, its resend comes once after   *)
(* the window in which the bus drops it, and an outcome that is there is   *)
(* heard once.                                                             *)
(***************************************************************************)
Fairness ==
    /\ WF_vars(CallStep) /\ WF_vars(QueueStep)
    /\ SF_vars(Subscribe /\ Outside)
    /\ WF_vars((LookSilent \/ Publish(FALSE) \/ WaitFires \/ Resend) /\ Outside)
    /\ SF_vars(Publish(TRUE) /\ Outside)
    /\ SF_vars(Hear /\ Outside)
    /\ WF_vars((\E k \in Commands : JobsHandles(k)) /\ Outside)

Spec == Init /\ [][Next]_vars /\ Fairness

-----------------------------------------------------------------------------
(* Properties.                                                             *)
(***************************************************************************)
(* What a write of the call is told, jobs decided of its command: through  *)
(* waits that fire, publications without confirmation, resends and a lost  *)
(* awaiter (Session::run, task.rs attempts).  Delivered is for good.  A    *)
(* refusal is for good, and a refused create has no child Job, unless the  *)
(* command was on the stream more than once: jobs judges again a repeat of *)
(* what it refused, and may accept it after the refusal was heard.         *)
(***************************************************************************)
AnswersTrue ==
    /\ \A k \in Commands :
          /\ EndOf(k) = "Delivered" => "Ok" \in verdict[k]
          /\ EndOf(k) = "Refused" => /\ "Rejected" \in verdict[k] \/ copies[k] = 0
                                     /\ "Ok" \in verdict[k] => copies[k] > 1
    /\ (EndOf("Create") = "Refused" \/ call.end = "Refusal") /\ job # "None" => copies["Create"] > 1

(***************************************************************************)
(* A call says one thing of its child: never both a cancel and a finish,   *)
(* each at most once and after the create, a finish only of a child that   *)
(* completed (wait_for_end, completed, hand_over_unless_cancelled).        *)
(***************************************************************************)
OneWord ==
    /\ ~(Given("Cancel") /\ Given("Finish"))
    /\ \A i, j \in DOMAIN handed : handed[i] = handed[j] => i = j
    /\ (Given("Cancel") \/ Given("Finish")) => Given("Create")
    /\ Given("Finish") => job \in {"Completed", "Finished"}

(***************************************************************************)
(* A child Job whose call was cancelled, or failed on its wait, does not   *)
(* stay alive, unless a write of the call was lost (the create of it is    *)
(* sent after the call is over, and then its cancel), or jobs accepted a   *)
(* repeat of a create whose refusal the call had heard: hand.rs,           *)
(* cancel_unless_dead.                                                     *)
(***************************************************************************)
WriteLost == \E i \in DOMAIN res : res[i] \in {"Failed", "LeftUnsent"}
Overturned == EndOf("Create") = "Refused" /\ copies["Create"] > 1
ChildNotLeft ==
    (outcome = "Cancelled" \/ (outcome = Fault /\ ends = "Error")) /\ job = "Live"
        ~> job # "Live" \/ WriteLost \/ Overturned

(***************************************************************************)
(* A call ends once its cancel view triggers, its event end is dropped,    *)
(* its end is there, or its create is removed; whatever the queue and jobs *)
(* do (race.rs, signals.rs, wait_for_end).                                 *)
(***************************************************************************)
CallEnds ==
    (triggered \/ dropped \/ ends # "None" \/ EndOf("Create") \in Queue!Removals)
        ~> outcome # "None"

=============================================================================
