--------------------------- MODULE ChildCallProofs ---------------------------
(***************************************************************************)
(* What a call of another runner is told of its child is what jobs         *)
(* decided, and what the call says of the child is one word, for every     *)
(* kind of call and any number of failures.                                *)
(*                                                                         *)
(* CallInv has two halves.  The line of writes follows the place of the    *)
(* call (LineKept), which is an enumeration of the few lines a call can    *)
(* hand over.  The session belongs to the first write with no end, and a   *)
(* command that no session had is not on the bus (SessionKept): so the     *)
(* write that takes the result is the one that jobs decided on.            *)
(***************************************************************************)
EXTENDS ChildCall, SequenceTheorems, TLAPS

Words == {"Upload", "Create", "Cancel", "Finish"}
Verdicts == {"Ok", "Rejected"}
WriteEnd == {"None", "Delivered", "Refused", "Failed", "DependsOnRemoved", "LeftUnsent"}

CallTypes ==
  /\ sess \in [cmd : Commands \cup {"None"},
               at : {"None", "Idle", "Look", "Publish", "Hear", "Rest", "Ended"},
               awaiter : BOOLEAN, published : BOOLEAN,
               result : {"None", "Delivered", "Refused", "Failed"}]
  /\ bus \in [Commands -> Nat] /\ copies \in [Commands -> 0..2]
  /\ verdict \in [Commands -> SUBSET Verdicts]
  /\ inbox \subseteq Verdicts
  /\ job \in {"None", "Live", "Completed", "Failed", "Cancelled", "Finished"}
  /\ call \in [kind : Tools \cup {"Node"}, form : Forms, poll : Nat, heard : BOOLEAN,
               end : {"None", "Error", "Completed", "Failed", "Cancelled", "Refusal"},
               at : {"Prepare", "Input", "Request", "Source", "Upload", "Create", "Check",
                     "Wait", "Settle", "Read", "Finish", "Process", "Respond", "Over"}]
  /\ ends \in {"None", "Error", "Completed", "Failed", "Cancelled"}
  /\ open \in BOOLEAN
  /\ res \in Seq(WriteEnd) /\ Len(res) = Len(handed)

-----------------------------------------------------------------------------
(* The line of writes and the place of the call                            *)

Unasked == {<<>>, <<"Upload">>}
Asked   == {<<"Create">>, <<"Upload", "Create">>}
AskedAnd(word) == {<<"Create", word>>, <<"Upload", "Create", word>>}
Lines == Unasked \cup Asked \cup AskedAnd("Cancel") \cup AskedAnd("Finish")

LineKept ==
  /\ handed \in Lines
  /\ call.at \in {"Prepare", "Input", "Request", "Source", "Upload"} => handed = <<>>
  /\ call.at = "Create" => handed \in Unasked
  /\ call.at \in {"Check", "Wait", "Settle", "Read", "Finish"} => handed \in Asked
  /\ call.at = "Read" => call.end = "Completed"
  /\ handed \in AskedAnd("Finish") => call.end = "Completed"

\* A child that was seen completed stays so, or is finished.
CompletedKept == (ends = "Completed" \/ call.end = "Completed") => job \in {"Completed", "Finished"}

-----------------------------------------------------------------------------
(* The session, the bus and the ends of the writes                         *)

\* The first write with no end.
First(r, i) == i \in DOMAIN r /\ r[i] = "None" /\ \A j \in 1..(i - 1) : r[j] # "None"

\* The session is the one of the first write with no end.
AtHead ==
  /\ sess.at = "None" <=> sess.cmd = "None"
  /\ sess.cmd # "None" => \E i \in DOMAIN handed : handed[i] = sess.cmd /\ First(res, i)

\* A command reached the bus in its own session.
OnlyItsSession ==
  \A k \in Commands : copies[k] # 0 =>
    \E i \in DOMAIN handed : handed[i] = k /\ (res[i] # "None" \/ sess.cmd = k)

\* Jobs decides what reached it, one copy once, and a child exists from the decision
\* that accepts the create.
Decided ==
  /\ \A k \in Commands :
       /\ copies[k] = 0 => bus[k] = 0 /\ verdict[k] = {}
       /\ copies[k] = 1 => \/ bus[k] = 1 /\ verdict[k] = {}
                           \/ bus[k] = 0 /\ verdict[k] \in {{"Ok"}, {"Rejected"}}
  /\ "Ok" \in verdict["Create"] <=> job # "None"

\* What the session holds is a decision of jobs.
SessionTrue ==
  /\ inbox # {} => sess.cmd # "None" /\ inbox \subseteq verdict[sess.cmd]
  /\ sess.at = "Ended" => /\ sess.result # "None"
                          /\ sess.result = "Delivered" => "Ok" \in verdict[sess.cmd]
                          /\ sess.result = "Refused" => "Rejected" \in verdict[sess.cmd]

\* And so are the ends of the writes; a create refused for its upload never left.
WritesTrue ==
  \A i \in DOMAIN handed : handed[i] \in Commands =>
    /\ res[i] = "Delivered" => "Ok" \in verdict[handed[i]]
    /\ res[i] = "Refused" => "Rejected" \in verdict[handed[i]] \/ copies[handed[i]] = 0

SessionKept == AtHead /\ OnlyItsSession /\ Decided /\ SessionTrue /\ WritesTrue

RefusalTrue == call.end = "Refusal" =>
  \E i \in DOMAIN handed : handed[i] = "Create" /\ res[i] = "Refused"

CallInv == CallTypes /\ LineKept /\ CompletedKept /\ SessionKept /\ RefusalTrue

-----------------------------------------------------------------------------
(* Lines                                                                   *)

\* A line is short, no write is in it twice, and a cancel or a finish follows a create.
LEMMA LineFacts ==
  ASSUME handed \in Lines
  PROVE  /\ handed \in Seq(Words) /\ Len(handed) \in 0..3 /\ DOMAIN handed = 1..Len(handed)
         /\ \A i, j \in DOMAIN handed : handed[i] = handed[j] => i = j
<1>1. CASE handed = <<>>
  BY <1>1
<1>2. CASE handed = <<"Upload">>
  BY <1>2 DEF Words
<1>3. CASE handed = <<"Create">>
  BY <1>3 DEF Words
<1>4. CASE handed = <<"Upload", "Create">>
  BY <1>4 DEF Words
<1>5. ASSUME NEW w \in {"Cancel", "Finish"}, handed = <<"Create", w>>
      PROVE  /\ handed \in Seq(Words) /\ Len(handed) = 2 /\ DOMAIN handed = 1..2
             /\ \A i, j \in DOMAIN handed : handed[i] = handed[j] => i = j
  BY <1>5 DEF Words
<1>6. ASSUME NEW w \in {"Cancel", "Finish"}, handed = <<"Upload", "Create", w>>
      PROVE  /\ handed \in Seq(Words) /\ Len(handed) = 3 /\ DOMAIN handed = 1..3
             /\ \A i, j \in DOMAIN handed : handed[i] = handed[j] => i = j
  BY <1>6 DEF Words
<1> QED BY <1>1, <1>2, <1>3, <1>4, <1>5, <1>6 DEF Lines, Unasked, Asked, AskedAnd

\* What is in a line.
LEMMA LineGiven ==
  ASSUME handed \in Lines
  PROVE  /\ Given("Cancel") <=> handed \in AskedAnd("Cancel")
         /\ Given("Finish") <=> handed \in AskedAnd("Finish")
         /\ Given("Create") <=> handed \notin Unasked
         /\ Given("Upload") => handed # <<>>
  BY DEF Lines, Unasked, Asked, AskedAnd, Given

\* A write is handed over to a line that does not have it.
LEMMA LineGrows ==
  /\ Append(<<>>, "Upload") \in Unasked
  /\ \A s \in Unasked : Append(s, "Create") \in Asked
  /\ \A s \in Asked, w \in {"Cancel", "Finish"} : Append(s, w) \in AskedAnd(w)
<1>1. \A w \in Words : Append(<<>>, w) = <<w>>
  OBVIOUS
<1>2. \A v, w \in Words : Append(<<v>>, w) = <<v, w>>
  <2> SUFFICES ASSUME NEW v \in Words, NEW w \in Words PROVE Append(<<v>>, w) = <<v, w>>
    OBVIOUS
  <2>1. <<v>> \in Seq(Words) /\ <<v, w>> \in Seq(Words)
    OBVIOUS
  <2>2. \A i \in 1..2 : Append(<<v>>, w)[i] = <<v, w>>[i]
    BY <2>1
  <2>3. Append(<<v>>, w) \in Seq(Words) /\ Len(Append(<<v>>, w)) = 2 /\ Len(<<v, w>>) = 2
    BY <2>1
  <2> QED BY <2>1, <2>2, <2>3, SeqEqual
<1>3. \A u, v, w \in Words : Append(<<u, v>>, w) = <<u, v, w>>
  <2> SUFFICES ASSUME NEW u \in Words, NEW v \in Words, NEW w \in Words
               PROVE  Append(<<u, v>>, w) = <<u, v, w>>
    OBVIOUS
  <2>1. <<u, v>> \in Seq(Words) /\ <<u, v, w>> \in Seq(Words)
    OBVIOUS
  <2>2. \A i \in 1..3 : Append(<<u, v>>, w)[i] = <<u, v, w>>[i]
    BY <2>1
  <2>3. /\ Append(<<u, v>>, w) \in Seq(Words) /\ Len(Append(<<u, v>>, w)) = 3
        /\ Len(<<u, v, w>>) = 3
    BY <2>1
  <2> QED BY <2>1, <2>2, <2>3, SeqEqual
<1> QED BY <1>1, <1>2, <1>3, Zenon DEF Unasked, Asked, AskedAnd, Words

\* The end of a write of the line.
LEMMA EndOfAt ==
  ASSUME CallTypes, handed \in Lines, NEW i \in DOMAIN handed
  PROVE  EndOf(handed[i]) = res[i]
<1>1. \A j \in DOMAIN handed : handed[j] = handed[i] => j = i
  BY LineFacts
<1>2. (CHOOSE j \in DOMAIN handed : handed[j] = handed[i]) = i
  BY <1>1
<1> QED BY <1>2 DEF EndOf, Given

\* The first write with no end.
LEMMA FrontFirst ==
  ASSUME CallTypes, handed \in Lines, HasHead
  PROVE  /\ First(res, Front) /\ Front \in DOMAIN handed
         /\ \A i \in DOMAIN res : First(res, i) => i = Front
<1>1. /\ DOMAIN res = DOMAIN handed /\ DOMAIN res = 1..Len(res) /\ Len(res) \in 0..3
  BY LineFacts DEF CallTypes
<1>2. PICK i \in DOMAIN res : res[i] = "None"
  BY DEF HasHead
<1>3. \E j \in DOMAIN res : res[j] = "None" /\ \A l \in 1..(j - 1) : res[l] # "None"
  <2>1. CASE res[1] = "None"
    BY <1>1, <1>2, <2>1
  <2>2. CASE res[1] # "None" /\ 2 \in DOMAIN res /\ res[2] = "None"
    BY <1>1, <2>2
  <2>3. CASE res[1] # "None" /\ ~(2 \in DOMAIN res /\ res[2] = "None")
    <3>1. i = 3 /\ 3 \in DOMAIN res /\ res[2] # "None"
      BY <1>1, <1>2, <2>3
    <3> QED BY <1>1, <1>2, <2>3, <3>1
  <2> QED BY <2>1, <2>2, <2>3
<1>4. First(res, Front)
  BY <1>3, Zenon DEF Front, First
<1>5. \A j, l \in DOMAIN res : First(res, j) /\ First(res, l) => j = l
  BY <1>1 DEF First
<1> QED BY <1>1, <1>4, <1>5 DEF First

-----------------------------------------------------------------------------
\* No write is handed over yet (run of the tool and of the node).
LEMMA InitCall == Init => CallInv
<1> SUFFICES ASSUME Init PROVE CallInv
  OBVIOUS
<1>1. handed = <<>> /\ res = <<>> /\ sess = NoSession /\ ends = "None" /\ job = "None"
  BY DEF Init, SessionInit
<1>2. CallTypes /\ call.end = "None" /\ call.at \in {"Input", "Prepare"}
  <2>1. /\ call \in [kind : Tools \cup {"Node"}, form : Forms, poll : Nat, heard : BOOLEAN,
                      end : {"None"}, at : {"Input", "Prepare"}]
    BY KindsAssumption DEF Init, FirstStep
  <2>2. res \in Seq(WriteEnd) /\ Len(res) = Len(handed)
    BY <1>1
  <2>3. sess \in [cmd : {"None"}, at : {"None"}, awaiter : BOOLEAN, published : BOOLEAN,
                  result : {"None"}]
    BY <1>1 DEF NoSession
  <2> QED BY <1>1, <2>1, <2>2, <2>3 DEF Init, SessionInit, CallTypes, Commands
<1>3. LineKept /\ CompletedKept /\ RefusalTrue
  BY <1>1, <1>2 DEF LineKept, CompletedKept, RefusalTrue, Lines, Unasked, Asked, AskedAnd
<1>4. SessionKept
  BY <1>1 DEF Init, SessionInit, NoSession, Commands, SessionKept, AtHead, OnlyItsSession,
              Decided, SessionTrue, WritesTrue, First
<1> QED BY <1>2, <1>3, <1>4 DEF CallInv

-----------------------------------------------------------------------------
(* The steps of the call                                                   *)

\* Lines of different words are different.
LEMMA LinesApart ==
  /\ \A s \in Unasked \cup Asked \cup AskedAnd("Cancel") : s \notin AskedAnd("Finish")
  /\ \A s \in Asked \cup AskedAnd("Cancel") \cup AskedAnd("Finish") : s \notin Unasked
  /\ <<>> \in Unasked
  BY DEF Unasked, Asked, AskedAnd

\* A step that hands nothing over.
LEMMA NothingHanded ==
  ASSUME CallInv, HandNothing, UNCHANGED sessVars
  PROVE  SessionKept' /\ res' \in Seq(WriteEnd) /\ Len(res') = Len(handed')
<1>1. UNCHANGED <<sess, bus, copies, verdict, inbox, job, handed, res>>
  BY DEF HandNothing, sessVars, stream
<1>2. AtHead' /\ OnlyItsSession' /\ WritesTrue'
  BY <1>1 DEF CallInv, SessionKept, AtHead, OnlyItsSession, WritesTrue, First
<1>3. Decided' /\ SessionTrue'
  BY <1>1 DEF CallInv, SessionKept, Decided, SessionTrue
<1> QED BY <1>1, <1>2, <1>3 DEF CallInv, CallTypes, SessionKept

\* A write joins at the back; it was not on the bus before.
LEMMA WriteHanded ==
  ASSUME CallInv, NEW k \in Words, ~Given(k), HandOver(k), UNCHANGED sessVars
  PROVE  /\ SessionKept' /\ res' \in Seq(WriteEnd) /\ Len(res') = Len(handed')
         /\ \A i \in DOMAIN handed : i \in DOMAIN handed' /\ handed'[i] = handed[i] /\ res'[i] = res[i]
<1>1. /\ handed \in Seq(Words) /\ DOMAIN handed = 1..Len(handed) /\ Len(handed) \in Nat
      /\ res \in Seq(WriteEnd) /\ Len(res) = Len(handed)
  BY LineFacts DEF CallInv, LineKept, CallTypes
<1>2. PICK r \in {"None", "LeftUnsent"} : res' = Append(res, r) /\ handed' = Append(handed, k)
  BY DEF HandOver
<1>3. /\ DOMAIN handed' = 1..(Len(handed) + 1) /\ DOMAIN res' = 1..(Len(handed) + 1)
      /\ \A i \in DOMAIN handed : handed'[i] = handed[i] /\ res'[i] = res[i]
      /\ handed'[Len(handed) + 1] = k /\ res'[Len(handed) + 1] = r
  BY <1>1, <1>2
<1>4. res' \in Seq(WriteEnd) /\ Len(res') = Len(handed')
  BY <1>1, <1>2 DEF WriteEnd
<1>5. \A i \in DOMAIN handed : First(res, i) => First(res', i)
  BY <1>1, <1>3 DEF First
<1>6. AtHead'
  BY <1>1, <1>3, <1>5 DEF CallInv, SessionKept, AtHead, sessVars, stream
<1>7. OnlyItsSession'
  BY <1>1, <1>3 DEF CallInv, SessionKept, OnlyItsSession, sessVars, stream
<1>8. Decided' /\ SessionTrue'
  BY DEF CallInv, SessionKept, Decided, SessionTrue, sessVars, stream
<1>9. WritesTrue'
  <2> SUFFICES ASSUME NEW i \in DOMAIN handed', handed'[i] \in Commands
               PROVE  /\ res'[i] = "Delivered" => "Ok" \in verdict[handed'[i]]
                      /\ res'[i] = "Refused" => \/ "Rejected" \in verdict[handed'[i]]
                                                \/ copies[handed'[i]] = 0
    BY DEF WritesTrue, sessVars, stream
  <2>1. CASE i \in DOMAIN handed
    BY <1>3, <2>1 DEF CallInv, SessionKept, WritesTrue
  <2>2. CASE i = Len(handed) + 1
    BY <1>3, <2>2
  <2> QED BY <1>1, <1>3, <2>1, <2>2
<1> QED BY <1>1, <1>3, <1>4, <1>6, <1>7, <1>8, <1>9 DEF SessionKept

\* What a step of the call makes of the call, when it hands over what `line' has more.
CallKept(line) ==
  /\ call' \in [kind : Tools \cup {"Node"}, form : Forms, poll : Nat, heard : BOOLEAN,
                end : {"None", "Error", "Completed", "Failed", "Cancelled", "Refusal"},
                at : {"Prepare", "Input", "Request", "Source", "Upload", "Create", "Check",
                      "Wait", "Settle", "Read", "Finish", "Process", "Respond", "Over"}]
  /\ line \in Lines
  /\ call'.at \in {"Prepare", "Input", "Request", "Source", "Upload"} => line = <<>>
  /\ call'.at = "Create" => line \in Unasked
  /\ call'.at \in {"Check", "Wait", "Settle", "Read", "Finish"} => line \in Asked
  /\ call'.at = "Read" => call'.end = "Completed"
  /\ line \in AskedAnd("Finish") => call'.end = "Completed"
  /\ call'.end = "Completed" => call.end = "Completed" \/ ends = "Completed"
  /\ call'.end = "Refusal" => call.end = "Refusal" \/ EndOf("Create") = "Refused"

\* The steps up to the create.
LEMMA FirstSteps ==
  ASSUME CallInv, \/ Prepare \/ HandUpload \/ HandCreate \/ LastState \/ Request
                  \/ AskSource \/ NodeHands
  PROVE  /\ CallKept(handed')
         /\ \/ HandNothing
            \/ HandOver("Upload") /\ ~Given("Upload")
            \/ HandOver("Create") /\ ~Given("Create")
<1> USE DEF CallInv, CallTypes, LineKept, Lines
<1>0. /\ call.at \in {"Prepare", "Input", "Request", "Source", "Upload"} => ~Given("Upload")
      /\ call.at = "Create" => ~Given("Create")
  BY LineGiven, LinesApart
<1>1. CASE Prepare \/ LastState \/ Request \/ AskSource
  <2>1. /\ HandNothing /\ handed = <<>>
        /\ \E p \in {"Upload", "Request", "Source", "Create", "Over"} : call' = [call EXCEPT !.at = p]
    BY <1>1 DEF Prepare, LastState, Request, AskSource, Is, CallAt, Ends, UnlessCancelled,
                AuthorFails, Guarded
  <2> QED BY <2>1, LinesApart DEF CallKept, HandNothing
<1>2. CASE HandUpload \/ (Is({"Node"}, "Upload") /\ CallAt("Create") /\ HandOver("Upload"))
  <2>1. call.at = "Upload" /\ handed = <<>>
    BY <1>2 DEF HandUpload, Is
  <2>2. /\ HandNothing \/ HandOver("Upload")
        /\ \E p \in {"Create", "Over"} : call' = [call EXCEPT !.at = p]
    BY <1>2 DEF HandUpload, Is, CallAt, Ends
  <2>3. handed' \in Unasked
    BY <2>1, <2>2, LineGrows, LinesApart DEF HandNothing, HandOver
  <2> QED BY <1>0, <2>1, <2>2, <2>3, LinesApart DEF CallKept
<1>3. CASE HandCreate \/ (Is({"Node"}, "Create") /\ CallAt("Wait") /\ HandOver("Create"))
  <2>1. call.at = "Create" /\ handed \in Unasked
    BY <1>3 DEF HandCreate, Is
  <2>2. \/ HandNothing /\ call' = [call EXCEPT !.at = "Over"]
        \/ HandOver("Create") /\ \E p \in {"Wait", "Check"} : call' = [call EXCEPT !.at = p]
    BY <1>3 DEF HandCreate, Is, CallAt, Ends
  <2>3. CASE HandNothing /\ call' = [call EXCEPT !.at = "Over"]
    BY <2>1, <2>3, LinesApart DEF CallKept, HandNothing
  <2>4. CASE HandOver("Create") /\ \E p \in {"Wait", "Check"} : call' = [call EXCEPT !.at = p]
    <3>1. handed' \in Asked
      BY <2>1, <2>4, LineGrows DEF HandOver
    <3> QED BY <1>0, <2>1, <2>4, <3>1, LinesApart DEF CallKept
  <2> QED BY <2>2, <2>3, <2>4
<1> HIDE DEF CallInv, CallTypes, LineKept, Lines
<1> QED BY <1>1, <1>2, <1>3 DEF NodeHands

\* The cancel of a call that stops on its way (cancel_unless_dead).
LEMMA StopSteps ==
  ASSUME CallInv, call.at \in {"Check", "Wait"}, call' = [call EXCEPT !.at = "Over"],
         HandNothing \/ CancelUnlessDead
  PROVE  /\ CallKept(handed')
         /\ HandNothing \/ (HandOver("Cancel") /\ ~Given("Cancel"))
<1>1. /\ handed \in Asked /\ handed \in Lines /\ ~Given("Cancel")
  <2>1. handed \in Asked /\ handed \in Lines
    BY DEF CallInv, LineKept
  <2>2. handed \notin AskedAnd("Cancel")
    BY <2>1 DEF Asked, AskedAnd
  <2> QED BY <2>1, <2>2, LineGiven
<1>2. handed' \in Asked \cup AskedAnd("Cancel")
  BY <1>1, LineGrows DEF CancelUnlessDead, HandNothing, HandOver
<1>3. call'.end = call.end /\ call'.at = "Over"
  BY DEF CallInv, CallTypes
<1>4. CallKept(handed')
  BY <1>2, <1>3, LinesApart DEF CallKept, CallInv, CallTypes, Lines
<1> QED BY <1>1, <1>4 DEF CancelUnlessDead

\* The wait for the end (wait_for_end).
LEMMA WaitSteps ==
  ASSUME CallInv, WaitForEnd
  PROVE  /\ CallKept(handed')
         /\ HandNothing \/ (HandOver("Cancel") /\ ~Given("Cancel"))
<1>1. /\ call.at = "Wait" /\ handed \in Asked /\ handed \in Lines
      /\ handed \notin AskedAnd("Finish") /\ handed \notin Unasked
  BY LinesApart DEF CallInv, LineKept, WaitForEnd
<1>2. CASE Pending
  <2>1. HandNothing /\ PollOn
    BY <1>2 DEF Pending
  <2>2. call' = [call EXCEPT !.poll = call'.poll] /\ call'.poll \in Nat
    BY <2>1 DEF PollOn, CallInv, CallTypes
  <2> QED BY <1>1, <2>1, <2>2 DEF CallKept, HandNothing, CallInv, CallTypes
<1>3. CASE TakeEnd
  <2>1. CASE ends = "Error"
    BY <1>1, <1>3, <2>1, StopSteps DEF TakeEnd, Ends
  <2>2. CASE ends # "Error"
    <3>1. PICK p \in {"Settle", "Finish"} : call' = [call EXCEPT !.at = p, !.end = ends]
      BY <1>3, <2>2 DEF TakeEnd
    <3>2. HandNothing /\ ends \in {"Completed", "Failed", "Cancelled"}
      BY <1>3, <2>2 DEF TakeEnd, CallInv, CallTypes
    <3> QED BY <1>1, <3>1, <3>2 DEF CallKept, HandNothing, CallInv, CallTypes
  <2> QED BY <2>1, <2>2
<1>4. CASE TakeCreated
  <2>0. HandNothing
    BY <1>4 DEF TakeCreated
  <2>1. \/ call' = [call EXCEPT !.heard = TRUE, !.poll = 1]
        \/ call' = [call EXCEPT !.at = "Over"]
        \/ EndOf("Create") = "Refused" /\ call' = [call EXCEPT !.at = "Finish", !.end = "Refusal"]
    BY <1>4 DEF TakeCreated, Ends
  <2>2. CASE call' = [call EXCEPT !.heard = TRUE, !.poll = 1]
    BY <1>1, <2>0, <2>2 DEF CallKept, HandNothing, CallInv, CallTypes
  <2>3. CASE call' = [call EXCEPT !.at = "Over"]
    BY <2>0, <2>3, <1>1, StopSteps
  <2>4. CASE EndOf("Create") = "Refused" /\ call' = [call EXCEPT !.at = "Finish", !.end = "Refusal"]
    BY <1>1, <2>0, <2>4 DEF CallKept, HandNothing, CallInv, CallTypes
  <2> QED BY <2>1, <2>2, <2>3, <2>4
<1>5. CASE TakeTrigger \/ TakeDropped
  BY <1>1, <1>5, StopSteps DEF TakeTrigger, TakeDropped, Ends
<1> QED BY <1>2, <1>3, <1>4, <1>5 DEF WaitForEnd

\* The steps after the end (settle, take_result, hand_over_unless_cancelled).
LEMMA LastSteps ==
  ASSUME CallInv, Settle \/ TakeResult \/ Process \/ FinishUnlessCancelled \/ Respond
  PROVE  /\ CallKept(handed')
         /\ HandNothing \/ (HandOver("Finish") /\ ~Given("Finish"))
<1>0. /\ handed \in Lines
      /\ call.at \in {"Settle", "Read", "Finish"} =>
           /\ handed \in Asked /\ ~Given("Finish")
           /\ handed \notin Unasked /\ handed \notin AskedAnd("Finish")
  BY LinesApart, LineGiven DEF CallInv, LineKept
<1>1. CASE Process \/ Respond
  <2>1. HandNothing /\ call' = [call EXCEPT !.at = "Over"]
    BY <1>1 DEF Process, Respond, Is, Ends, UnlessCancelled, Guarded, AuthorFails
  <2> QED BY <2>1 DEF CallKept, HandNothing, CallInv, CallTypes, LineKept
<1>2. CASE Settle
  <2>1. /\ HandNothing /\ call.at = "Settle"
        /\ \/ call.end = "Completed" /\ call' = [call EXCEPT !.at = "Read"]
           \/ call' = [call EXCEPT !.at = "Over"]
    BY <1>2 DEF Settle, Is, CallAt, Ends
  <2> QED BY <1>0, <2>1 DEF CallKept, HandNothing, CallInv, CallTypes
<1>3. CASE TakeResult \/ FinishUnlessCancelled
  <2>1. /\ call.at \in {"Read", "Finish"}
        /\ \E p \in {"Process", "Respond", "Over"} : call' = [call EXCEPT !.at = p]
        /\ HandNothing \/ (HandOver("Finish") /\ call.end = "Completed")
    BY <1>3 DEF TakeResult, FinishUnlessCancelled, Is, CallAt, Ends, CallInv, LineKept
  <2>2. CASE HandNothing
    BY <1>0, <2>1, <2>2 DEF CallKept, HandNothing, CallInv, CallTypes
  <2>3. CASE HandOver("Finish") /\ call.end = "Completed"
    <3>1. handed' \in AskedAnd("Finish")
      BY <1>0, <2>1, <2>3, LineGrows DEF HandOver
    <3>2. handed' \notin Unasked /\ handed' \notin Asked /\ handed' # <<>>
      BY <3>1, LinesApart
    <3> QED BY <1>0, <2>1, <2>3, <3>1, <3>2 DEF CallKept, CallInv, CallTypes, Lines
  <2> QED BY <2>1, <2>2, <2>3
<1> QED BY <1>1, <1>2, <1>3

\* Every step of the call keeps the invariant.
LEMMA CallStepKeeps ==
  ASSUME CallInv, CallStep
  PROVE  CallInv'
<1>1. PICK k \in Words : /\ CallKept(handed')
                         /\ HandNothing \/ (HandOver(k) /\ ~Given(k))
  <2>1. CASE \/ Prepare \/ HandUpload \/ HandCreate \/ LastState \/ Request
             \/ AskSource \/ NodeHands
    BY <2>1, FirstSteps DEF Words
  <2>2. CASE StopIfCancelled
    <3>1. /\ call.at = "Check" /\ call' = [call EXCEPT !.at = "Over"]
          /\ HandNothing \/ CancelUnlessDead
      BY <2>2 DEF StopIfCancelled, Is, Ends
    <3> QED BY <3>1, StopSteps DEF Words
  <2>3. CASE WaitForEnd
    BY <2>3, WaitSteps DEF Words
  <2>4. CASE Settle \/ TakeResult \/ Process \/ FinishUnlessCancelled \/ Respond
    BY <2>4, LastSteps DEF Words
  <2> QED BY <2>1, <2>2, <2>3, <2>4 DEF CallStep
<1>2. UNCHANGED <<sessVars, ends, open>>
  BY DEF CallStep
<1>3. /\ SessionKept' /\ res' \in Seq(WriteEnd) /\ Len(res') = Len(handed')
      /\ \A i \in DOMAIN handed : i \in DOMAIN handed' /\ handed'[i] = handed[i] /\ res'[i] = res[i]
  BY <1>1, <1>2, NothingHanded, WriteHanded DEF HandNothing
<1>4. CallTypes'
  BY <1>1, <1>2, <1>3 DEF CallInv, CallTypes, CallKept, sessVars, stream
<1>5. LineKept'
  BY <1>1 DEF CallKept, LineKept
<1>6. CompletedKept'
  BY <1>1, <1>2 DEF CallInv, CallKept, CompletedKept, sessVars, stream
<1>7. RefusalTrue'
  <2>1. EndOf("Create") = "Refused" =>
          \E i \in DOMAIN handed : handed[i] = "Create" /\ res[i] = "Refused"
    <3>1. CASE Given("Create")
      BY <3>1, EndOfAt DEF Given, CallInv, LineKept
    <3>2. CASE ~Given("Create")
      BY <3>2 DEF EndOf
    <3> QED BY <3>1, <3>2
  <2> QED BY <1>1, <1>3, <2>1 DEF CallInv, CallKept, RefusalTrue
<1> QED BY <1>3, <1>4, <1>5, <1>6, <1>7 DEF CallInv

-----------------------------------------------------------------------------
(* The steps of the session and of jobs                                    *)

\* What leaves the call and the line alone, with the types and the session kept.
LEMMA OutsideKeeps ==
  ASSUME CallInv, Outside, CallTypes', SessionKept',
         job \in {"Completed", "Finished"} => job' \in {"Completed", "Finished"}
  PROVE  CallInv'
  BY DEF CallInv, Outside, callVars, queueVars, LineKept, CompletedKept, RefusalTrue

\* A session whose command was opened.
LEMMA SessionOpen ==
  ASSUME CallInv, sess.at # "None"
  PROVE  sess.cmd \in Commands
  BY DEF CallInv, CallTypes, SessionKept, AtHead

\* The steps that only wait, look, hear or give up (Session::run).
LEMMA AttemptKeeps ==
  ASSUME CallInv, Outside,
         \/ Subscribe \/ LookSilent \/ Hear \/ HearFails \/ WaitFires \/ Missing \/ Resend
  PROVE  CallInv'
<1>1. /\ sess.at # "None" /\ sess.cmd \in Commands
      /\ UNCHANGED <<bus, copies, verdict, job, handed, res, call, ends, open>>
  <2>1. sess.at # "None"
    BY DEF Subscribe, LookSilent, Hear, HearFails, WaitFires, Missing, Resend, At
  <2>2. UNCHANGED <<bus, copies, verdict, job, handed, res, call, ends, open>>
    BY DEF Subscribe, LookSilent, Hear, HearFails, WaitFires, Missing, Resend, Outside,
           callVars, queueVars, stream
  <2> QED BY <2>1, <2>2, SessionOpen
<1>2. inbox' \subseteq inbox
  BY DEF Subscribe, HearFails, LookSilent, Hear, WaitFires, Missing, Resend
<1>3. /\ sess' \in [cmd : Commands, at : {"Idle", "Look", "Publish", "Hear", "Rest", "Ended"},
                    awaiter : BOOLEAN, published : BOOLEAN,
                    result : {"None", "Delivered", "Refused", "Failed"}]
      /\ sess'.cmd = sess.cmd
      /\ sess'.at = "Ended" => \/ inbox # {} /\ sess'.result = OutcomeOf(FirstHeld)
                               \/ sess'.result = "Failed"
  <2>1. CASE Subscribe
    BY <1>1, <2>1 DEF Subscribe, CallInv, CallTypes
  <2>2. CASE LookSilent \/ Resend \/ WaitFires
    BY <1>1, <2>2 DEF LookSilent, Resend, WaitFires, Goes, Rests, CallInv, CallTypes
  <2>3. CASE HearFails
    BY <1>1, <2>3 DEF HearFails, Goes, Rests, CallInv, CallTypes
  <2>4. CASE Hear
    <3>1. OutcomeOf(FirstHeld) \in {"Delivered", "Refused"}
      BY DEF OutcomeOf
    <3> QED BY <1>1, <2>4, <3>1 DEF Hear, Final, CallInv, CallTypes
  <2>5. CASE Missing
    BY <1>1, <2>5 DEF Missing, Final, CallInv, CallTypes
  <2> QED BY <2>1, <2>2, <2>3, <2>4, <2>5
<1>4. CallTypes'
  BY <1>1, <1>2, <1>3 DEF CallInv, CallTypes
<1>5. AtHead' /\ OnlyItsSession' /\ Decided' /\ WritesTrue'
  BY <1>1, <1>3 DEF CallInv, SessionKept, AtHead, OnlyItsSession, Decided, WritesTrue, First
<1>6. SessionTrue'
  <2>1. inbox # {} => FirstHeld \in verdict[sess.cmd] \cap Verdicts
    <3>1. inbox \subseteq Verdicts /\ (inbox # {} => inbox \subseteq verdict[sess.cmd])
      BY DEF CallInv, CallTypes, SessionKept, SessionTrue
    <3>2. inbox # {} => FirstHeld \in inbox
      BY <3>1 DEF FirstHeld, Verdicts
    <3> QED BY <3>1, <3>2
  <2>2. inbox' # {} => inbox' \subseteq verdict[sess.cmd]
    BY <1>2 DEF CallInv, SessionKept, SessionTrue
  <2>3. sess'.at = "Ended" => /\ sess'.result # "None"
                              /\ sess'.result = "Delivered" => "Ok" \in verdict[sess.cmd]
                              /\ sess'.result = "Refused" => "Rejected" \in verdict[sess.cmd]
    BY <1>3, <2>1 DEF OutcomeOf, Verdicts
  <2>4. "None" \notin Commands
    BY DEF Commands
  <2> QED BY <1>1, <1>3, <2>2, <2>3, <2>4 DEF SessionTrue
<1> QED BY <1>1, <1>4, <1>5, <1>6, OutsideKeeps DEF SessionKept

\* A publication, confirmed or not (Session::run, publish).
LEMMA PublishKeeps ==
  ASSUME CallInv, Outside, PublishUnconfirmed \/ \E again \in BOOLEAN : Publish(again)
  PROVE  CallInv'
<1>1. /\ sess.at = "Publish" /\ sess.cmd \in Commands
      /\ UNCHANGED <<verdict, inbox, job, handed, res, call, ends, open>>
  <2>1. sess.at = "Publish"
    BY DEF PublishUnconfirmed, Publish, At
  <2>2. UNCHANGED <<verdict, inbox, job, handed, res, call, ends, open>>
    BY DEF PublishUnconfirmed, Publish, Outside, callVars, queueVars
  <2> QED BY <2>1, <2>2, SessionOpen
<1>2. /\ sess' \in [cmd : Commands, at : {"Hear", "Rest"}, awaiter : BOOLEAN,
                    published : BOOLEAN, result : {"None", "Delivered", "Refused", "Failed"}]
      /\ sess'.cmd = sess.cmd
  BY <1>1 DEF PublishUnconfirmed, Publish, Rests, Goes, CallInv, CallTypes
<1>3. UNCHANGED stream \/ \E again \in BOOLEAN : Stored(sess.cmd, again)
  BY DEF PublishUnconfirmed, Publish
<1>t. /\ bus \in [Commands -> Nat] /\ copies \in [Commands -> 0..2]
      /\ verdict \in [Commands -> SUBSET Verdicts]
  BY DEF CallInv, CallTypes
<1>d. \A k \in Commands :
        /\ copies[k] = 0 => bus[k] = 0 /\ verdict[k] = {}
        /\ copies[k] = 1 => \/ bus[k] = 1 /\ verdict[k] = {}
                            \/ bus[k] = 0 /\ verdict[k] \in {{"Ok"}, {"Rejected"}}
  BY DEF CallInv, SessionKept, Decided
<1>n. /\ bus' \in [Commands -> Nat] /\ copies' \in [Commands -> 0..2]
      /\ \A k \in Commands :
           \/ bus'[k] = bus[k] /\ copies'[k] = copies[k]
           \/ /\ k = sess.cmd /\ bus'[k] = bus[k] + 1
              /\ copies'[k] = IF copies[k] = 0 THEN 1 ELSE 2
  <2>1. CASE UNCHANGED stream
    BY <1>t, <2>1 DEF stream
  <2>2. ASSUME NEW again \in BOOLEAN, Stored(sess.cmd, again), ~UNCHANGED stream
        PROVE  /\ bus' = [bus EXCEPT ![sess.cmd] = bus[sess.cmd] + 1]
               /\ copies' = [copies EXCEPT ![sess.cmd] = IF copies[sess.cmd] = 0 THEN 1 ELSE 2]
    BY <1>1, <1>t, <2>2 DEF Stored
  <2>3. CASE /\ bus' = [bus EXCEPT ![sess.cmd] = bus[sess.cmd] + 1]
             /\ copies' = [copies EXCEPT ![sess.cmd] = IF copies[sess.cmd] = 0 THEN 1 ELSE 2]
    BY <1>1, <1>t, <2>3
  <2> QED BY <1>3, <2>1, <2>2, <2>3
<1>4. CallTypes'
  BY <1>1, <1>2, <1>n DEF CallInv, CallTypes
<1>5. PICK i \in DOMAIN handed : handed[i] = sess.cmd /\ First(res, i)
  BY <1>1 DEF CallInv, SessionKept, AtHead, Commands
<1>6. AtHead' /\ OnlyItsSession'
  BY <1>1, <1>2, <1>n, <1>5 DEF CallInv, SessionKept, AtHead, OnlyItsSession, First
<1>9. Decided'
  <2>1. ASSUME NEW k \in Commands
        PROVE  /\ copies'[k] = 0 => bus'[k] = 0 /\ verdict[k] = {}
               /\ copies'[k] = 1 => \/ bus'[k] = 1 /\ verdict[k] = {}
                                    \/ bus'[k] = 0 /\ verdict[k] \in {{"Ok"}, {"Rejected"}}
    BY <1>d, <1>n, <1>t
  <2> QED BY <1>1, <2>1 DEF CallInv, SessionKept, Decided
<1>7. SessionTrue'
  BY <1>1, <1>2 DEF CallInv, SessionKept, SessionTrue
<1>8. WritesTrue'
  <2>1. \A j \in DOMAIN handed : handed[j] = sess.cmd => res[j] = "None"
    BY <1>5, LineFacts DEF CallInv, LineKept, First
  <2> QED BY <1>1, <1>n, <2>1 DEF CallInv, SessionKept, WritesTrue
<1> QED BY <1>1, <1>4, <1>6, <1>7, <1>8, <1>9, OutsideKeeps DEF SessionKept

\* Jobs judges a copy of a command, and accepts a command once; a completed child is
\* only ever finished.
LEMMA JobsKeeps ==
  ASSUME CallInv, Outside, NEW k \in Commands, JobsHandles(k)
  PROVE  CallInv'
<1>1. /\ bus[k] > 0 /\ bus' = [bus EXCEPT ![k] = @ - 1]
      /\ UNCHANGED <<sess, copies, handed, res, call, ends, open>>
  BY DEF JobsHandles, Outside, callVars, queueVars
<1>2. PICK d \in Decisions(k) :
        /\ verdict' = [verdict EXCEPT ![k] = @ \cup {d[1]}] /\ job' = d[2]
        /\ inbox' = IF sess.cmd = k /\ sess.awaiter THEN inbox \cup {d[1]} ELSE inbox
  BY DEF JobsHandles
<1>3. /\ d[1] \in Verdicts
      /\ "Ok" \in verdict[k] => d[1] = "Ok" /\ job' = job
      /\ "Ok" \notin verdict[k] /\ k = "Create" => job' = IF d[1] = "Ok" THEN "Live" ELSE job
      /\ "Ok" \notin verdict[k] /\ k = "Cancel" => job' = IF job = "Live" THEN "Cancelled" ELSE job
      /\ "Ok" \notin verdict[k] /\ k = "Finish" => job' = IF job = "Completed" THEN "Finished" ELSE job
  BY <1>2 DEF Decisions, Commands, Verdicts
<1>t. /\ bus \in [Commands -> Nat] /\ copies \in [Commands -> 0..2]
      /\ verdict \in [Commands -> SUBSET Verdicts] /\ inbox \subseteq Verdicts
  BY DEF CallInv, CallTypes
<1>v. /\ verdict' \in [Commands -> SUBSET Verdicts]
      /\ \A l \in Commands : verdict'[l] = IF l = k THEN verdict[l] \cup {d[1]} ELSE verdict[l]
  BY <1>2, <1>3, <1>t
<1>b. /\ bus' \in [Commands -> Nat]
      /\ \A l \in Commands : bus'[l] = IF l = k THEN bus[l] - 1 ELSE bus[l]
  BY <1>1, <1>t
<1>4. CallTypes'
  <2>1. inbox' \subseteq Verdicts
    BY <1>2, <1>3, <1>t
  <2>2. job' \in {"None", "Live", "Completed", "Failed", "Cancelled", "Finished"}
    BY <1>3 DEF CallInv, CallTypes, Commands
  <2> QED BY <1>1, <1>v, <1>b, <2>1, <2>2 DEF CallInv, CallTypes
<1>5. AtHead' /\ OnlyItsSession'
  BY <1>1 DEF CallInv, SessionKept, AtHead, OnlyItsSession, First
<1>6. Decided'
  <2>0. ASSUME NEW l \in Commands
        PROVE  /\ copies[l] = 0 => bus[l] = 0 /\ verdict[l] = {}
               /\ copies[l] = 1 => \/ bus[l] = 1 /\ verdict[l] = {}
                                   \/ bus[l] = 0 /\ verdict[l] \in {{"Ok"}, {"Rejected"}}
    BY DEF CallInv, SessionKept, Decided
  <2>1. ASSUME NEW l \in Commands
        PROVE  /\ copies[l] = 0 => bus'[l] = 0 /\ verdict'[l] = {}
               /\ copies[l] = 1 => \/ bus'[l] = 1 /\ verdict'[l] = {}
                                   \/ bus'[l] = 0 /\ verdict'[l] \in {{"Ok"}, {"Rejected"}}
    <3>1. CASE l # k
      BY <2>0, <3>1, <1>v, <1>b
    <3>2. CASE l = k
      <4>1. copies[k] # 0
        BY <1>1, <1>t, <2>0, <3>2
      <4>2. copies[k] = 1 => bus[k] = 1 /\ verdict[k] = {}
        BY <1>1, <1>t, <2>0, <3>2
      <4>3. copies[k] = 1 => bus'[k] = 0 /\ verdict'[k] = {d[1]}
        BY <4>2, <1>v, <1>b
      <4> QED BY <1>3, <3>2, <4>1, <4>3 DEF Verdicts
    <3> QED BY <3>1, <3>2
  <2>2. "Ok" \in verdict'["Create"] <=> job' # "None"
    <3>1. "Ok" \in verdict["Create"] <=> job # "None"
      BY DEF CallInv, SessionKept, Decided
    <3>2. k # "Create" => verdict'["Create"] = verdict["Create"] /\ (job' # "None" <=> job # "None")
      BY <1>3, <1>v DEF Commands
    <3>3. k = "Create" => ("Ok" \in verdict'["Create"] <=> ("Ok" \in verdict["Create"] \/ d[1] = "Ok"))
      BY <1>v
    <3> QED BY <1>3, <3>1, <3>2, <3>3
  <2> QED BY <1>1, <2>1, <2>2 DEF Decided
<1>7. \A l \in Commands : verdict[l] \subseteq verdict'[l]
  BY <1>v
<1>8. SessionTrue'
  <2>1. inbox' # {} => sess.cmd # "None" /\ inbox' \subseteq verdict'[sess.cmd]
    <3>1. "None" \notin Commands /\ sess.cmd \in Commands \cup {"None"}
      BY DEF Commands, CallInv, CallTypes
    <3>2. inbox # {} => sess.cmd \in Commands /\ inbox \subseteq verdict'[sess.cmd]
      BY <1>7, <3>1 DEF CallInv, SessionKept, SessionTrue
    <3>3. CASE sess.cmd = k /\ sess.awaiter
      <4>1. inbox' = inbox \cup {d[1]}
        BY <1>2, <3>3
      <4> QED BY <1>v, <3>1, <3>2, <3>3, <4>1
    <3>4. CASE ~(sess.cmd = k /\ sess.awaiter)
      BY <1>2, <3>1, <3>2, <3>4
    <3> QED BY <3>3, <3>4
  <2>2. sess.at = "Ended" => sess.cmd \in Commands
    BY SessionOpen
  <2> QED BY <1>1, <1>7, <2>1, <2>2 DEF CallInv, SessionKept, SessionTrue
<1>9. WritesTrue'
  BY <1>1, <1>7 DEF CallInv, SessionKept, WritesTrue
<1>10. job \in {"Completed", "Finished"} => job' \in {"Completed", "Finished"}
  <2>1. job # "None" => "Ok" \in verdict["Create"]
    BY DEF CallInv, SessionKept, Decided
  <2> QED BY <1>3, <2>1 DEF Commands
<1> QED BY <1>4, <1>5, <1>6, <1>8, <1>9, <1>10, OutsideKeeps DEF SessionKept

\* Every step of the session and of jobs keeps the invariant.
LEMMA SessionStepKeeps ==
  ASSUME CallInv, SessionNext, Outside
  PROVE  CallInv'
<1>1. CASE JobEnds
  <2>1. /\ job = "Live" /\ job' \in {"Completed", "Failed", "Cancelled"}
        /\ UNCHANGED <<sess, bus, copies, verdict, inbox, handed, res, call, ends, open>>
    BY <1>1 DEF JobEnds, Outside, callVars, queueVars, stream
  <2>2. CallTypes' /\ SessionKept'
    BY <2>1 DEF CallInv, CallTypes, SessionKept, AtHead, OnlyItsSession, Decided, SessionTrue,
                WritesTrue, First
  <2> QED BY <2>1, <2>2, OutsideKeeps
<1> QED BY <1>1, AttemptKeeps, PublishKeeps, JobsKeeps DEF SessionNext

-----------------------------------------------------------------------------
(* The steps of the queue and what comes from outside                      *)

\* The first write with no end gets one, which is true of its command.
LEMMA HeadEnds ==
  ASSUME CallInv, HasHead, NEW r \in WriteEnd \ {"None"}, WriteEnds(r),
         UNCHANGED <<bus, copies, verdict, job, call, ends>>,
         NEW k, k = handed[Front],
         k \in Commands => /\ r = "Delivered" => "Ok" \in verdict[k]
                           /\ r = "Refused" => "Rejected" \in verdict[k] \/ copies[k] = 0,
         \/ sess' = NoSession /\ inbox' = {} /\ (sess.cmd # "None" => k = sess.cmd)
         \/ UNCHANGED <<sess, inbox>> /\ sess.cmd = "None"
  PROVE  CallInv'
<1>1. /\ First(res, Front) /\ Front \in DOMAIN handed /\ handed \in Lines
      /\ res \in Seq(WriteEnd) /\ DOMAIN res = DOMAIN handed
  BY FrontFirst, LineFacts DEF CallInv, CallTypes, LineKept
<1>2. /\ res' = [res EXCEPT ![Front] = r] /\ handed' = handed /\ open' = open
      /\ res' \in Seq(WriteEnd) /\ Len(res') = Len(res) /\ DOMAIN res' = DOMAIN res
      /\ res'[Front] = r /\ \A i \in DOMAIN res : i # Front => res'[i] = res[i]
  BY <1>1 DEF WriteEnds
<1>3. /\ sess'.cmd = "None" /\ sess'.at = "None" /\ inbox' = {} /\ CallTypes'
  <2>1. CASE sess' = NoSession /\ inbox' = {}
    BY <1>2, <2>1 DEF CallInv, CallTypes, NoSession
  <2>2. CASE UNCHANGED <<sess, inbox>> /\ sess.cmd = "None"
    BY <1>2, <2>2 DEF CallInv, CallTypes, SessionKept, AtHead, SessionTrue
  <2> QED BY <2>1, <2>2
<1>4. AtHead' /\ Decided' /\ SessionTrue'
  BY <1>3 DEF CallInv, SessionKept, AtHead, Decided, SessionTrue
<1>5. \A i \in DOMAIN handed : handed[i] = k => i = Front
  BY <1>1, LineFacts
<1>6. OnlyItsSession'
  <2> SUFFICES ASSUME NEW l \in Commands, copies[l] # 0
               PROVE  \E i \in DOMAIN handed : handed[i] = l /\ res'[i] # "None"
    BY <1>2 DEF OnlyItsSession
  <2>1. PICK i \in DOMAIN handed : handed[i] = l /\ (res[i] # "None" \/ sess.cmd = l)
    BY DEF CallInv, SessionKept, OnlyItsSession
  <2>2. l # "None"
    BY DEF Commands
  <2>3. sess.cmd = l => i = Front
    BY <1>5, <2>1, <2>2
  <2> QED BY <1>1, <1>2, <2>1, <2>3
<1>7. WritesTrue'
  BY <1>1, <1>2 DEF CallInv, SessionKept, WritesTrue
<1>8. LineKept' /\ CompletedKept'
  BY <1>2 DEF CallInv, LineKept, CompletedKept
<1>9. RefusalTrue'
  BY <1>1, <1>2 DEF CallInv, RefusalTrue, First
<1> QED BY <1>3, <1>4, <1>6, <1>7, <1>8, <1>9 DEF CallInv, SessionKept

\* The queue opens a session, ends a write, or removes one (task.rs).
LEMMA QueueStepKeeps ==
  ASSUME CallInv, QueueStep
  PROVE  CallInv'
<1>0. UNCHANGED <<call, ends>>
  BY DEF QueueStep, callVars
<1>1. CASE RemoveBlocked
  <2>1. PICK r \in BlockedHead : WriteEnds(r)
    BY <1>1 DEF RemoveBlocked
  <2>2. r \in {"Refused", "DependsOnRemoved"}
    BY <2>1 DEF BlockedHead, Queue!Blocked
  <2>3. HasHead /\ sess = NoSession /\ UNCHANGED <<sess, bus, copies, verdict, job, inbox>>
    BY <1>1 DEF RemoveBlocked, sessVars, stream
  <2>4. First(res, Front) /\ Front \in DOMAIN handed
    BY <2>3, FrontFirst DEF CallInv, LineKept
  <2>5. handed[Front] \in Commands => copies[handed[Front]] = 0
    <3>1. \A i \in DOMAIN handed : handed[i] = handed[Front] => i = Front
      BY <2>4, LineFacts DEF CallInv, LineKept
    <3>2. sess.cmd = "None"
      BY <2>3 DEF NoSession
    <3>3. "None" \notin Commands
      BY DEF Commands
    <3> QED BY <2>4, <3>1, <3>2, <3>3 DEF CallInv, CallTypes, SessionKept, OnlyItsSession, First
  <2> QED BY <1>0, <2>1, <2>2, <2>3, <2>5, HeadEnds DEF WriteEnd, NoSession
<1>2. CASE SendUpload
  <2>1. /\ HasHead /\ handed[Front] = "Upload" /\ UNCHANGED <<sess, bus, copies, verdict, job, inbox>>
    BY <1>2 DEF SendUpload, sessVars, stream
  <2>2. PICK r \in {"Delivered", "Refused", "Failed"} : WriteEnds(r)
    BY <1>2 DEF SendUpload
  <2>3. "Upload" \notin Commands
    BY DEF Commands
  <2>4. sess.cmd = "None"
    <3>1. sess.cmd # "None" => handed[Front] = sess.cmd
      BY <2>1, FrontFirst DEF CallInv, CallTypes, LineKept, SessionKept, AtHead, First
    <3> QED BY <2>1, <2>3, <3>1 DEF CallInv, CallTypes
  <2> QED BY <1>0, <2>1, <2>2, <2>3, <2>4, HeadEnds DEF WriteEnd
<1>3. CASE OpenSession
  <2>1. /\ HasHead /\ handed[Front] \in Commands /\ sess' = Opened(handed[Front]) /\ inbox' = {}
        /\ UNCHANGED <<bus, copies, verdict, job, open, handed, res>> /\ sess = NoSession
    BY <1>3 DEF OpenSession, queueVars, stream
  <2>2. First(res, Front) /\ Front \in DOMAIN handed
    BY <2>1, FrontFirst DEF CallInv, LineKept
  <2>3. /\ sess' \in [cmd : Commands \cup {"None"},
                      at : {"None", "Idle", "Look", "Publish", "Hear", "Rest", "Ended"},
                      awaiter : BOOLEAN, published : BOOLEAN,
                      result : {"None", "Delivered", "Refused", "Failed"}]
        /\ sess'.at = "Idle" /\ sess'.cmd = handed[Front] /\ "None" \notin Commands /\ sess.cmd = "None"
    BY <2>1 DEF Opened, NoSession, Commands
  <2>4. CallTypes'
    <3>1. inbox' \subseteq Verdicts /\ UNCHANGED <<bus, copies, verdict, job, open, handed, res>>
      BY <2>1, Zenon
    <3> QED BY <1>0, <2>3, <3>1 DEF CallInv, CallTypes
  <2>5. SessionKept'
    BY <2>1, <2>2, <2>3 DEF CallInv, SessionKept, AtHead, OnlyItsSession, Decided, SessionTrue,
                            WritesTrue, First
  <2> QED BY <1>0, <2>1, <2>4, <2>5 DEF CallInv, LineKept, CompletedKept, RefusalTrue
<1>4. CASE CloseSession
  <2>1. /\ sess.at = "Ended" /\ HasHead /\ WriteEnds(sess.result) /\ sess' = NoSession
        /\ inbox' = {} /\ UNCHANGED <<bus, copies, verdict, job>>
    BY <1>4 DEF CloseSession, stream
  <2>2. sess.cmd \in Commands /\ "None" \notin Commands
    BY <2>1, SessionOpen DEF Commands
  <2>3. handed[Front] = sess.cmd
    BY <2>1, <2>2, FrontFirst DEF CallInv, CallTypes, LineKept, SessionKept, AtHead, First
  <2>4. /\ sess.result \in WriteEnd \ {"None"}
        /\ sess.result = "Delivered" => "Ok" \in verdict[sess.cmd]
        /\ sess.result = "Refused" => "Rejected" \in verdict[sess.cmd]
    BY <2>1 DEF CallInv, CallTypes, SessionKept, SessionTrue, WriteEnd
  <2> QED BY <1>0, <2>1, <2>2, <2>3, <2>4, HeadEnds
<1> QED BY <1>1, <1>2, <1>3, <1>4 DEF QueueStep

\* The owner drops the queue: every write has its end.
LEMMA DroppedKeeps ==
  ASSUME CallInv, QueueDropped, UNCHANGED <<callVars, triggered, dropped, ends>>
  PROVE  CallInv'
<1>1. /\ sess' = NoSession /\ inbox' = {} /\ open' = FALSE
      /\ UNCHANGED <<bus, copies, verdict, job, handed, call, ends>>
      /\ res' = [i \in DOMAIN res |-> IF res[i] = "None" THEN "LeftUnsent" ELSE res[i]]
  BY DEF QueueDropped, callVars, stream
<1>2. /\ res \in Seq(WriteEnd) /\ Len(res) \in Nat /\ DOMAIN res = 1..Len(res)
      /\ DOMAIN res = DOMAIN handed /\ handed \in Lines
  BY LineFacts DEF CallInv, CallTypes, LineKept
<1>3. /\ res' \in Seq(WriteEnd) /\ Len(res') = Len(res) /\ DOMAIN res' = DOMAIN res
      /\ \A i \in DOMAIN res : res'[i] # "None" /\ (res[i] # "None" => res'[i] = res[i])
      /\ \A i \in DOMAIN res : res'[i] \in {"Delivered", "Refused"} => res'[i] = res[i]
  <2>1. \A i \in 1..Len(res) :
          (IF res[i] = "None" THEN "LeftUnsent" ELSE res[i]) \in WriteEnd
    BY <1>2 DEF WriteEnd
  <2>2. res' \in [1..Len(res) -> WriteEnd]
    BY <1>1, <1>2, <2>1
  <2>3. res' \in Seq(WriteEnd) /\ Len(res') = Len(res) /\ DOMAIN res' = DOMAIN res
    BY <1>2, <2>2
  <2> QED BY <1>1, <2>3
<1>4. CallTypes' /\ sess'.cmd = "None" /\ sess'.at = "None"
  <2>1. inbox' \subseteq Verdicts /\ open' \in BOOLEAN /\ UNCHANGED <<bus, copies, verdict, job, handed, call, ends>>
    BY <1>1, Zenon
  <2>2. /\ sess' \in [cmd : Commands \cup {"None"},
                      at : {"None", "Idle", "Look", "Publish", "Hear", "Rest", "Ended"},
                      awaiter : BOOLEAN, published : BOOLEAN,
                      result : {"None", "Delivered", "Refused", "Failed"}]
        /\ sess'.cmd = "None" /\ sess'.at = "None"
    BY <1>1 DEF NoSession
  <2> QED BY <1>3, <2>1, <2>2 DEF CallInv, CallTypes
<1>5. SessionKept'
  BY <1>1, <1>2, <1>3, <1>4 DEF CallInv, SessionKept, AtHead, OnlyItsSession, Decided,
                                SessionTrue, WritesTrue
<1>6. LineKept' /\ CompletedKept' /\ RefusalTrue'
  BY <1>1, <1>2, <1>3 DEF CallInv, LineKept, CompletedKept, RefusalTrue
<1> QED BY <1>4, <1>5, <1>6 DEF CallInv

\* The triggers, and the end of the child in the end store.
LEMMA SignalsKeep ==
  ASSUME CallInv, Trigger \/ DropInstance \/ EndArrives \/ EndLost \/ UNCHANGED vars
  PROVE  CallInv'
<1>1. UNCHANGED <<sess, bus, copies, verdict, inbox, job, call, open, handed, res>>
  BY DEF Trigger, DropInstance, EndArrives, EndLost, vars, sessVars, stream, callVars, queueVars
<1>2. \/ ends' = ends
      \/ ends' \in {"Error", "Failed", "Cancelled"}
      \/ ends' = "Completed" /\ job = "Completed"
  BY DEF Trigger, DropInstance, EndArrives, EndLost, vars
<1> QED BY <1>1, <1>2 DEF CallInv, CallTypes, LineKept, CompletedKept, RefusalTrue, SessionKept,
        AtHead, OnlyItsSession, Decided, SessionTrue, WritesTrue, First

\* Every step of the call, the queue, the session, jobs and the outside keeps the invariant.
LEMMA NextCall == CallInv /\ [Next]_vars => CallInv'
  BY CallStepKeeps, QueueStepKeeps, DroppedKeeps, SessionStepKeeps, SignalsKeep DEF Next

\* The inductive invariant of a call holds in every state.
THEOREM CallInvariant == Spec => []CallInv
  BY InitCall, NextCall, PTL DEF Spec

\* What a write of the call is told, jobs decided; a refused create has no child, unless
\* the command was on the stream more than once.
THEOREM ToldTheTruth == Spec => []AnswersTrue
<1>1. CallInv => AnswersTrue
  <2> SUFFICES ASSUME CallInv PROVE AnswersTrue
    OBVIOUS
  <2>1. ASSUME NEW k \in Commands
        PROVE  /\ EndOf(k) = "Delivered" => "Ok" \in verdict[k]
               /\ EndOf(k) = "Refused" => /\ "Rejected" \in verdict[k] \/ copies[k] = 0
                                          /\ "Ok" \in verdict[k] => copies[k] > 1
    <3>1. CASE ~Given(k)
      BY <3>1 DEF EndOf
    <3>2. CASE Given(k)
      <4>1. PICK i \in DOMAIN handed : handed[i] = k
        BY <3>2 DEF Given
      <4>2. EndOf(k) = res[i]
        BY <4>1, EndOfAt DEF CallInv, LineKept
      <4>3. /\ EndOf(k) = "Delivered" => "Ok" \in verdict[k]
            /\ EndOf(k) = "Refused" => "Rejected" \in verdict[k] \/ copies[k] = 0
        BY <4>1, <4>2 DEF CallInv, SessionKept, WritesTrue
      <4>4. "Ok" \in verdict[k] /\ ("Rejected" \in verdict[k] \/ copies[k] = 0) => copies[k] > 1
        <5>1. copies[k] \in 0..2
          BY DEF CallInv, CallTypes
        <5>2. /\ copies[k] = 0 => verdict[k] = {}
              /\ copies[k] = 1 => verdict[k] \in {{}, {"Ok"}, {"Rejected"}}
          BY DEF CallInv, SessionKept, Decided
        <5> QED BY <5>1, <5>2
      <4> QED BY <4>3, <4>4
    <3> QED BY <3>1, <3>2
  <2>2. call.end = "Refusal" => EndOf("Create") = "Refused"
    BY EndOfAt DEF CallInv, LineKept, RefusalTrue
  <2>3. EndOf("Create") = "Refused" /\ job # "None" => copies["Create"] > 1
    BY <2>1 DEF CallInv, SessionKept, Decided, Commands
  <2> QED BY <2>1, <2>2, <2>3 DEF AnswersTrue
<1> QED BY <1>1, CallInvariant, PTL

\* A call says one thing of its child, once, and finishes only one that completed.
THEOREM SaidOnce == Spec => []OneWord
<1>1. CallInv => OneWord
  <2> SUFFICES ASSUME CallInv PROVE OneWord
    OBVIOUS
  <2>1. ~(Given("Cancel") /\ Given("Finish"))
    BY LineGiven, LinesApart DEF CallInv, LineKept
  <2>2. \A i, j \in DOMAIN handed : handed[i] = handed[j] => i = j
    BY LineFacts DEF CallInv, LineKept
  <2>3. (Given("Cancel") \/ Given("Finish")) => Given("Create")
    BY LineGiven, LinesApart DEF CallInv, LineKept
  <2>4. Given("Finish") => job \in {"Completed", "Finished"}
    BY LineGiven DEF CallInv, LineKept, CompletedKept
  <2> QED BY <2>1, <2>2, <2>3, <2>4 DEF OneWord
<1> QED BY <1>1, CallInvariant, PTL
=============================================================================
