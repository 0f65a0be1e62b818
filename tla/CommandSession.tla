--------------------------- MODULE CommandSession ---------------------------
(***************************************************************************)
(* The session in which br-runner-jobs sends one command about a child Job *)
(* (runner_transport/outcomes.rs): it subscribes to the outcome events,    *)
(* publishes the command, waits for the outcome, and on a resend looks for *)
(* the outcome of the earlier attempt first.  The delivery queue opens a   *)
(* session for a write and makes attempts in it until one is final.        *)
(*                                                                         *)
(* Around it: the streams of the bus and what jobs does with the commands  *)
(* of one child Job.                                                       *)
(***************************************************************************)
EXTENDS Naturals, Sequences

CONSTANTS
    MaxFaults,   \* bound: failures of the bus and of the reads
    MaxCopies    \* bound: copies of one command that wait for jobs at once

ASSUME FaultsAssumption == MaxFaults \in Nat /\ MaxCopies \in Nat \ {0}

Commands == {"Create", "Cancel", "Finish"}

VARIABLES
    sess,     \* the session: its command, where its attempt is, its fields
    bus,      \* per command: the copies of it that wait on the command stream
    copies,   \* and how many the stream took so far: none, 1, or 2 for more
    verdict,  \* per command: all that jobs decided of it
    inbox,    \* what the outcome events say that the awaiter holds
    job,      \* the child Job
    faults    \* failures so far

stream == <<bus, copies>>
sessVars == <<sess, stream, verdict, inbox, job>>

NoSession == [cmd |-> "None", at |-> "None", awaiter |-> FALSE,
              published |-> FALSE, result |-> "None"]
Opened(k) == [NoSession EXCEPT !.cmd = k, !.at = "Idle"]

SessionInit ==
    /\ sess = NoSession
    /\ bus = [k \in Commands |-> 0] /\ copies = [k \in Commands |-> 0]
    /\ verdict = [k \in Commands |-> {}]
    /\ inbox = {}
    /\ job = "None"
    /\ faults = 0

Faulty == faults < MaxFaults /\ faults' = faults + 1
Fine   == UNCHANGED faults

At(places) == sess.at \in places
Goes(place) == [sess EXCEPT !.at = place]

\* An error that the queue answers with another attempt after its rest, and
\* one that ends the write.
Rests    == Goes("Rest")
Final(r) == [sess EXCEPT !.at = "Ended", !.result = r]

(***************************************************************************)
(* The steps of an attempt (Session::run).                                  *)
(***************************************************************************)
\* An awaiter gets the events that come after it was made.
Subscribe ==
    /\ At({"Idle"})
    /\ sess' = [sess EXCEPT !.awaiter = TRUE,
                            !.at = IF sess.published
                                   THEN "Look" ELSE "Publish"]
    /\ inbox' = IF sess.awaiter THEN inbox ELSE {}
    /\ Fine
    /\ UNCHANGED <<stream, verdict, job>>

\* The look before a resend hears nothing.
LookSilent ==
    /\ At({"Look"})
    /\ sess' = Goes("Publish")
    /\ Fine
    /\ UNCHANGED <<stream, verdict, inbox, job>>

\* A message with the id of an earlier one is dropped by the bus while its window
\* lasts; past it (`again') the resend is a second copy, handled the first or not.
Stored(k, again) ==
    IF copies[k] = 0 \/ again
    THEN /\ bus[k] < MaxCopies /\ bus' = [bus EXCEPT ![k] = @ + 1]
         /\ copies' = [copies EXCEPT ![k] = IF @ = 0 THEN 1 ELSE 2]
    ELSE UNCHANGED stream

Publish(again) ==
    /\ At({"Publish"})
    /\ again => copies[sess.cmd] > 0
    /\ Stored(sess.cmd, again)
    /\ sess' = [sess EXCEPT !.published = TRUE, !.at = "Hear"]
    /\ Fine
    /\ UNCHANGED <<verdict, inbox, job>>

\* The bus gives no confirmation, whether it took the command or not.
PublishUnconfirmed ==
    /\ At({"Publish"})
    /\ Faulty
    /\ UNCHANGED stream \/ \E again \in BOOLEAN : Stored(sess.cmd, again)
    /\ sess' = [Rests EXCEPT !.published = TRUE]
    /\ UNCHANGED <<verdict, inbox, job>>

\* outcome_of: the success event or a rejection.
OutcomeOf(v) == IF v = "Ok" THEN "Delivered" ELSE "Refused"

\* The first event that the awaiter holds: jobs accepts last what it accepts.
FirstHeld == IF "Rejected" \in inbox THEN "Rejected" ELSE "Ok"

Hear ==
    /\ At({"Look", "Hear"}) /\ inbox # {}
    /\ sess' = Final(OutcomeOf(FirstHeld))
    /\ Fine
    /\ UNCHANGED <<stream, verdict, inbox, job>>

\* The awaiter fails and is dropped, or the event it gives does not decode.
HearFails ==
    /\ At({"Look", "Hear"})
    /\ Faulty
    /\ \/ sess' = [Rests EXCEPT !.awaiter = FALSE] /\ inbox' = {}
       \/ inbox # {} /\ sess' = Rests /\ inbox' \in {inbox, inbox \ {FirstHeld}}
    /\ UNCHANGED <<stream, verdict, job>>

\* Variant: a wait that fired is taken for an answer.
WaitTaken ==
    /\ At({"Hear"}) \/ (At({"Idle"}) /\ ~sess.awaiter)
    /\ sess' = IF At({"Hear"}) THEN Final("Delivered") ELSE Rests
    /\ Fine
    /\ UNCHANGED <<stream, verdict, inbox, job>>

\* The outcome wait fires before the awaiter is there, or with no outcome.
WaitFires ==
    /\ At({"Hear"}) \/ (At({"Idle"}) /\ ~sess.awaiter)
    /\ sess' = Rests
    /\ Fine
    /\ UNCHANGED <<stream, verdict, inbox, job>>

\* A stream that is missing is not worth another attempt.
Missing ==
    /\ At({"Idle", "Publish", "Look", "Hear"})
    /\ Faulty
    /\ sess' = Final("Failed")
    /\ UNCHANGED <<stream, verdict, inbox, job>>

\* The rest of the queue between two attempts is over.
Resend ==
    /\ At({"Rest"})
    /\ sess' = Goes("Idle")
    /\ Fine
    /\ UNCHANGED <<stream, verdict, inbox, job>>

(***************************************************************************)
(* Jobs: it handles each copy of a command.  What it accepted it answers    *)
(* with the first outcome; what it refused it judges again.                 *)
(***************************************************************************)
Decisions(k) ==
    IF "Ok" \in verdict[k] THEN {<<"Ok", job>>}
    ELSE CASE k = "Create" -> {<<"Ok", "Live">>, <<"Rejected", job>>}
           [] k = "Cancel" -> IF job = "Live" THEN {<<"Ok", "Cancelled">>}
                                              ELSE {<<"Rejected", job>>}
           [] k = "Finish" -> IF job = "Completed" THEN {<<"Ok", "Finished">>}
                                                   ELSE {<<"Rejected", job>>}

JobsHandles(k) ==
    /\ bus[k] > 0
    /\ bus' = [bus EXCEPT ![k] = @ - 1]
    /\ \E d \in Decisions(k) :
          /\ verdict' = [verdict EXCEPT ![k] = @ \cup {d[1]}] /\ job' = d[2]
          /\ inbox' = IF sess.cmd = k /\ sess.awaiter THEN inbox \cup {d[1]} ELSE inbox
    /\ Fine
    /\ UNCHANGED <<sess, copies>>

\* The child Job ends; another party may cancel it.
JobEnds ==
    /\ job = "Live"
    /\ job' \in {"Completed", "Failed", "Cancelled"}
    /\ Fine
    /\ UNCHANGED <<sess, stream, verdict, inbox>>

SessionNext ==
    \/ Subscribe \/ LookSilent \/ PublishUnconfirmed
    \/ \E again \in BOOLEAN : Publish(again)
    \/ Hear \/ HearFails \/ WaitFires \/ Missing \/ Resend
    \/ \E k \in Commands : JobsHandles(k)
    \/ JobEnds

=============================================================================
