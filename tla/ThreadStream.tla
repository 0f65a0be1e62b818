---------------------------- MODULE ThreadStream ----------------------------
(***************************************************************************)
(* The handle of one streamed message of br-runner-threads (stream/shared, *)
(* client/close): any number of tasks write chunks through one gate, which *)
(* numbers them and sends them on the bus, and any number of closings are  *)
(* sent, each with an outcome that may be lost.  The bus and Threads are   *)
(* the environment.                                                        *)
(***************************************************************************)
EXTENDS Integers, Sequences

CONSTANTS Closings,   \* the calls of close_message
          MaxChunks   \* bound on the chunks

ASSUME StreamAssumption == MaxChunks \in Nat

Bodies == {"content", "keepalive"}
Unsealed == -1

VARIABLES
  chunks,       \* Core::gate: the chunks, in the order of their numbers
  sending,      \* the gate is held by a task whose chunk is on its way
  handleBroken, \* Flags::broken
  closings,     \* Flags::closings; "none" before the call, "gone" once removed
  seal,         \* per closing: the chunks that its seal counts
  at,           \* per closing: the chunks there were when it was made (history)
  bus,          \* the numbers that the bus took
  adrift,       \* the numbers that the bus may still take although the send was given up
  took          \* the closings that Threads took

streamVars == <<chunks, sending, handleBroken, closings, seal, at, bus, adrift, took>>
chunkVars == <<chunks, sending, handleBroken, bus, adrift>>

StreamInit ==
  /\ chunks = <<>> /\ sending = FALSE /\ handleBroken = FALSE
  /\ closings = [c \in Closings |-> "none"]
  /\ seal = [c \in Closings |-> Unsealed] /\ at = [c \in Closings |-> 0]
  /\ bus = {} /\ adrift = {} /\ took = {}

Held == {c \in Closings : closings[c] \notin {"none", "gone"}}
Confirmed == \E c \in Held : closings[c] = "Confirmed"

-----------------------------------------------------------------------------
(* Chunks                                                                  *)

\* Mutant: a broken handle takes chunks.
JudgeUnbroken == \A c \in Held : closings[c] = "Refused"
\* Mutant: a closing whose outcome was lost does not keep chunks out.
JudgeWaiting == ~handleBroken /\ \A c \in Held : closings[c] \in {"Refused", "Lost"}
judge_chunk == ~handleBroken /\ \A c \in Held : closings[c] = "Refused"

\* The number of the chunk on its way: the length before it was pushed.
Number == Len(chunks) - 1

push(body) ==
  /\ ~sending /\ judge_chunk /\ Len(chunks) < MaxChunks
  /\ chunks' = Append(chunks, body)
  /\ sending' = TRUE
  /\ UNCHANGED <<handleBroken, closings, seal, at, bus, adrift, took>>

Published ==
  /\ sending
  /\ sending' = FALSE
  /\ bus' = bus \cup {Number}
  /\ UNCHANGED <<chunks, handleBroken, closings, seal, at, adrift, took>>

\* The bus did not answer in time, or the call was dropped (BreakOnDrop): the handle
\* breaks, and the bus may have the chunk, get it later or never.
PushBreaks ==
  /\ sending
  /\ sending' = FALSE /\ handleBroken' = TRUE
  /\ adrift' = adrift \cup {Number}
  /\ UNCHANGED <<chunks, closings, seal, at, bus, took>>

BusTakesLate ==
  \E n \in adrift :
    /\ bus' = bus \cup {n} /\ adrift' = adrift \ {n}
    /\ UNCHANGED <<chunks, sending, handleBroken, closings, seal, at, took>>

-----------------------------------------------------------------------------
(* Closings                                                                *)

has_content == \E k \in DOMAIN chunks : chunks[k] = "content"

\* Mutant: a failure is sealed although the handle is broken.
HealthyAnyway == \A c \in Held : closings[c] = "Refused"
healthy == ~handleBroken /\ \A c \in Held : closings[c] = "Refused"

judge_closing(completed) == ~Confirmed /\ ~(completed /\ handleBroken)

\* close_message with the handle: judged, sealed and noted under the gate.
close_message(c, completed) ==
  /\ closings[c] = "none" /\ ~sending
  /\ judge_closing(completed)
  /\ completed => has_content
  /\ closings' = [closings EXCEPT ![c] = "Waiting"]
  /\ seal' = [seal EXCEPT ![c] = IF has_content /\ (completed \/ healthy) THEN Len(chunks) ELSE Unsealed]
  /\ at' = [at EXCEPT ![c] = Len(chunks)]
  /\ UNCHANGED <<chunkVars, took>>

settle(c, outcome) ==
  /\ closings[c] = "Waiting"
  /\ closings' = [closings EXCEPT ![c] = outcome]
  /\ UNCHANGED <<chunkVars, seal, at, took>>

\* Threads answers a closing that it took, and one that repeats it with its command id.
ClosingConfirmed(c) == took # {} /\ settle(c, "Confirmed")
\* Unavailable: the command did not leave.
ClosingUnsent(c) == c \notin took /\ settle(c, "gone")
ClosingRefused(c) == c \notin took /\ settle(c, "Refused")
\* Lost, unreadable, or the call was dropped (the guard).
ClosingLost(c) == settle(c, "Lost")

\* Threads takes one closing of a message, late ones included.
ThreadsTakes(c) ==
  /\ took = {} /\ closings[c] \in {"Waiting", "Lost"}
  /\ took' = {c}
  /\ UNCHANGED <<chunkVars, closings, seal, at>>

-----------------------------------------------------------------------------
StreamNext ==
  \/ \E body \in Bodies : push(body)
  \/ Published \/ PushBreaks \/ BusTakesLate
  \/ \E c \in Closings :
       \/ \E completed \in BOOLEAN : close_message(c, completed)
       \/ ClosingConfirmed(c) \/ ClosingUnsent(c) \/ ClosingRefused(c) \/ ClosingLost(c)
       \/ ThreadsTakes(c)

StreamSpec == StreamInit /\ [][StreamNext]_streamVars

-----------------------------------------------------------------------------
(* Properties                                                              *)

\* The handle has its types (stream/shared.rs); the bus knows only numbers of chunks.
StreamTypeOK ==
  /\ chunks \in Seq(Bodies) /\ sending \in BOOLEAN /\ handleBroken \in BOOLEAN
  /\ closings \in [Closings -> {"none", "Waiting", "Refused", "Lost", "Confirmed", "gone"}]
  /\ seal \in [Closings -> Int] /\ at \in [Closings -> Nat]
  /\ bus \subseteq 0..(Len(chunks) - 1) /\ adrift \subseteq 0..(Len(chunks) - 1)
  /\ took \subseteq Closings

\* "With no gap even when many tasks write": whatever breaks, is dropped or comes late,
\* the bus has every chunk but perhaps the last one.
NoGap == \A n \in 0..(Len(chunks) - 2) : n \in bus

\* A seal counts only chunks that the bus has: the message that Threads reads can be
\* whole, also when the handle broke between two closings.
SealOnBus == \A c \in Closings : \A n \in 0..(seal[c] - 1) : n \in bus

\* "A closing goes after every chunk sent before it. After it the handle takes no chunk":
\* when Threads took a closing, late and with its outcome lost included, no chunk was
\* sent after that closing was made.
LastWord == \A c \in took : at[c] = Len(chunks)
=============================================================================
