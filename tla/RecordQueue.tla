---------------------------- MODULE RecordQueue -----------------------------
(***************************************************************************)
(* What a region of the flash store promises its callers: a FIFO queue of  *)
(* records that is read in upload sessions.                                *)
(*                                                                         *)
(*   - records are handed out in arrival order, each once per session, and *)
(*     never more than were queued when the session opened;                *)
(*   - only a confirmation removes what was handed out; a queue at its     *)
(*     capacity gives up its oldest records, never during a session;       *)
(*   - a power loss costs the newest records, the ones still in RAM.       *)
(***************************************************************************)
EXTENDS Integers, Sequences

CONSTANTS
  Records,   \* the records that may be queued
  Burst      \* the most records given up at once

VARIABLES
  ready,     \* the store has been initialized since the last power loss
  queue,     \* unconfirmed records, oldest first
  ram,       \* how many of them, at the end of the queue, are only in RAM
  open,      \* a session is open
  handed,    \* records handed out in the session
  limit      \* queue length when the session opened

qvars == <<ready, queue, ram, open, handed, limit>>

Least(a, b) == IF a <= b THEN a ELSE b
Keep(s, n) == SubSeq(s, n + 1, Len(s))
Closed == open' = FALSE /\ handed' = <<>> /\ limit' = 0

Init == /\ ready = FALSE /\ queue = <<>> /\ ram = 0
        /\ open = FALSE /\ handed = <<>> /\ limit = 0

\* A record is queued in RAM.
Put(r) == /\ queue' = Append(queue, r)
          /\ ram' = ram + 1
          /\ UNCHANGED <<open, handed, limit>>

\* Everything queued becomes durable, with or without a new record at the
\* end, and the d oldest records make room for it.
Persist(new, d) ==
  /\ ~open
  /\ d <= Len(queue)
  /\ queue' = Keep(queue, d) \o new
  /\ ram' = 0
  /\ UNCHANGED <<open, handed, limit>>

Begin == /\ open' = TRUE /\ handed' = <<>> /\ limit' = Len(queue)
         /\ UNCHANGED <<queue, ram>>

\* The next record in order; a session that was not opened is opened first.
Give == /\ Len(handed) < Len(queue)
        /\ handed' = Append(handed, queue[Len(handed) + 1])
        /\ open' = TRUE
        /\ limit' = IF open THEN limit ELSE Len(queue)
        /\ Len(handed) < limit'
        /\ UNCHANGED <<queue, ram>>

\* A read that finds nothing opens the session too.
GiveNothing == /\ ~open
               /\ open' = TRUE /\ limit' = Len(queue)
               /\ UNCHANGED <<queue, ram, handed>>

Abort == Closed /\ UNCHANGED <<queue, ram>>

Confirm == /\ queue' = Keep(queue, Len(handed))
           /\ ram' = Least(ram, Len(queue'))
           /\ Closed

Clear == queue' = <<>> /\ ram' = 0 /\ Closed

Operation == \/ \E r \in Records : Put(r)
             \/ \E r \in Records, d \in 0 .. Burst : Persist(<<r>>, d)
             \/ \E d \in 0 .. Burst : Persist(<<>>, d)
             \/ Begin \/ Give \/ GiveNothing \/ Abort \/ Confirm \/ Clear

Start == /\ ~ready /\ ready' = TRUE
         /\ UNCHANGED <<queue, ram, open, handed, limit>>

Crash == /\ ready' = FALSE
         /\ queue' = SubSeq(queue, 1, Len(queue) - ram)
         /\ ram' = 0
         /\ Closed

Next == \/ ready /\ Operation /\ UNCHANGED ready
        \/ Start \/ Crash

Spec == Init /\ [][Next]_qvars
=============================================================================
