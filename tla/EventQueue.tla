----------------------------- MODULE EventQueue -----------------------------
(***************************************************************************)
(* The ring buffer between the serial reader thread and the main thread    *)
(* (EventQueue_* in znp_host.c), with its two users on the main thread: the *)
(* dispatcher loop, and ZNP_SysResetReq, which empties the queue, writes    *)
(* the reset request and pops until it sees the SYS_RESET_IND.             *)
(*                                                                         *)
(* Every operation runs under the queue's mutex; only a Pop that waits in  *)
(* pthread_cond_timedwait lets others in, so it is split there.            *)
(***************************************************************************)
EXTENDS Naturals, Sequences

CONSTANTS
  Areqs,     \* indications other than SYS_RESET_IND
  ResetInd,  \* SYS_RESET_IND
  NoFrame,   \* a slot never written, a Pop that returned false
  Size       \* EVENT_QUEUE_MAX

ASSUME QueueAssumption ==
  /\ Size \in Nat \ {0}
  /\ ResetInd \notin Areqs
  /\ NoFrame \notin Areqs \cup {ResetInd}

VARIABLES
  frames, head, tail, count, \* EVENT_QUEUE_T
  waiting,   \* the main thread is in pthread_cond_timedwait
  signalled, \* it has been signalled and has not run since
  mode,      \* what the main thread is doing
  popped,    \* *frame_ of its last Pop, NoFrame if that returned false
  booting,   \* the ZNP has taken a reset request it has not answered
  indKept    \* history: the answer to the current reset entered the queue

ringVars == <<frames, head, tail, count>>
mainVars == <<waiting, signalled, mode, popped>>
znpVars  == <<booting, indKept>>
vars == <<ringVars, mainVars, znpVars>>

Frames == Areqs \cup {ResetInd}
Slots  == 0 .. Size - 1

\* "dispatch" is the dispatcher loop; the others are ZNP_SysResetReq after it
\* cleared the queue, after it wrote the request, and in its loop of Pops.
Modes == {"dispatch", "cleared", "written", "await"}

Init ==
  /\ frames = [i \in Slots |-> NoFrame]
  /\ head = 0 /\ tail = 0 /\ count = 0
  /\ waiting = FALSE /\ signalled = FALSE
  /\ mode = "dispatch" /\ popped = NoFrame
  /\ booting = FALSE /\ indKept = FALSE

-----------------------------------------------------------------------------
(* EventQueue_Push, EventQueue_Clear and EventQueue_Pop. *)

HasRoom == count < Size

\* Faults: the waiter is not signalled; a full queue drops its oldest frame.
PushSilently(f) ==
  IF HasRoom
    THEN /\ frames' = [frames EXCEPT ![tail] = f]
         /\ tail' = (tail + 1) % Size
         /\ count' = count + 1
         /\ UNCHANGED <<head, signalled>>
    ELSE UNCHANGED <<ringVars, signalled>>

PushOverOldest(f) ==
  /\ frames' = [frames EXCEPT ![tail] = f]
  /\ tail' = (tail + 1) % Size
  /\ count' = IF HasRoom THEN count + 1 ELSE count
  /\ head' = IF HasRoom THEN head ELSE (head + 1) % Size
  /\ signalled' = waiting

Push(f) ==
  IF HasRoom
    THEN /\ frames' = [frames EXCEPT ![tail] = f]
         /\ tail' = (tail + 1) % Size
         /\ count' = count + 1
         /\ signalled' = waiting
         /\ UNCHANGED head
    ELSE UNCHANGED <<ringVars, signalled>>

\* Fault: tail is forgotten.
ClearHalf ==
  /\ head' = 0 /\ count' = 0
  /\ UNCHANGED <<frames, tail>>

Clear ==
  /\ head' = 0 /\ tail' = 0 /\ count' = 0
  /\ UNCHANGED frames

Take ==
  /\ count > 0
  /\ popped' = frames[head]
  /\ head' = (head + 1) % Size
  /\ count' = count - 1
  /\ UNCHANGED <<frames, tail>>

-----------------------------------------------------------------------------
(* The reader thread pushes what the ZNP sends. *)

ReaderPushes ==
  /\ \E f \in Areqs : Push(f)
  /\ UNCHANGED <<waiting, mode, popped, znpVars>>

\* The ZNP has rebooted: its SYS_RESET_IND is pushed like any other frame.
ResetIndArrives ==
  /\ booting
  /\ Push(ResetInd)
  /\ booting' = FALSE
  /\ indKept' = HasRoom
  /\ UNCHANGED <<waiting, mode, popped>>

-----------------------------------------------------------------------------
(* The main thread. *)

Popping == mode \in {"dispatch", "await"}

\* The dispatcher takes the next frame for Main_HandleIncomingFrame.
Dispatch ==
  /\ mode = "dispatch" /\ ~waiting
  /\ Take
  /\ UNCHANGED <<waiting, signalled, mode, znpVars>>

\* ZNP_SysResetReq discards what it pops until it sees the SYS_RESET_IND.
AwaitReset ==
  /\ mode = "await" /\ ~waiting
  /\ Take
  /\ mode' = IF popped' = ResetInd THEN "dispatch" ELSE "await"
  /\ indKept' = (indKept /\ popped' # ResetInd)
  /\ UNCHANGED <<waiting, signalled, booting>>

Block ==
  /\ Popping /\ ~waiting
  /\ count = 0
  /\ waiting' = TRUE /\ signalled' = FALSE
  /\ UNCHANGED <<ringVars, mode, popped, znpVars>>

Wake ==
  /\ waiting /\ signalled
  /\ waiting' = FALSE /\ signalled' = FALSE
  /\ UNCHANGED <<ringVars, mode, popped, znpVars>>

\* ETIMEDOUT: Pop returns false, without looking at the queue again.
PopTimesOut ==
  /\ waiting
  /\ waiting' = FALSE /\ signalled' = FALSE
  /\ popped' = NoFrame
  /\ UNCHANGED <<ringVars, mode, znpVars>>

ResetClears ==
  /\ mode = "dispatch" /\ ~waiting
  /\ Clear
  /\ mode' = "cleared"
  /\ indKept' = FALSE
  /\ UNCHANGED <<waiting, signalled, popped, booting>>

\* A write that fails ends ZNP_SysResetReq.
ResetWrites ==
  /\ mode = "cleared"
  /\ \/ mode' = "written" /\ booting' = TRUE
     \/ mode' = "dispatch" /\ UNCHANGED booting
  /\ UNCHANGED <<ringVars, waiting, signalled, popped, indKept>>

\* Fault: the queue is cleared after the request instead of before it.
ResetDrainsAndClears ==
  /\ mode = "written"
  /\ mode' = "await"
  /\ Clear
  /\ UNCHANGED <<waiting, signalled, popped, znpVars>>

\* tcdrain: the ZNP may answer before it returns.
ResetDrains ==
  /\ mode = "written"
  /\ mode' = "await"
  /\ UNCHANGED <<ringVars, waiting, signalled, popped, znpVars>>

\* Fault: the deadline is looked at only when a Pop found nothing.
ResetGivesUpOnSilence ==
  /\ mode = "await" /\ ~waiting /\ popped = NoFrame
  /\ mode' = "dispatch"
  /\ UNCHANGED <<ringVars, waiting, signalled, popped, znpVars>>

\* The 8 s deadline has passed between two Pops.
ResetGivesUp ==
  /\ mode = "await" /\ ~waiting
  /\ mode' = "dispatch"
  /\ UNCHANGED <<ringVars, waiting, signalled, popped, znpVars>>

MainStep ==
  \/ Dispatch \/ AwaitReset \/ Block \/ Wake \/ PopTimesOut
  \/ ResetWrites \/ ResetDrains \/ ResetGivesUp

Next == ReaderPushes \/ ResetIndArrives \/ MainStep \/ ResetClears

Spec == Init /\ [][Next]_vars

\* The main thread keeps running, and its loop looks at the clock after every
\* Pop, so it meets the passed deadline at the latest the time after.
FairSpec == Spec /\ WF_vars(MainStep) /\ SF_vars(ResetGivesUp)

-----------------------------------------------------------------------------
(* Properties. *)

TypeOK ==
  /\ frames \in [Slots -> Frames \cup {NoFrame}]
  /\ head \in Slots /\ tail \in Slots /\ count \in 0 .. Size
  /\ waiting \in BOOLEAN /\ signalled \in BOOLEAN
  /\ mode \in Modes
  /\ popped \in Frames \cup {NoFrame}
  /\ booting \in BOOLEAN /\ indKept \in BOOLEAN

\* The slot of the k-th oldest frame in the queue, counting from 0.
SlotOf(k) == (head + k) % Size

\* The three indices agree, after any mix of pushes, pops, clears and wrap
\* arounds, and every slot between them has been written.
RingInv ==
  /\ tail = SlotOf(count)
  /\ \A k \in 0 .. count - 1 : frames[SlotOf(k)] \in Frames

\* All state is of its type, and the ring is well formed.
QueueIsSound == TypeOK /\ RingInv

\* No frame lies in the queue while the main thread sleeps unsignalled.
SleeperIsSignalled == waiting /\ count > 0 => signalled

\* ZNP_SysResetReq never throws away the answer it waits for: from its arrival
\* (even before the loop starts) until it is popped it stays in the queue.
AnswerStaysQueued ==
  mode # "dispatch" /\ indKept =>
    \E k \in 0 .. count - 1 : frames[SlotOf(k)] = ResetInd

\* A reset ends, whether the ZNP answers, stays silent or floods the queue.
ResetReturns == mode # "dispatch" ~> mode = "dispatch"

\* The ring implements a bounded first-in first-out queue.
Contents == [i \in 1 .. count |-> frames[SlotOf(i - 1)]]
Fifo == INSTANCE FrameFifo WITH queue <- Contents
FifoSpec == Fifo!Spec
=============================================================================
