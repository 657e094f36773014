------------------------------ MODULE FrameFifo ------------------------------
(***************************************************************************)
(* What the event queue promises (znp_host.h): a first-in first-out queue  *)
(* of at most Size frames.  A frame that finds the queue full is dropped,  *)
(* which changes nothing; the queue can be emptied at once.                *)
(***************************************************************************)
EXTENDS Naturals, Sequences

CONSTANTS Frames, Size

VARIABLES queue

Init == queue = <<>>

Enqueue == Len(queue) < Size /\ \E f \in Frames : queue' = Append(queue, f)
Dequeue == queue # <<>> /\ queue' = Tail(queue)
Discard == queue' = <<>>

Next == Enqueue \/ Dequeue \/ Discard

Spec == Init /\ [][Next]_queue
=============================================================================
