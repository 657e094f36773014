------------------------------- MODULE Mailbox -------------------------------
(***************************************************************************)
(* What msg_queue.h promises to a worker thread: an unbounded first-in     *)
(* first-out inbox that hands out each item once, in the order of posting. *)
(***************************************************************************)
EXTENDS Sequences

CONSTANTS Items, Nothing

VARIABLES
  inbox,   \* the items posted and not taken
  inHand   \* the item the worker is handling, or Nothing

Init == inbox = <<>> /\ inHand = Nothing

Post ==
  /\ \E i \in Items : inbox' = Append(inbox, i)
  /\ UNCHANGED inHand

TakeOldest ==
  /\ inHand = Nothing /\ inbox # <<>>
  /\ inHand' = Head(inbox)
  /\ inbox' = Tail(inbox)

Finish ==
  /\ inHand # Nothing
  /\ inHand' = Nothing
  /\ UNCHANGED inbox

Next == Post \/ TakeOldest \/ Finish

Spec == Init /\ [][Next]_<<inbox, inHand>>
=============================================================================
