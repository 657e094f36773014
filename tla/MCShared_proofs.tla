--------------------------- MODULE MCShared_proofs ---------------------------
(***************************************************************************)
(* Proofs about the three structures of MCShared, for any number of        *)
(* threads, items, heap cells and devices, and any size: the event queue   *)
(* (EventQueue), which implements FrameFifo, the inbox of a worker thread  *)
(* (MsgQueue), which implements Mailbox, and the list of offline devices   *)
(* (OfflineWatch).                                                         *)
(***************************************************************************)
EXTENDS MCShared, SequenceTheorems, FiniteSetTheorems, TLAPS

-----------------------------------------------------------------------------
(* The event queue, of any positive size. *)

\* Below twice the size, the slot of an index needs one comparison.
LEMMA WrapOnce ==
  ASSUME NEW a \in Nat, a < 2 * Size
  PROVE  a % Size = IF a < Size THEN a ELSE a - Size
<1> USE QueueAssumption
<1>1. CASE a < Size
  BY <1>1
<1>2. CASE a >= Size
  BY <1>2
<1>3. QED
  BY <1>1, <1>2

\* Stepping the start of the ring by one shifts every position by one.
LEMMA ShiftByOne ==
  ASSUME NEW h \in Slots, NEW k \in 0 .. Size - 1
  PROVE  (((h + 1) % Size) + k) % Size = (h + (k + 1)) % Size
<1> DEFINE g == (h + 1) % Size
<1>1. Size \in Nat \ {0} /\ h \in 0 .. Size - 1
  BY QueueAssumption DEF Slots
<1>2. g = IF h + 1 < Size THEN h + 1 ELSE h + 1 - Size
  BY <1>1, WrapOnce
<1>3. g \in 0 .. Size - 1
  BY <1>1, <1>2
<1> HIDE DEF g
<1>4. (g + k) % Size = IF g + k < Size THEN g + k ELSE g + k - Size
  BY <1>1, <1>3, WrapOnce
<1>5. (h + (k + 1)) % Size = IF h + (k + 1) < Size THEN h + (k + 1) ELSE h + (k + 1) - Size
  BY <1>1, WrapOnce
<1>6. (g + k) % Size = (h + (k + 1)) % Size
  BY <1>1, <1>2, <1>3, <1>4, <1>5
<1>7. QED
  BY <1>6 DEF g

\* The slots of the first Size positions are pairwise distinct.
LEMMA SlotsDistinct ==
  ASSUME TypeOK, NEW j \in 0 .. Size - 1, NEW k \in 0 .. Size - 1, j # k
  PROVE  SlotOf(j) # SlotOf(k)
<1>1. head \in 0 .. Size - 1 /\ Size \in Nat \ {0}
  BY QueueAssumption DEF TypeOK, Slots
<1>2. /\ SlotOf(j) = IF head + j < Size THEN head + j ELSE head + j - Size
      /\ SlotOf(k) = IF head + k < Size THEN head + k ELSE head + k - Size
  BY <1>1, WrapOnce DEF SlotOf
<1>3. QED
  BY <1>1, <1>2

\* Every position of the queue is a slot of the array.
LEMMA SlotInRange ==
  ASSUME TypeOK, NEW k \in 0 .. Size
  PROVE  SlotOf(k) \in Slots
<1>1. head \in 0 .. Size - 1 /\ Size \in Nat \ {0}
  BY QueueAssumption DEF TypeOK, Slots
<1>2. SlotOf(k) = IF head + k < Size THEN head + k ELSE head + k - Size
  BY <1>1, WrapOnce DEF SlotOf
<1>3. QED
  BY <1>1, <1>2 DEF Slots

\* A push that finds room appends, and keeps every queued frame in its slot.
LEMMA PushAppends ==
  ASSUME TypeOK, RingInv, NEW f \in Frames, Push(f), HasRoom
  PROVE  /\ frames' \in [Slots -> Frames \cup {NoFrame}]
         /\ head' \in Slots /\ tail' \in Slots /\ count' \in 0 .. Size
         /\ RingInv'
         /\ \A k \in 0 .. count - 1 : SlotOf(k)' = SlotOf(k)
                                      /\ frames'[SlotOf(k)] = frames[SlotOf(k)]
         /\ count' = count + 1 /\ frames'[SlotOf(count)] = f
         /\ Contents' = Append(Contents, f)
<1>1. /\ head \in 0 .. Size - 1 /\ tail \in 0 .. Size - 1 /\ count \in 0 .. Size - 1
      /\ Size \in Nat \ {0}
  BY QueueAssumption DEF TypeOK, Slots, HasRoom
<1>2. /\ frames' = [frames EXCEPT ![tail] = f] /\ head' = head
      /\ tail' = (tail + 1) % Size /\ count' = count + 1
  BY DEF Push
<1>3. \A k \in 0 .. Size : SlotOf(k)' = SlotOf(k)
  BY <1>2 DEF SlotOf
<1>4. tail = SlotOf(count)
  BY DEF RingInv
<1>5. \A k \in 0 .. count - 1 : SlotOf(k) \in Slots /\ SlotOf(k) # tail
  BY <1>1, <1>4, SlotInRange, SlotsDistinct
<1>6. \A k \in 0 .. count - 1 : frames'[SlotOf(k)] = frames[SlotOf(k)]
  BY <1>2, <1>5 DEF TypeOK
<1>7. frames'[SlotOf(count)] = f
  BY <1>1, <1>2, <1>4 DEF TypeOK, Slots
<1>8. (tail + 1) % Size = SlotOf(count + 1)
  <2>1. tail = IF head + count < Size THEN head + count ELSE head + count - Size
    BY <1>1, <1>4, WrapOnce DEF SlotOf
  <2>2. (tail + 1) % Size = IF tail + 1 < Size THEN tail + 1 ELSE tail + 1 - Size
    BY <1>1, WrapOnce
  <2>3. SlotOf(count + 1) = IF head + (count + 1) < Size THEN head + (count + 1)
                            ELSE head + (count + 1) - Size
    BY <1>1, WrapOnce DEF SlotOf
  <2>4. QED
    BY <1>1, <2>1, <2>2, <2>3
<1>9. tail' \in Slots /\ count' \in 0 .. Size
  BY <1>1, <1>2, <1>8, SlotInRange
<1>10. RingInv'
  <2>1. (tail = SlotOf(count))'
    BY <1>1, <1>2, <1>8 DEF SlotOf
  <2>2. \A k \in 0 .. count : frames'[SlotOf(k)] \in Frames
    BY <1>1, <1>6, <1>7 DEF RingInv
  <2>3. \A k \in 0 .. count' - 1 : frames'[SlotOf(k)'] \in Frames
    <3>1. count' - 1 = count
      BY <1>1, <1>2
    <3>2. \A k \in 0 .. count : SlotOf(k)' = SlotOf(k)
      BY <1>1, <1>3
    <3>3. QED
      BY <2>2, <3>1, <3>2
  <2>4. QED
    BY <2>1, <2>3 DEF RingInv
<1>11. Contents' = Append(Contents, f)
  <2>1. Contents' = [i \in 1 .. count + 1 |-> frames'[SlotOf(i - 1)]]
    BY <1>1, <1>2, <1>3 DEF Contents
  <2>2. Contents \in Seq(Frames) /\ Len(Contents) = count
    BY <1>1 DEF Contents, RingInv
  <2>3. \A i \in 1 .. count : frames'[SlotOf(i - 1)] = Contents[i]
    BY <1>1, <1>6 DEF Contents
  <2>4. frames'[SlotOf((count + 1) - 1)] = f
    BY <1>1, <1>7
  <2>5. Contents' \in Seq(Frames) /\ Len(Contents') = count + 1
    <3>1. ASSUME NEW i \in 1 .. count + 1 PROVE frames'[SlotOf(i - 1)] \in Frames
      <4>1. CASE i \in 1 .. count
        BY <4>1, <2>2, <2>3, ElementOfSeq
      <4>2. CASE i = count + 1
        BY <4>2, <2>4
      <4>3. QED
        BY <1>1, <4>1, <4>2
    <3>2. count + 1 \in Nat
      BY <1>1
    <3>3. QED
      BY <2>1, <3>1, <3>2
  <2>6. /\ Append(Contents, f) \in Seq(Frames) /\ Len(Append(Contents, f)) = count + 1
        /\ \A i \in 1 .. count : Append(Contents, f)[i] = Contents[i]
        /\ Append(Contents, f)[count + 1] = f
    BY <2>2, AppendProperties
  <2>7. \A i \in 1 .. count + 1 : Contents'[i] = Append(Contents, f)[i]
    BY <1>1, <2>1, <2>3, <2>4, <2>6
  <2>8. QED
    BY <2>5, <2>6, <2>7, SeqEqual
<1>12. QED
  BY <1>1, <1>2, <1>3, <1>6, <1>7, <1>9, <1>10, <1>11 DEF TypeOK

\* A pop takes the oldest frame and moves every other one position forward.
LEMMA TakeRemovesFirst ==
  ASSUME TypeOK, RingInv, Take
  PROVE  /\ head' \in Slots /\ count' \in 0 .. Size /\ popped' \in Frames
         /\ RingInv'
         /\ \A k \in 0 .. count - 2 : SlotOf(k)' = SlotOf(k + 1)
         /\ popped' = frames[SlotOf(0)]
         /\ Contents # <<>> /\ Contents' = Tail(Contents)
<1>1. /\ head \in 0 .. Size - 1 /\ count \in 1 .. Size /\ Size \in Nat \ {0}
  BY QueueAssumption DEF TypeOK, Slots, Take
<1>2. /\ popped' = frames[head] /\ head' = (head + 1) % Size /\ count' = count - 1
      /\ frames' = frames /\ tail' = tail
  BY DEF Take
<1>3. SlotOf(0) = head
  BY <1>1, WrapOnce DEF SlotOf
<1>5. head' \in Slots
  BY <1>1, <1>2, WrapOnce DEF Slots
<1>6. \A k \in 0 .. Size - 1 : (head' + k) % Size = SlotOf(k + 1)
  BY <1>1, <1>2, ShiftByOne DEF SlotOf, Slots
<1>7. RingInv'
  <2>1. (head' + (count - 1)) % Size = tail
    BY <1>1, <1>6 DEF RingInv, SlotOf
  <2>2. ASSUME NEW k \in 0 .. count - 2 PROVE frames[(head' + k) % Size] \in Frames
    <3>1. k \in 0 .. Size - 1 /\ k + 1 \in 0 .. count - 1
      BY <1>1
    <3>2. (head' + k) % Size = SlotOf(k + 1)
      BY <3>1, <1>6
    <3>3. QED
      BY <3>1, <3>2 DEF RingInv
  <2>3. QED
    BY <1>1, <1>2, <2>1, <2>2 DEF RingInv, SlotOf
<1>8. popped' \in Frames
  BY <1>1, <1>2, <1>3 DEF RingInv
<1>9. Contents # <<>> /\ Contents' = Tail(Contents)
  <2>1. Contents' = [i \in 1 .. count - 1 |-> frames[SlotOf(i)]]
    <3>1. \A i \in 1 .. count - 1 : SlotOf(i - 1)' = SlotOf(i)
      BY <1>1, <1>2, <1>6 DEF SlotOf
    <3>2. QED
      BY <1>1, <1>2, <3>1 DEF Contents
  <2>2. Contents \in Seq(Frames) /\ Len(Contents) = count
    BY <1>1 DEF Contents, RingInv
  <2>3. \A i \in 1 .. count - 1 : Contents[i + 1] = frames[SlotOf(i)]
    BY <1>1 DEF Contents
  <2>4. Contents' \in Seq(Frames) /\ Len(Contents') = count - 1
    BY <1>1, <2>1, <2>2, <2>3, ElementOfSeq
  <2>5. Contents # <<>>
    BY <1>1, <2>2
  <2>6. /\ Tail(Contents) \in Seq(Frames) /\ Len(Tail(Contents)) = count - 1
        /\ \A i \in 1 .. count - 1 : Tail(Contents)[i] = Contents[i + 1]
    BY <1>1, <2>2, <2>5, HeadTailProperties
  <2>7. \A i \in 1 .. count - 1 : Contents'[i] = Tail(Contents)[i]
    BY <1>1, <2>1, <2>3, <2>6
  <2>8. QED
    BY <2>4, <2>5, <2>6, <2>7, SeqEqual
<1>10. ASSUME NEW k \in 0 .. count - 2 PROVE SlotOf(k)' = SlotOf(k + 1)
  <2>1. k \in 0 .. Size - 1
    BY <1>1
  <2>2. (head' + k) % Size = SlotOf(k + 1)
    BY <2>1, <1>6
  <2>3. QED
    BY <2>2 DEF SlotOf
<1>11. QED
  BY <1>1, <1>2, <1>3, <1>5, <1>7, <1>8, <1>9, <1>10

-----------------------------------------------------------------------------
QueueInv == TypeOK /\ RingInv /\ SleeperIsSignalled /\ AnswerStaysQueued

\* Whoever pushes, the invariant survives it.
LEMMA PushKeepsQueue ==
  ASSUME QueueInv, NEW f \in Frames, Push(f),
         UNCHANGED <<waiting, mode, popped>>, booting' \in BOOLEAN,
         indKept' \in BOOLEAN,
         indKept' /\ ~indKept => HasRoom /\ f = ResetInd
  PROVE  QueueInv' /\ [Fifo!Next]_Contents
<1> USE DEF QueueInv
<1>1. CASE HasRoom
  <2>1. /\ frames' \in [Slots -> Frames \cup {NoFrame}]
        /\ head' \in Slots /\ tail' \in Slots /\ count' \in 0 .. Size
        /\ RingInv'
        /\ \A k \in 0 .. count - 1 : SlotOf(k)' = SlotOf(k)
                                     /\ frames'[SlotOf(k)] = frames[SlotOf(k)]
        /\ count' = count + 1 /\ frames'[SlotOf(count)] = f
        /\ Contents' = Append(Contents, f)
    BY <1>1, PushAppends
  <2>2. signalled' = waiting
    BY <1>1 DEF Push
  <2>3. TypeOK'
    BY <1>1, <2>1, <2>2 DEF TypeOK, HasRoom
  <2>4. SleeperIsSignalled'
    BY <2>2 DEF SleeperIsSignalled
  <2>5. head' = head
    BY <1>1 DEF Push
  <2>6. AnswerStaysQueued'
    <3> SUFFICES ASSUME mode' # "dispatch", indKept'
                 PROVE  \E k \in 0 .. count' - 1 : frames'[SlotOf(k)'] = ResetInd
      BY DEF AnswerStaysQueued
    <3>1. count \in Nat /\ count' - 1 = count
      BY <2>1 DEF TypeOK
    <3>2. CASE f = ResetInd
      <4>1. count \in 0 .. count' - 1 /\ frames'[SlotOf(count)] = ResetInd
        BY <3>1, <3>2, <2>1
      <4>2. QED
        BY <4>1, <2>5 DEF SlotOf
    <3>3. CASE f # ResetInd
      <4>1. PICK k \in 0 .. count - 1 : frames[SlotOf(k)] = ResetInd
        BY <3>3 DEF AnswerStaysQueued
      <4>2. frames'[SlotOf(k)'] = ResetInd /\ k \in 0 .. count' - 1
        BY <4>1, <2>1, <3>1
      <4>3. QED
        BY <4>2
    <3>4. QED
      BY <3>2, <3>3
  <2>7. Fifo!Next
    <3>1. Len(Contents) < Size
      BY <1>1, QueueAssumption DEF HasRoom, Contents, TypeOK
    <3>2. QED
      BY <2>1, <3>1 DEF Fifo!Next, Fifo!Enqueue
  <2>8. QED
    BY <2>1, <2>3, <2>4, <2>6, <2>7
<1>2. CASE ~HasRoom
  <2>1. UNCHANGED <<ringVars, signalled>>
    BY <1>2 DEF Push
  <2>2. indKept' => indKept
    BY <1>2
  <2>3. QueueInv'
    BY <2>1, <2>2 DEF ringVars, TypeOK, RingInv, SleeperIsSignalled, AnswerStaysQueued, SlotOf
  <2>4. UNCHANGED Contents
    BY <2>1 DEF ringVars, Contents, SlotOf
  <2>5. QED
    BY <2>3, <2>4
<1>3. QED
  BY <1>1, <1>2

\* Emptying the queue leaves a well-formed empty one.
LEMMA ClearKeepsRing ==
  ASSUME TypeOK, Clear
  PROVE  /\ head' \in Slots /\ tail' \in Slots /\ count' \in 0 .. Size /\ count' = 0
         /\ RingInv' /\ Contents' = <<>>
<1>1. Size \in Nat \ {0} /\ 0 \in Slots
  BY QueueAssumption DEF Slots
<1>2. head' = 0 /\ tail' = 0 /\ count' = 0
  BY DEF Clear
<1>3. (tail = SlotOf(count))'
  BY <1>1, <1>2 DEF SlotOf
<1>4. RingInv'
  BY <1>2, <1>3 DEF RingInv
<1>5. Contents' = <<>>
  BY <1>2 DEF Contents
<1>6. QED
  BY <1>1, <1>2, <1>4, <1>5

\* Of the main thread's steps, those that take a frame.
LEMMA TakeKeepsQueue ==
  ASSUME QueueInv, Dispatch \/ AwaitReset
  PROVE  QueueInv' /\ [Fifo!Next]_Contents
<1> USE DEF QueueInv
<1>1. Take /\ ~waiting /\ UNCHANGED <<waiting, signalled, booting, frames, tail>>
  BY DEF Dispatch, AwaitReset, Take, znpVars
<1>2. /\ head' \in Slots /\ count' \in 0 .. Size /\ popped' \in Frames
      /\ RingInv'
      /\ \A k \in 0 .. count - 2 : SlotOf(k)' = SlotOf(k + 1)
      /\ popped' = frames[SlotOf(0)]
      /\ Contents # <<>> /\ Contents' = Tail(Contents)
  BY <1>1, TakeRemovesFirst
<1>3. mode' \in Modes /\ indKept' \in BOOLEAN
  <2>1. CASE Dispatch
    BY <2>1 DEF Dispatch, znpVars, TypeOK
  <2>2. CASE AwaitReset
    BY <2>2 DEF AwaitReset, TypeOK, Modes
  <2>3. QED
    BY <2>1, <2>2
<1>4. TypeOK'
  BY <1>1, <1>2, <1>3 DEF TypeOK
<1>5. SleeperIsSignalled'
  BY <1>1 DEF SleeperIsSignalled
<1>6. AnswerStaysQueued'
  <2> SUFFICES ASSUME mode' # "dispatch", indKept'
               PROVE  \E k \in 0 .. count' - 1 : frames'[SlotOf(k)'] = ResetInd
    BY DEF AnswerStaysQueued
  <2>1. AwaitReset
    BY DEF Dispatch
  <2>2. indKept /\ popped' # ResetInd /\ mode # "dispatch"
    BY <2>1 DEF AwaitReset
  <2>3. PICK k \in 0 .. count - 1 : frames[SlotOf(k)] = ResetInd
    BY <2>2 DEF AnswerStaysQueued
  <2>4. count \in Nat /\ count' = count - 1 /\ k # 0
    BY <1>1, <1>2, <2>2, <2>3 DEF Take, TypeOK
  <2>5. k - 1 \in 0 .. count - 2 /\ (k - 1) + 1 = k
    BY <2>3, <2>4
  <2>6. SlotOf(k - 1)' = SlotOf(k)
    BY <1>2, <2>5
  <2>7. k - 1 \in 0 .. count' - 1
    BY <2>4, <2>5
  <2>8. frames'[SlotOf(k - 1)'] = ResetInd
    BY <1>1, <2>3, <2>6
  <2>9. (k - 1)' = k - 1
    OBVIOUS
  <2>10. QED
    BY <2>7, <2>8
<1>7. Fifo!Next
  BY <1>2 DEF Fifo!Next, Fifo!Dequeue
<1>8. QED
  BY <1>2, <1>4, <1>5, <1>6, <1>7

\* The steps that do not touch the ring.
LEMMA QuietKeepsQueue ==
  ASSUME QueueInv, UNCHANGED <<ringVars, indKept>>, TypeOK',
         SleeperIsSignalled', mode = "dispatch" /\ mode' # "dispatch" => ~indKept
  PROVE  QueueInv' /\ [Fifo!Next]_Contents
<1>1. RingInv' /\ UNCHANGED Contents
  BY DEF QueueInv, RingInv, SlotOf, ringVars, Contents
<1>2. AnswerStaysQueued'
  BY DEF QueueInv, AnswerStaysQueued, SlotOf, ringVars
<1>3. QED
  BY <1>1, <1>2 DEF QueueInv

LEMMA QueueInductive ==
  ASSUME QueueInv, [Next]_vars
  PROVE  QueueInv' /\ [Fifo!Next]_Contents
<1>1. CASE ReaderPushes
  <2>1. PICK f \in Areqs : Push(f)
    BY <1>1 DEF ReaderPushes
  <2>2. /\ f \in Frames /\ UNCHANGED <<waiting, mode, popped, indKept>>
        /\ booting' \in BOOLEAN /\ indKept' \in BOOLEAN
    BY <1>1 DEF ReaderPushes, Frames, znpVars, QueueInv, TypeOK
  <2>3. QED
    BY <2>1, <2>2, PushKeepsQueue
<1>2. CASE ResetIndArrives
  <2>1. /\ ResetInd \in Frames /\ Push(ResetInd) /\ booting' \in BOOLEAN
        /\ UNCHANGED <<waiting, mode, popped>>
    BY <1>2 DEF ResetIndArrives, Frames
  <2>2. indKept' = HasRoom
    BY <1>2 DEF ResetIndArrives
  <2>3. indKept' \in BOOLEAN
    BY <2>2 DEF HasRoom
  <2>4. indKept' => HasRoom
    BY <2>2, Zenon
  <2>5. QED
    BY <2>1, <2>3, <2>4, PushKeepsQueue
<1>3. CASE Dispatch \/ AwaitReset
  BY <1>3, TakeKeepsQueue
<1>4. CASE Block
  <2>1. /\ UNCHANGED <<ringVars, mode, popped, indKept, booting>> /\ count = 0
        /\ waiting' = TRUE /\ signalled' = FALSE
    BY <1>4 DEF Block, znpVars
  <2>2. TypeOK'
    BY <2>1 DEF QueueInv, TypeOK, ringVars
  <2>3. SleeperIsSignalled'
    <3>1. count' = 0
      BY <2>1 DEF ringVars
    <3>2. QED
      BY <3>1 DEF SleeperIsSignalled
  <2>4. QED
    BY <2>1, <2>2, <2>3, QuietKeepsQueue
<1>5. CASE Wake
  BY <1>5, QuietKeepsQueue DEF Wake, QueueInv, TypeOK, SleeperIsSignalled, ringVars, znpVars
<1>6. CASE PopTimesOut
  BY <1>6, QuietKeepsQueue DEF PopTimesOut, QueueInv, TypeOK, SleeperIsSignalled, ringVars, znpVars
<1>7. CASE ResetWrites
  <2>1. UNCHANGED <<ringVars, waiting, signalled, popped, indKept>> /\ mode = "cleared"
    BY <1>7 DEF ResetWrites
  <2>2. mode' \in Modes /\ booting' \in BOOLEAN
    BY <1>7 DEF ResetWrites, QueueInv, TypeOK, Modes
  <2>3. TypeOK' /\ SleeperIsSignalled'
    BY <2>1, <2>2 DEF QueueInv, TypeOK, SleeperIsSignalled, ringVars
  <2>4. QED
    BY <2>1, <2>3, QuietKeepsQueue
<1>8. CASE ResetDrains
  <2>1. /\ UNCHANGED <<ringVars, waiting, signalled, popped, indKept, booting>>
        /\ mode = "written" /\ mode' \in Modes
    BY <1>8 DEF ResetDrains, znpVars, Modes
  <2>2. TypeOK' /\ SleeperIsSignalled'
    BY <2>1 DEF QueueInv, TypeOK, SleeperIsSignalled, ringVars
  <2>3. QED
    BY <2>1, <2>2, QuietKeepsQueue
<1>9. CASE ResetGivesUp
  <2>1. /\ UNCHANGED <<ringVars, waiting, signalled, popped, indKept, booting>>
        /\ mode' = "dispatch" /\ mode' \in Modes
    BY <1>9 DEF ResetGivesUp, znpVars, Modes
  <2>2. TypeOK' /\ SleeperIsSignalled'
    BY <2>1 DEF QueueInv, TypeOK, SleeperIsSignalled, ringVars
  <2>3. QED
    BY <2>1, <2>2, QuietKeepsQueue
<1>10. CASE ResetClears
  <2>1. /\ UNCHANGED <<frames, waiting, signalled, popped, booting>> /\ Clear /\ ~waiting
        /\ mode' \in Modes /\ indKept' = FALSE
    BY <1>10 DEF ResetClears, Clear, Modes
  <2>2. /\ head' \in Slots /\ tail' \in Slots /\ count' \in 0 .. Size /\ count' = 0
        /\ RingInv' /\ Contents' = <<>>
    BY <2>1, ClearKeepsRing DEF QueueInv
  <2>3. TypeOK'
    BY <2>1, <2>2 DEF QueueInv, TypeOK
  <2>4. SleeperIsSignalled' /\ AnswerStaysQueued'
    BY <2>1 DEF SleeperIsSignalled, AnswerStaysQueued
  <2>5. [Fifo!Next]_Contents
    BY <2>2 DEF Fifo!Next, Fifo!Discard
  <2>6. QED
    BY <2>2, <2>3, <2>4, <2>5 DEF QueueInv
<1>11. CASE UNCHANGED vars
  BY <1>11, QuietKeepsQueue
     DEF vars, mainVars, znpVars, ringVars, QueueInv, TypeOK, SleeperIsSignalled
<1>12. QED
  BY <1>1, <1>2, <1>3, <1>4, <1>5, <1>6, <1>7, <1>8, <1>9, <1>10, <1>11
     DEF Next, MainStep

LEMMA QueueInitially == Init => QueueInv /\ Fifo!Init
<1> SUFFICES ASSUME Init PROVE QueueInv /\ Fifo!Init
  OBVIOUS
<1>1. Size \in Nat \ {0} /\ 0 \in Slots
  BY QueueAssumption DEF Slots
<1>2. TypeOK
  <2>1. frames \in [Slots -> Frames \cup {NoFrame}]
    BY DEF Init
  <2>2. head \in Slots /\ tail \in Slots /\ count \in 0 .. Size
    BY <1>1 DEF Init
  <2>3. waiting \in BOOLEAN /\ signalled \in BOOLEAN /\ booting \in BOOLEAN /\ indKept \in BOOLEAN
    BY DEF Init
  <2>4. mode \in Modes /\ popped \in Frames \cup {NoFrame}
    BY DEF Init, Modes
  <2>5. QED
    BY <2>1, <2>2, <2>3, <2>4 DEF TypeOK
<1>3. RingInv /\ Contents = <<>>
  BY <1>1 DEF Init, RingInv, SlotOf, Contents
<1>4. SleeperIsSignalled /\ AnswerStaysQueued
  BY DEF Init, SleeperIsSignalled, AnswerStaysQueued
<1>5. QED
  BY <1>2, <1>3, <1>4 DEF QueueInv, Fifo!Init

-----------------------------------------------------------------------------
\* The inductive invariant: the ring is well formed, the sleeper is signalled
\* when frames lie waiting, and a kept reset answer is still in the queue.
THEOREM QueueInvariant == Spec => []QueueInv
<1>1. Init => QueueInv
  BY QueueInitially
<1>2. QueueInv /\ [Next]_vars => QueueInv'
  BY QueueInductive
<1>3. QED
  BY <1>1, <1>2, PTL DEF Spec

\* The variables of EVENT_QUEUE_T stay in range for any EVENT_QUEUE_MAX.
THEOREM TypeCorrect == Spec => []TypeOK
<1>1. QueueInv => TypeOK
  BY DEF QueueInv
<1>2. QED
  BY <1>1, QueueInvariant, PTL

\* head, tail and count agree whatever mix of operations ran.
THEOREM RingWellFormed == Spec => []RingInv
<1>1. QueueInv => RingInv
  BY DEF QueueInv
<1>2. QED
  BY <1>1, QueueInvariant, PTL

\* Both together: what the run checks of the ring's state.
THEOREM QueueSound == Spec => []QueueIsSound
<1>1. TypeOK /\ RingInv => QueueIsSound
  BY DEF QueueIsSound
<1>2. QED
  BY <1>1, TypeCorrect, RingWellFormed, PTL

\* The condition variable of EventQueue_Pop misses no push.
THEOREM NoLostWakeup == Spec => []SleeperIsSignalled
<1>1. QueueInv => SleeperIsSignalled
  BY DEF QueueInv
<1>2. QED
  BY <1>1, QueueInvariant, PTL

\* ZNP_SysResetReq discards only what is not its answer.
THEOREM ResetAnswerKept == Spec => []AnswerStaysQueued
<1>1. QueueInv => AnswerStaysQueued
  BY DEF QueueInv
<1>2. QED
  BY <1>1, QueueInvariant, PTL

\* The ring buffer implements the bounded FIFO of FrameFifo.
THEOREM ImplementsFifo == Spec => FifoSpec
<1>1. Init => Fifo!Init
  BY QueueInitially
<1>2. QueueInv /\ [Next]_vars => [Fifo!Next]_Contents
  BY QueueInductive
<1>3. QED
  BY <1>1, <1>2, QueueInvariant, PTL DEF Spec, FifoSpec, Fifo!Spec


-----------------------------------------------------------------------------
(* The inbox. *)

\* The node a producer has filled holds an item.
FilledInv == \A p \in Producers : mine[p] # NULL => item[mine[p]] \in Items

MailIInv == M!MailInv /\ FilledInv

\* The list of nodes as facts about its ends.
LEMMA ChainEnds ==
  ASSUME M!MailInv
  PROVE  /\ chain \in Seq(Nodes) /\ Len(chain) \in Nat /\ length = Len(chain)
         /\ \A k \in 1 .. Len(chain) : chain[k] \in Nodes /\ chain[k] # NULL
         /\ chain = <<>> <=> Len(chain) = 0
         /\ first = NULL <=> chain = <<>>
         /\ last = NULL <=> chain = <<>>
         /\ chain # <<>> => first = chain[1] /\ last = chain[Len(chain)]
<1>1. chain \in Seq(Nodes)
  BY DEF M!MailInv, M!TypeOK
<1>2. Len(chain) \in Nat /\ (chain = <<>> <=> Len(chain) = 0)
  BY <1>1, EmptySeq
<1>3. \A k \in 1 .. Len(chain) : chain[k] \in Nodes /\ chain[k] # NULL
  BY <1>1, HeapAssumption, ElementOfSeq
<1>4. QED
  BY <1>1, <1>2, <1>3 DEF M!MailInv, M!ListInv

LEMMA MailInit ==
  ASSUME M!Init
  PROVE  MailIInv
<1>1. M!TypeOK
  BY EmptySeq DEF M!Init, M!TypeOK
<1>2. M!ListInv /\ M!HeapInv /\ M!WorkerIsSignalled /\ FilledInv
  BY EmptySeq DEF M!Init, M!ListInv, M!HeapInv, M!WorkerIsSignalled, FilledInv
<1>3. QED
  BY <1>1, <1>2 DEF MailIInv, M!MailInv

\* A fresh cell is none of the list's and none of a producer's.
LEMMA AllocNodeKeeps ==
  ASSUME MailIInv, NEW p \in Producers, M!AllocNode(p)
  PROVE  MailIInv' /\ UNCHANGED <<M!Contents, handling>>
<1>1. PICK i \in unposted, n \in Nodes \ allocated :
        /\ mine[p] = NULL
        /\ item' = [item EXCEPT ![n] = i]
        /\ next' = [next EXCEPT ![n] = NULL]
        /\ mine' = [mine EXCEPT ![p] = n]
        /\ allocated' = allocated \cup {n}
        /\ unposted' = unposted \ {i}
        /\ UNCHANGED <<first, last, length, chain, sleeping, woken, spent, handling>>
  BY DEF M!AllocNode, M!workerVars
<1>2. M!TypeOK /\ M!ListInv /\ M!HeapInv /\ M!WorkerIsSignalled /\ FilledInv
  BY DEF MailIInv, M!MailInv
<1>3. i \in Items /\ n # NULL
  BY <1>2, HeapAssumption DEF M!TypeOK
<1>4. M!TypeOK'
  BY <1>1, <1>2, <1>3 DEF M!TypeOK
<1>5. \A k \in 1 .. Len(chain) : chain[k] \in allocated /\ chain[k] # n
  BY <1>1, <1>2 DEF M!HeapInv
<1>6. \A k \in 1 .. Len(chain) : item'[chain[k]] = item[chain[k]] /\ next'[chain[k]] = next[chain[k]]
  BY <1>1, <1>2, <1>5 DEF M!TypeOK
<1>7. M!ListInv'
  BY <1>1, <1>2, <1>6 DEF M!ListInv
<1>8. M!HeapInv'
  <2>1. \A q \in Producers : mine'[q] = IF q = p THEN n ELSE mine[q]
    BY <1>1, <1>2 DEF M!TypeOK
  <2>2. \A k \in 1 .. Len(chain) :
          /\ chain[k] \in allocated' /\ chain[k] # spent
          /\ \A j \in 1 .. Len(chain) : chain[j] = chain[k] => j = k
          /\ \A q \in Producers : mine'[q] # chain[k]
    BY <1>1, <1>2, <1>5, <2>1 DEF M!HeapInv
  <2>3. spent # NULL => spent \in allocated'
    BY <1>1, <1>2 DEF M!HeapInv
  <2>4. spent # n
    BY <1>1, <1>2, <1>3 DEF M!HeapInv
  <2>5. \A q \in Producers \ {p} : mine[q] # n
    BY <1>1, <1>2, <1>3 DEF M!HeapInv
  <2>6. ASSUME NEW q \in Producers, mine'[q] # NULL
        PROVE  /\ mine'[q] \in allocated' /\ mine'[q] # spent /\ next'[mine'[q]] = NULL
               /\ \A r \in Producers : mine'[r] = mine'[q] => r = q
    <3>1. CASE q = p
      BY <1>1, <1>2, <2>1, <2>4, <2>5, <3>1 DEF M!TypeOK
    <3>2. CASE q # p
      BY <1>1, <1>2, <2>1, <2>5, <2>6, <3>2 DEF M!TypeOK, M!HeapInv
    <3>3. QED
      BY <3>1, <3>2
  <2>7. QED
    BY <1>1, <2>2, <2>3, <2>6 DEF M!HeapInv
<1>9. M!WorkerIsSignalled'
  BY <1>1, <1>2 DEF M!WorkerIsSignalled
<1>10. FilledInv'
  <2>1. ASSUME NEW q \in Producers, mine'[q] # NULL PROVE item'[mine'[q]] \in Items
    <3>1. CASE q = p
      BY <1>1, <1>2, <1>3, <3>1 DEF M!TypeOK
    <3>2. CASE q # p
      <4>1. mine'[q] = mine[q] /\ mine[q] \in allocated /\ mine[q] # n
        BY <1>1, <1>2, <2>1, <3>2 DEF M!TypeOK, M!HeapInv
      <4>2. QED
        BY <1>1, <1>2, <2>1, <4>1 DEF M!TypeOK, FilledInv
    <3>3. QED
      BY <3>1, <3>2
  <2>2. QED
    BY <2>1 DEF FilledInv
<1>11. UNCHANGED M!Contents
  BY <1>1, <1>6 DEF M!Contents
<1>12. QED
  BY <1>1, <1>4, <1>7, <1>8, <1>9, <1>10, <1>11 DEF MailIInv, M!MailInv

\* A linked node becomes the last of the list, its item the last of the inbox.
LEMMA LinkNodeKeeps ==
  ASSUME MailIInv, NEW p \in Producers, M!LinkNode(p)
  PROVE  /\ MailIInv' /\ UNCHANGED handling
         /\ \E i \in Items : M!Contents' = Append(M!Contents, i)
<1> DEFINE n == mine[p]
           L == Len(chain)
<1>1. M!TypeOK /\ M!ListInv /\ M!HeapInv /\ M!WorkerIsSignalled /\ FilledInv
  BY DEF MailIInv, M!MailInv
<1>2. /\ chain \in Seq(Nodes) /\ L \in Nat /\ length = L
      /\ \A k \in 1 .. L : chain[k] \in Nodes /\ chain[k] # NULL
      /\ chain = <<>> <=> L = 0
      /\ first = NULL <=> chain = <<>>
      /\ last = NULL <=> chain = <<>>
      /\ chain # <<>> => first = chain[1] /\ last = chain[L]
  BY ChainEnds DEF MailIInv
<1>3. /\ n # NULL /\ n \in Nodes /\ n \in allocated /\ n # spent /\ next[n] = NULL
      /\ item[n] \in Items
      /\ \A k \in 1 .. L : chain[k] # n
  BY <1>1 DEF M!LinkNode, M!TypeOK, M!HeapInv, FilledInv
<1>4. /\ last' = n /\ length' = length + 1 /\ woken' = sleeping
      /\ chain' = Append(chain, n) /\ mine' = [mine EXCEPT ![p] = NULL]
      /\ UNCHANGED <<item, allocated, unposted, sleeping, spent, handling>>
      /\ first' = IF last # NULL THEN first ELSE n
      /\ next' = IF last # NULL THEN [next EXCEPT ![last] = n] ELSE next
  BY DEF M!LinkNode
<1> HIDE DEF n
<1>5. /\ chain' \in Seq(Nodes) /\ Len(chain') = L + 1 /\ chain'[L + 1] = n
      /\ \A k \in 1 .. L : chain'[k] = chain[k]
  BY <1>2, <1>3, <1>4, AppendProperties
<1> HIDE DEF L
<1>6. first' \in Nodes /\ next' \in [Nodes -> Nodes \cup {NULL}]
  BY <1>1, <1>2, <1>3, <1>4 DEF M!TypeOK
<1>7. M!TypeOK'
  <2>1. length' \in Nat /\ woken' \in BOOLEAN /\ mine' \in [Producers -> Nodes \cup {NULL}]
    BY <1>1, <1>2, <1>4 DEF M!TypeOK
  <2>2. QED
    BY <1>1, <1>3, <1>4, <1>5, <1>6, <2>1 DEF M!TypeOK
<1>8. \A j, k \in 1 .. L : chain[j] = chain[k] => j = k
  BY <1>1 DEF M!HeapInv, L
<1>9. \A k \in 1 .. L + 1 : next'[chain'[k]] = IF k = L + 1 THEN NULL ELSE chain'[k + 1]
  <2>1. CASE L = 0
    BY <1>2, <1>3, <1>4, <1>5, <2>1
  <2>2. CASE L # 0
    <3>1. last = chain[L] /\ last # NULL /\ last \in Nodes /\ L \in 1 .. L
      BY <1>2, <2>2
    <3>2. \A m \in Nodes : next'[m] = IF m = last THEN n ELSE next[m]
      BY <1>1, <1>4, <3>1 DEF M!TypeOK
    <3>3. ASSUME NEW k \in 1 .. L PROVE next'[chain'[k]] = chain'[k + 1]
      <4>1. CASE k = L
        BY <1>2, <1>5, <3>1, <3>2, <4>1
      <4>2. CASE k # L
        <5>1. chain[k] # last /\ k + 1 \in 1 .. L
          BY <1>2, <1>8, <3>1, <4>2
        <5>2. next[chain[k]] = chain[k + 1]
          BY <1>1, <4>2 DEF M!ListInv, L
        <5>3. QED
          BY <1>2, <1>5, <3>2, <5>1, <5>2
      <4>3. QED
        BY <4>1, <4>2
    <3>4. next'[chain'[L + 1]] = NULL
      BY <1>3, <1>5, <3>1, <3>2
    <3>5. ASSUME NEW k \in 1 .. L + 1
          PROVE  next'[chain'[k]] = IF k = L + 1 THEN NULL ELSE chain'[k + 1]
      <4>1. CASE k = L + 1
        BY <3>4, <4>1
      <4>2. CASE k # L + 1
        <5>1. k \in 1 .. L
          BY <1>2, <4>2
        <5>2. QED
          BY <3>3, <4>2, <5>1
      <4>3. QED
        BY <4>1, <4>2
    <3>6. QED
      BY <3>5
  <2>3. QED
    BY <2>1, <2>2
<1>10. M!ListInv'
  <2>1. length' = Len(chain') /\ chain' # <<>>
    BY <1>2, <1>4, <1>5, EmptySeq
  <2>2. first' = chain'[1]
    BY <1>2, <1>4, <1>5
  <2>3. last' = chain'[Len(chain')]
    BY <1>4, <1>5
  <2>4. QED
    BY <1>5, <1>9, <2>1, <2>2, <2>3 DEF M!ListInv
<1>11. M!HeapInv'
  <2>1. \A q \in Producers : mine'[q] = IF q = p THEN NULL ELSE mine[q]
    BY <1>1, <1>4 DEF M!TypeOK
  <2>2. \A q \in Producers \ {p} : mine[q] # n
    BY <1>1, <1>3 DEF M!HeapInv, n
  <2>3. ASSUME NEW k \in 1 .. Len(chain')
        PROVE  /\ chain'[k] \in allocated /\ chain'[k] # spent
               /\ \A j \in 1 .. Len(chain') : chain'[j] = chain'[k] => j = k
               /\ \A q \in Producers : mine'[q] # chain'[k]
    <3>1. CASE k = L + 1
      BY <1>2, <1>3, <1>5, <2>1, <2>2, <3>1
    <3>2. CASE k \in 1 .. L
      <4>1. chain[k] \in allocated /\ chain[k] # spent /\ \A q \in Producers : mine[q] # chain[k]
        BY <1>1, <3>2 DEF M!HeapInv, L
      <4>2. \A j \in 1 .. Len(chain') : chain'[j] = chain'[k] => j = k
        BY <1>2, <1>3, <1>5, <1>8, <3>2
      <4>3. \A q \in Producers : mine'[q] # chain'[k]
        BY <1>2, <1>5, <2>1, <3>2, <4>1
      <4>4. QED
        BY <1>5, <3>2, <4>1, <4>2, <4>3
    <3>3. QED
      BY <1>2, <1>5, <3>1, <3>2
  <2>4. ASSUME NEW q \in Producers, mine'[q] # NULL
        PROVE  /\ mine'[q] \in allocated /\ mine'[q] # spent /\ next'[mine'[q]] = NULL
               /\ \A r \in Producers : mine'[r] = mine'[q] => r = q
    <3>1. /\ q # p /\ mine'[q] = mine[q] /\ mine[q] \in Nodes /\ mine[q] # NULL
          /\ mine[q] \in allocated /\ mine[q] # spent /\ next[mine[q]] = NULL
          /\ \A r \in Producers : mine[r] = mine[q] => r = q
      BY <1>1, <2>1, <2>4 DEF M!TypeOK, M!HeapInv
    <3>2. last # NULL => mine[q] # last
      BY <1>1, <1>2 DEF M!HeapInv, L
    <3>3. next'[mine[q]] = next[mine[q]]
      BY <1>1, <1>4, <3>1, <3>2 DEF M!TypeOK
    <3>4. QED
      BY <2>1, <2>4, <3>1, <3>3
  <2>5. spent # NULL => spent \in allocated
    BY <1>1 DEF M!HeapInv
  <2>6. QED
    BY <1>4, <2>3, <2>4, <2>5 DEF M!HeapInv
<1>12. M!WorkerIsSignalled' /\ FilledInv'
  BY <1>1, <1>4 DEF M!TypeOK, M!WorkerIsSignalled, FilledInv
<1>13. M!Contents' = Append(M!Contents, item[n])
  <2>1. /\ M!Contents \in Seq(Items \cup {NULL}) /\ Len(M!Contents) = L
        /\ \A k \in 1 .. L : M!Contents[k] = item[chain[k]]
    BY <1>1, <1>2 DEF M!Contents, M!TypeOK, L
  <2>2. /\ M!Contents' \in Seq(Items \cup {NULL}) /\ Len(M!Contents') = L + 1
        /\ \A k \in 1 .. L + 1 : M!Contents'[k] = item[chain'[k]]
    <3>1. M!Contents' = [k \in 1 .. L + 1 |-> item[chain'[k]]]
      BY <1>4, <1>5 DEF M!Contents
    <3>2. \A k \in 1 .. L + 1 : item[chain'[k]] \in Items \cup {NULL}
      BY <1>1, <1>2, <1>3, <1>5 DEF M!TypeOK
    <3>3. L + 1 \in Nat
      BY <1>2
    <3> HIDE DEF M!Contents
    <3>4. QED
      BY <3>1, <3>2, <3>3
  <2> HIDE DEF M!Contents
  <2>3. /\ Append(M!Contents, item[n]) \in Seq(Items \cup {NULL})
        /\ Len(Append(M!Contents, item[n])) = L + 1
        /\ \A k \in 1 .. L : Append(M!Contents, item[n])[k] = M!Contents[k]
        /\ Append(M!Contents, item[n])[L + 1] = item[n]
    BY <1>3, <2>1, AppendProperties
  <2>4. \A k \in 1 .. L + 1 : M!Contents'[k] = Append(M!Contents, item[n])[k]
    BY <1>2, <1>5, <2>1, <2>2, <2>3
  <2>5. QED
    BY <2>2, <2>3, <2>4, SeqEqual
<1>14. QED
  BY <1>3, <1>4, <1>7, <1>10, <1>11, <1>12, <1>13 DEF MailIInv, M!MailInv

\* The worker takes the first node and the oldest item.
LEMMA UnlinkHeadKeeps ==
  ASSUME MailIInv, M!UnlinkHead
  PROVE  /\ MailIInv' /\ handling = NULL /\ M!Contents # <<>>
         /\ handling' = Head(M!Contents) /\ M!Contents' = Tail(M!Contents)
<1> DEFINE L == Len(chain)
<1>1. M!TypeOK /\ M!ListInv /\ M!HeapInv /\ M!WorkerIsSignalled /\ FilledInv
  BY DEF MailIInv, M!MailInv
<1>2. /\ chain \in Seq(Nodes) /\ L \in Nat \ {0} /\ length = L /\ chain # <<>>
      /\ \A k \in 1 .. L : chain[k] \in Nodes /\ chain[k] # NULL
      /\ first = chain[1] /\ last = chain[L]
  BY ChainEnds DEF MailIInv, M!UnlinkHead
<1>3. /\ ~sleeping /\ handling = NULL /\ spent = NULL
      /\ spent' = chain[1] /\ handling' = item[chain[1]] /\ first' = next[chain[1]]
      /\ last' = (IF next[chain[1]] = NULL THEN NULL ELSE last)
      /\ length' = length - 1 /\ chain' = Tail(chain)
      /\ UNCHANGED <<item, next, allocated, mine, unposted, sleeping, woken>>
  BY <1>2 DEF M!UnlinkHead, M!Popping
<1>4. /\ chain' \in Seq(Nodes) /\ Len(chain') = L - 1
      /\ \A k \in 1 .. L - 1 : chain'[k] = chain[k + 1]
  BY <1>2, <1>3, HeadTailProperties
<1> HIDE DEF L
<1>5. \A k \in 1 .. L : next[chain[k]] = IF k = L THEN NULL ELSE chain[k + 1]
  BY <1>1 DEF M!ListInv, L
<1>6. M!TypeOK'
  <2>1. /\ spent' \in Nodes /\ handling' \in Items \cup {NULL} /\ first' \in Nodes \cup {NULL}
        /\ last' \in Nodes \cup {NULL} /\ length' \in Nat
    BY <1>1, <1>2, <1>3 DEF M!TypeOK
  <2>2. QED
    BY <1>1, <1>3, <1>4, <2>1 DEF M!TypeOK
<1>7. M!ListInv'
  <2>1. length' = Len(chain') /\ (chain' = <<>> <=> L = 1)
    <3>1. chain' = <<>> <=> Len(chain') = 0
      BY <1>4, EmptySeq
    <3>2. QED
      BY <1>2, <1>3, <1>4, <3>1
  <2>2. CASE L = 1
    <3>1. next[chain[1]] = NULL
      BY <1>2, <1>5, <2>2
    <3>2. first' = NULL /\ last' = NULL /\ chain' = <<>> /\ Len(chain') = 0
      BY <1>3, <1>4, <2>1, <2>2, <3>1
    <3>3. QED
      BY <2>1, <3>2 DEF M!ListInv
  <2>3. CASE L # 1
    <3>1. next[chain[1]] = chain[2] /\ chain[2] # NULL /\ chain' # <<>>
      BY <1>2, <1>5, <2>1, <2>3
    <3>2. first' = chain'[1] /\ last' = chain'[L - 1]
      BY <1>2, <1>3, <1>4, <2>3, <3>1
    <3>3. ASSUME NEW k \in 1 .. L - 1
          PROVE  next[chain'[k]] = IF k = L - 1 THEN NULL ELSE chain'[k + 1]
      <4>1. k + 1 \in 1 .. L /\ chain'[k] = chain[k + 1]
        BY <1>2, <1>4
      <4>2. k # L - 1 => k + 1 \in 1 .. L - 1 /\ chain'[k + 1] = chain[(k + 1) + 1]
        BY <1>2, <1>4
      <4>3. next[chain[k + 1]] = IF k + 1 = L THEN NULL ELSE chain[(k + 1) + 1]
        BY <1>5, <4>1
      <4>4. QED
        BY <1>2, <4>1, <4>2, <4>3
    <3>4. QED
      BY <1>3, <1>4, <2>1, <3>1, <3>2, <3>3 DEF M!ListInv
  <2>4. QED
    BY <2>2, <2>3
<1>8. M!HeapInv'
  <2>1. /\ chain[1] \in allocated
        /\ \A q \in Producers : mine[q] # chain[1]
        /\ \A k \in 1 .. L : /\ chain[k] \in allocated
                             /\ \A j \in 1 .. L : chain[j] = chain[k] => j = k
                             /\ \A q \in Producers : mine[q] # chain[k]
    BY <1>1, <1>2 DEF M!HeapInv, L
  <2>2. ASSUME NEW k \in 1 .. Len(chain')
        PROVE  /\ chain'[k] \in allocated /\ chain'[k] # spent'
               /\ \A j \in 1 .. Len(chain') : chain'[j] = chain'[k] => j = k
               /\ \A q \in Producers : mine[q] # chain'[k]
    <3>1. k \in 1 .. L - 1 /\ k + 1 \in 1 .. L /\ chain'[k] = chain[k + 1]
      BY <1>2, <1>4
    <3>2. chain[k + 1] # chain[1]
      BY <1>2, <2>1, <3>1
    <3>3. ASSUME NEW j \in 1 .. Len(chain'), chain'[j] = chain'[k] PROVE j = k
      <4>1. j + 1 \in 1 .. L /\ chain'[j] = chain[j + 1]
        BY <1>2, <1>4
      <4>2. j + 1 = k + 1
        BY <2>1, <3>1, <3>3, <4>1
      <4>3. QED
        BY <1>4, <1>2, <3>1, <4>2
    <3>4. QED
      BY <1>3, <2>1, <3>1, <3>2, <3>3
  <2>3. \A q \in Producers : mine[q] # NULL =>
          /\ mine[q] \in allocated /\ mine[q] # spent' /\ next[mine[q]] = NULL
          /\ \A r \in Producers : mine[r] = mine[q] => r = q
    BY <1>1, <1>3, <2>1 DEF M!HeapInv
  <2>4. QED
    BY <1>3, <2>1, <2>2, <2>3 DEF M!HeapInv
<1>9. M!WorkerIsSignalled' /\ FilledInv'
  BY <1>1, <1>3 DEF M!WorkerIsSignalled, FilledInv
<1>10. M!Contents # <<>> /\ Head(M!Contents) = item[chain[1]] /\ M!Contents' = Tail(M!Contents)
  <2>1. /\ M!Contents \in Seq(Items \cup {NULL}) /\ Len(M!Contents) = L
        /\ \A k \in 1 .. L : M!Contents[k] = item[chain[k]]
    BY <1>1, <1>2 DEF M!Contents, M!TypeOK, L
  <2>2. /\ M!Contents' \in Seq(Items \cup {NULL}) /\ Len(M!Contents') = L - 1
        /\ \A k \in 1 .. L - 1 : M!Contents'[k] = item[chain'[k]]
    <3>1. M!Contents' = [k \in 1 .. L - 1 |-> item[chain'[k]]]
      BY <1>3, <1>4 DEF M!Contents
    <3>2. \A k \in 1 .. L - 1 : item[chain'[k]] \in Items \cup {NULL}
      BY <1>1, <1>2, <1>4 DEF M!TypeOK
    <3>3. L - 1 \in Nat
      BY <1>2
    <3> HIDE DEF M!Contents
    <3>4. QED
      BY <3>1, <3>2, <3>3
  <2> HIDE DEF M!Contents
  <2>3. M!Contents # <<>> /\ Head(M!Contents) = item[chain[1]]
    BY <1>2, <2>1, EmptySeq
  <2>4. /\ Tail(M!Contents) \in Seq(Items \cup {NULL}) /\ Len(Tail(M!Contents)) = L - 1
        /\ \A k \in 1 .. L - 1 : Tail(M!Contents)[k] = M!Contents[k + 1]
    BY <2>1, <2>3, HeadTailProperties
  <2>5. ASSUME NEW k \in 1 .. L - 1 PROVE M!Contents'[k] = Tail(M!Contents)[k]
    <3>1. k + 1 \in 1 .. L
      BY <1>2
    <3>2. QED
      BY <1>4, <2>1, <2>2, <2>4, <3>1
  <2>6. QED
    BY <2>2, <2>3, <2>4, <2>5, SeqEqual
<1>11. QED
  BY <1>3, <1>6, <1>7, <1>8, <1>9, <1>10 DEF MailIInv, M!MailInv

\* The other steps of the worker, and a push that finds no memory.
LEMMA OtherMailSteps ==
  ASSUME MailIInv,
         \/ \E p \in Producers : M!AllocFails(p)
         \/ M!BlockOnEmpty \/ M!WakeUp \/ M!FreeNode \/ M!FinishItem
  PROVE  /\ MailIInv' /\ UNCHANGED M!Contents
         /\ handling' = handling \/ (handling # NULL /\ handling' = NULL)
<1>1. M!TypeOK /\ M!ListInv /\ M!HeapInv /\ M!WorkerIsSignalled /\ FilledInv
  BY DEF MailIInv, M!MailInv
<1>2. UNCHANGED <<item, next, first, last, length, chain, mine>>
  BY DEF M!AllocFails, M!BlockOnEmpty, M!WakeUp, M!FreeNode, M!FinishItem, M!listVars
<1>3. M!ListInv' /\ FilledInv' /\ UNCHANGED M!Contents
  BY <1>1, <1>2 DEF M!ListInv, FilledInv, M!Contents
<1>4. M!TypeOK'
  BY <1>1 DEF M!TypeOK, M!AllocFails, M!BlockOnEmpty, M!WakeUp, M!FreeNode, M!FinishItem,
              M!listVars, M!workerVars
<1>5. M!HeapInv'
  <2>1. CASE UNCHANGED <<allocated, spent>>
    BY <1>1, <1>2, <2>1 DEF M!HeapInv
  <2>2. CASE M!FreeNode
    <3>1. spent # NULL /\ allocated' = allocated \ {spent} /\ spent' = NULL
      BY <2>2 DEF M!FreeNode
    <3>2. \A k \in 1 .. Len(chain) : chain[k] \in allocated' /\ chain[k] # NULL
      BY <1>1, <3>1, ChainEnds DEF MailIInv, M!HeapInv
    <3>3. \A p \in Producers : mine[p] # NULL => mine[p] \in allocated'
      BY <1>1, <3>1 DEF M!HeapInv
    <3>4. QED
      BY <1>1, <1>2, <3>1, <3>2, <3>3 DEF M!HeapInv
  <2>3. QED
    BY <2>1, <2>2 DEF M!AllocFails, M!BlockOnEmpty, M!WakeUp, M!FinishItem, M!workerVars
<1>6. M!WorkerIsSignalled'
  BY <1>1, <1>2 DEF M!WorkerIsSignalled, M!AllocFails, M!BlockOnEmpty, M!WakeUp, M!FreeNode,
                    M!FinishItem, M!workerVars
<1>7. handling' = handling \/ (handling # NULL /\ handling' = NULL)
  BY DEF M!AllocFails, M!BlockOnEmpty, M!WakeUp, M!FreeNode, M!FinishItem, M!workerVars
<1>8. QED
  BY <1>3, <1>4, <1>5, <1>6, <1>7 DEF MailIInv, M!MailInv

\* Every step of the inbox is one of Mailbox, or changes nothing it shows.
LEMMA MailStep ==
  ASSUME MailIInv, M!Next \/ UNCHANGED mailVars
  PROVE  MailIInv' /\ [M!Inbox!Next]_<<M!Contents, handling>>
<1>1. ASSUME NEW p \in Producers, M!AllocNode(p) PROVE MailIInv' /\ UNCHANGED <<M!Contents, handling>>
  BY <1>1, AllocNodeKeeps
<1>2. ASSUME NEW p \in Producers, M!LinkNode(p) PROVE MailIInv' /\ M!Inbox!Next
  BY <1>2, LinkNodeKeeps DEF M!Inbox!Next, M!Inbox!Post
<1>3. CASE M!UnlinkHead
  BY <1>3, UnlinkHeadKeeps DEF M!Inbox!Next, M!Inbox!TakeOldest
<1>4. CASE \/ \E p \in Producers : M!AllocFails(p)
           \/ M!BlockOnEmpty \/ M!WakeUp \/ M!FreeNode \/ M!FinishItem
  BY <1>4, OtherMailSteps DEF M!Inbox!Next, M!Inbox!Finish
<1>5. CASE UNCHANGED mailVars
  BY <1>5 DEF mailVars, MailIInv, FilledInv, M!MailInv, M!TypeOK, M!ListInv, M!HeapInv,
              M!WorkerIsSignalled, M!Contents
<1>6. QED
  BY <1>1, <1>2, <1>3, <1>4, <1>5 DEF M!Next, M!Worker

\* The steps of a behaviour of MCShared, seen by the inbox.
LEMMA MailStepOfMC ==
  ASSUME MailIInv, [EventQueueNext \/ InboxNext \/ OfflineNext]_allVars
  PROVE  MailIInv' /\ [M!Inbox!Next]_<<M!Contents, handling>>
<1>1. M!Next \/ UNCHANGED mailVars
  BY DEF EventQueueNext, InboxNext, OfflineNext, allVars
<1>2. QED
  BY <1>1, MailStep

\* Whatever producers and worker are half way through, with cells of the heap
\* used again: the pointers spell out the pushes not yet popped, no cell has
\* two owners, and the worker does not sleep unsignalled on an item.
THEOREM MailSafety == MCSpec => []MailInv
<1>1. MCInit => MailIInv
  BY MailInit DEF MCInit
<1>2. MailIInv /\ [EventQueueNext \/ InboxNext \/ OfflineNext]_allVars => MailIInv'
  BY MailStepOfMC
<1>3. MailIInv => MailInv
  BY DEF MailIInv, MailInv
<1>4. QED
  BY <1>1, <1>2, <1>3, PTL DEF MCSpec

\* The linked list under its mutex is the inbox msg_queue.h promises: unbounded,
\* first in first out, each item handed out once.
THEOREM MailImplementsMailbox == MCSpec => InboxSpec
<1>1. MCInit => MailIInv
  BY MailInit DEF MCInit
<1>2. MCInit => M!Inbox!Init
  <2> SUFFICES ASSUME MCInit PROVE M!Inbox!Init
    OBVIOUS
  <2>1. Len(chain) = 0 /\ handling = NULL
    BY EmptySeq DEF MCInit, M!Init
  <2>2. M!Contents = <<>>
    BY <2>1 DEF M!Contents
  <2>3. QED
    BY <2>1, <2>2 DEF M!Inbox!Init
<1>3. /\ MailIInv /\ [EventQueueNext \/ InboxNext \/ OfflineNext]_allVars
      => MailIInv' /\ [M!Inbox!Next]_<<M!Contents, handling>>
  BY MailStepOfMC
<1>4. QED
  BY <1>1, <1>2, <1>3, PTL DEF MCSpec, InboxSpec, M!InboxSpec, M!Inbox!Spec

-----------------------------------------------------------------------------
(* The list of the devices that are offline. *)

\* The first n entries of l are the devices of S, each once.
Lists(l, n, S) ==
  /\ S = {l[j] : j \in 0 .. n - 1}
  /\ \A j, k \in 0 .. n - 1 : l[j] = l[k] => j = k

\* A device is being added after the n that are listed.
Adding(n) ==
  LET entry == [slot |-> n, value |-> changing]
      length1 == [num |-> n + 1]
  IN /\ changing \notin flagged
     /\ pending \subseteq {entry, length1}
     /\ Lists(list, n, flagged)
     /\ entry \notin pending => list[n] = changing
     /\ num = IF length1 \in pending THEN n ELSE n + 1

\* Entry i of n is being replaced by the last one, v.
Removing(n, i, v) ==
  LET entry == [slot |-> i, value |-> v]
      length1 == [num |-> n - 1]
      before == [list EXCEPT ![i] = changing]
  IN /\ changing \in flagged
     /\ pending \subseteq {entry, length1}
     /\ Lists(before, n, flagged) /\ before[n - 1] = v
     /\ list[i] = IF entry \in pending THEN changing ELSE v
     /\ num = IF length1 \in pending THEN n ELSE n - 1

\* What the main thread is half way through.
ChangeInv ==
  IF changing = Nothing
    THEN pending = {} /\ Lists(list, num, flagged)
    ELSE \/ \E n \in W!Slots : Adding(n)
         \/ \E n \in 1 .. Capacity : \E i \in 0 .. n - 1, v \in W!Devices : Removing(n, i, v)

\* A look-up that nothing disturbed has looked at the first i entries.
LookInv ==
  \A r \in Readers :
    LET l == looked[r] IN
      /\ l.at = "entry" => l.i < Capacity
      /\ l.at # "idle" /\ ~disturbed[r] =>
           /\ changing = Nothing /\ l.bound = num
           /\ l.at \in {"bound", "entry"} =>
                ~l.says /\ l.i <= num /\ \A j \in 0 .. l.i - 1 : list[j] # l.device
           /\ l.at = "entry" => l.i < num
           /\ l.at = "done" => l.says = (l.device \in flagged)

WatchIInv == W!TypeOK /\ ChangeInv /\ LookInv

\* A list of n devices, each once, is n devices.
LEMMA ListsCounts ==
  ASSUME NEW l, NEW n \in Nat, NEW S, Lists(l, n, S)
  PROVE  Cardinality(S) = n
<1> DEFINE f == [k \in 1 .. n |-> l[k - 1]]
<1>1. \A k \in 1 .. n : k - 1 \in 0 .. n - 1 /\ f[k] = l[k - 1]
  OBVIOUS
<1>2. \A k \in 1 .. n : f[k] \in S
  BY <1>1 DEF Lists
<1>3. f \in [1 .. n -> S]
  BY <1>2
<1>4. \A j, k \in 1 .. n : f[j] = f[k] => j = k
  BY <1>1 DEF Lists
<1>5. \A x \in S : \E k \in 1 .. n : f[k] = x
  <2>1. ASSUME NEW x \in S PROVE \E k \in 1 .. n : f[k] = x
    <3>1. PICK j \in 0 .. n - 1 : l[j] = x
      BY DEF Lists
    <3>2. j + 1 \in 1 .. n /\ f[j + 1] = x
      BY <3>1
    <3>3. QED
      BY <3>2
  <2>2. QED
    BY <2>1
<1> HIDE DEF f
<1>6. f \in Bijection(1 .. n, S)
  BY <1>3, <1>4, <1>5 DEF Bijection, Injection, Surjection, IsInjective
<1>7. QED
  BY <1>6, FS_CountingElements DEF ExistsBijection

\* Between two changes, a device is listed if and only if it is flagged.
LEMMA ListedIsFlagged ==
  ASSUME WatchIInv, changing = Nothing
  PROVE  /\ num \in 0 .. Capacity /\ Capacity \in Nat \ {0}
         /\ \A j \in 0 .. num - 1 : j \in W!Slots /\ list[j] \in flagged
         /\ \A d : W!IsListed(d) <=> d \in flagged
<1>1. Lists(list, num, flagged) /\ num \in 0 .. Capacity /\ Capacity \in Nat \ {0}
  BY WatchAssumption DEF WatchIInv, ChangeInv, W!TypeOK
<1>2. \A j \in W!Slots : j < num <=> j \in 0 .. num - 1
  BY <1>1 DEF W!Slots
<1>3. \A j \in 0 .. num - 1 : j \in W!Slots
  BY <1>1 DEF W!Slots
<1>4. QED
  BY <1>1, <1>2, <1>3 DEF Lists, W!IsListed

LEMMA WatchInit ==
  ASSUME W!Init
  PROVE  WatchIInv
<1>1. Capacity \in Nat \ {0} /\ MaxLookups \in Nat
  BY WatchAssumption
<1>2. W!TypeOK
  <2>1. list \in [W!Slots -> W!Devices \cup {Nothing}]
    BY DEF W!Init
  <2>2. /\ num \in 0 .. Capacity /\ lookups \in 0 .. MaxLookups
        /\ disturbed \in [Readers -> BOOLEAN]
    BY <1>1 DEF W!Init
  <2>3. W!Idle \in [at : {"idle", "bound", "entry", "done"}, device : Sirens \cup {Nothing},
                    i : 0 .. Capacity, bound : 0 .. Capacity, says : BOOLEAN]
    BY <1>1 DEF W!Idle
  <2>4. looked \in [Readers -> [at : {"idle", "bound", "entry", "done"},
                                device : Sirens \cup {Nothing}, i : 0 .. Capacity,
                                bound : 0 .. Capacity, says : BOOLEAN]]
    BY <2>3 DEF W!Init
  <2>5. /\ pending = {} /\ changing = Nothing
        /\ silent = {} /\ todo = {} /\ flagged = {}
    BY DEF W!Init
  <2>6. QED
    BY <2>1, <2>2, <2>4, <2>5 DEF W!TypeOK
<1>3. ChangeInv
  BY <1>1 DEF W!Init, ChangeInv, Lists
<1>4. LookInv
  BY DEF W!Init, W!Idle, LookInv
<1>5. QED
  BY <1>2, <1>3, <1>4 DEF WatchIInv

-----------------------------------------------------------------------------
(* The steps of the main thread. *)

\* While the list stays as it is, a look-up does; when it begins or ends to
\* change, every look-up is disturbed.
LEMMA LookFrame ==
  ASSUME WatchIInv, UNCHANGED looked,
         \/ UNCHANGED <<list, num, changing, flagged, disturbed>>
         \/ W!Disturb
         \/ changing # Nothing /\ UNCHANGED disturbed
  PROVE  LookInv'
<1>1. CASE UNCHANGED <<list, num, changing, flagged, disturbed>>
  BY <1>1 DEF WatchIInv, LookInv
<1>2. CASE W!Disturb
  BY <1>2 DEF WatchIInv, LookInv, W!Disturb
<1>3. CASE changing # Nothing /\ UNCHANGED disturbed
  BY <1>3 DEF WatchIInv, LookInv
<1>4. QED
  BY <1>1, <1>2, <1>3

\* What nobody stores stays half done.
LEMMA ChangeFrame ==
  ASSUME ChangeInv, UNCHANGED <<list, num, pending, changing, flagged>>
  PROVE  ChangeInv'
<1>1. CASE changing = Nothing
  BY <1>1 DEF ChangeInv, Lists
<1>2. CASE \E n \in W!Slots : Adding(n)
  <2>1. PICK n \in W!Slots : Adding(n)
    BY <1>2
  <2>2. Adding(n)' /\ changing # Nothing => ChangeInv'
    BY DEF ChangeInv
  <2>3. Adding(n)'
    BY <2>1 DEF Adding, Lists
  <2>4. QED
    BY <1>1, <2>2, <2>3
<1>3. CASE \E n \in 1 .. Capacity : \E i \in 0 .. n - 1, v \in W!Devices : Removing(n, i, v)
  <2>1. PICK n \in 1 .. Capacity : \E i \in 0 .. n - 1, v \in W!Devices : Removing(n, i, v)
    BY <1>3
  <2>2. PICK i \in 0 .. n - 1, v \in W!Devices : Removing(n, i, v)
    BY <2>1
  <2>3. Removing(n, i, v)'
    BY <2>2 DEF Removing, Lists
  <2>4. QED
    BY <1>1, <2>3 DEF ChangeInv
<1>4. QED
  BY <1>1, <1>2, <1>3 DEF ChangeInv

\* A device is silent, or the check begins: the list stays.
LEMMA SilenceKeeps ==
  ASSUME WatchIInv, (\E d \in W!Devices : W!FallSilent(d) \/ W!Discover(d)) \/ W!CheckBegins
  PROVE  WatchIInv'
<1>1. UNCHANGED <<list, num, pending, changing, flagged, looked, lookups, disturbed>>
  BY DEF W!FallSilent, W!Discover, W!CheckBegins, W!mainVars, W!readVars
<1>2. silent' \subseteq W!Devices /\ todo' \subseteq W!Devices
  BY DEF WatchIInv, W!TypeOK, W!FallSilent, W!Discover, W!CheckBegins, W!mainVars
<1>3. W!TypeOK'
  BY <1>1, <1>2 DEF WatchIInv, W!TypeOK
<1>4. ChangeInv'
  BY <1>1, ChangeFrame DEF WatchIInv
<1>5. LookInv'
  BY <1>1, LookFrame
<1>6. QED
  BY <1>3, <1>4, <1>5 DEF WatchIInv

LEMMA SetOfflineKeeps ==
  ASSUME WatchIInv, NEW d \in W!Devices, W!SetOffline(d)
  PROVE  WatchIInv'
<1>1. changing = Nothing /\ UNCHANGED <<list, num, silent, looked, lookups>>
  BY DEF W!SetOffline, W!MainIdle
<1>2. CASE ~W!IsListed(d) /\ num < Capacity
  <2>1. /\ changing' = d
        /\ pending' = {[slot |-> num, value |-> d], [num |-> num + 1]}
        /\ UNCHANGED <<todo, flagged>> /\ W!Disturb
    BY <1>2 DEF W!SetOffline
  <2>2. num \in W!Slots /\ num + 1 \in 0 .. Capacity
    BY <1>1, <1>2, ListedIsFlagged DEF W!Slots
  <2>3. pending' \subseteq [slot : W!Slots, value : W!Devices] \cup [num : 0 .. Capacity]
    BY <2>1, <2>2
  <2>4. disturbed' \in [Readers -> BOOLEAN]
    BY <2>1 DEF W!Disturb
  <2>5. W!TypeOK'
    BY <1>1, <2>1, <2>3, <2>4 DEF WatchIInv, W!TypeOK
  <2>6. ChangeInv'
    <3>1. d \notin flagged /\ d # Nothing
      BY <1>1, <1>2, ListedIsFlagged, WatchAssumption DEF W!Devices
    <3>2. Lists(list, num, flagged)
      BY <1>1 DEF WatchIInv, ChangeInv
    <3>3. Adding(num)'
      BY <1>1, <2>1, <3>1, <3>2 DEF Adding, Lists
    <3>4. \E n \in W!Slots : Adding(n)'
      BY <1>1, <2>1, <2>2, <3>1, <3>2 DEF Adding, Lists
    <3>5. QED
      BY <2>1, <3>1, <3>4 DEF ChangeInv
  <2>7. LookInv'
    BY <1>1, <2>1, LookFrame
  <2>8. QED
    BY <2>5, <2>6, <2>7 DEF WatchIInv
<1>3. CASE ~(~W!IsListed(d) /\ num < Capacity)
  <2>1. todo' = todo \ {d} /\ UNCHANGED <<changing, pending, flagged, disturbed>>
    BY <1>3 DEF W!SetOffline
  <2>2. W!TypeOK'
    BY <1>1, <2>1 DEF WatchIInv, W!TypeOK
  <2>3. ChangeInv'
    BY <1>1, <2>1 DEF WatchIInv, ChangeInv, Lists
  <2>4. LookInv'
    BY <1>1, <2>1, LookFrame
  <2>5. QED
    BY <2>2, <2>3, <2>4 DEF WatchIInv
<1>4. QED
  BY <1>2, <1>3

LEMMA SetOnlineKeeps ==
  ASSUME WatchIInv, NEW d \in W!Devices, W!SetOnline(d), silent' \in SUBSET silent
  PROVE  WatchIInv'
<1>1. /\ changing = Nothing /\ UNCHANGED <<list, num, todo, looked, lookups>>
      /\ silent' \subseteq silent
  BY DEF W!SetOnline, W!MainIdle
<1>2. CASE W!IsListed(d)
  <2>1. PICK i \in W!Slots :
          /\ i < num /\ list[i] = d
          /\ changing' = d
          /\ pending' = {[slot |-> i, value |-> list[num - 1]], [num |-> num - 1]}
          /\ UNCHANGED flagged /\ W!Disturb
    BY <1>2 DEF W!SetOnline
  <2>2. /\ num \in 0 .. Capacity /\ Capacity \in Nat \ {0}
        /\ \A j \in 0 .. num - 1 : list[j] \in flagged
        /\ d \in flagged
    BY <1>1, <1>2, ListedIsFlagged
  <2>3. num \in 1 .. Capacity /\ i \in 0 .. num - 1 /\ num - 1 \in 0 .. num - 1
    BY <2>1, <2>2 DEF W!Slots
  <2>4. list[num - 1] \in W!Devices
    BY <2>2, <2>3 DEF WatchIInv, W!TypeOK
  <2>5. pending' \subseteq [slot : W!Slots, value : W!Devices] \cup [num : 0 .. Capacity]
    BY <2>1, <2>2, <2>3, <2>4
  <2>6. disturbed' \in [Readers -> BOOLEAN]
    BY <2>1 DEF W!Disturb
  <2>7. W!TypeOK'
    BY <1>1, <2>1, <2>5, <2>6 DEF WatchIInv, W!TypeOK
  <2>8. ChangeInv'
    <3>1. Lists(list, num, flagged) /\ [list EXCEPT ![i] = d] = list
      BY <1>1, <2>1 DEF WatchIInv, ChangeInv, W!TypeOK
    <3>2. d # Nothing
      BY WatchAssumption DEF W!Devices
    <3>3. Removing(num, i, list[num - 1])'
      BY <1>1, <2>1, <2>2, <3>1 DEF Removing, Lists
    <3>4. \E n \in 1 .. Capacity : \E k \in 0 .. n - 1, v \in W!Devices : Removing(n, k, v)'
      <4>1. Removing(num, i, list[num - 1])' <=>
              \E n \in {num} : \E k \in {i}, v \in {list[num - 1]} : Removing(n, k, v)'
        BY <1>1 DEF Removing, Lists
      <4>2. QED
        BY <2>3, <2>4, <3>3, <4>1
    <3>5. QED
      BY <2>1, <3>2, <3>4 DEF ChangeInv
  <2>9. LookInv'
    BY <1>1, <2>1, LookFrame
  <2>10. QED
    BY <2>7, <2>8, <2>9 DEF WatchIInv
<1>3. CASE ~W!IsListed(d)
  <2>1. UNCHANGED <<changing, pending, flagged, disturbed>>
    BY <1>3 DEF W!SetOnline
  <2>2. W!TypeOK'
    BY <1>1, <2>1 DEF WatchIInv, W!TypeOK
  <2>3. ChangeInv'
    BY <1>1, <2>1 DEF WatchIInv, ChangeInv, Lists
  <2>4. LookInv'
    BY <1>1, <2>1, LookFrame
  <2>5. QED
    BY <2>2, <2>3, <2>4 DEF WatchIInv
<1>4. QED
  BY <1>2, <1>3

\* Storing one of the two words of a change leaves the change half done.
LEMMA StoreKeeps ==
  ASSUME WatchIInv, W!Store
  PROVE  WatchIInv'
<1>1. PICK s \in pending :
        /\ pending' = pending \ {s}
        /\ IF "num" \in DOMAIN s
             THEN num' = s.num /\ UNCHANGED list
             ELSE list' = [list EXCEPT ![s.slot] = s.value] /\ UNCHANGED num
  BY DEF W!Store
<1>2. UNCHANGED <<changing, todo, flagged, silent, looked, lookups, disturbed>>
  BY DEF W!Store, W!readVars
<1>3. W!TypeOK /\ ChangeInv /\ changing # Nothing /\ Capacity \in Nat \ {0}
  BY <1>1, WatchAssumption DEF WatchIInv, ChangeInv
<1>4. list \in [W!Slots -> W!Devices \cup {Nothing}] /\ changing \in W!Devices
  BY <1>3 DEF W!TypeOK
<1>5. ASSUME NEW i, NEW v, NEW n, s = [slot |-> i, value |-> v]
      PROVE  s # [num |-> n] /\ list' = [list EXCEPT ![i] = v] /\ num' = num
  <2>1. DOMAIN s = {"slot", "value"} /\ DOMAIN [num |-> n] = {"num"}
    BY <1>5
  <2>2. "num" \notin DOMAIN s
    BY <2>1
  <2>3. QED
    BY <1>1, <1>5, <2>1, <2>2
<1>6. ASSUME NEW n, s = [num |-> n]
      PROVE  num' = n /\ list' = list
  <2>1. "num" \in DOMAIN s
    BY <1>6
  <2>2. QED
    BY <1>1, <1>6, <2>1
<1>7. CASE \E n \in W!Slots : Adding(n)
  <2>1. PICK n \in W!Slots : Adding(n)
    BY <1>7
  <2> DEFINE entry == [slot |-> n, value |-> changing]
             length1 == [num |-> n + 1]
  <2>2. /\ changing \notin flagged
        /\ pending \subseteq {entry, length1}
        /\ Lists(list, n, flagged)
        /\ entry \notin pending => list[n] = changing
        /\ num = IF length1 \in pending THEN n ELSE n + 1
    BY <2>1 DEF Adding
  <2>3. n \in 0 .. Capacity - 1 /\ n + 1 \in 0 .. Capacity
    BY <1>3, <2>1 DEF W!Slots
  <2>4. s = entry => s # length1 /\ list' = [list EXCEPT ![n] = changing] /\ num' = num
    BY <1>5
  <2>5. s = length1 => num' = n + 1 /\ list' = list
    BY <1>6
  <2>6. (s = entry \/ s = length1) /\ pending' = pending \ {s} /\ s \in pending
    BY <1>1, <2>2
  <2> HIDE DEF entry, length1
  <2>7. /\ list' \in [W!Slots -> W!Devices \cup {Nothing}] /\ num' \in 0 .. Capacity
        /\ pending' \subseteq [slot : W!Slots, value : W!Devices] \cup [num : 0 .. Capacity]
    BY <1>3, <1>4, <2>3, <2>4, <2>5, <2>6 DEF W!TypeOK
  <2>8. W!TypeOK'
    BY <1>2, <1>3, <2>7 DEF W!TypeOK
  <2>9. \A j \in 0 .. n - 1 : list'[j] = list[j]
    <3>1. \A j \in 0 .. n - 1 : j \in W!Slots /\ j # n
      BY <1>3, <2>3 DEF W!Slots
    <3>2. QED
      BY <1>4, <2>4, <2>5, <2>6, <3>1
  <2>10. Lists(list', n, flagged)
    BY <2>2, <2>9 DEF Lists
  <2>11. /\ pending' \subseteq {entry, length1}
         /\ entry \notin pending' => list'[n] = changing
         /\ num' = IF length1 \in pending' THEN n ELSE n + 1
    <3>1. CASE s = entry
      BY <1>4, <2>1, <2>2, <2>4, <2>6, <3>1
    <3>2. CASE s = length1
      BY <2>2, <2>4, <2>5, <2>6, <3>2
    <3>3. QED
      BY <2>6, <3>1, <3>2
  <2>12. /\ changing' = changing /\ flagged' = flagged
         /\ entry = [slot |-> n, value |-> changing] /\ length1 = [num |-> n + 1]
    BY <1>2 DEF entry, length1
  <2>13. Adding(n)'
    BY <2>2, <2>10, <2>11, <2>12 DEF Adding, Lists
  <2>14. \E m \in W!Slots : Adding(m)'
    BY <2>1, <2>2, <2>10, <2>11, <2>12 DEF Adding, Lists
  <2>15. ChangeInv'
    BY <1>2, <1>3, <2>14 DEF ChangeInv
  <2>16. LookInv'
    BY <1>2, <1>3, LookFrame
  <2>17. QED
    BY <2>8, <2>15, <2>16 DEF WatchIInv
<1>8. CASE \E n \in 1 .. Capacity : \E i \in 0 .. n - 1, v \in W!Devices : Removing(n, i, v)
  <2>1. PICK n \in 1 .. Capacity : \E i \in 0 .. n - 1, v \in W!Devices : Removing(n, i, v)
    BY <1>8
  <2>2. PICK i \in 0 .. n - 1, v \in W!Devices : Removing(n, i, v)
    BY <2>1
  <2> DEFINE entry == [slot |-> i, value |-> v]
             length1 == [num |-> n - 1]
             before == [list EXCEPT ![i] = changing]
  <2>3. /\ changing \in flagged
        /\ pending \subseteq {entry, length1}
        /\ Lists(before, n, flagged) /\ before[n - 1] = v
        /\ list[i] = IF entry \in pending THEN changing ELSE v
        /\ num = IF length1 \in pending THEN n ELSE n - 1
    BY <2>2 DEF Removing
  <2>4. i \in W!Slots /\ n - 1 \in 0 .. Capacity /\ n \in 0 .. Capacity
    BY <1>3, <2>1, <2>2 DEF W!Slots
  <2>5. s = entry => s # length1 /\ list' = [list EXCEPT ![i] = v] /\ num' = num
    BY <1>5
  <2>6. s = length1 => num' = n - 1 /\ list' = list
    BY <1>6
  <2>7. (s = entry \/ s = length1) /\ pending' = pending \ {s} /\ s \in pending
    BY <1>1, <2>3
  <2> HIDE DEF entry, length1
  <2>8. /\ list' \in [W!Slots -> W!Devices \cup {Nothing}] /\ num' \in 0 .. Capacity
        /\ pending' \subseteq [slot : W!Slots, value : W!Devices] \cup [num : 0 .. Capacity]
    BY <1>3, <1>4, <2>2, <2>4, <2>5, <2>6, <2>7 DEF W!TypeOK
  <2>9. W!TypeOK'
    BY <1>2, <1>3, <2>8 DEF W!TypeOK
  <2>10. [list' EXCEPT ![i] = changing] = before
    BY <1>4, <2>4, <2>5, <2>6, <2>7
  <2>11. /\ pending' \subseteq {entry, length1}
         /\ list'[i] = IF entry \in pending' THEN changing ELSE v
         /\ num' = IF length1 \in pending' THEN n ELSE n - 1
    <3>1. CASE s = entry
      BY <1>4, <2>3, <2>4, <2>5, <2>7, <3>1
    <3>2. CASE s = length1
      BY <2>3, <2>5, <2>6, <2>7, <3>2
    <3>3. QED
      BY <2>7, <3>1, <3>2
  <2>12. /\ changing' = changing /\ flagged' = flagged
         /\ entry = [slot |-> i, value |-> v] /\ length1 = [num |-> n - 1]
    BY <1>2 DEF entry, length1
  <2>13. Removing(n, i, v)'
    <3>1. before = [list' EXCEPT ![i] = changing']
      BY <2>10, <2>12
    <3> HIDE DEF before
    <3>2. Lists(before, n, flagged') /\ before[n - 1] = v
      BY <2>3, <2>12
    <3>3. Lists([list EXCEPT ![i] = changing], n, flagged)' /\ [list EXCEPT ![i] = changing][n - 1]' = v
      BY <3>1, <3>2 DEF Lists
    <3>4. QED
      BY <2>3, <2>11, <2>12, <3>3 DEF Removing
  <2>14. \E m \in 1 .. Capacity : \E k \in 0 .. m - 1, u \in W!Devices : Removing(m, k, u)'
    BY <2>1, <2>2, <2>13
  <2>15. ChangeInv'
    BY <1>2, <1>3, <2>14 DEF ChangeInv
  <2>16. LookInv'
    BY <1>2, <1>3, LookFrame
  <2>17. QED
    BY <2>9, <2>15, <2>16 DEF WatchIInv
<1>9. QED
  BY <1>3, <1>7, <1>8 DEF ChangeInv

\* When both words are stored, the list is that of the devices flagged now.
LEMMA PostChangeKeeps ==
  ASSUME WatchIInv, W!PostChange
  PROVE  WatchIInv'
<1>1. /\ changing # Nothing /\ pending = {} /\ changing' = Nothing
      /\ flagged' = IF changing \in flagged THEN flagged \ {changing}
                                            ELSE flagged \cup {changing}
      /\ todo' = todo \ {changing} /\ W!Disturb
      /\ UNCHANGED <<list, num, pending, silent, looked, lookups>>
  BY DEF W!PostChange, W!MainIdle
<1>2. W!TypeOK /\ ChangeInv /\ Capacity \in Nat \ {0}
  BY WatchAssumption DEF WatchIInv
<1>3. W!TypeOK'
  <2>1. /\ disturbed' \in [Readers -> BOOLEAN] /\ flagged' \subseteq W!Devices
        /\ todo' \subseteq W!Devices
    BY <1>1, <1>2 DEF W!TypeOK, W!Disturb
  <2>2. QED
    BY <1>1, <1>2, <2>1 DEF W!TypeOK
<1>4. Lists(list, num, flagged')
  <2>1. CASE \E n \in W!Slots : Adding(n)
    <3>1. PICK n \in W!Slots : Adding(n)
      BY <2>1
    <3>2. /\ changing \notin flagged /\ Lists(list, n, flagged)
          /\ list[n] = changing /\ num = n + 1 /\ n \in Nat
      BY <1>1, <1>2, <3>1 DEF Adding, W!Slots
    <3>3. \A j : j \in 0 .. num - 1 <=> j \in 0 .. n - 1 \/ j = n
      BY <3>2
    <3>4. flagged' = {list[j] : j \in 0 .. num - 1}
      BY <1>1, <3>2, <3>3 DEF Lists
    <3>5. \A j, k \in 0 .. num - 1 : list[j] = list[k] => j = k
      BY <3>2, <3>3 DEF Lists
    <3>6. QED
      BY <3>4, <3>5 DEF Lists
  <2>2. CASE \E n \in 1 .. Capacity : \E i \in 0 .. n - 1, v \in W!Devices : Removing(n, i, v)
    <3>1. PICK n \in 1 .. Capacity : \E i \in 0 .. n - 1, v \in W!Devices : Removing(n, i, v)
      BY <2>2
    <3>2. PICK i \in 0 .. n - 1, v \in W!Devices : Removing(n, i, v)
      BY <3>1
    <3> DEFINE before == [list EXCEPT ![i] = changing]
    <3>3. /\ changing \in flagged /\ Lists(before, n, flagged)
          /\ before[n - 1] = list[i] /\ num = n - 1
      BY <1>1, <3>2 DEF Removing
    <3>4. /\ before[i] = changing
          /\ \A j \in 0 .. n - 1 : j # i => before[j] = list[j]
      <4>1. i \in W!Slots /\ \A j \in 0 .. n - 1 : j \in W!Slots
        BY <1>2, <3>1, <3>2 DEF W!Slots
      <4>2. QED
        BY <1>2, <4>1 DEF W!TypeOK
    <3>5. /\ flagged = {before[j] : j \in 0 .. n - 1}
          /\ \A j, k \in 0 .. n - 1 : before[j] = before[k] => j = k
      BY <3>3 DEF Lists
    <3> HIDE DEF before
    <3>6. n - 1 \in 0 .. n - 1 /\ \A j : j \in 0 .. n - 1 <=> j \in 0 .. num - 1 \/ j = n - 1
      BY <3>1, <3>3
    <3>7. \A j \in 0 .. num - 1 : list[j] = IF j = i THEN before[n - 1] ELSE before[j]
      BY <3>3, <3>4, <3>6
    <3>8. \A j \in 0 .. num - 1 : j # n - 1
      BY <3>1, <3>3
    <3>9. \A j, k \in 0 .. num - 1 : list[j] = list[k] => j = k
      BY <3>5, <3>6, <3>7, <3>8
    <3>10. \A j \in 0 .. num - 1 : list[j] \in flagged'
      <4>1. ASSUME NEW j \in 0 .. num - 1 PROVE list[j] \in flagged /\ list[j] # changing
        BY <3>2, <3>4, <3>5, <3>6, <3>7, <3>8
      <4>2. QED
        BY <1>1, <3>3, <4>1
    <3>11. ASSUME NEW d \in flagged' PROVE \E j \in 0 .. num - 1 : list[j] = d
      <4>1. d \in flagged /\ d # changing
        BY <1>1, <3>3
      <4>2. PICK j \in 0 .. n - 1 : before[j] = d
        BY <3>5, <4>1
      <4>3. j # i
        BY <3>4, <4>1, <4>2
      <4>4. CASE j = n - 1
        <5>1. i \in 0 .. num - 1 /\ list[i] = d
          BY <3>2, <3>3, <3>6, <4>2, <4>3, <4>4
        <5>2. QED
          BY <5>1
      <4>5. CASE j # n - 1
        BY <3>4, <3>6, <4>2, <4>3, <4>5
      <4>6. QED
        BY <4>4, <4>5
    <3>12. QED
      BY <3>9, <3>10, <3>11 DEF Lists
  <2>3. QED
    BY <1>1, <1>2, <2>1, <2>2 DEF ChangeInv
<1>5. ChangeInv'
  BY <1>1, <1>4 DEF ChangeInv, Lists
<1>6. LookInv'
  BY <1>1, LookFrame
<1>7. QED
  BY <1>3, <1>5, <1>6 DEF WatchIInv

-----------------------------------------------------------------------------
(* The steps of the threads that look a siren up. *)

\* LookInv of one look-up: where it is, and whether it was disturbed.
LookedRight(l, wasDisturbed) ==
  /\ l.at = "entry" => l.i < Capacity
  /\ l.at # "idle" /\ ~wasDisturbed =>
       /\ changing = Nothing /\ l.bound = num
       /\ l.at \in {"bound", "entry"} =>
            ~l.says /\ l.i <= num /\ \A j \in 0 .. l.i - 1 : list[j] # l.device
       /\ l.at = "entry" => l.i < num
       /\ l.at = "done" => l.says = (l.device \in flagged)

Look == [at : {"idle", "bound", "entry", "done"}, device : Sirens \cup {Nothing},
         i : 0 .. Capacity, bound : 0 .. Capacity, says : BOOLEAN]

\* A reader changes its own look-up and nothing else.
LEMMA ReaderFrame ==
  ASSUME WatchIInv, NEW r \in Readers, NEW l \in Look, NEW b \in BOOLEAN,
         UNCHANGED <<list, num, pending, changing, todo, flagged, silent>>,
         looked' = [looked EXCEPT ![r] = l], disturbed' = [disturbed EXCEPT ![r] = b],
         lookups' \in 0 .. MaxLookups,
         LookedRight(l, b)
  PROVE  WatchIInv'
<1>1. W!TypeOK /\ ChangeInv /\ LookInv
  BY DEF WatchIInv
<1>2. looked \in [Readers -> Look] /\ disturbed \in [Readers -> BOOLEAN]
  BY <1>1 DEF W!TypeOK, Look
<1>3. looked' \in [Readers -> Look] /\ disturbed' \in [Readers -> BOOLEAN]
  <2> HIDE DEF Look
  <2>1. QED
    BY <1>2
<1>4. W!TypeOK'
  BY <1>1, <1>3 DEF W!TypeOK, Look
<1>5. ChangeInv'
  BY <1>1, ChangeFrame
<1>6. LookInv'
  <2>1. ASSUME NEW q \in Readers PROVE LookedRight(looked'[q], disturbed'[q])
    <3>1. CASE q = r
      BY <1>2, <3>1
    <3>2. CASE q # r
      <4>1. looked'[q] = looked[q] /\ disturbed'[q] = disturbed[q]
        BY <1>2, <3>2
      <4>2. LookedRight(looked[q], disturbed[q])
        BY <1>1 DEF LookInv, LookedRight
      <4>3. QED
        BY <4>1, <4>2
    <3>3. QED
      BY <3>1, <3>2
  <2>2. QED
    BY <2>1 DEF LookInv, LookedRight
<1>7. QED
  BY <1>4, <1>5, <1>6 DEF WatchIInv

LEMMA ReaderKeeps ==
  ASSUME WatchIInv, NEW r \in Readers,
         \/ \E d \in Sirens : W!LookUp(r, d)
         \/ W!TestBound(r) \/ W!TestEntry(r) \/ W!Return(r)
  PROVE  WatchIInv'
<1> DEFINE l == looked[r]
           b == disturbed[r]
<1>1. W!TypeOK /\ ChangeInv /\ Capacity \in Nat \ {0} /\ MaxLookups \in Nat
  BY WatchAssumption DEF WatchIInv
<1>2. UNCHANGED <<list, num, pending, changing, todo, flagged, silent>>
  BY DEF W!LookUp, W!TestBound, W!TestEntry, W!Return, W!mainVars
<1>3. /\ l \in Look /\ b \in BOOLEAN /\ LookedRight(l, b)
      /\ num \in 0 .. Capacity /\ lookups \in 0 .. MaxLookups
      /\ disturbed = [disturbed EXCEPT ![r] = b]
  <2>1. looked \in [Readers -> Look]
    BY <1>1 DEF W!TypeOK, Look
  <2>2. LookedRight(l, b)
    BY DEF WatchIInv, LookInv, LookedRight
  <2>3. QED
    BY <1>1, <2>1, <2>2 DEF W!TypeOK
<1>4. /\ l.i \in 0 .. Capacity /\ l.bound \in 0 .. Capacity /\ l.says \in BOOLEAN
      /\ l.device \in Sirens \cup {Nothing}
  BY <1>3 DEF Look
<1>5. changing = Nothing =>
        /\ \A d : d \in flagged <=> \E j \in 0 .. num - 1 : list[j] = d
        /\ num \in 0 .. Capacity
  BY <1>1, <1>3 DEF ChangeInv, Lists
<1> HIDE DEF l, b
<1>6. CASE \E d \in Sirens : W!LookUp(r, d)
  <2>1. PICK d \in Sirens : W!LookUp(r, d)
    BY <1>6
  <2> DEFINE rec == [at |-> "bound", device |-> d, i |-> 0, bound |-> num, says |-> FALSE]
             busy == changing # Nothing
  <2>2. /\ looked' = [looked EXCEPT ![r] = rec] /\ disturbed' = [disturbed EXCEPT ![r] = busy]
        /\ lookups' \in 0 .. MaxLookups
    BY <1>1, <1>3, <2>1 DEF W!LookUp, W!Goto, W!MainIdle
  <2>3. rec \in Look
    BY <1>1, <1>3 DEF Look
  <2>4. LookedRight(rec, busy) /\ busy \in BOOLEAN
    BY <1>1, <1>3 DEF LookedRight
  <2> HIDE DEF rec, busy
  <2>5. QED
    BY <1>2, <2>2, <2>3, <2>4, ReaderFrame
<1>7. CASE W!TestBound(r)
  <2>1. PICK bound \in {l.bound, num} :
          looked' = [looked EXCEPT ![r] = [l EXCEPT !.at = IF l.i < bound THEN "entry" ELSE "done"]]
    BY <1>7 DEF W!TestBound, W!Goto, l
  <2>2. l.at = "bound" /\ UNCHANGED <<lookups, disturbed>>
    BY <1>7 DEF W!TestBound, l
  <2> DEFINE rec == [l EXCEPT !.at = IF l.i < bound THEN "entry" ELSE "done"]
  <2>3. /\ rec \in Look
        /\ rec.device = l.device /\ rec.i = l.i /\ rec.bound = l.bound /\ rec.says = l.says
        /\ rec.at = IF l.i < bound THEN "entry" ELSE "done"
    BY <1>3 DEF Look
  <2>4. bound \in 0 .. Capacity
    BY <1>3, <1>4
  <2> HIDE DEF rec
  <2>5. LookedRight(rec, b)
    <3>1. l.i < bound => rec.i < Capacity
      BY <1>1, <1>4, <2>3, <2>4
    <3>2. ASSUME ~b
          PROVE  /\ changing = Nothing /\ l.bound = num /\ bound = num
                 /\ ~l.says /\ l.i <= num /\ \A j \in 0 .. l.i - 1 : list[j] # l.device
      BY <1>3, <2>1, <2>2, <3>2 DEF LookedRight
    <3>3. ASSUME ~b, ~(l.i < bound)
          PROVE  rec.says = (rec.device \in flagged)
      <4>1. l.i = num
        BY <1>3, <1>4, <3>2, <3>3
      <4>2. l.device \notin flagged
        BY <1>5, <3>2, <3>3, <4>1
      <4>3. rec.says = FALSE /\ rec.device \notin flagged
        BY <1>4, <2>3, <3>2, <3>3, <4>2
      <4>4. (rec.device \in flagged) = FALSE
        BY <4>3
      <4>5. QED
        BY <4>3, <4>4
    <3>4. QED
      BY <2>3, <3>1, <3>2, <3>3 DEF LookedRight
  <2>6. QED
    BY <1>2, <1>3, <2>1, <2>2, <2>3, <2>5, ReaderFrame DEF rec
<1>8. CASE W!TestEntry(r)
  <2>1. l.at = "entry" /\ UNCHANGED <<lookups, disturbed>>
    BY <1>8 DEF W!TestEntry, l
  <2>2. l.i < Capacity
    BY <1>3, <2>1 DEF LookedRight
  <2>3. CASE list[l.i] = l.device
    <3> DEFINE rec == [l EXCEPT !.at = "done", !.says = TRUE]
    <3>1. looked' = [looked EXCEPT ![r] = rec]
      BY <1>8, <2>3 DEF W!TestEntry, W!Goto, l
    <3>2. /\ rec \in Look
          /\ rec.device = l.device /\ rec.bound = l.bound /\ rec.at = "done" /\ rec.says = TRUE
      BY <1>3 DEF Look
    <3> HIDE DEF rec
    <3>3. ~b => changing = Nothing /\ l.bound = num /\ l.i < num
      BY <1>3, <2>1 DEF LookedRight
    <3>4. ~b => l.device \in flagged
      BY <1>4, <1>5, <2>3, <3>3
    <3>5. ~b => rec.says = (rec.device \in flagged)
      BY <3>2, <3>4
    <3>6. LookedRight(rec, b)
      BY <3>2, <3>3, <3>5 DEF LookedRight
    <3>7. QED
      BY <1>2, <1>3, <2>1, <3>1, <3>2, <3>6, ReaderFrame
  <2>4. CASE list[l.i] # l.device
    <3> DEFINE rec == [l EXCEPT !.at = "bound", !.i = @ + 1]
    <3>1. looked' = [looked EXCEPT ![r] = rec]
      BY <1>8, <2>4 DEF W!TestEntry, W!Goto, l
    <3>2. l.i + 1 \in 0 .. Capacity
      BY <1>1, <1>4, <2>2
    <3>3. /\ rec \in Look
          /\ rec.device = l.device /\ rec.bound = l.bound /\ rec.at = "bound"
          /\ rec.says = l.says /\ rec.i = l.i + 1
      BY <1>3, <3>2 DEF Look
    <3> HIDE DEF rec
    <3>4. ASSUME ~b
          PROVE  /\ changing = Nothing /\ l.bound = num /\ ~l.says /\ l.i + 1 <= num
                 /\ \A j \in 0 .. (l.i + 1) - 1 : list[j] # l.device
      <4>1. /\ changing = Nothing /\ l.bound = num /\ ~l.says /\ l.i < num
            /\ \A j \in 0 .. l.i - 1 : list[j] # l.device
        BY <1>3, <2>1, <3>4 DEF LookedRight
      <4>2. \A j \in 0 .. (l.i + 1) - 1 : j \in 0 .. l.i - 1 \/ j = l.i
        BY <1>4
      <4>3. QED
        BY <1>3, <1>4, <2>4, <4>1, <4>2
    <3>5. LookedRight(rec, b)
      BY <3>3, <3>4 DEF LookedRight
    <3>6. QED
      BY <1>2, <1>3, <2>1, <3>1, <3>3, <3>5, ReaderFrame
  <2>5. QED
    BY <2>3, <2>4
<1>9. CASE W!Return(r)
  <2>1. looked' = [looked EXCEPT ![r] = W!Idle] /\ UNCHANGED <<lookups, disturbed>>
    BY <1>9 DEF W!Return, W!Goto
  <2>2. W!Idle \in Look /\ LookedRight(W!Idle, b)
    BY <1>1 DEF W!Idle, Look, LookedRight
  <2>3. QED
    BY <1>2, <1>3, <2>1, <2>2, ReaderFrame
<1>10. QED
  BY <1>6, <1>7, <1>8, <1>9

LEMMA WatchStep ==
  ASSUME WatchIInv, [EventQueueNext \/ InboxNext \/ OfflineNext]_allVars
  PROVE  WatchIInv'
<1>1. W!Next \/ UNCHANGED watchVars
  BY DEF EventQueueNext, InboxNext, OfflineNext, allVars
<1>2. CASE UNCHANGED watchVars
  <2>1. ChangeInv'
    BY <1>2, ChangeFrame DEF watchVars, WatchIInv
  <2>2. W!TypeOK' /\ LookInv'
    BY <1>2 DEF watchVars, WatchIInv, W!TypeOK, LookInv
  <2>3. QED
    BY <2>1, <2>2 DEF WatchIInv
<1>3. CASE \E d \in W!Devices :
             W!FallSilent(d) \/ W!HearFrom(d) \/ W!Announce(d) \/ W!Discover(d)
  BY <1>3, SilenceKeeps, SetOnlineKeeps DEF W!HearFrom, W!Announce
<1>4. CASE W!MainStep
  BY <1>4, SilenceKeeps, SetOfflineKeeps, StoreKeeps, PostChangeKeeps DEF W!MainStep
<1>5. CASE \/ \E r \in Readers, d \in Sirens : W!LookUp(r, d)
           \/ \E r \in Readers : W!TestBound(r) \/ W!TestEntry(r) \/ W!Return(r)
  <2>1. PICK r \in Readers : \/ \E d \in Sirens : W!LookUp(r, d)
                             \/ W!TestBound(r) \/ W!TestEntry(r) \/ W!Return(r)
    BY <1>5
  <2>2. QED
    BY <2>1, ReaderKeeps
<1>6. QED
  BY <1>1, <1>2, <1>3, <1>4, <1>5 DEF W!Next

LEMMA WatchIInvHolds ==
  ASSUME WatchIInv
  PROVE  WatchInv
<1>1. Capacity \in Nat \ {0} /\ num \in 0 .. Capacity
  BY WatchAssumption DEF WatchIInv, W!TypeOK
<1>2. W!ListInv
  <2>1. SUFFICES ASSUME changing = Nothing PROVE W!ListInv
    BY Zenon DEF W!ListInv, W!MainIdle
  <2>2. Lists(list, num, flagged)
    BY <2>1 DEF WatchIInv, ChangeInv
  <2>3. {j \in W!Slots : j < num} = 0 .. num - 1
    BY <1>1 DEF W!Slots
  <2>4. Cardinality(flagged) = num
    BY <1>1, <2>2, ListsCounts
  <2>5. flagged = {list[i] : i \in {j \in W!Slots : j < num}}
    BY <2>2, <2>3 DEF Lists
  <2>6. W!Cardinality(flagged) = Cardinality(flagged)
    BY Zenon DEF Cardinality, W!Cardinality
  <2>7. QED
    BY <2>4, <2>5, <2>6 DEF W!ListInv
<1>3. W!UndisturbedLookUpIsRight
  BY DEF WatchIInv, LookInv, W!UndisturbedLookUpIsRight
<1>4. QED
  BY <1>2, <1>3 DEF WatchIInv, WatchInv, W!WatchInv

\* The list every thread reads without a lock: between two changes it holds the
\* devices whose last event was UC_DEVICE_OFFLINE, each once, in whatever order
\* the two words of each change were stored; and a look-up that no change
\* disturbs is right.
THEOREM WatchSafety == MCSpec => []WatchInv
<1>1. MCInit => WatchIInv
  BY WatchInit DEF MCInit
<1>2. WatchIInv /\ [EventQueueNext \/ InboxNext \/ OfflineNext]_allVars => WatchIInv'
  BY WatchStep
<1>3. WatchIInv => WatchInv
  BY WatchIInvHolds
<1>4. QED
  BY <1>1, <1>2, <1>3, PTL DEF MCSpec

=============================================================================
