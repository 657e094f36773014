-------------------------- MODULE MCReports_proofs --------------------------
(***************************************************************************)
(* Proofs about what reaches the program from the ZNP and the sensors, for *)
(* any bounds: the serial line (FrameParser), on which, for buffers of any *)
(* size, any checksum and anything that comes down the line, no byte is    *)
(* thrown away and no frame is skipped; the start of the program           *)
(* (Startup), in which a wipe is asked for and the main loop gets a        *)
(* coordinator; and the events of the vibration sensors (VibrationAlarm),  *)
(* which tell their alarms.                                                *)
(***************************************************************************)
EXTENDS MCReports, SequenceTheorems, FiniteSetTheorems, TLAPS

-----------------------------------------------------------------------------
(* The serial line. *)

\* The buffer holds the last bytes that were read.
Base == nread - Len(parseBuf)
Window ==
  /\ Len(parseBuf) <= nread
  /\ \A k \in 1 .. Len(parseBuf) : parseBuf[k] = stream[Base + k]

IInv == ParserInv /\ Window /\ (stage # "scan" => idx = 0)

-----------------------------------------------------------------------------
(* Frames. *)

\* A function over 1 .. n is a sequence of length n.
LEMMA FunctionIsSeq ==
  ASSUME NEW T, NEW n \in Nat, NEW f \in [1 .. n -> T]
  PROVE  f \in Seq(T) /\ Len(f) = n
<1>1. f \in Seq(T)
  BY SeqDef
<1>2. 1 .. n = 1 .. Len(f) /\ Len(f) \in Nat
  BY <1>1, LenProperties
<1>3. Len(f) = n
  <2>1. CASE n = 0
    BY <1>2, <2>1
  <2>2. CASE n # 0
    <3>1. n \in 1 .. Len(f)
      BY <1>2, <2>2
    <3>2. Len(f) \in 1 .. n
      BY <1>2, <3>1
    <3>. QED BY <3>1, <3>2
  <2>. QED BY <2>1, <2>2
<1>. QED BY <1>1, <1>3

\* A frame is as long as its length byte says, and so is what is copied of it.
LEMMA FrameSize ==
  ASSUME NEW s \in Seq(Byte), NEW i \in Nat \ {0}, HasHeader(s, i)
  PROVE  /\ Size(s, i) \in 5 .. MaxFrame
         /\ IsWhole(s, i) => Body(s, i) \in Seq(Byte) /\ Len(Body(s, i)) = Size(s, i) - 2
<1>1. Size(s, i) \in 5 .. MaxFrame
  BY ParserAssumption DEF Size, Byte, MaxFrame, HasHeader
<1>2. ASSUME IsWhole(s, i)
      PROVE  Body(s, i) \in Seq(Byte) /\ Len(Body(s, i)) = Size(s, i) - 2
  <2>1. Size(s, i) - 2 \in Nat
    BY <1>1 DEF MaxFrame, Byte
  <2>2. \A k \in 1 .. Size(s, i) - 2 : s[i + k] \in Byte
    BY <1>1, <1>2 DEF IsWhole, MaxFrame
  <2>3. Body(s, i) \in [1 .. Size(s, i) - 2 -> Byte]
    BY <2>2 DEF Body
  <2>. QED BY <2>1, <2>3, FunctionIsSeq
<1>. QED BY <1>1, <1>2

\* What the scan sees in the buffer is what is in the stream.
LEMMA SeenIsSent ==
  ASSUME TypeOK, Window, NEW i \in 1 .. Len(parseBuf), HasHeader(parseBuf, i)
  PROVE  /\ Base + i \in 1 .. Len(stream) /\ HasHeader(stream, Base + i)
         /\ parseBuf[i] = stream[Base + i]
         /\ Size(stream, Base + i) = Size(parseBuf, i)
         /\ IsWhole(parseBuf, i) =>
              /\ IsWhole(stream, Base + i)
              /\ Body(stream, Base + i) = Body(parseBuf, i)
              /\ IsValid(stream, Base + i) <=> IsValid(parseBuf, i)
<1>. DEFINE b == Base + i
<1>0. parseBuf \in Seq(Byte) /\ stream \in Seq(Byte) /\ nread \in 0 .. Len(stream) /\ Base \in Nat
  BY DEF TypeOK, Window, Base
<1>1. b \in 1 .. Len(stream) /\ b \in Nat \ {0} /\ i \in Nat \ {0} /\ HasHeader(stream, b)
  BY <1>0 DEF HasHeader, Base
<1>2. parseBuf[i] = stream[b]
  BY DEF Window
<1>3. parseBuf[i + 1] = stream[b + 1]
  <2>1. i + 1 \in 1 .. Len(parseBuf) /\ Base + (i + 1) = b + 1
    BY <1>0 DEF HasHeader
  <2>. QED BY <2>1 DEF Window
<1>4. Size(stream, b) = Size(parseBuf, i) /\ Size(parseBuf, i) \in 5 .. MaxFrame
  BY <1>0, <1>1, <1>3, FrameSize DEF Size
<1>5. ASSUME IsWhole(parseBuf, i)
      PROVE  /\ IsWhole(stream, b) /\ Body(stream, b) = Body(parseBuf, i)
             /\ IsValid(stream, b) <=> IsValid(parseBuf, i)
  <2>1. Size(parseBuf, i) \in Nat /\ Size(parseBuf, i) >= 5
    BY <1>4 DEF MaxFrame
  <2>2. \A k \in 1 .. Size(parseBuf, i) - 1 : parseBuf[i + k] = stream[b + k]
    <3>1. TAKE k \in 1 .. Size(parseBuf, i) - 1
    <3>2. i + k \in 1 .. Len(parseBuf) /\ Base + (i + k) = b + k
      BY <1>0, <1>5, <2>1 DEF IsWhole
    <3>. QED BY <3>2 DEF Window
  <2>3. IsWhole(stream, b)
    BY <1>0, <1>1, <1>4, <1>5, <2>1 DEF IsWhole, Base
  <2>4. Body(stream, b) = Body(parseBuf, i)
    BY <1>4, <2>1, <2>2 DEF Body
  <2>5. parseBuf[i + Size(parseBuf, i) - 1] = stream[b + Size(parseBuf, i) - 1]
    <3>1. Size(parseBuf, i) - 1 \in 1 .. Size(parseBuf, i) - 1
      BY <2>1
    <3>2. parseBuf[i + (Size(parseBuf, i) - 1)] = stream[b + (Size(parseBuf, i) - 1)]
      BY <2>2, <3>1
    <3>3. /\ i + (Size(parseBuf, i) - 1) = i + Size(parseBuf, i) - 1
          /\ b + (Size(parseBuf, i) - 1) = b + Size(parseBuf, i) - 1
      BY <2>1, <1>1
    <3>. QED BY <3>2, <3>3
  <2>. QED BY <1>4, <2>3, <2>4, <2>5 DEF IsValid
<1>. QED BY <1>1, <1>2, <1>4, <1>5

\* The positions and lengths of the frames handed on are numbers.
LEMMA TakenType ==
  ASSUME TypeOK, NEW k \in DOMAIN taken
  PROVE  taken[k].at \in Nat /\ Len(taken[k].body) \in Nat
<1>. DEFINE Rec == [at : Nat \ {0}, body : Seq(Byte)]
<1>1. taken \in Seq(Rec)
  BY DEF TypeOK
<1>2. taken[k] \in Rec
  <2>. HIDE DEF Rec
  <2>1. DOMAIN taken = 1 .. Len(taken)
    BY <1>1, LenProperties
  <2>. QED BY <1>1, <2>1, ElementOfSeq
<1>3. taken[k].body \in Seq(Byte) /\ taken[k].at \in Nat
  BY <1>2
<1>. QED BY <1>3, LenProperties

-----------------------------------------------------------------------------
(* The invariant. *)

LEMMA ParserInit == Init => IInv
BY ParserAssumption DEF Init, IInv, ParserInv, TypeOK, NeverOverflows, NothingSkipped,
  TakenAreFrames, Window, Base, Scanned, MaxFrame, Byte

\* A scan that goes on at the next byte, because no frame begins here.
LEMMA SkipPreserves == ASSUME IInv, Skip PROVE IInv'
<1>. DEFINE i == idx + 1
<1>1. i \in 1 .. Len(parseBuf) /\ Base + i = Scanned + 1 /\ Scanned' = Scanned + 1
      /\ Scanned \in Nat /\ idx' \in 0 .. Len(parseBuf)
  <2>1. /\ nread \in Nat /\ Len(parseBuf) \in Nat /\ Len(parseBuf) <= nread
        /\ idx \in 0 .. Len(parseBuf)
    <3>1. parseBuf \in Seq(Byte) /\ stream \in Seq(Byte)
      BY DEF IInv, ParserInv, TypeOK
    <3>2. Len(parseBuf) \in Nat /\ Len(stream) \in Nat
      BY <3>1, LenProperties
    <3>3. QED
      BY <3>2 DEF IInv, ParserInv, TypeOK, Window
  <2>2. idx < Len(parseBuf) /\ idx' = idx + 1 /\ nread' = nread /\ parseBuf' = parseBuf
    BY DEF Skip, Scanning
  <2>3. QED
    BY <2>1, <2>2 DEF Base, Scanned
<1>2. ~IsFrame(Scanned + 1)
  <2>1. CASE ~IsStart
    <3>1. stream[Base + i] # SOF
      BY <1>1, <2>1 DEF IsStart, IInv, Window
    <3>. QED BY <1>1, <3>1 DEF IsFrame
  <2>2. CASE IsWhole(parseBuf, i) /\ ~IsValid(parseBuf, i)
    <3>1. ~IsValid(stream, Base + i)
      BY <1>1, <2>2, SeenIsSent DEF IInv, ParserInv, IsWhole
    <3>. QED BY <1>1, <3>1 DEF IsFrame
  <2>. QED BY <2>1, <2>2 DEF Skip
<1>3. TypeOK' /\ NeverOverflows' /\ Window' /\ (stage # "scan" => idx = 0)'
  BY <1>1 DEF IInv, ParserInv, TypeOK, NeverOverflows, Window, Base, Skip, Scanning
<1>4. NothingSkipped'
  <2>1. \A j \in 1 .. Scanned + 1 : j \in 1 .. Scanned \/ j = Scanned + 1
    BY <1>1
  <2>2. taken' = taken /\ (\A j : IsFrame(j)' <=> IsFrame(j))
    BY DEF Skip, IsFrame
  <2>. QED BY <1>1, <1>2, <2>1, <2>2 DEF IInv, ParserInv, NothingSkipped
<1>5. TakenAreFrames'
  <2>1. taken' = taken /\ stream' = stream /\ taken \in Seq([at : Nat \ {0}, body : Seq(Byte)])
    BY DEF Skip, IInv, ParserInv, TypeOK
  <2>2. ASSUME NEW k \in DOMAIN taken
        PROVE  taken[k].at + Len(taken[k].body) + 1 <= Scanned'
    <3>1. taken[k].at \in Nat /\ Len(taken[k].body) \in Nat
      BY TakenType DEF IInv, ParserInv
    <3>2. taken[k].at + Len(taken[k].body) + 1 <= Scanned
      BY DEF IInv, ParserInv, TakenAreFrames
    <3>. QED BY <1>1, <3>1, <3>2
  <2>. QED BY <2>1, <2>2 DEF IInv, ParserInv, TakenAreFrames, IsFrame
<1>. QED BY <1>3, <1>4, <1>5 DEF IInv, ParserInv

\* A frame is handed on.
LEMMA TakePreserves == ASSUME IInv, Take PROVE IInv'
<1>. DEFINE i == idx + 1
            size == Size(parseBuf, i)
            frame == [at |-> Scanned + 1, body |-> Body(parseBuf, i)]
<1>1. /\ i \in 1 .. Len(parseBuf) /\ i \in Nat \ {0} /\ parseBuf \in Seq(Byte)
      /\ HasHeader(parseBuf, i) /\ IsWhole(parseBuf, i)
      /\ Base + i = Scanned + 1 /\ Scanned \in Nat
  BY DEF IInv, ParserInv, TypeOK, Window, Base, Take, Scanning, Scanned, IsWhole
<1>2. size \in Nat /\ size >= 5 /\ Body(parseBuf, i) \in Seq(Byte)
      /\ Len(Body(parseBuf, i)) = size - 2
  BY <1>1, FrameSize DEF MaxFrame
<1>3. taken' = Append(taken, frame) /\ taken \in Seq([at : Nat \ {0}, body : Seq(Byte)])
      /\ frame \in [at : Nat \ {0}, body : Seq(Byte)]
  BY <1>1, <1>2 DEF Take, Scanned, IInv, ParserInv, TypeOK
<1>4. /\ taken' \in Seq([at : Nat \ {0}, body : Seq(Byte)])
      /\ Len(taken') = Len(taken) + 1 /\ Len(taken) \in Nat
      /\ \A k \in 1 .. Len(taken) : taken'[k] = taken[k]
      /\ taken'[Len(taken) + 1] = frame
      /\ DOMAIN taken = 1 .. Len(taken) /\ DOMAIN taken' = 1 .. Len(taken) + 1
  <2>. HIDE DEF frame
  <2>. QED BY <1>3, AppendProperties, LenProperties
<1>5. idx' = idx + size /\ idx' \in 0 .. Len(parseBuf) /\ Scanned' = Scanned + size
  <2>1. idx' = idx + size /\ nread' = nread /\ parseBuf' = parseBuf
    BY DEF Take
  <2>2. idx + 1 + size - 1 <= Len(parseBuf)
    BY <1>1 DEF IsWhole
  <2>3. /\ idx \in Nat /\ nread \in Nat /\ Len(parseBuf) \in Nat
        /\ Len(parseBuf) <= nread
    BY <1>1, LenProperties DEF IInv, ParserInv, TypeOK, Window
  <2>. HIDE DEF size
  <2>. QED BY <1>2, <2>1, <2>2, <2>3 DEF Scanned
<1>6. IsFrame(Scanned + 1) /\ Body(stream, Scanned + 1) = Body(parseBuf, i)
  <2>1. stream[Base + i] = SOF
    BY <1>1 DEF Take, IsStart, IInv, Window
  <2>. QED BY <1>1, <2>1, SeenIsSent DEF IInv, ParserInv, Take, IsFrame
<1>7. TypeOK' /\ NeverOverflows' /\ Window' /\ (stage # "scan" => idx = 0)'
  BY <1>4, <1>5 DEF IInv, ParserInv, TypeOK, NeverOverflows, Window, Base, Take, Scanning
<1>8. \A j : (IsFrame(j)' <=> IsFrame(j)) /\ Body(stream, j)' = Body(stream, j)
  BY DEF Take, IsFrame, Body, Size
<1>9. NothingSkipped'
  <2>1. SUFFICES ASSUME NEW j \in 1 .. Scanned + size, IsFrame(j)
                 PROVE  \E k \in DOMAIN taken' :
                          /\ taken'[k].at <= j
                          /\ j < taken'[k].at + Len(taken'[k].body) + 2
    BY <1>5, <1>8 DEF NothingSkipped
  <2>2. CASE j \in 1 .. Scanned
    <3>1. PICK k \in DOMAIN taken : taken[k].at <= j /\ j < taken[k].at + Len(taken[k].body) + 2
      BY <2>1, <2>2 DEF IInv, ParserInv, NothingSkipped
    <3>. QED BY <1>4, <3>1
  <2>3. CASE j \notin 1 .. Scanned
    <3>1. Scanned + 1 <= j /\ j < Scanned + 1 + (size - 2) + 2
      BY <1>1, <1>2, <2>3
    <3>2. Len(taken) + 1 \in DOMAIN taken'
      BY <1>4
    <3>3. /\ taken'[Len(taken) + 1].at = Scanned + 1
          /\ Len(taken'[Len(taken) + 1].body) = size - 2
      BY <1>2, <1>4
    <3>. QED BY <3>1, <3>2, <3>3
  <2>. QED BY <2>2, <2>3
<1>10. TakenAreFrames'
  <2>1. \A k \in DOMAIN taken' :
          /\ taken'[k].at + Len(taken'[k].body) + 1 <= Scanned'
          /\ IsFrame(taken'[k].at) /\ taken'[k].body = Body(stream, taken'[k].at)
    <3>1. TAKE k \in DOMAIN taken'
    <3>2. CASE k \in 1 .. Len(taken)
      <4>1. /\ taken[k].at + Len(taken[k].body) + 1 <= Scanned
            /\ IsFrame(taken[k].at) /\ taken[k].body = Body(stream, taken[k].at)
        BY <1>4, <3>2 DEF IInv, ParserInv, TakenAreFrames
      <4>2. taken[k].at \in Nat /\ Len(taken[k].body) \in Nat
        BY <1>4, <3>2, TakenType DEF IInv, ParserInv
      <4>3. taken'[k] = taken[k] /\ Scanned' = Scanned + size
        BY <1>4, <1>5, <3>2
      <4>4. taken[k].at + Len(taken[k].body) + 1 <= Scanned'
        BY <1>1, <1>2, <4>1, <4>2, <4>3
      <4>. QED BY <4>1, <4>3, <4>4
    <3>3. CASE k = Len(taken) + 1
      <4>1. taken'[k].at = Scanned + 1 /\ taken'[k].body = Body(parseBuf, i)
        BY <1>4, <3>3
      <4>. QED BY <1>1, <1>2, <1>5, <1>6, <4>1
    <3>. QED BY <1>4, <3>2, <3>3
  <2>2. \A j, k \in DOMAIN taken' :
          j < k => taken'[j].at + Len(taken'[j].body) + 1 < taken'[k].at
    <3>1. TAKE j, k \in DOMAIN taken'
    <3>2. HAVE j < k
    <3>3. j \in 1 .. Len(taken) /\ taken'[j] = taken[j]
      BY <1>4, <3>2
    <3>4. CASE k \in 1 .. Len(taken)
      BY <1>4, <3>2, <3>3, <3>4 DEF IInv, ParserInv, TakenAreFrames
    <3>5. CASE k = Len(taken) + 1
      <4>1. taken[j].at + Len(taken[j].body) + 1 <= Scanned
        BY <1>4, <3>3 DEF IInv, ParserInv, TakenAreFrames
      <4>2. taken[j].at \in Nat /\ Len(taken[j].body) \in Nat
        BY <1>4, <3>3, TakenType DEF IInv, ParserInv
      <4>3. taken'[k].at = Scanned + 1
        BY <1>4, <3>5
      <4>. QED BY <1>1, <3>3, <4>1, <4>2, <4>3
    <3>. QED BY <1>4, <3>4, <3>5
  <2>. QED BY <1>8, <2>1, <2>2 DEF TakenAreFrames, Take
<1>. QED BY <1>7, <1>9, <1>10 DEF IInv, ParserInv

\* What was scanned is dropped: what stays is less than a frame.
LEMMA KeepPreserves == ASSUME IInv, Keep PROVE IInv'
<1>1. /\ parseBuf \in Seq(Byte) /\ Len(parseBuf) \in Nat /\ idx \in 0 .. Len(parseBuf)
      /\ nread \in 0 .. Len(stream) /\ Len(parseBuf) <= nread /\ stream \in Seq(Byte)
  BY LenProperties DEF IInv, ParserInv, TypeOK, Window
<1>2. /\ parseBuf' \in Seq(Byte) /\ Len(parseBuf') = Len(parseBuf) - idx
      /\ \A k \in 1 .. Len(parseBuf') : parseBuf'[k] = parseBuf[idx + k]
  <2>1. \A k \in idx + 1 .. Len(parseBuf) : parseBuf[k] \in Byte
    BY <1>1
  <2>2. /\ parseBuf' \in Seq(Byte)
        /\ Len(parseBuf') = IF idx + 1 <= Len(parseBuf) THEN Len(parseBuf) - (idx + 1) + 1 ELSE 0
        /\ \A k \in 1 .. Len(parseBuf) - (idx + 1) + 1 : parseBuf'[k] = parseBuf[(idx + 1) + k - 1]
    BY <1>1, <2>1, SubSeqProperties DEF Keep
  <2>. QED BY <1>1, <2>2
<1>3. Len(parseBuf') < MaxFrame
  <2>1. CASE idx = Len(parseBuf)
    BY <1>1, <1>2, <2>1, ParserAssumption DEF MaxFrame
  <2>2. CASE Scanning /\ ~IsWhole(parseBuf, idx + 1)
    <3>1. CASE ~HasHeader(parseBuf, idx + 1)
      BY <1>1, <1>2, <3>1, ParserAssumption DEF HasHeader, MaxFrame
    <3>2. CASE HasHeader(parseBuf, idx + 1)
      <4>1. Size(parseBuf, idx + 1) \in 5 .. MaxFrame
        BY <1>1, <3>2, FrameSize
      <4>. QED BY <1>1, <1>2, <2>2, <3>2, <4>1, ParserAssumption DEF IsWhole, MaxFrame
    <3>. QED BY <3>1, <3>2
  <2>. QED BY <2>1, <2>2 DEF Keep
<1>4. Scanned' = Scanned /\ Base' = Base + idx
  <2>1. nread' = nread /\ idx' = 0
    BY DEF Keep
  <2>2. Len(parseBuf') = Len(parseBuf) - idx
    BY <1>2
  <2>. QED BY <1>1, <2>1, <2>2 DEF Scanned, Base
<1>5. TypeOK' /\ NeverOverflows' /\ (stage # "scan" => idx = 0)'
  BY <1>1, <1>2, <1>3, ParserAssumption
     DEF IInv, ParserInv, TypeOK, NeverOverflows, Keep, MaxFrame
<1>6. Window'
  <2>1. Len(parseBuf') <= nread'
    BY <1>1, <1>2 DEF Keep
  <2>2. ASSUME NEW k \in 1 .. Len(parseBuf')
        PROVE  parseBuf'[k] = stream'[Base' + k]
    <3>1. idx + k \in 1 .. Len(parseBuf) /\ Base + (idx + k) = Base' + k
      BY <1>1, <1>2, <1>4 DEF Base
    <3>. QED BY <1>2, <3>1 DEF IInv, Window, Keep
  <2>. QED BY <2>1, <2>2 DEF Window
<1>7. NothingSkipped' /\ TakenAreFrames'
  BY <1>4 DEF IInv, ParserInv, NothingSkipped, TakenAreFrames, Keep, IsFrame
<1>. QED BY <1>5, <1>6, <1>7 DEF IInv, ParserInv

\* What was read is appended; there is room for it.
LEMMA ReadPreserves == ASSUME IInv, NEW n \in 1 .. MaxRead, Read(n) PROVE IInv'
<1>. DEFINE chunk == SubSeq(stream, nread + 1, nread + n)
<1>1. /\ parseBuf \in Seq(Byte) /\ Len(parseBuf) \in Nat /\ idx = 0 /\ n \in Nat
      /\ nread \in Nat /\ nread + n <= Len(stream) /\ Len(stream) \in Nat
      /\ Len(parseBuf) <= nread /\ stream \in Seq(Byte)
  BY LenProperties, ParserAssumption DEF IInv, ParserInv, TypeOK, Window, Read
<1>2. /\ chunk \in Seq(Byte) /\ Len(chunk) = n
      /\ \A k \in 1 .. n : chunk[k] = stream[nread + k]
  <2>1. \A k \in nread + 1 .. nread + n : stream[k] \in Byte
    BY <1>1
  <2>2. /\ chunk \in Seq(Byte)
        /\ Len(chunk) = IF nread + 1 <= nread + n THEN (nread + n) - (nread + 1) + 1 ELSE 0
        /\ \A k \in 1 .. (nread + n) - (nread + 1) + 1 : chunk[k] = stream[(nread + 1) + k - 1]
    BY <1>1, <2>1, SubSeqProperties
  <2>3. nread + 1 <= nread + n /\ (nread + n) - (nread + 1) + 1 = n
    BY <1>1
  <2>4. \A k \in 1 .. n : (nread + 1) + k - 1 = nread + k
    BY <1>1
  <2>. HIDE DEF chunk
  <2>. QED BY <2>2, <2>3, <2>4
<1>3. parseBuf' = parseBuf \o chunk
  <2>1. Len(parseBuf) + n <= BufSize
    BY <1>1, ParserAssumption DEF IInv, ParserInv, NeverOverflows, Read
  <2>. QED BY <1>1, <2>1, ParserAssumption DEF Read
<1>. HIDE DEF chunk
<1>4. /\ parseBuf' \in Seq(Byte) /\ Len(parseBuf') = Len(parseBuf) + n
      /\ \A k \in 1 .. Len(parseBuf) + n :
           parseBuf'[k] = IF k <= Len(parseBuf) THEN parseBuf[k] ELSE chunk[k - Len(parseBuf)]
  <2>1. /\ parseBuf \o chunk \in Seq(Byte)
        /\ Len(parseBuf \o chunk) = Len(parseBuf) + Len(chunk)
        /\ \A k \in 1 .. Len(parseBuf) + Len(chunk) : (parseBuf \o chunk)[k] =
             IF k <= Len(parseBuf) THEN parseBuf[k] ELSE chunk[k - Len(parseBuf)]
    BY <1>1, <1>2, ConcatProperties
  <2>2. Len(chunk) = n
    BY <1>2
  <2>. QED BY <1>3, <2>1, <2>2
<1>5. Scanned' = Scanned /\ Base' = Base
  <2>1. nread' = nread + n /\ idx' = 0
    BY DEF Read
  <2>2. Len(parseBuf') = Len(parseBuf) + n
    BY <1>4
  <2>. QED BY <1>1, <2>1, <2>2 DEF Scanned, Base
<1>6. TypeOK' /\ NeverOverflows' /\ (stage # "scan" => idx = 0)'
  BY <1>1, <1>4 DEF IInv, ParserInv, TypeOK, NeverOverflows, Read
<1>7. Window'
  <2>1. Len(parseBuf') <= nread'
    BY <1>1, <1>4 DEF Read
  <2>2. ASSUME NEW k \in 1 .. Len(parseBuf')
        PROVE  parseBuf'[k] = stream'[Base' + k]
    <3>1. CASE k <= Len(parseBuf)
      BY <1>1, <1>4, <1>5, <2>2, <3>1 DEF IInv, Window, Read
    <3>2. CASE ~(k <= Len(parseBuf))
      <4>1. k - Len(parseBuf) \in 1 .. n /\ nread + (k - Len(parseBuf)) = Base + k
        BY <1>1, <1>4, <2>2, <3>2 DEF Base
      <4>. QED BY <1>2, <1>4, <1>5, <2>2, <3>2, <4>1 DEF Read
    <3>. QED BY <3>1, <3>2
  <2>. QED BY <2>1, <2>2 DEF Window
<1>8. NothingSkipped' /\ TakenAreFrames'
  BY <1>5 DEF IInv, ParserInv, NothingSkipped, TakenAreFrames, Read, IsFrame
<1>. QED BY <1>6, <1>7, <1>8 DEF IInv, ParserInv

LEMMA ParserStep == IInv /\ [Next]_vars => IInv'
<1>. SUFFICES ASSUME IInv, [Next]_vars PROVE IInv'
  OBVIOUS
<1>1. CASE \E n \in 1 .. MaxRead : Read(n)
  BY <1>1, ReadPreserves
<1>2. CASE PortFails
  BY <1>2 DEF PortFails, IInv, ParserInv, TypeOK, NeverOverflows, NothingSkipped,
     TakenAreFrames, Window, Base, Scanned, IsFrame
<1>3. CASE Skip
  BY <1>3, SkipPreserves
<1>4. CASE Take
  BY <1>4, TakePreserves
<1>5. CASE Keep
  BY <1>5, KeepPreserves
<1>6. CASE UNCHANGED vars
  BY <1>6 DEF vars, IInv, ParserInv, TypeOK, NeverOverflows, NothingSkipped,
     TakenAreFrames, Window, Base, Scanned, IsFrame
<1>. QED BY <1>1, <1>2, <1>3, <1>4, <1>5, <1>6 DEF Next

\* The inductive invariant: the buffer is a window of the stream, whose part
\* before the scan was searched for frames without a gap.
THEOREM ParserInvariant == Spec => []IInv
BY ParserInit, ParserStep, PTL DEF Spec

\* For every stream, however it is divided into reads: the buffer never overflows,
\* no valid frame is skipped, and what is handed on are frames of the stream.
THEOREM ParserSound == Spec => []ParserInv
<1>1. IInv => ParserInv
  BY DEF IInv
<1>. QED BY <1>1, ParserInvariant, PTL


-----------------------------------------------------------------------------
(* The start of the program. *)

Waits == {"resetWait", "wipeWait", "finalWait"}
BeforeStartup ==
  Waits \cup {"ping", "info", "reset", "arm", "wipe", "clear", "write", "final", "startup"}

\* Each network takes one ZDO_STARTUP_FROM_APP, and each start asks for one.
NetworksInv ==
  nets + (IF chip = "starting" THEN 1 ELSE 0) + (IF pc \in BeforeStartup THEN 1 ELSE 0)
    <= starts + 1

\* While a reset is on its way to a ZNP that is up or comes up, the program waits
\* for it, or has not reached the ZNP yet.
ResetInv ==
  pending /\ chip \in {"starting", "active"} => pc \in {"down", "ping"} \cup Waits

\* The indication of a reset that the program waits for is not older than the
\* reset, and the wipe that was armed is done.
IndicationInv ==
  pc \in Waits =>
    \A i \in 1 .. Len(events) :
      events[i] = "SYS_RESET_IND" =>
        /\ chip \in {"hold", "boots"}
        /\ \A j \in i .. Len(events) : events[j] = "SYS_RESET_IND"
        /\ pc = "wipeWait" /\ armed => net = 0

\* State 9 is that of this start.
NineInv ==
  /\ chip = "active" => net # 0
  /\ pc \in {"startup", "await"} =>
       \A i \in 1 .. Len(events) : events[i] = "STATE_9" => chip = "active"
  /\ pc \in {"register", "running"} => chip = "active"

\* The wipe flag is set between FN-1 and FN-3, and left set by nothing but a
\* start that was stopped there, or whose FN-3 was lost.
FlagInv ==
  /\ S!Wiping => wipeFlag
  /\ wipeFlag => S!Wiping \/ unclear

\* A wipe that was armed and confirmed leaves no network of before.
FreshInv ==
  /\ armed /\ confirmed => net = 0 \/ net > oldNets
  /\ pc \in {"ping", "info", "arm", "wipe", "wipeWait"} => ~confirmed
  /\ pc \in {"reset", "resetWait"} => ~forced

\* How far a factory-new sequence is in which nothing was lost.
Cleared == {"write", "final", "finalWait", "startup", "await", "recheck", "register", "running"}
CleanInv ==
  forced /\ ~faulty =>
    /\ pc \in Cleared \cup {"wipe", "wipeWait", "clear"} => armed
    /\ pc \in Cleared \cup {"clear"} => confirmed
    /\ pc \in Cleared => ~wipeFlag
    /\ pc \in {"ping", "info", "arm", "wipe", "wipeWait", "clear"} => written = 0
    /\ pc = "write" => \A i \in 1 .. written : S!ItemOrder[i] \in items
    /\ pc \in Cleared \ {"write"} => items = S!Items

StartupIInv ==
  /\ S!TypeOK /\ NetworksInv /\ ResetInv /\ IndicationInv
  /\ NineInv /\ FlagInv /\ FreshInv /\ CleanInv

\* The stages of a start, and the items it writes, one by one.
LEMMA StartupSets ==
  /\ S!Items = {"type", "params", "directCb"} /\ Len(S!ItemOrder) = 3
  /\ S!ItemOrder[1] = "type" /\ S!ItemOrder[2] = "params" /\ S!ItemOrder[3] = "directCb"
  /\ S!WaitOf["reset"] = "resetWait" /\ S!WaitOf["wipe"] = "wipeWait"
  /\ S!WaitOf["final"] = "finalWait"
  /\ S!AfterReset["reset"] = "startup" /\ S!AfterReset["wipe"] = "clear"
  /\ S!AfterReset["final"] = "startup"
  /\ S!Stages = Waits \cup BeforeStartup \cup {"down", "await", "recheck", "register", "running"}
<1>1. /\ Len(S!ItemOrder) = 3 /\ DOMAIN S!ItemOrder = {1, 2, 3}
      /\ S!ItemOrder[1] = "type" /\ S!ItemOrder[2] = "params" /\ S!ItemOrder[3] = "directCb"
  BY DEF S!ItemOrder
<1>2. S!Items = {"type", "params", "directCb"}
  BY <1>1 DEF S!Items
<1>3. /\ S!WaitOf["reset"] = "resetWait" /\ S!WaitOf["wipe"] = "wipeWait"
      /\ S!WaitOf["final"] = "finalWait"
  BY DEF S!WaitOf
<1>4. /\ S!AfterReset["reset"] = "startup" /\ S!AfterReset["wipe"] = "clear"
      /\ S!AfterReset["final"] = "startup"
  BY DEF S!AfterReset
<1>5. S!Stages = Waits \cup BeforeStartup \cup {"down", "await", "recheck", "register", "running"}
  BY <1>3 DEF S!Stages, S!ResetAt, Waits, BeforeStartup
<1>6. QED
  BY <1>1, <1>2, <1>3, <1>4, <1>5

LEMMA StartupInit ==
  ASSUME S!Init
  PROVE  StartupIInv
<1>1. MaxStarts \in Nat
  BY StartAssumption
<1>2. events = <<>> /\ Len(events) = 0
  BY DEF S!Init
<1>3. S!TypeOK
  <2>1. events \in Seq({"SYS_RESET_IND", "STATE_9"})
    BY <1>2
  <2>2. items \subseteq S!Items /\ net \in 0 .. nets /\ nets \in 1 .. MaxStarts + 1
    BY <1>1 DEF S!Init
  <2>3. pc \in S!Stages /\ written \in 0 .. Len(S!ItemOrder)
    BY StartupSets DEF S!Init
  <2>4. /\ chip \in {"boots", "hold", "starting", "active"} /\ oldNets \in 1 .. nets
        /\ starts \in 0 .. MaxStarts
    BY <1>1 DEF S!Init
  <2>5. /\ wipeFlag \in BOOLEAN /\ pending \in BOOLEAN /\ forced \in BOOLEAN /\ hard \in BOOLEAN
        /\ {faulty, armed, confirmed, unclear} \subseteq BOOLEAN
    BY DEF S!Init
  <2>6. QED
    BY <2>1, <2>2, <2>3, <2>4, <2>5 DEF S!TypeOK
<1>4. NetworksInv /\ ResetInv /\ IndicationInv
  BY <1>2 DEF S!Init, NetworksInv, ResetInv, IndicationInv, BeforeStartup, Waits
<1>5. NineInv /\ FlagInv
  BY <1>2 DEF S!Init, NineInv, FlagInv, S!Wiping
<1>6. FreshInv /\ CleanInv
  BY DEF S!Init, FreshInv, CleanInv, Cleared
<1>7. QED
  BY <1>3, <1>4, <1>5, <1>6 DEF StartupIInv

-----------------------------------------------------------------------------
(* The steps of the ZNP. *)

LEMMA TakeResetKeeps ==
  ASSUME StartupIInv, S!TakeReset
  PROVE  StartupIInv'
<1>1. /\ pending /\ pending' = FALSE /\ chip' = "boots"
      /\ UNCHANGED <<wipeFlag, items, net, nets, events, pc, forced, hard, written, faulty,
                     armed, confirmed, unclear, starts, oldNets>>
  BY DEF S!TakeReset, S!progVars, S!histVars, S!startVars
<1>2. S!TypeOK'
  BY <1>1 DEF StartupIInv, S!TypeOK
<1>3. NetworksInv' /\ ResetInv'
  BY <1>1 DEF StartupIInv, S!TypeOK, NetworksInv, ResetInv
<1>4. IndicationInv' /\ FlagInv' /\ FreshInv' /\ CleanInv'
  BY <1>1 DEF StartupIInv, IndicationInv, FlagInv, S!Wiping, FreshInv, CleanInv
<1>5. NineInv'
  BY <1>1 DEF StartupIInv, NineInv, ResetInv, Waits
<1>6. QED
  BY <1>2, <1>3, <1>4, <1>5 DEF StartupIInv

\* What a longer queue of events is.
LEMMA EventsAppended ==
  ASSUME S!TypeOK, NEW e \in {"SYS_RESET_IND", "STATE_9"}, events' = Append(events, e)
  PROVE  /\ events' \in Seq({"SYS_RESET_IND", "STATE_9"})
         /\ Len(events) \in Nat /\ Len(events') = Len(events) + 1
         /\ \A i \in 1 .. Len(events) : events'[i] = events[i]
         /\ events'[Len(events) + 1] = e
BY AppendProperties DEF S!TypeOK

LEMMA BootKeeps ==
  ASSUME StartupIInv, S!Boot
  PROVE  StartupIInv'
<1>1. /\ chip = "boots" /\ chip' = "hold"
      /\ items' = (IF wipeFlag THEN {} ELSE items)
      /\ net' = IF wipeFlag THEN 0 ELSE net
      /\ \/ events' = Append(events, "SYS_RESET_IND") /\ UNCHANGED faulty
         \/ faulty' = TRUE /\ UNCHANGED events
      /\ UNCHANGED <<wipeFlag, pending, nets, pc, forced, hard, written, armed, confirmed,
                     unclear, starts, oldNets>>
  BY DEF S!Boot, S!progVars, S!histVars, S!startVars
<1>2. S!TypeOK /\ NetworksInv /\ ResetInv /\ IndicationInv /\ NineInv /\ FlagInv /\ FreshInv /\ CleanInv
  BY DEF StartupIInv
<1>3. /\ events' \in Seq({"SYS_RESET_IND", "STATE_9"}) /\ Len(events) \in Nat
      /\ Len(events') \in {Len(events), Len(events) + 1}
      /\ \A i \in 1 .. Len(events) : events'[i] = events[i]
      /\ Len(events') = Len(events) + 1 => events'[Len(events) + 1] = "SYS_RESET_IND"
  <2>1. CASE events' = Append(events, "SYS_RESET_IND")
    BY <1>2, <2>1, EventsAppended
  <2>2. CASE events' = events
    BY <1>2, <2>2 DEF S!TypeOK
  <2>3. QED
    BY <1>1, <2>1, <2>2
<1>4. S!TypeOK'
  <2>1. items' \subseteq S!Items /\ net' \in 0 .. nets'
    BY <1>1, <1>2 DEF S!TypeOK
  <2>2. faulty' \in BOOLEAN
    BY <1>1, <1>2 DEF S!TypeOK
  <2>3. QED
    BY <1>1, <1>2, <1>3, <2>1, <2>2 DEF S!TypeOK
<1>5. NetworksInv' /\ ResetInv'
  BY <1>1, <1>2 DEF S!TypeOK, NetworksInv, ResetInv
<1>6. IndicationInv'
  <2>1. \A i \in 1 .. Len(events') : i \in 1 .. Len(events) \/ i = Len(events')
    BY <1>3
  <2>2. armed /\ pc = "wipeWait" => net' = 0
    BY <1>1, <1>2 DEF FlagInv, S!Wiping
  <2>3. QED
    BY <1>1, <1>2, <1>3, <2>1, <2>2 DEF IndicationInv
<1>7. NineInv'
  <2>1. \A i \in 1 .. Len(events') : i \in 1 .. Len(events) \/ events'[i] = "SYS_RESET_IND"
    BY <1>3
  <2>2. QED
    BY <1>1, <1>2, <1>3, <2>1 DEF NineInv
<1>8. FlagInv' /\ FreshInv'
  BY <1>1, <1>2 DEF FlagInv, S!Wiping, FreshInv
<1>9. CleanInv'
  BY <1>1, <1>2 DEF CleanInv, Cleared
<1>10. QED
  BY <1>4, <1>5, <1>6, <1>7, <1>8, <1>9 DEF StartupIInv

LEMMA StartNetworkKeeps ==
  ASSUME StartupIInv, S!StartNetwork
  PROVE  StartupIInv'
<1>1. /\ chip = "starting" /\ chip' = "active"
      /\ net' = (IF net = 0 THEN nets + 1 ELSE net)
      /\ nets' = IF net = 0 THEN nets + 1 ELSE nets
      /\ \/ events' = Append(events, "STATE_9") /\ UNCHANGED faulty
         \/ faulty' = TRUE /\ UNCHANGED events
      /\ UNCHANGED <<wipeFlag, items, pending, pc, forced, hard, written, armed, confirmed,
                     unclear, starts, oldNets>>
  BY DEF S!StartNetwork, S!progVars, S!histVars, S!startVars
<1>2. S!TypeOK /\ NetworksInv /\ ResetInv /\ IndicationInv /\ NineInv /\ FlagInv /\ FreshInv /\ CleanInv
  BY DEF StartupIInv
<1>3. /\ events' \in Seq({"SYS_RESET_IND", "STATE_9"}) /\ Len(events) \in Nat
      /\ Len(events') \in {Len(events), Len(events) + 1}
      /\ \A i \in 1 .. Len(events) : events'[i] = events[i]
      /\ Len(events') = Len(events) + 1 => events'[Len(events) + 1] = "STATE_9"
  <2>1. CASE events' = Append(events, "STATE_9")
    BY <1>2, <2>1, EventsAppended
  <2>2. CASE events' = events
    BY <1>2, <2>2 DEF S!TypeOK
  <2>3. QED
    BY <1>1, <2>1, <2>2
<1>4. net' \in 1 .. nets' /\ nets' \in 1 .. MaxStarts + 1 /\ NetworksInv'
  BY <1>1, <1>2, StartAssumption DEF S!TypeOK, NetworksInv
<1>5. S!TypeOK'
  <2>1. oldNets \in 1 .. nets'
    BY <1>1, <1>2, <1>4 DEF S!TypeOK
  <2>2. faulty' \in BOOLEAN
    BY <1>1, <1>2 DEF S!TypeOK
  <2>3. QED
    BY <1>1, <1>2, <1>3, <1>4, <2>1, <2>2 DEF S!TypeOK
<1>6. ResetInv' /\ FlagInv'
  BY <1>1, <1>2 DEF ResetInv, FlagInv, S!Wiping
<1>7. IndicationInv'
  <2>1. \A i \in 1 .. Len(events') : i \in 1 .. Len(events) \/ events'[i] = "STATE_9"
    BY <1>3
  <2>2. pc \in Waits => \A i \in 1 .. Len(events) : events[i] # "SYS_RESET_IND"
    BY <1>1, <1>2 DEF IndicationInv
  <2>3. QED
    BY <1>1, <1>3, <2>1, <2>2 DEF IndicationInv
<1>8. NineInv'
  BY <1>1, <1>2, <1>4 DEF NineInv
<1>9. FreshInv'
  BY <1>1, <1>2 DEF S!TypeOK, FreshInv
<1>10. CleanInv'
  BY <1>1, <1>2 DEF CleanInv
<1>11. QED
  BY <1>4, <1>5, <1>6, <1>7, <1>8, <1>9, <1>10 DEF StartupIInv

-----------------------------------------------------------------------------
(* The steps of the program. *)

\* No request is answered before a reset that is on its way is executed.
LEMMA OutcomeFacts ==
  ASSUME S!TypeOK, NEW outcome \in S!Outcomes, S!Note(outcome)
  PROVE  /\ outcome \in {"answered", "unanswered", "lost"}
         /\ outcome # "lost" => ~pending /\ chip # "boots"
         /\ faulty' \in BOOLEAN
         /\ ~faulty' => ~faulty /\ outcome = "answered"
<1>1. /\ outcome \in {"answered", "unanswered", "lost"}
      /\ outcome # "lost" => ~pending /\ chip # "boots"
  BY DEF S!Outcomes
<1>2. faulty' \in BOOLEAN
  BY DEF S!Note
<1>3. ~faulty' => ~faulty /\ outcome = "answered"
  BY DEF S!Note
<1>4. QED
  BY <1>1, <1>2, <1>3

LEMMA StartKeeps ==
  ASSUME StartupIInv, S!Start
  PROVE  StartupIInv'
<1>1. /\ pc = "down" /\ starts < MaxStarts /\ starts' = starts + 1 /\ forced' \in BOOLEAN
      /\ pc' = "ping" /\ hard' = FALSE /\ written' = 0 /\ events' = <<>>
      /\ faulty' = FALSE /\ armed' = FALSE /\ confirmed' = FALSE /\ oldNets' = nets
      /\ UNCHANGED <<wipeFlag, items, net, chip, pending, nets, unclear>>
  BY DEF S!Start, S!znpVars
<1>2. S!TypeOK /\ NetworksInv /\ ResetInv /\ NineInv /\ FlagInv
  BY DEF StartupIInv
<1>3. /\ MaxStarts \in Nat /\ pc' \in S!Stages /\ 0 \in 0 .. Len(S!ItemOrder)
      /\ events' \in Seq({"SYS_RESET_IND", "STATE_9"})
  BY <1>1, StartupSets, StartAssumption DEF BeforeStartup
<1>4. S!TypeOK'
  <2>1. starts' \in 0 .. MaxStarts /\ oldNets' \in 1 .. nets'
    BY <1>1, <1>2, <1>3 DEF S!TypeOK
  <2>2. QED
    BY <1>1, <1>2, <1>3, <2>1 DEF S!TypeOK
<1>5. NetworksInv'
  <2>1. "down" \notin BeforeStartup /\ "ping" \in BeforeStartup
    BY DEF BeforeStartup, Waits
  <2>2. QED
    BY <1>1, <1>2, <2>1 DEF S!TypeOK, NetworksInv
<1>6. ResetInv' /\ IndicationInv' /\ FreshInv'
  BY <1>1, <1>2 DEF ResetInv, IndicationInv, FreshInv, Waits
<1>7. NineInv' /\ FlagInv' /\ CleanInv'
  BY <1>1, <1>2 DEF NineInv, FlagInv, S!Wiping, CleanInv, Cleared
<1>8. QED
  BY <1>4, <1>5, <1>6, <1>7 DEF StartupIInv

LEMMA StopKeeps ==
  ASSUME StartupIInv, S!Stop
  PROVE  StartupIInv'
<1>1. /\ pc' = "down" /\ unclear' = (unclear \/ S!Wiping) /\ faulty' = TRUE
      /\ UNCHANGED <<wipeFlag, items, net, chip, pending, nets, events, forced, hard, written,
                     armed, confirmed, starts, oldNets>>
  BY DEF S!Stop, S!znpVars, S!startVars
<1>2. S!TypeOK /\ NetworksInv /\ ResetInv /\ NineInv /\ FlagInv /\ FreshInv
  BY DEF StartupIInv
<1>3. S!TypeOK'
  <2>1. unclear' \in BOOLEAN /\ pc' \in S!Stages
    BY <1>1, StartupSets
  <2>2. QED
    BY <1>1, <1>2, <2>1 DEF S!TypeOK
<1>4. NetworksInv'
  <2>1. "down" \notin BeforeStartup
    BY DEF BeforeStartup, Waits
  <2>2. QED
    BY <1>1, <1>2, <2>1 DEF S!TypeOK, NetworksInv
<1>5. ResetInv' /\ IndicationInv'
  BY <1>1, <1>2 DEF ResetInv, IndicationInv, Waits
<1>6. FlagInv'
  <2>1. wipeFlag' => unclear'
    BY <1>1, <1>2 DEF FlagInv
  <2>2. ~S!Wiping'
    BY <1>1 DEF S!Wiping
  <2>3. QED
    BY <2>1, <2>2 DEF FlagInv
<1>7. NineInv' /\ FreshInv' /\ CleanInv'
  BY <1>1, <1>2 DEF NineInv, FreshInv, CleanInv
<1>8. QED
  BY <1>3, <1>4, <1>5, <1>6, <1>7 DEF StartupIInv

\* The requests that change nothing but the stage.
LEMMA AskedKeeps ==
  ASSUME StartupIInv, NEW outcome \in S!Outcomes,
         S!Ping(outcome) \/ S!DeviceInfo(outcome) \/ S!Recheck(outcome)
  PROVE  StartupIInv'
<1>1. UNCHANGED <<wipeFlag, items, net, chip, pending, nets, events, forced, hard, written,
                  armed, confirmed, unclear, starts, oldNets>>
  BY DEF S!Ping, S!DeviceInfo, S!Recheck, S!znpVars, S!histVars, S!startVars
<1>2. \/ pc = "ping" /\ pc' = "info" /\ ~pending
      \/ pc = "ping" /\ pc' = "down"
      \/ pc = "info" /\ pc' = "arm" /\ forced
      \/ pc = "info" /\ pc' = "register" /\ chip = "active" /\ ~forced
      \/ pc = "info" /\ pc' = "reset" /\ ~forced
      \/ pc = "recheck" /\ pc' = "register" /\ chip = "active" /\ ~pending
      \/ pc = "recheck" /\ pc' = "down"
  BY DEF S!Ping, S!DeviceInfo, S!Recheck, S!Outcomes
<1>3. S!TypeOK /\ NetworksInv /\ ResetInv /\ NineInv /\ FlagInv /\ FreshInv /\ CleanInv
  BY DEF StartupIInv
<1>4. faulty' \in BOOLEAN /\ (~faulty' => ~faulty)
  BY <1>3, OutcomeFacts DEF S!Ping, S!DeviceInfo, S!Recheck
<1>5. S!TypeOK'
  <2>1. pc' \in S!Stages
    BY <1>2, StartupSets DEF BeforeStartup
  <2>2. QED
    BY <1>1, <1>3, <1>4, <2>1 DEF S!TypeOK
<1>6. NetworksInv'
  <2>1. pc' \in BeforeStartup => pc \in BeforeStartup
    BY <1>2 DEF BeforeStartup, Waits
  <2>2. QED
    BY <1>1, <1>3, <2>1 DEF S!TypeOK, NetworksInv
<1>7. ResetInv' /\ IndicationInv'
  BY <1>1, <1>2, <1>3 DEF ResetInv, IndicationInv, Waits
<1>8. NineInv' /\ FlagInv' /\ FreshInv'
  BY <1>1, <1>2, <1>3 DEF NineInv, FlagInv, S!Wiping, FreshInv
<1>9. CleanInv'
  <2>1. ~forced \/ pc' \in {"info", "arm", "down"} \/ (pc = "recheck" /\ pc' = "register")
    BY <1>2
  <2>2. CASE ~forced \/ pc' \in {"info", "arm", "down"}
    BY <1>1, <1>2, <1>3, <1>4, <2>2 DEF CleanInv, Cleared
  <2>3. CASE pc = "recheck" /\ pc' = "register"
    BY <1>1, <1>3, <1>4, <2>3 DEF CleanInv, Cleared
  <2>4. QED
    BY <2>1, <2>2, <2>3
<1>10. QED
  BY <1>5, <1>6, <1>7, <1>8, <1>9 DEF StartupIInv

\* FN-1 and FN-3.
LEMMA WipeFlagKeeps ==
  ASSUME StartupIInv, NEW outcome \in S!Outcomes, S!ArmWipe(outcome) \/ S!ClearWipe(outcome)
  PROVE  StartupIInv'
<1>1. UNCHANGED <<items, net, chip, pending, nets, events, forced, hard, written,
                  confirmed, starts, oldNets>>
  BY DEF S!ArmWipe, S!ClearWipe, S!startVars
<1>2. \/ /\ pc = "arm" /\ pc' = "wipe" /\ wipeFlag' = (wipeFlag \/ outcome # "lost")
         /\ armed' = (outcome # "lost") /\ unclear' = unclear
      \/ /\ pc = "clear" /\ pc' = "write" /\ wipeFlag' = (wipeFlag /\ outcome = "lost")
         /\ armed' = armed /\ unclear' = (outcome = "lost" /\ (unclear \/ armed))
  BY DEF S!ArmWipe, S!ClearWipe
<1>3. S!TypeOK /\ NetworksInv /\ ResetInv /\ NineInv /\ FlagInv /\ FreshInv /\ CleanInv
  BY DEF StartupIInv
<1>4. /\ outcome \in {"answered", "unanswered", "lost"}
      /\ faulty' \in BOOLEAN /\ (~faulty' => ~faulty /\ outcome = "answered")
  BY <1>3, OutcomeFacts DEF S!ArmWipe, S!ClearWipe
<1>5. S!TypeOK'
  <2>1. pc' \in S!Stages
    BY <1>2, StartupSets DEF BeforeStartup
  <2>2. wipeFlag' \in BOOLEAN /\ armed' \in BOOLEAN /\ unclear' \in BOOLEAN
    BY <1>2, <1>3 DEF S!TypeOK
  <2>3. QED
    BY <1>1, <1>3, <1>4, <2>1, <2>2 DEF S!TypeOK
<1>6. NetworksInv'
  <2>1. pc \in BeforeStartup
    BY <1>2 DEF BeforeStartup
  <2>2. QED
    BY <1>1, <1>3, <2>1 DEF S!TypeOK, NetworksInv
<1>7. ResetInv' /\ IndicationInv'
  BY <1>1, <1>2, <1>3 DEF ResetInv, IndicationInv, Waits
<1>8. NineInv' /\ FreshInv'
  BY <1>1, <1>2, <1>3 DEF NineInv, FreshInv
<1>9. FlagInv'
  BY <1>2, <1>3 DEF FlagInv, S!Wiping
<1>10. CleanInv'
  <2>1. SUFFICES ASSUME forced, ~faulty' PROVE CleanInv'
    BY <1>1 DEF CleanInv
  <2>2. ~faulty /\ outcome # "lost"
    BY <1>4, <2>1
  <2>3. written = 0 /\ (pc = "clear" => armed /\ confirmed)
    BY <1>1, <1>2, <1>3, <2>1, <2>2 DEF CleanInv
  <2>4. \A i \in 1 .. written' : S!ItemOrder[i] \in items'
    BY <1>1, <2>3
  <2>5. CASE pc = "arm"
    <3>1. pc' = "wipe" /\ armed'
      BY <1>2, <2>2, <2>5
    <3>2. QED
      BY <1>1, <2>3, <3>1 DEF CleanInv, Cleared
  <2>6. CASE pc = "clear"
    <3>1. pc' = "write" /\ armed' = armed /\ wipeFlag' = (wipeFlag /\ outcome = "lost")
      BY <1>2, <2>6
    <3>2. armed' /\ confirmed' /\ ~wipeFlag'
      BY <1>1, <2>2, <2>3, <2>6, <3>1
    <3>3. QED
      BY <1>1, <2>4, <3>1, <3>2 DEF CleanInv, Cleared
  <2>7. QED
    BY <1>2, <2>5, <2>6
<1>11. QED
  BY <1>5, <1>6, <1>7, <1>8, <1>9, <1>10 DEF StartupIInv

LEMMA WriteItemKeeps ==
  ASSUME StartupIInv, NEW outcome \in S!Outcomes, S!WriteItem(outcome)
  PROVE  StartupIInv'
<1>1. /\ pc = "write" /\ written < 3 /\ written' = written + 1
      /\ items' = (IF outcome = "lost" THEN items ELSE items \cup {S!ItemOrder[written + 1]})
      /\ pc' = IF written' = 3 THEN "final" ELSE pc
      /\ UNCHANGED <<wipeFlag, net, chip, pending, nets, events, forced, hard, armed, confirmed,
                     unclear, starts, oldNets>>
  BY StartupSets DEF S!WriteItem, S!histVars, S!startVars
<1>2. S!TypeOK /\ NetworksInv /\ ResetInv /\ NineInv /\ FlagInv /\ FreshInv /\ CleanInv
  BY DEF StartupIInv
<1>3. faulty' \in BOOLEAN /\ (~faulty' => ~faulty /\ outcome = "answered")
  BY <1>2, OutcomeFacts DEF S!WriteItem
<1>4. written \in {0, 1, 2} /\ written' \in 0 .. 3
  BY <1>1, <1>2, StartupSets DEF S!TypeOK
<1>5. S!ItemOrder[written + 1] \in S!Items
  BY <1>4, StartupSets
<1>6. S!TypeOK'
  <2>1. pc' \in S!Stages /\ written' \in 0 .. Len(S!ItemOrder)
    BY <1>1, <1>4, StartupSets DEF BeforeStartup
  <2>2. items' \subseteq S!Items
    BY <1>1, <1>2, <1>5 DEF S!TypeOK
  <2>3. QED
    BY <1>1, <1>2, <1>3, <2>1, <2>2 DEF S!TypeOK
<1>7. NetworksInv'
  <2>1. pc \in BeforeStartup
    BY <1>1 DEF BeforeStartup
  <2>2. QED
    BY <1>1, <1>2, <2>1 DEF S!TypeOK, NetworksInv
<1>8. ResetInv' /\ IndicationInv'
  BY <1>1, <1>2 DEF ResetInv, IndicationInv, Waits
<1>9. NineInv' /\ FlagInv' /\ FreshInv'
  BY <1>1, <1>2 DEF NineInv, FlagInv, S!Wiping, FreshInv
<1>10. CleanInv'
  <2>1. SUFFICES ASSUME forced, ~faulty' PROVE CleanInv'
    BY <1>1 DEF CleanInv
  <2>2. /\ armed /\ confirmed /\ ~wipeFlag
        /\ \A i \in 1 .. written : S!ItemOrder[i] \in items
    BY <1>1, <1>2, <1>3, <2>1 DEF CleanInv, Cleared
  <2>3. items' = items \cup {S!ItemOrder[written + 1]}
    BY <1>1, <1>3, <2>1
  <2>4. \A i \in 1 .. written' : S!ItemOrder[i] \in items'
    BY <1>1, <1>4, <2>2, <2>3
  <2>5. written' = 3 => items' = S!Items
    <3>1. written' = 3 => {"type", "params", "directCb"} \subseteq items'
      BY <2>4, StartupSets
    <3>2. QED
      BY <1>6, <3>1, StartupSets DEF S!TypeOK
  <2>6. QED
    BY <1>1, <2>2, <2>4, <2>5 DEF CleanInv, Cleared
<1>11. QED
  BY <1>6, <1>7, <1>8, <1>9, <1>10 DEF StartupIInv

LEMMA StartupFromAppKeeps ==
  ASSUME StartupIInv, NEW outcome \in S!Outcomes, S!StartupFromApp(outcome)
  PROVE  StartupIInv'
<1>1. /\ pc = "startup" /\ pc' = "await"
      /\ chip' = (IF outcome # "lost" /\ chip = "hold" THEN "starting" ELSE chip)
      /\ UNCHANGED <<wipeFlag, items, net, pending, nets, events, forced, hard, written, armed,
                     confirmed, unclear, starts, oldNets>>
  BY DEF S!StartupFromApp, S!histVars, S!startVars
<1>2. S!TypeOK /\ NetworksInv /\ ResetInv /\ NineInv /\ FlagInv /\ FreshInv /\ CleanInv
  BY DEF StartupIInv
<1>3. /\ outcome # "lost" => ~pending
      /\ faulty' \in BOOLEAN /\ (~faulty' => ~faulty)
  BY <1>2, OutcomeFacts DEF S!StartupFromApp
<1>4. S!TypeOK'
  <2>1. pc' \in S!Stages /\ chip' \in {"boots", "hold", "starting", "active"}
    BY <1>1, <1>2, StartupSets DEF S!TypeOK
  <2>2. QED
    BY <1>1, <1>2, <1>3, <2>1 DEF S!TypeOK
<1>5. NetworksInv'
  <2>1. pc \in BeforeStartup /\ pc' \notin BeforeStartup
    BY <1>1 DEF BeforeStartup, Waits
  <2>2. QED
    BY <1>1, <1>2, <2>1 DEF S!TypeOK, NetworksInv
<1>6. ResetInv' /\ IndicationInv'
  BY <1>1, <1>2, <1>3 DEF ResetInv, IndicationInv, Waits
<1>7. NineInv'
  BY <1>1, <1>2 DEF NineInv
<1>8. FlagInv' /\ FreshInv'
  BY <1>1, <1>2 DEF FlagInv, S!Wiping, FreshInv
<1>9. CleanInv'
  BY <1>1, <1>2, <1>3 DEF CleanInv, Cleared
<1>10. QED
  BY <1>4, <1>5, <1>6, <1>7, <1>8, <1>9 DEF StartupIInv

\* Where a reset may leave the program: at its second attempt, or behind it.
LEMMA ResetReturnsFacts ==
  ASSUME StartupIInv, NEW p \in S!ResetAt, NEW ok \in BOOLEAN,
         pc \in {p, S!WaitOf[p]}, S!ResetReturns(p, ok)
  PROVE  /\ \/ pc' \in {"wipe", "final"} /\ pc' = p /\ confirmed' = confirmed /\ ~ok
            \/ pc' = "clear" /\ p = "wipe" /\ confirmed' = ok
            \/ pc' = "startup" /\ p \in {"reset", "final"} /\ confirmed' = confirmed
         /\ pc' \in S!Stages /\ hard' \in BOOLEAN /\ confirmed' \in BOOLEAN
         /\ pc \in BeforeStartup /\ pc' \notin Waits
<1>1. p \in {"reset", "wipe", "final"}
  BY DEF S!ResetAt
<1>2. \/ p # "reset" /\ pc' = p /\ hard' = TRUE /\ confirmed' = confirmed /\ ~ok
      \/ /\ hard' = FALSE /\ pc' = S!AfterReset[p]
         /\ confirmed' = IF p = "wipe" THEN ok ELSE confirmed
  BY DEF S!ResetReturns
<1>3. /\ confirmed \in BOOLEAN
      /\ hard' \in BOOLEAN /\ confirmed' \in BOOLEAN
  <2>1. confirmed \in BOOLEAN
    BY DEF StartupIInv, S!TypeOK
  <2>2. hard' \in BOOLEAN
    BY <1>2
  <2>3. confirmed' \in BOOLEAN
    BY <1>2, <2>1
  <2>4. QED
    BY <2>1, <2>2, <2>3
<1>4. \/ pc' \in {"wipe", "final"} /\ pc' = p /\ confirmed' = confirmed /\ ~ok
      \/ pc' = "clear" /\ p = "wipe" /\ confirmed' = ok
      \/ pc' = "startup" /\ p \in {"reset", "final"} /\ confirmed' = confirmed
  BY <1>1, <1>2, StartupSets
<1>5. pc \in BeforeStartup
  BY <1>1, StartupSets DEF BeforeStartup, Waits
<1>6. pc' \in S!Stages /\ pc' \notin Waits
  BY <1>4, StartupSets DEF BeforeStartup, Waits
<1>7. QED
  BY <1>3, <1>4, <1>5, <1>6

\* What a reset, confirmed or not, leaves of the invariant when it returns: no
\* reset is on its way to a ZNP that is up, and state 9 is not reported falsely.
LEMMA ResetReturnsKeeps ==
  ASSUME StartupIInv, NEW p \in S!ResetAt, NEW ok \in BOOLEAN,
         pc \in {p, S!WaitOf[p]}, S!ResetReturns(p, ok),
         UNCHANGED <<wipeFlag, items, net, chip, pending, nets, forced, written, armed, unclear,
                     starts, oldNets>>,
         events' \in Seq({"SYS_RESET_IND", "STATE_9"}),
         faulty' \in BOOLEAN, ~faulty' => ~faulty /\ ok,
         ~(pending /\ chip \in {"starting", "active"}),
         \A i \in 1 .. Len(events') : events'[i] = "STATE_9" => chip = "active",
         ok /\ p = "wipe" /\ armed => net = 0
  PROVE  StartupIInv'
<1>1. /\ \/ pc' \in {"wipe", "final"} /\ pc' = p /\ confirmed' = confirmed /\ ~ok
         \/ pc' = "clear" /\ p = "wipe" /\ confirmed' = ok
         \/ pc' = "startup" /\ p \in {"reset", "final"} /\ confirmed' = confirmed
      /\ pc' \in S!Stages /\ hard' \in BOOLEAN /\ confirmed' \in BOOLEAN
      /\ pc \in BeforeStartup /\ pc' \notin Waits
  BY ResetReturnsFacts
<1>2. S!TypeOK /\ NetworksInv /\ ResetInv /\ NineInv /\ FlagInv /\ FreshInv /\ CleanInv
  BY DEF StartupIInv
<1>3. \/ p = "reset" /\ pc \in {"reset", "resetWait"}
      \/ p = "wipe" /\ pc \in {"wipe", "wipeWait"}
      \/ p = "final" /\ pc \in {"final", "finalWait"}
  BY StartupSets DEF S!ResetAt
<1>4. S!TypeOK'
  BY <1>1, <1>2 DEF S!TypeOK
<1>5. NetworksInv'
  BY <1>1, <1>2 DEF S!TypeOK, NetworksInv
<1>6. ResetInv' /\ IndicationInv'
  BY <1>1 DEF ResetInv, IndicationInv
<1>7. NineInv'
  BY <1>1, <1>2 DEF NineInv
<1>8. FlagInv'
  <2>1. S!Wiping' = S!Wiping
    BY <1>1, <1>3 DEF S!Wiping
  <2>2. QED
    BY <1>2, <2>1 DEF FlagInv
<1>9. FreshInv'
  <2>1. CASE p = "wipe"
    <3>1. ~confirmed
      BY <1>2, <1>3, <2>1 DEF FreshInv
    <3>2. QED
      BY <1>1, <1>2, <2>1, <3>1 DEF FreshInv
  <2>2. CASE p # "wipe"
    BY <1>1, <1>2, <2>2 DEF FreshInv
  <2>3. QED
    BY <2>1, <2>2
<1>10. CleanInv'
  <2>1. SUFFICES ASSUME forced, ~faulty' PROVE CleanInv'
    BY DEF CleanInv
  <2>2. ~faulty /\ ok /\ p # "reset"
    BY <1>2, <1>3, <2>1 DEF FreshInv
  <2>3. CASE p = "wipe"
    <3>1. pc' = "clear" /\ confirmed' /\ armed /\ written = 0
      BY <1>1, <1>2, <1>3, <2>1, <2>2, <2>3 DEF CleanInv
    <3>2. QED
      BY <3>1 DEF CleanInv, Cleared
  <2>4. CASE p = "final"
    <3>1. /\ pc' = "startup" /\ confirmed' /\ armed /\ ~wipeFlag /\ items = S!Items
      BY <1>1, <1>2, <1>3, <2>1, <2>2, <2>4 DEF CleanInv, Cleared
    <3>2. QED
      BY <3>1 DEF CleanInv, Cleared
  <2>5. QED
    BY <1>3, <2>2, <2>3, <2>4
<1>11. QED
  BY <1>4, <1>5, <1>6, <1>7, <1>8, <1>9, <1>10 DEF StartupIInv

LEMMA SendResetKeeps ==
  ASSUME StartupIInv, NEW p \in S!ResetAt, S!SendReset(p)
  PROVE  StartupIInv'
<1>1. /\ pc = p /\ events' = <<>>
      /\ UNCHANGED <<wipeFlag, items, net, chip, nets, forced, written, armed, unclear,
                     starts, oldNets>>
  BY DEF S!SendReset, S!startVars
<1>2. S!TypeOK /\ NetworksInv /\ ResetInv /\ NineInv /\ FlagInv /\ FreshInv /\ CleanInv
  BY DEF StartupIInv
<1>3. \/ p = "reset" /\ S!WaitOf[p] = "resetWait"
      \/ p = "wipe" /\ S!WaitOf[p] = "wipeWait"
      \/ p = "final" /\ S!WaitOf[p] = "finalWait"
  BY StartupSets DEF S!ResetAt
<1>4. events' \in Seq({"SYS_RESET_IND", "STATE_9"}) /\ Len(events') = 0
  BY <1>1
<1>5. CASE /\ pc' = S!WaitOf[p] /\ hard' = hard /\ confirmed' = confirmed
           /\ \/ pending' = TRUE /\ faulty' = faulty
              \/ faulty' = TRUE /\ pending' = pending
  <2>1. pc' \in Waits /\ pc' \in S!Stages /\ pc \in BeforeStartup
    BY <1>1, <1>3, <1>5, StartupSets DEF Waits, BeforeStartup
  <2>2. pending' \in BOOLEAN /\ faulty' \in BOOLEAN
    BY <1>2, <1>5 DEF S!TypeOK
  <2>3. S!TypeOK'
    BY <1>1, <1>2, <1>4, <1>5, <2>1, <2>2 DEF S!TypeOK
  <2>4. NetworksInv'
    BY <1>1, <1>2, <2>1 DEF S!TypeOK, NetworksInv
  <2>5. ResetInv' /\ IndicationInv'
    BY <1>4, <2>1 DEF ResetInv, IndicationInv
  <2>6. NineInv' /\ FlagInv' /\ FreshInv'
    BY <1>1, <1>2, <1>3, <1>5 DEF NineInv, FlagInv, S!Wiping, FreshInv
  <2>7. CleanInv'
    <3>1. SUFFICES ASSUME forced, ~faulty' PROVE CleanInv'
      BY <1>1 DEF CleanInv
    <3>2. ~faulty /\ p # "reset"
      BY <1>1, <1>2, <1>5, <3>1 DEF FreshInv
    <3>3. CASE p = "wipe"
      BY <1>1, <1>2, <1>3, <1>5, <3>1, <3>2, <3>3 DEF CleanInv, Cleared
    <3>4. CASE p = "final"
      BY <1>1, <1>2, <1>3, <1>5, <3>1, <3>2, <3>4 DEF CleanInv, Cleared
    <3>5. QED
      BY <1>3, <3>2, <3>3, <3>4
  <2>8. QED
    BY <2>3, <2>4, <2>5, <2>6, <2>7 DEF StartupIInv
<1>6. CASE S!ResetReturns(p, FALSE) /\ faulty' = TRUE /\ pending' = pending
  <2>1. ~(pending /\ chip \in {"starting", "active"})
    BY <1>1, <1>2, <1>3 DEF ResetInv, Waits
  <2>2. \A i \in 1 .. Len(events') : events'[i] = "STATE_9" => chip = "active"
    BY <1>4
  <2>3. faulty' \in BOOLEAN /\ (~faulty' => ~faulty /\ FALSE) /\ pc \in {p, S!WaitOf[p]}
    BY <1>1, <1>6
  <2>4. QED
    BY <1>1, <1>4, <1>6, <2>1, <2>2, <2>3, ResetReturnsKeeps, Zenon
<1>7. QED
  BY <1>5, <1>6 DEF S!SendReset

LEMMA ResetTimesOutKeeps ==
  ASSUME StartupIInv, NEW p \in S!ResetAt, S!ResetTimesOut(p)
  PROVE  StartupIInv'
<1>1. /\ pc = S!WaitOf[p] /\ events = <<>> /\ ~pending /\ S!ResetReturns(p, FALSE)
      /\ faulty' = TRUE
      /\ UNCHANGED <<wipeFlag, items, net, chip, pending, nets, events, forced, written, armed,
                     unclear, starts, oldNets>>
  BY DEF S!ResetTimesOut, S!znpVars, S!startVars
<1>2. /\ events' \in Seq({"SYS_RESET_IND", "STATE_9"})
      /\ \A i \in 1 .. Len(events') : events'[i] = "STATE_9" => chip = "active"
  BY <1>1
<1>3. faulty' \in BOOLEAN /\ (~faulty' => ~faulty /\ FALSE) /\ pc \in {p, S!WaitOf[p]}
  BY <1>1
<1>4. QED
  BY <1>1, <1>2, <1>3, ResetReturnsKeeps, Zenon

\* What a shorter queue of events is.
LEMMA EventsTaken ==
  ASSUME S!TypeOK, events # <<>>, events' = Tail(events)
  PROVE  /\ events' \in Seq({"SYS_RESET_IND", "STATE_9"})
         /\ Len(events) \in Nat \ {0} /\ Len(events') = Len(events) - 1
         /\ \A i \in 1 .. Len(events') : i + 1 \in 1 .. Len(events) /\ events'[i] = events[i + 1]
         /\ Head(events) = events[1] /\ Head(events) \in {"SYS_RESET_IND", "STATE_9"}
<1>1. events \in Seq({"SYS_RESET_IND", "STATE_9"})
  BY DEF S!TypeOK
<1>2. Len(events) \in Nat \ {0} /\ Head(events) = events[1]
  BY <1>1, EmptySeq
<1>3. events' \in Seq({"SYS_RESET_IND", "STATE_9"}) /\ Len(events') = Len(events) - 1
  BY <1>1, HeadTailProperties
<1>4. \A i \in 1 .. Len(events') : i + 1 \in 1 .. Len(events) /\ events'[i] = events[i + 1]
  BY <1>1, <1>2, <1>3, HeadTailProperties
<1>5. Head(events) \in {"SYS_RESET_IND", "STATE_9"}
  BY <1>1, HeadTailProperties
<1>6. QED
  BY <1>2, <1>3, <1>4, <1>5

LEMMA TakeWhileWaitingKeeps ==
  ASSUME StartupIInv, NEW p \in S!ResetAt, S!TakeWhileWaiting(p)
  PROVE  StartupIInv'
<1>1. /\ pc = S!WaitOf[p] /\ events # <<>> /\ events' = Tail(events)
      /\ UNCHANGED <<wipeFlag, items, net, chip, pending, nets, forced, written, faulty, armed,
                     unclear, starts, oldNets>>
  BY DEF S!TakeWhileWaiting, S!znpVars, S!startVars
<1>2. /\ S!TypeOK /\ NetworksInv /\ ResetInv /\ IndicationInv /\ NineInv /\ FlagInv /\ FreshInv
      /\ CleanInv
  BY DEF StartupIInv
<1>3. /\ events' \in Seq({"SYS_RESET_IND", "STATE_9"})
      /\ Len(events) \in Nat \ {0} /\ Len(events') = Len(events) - 1
      /\ \A i \in 1 .. Len(events') : i + 1 \in 1 .. Len(events) /\ events'[i] = events[i + 1]
      /\ Head(events) = events[1] /\ Head(events) \in {"SYS_RESET_IND", "STATE_9"}
  BY <1>1, <1>2, EventsTaken
<1>4. \/ p = "reset" /\ pc = "resetWait"
      \/ p = "wipe" /\ pc = "wipeWait"
      \/ p = "final" /\ pc = "finalWait"
  BY <1>1, StartupSets DEF S!ResetAt
<1>5. CASE Head(events) = "SYS_RESET_IND" /\ S!ResetReturns(p, TRUE)
  <2>1. 1 \in 1 .. Len(events) /\ pc \in Waits
    BY <1>3, <1>4 DEF Waits
  <2>2. /\ chip \in {"hold", "boots"}
        /\ \A j \in 1 .. Len(events) : events[j] = "SYS_RESET_IND"
        /\ pc = "wipeWait" /\ armed => net = 0
    BY <1>2, <1>3, <1>5, <2>1 DEF IndicationInv
  <2>3. \A i \in 1 .. Len(events') : events'[i] # "STATE_9"
    BY <1>3, <2>2
  <2>4. faulty' \in BOOLEAN
    BY <1>1, <1>2 DEF S!TypeOK
  <2>5. ~(pending /\ chip \in {"starting", "active"})
    BY <2>2
  <2>6. QED
    BY <1>1, <1>3, <1>4, <1>5, <2>2, <2>3, <2>4, <2>5, ResetReturnsKeeps
<1>6. CASE Head(events) # "SYS_RESET_IND" /\ UNCHANGED <<pc, hard, confirmed>>
  <2>1. S!TypeOK'
    BY <1>1, <1>2, <1>3, <1>6 DEF S!TypeOK
  <2>2. NetworksInv' /\ ResetInv'
    BY <1>1, <1>2, <1>6 DEF NetworksInv, ResetInv
  <2>3. IndicationInv'
    <3>1. ASSUME NEW i \in 1 .. Len(events'), events'[i] = "SYS_RESET_IND", pc \in Waits
          PROVE  /\ chip \in {"hold", "boots"}
                 /\ \A j \in i .. Len(events') : events'[j] = "SYS_RESET_IND"
                 /\ pc = "wipeWait" /\ armed => net = 0
      <4>1. i + 1 \in 1 .. Len(events) /\ events[i + 1] = "SYS_RESET_IND"
        BY <1>3, <3>1
      <4>2. /\ chip \in {"hold", "boots"}
            /\ \A j \in i + 1 .. Len(events) : events[j] = "SYS_RESET_IND"
            /\ pc = "wipeWait" /\ armed => net = 0
        BY <1>2, <3>1, <4>1 DEF IndicationInv
      <4>3. \A j \in i .. Len(events') : j \in 1 .. Len(events') /\ j + 1 \in i + 1 .. Len(events)
        BY <1>3
      <4>4. QED
        BY <1>3, <4>2, <4>3
    <3>2. QED
      BY <1>1, <1>6, <3>1 DEF IndicationInv
  <2>4. NineInv'
    BY <1>1, <1>2, <1>4, <1>6 DEF NineInv
  <2>5. FlagInv' /\ FreshInv' /\ CleanInv'
    BY <1>1, <1>2, <1>6 DEF FlagInv, S!Wiping, FreshInv, CleanInv
  <2>6. QED
    BY <2>1, <2>2, <2>3, <2>4, <2>5 DEF StartupIInv
<1>7. QED
  BY <1>5, <1>6 DEF S!TakeWhileWaiting

\* From the wait for state 9 to the main loop.
LEMMA AwaitKeeps ==
  ASSUME StartupIInv, S!TakeWhileStarting \/ S!StartTimesOut \/ S!Register
  PROVE  StartupIInv'
<1>1. /\ faulty' = TRUE \/ faulty' = faulty
      /\ UNCHANGED <<wipeFlag, items, net, chip, pending, nets, forced, hard, written, armed,
                     confirmed, unclear, starts, oldNets>>
  BY DEF S!TakeWhileStarting, S!StartTimesOut, S!Register, S!znpVars, S!histVars, S!startVars
<1>2. S!TypeOK /\ NetworksInv /\ ResetInv /\ NineInv /\ FlagInv /\ FreshInv /\ CleanInv
  BY DEF StartupIInv
<1>3. \/ /\ pc = "await" /\ events # <<>> /\ events' = Tail(events)
         /\ pc' = IF Head(events) = "STATE_9" THEN "register" ELSE pc
      \/ pc = "await" /\ pc' = "recheck" /\ events' = events
      \/ pc = "register" /\ pc' = "running" /\ events' = events
  BY DEF S!TakeWhileStarting, S!StartTimesOut, S!Register
<1>4. /\ events' \in Seq({"SYS_RESET_IND", "STATE_9"})
      /\ pc' = "await" => \A i \in 1 .. Len(events') : events'[i] = "STATE_9" => chip = "active"
      /\ pc' = "register" => chip = "active"
  <2>1. CASE events # <<>> /\ events' = Tail(events) /\ pc = "await"
    <3>1. /\ events' \in Seq({"SYS_RESET_IND", "STATE_9"}) /\ Len(events) \in Nat \ {0}
          /\ \A i \in 1 .. Len(events') : i + 1 \in 1 .. Len(events) /\ events'[i] = events[i + 1]
          /\ Head(events) = events[1]
      BY <1>2, <2>1, EventsTaken
    <3>2. \A i \in 1 .. Len(events) : events[i] = "STATE_9" => chip = "active"
      BY <1>2, <2>1 DEF NineInv
    <3>3. pc' = "register" => Head(events) = "STATE_9"
      BY <1>3, <2>1
    <3>4. QED
      BY <3>1, <3>2, <3>3
  <2>2. CASE events' = events /\ pc' \in {"recheck", "running"}
    BY <1>2, <2>2 DEF S!TypeOK
  <2>3. QED
    BY <1>3, <2>1, <2>2
<1>5. faulty' \in BOOLEAN /\ (~faulty' => ~faulty)
  <2>1. faulty' \in BOOLEAN
    BY <1>1, <1>2 DEF S!TypeOK
  <2>2. ~faulty' => ~faulty
    BY <1>1
  <2>3. QED
    BY <2>1, <2>2
<1>6. pc' \in {"await", "recheck", "register", "running"} /\ pc \in {"await", "register"}
  BY <1>3
<1>7. S!TypeOK'
  <2>1. pc' \in S!Stages
    BY <1>6, StartupSets
  <2>2. QED
    BY <1>1, <1>2, <1>4, <1>5, <2>1 DEF S!TypeOK
<1>8. NetworksInv'
  <2>1. pc \notin BeforeStartup /\ pc' \notin BeforeStartup
    BY <1>6 DEF BeforeStartup, Waits
  <2>2. QED
    BY <1>1, <1>2, <2>1 DEF NetworksInv
<1>9. ResetInv' /\ IndicationInv'
  BY <1>1, <1>2, <1>6 DEF ResetInv, IndicationInv, Waits
<1>10. NineInv'
  <2>1. pc' = "running" => chip = "active"
    BY <1>2, <1>3 DEF NineInv
  <2>2. pc' # "startup"
    BY <1>6
  <2>3. QED
    BY <1>1, <1>2, <1>4, <2>1, <2>2 DEF NineInv
<1>11. FlagInv' /\ FreshInv'
  BY <1>1, <1>2, <1>6 DEF FlagInv, S!Wiping, FreshInv
<1>12. CleanInv'
  <2>1. SUFFICES ASSUME forced, ~faulty' PROVE CleanInv'
    BY <1>1 DEF CleanInv
  <2>2. armed /\ confirmed /\ ~wipeFlag /\ items = S!Items
    BY <1>2, <1>5, <1>6, <2>1 DEF CleanInv, Cleared
  <2>3. pc' \notin {"ping", "info", "arm", "wipe", "wipeWait", "clear", "write"}
    BY <1>6
  <2>4. QED
    BY <1>1, <2>2, <2>3 DEF CleanInv
<1>13. QED
  BY <1>7, <1>8, <1>9, <1>10, <1>11, <1>12 DEF StartupIInv

LEMMA StartupStep ==
  ASSUME StartupIInv, S!Next \/ UNCHANGED startVars
  PROVE  StartupIInv'
<1>1. CASE UNCHANGED startVars
  <2>1. /\ S!TypeOK' /\ NetworksInv' /\ ResetInv' /\ NineInv' /\ FlagInv' /\ FreshInv' /\ CleanInv'
    BY <1>1 DEF startVars, StartupIInv, S!TypeOK, NetworksInv, ResetInv, NineInv, FlagInv,
                S!Wiping, FreshInv, CleanInv
  <2>2. IndicationInv'
    BY <1>1 DEF startVars, StartupIInv, IndicationInv
  <2>3. QED
    BY <2>1, <2>2 DEF StartupIInv
<1>2. CASE S!Start \/ S!Stop \/ S!TakeReset \/ S!Boot \/ S!StartNetwork
  BY <1>2, StartKeeps, StopKeeps, TakeResetKeeps, BootKeeps, StartNetworkKeeps
<1>3. CASE S!Program
  <2>1. ASSUME NEW outcome \in S!Outcomes,
               \/ S!Ping(outcome) \/ S!DeviceInfo(outcome)
               \/ S!ArmWipe(outcome) \/ S!ClearWipe(outcome) \/ S!WriteItem(outcome)
               \/ S!StartupFromApp(outcome) \/ S!Recheck(outcome)
        PROVE  StartupIInv'
    BY <2>1, AskedKeeps, WipeFlagKeeps, WriteItemKeeps, StartupFromAppKeeps
  <2>2. ASSUME NEW p \in S!ResetAt, S!SendReset(p) \/ S!TakeWhileWaiting(p) \/ S!ResetTimesOut(p)
        PROVE  StartupIInv'
    BY <2>2, SendResetKeeps, TakeWhileWaitingKeeps, ResetTimesOutKeeps
  <2>3. QED
    BY <1>3, <2>1, <2>2, AwaitKeeps DEF S!Program
<1>4. QED
  BY <1>1, <1>2, <1>3 DEF S!Next

LEMMA StartupStepOfMC ==
  ASSUME StartupIInv, [LineNext \/ VibrationNext \/ StartNext]_allVars
  PROVE  StartupIInv' /\ (S!Next \/ UNCHANGED startVars)
<1>1. S!Next \/ UNCHANGED startVars
  BY DEF LineNext, VibrationNext, StartNext, allVars
<1>2. QED
  BY <1>1, StartupStep

\* Over starts that may stop anywhere, with requests and indications lost and
\* resets executed late: the main loop runs only on an active coordinator with
\* a network, and after a factory-new start whose wipe was armed and confirmed
\* that network is a new one.
THEOREM StartupSafety == MCSpec => []StartupInv
<1>1. MCInit => StartupIInv
  BY StartupInit DEF MCInit
<1>2. /\ StartupIInv /\ [LineNext \/ VibrationNext \/ StartNext]_allVars
      => StartupIInv'
  BY StartupStepOfMC
<1>3. StartupIInv => StartupInv
  <2> SUFFICES ASSUME StartupIInv PROVE StartupInv
    OBVIOUS
  <2>1. S!RunningIsUp
    BY DEF StartupIInv, NineInv, S!RunningIsUp
  <2>2. S!FactoryNewIsNew
    <3>1. SUFFICES ASSUME pc = "running", forced PROVE S!FactoryNewIsNew
      BY DEF S!FactoryNewIsNew
    <3>2. net # 0 /\ (armed /\ confirmed => net > oldNets)
      BY <2>1, <3>1 DEF StartupIInv, S!RunningIsUp, FreshInv
    <3>3. ~faulty => armed /\ confirmed /\ items = S!Items /\ ~wipeFlag
      BY <3>1 DEF StartupIInv, CleanInv, Cleared
    <3>4. QED
      BY <3>2, <3>3 DEF S!FactoryNewIsNew
  <2>3. QED
    BY <2>1, <2>2 DEF StartupIInv, StartupInv, S!StartupInv
<1>4. QED
  BY <1>1, <1>2, <1>3, PTL DEF MCSpec

\* Network and configuration are erased between FN-1 and FN-3 only, unless an
\* earlier factory-new sequence was stopped there, or lost its FN-3.
THEOREM WipesAreAskedFor == MCSpec => WipeIsAskedFor
<1>1. MCInit => StartupIInv
  BY StartupInit DEF MCInit
<1>2. ASSUME StartupIInv, [LineNext \/ VibrationNext \/ StartNext]_allVars
      PROVE  /\ StartupIInv'
             /\ [(net # 0 /\ net' = 0) \/ (items # {} /\ items' = {})
                  => S!Wiping \/ unclear]_(S!vars)
  <2> DEFINE Erased == (net # 0 /\ net' = 0) \/ (items # {} /\ items' = {})
  <2>1. StartupIInv' /\ (S!Next \/ UNCHANGED startVars)
    BY <1>2, StartupStepOfMC
  <2>2. ASSUME S!Next, Erased PROVE S!Wiping \/ unclear
    <3>1. CASE S!Boot
      <4>1. wipeFlag
        BY <2>2, <3>1 DEF S!Boot
      <4>2. QED
        BY <1>2, <4>1 DEF StartupIInv, FlagInv
    <3>2. ASSUME ~S!Boot PROVE FALSE
      <4>1. ASSUME \/ S!Start \/ S!Stop \/ S!TakeReset
                   \/ S!TakeWhileStarting \/ S!StartTimesOut \/ S!Register
                   \/ \E outcome \in S!Outcomes :
                        \/ S!Ping(outcome) \/ S!DeviceInfo(outcome) \/ S!ArmWipe(outcome)
                        \/ S!ClearWipe(outcome) \/ S!StartupFromApp(outcome) \/ S!Recheck(outcome)
                   \/ \E p \in S!ResetAt :
                        S!SendReset(p) \/ S!TakeWhileWaiting(p) \/ S!ResetTimesOut(p)
            PROVE  UNCHANGED <<net, items>>
        BY <4>1 DEF S!Start, S!Stop, S!TakeReset, S!TakeWhileStarting, S!StartTimesOut, S!Register,
             S!Ping, S!DeviceInfo, S!ArmWipe, S!ClearWipe, S!StartupFromApp, S!Recheck,
             S!SendReset, S!TakeWhileWaiting, S!ResetTimesOut, S!znpVars
      <4>2. ASSUME S!StartNetwork PROVE items' = items /\ (net # 0 => net' = net)
        BY <4>2 DEF S!StartNetwork
      <4>3. ASSUME NEW outcome \in S!Outcomes, S!WriteItem(outcome)
            PROVE  net' = net /\ items \subseteq items'
        BY <4>3 DEF S!WriteItem
      <4>4. QED
        BY <2>2, <3>2, <4>1, <4>2, <4>3 DEF S!Next, S!Program
    <3>3. QED
      BY <3>1, <3>2
  <2>3. UNCHANGED startVars => UNCHANGED S!vars
    BY DEF startVars, S!vars, S!znpVars, S!progVars, S!histVars, S!startVars
  <2>4. QED
    BY <2>1, <2>2, <2>3
<1>3. QED
  BY <1>1, <1>2, PTL DEF MCSpec, WipeIsAskedFor, S!WipeIsAskedFor

-----------------------------------------------------------------------------
(* The alarms of the vibration sensors. *)

\* Event e is about alarm a of sensor s.
Concerns(e, s, a) == e.sensor = s /\ e.alarm = a

\* What is said of alarm a of sensor s: before q, at 0, and in q.
IsSaid(q, s, a, i)   == i = 0 \/ (i \in 1 .. Len(q) /\ Concerns(q[i], s, a))
Saying(q, before, i) == IF i = 0 THEN before ELSE q[i].type

\* The events of alarm a of sensor s in q alternate, from before to last.
Alternates(q, s, a, before, last) ==
  \A i \in 0 .. Len(q) : IsSaid(q, s, a, i) =>
    /\ (\A j \in i + 1 .. Len(q) : ~IsSaid(q, s, a, j)) => Saying(q, before, i) = last
    /\ \A j \in i + 1 .. Len(q) :
         IsSaid(q, s, a, j) /\ (\A k \in i + 1 .. j - 1 : ~IsSaid(q, s, a, k)) =>
           Saying(q, before, i) # Saying(q, before, j)

StateOf(s, a) == IF a \in on[s] THEN "DETECTED" ELSE "CLEARED"

AlternateInv ==
  \A s \in V!Sensors, a \in V!Alarms : Alternates(ucIn, s, a, told[s][a], StateOf(s, a))

\* The sirens sound for an alarm whose end was not taken yet.
SoundInv ==
  sounding => \E s \in V!Sensors, a \in V!Timed : told[s][a] = "DETECTED"

AlarmIInv == V!TypeOK /\ AlternateInv /\ SoundInv

\* Taking the first event makes it what was said last.
LEMMA TailAlternates ==
  ASSUME NEW T, NEW q \in Seq(T), q # <<>>, NEW s, NEW a, NEW before, NEW last,
         Alternates(q, s, a, before, last)
  PROVE  Alternates(Tail(q), s, a,
                    IF Concerns(Head(q), s, a) THEN Head(q).type ELSE before, last)
<1> DEFINE r == Tail(q)
           b == IF Concerns(Head(q), s, a) THEN Head(q).type ELSE before
<1>1. /\ Len(r) = Len(q) - 1 /\ Len(q) \in Nat \ {0} /\ Head(q) = q[1]
      /\ \A i \in 1 .. Len(r) : r[i] = q[i + 1]
  BY HeadTailProperties, EmptySeq
<1> HIDE DEF r
<1>2. ASSUME NEW i \in 1 .. Len(r)
      PROVE  /\ IsSaid(r, s, a, i) <=> IsSaid(q, s, a, i + 1)
             /\ Saying(r, b, i) = Saying(q, before, i + 1)
  BY <1>1 DEF IsSaid, Saying
<1>3. ASSUME NEW i \in 0 .. Len(r), IsSaid(r, s, a, i)
      PROVE  \E m \in {i, i + 1} :
               /\ m \in 0 .. Len(q) /\ IsSaid(q, s, a, m)
               /\ Saying(q, before, m) = Saying(r, b, i)
               /\ m = i => i = 0 /\ ~IsSaid(q, s, a, 1)
  <2>1. CASE i # 0
    BY <1>1, <1>2, <1>3, <2>1
  <2>2. CASE i = 0 /\ Concerns(Head(q), s, a)
    BY <1>1, <2>2 DEF IsSaid, Saying
  <2>3. CASE i = 0 /\ ~Concerns(Head(q), s, a)
    BY <1>1, <2>3 DEF IsSaid, Saying
  <2>4. QED
    BY <2>1, <2>2, <2>3
<1> HIDE DEF b
<1>4. ASSUME NEW i \in 0 .. Len(r), IsSaid(r, s, a, i)
      PROVE  /\ (\A j \in i + 1 .. Len(r) : ~IsSaid(r, s, a, j)) => Saying(r, b, i) = last
             /\ \A j \in i + 1 .. Len(r) :
                  IsSaid(r, s, a, j) /\ (\A k \in i + 1 .. j - 1 : ~IsSaid(r, s, a, k)) =>
                    Saying(r, b, i) # Saying(r, b, j)
  <2>1. PICK m \in {i, i + 1} :
               /\ m \in 0 .. Len(q) /\ IsSaid(q, s, a, m)
               /\ Saying(q, before, m) = Saying(r, b, i)
               /\ m = i => i = 0 /\ ~IsSaid(q, s, a, 1)
    BY <1>3, <1>4
  <2>2. ASSUME NEW l \in 1 .. Len(q), l >= m + 1, IsSaid(q, s, a, l)
        PROVE  l - 1 \in i + 1 .. Len(r) /\ IsSaid(r, s, a, l - 1)
    <3>1. l - 1 \in i + 1 .. Len(r) /\ l - 1 \in 1 .. Len(r) /\ (l - 1) + 1 = l
      <4>1. l # i + 1
        BY <2>1, <2>2
      <4>2. QED
        BY <1>1, <2>1, <2>2, <4>1
    <3>2. QED
      BY <1>2, <2>2, <3>1
  <2>3. ASSUME \A j \in i + 1 .. Len(r) : ~IsSaid(r, s, a, j)
        PROVE  Saying(r, b, i) = last
    <3>1. \A l \in m + 1 .. Len(q) : ~IsSaid(q, s, a, l)
      BY <1>1, <2>1, <2>2, <2>3
    <3>2. QED
      BY <2>1, <3>1 DEF Alternates
  <2>4. ASSUME NEW j \in i + 1 .. Len(r), IsSaid(r, s, a, j),
               \A k \in i + 1 .. j - 1 : ~IsSaid(r, s, a, k)
        PROVE  Saying(r, b, i) # Saying(r, b, j)
    <3>1. j + 1 \in m + 1 .. Len(q) /\ IsSaid(q, s, a, j + 1)
          /\ Saying(q, before, j + 1) = Saying(r, b, j)
      BY <1>1, <1>2, <2>1, <2>4
    <3>2. \A l \in m + 1 .. (j + 1) - 1 : ~IsSaid(q, s, a, l)
      <4>1. SUFFICES ASSUME NEW l \in m + 1 .. (j + 1) - 1, IsSaid(q, s, a, l) PROVE FALSE
        OBVIOUS
      <4>2. l \in 1 .. Len(q) /\ l >= m + 1 /\ l - 1 <= j - 1
        BY <1>1, <2>1, <2>4
      <4>3. l - 1 \in i + 1 .. Len(r) /\ IsSaid(r, s, a, l - 1)
        BY <2>2, <4>1, <4>2
      <4>4. l - 1 \in i + 1 .. j - 1
        BY <4>2, <4>3
      <4>5. QED
        BY <2>4, <4>3, <4>4
    <3>3. QED
      BY <2>1, <3>1, <3>2 DEF Alternates
  <2>5. QED
    BY <2>3, <2>4
<1>5. QED
  BY <1>4 DEF Alternates, r, b

\* Events about others leave what is said of an alarm as it is; one about it, if it
\* changes, is what is said last.
LEMMA ConcatAlternates ==
  ASSUME NEW T, NEW q \in Seq(T), NEW r \in Seq(T),
         NEW s, NEW a, NEW before, NEW last, NEW now,
         Alternates(q, s, a, before, last),
         \/ now = last /\ \A i \in 1 .. Len(r) : ~Concerns(r[i], s, a)
         \/ /\ now # last
            /\ \E n \in 1 .. Len(r) :
                 /\ Concerns(r[n], s, a) /\ r[n].type = now
                 /\ \A i \in 1 .. Len(r) : Concerns(r[i], s, a) => i = n
  PROVE  Alternates(q \o r, s, a, before, now)
<1> DEFINE p == q \o r
<1>1. /\ Len(q) \in Nat /\ Len(r) \in Nat /\ Len(p) = Len(q) + Len(r)
      /\ \A i \in 1 .. Len(p) : p[i] = IF i <= Len(q) THEN q[i] ELSE r[i - Len(q)]
  BY ConcatProperties, LenProperties
<1> HIDE DEF p
<1>2. ASSUME NEW i \in 0 .. Len(q)
      PROVE  /\ IsSaid(p, s, a, i) <=> IsSaid(q, s, a, i)
             /\ Saying(p, before, i) = Saying(q, before, i)
  BY <1>1 DEF IsSaid, Saying
<1>3. ASSUME NEW i \in Len(q) + 1 .. Len(p)
      PROVE  /\ i - Len(q) \in 1 .. Len(r)
             /\ IsSaid(p, s, a, i) <=> Concerns(r[i - Len(q)], s, a)
             /\ Saying(p, before, i) = r[i - Len(q)].type
  BY <1>1 DEF IsSaid, Saying
<1>4. CASE now = last /\ \A i \in 1 .. Len(r) : ~Concerns(r[i], s, a)
  <2>1. ASSUME NEW i \in 0 .. Len(p), IsSaid(p, s, a, i) PROVE i \in 0 .. Len(q)
    BY <1>1, <1>3, <1>4, <2>1
  <2>2. ASSUME NEW i \in 0 .. Len(p), IsSaid(p, s, a, i),
               \A j \in i + 1 .. Len(p) : ~IsSaid(p, s, a, j)
        PROVE  Saying(p, before, i) = now
    <3>1. i \in 0 .. Len(q) /\ IsSaid(q, s, a, i) /\ Saying(p, before, i) = Saying(q, before, i)
      BY <1>2, <2>1, <2>2
    <3>2. \A j \in i + 1 .. Len(q) : ~IsSaid(q, s, a, j)
      BY <1>1, <1>2, <2>2
    <3>3. QED
      BY <1>4, <3>1, <3>2 DEF Alternates
  <2>3. ASSUME NEW i \in 0 .. Len(p), IsSaid(p, s, a, i),
               NEW j \in i + 1 .. Len(p), IsSaid(p, s, a, j),
               \A k \in i + 1 .. j - 1 : ~IsSaid(p, s, a, k)
        PROVE  Saying(p, before, i) # Saying(p, before, j)
    <3>1. i \in 0 .. Len(q) /\ j \in 0 .. Len(q) /\ j \in i + 1 .. Len(q)
      BY <1>1, <2>1, <2>3
    <3>2. /\ IsSaid(q, s, a, i) /\ Saying(p, before, i) = Saying(q, before, i)
          /\ IsSaid(q, s, a, j) /\ Saying(p, before, j) = Saying(q, before, j)
      BY <1>2, <2>3, <3>1
    <3>3. \A k \in i + 1 .. j - 1 : ~IsSaid(q, s, a, k)
      BY <1>1, <1>2, <2>3, <3>1
    <3>4. QED
      BY <3>1, <3>2, <3>3 DEF Alternates
  <2>4. QED
    BY <2>2, <2>3 DEF Alternates, p
<1>5. CASE /\ now # last
           /\ \E n \in 1 .. Len(r) :
                /\ Concerns(r[n], s, a) /\ r[n].type = now
                /\ \A i \in 1 .. Len(r) : Concerns(r[i], s, a) => i = n
  <2>1. PICK n \in 1 .. Len(r) :
                /\ Concerns(r[n], s, a) /\ r[n].type = now
                /\ \A i \in 1 .. Len(r) : Concerns(r[i], s, a) => i = n
    BY <1>5
  <2> DEFINE new == Len(q) + n
  <2>2. /\ new \in Len(q) + 1 .. Len(p) /\ new - Len(q) = n
        /\ IsSaid(p, s, a, new) /\ Saying(p, before, new) = now
    <3>1. new \in Len(q) + 1 .. Len(p) /\ new - Len(q) = n
      BY <1>1
    <3>2. QED
      BY <1>3, <2>1, <3>1
  <2>3. ASSUME NEW i \in 0 .. Len(p), IsSaid(p, s, a, i) PROVE i \in 0 .. Len(q) \/ i = new
    <3>1. CASE i \in Len(q) + 1 .. Len(p)
      <4>1. i - Len(q) \in 1 .. Len(r) /\ Concerns(r[i - Len(q)], s, a)
        BY <1>3, <2>3, <3>1
      <4>2. i - Len(q) = n
        BY <2>1, <4>1
      <4>3. QED
        BY <1>1, <4>2
    <3>2. QED
      BY <1>1, <3>1
  <2>4. ASSUME NEW i \in 0 .. Len(p), IsSaid(p, s, a, i),
               \A j \in i + 1 .. Len(p) : ~IsSaid(p, s, a, j)
        PROVE  Saying(p, before, i) = now
    <3>1. ~(new \in i + 1 .. Len(p))
      BY <2>2, <2>4
    <3>2. i = new
      BY <1>1, <2>2, <2>3, <2>4, <3>1
    <3>3. QED
      BY <2>2, <3>2
  <2>5. ASSUME NEW i \in 0 .. Len(p), IsSaid(p, s, a, i),
               NEW j \in i + 1 .. Len(p), IsSaid(p, s, a, j),
               \A k \in i + 1 .. j - 1 : ~IsSaid(p, s, a, k)
        PROVE  Saying(p, before, i) # Saying(p, before, j)
    <3>1. i \in 0 .. Len(q) /\ IsSaid(q, s, a, i) /\ Saying(p, before, i) = Saying(q, before, i)
      <4>1. j \in 0 .. Len(q) \/ j = new
        BY <1>1, <2>3, <2>5
      <4>2. i < new
        BY <1>1, <2>2, <2>5, <4>1
      <4>3. i \in 0 .. Len(q)
        BY <2>3, <2>5, <4>2, <1>1
      <4>4. QED
        BY <1>2, <2>5, <4>3
    <3>2. CASE j = new
      <4>1. \A k \in i + 1 .. Len(q) : ~IsSaid(q, s, a, k)
        BY <1>1, <1>2, <2>2, <2>5, <3>2
      <4>2. Saying(q, before, i) = last
        BY <3>1, <4>1 DEF Alternates
      <4>3. QED
        BY <1>5, <2>2, <3>1, <3>2, <4>2
    <3>3. CASE j \in 0 .. Len(q)
      <4>1. /\ j \in i + 1 .. Len(q) /\ IsSaid(q, s, a, j)
            /\ Saying(p, before, j) = Saying(q, before, j)
        BY <1>1, <1>2, <2>5, <3>3
      <4>2. \A k \in i + 1 .. j - 1 : ~IsSaid(q, s, a, k)
        BY <1>1, <1>2, <2>5, <3>1, <3>3
      <4>3. QED
        BY <3>1, <4>1, <4>2 DEF Alternates
    <3>4. QED
      BY <1>1, <2>3, <2>5, <3>2, <3>3
  <2>6. QED
    BY <2>4, <2>5 DEF Alternates, p
<1>6. QED
  BY <1>4, <1>5

\* A listing of a finite set has each of its elements once.
LEMMA ListedOnce ==
  ASSUME NEW es, IsFiniteSet(es), NEW q \in V!SetToSeqs(es)
  PROVE  /\ q \in Seq(es) /\ \A i \in 1 .. Len(q) : q[i] \in es
         /\ \A i, j \in 1 .. Len(q) : q[i] = q[j] => i = j
         /\ \A e \in es : \E i \in 1 .. Len(q) : q[i] = e
<1> DEFINE n == Cardinality(es)
<1>1. n \in Nat
  BY FS_CardinalityType
<1>2. V!Cardinality(es) = n
  BY Zenon DEF Cardinality, V!Cardinality
<1>3. q \in [1 .. n -> es] /\ \A i, j \in 1 .. n : i # j => q[i] # q[j]
  BY <1>2 DEF V!SetToSeqs
<1>4. IsFiniteSet(1 .. n) /\ Cardinality(1 .. n) = n
  BY <1>1, FS_Interval
<1> HIDE DEF n
<1>5. q \in Injection(1 .. n, es)
  BY <1>3 DEF Injection, IsInjective
<1>6. q \in Surjection(1 .. n, es)
  BY <1>4, <1>5, FS_Injection DEF n
<1>7. q \in Seq(es) /\ Len(q) = n
  BY <1>1, <1>3
<1>8. QED
  BY <1>3, <1>6, <1>7 DEF Surjection

\* There are finitely many events, as there are finitely many sensors.
LEMMA AlarmEventsAreFinite == IsFiniteSet(V!Events)
<1> DEFINE Types == {"DETECTED", "CLEARED"}
           P == V!Sensors \X (V!Alarms \X Types)
           f == [p \in P |-> [sensor |-> p[1], alarm |-> p[2][1], type |-> p[2][2]]]
<1>1. IsFiniteSet(V!Sensors)
  BY VibrationAssumption, FS_Interval DEF V!Sensors
<1>2. IsFiniteSet(V!Alarms) /\ IsFiniteSet(Types)
  <2>1. /\ IsFiniteSet({"movement"}) /\ IsFiniteSet({"movement"} \cup {"vibration"})
        /\ IsFiniteSet(({"movement"} \cup {"vibration"}) \cup {"tamper"})
    BY FS_Singleton, FS_AddElement
  <2>2. IsFiniteSet({"DETECTED"}) /\ IsFiniteSet({"DETECTED"} \cup {"CLEARED"})
    BY FS_Singleton, FS_AddElement
  <2>3. /\ V!Alarms = ({"movement"} \cup {"vibration"}) \cup {"tamper"}
        /\ Types = {"DETECTED"} \cup {"CLEARED"}
    BY DEF V!Alarms, V!Timed
  <2>4. QED
    BY <2>1, <2>2, <2>3
<1>3. IsFiniteSet(P)
  BY <1>1, <1>2, FS_Product
<1>4. f \in [P -> V!Events]
  BY DEF V!Events
<1>5. ASSUME NEW e \in V!Events PROVE \E p \in P : f[p] = e
  <2>1. /\ e.sensor \in V!Sensors /\ e.alarm \in V!Alarms /\ e.type \in Types
        /\ e = [sensor |-> e.sensor, alarm |-> e.alarm, type |-> e.type]
    BY DEF V!Events
  <2>2. <<e.sensor, <<e.alarm, e.type>>>> \in P
    BY <2>1
  <2>3. f[<<e.sensor, <<e.alarm, e.type>>>>] = e
    BY <2>1, <2>2
  <2>4. QED
    BY <2>2, <2>3
<1>6. f \in Surjection(P, V!Events)
  BY <1>4, <1>5 DEF Surjection
<1>7. QED
  BY <1>3, <1>6, FS_Surjection

\* Posting what changes keeps the events of every alarm in turn.
LEMMA PostAlternates ==
  ASSUME V!TypeOK, AlternateInv, on' \in [V!Sensors -> SUBSET V!Alarms], told' = told,
         NEW rank, V!Post(V!Changes(on'), rank)
  PROVE  ucIn' \in Seq(V!Events) /\ AlternateInv'
<1> DEFINE cs == V!Changes(on')
<1>1. /\ ucIn \in Seq(V!Events) /\ on \in [V!Sensors -> SUBSET V!Alarms]
  BY DEF V!TypeOK
<1>2. PICK q \in V!SetToSeqs(cs) : ucIn' = ucIn \o q
  BY DEF V!Post, V!InOrder
<1>3. cs \subseteq V!Events
  BY DEF V!Changes
<1>4. IsFiniteSet(cs)
  BY <1>3, AlarmEventsAreFinite, FS_Subset
<1>5. ASSUME NEW e \in cs
      PROVE  /\ e \in V!Events
             /\ (e.type = "DETECTED") = (e.alarm \in on'[e.sensor])
             /\ (e.alarm \in on[e.sensor]) # (e.alarm \in on'[e.sensor])
  BY DEF V!Changes, V!Announces
<1>6. ASSUME NEW e \in V!Events,
             (e.type = "DETECTED") = (e.alarm \in on'[e.sensor]),
             (e.alarm \in on[e.sensor]) # (e.alarm \in on'[e.sensor])
      PROVE  e \in cs
  BY <1>6 DEF V!Changes, V!Announces
<1> HIDE DEF cs
<1>7. /\ q \in Seq(cs) /\ \A i \in 1 .. Len(q) : q[i] \in cs
      /\ \A i, j \in 1 .. Len(q) : q[i] = q[j] => i = j
      /\ \A e \in cs : \E i \in 1 .. Len(q) : q[i] = e
  BY <1>2, <1>4, ListedOnce
<1>8. q \in Seq(V!Events)
  BY <1>3, <1>7, SeqMonotonic
<1>9. ucIn' \in Seq(V!Events)
  BY <1>1, <1>2, <1>8, ConcatProperties
<1>10. ASSUME NEW s \in V!Sensors, NEW a \in V!Alarms
       PROVE  Alternates(ucIn', s, a, told'[s][a], StateOf(s, a)')
  <2>1. Alternates(ucIn, s, a, told[s][a], StateOf(s, a))
    BY DEF AlternateInv
  <2>2. CASE a \in on[s] <=> a \in on'[s]
    <3>1. StateOf(s, a)' = StateOf(s, a)
      BY <2>2 DEF StateOf
    <3>2. \A i \in 1 .. Len(q) : ~Concerns(q[i], s, a)
      BY <1>5, <1>7, <2>2 DEF Concerns
    <3>3. Alternates(ucIn \o q, s, a, told[s][a], StateOf(s, a))
      BY <1>1, <1>8, <2>1, <3>2, ConcatAlternates
    <3>4. QED
      BY <1>2, <3>1, <3>3
  <2>3. CASE ~(a \in on[s] <=> a \in on'[s])
    <3> DEFINE now == IF a \in on'[s] THEN "DETECTED" ELSE "CLEARED"
               e == [sensor |-> s, alarm |-> a, type |-> now]
    <3>1. StateOf(s, a)' = now /\ now # StateOf(s, a)
      BY <2>3 DEF StateOf
    <3>2. e \in V!Events /\ e.sensor = s /\ e.alarm = a /\ e.type = now
      BY DEF V!Events
    <3>3. (now = "DETECTED") = (a \in on'[s])
      OBVIOUS
    <3>4. e \in cs
      <4> HIDE DEF e, now
      <4>1. QED
        BY <1>6, <2>3, <3>2, <3>3
    <3>5. PICK n \in 1 .. Len(q) : q[n] = e
      BY <1>7, <3>4
    <3>6. ASSUME NEW i \in 1 .. Len(q), Concerns(q[i], s, a) PROVE i = n
      <4>1. /\ q[i] \in V!Events /\ q[i].sensor = s /\ q[i].alarm = a
            /\ (q[i].type = "DETECTED") = (a \in on'[s])
        BY <1>5, <1>7, <3>6 DEF Concerns
      <4>2. q[i].type = now
        BY <4>1 DEF V!Events
      <4>3. q[i] = e
        BY <4>1, <4>2 DEF V!Events
      <4>4. QED
        BY <1>7, <3>5, <4>3
    <3>7. Concerns(q[n], s, a) /\ q[n].type = now
      BY <3>2, <3>5 DEF Concerns
    <3> HIDE DEF now, e
    <3>8. Alternates(ucIn \o q, s, a, told[s][a], now)
      BY <1>1, <1>8, <2>1, <3>1, <3>6, <3>7, ConcatAlternates
    <3>9. QED
      BY <1>2, <3>1, <3>8
  <2>4. QED
    BY <2>2, <2>3
<1>11. QED
  BY <1>9, <1>10 DEF AlternateInv

\* The vibration thread stores a report, or the main loop ends what it timed out.
LEMMA StoreKeepsAlarms ==
  ASSUME AlarmIInv, V!HandleStatus \/ V!PollAll
  PROVE  AlarmIInv'
<1>1. V!TypeOK /\ AlternateInv /\ SoundInv
  BY DEF AlarmIInv
<1>2. UNCHANGED <<sounding, reported, told>>
  BY DEF V!HandleStatus, V!PollAll
<1>3. on' \in [V!Sensors -> SUBSET V!Alarms]
  <2>1. CASE V!HandleStatus
    <3>1. Head(inbox) \in [sensor : V!Sensors, alarms : SUBSET V!Alarms]
      BY <1>1, <2>1, HeadTailProperties DEF V!TypeOK, V!HandleStatus
    <3>2. QED
      BY <1>1, <2>1, <3>1 DEF V!TypeOK, V!HandleStatus
  <2>2. CASE V!PollAll
    BY <1>1, <2>2 DEF V!TypeOK, V!PollAll
  <2>3. QED
    BY <2>1, <2>2
<1>4. V!Post(V!Changes(on'), V!StatusOrder) \/ V!Post(V!Changes(on'), V!PollOrder)
  BY DEF V!HandleStatus, V!PollAll
<1>5. ucIn' \in Seq(V!Events) /\ AlternateInv'
  BY <1>1, <1>2, <1>3, <1>4, PostAlternates
<1>6. V!TypeOK'
  <2>1. CASE V!HandleStatus
    <3>1. /\ Head(inbox) \in [sensor : V!Sensors, alarms : SUBSET V!Alarms]
          /\ Tail(inbox) \in Seq([sensor : V!Sensors, alarms : SUBSET V!Alarms])
      BY <1>1, <2>1, HeadTailProperties DEF V!TypeOK, V!HandleStatus
    <3>2. V!MaxAge \in Nat
      BY VibrationAssumption DEF V!MaxAge
    <3>3. age' \in [V!Sensors -> [V!Timed -> 0 .. V!MaxAge]]
      BY <1>1, <2>1, <3>1, <3>2 DEF V!TypeOK, V!HandleStatus
    <3>4. inbox' = Tail(inbox) /\ lag' = lag
      BY <2>1 DEF V!HandleStatus
    <3>5. QED
      BY <1>1, <1>2, <1>3, <1>5, <3>1, <3>3, <3>4 DEF V!TypeOK
  <2>2. CASE V!PollAll
    <3>1. lag' = V!NotPolling /\ UNCHANGED <<inbox, age>>
      BY <2>2 DEF V!PollAll
    <3>2. lag' \in V!NotPolling .. MaxLag
      BY <3>1, VibrationAssumption DEF V!NotPolling
    <3>3. QED
      BY <1>1, <1>2, <1>3, <1>5, <3>1, <3>2 DEF V!TypeOK
  <2>3. QED
    BY <2>1, <2>2
<1>7. SoundInv'
  BY <1>1, <1>2 DEF SoundInv
<1>8. QED
  BY <1>5, <1>6, <1>7 DEF AlarmIInv

\* The use-case thread takes an event.
LEMMA TakeKeepsAlarms ==
  ASSUME AlarmIInv, V!TakeEvent
  PROVE  AlarmIInv'
<1> DEFINE e == Head(ucIn)
<1>1. V!TypeOK /\ AlternateInv /\ SoundInv
  BY DEF AlarmIInv
<1>2. /\ ucIn # <<>> /\ ucIn' = Tail(ucIn)
      /\ sounding' = IF e.alarm \in V!Timed THEN e.type = "DETECTED" ELSE sounding
      /\ told' = [told EXCEPT ![e.sensor][e.alarm] = e.type]
      /\ UNCHANGED <<inbox, on, age, lag, reported>>
  BY DEF V!TakeEvent
<1>3. e \in V!Events /\ Tail(ucIn) \in Seq(V!Events) /\ ucIn \in Seq(V!Events)
  BY <1>1, <1>2, HeadTailProperties DEF V!TypeOK
<1> HIDE DEF e
<1>4. e.sensor \in V!Sensors /\ e.alarm \in V!Alarms /\ e.type \in {"DETECTED", "CLEARED"}
  BY <1>3 DEF V!Events
<1>5. told \in [V!Sensors -> [V!Alarms -> {"DETECTED", "CLEARED"}]] /\ sounding \in BOOLEAN
  BY <1>1 DEF V!TypeOK
<1>6. /\ told' \in [V!Sensors -> [V!Alarms -> {"DETECTED", "CLEARED"}]]
      /\ \A s \in V!Sensors, a \in V!Alarms :
           told'[s][a] = IF Concerns(e, s, a) THEN e.type ELSE told[s][a]
  BY <1>2, <1>4, <1>5 DEF Concerns
<1>7. sounding' \in BOOLEAN
  BY <1>2, <1>5
<1>8. V!TypeOK'
  BY <1>1, <1>2, <1>3, <1>6, <1>7 DEF V!TypeOK
<1>9. ASSUME NEW s \in V!Sensors, NEW a \in V!Alarms
      PROVE  Alternates(ucIn', s, a, told'[s][a], StateOf(s, a)')
  <2>1. Alternates(ucIn, s, a, told[s][a], StateOf(s, a))
    BY <1>1 DEF AlternateInv
  <2>2. Alternates(Tail(ucIn), s, a, IF Concerns(Head(ucIn), s, a) THEN Head(ucIn).type
                                                                   ELSE told[s][a], StateOf(s, a))
    BY <1>2, <1>3, <2>1, TailAlternates
  <2>3. StateOf(s, a)' = StateOf(s, a)
    BY <1>2 DEF StateOf
  <2>4. QED
    BY <1>2, <1>6, <2>2, <2>3 DEF e
<1>10. SoundInv'
  <2> SUFFICES ASSUME sounding'
               PROVE  \E s \in V!Sensors, a \in V!Timed : told'[s][a] = "DETECTED"
    BY DEF SoundInv
  <2>1. V!Timed \subseteq V!Alarms
    BY DEF V!Alarms
  <2>2. CASE e.alarm \in V!Timed
    <3>1. e.type = "DETECTED"
      BY <1>2, <2>2
    <3>2. told'[e.sensor][e.alarm] = "DETECTED"
      BY <1>4, <1>6, <3>1 DEF Concerns
    <3>3. QED
      BY <1>4, <2>2, <3>2
  <2>3. CASE e.alarm \notin V!Timed
    <3>1. PICK s \in V!Sensors, a \in V!Timed : told[s][a] = "DETECTED"
      BY <1>1, <1>2, <2>3 DEF SoundInv
    <3>2. ~Concerns(e, s, a)
      BY <2>3 DEF Concerns
    <3>3. told'[s][a] = "DETECTED"
      BY <1>6, <2>1, <3>1, <3>2
    <3>4. QED
      BY <3>3
  <2>4. QED
    BY <2>2, <2>3
<1>11. QED
  BY <1>8, <1>9, <1>10 DEF AlarmIInv, AlternateInv

\* Time, reports on their way, and the reading of the clock change none of it.
LEMMA OtherAlarmSteps ==
  ASSUME AlarmIInv,
         \/ V!Tick \/ V!PollBegins \/ UNCHANGED alarmVars
         \/ \E s \in V!Sensors : V!Report(s)
  PROVE  AlarmIInv'
<1>1. V!TypeOK /\ AlternateInv /\ SoundInv
  BY DEF AlarmIInv
<1>2. UNCHANGED <<on, ucIn, sounding, told>>
  BY DEF V!Tick, V!PollBegins, V!Report, alarmVars
<1>3. AlternateInv' /\ SoundInv'
  BY <1>1, <1>2 DEF AlternateInv, SoundInv, StateOf
<1>4. /\ V!MaxAge \in Nat /\ MaxLag \in Nat /\ MaxReports \in Nat /\ V!NotPolling = -1
  BY VibrationAssumption DEF V!MaxAge, V!NotPolling
<1>5. V!TypeOK'
  <2>1. CASE V!Tick
    <3>1. age' \in [V!Sensors -> [V!Timed -> 0 .. V!MaxAge]]
      BY <1>1, <1>4, <2>1 DEF V!TypeOK, V!Tick
    <3>2. lag' \in V!NotPolling .. MaxLag
      BY <1>1, <1>4, <2>1 DEF V!TypeOK, V!Tick
    <3>3. UNCHANGED <<inbox, reported>>
      BY <2>1 DEF V!Tick
    <3>4. QED
      BY <1>1, <1>2, <3>1, <3>2, <3>3 DEF V!TypeOK
  <2>2. CASE V!PollBegins
    BY <1>1, <1>2, <1>4, <2>2 DEF V!TypeOK, V!PollBegins
  <2>3. CASE \E s \in V!Sensors : V!Report(s)
    <3>1. PICK s \in V!Sensors, as \in SUBSET V!Alarms :
            /\ reported < MaxReports /\ reported' = reported + 1
            /\ inbox' = Append(inbox, [sensor |-> s, alarms |-> as])
            /\ UNCHANGED <<age, lag>>
      BY <2>3 DEF V!Report
    <3>2. inbox' \in Seq([sensor : V!Sensors, alarms : SUBSET V!Alarms])
      <4>1. [sensor |-> s, alarms |-> as] \in [sensor : V!Sensors, alarms : SUBSET V!Alarms]
        OBVIOUS
      <4>2. QED
        BY <1>1, <3>1, <4>1, AppendProperties DEF V!TypeOK
    <3>3. reported' \in 0 .. MaxReports
      BY <1>1, <1>4, <3>1 DEF V!TypeOK
    <3>4. QED
      BY <1>1, <1>2, <3>1, <3>2, <3>3 DEF V!TypeOK
  <2>4. CASE UNCHANGED alarmVars
    BY <1>1, <2>4 DEF V!TypeOK, alarmVars
  <2>5. QED
    BY <2>1, <2>2, <2>3, <2>4
<1>6. QED
  BY <1>3, <1>5 DEF AlarmIInv

LEMMA AlarmInit ==
  ASSUME V!Init
  PROVE  AlarmIInv
<1>1. ucIn = <<>> /\ Len(ucIn) = 0 /\ ucIn \in Seq(V!Events)
  BY EmptySeq DEF V!Init
<1>2. AlternateInv
  <2> SUFFICES ASSUME NEW s \in V!Sensors, NEW a \in V!Alarms
               PROVE  Alternates(ucIn, s, a, told[s][a], StateOf(s, a))
    BY DEF AlternateInv
  <2>1. told[s][a] = "CLEARED" /\ StateOf(s, a) = "CLEARED"
    BY DEF V!Init, StateOf
  <2>2. QED
    BY <1>1, <2>1 DEF Alternates, Saying
<1>3. /\ V!MaxAge \in Nat /\ MaxLag \in Nat /\ MaxReports \in Nat /\ V!NotPolling = -1
  BY VibrationAssumption DEF V!MaxAge, V!NotPolling
<1>4. V!TypeOK
  <2>1. inbox \in Seq([sensor : V!Sensors, alarms : SUBSET V!Alarms])
    BY EmptySeq DEF V!Init
  <2>2. on \in [V!Sensors -> SUBSET V!Alarms]
    BY DEF V!Init
  <2>3. age \in [V!Sensors -> [V!Timed -> 0 .. V!MaxAge]]
    BY <1>3 DEF V!Init
  <2>4. told \in [V!Sensors -> [V!Alarms -> {"DETECTED", "CLEARED"}]]
    BY DEF V!Init
  <2>5. lag \in V!NotPolling .. MaxLag /\ reported \in 0 .. MaxReports /\ sounding \in BOOLEAN
    <3>1. lag = V!NotPolling /\ reported = 0 /\ sounding = FALSE
      BY DEF V!Init
    <3>2. V!NotPolling \in V!NotPolling .. MaxLag /\ 0 \in 0 .. MaxReports
      BY <1>3
    <3>3. QED
      BY <3>1, <3>2
  <2>6. QED
    BY <1>1, <2>1, <2>2, <2>3, <2>4, <2>5 DEF V!TypeOK
<1>5. QED
  BY <1>2, <1>4 DEF AlarmIInv, SoundInv, V!Init

\* The invariant says what the properties say.
LEMMA AlarmsAsStated ==
  ASSUME AlarmIInv
  PROVE  AlarmInv
<1>1. V!TypeOK /\ AlternateInv /\ SoundInv
  BY DEF AlarmIInv
<1>2. ucIn \in Seq(V!Events) /\ Len(ucIn) \in Nat /\ DOMAIN ucIn = 1 .. Len(ucIn)
  BY <1>1, LenProperties DEF V!TypeOK
<1>3. V!EventsAlternate
  <2> SUFFICES ASSUME NEW s \in V!Sensors, NEW a \in V!Alarms, NEW i \in V!Own(s, a)
               PROVE  LET later == {j \in V!Own(s, a) : j > i} IN
                        /\ later = {} => (V!Says(s, a, i) = "DETECTED") = (a \in on[s])
                        /\ \A j \in later : (\A k \in later : j <= k) =>
                             V!Says(s, a, i) # V!Says(s, a, j)
    BY DEF V!EventsAlternate
  <2> DEFINE later == {j \in V!Own(s, a) : j > i}
  <2>1. \A j \in 0 .. Len(ucIn) : /\ j \in V!Own(s, a) <=> IsSaid(ucIn, s, a, j)
                                 /\ V!Says(s, a, j) = Saying(ucIn, told[s][a], j)
    BY <1>2 DEF V!Own, V!Says, IsSaid, Saying, Concerns
  <2>2. V!Own(s, a) \subseteq 0 .. Len(ucIn)
    BY <1>2 DEF V!Own
  <2>3. /\ i \in 0 .. Len(ucIn) /\ IsSaid(ucIn, s, a, i)
        /\ Alternates(ucIn, s, a, told[s][a], StateOf(s, a))
    BY <1>1, <2>1, <2>2 DEF AlternateInv
  <2>4. \A j \in i + 1 .. Len(ucIn) : j \in later <=> IsSaid(ucIn, s, a, j)
    BY <1>2, <2>1, <2>3
  <2>5. later \subseteq i + 1 .. Len(ucIn)
    BY <1>2, <2>2, <2>3
  <2> HIDE DEF later
  <2>6. ASSUME later = {} PROVE (V!Says(s, a, i) = "DETECTED") = (a \in on[s])
    <3>1. Saying(ucIn, told[s][a], i) = StateOf(s, a)
      BY <2>3, <2>4, <2>6 DEF Alternates
    <3>2. QED
      BY <2>1, <2>3, <3>1 DEF StateOf
  <2>7. ASSUME NEW j \in later, \A k \in later : j <= k
        PROVE  V!Says(s, a, i) # V!Says(s, a, j)
    <3>1. j \in i + 1 .. Len(ucIn) /\ IsSaid(ucIn, s, a, j)
      BY <2>4, <2>5
    <3>2. \A k \in i + 1 .. j - 1 : ~IsSaid(ucIn, s, a, k)
      BY <1>2, <2>3, <2>4, <2>7, <3>1
    <3>3. Saying(ucIn, told[s][a], i) # Saying(ucIn, told[s][a], j)
      BY <2>3, <3>1, <3>2 DEF Alternates
    <3>4. QED
      BY <1>2, <2>1, <2>3, <3>1, <3>3
  <2>8. QED
    BY <2>6, <2>7 DEF later
<1>4. V!SilentWhenClear
  <2> SUFFICES ASSUME ucIn = <<>>, \A s \in V!Sensors : on[s] \cap V!Timed = {}, sounding
               PROVE  FALSE
    BY DEF V!SilentWhenClear
  <2>1. PICK s \in V!Sensors, a \in V!Timed : told[s][a] = "DETECTED"
    BY <1>1 DEF SoundInv
  <2>2. a \in V!Alarms /\ StateOf(s, a) = "CLEARED"
    BY DEF StateOf, V!Alarms
  <2>3. Len(ucIn) = 0 /\ Alternates(ucIn, s, a, told[s][a], StateOf(s, a))
    BY <1>1, <2>2, EmptySeq DEF AlternateInv
  <2>4. IsSaid(ucIn, s, a, 0) /\ Saying(ucIn, told[s][a], 0) = told[s][a]
    BY DEF IsSaid, Saying
  <2>5. Saying(ucIn, told[s][a], 0) = StateOf(s, a)
    BY <2>3, <2>4 DEF Alternates
  <2>6. QED
    BY <2>1, <2>2, <2>4, <2>5
<1>5. QED
  BY <1>1, <1>3, <1>4 DEF AlarmInv, V!AlarmInv

\* For any number of sensors and any timeout: the events of every alarm alternate
\* and tell its state, whichever of two threads sees a change first, and when all
\* alarms have ended the sirens are silent.
THEOREM AlarmSafety == MCSpec => []AlarmInv
<1>1. MCInit => AlarmIInv
  BY AlarmInit DEF MCInit
<1>2. /\ AlarmIInv /\ [LineNext \/ VibrationNext \/ StartNext]_allVars
      => AlarmIInv'
  <2> SUFFICES ASSUME AlarmIInv, [LineNext \/ VibrationNext \/ StartNext]_allVars
               PROVE  AlarmIInv'
    OBVIOUS
  <2>1. V!Next \/ UNCHANGED alarmVars
    BY DEF LineNext, VibrationNext, StartNext, allVars
  <2>2. QED
    BY <2>1, StoreKeepsAlarms, TakeKeepsAlarms, OtherAlarmSteps DEF V!Next
<1>3. AlarmIInv => AlarmInv
  BY AlarmsAsStated
<1>4. QED
  BY <1>1, <1>2, <1>3, PTL DEF MCSpec

=============================================================================
