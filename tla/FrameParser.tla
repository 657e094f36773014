---------------------------- MODULE FrameParser -----------------------------
(***************************************************************************)
(* The parse buffer of ZNP_ReaderThread (znp_host.c): what a read returns  *)
(* is appended, frames are looked for byte by byte, and what may be the    *)
(* start of a frame is moved to the front and kept for the next read.      *)
(*                                                                         *)
(* A frame is a start byte, the length of its payload, two command bytes,  *)
(* the payload and a checksum.  Bytes are lost or altered on the line, a   *)
(* payload may contain start bytes, and a read returns any part of what    *)
(* has arrived.  The checksum is any function of the bytes it covers.      *)
(***************************************************************************)
EXTENDS Naturals, Sequences

CONSTANTS
  MaxByte,   \* 255
  SOF,       \* the start byte, 0xFE
  Fcs(_),    \* ZNP_CalcFcs, over length, command and payload
  MaxRead,   \* size of readBuf
  BufSize,   \* size of parseBuf
  Streams    \* what may come down the line

Byte == 0 .. MaxByte
MaxFrame == 5 + MaxByte

ASSUME ParserAssumption ==
  /\ MaxByte \in Nat /\ SOF \in Byte
  /\ MaxRead \in Nat \ {0} /\ BufSize \in Nat
  /\ MaxRead + MaxFrame - 1 <= BufSize
  /\ Streams \subseteq Seq(Byte)

VARIABLES
  stream,   \* all bytes that come down the line
  nread,    \* how many of them were read
  parseBuf, \* the first parseLen bytes of parseBuf
  idx,      \* where the scan is, from 0
  stage,    \* the thread polls, scans, or has ended
  taken     \* history: the frames that were handed on, and where they began

vars == <<stream, nread, parseBuf, idx, stage, taken>>

Init ==
  /\ stream \in Streams
  /\ nread = 0 /\ parseBuf = <<>> /\ idx = 0 /\ stage = "poll" /\ taken = <<>>

-----------------------------------------------------------------------------
(* A frame that would begin with byte i of s. *)

Size(s, i) == 5 + s[i + 1]
Body(s, i) == [k \in 1 .. Size(s, i) - 2 |-> s[i + k]]
HasHeader(s, i) == i + 3 <= Len(s)
IsWhole(s, i) == HasHeader(s, i) /\ i + Size(s, i) - 1 <= Len(s)
IsValid(s, i) == s[i + Size(s, i) - 1] = Fcs(Body(s, i))

-----------------------------------------------------------------------------
(* The reader thread. *)

\* poll and read return some of the bytes. Had they no room, those from earlier
\* reads would be thrown away.
Read(n) ==
  /\ stage = "poll" /\ stage' = "scan"
  /\ nread + n <= Len(stream) /\ nread' = nread + n
  /\ LET chunk == SubSeq(stream, nread + 1, nread + n)
     IN parseBuf' = IF Len(parseBuf) + n > BufSize THEN chunk ELSE parseBuf \o chunk
  /\ idx' = 0
  /\ UNCHANGED <<stream, taken>>

\* An error or the end of file ends the thread.
PortFails ==
  /\ stage = "poll" /\ stage' = "ended"
  /\ UNCHANGED <<stream, nread, parseBuf, idx, taken>>

Scanning == stage = "scan" /\ idx < Len(parseBuf)
IsStart == parseBuf[idx + 1] = SOF

\* Fault: a frame with a bad checksum is skipped as a whole.
SkipFrame ==
  /\ Scanning
  /\ \/ ~IsStart /\ idx' = idx + 1
     \/ /\ IsStart /\ IsWhole(parseBuf, idx + 1) /\ ~IsValid(parseBuf, idx + 1)
        /\ idx' = idx + Size(parseBuf, idx + 1)
  /\ UNCHANGED <<stream, nread, parseBuf, stage, taken>>

\* Another byte than SOF, or a frame with a bad checksum: the scan goes on at
\* the next byte.
Skip ==
  /\ Scanning
  /\ ~IsStart \/ (IsWhole(parseBuf, idx + 1) /\ ~IsValid(parseBuf, idx + 1))
  /\ idx' = idx + 1
  /\ UNCHANGED <<stream, nread, parseBuf, stage, taken>>

\* A frame is handed on: SreqTransport and EventQueue say what becomes of it.
Take ==
  /\ Scanning /\ IsStart
  /\ IsWhole(parseBuf, idx + 1) /\ IsValid(parseBuf, idx + 1)
  /\ taken' = Append(taken, [at |-> nread - Len(parseBuf) + idx + 1,
                             body |-> Body(parseBuf, idx + 1)])
  /\ idx' = idx + Size(parseBuf, idx + 1)
  /\ UNCHANGED <<stream, nread, parseBuf, stage>>

\* Nothing is left, or the rest of a frame has to come; what was scanned is dropped.
Keep ==
  /\ stage = "scan" /\ stage' = "poll"
  /\ \/ idx = Len(parseBuf)
     \/ Scanning /\ IsStart /\ ~IsWhole(parseBuf, idx + 1)
  /\ parseBuf' = SubSeq(parseBuf, idx + 1, Len(parseBuf))
  /\ idx' = 0
  /\ UNCHANGED <<stream, nread, taken>>

Next ==
  \/ \E n \in 1 .. MaxRead : Read(n)
  \/ PortFails \/ Skip \/ Take \/ Keep

Spec == Init /\ [][Next]_vars

-----------------------------------------------------------------------------
(* Properties. *)

TypeOK ==
  /\ stream \in Seq(Byte) /\ nread \in 0 .. Len(stream)
  /\ parseBuf \in Seq(Byte) /\ idx \in 0 .. Len(parseBuf)
  /\ stage \in {"poll", "scan", "ended"}
  /\ taken \in Seq([at : Nat \ {0}, body : Seq(Byte)])

\* Between reads less than a frame is kept, so that the overflow protection
\* never throws bytes away.
NeverOverflows ==
  stage = "poll" => Len(parseBuf) < MaxFrame /\ Len(parseBuf) + MaxRead <= BufSize

\* How far the scan has come in the stream.
Scanned == nread - Len(parseBuf) + idx

IsFrame(i) == stream[i] = SOF /\ IsWhole(stream, i) /\ IsValid(stream, i)

\* However the bytes are divided into reads, every valid frame in what was scanned
\* is handed on, unless it begins within one that was, and those are handed on as
\* they are in the stream, in order and not overlapping.
NothingSkipped ==
  \A i \in 1 .. Scanned :
    IsFrame(i) => \E k \in DOMAIN taken :
                    taken[k].at <= i /\ i < taken[k].at + Len(taken[k].body) + 2
TakenAreFrames ==
  /\ \A k \in DOMAIN taken :
       /\ taken[k].at + Len(taken[k].body) + 1 <= Scanned
       /\ IsFrame(taken[k].at) /\ taken[k].body = Body(stream, taken[k].at)
  /\ \A j, k \in DOMAIN taken :
       j < k => taken[j].at + Len(taken[j].body) + 1 < taken[k].at

ParserInv == TypeOK /\ NeverOverflows /\ NothingSkipped /\ TakenAreFrames
=============================================================================
