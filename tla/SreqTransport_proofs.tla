------------------------ MODULE SreqTransport_proofs ------------------------
(***************************************************************************)
(* Proofs about SreqTransport, for any set of threads and commands and any *)
(* number of calls.  TransportInv is inductive; the safety properties are  *)
(* among its conjuncts or follow from one of them.                         *)
(***************************************************************************)
EXTENDS SreqTransport, SequenceTheorems, FiniteSetTheorems, TLAPS

\* Every variable keeps its type.
LEMMA TypeInductive == TypeOK /\ [Next]_vars => TypeOK'
<1> SUFFICES ASSUME TypeOK, [Next]_vars PROVE TypeOK'
  OBVIOUS
<1>1. ASSUME NEW t \in Threads, NEW c \in Cmds, NEW high \in BOOLEAN, Begin(t, c, high)
      PROVE  TypeOK'
  <2>1. NoFrame \in Frame
    BY TransportAssumption DEF NoFrame, Frame
  <2>2. [cmd |-> c, high |-> high, id |-> calls + 1] \in Call
    BY DEF TypeOK, Call
  <2>3. QED
    BY <1>1, <2>1, <2>2 DEF Begin, TypeOK, Goto, PCs, mutexVars, srspVars, lineVars
<1>2. ASSUME NEW t \in Threads, CallStep(t) PROVE TypeOK'
  <2> USE DEF TypeOK, Goto, PCs, mutexVars, srspVars, callVars, lineVars, histVars
  <2>1. CASE LockGate(t)   BY <2>1 DEF LockGate
  <2>2. CASE LockSreq(t)   BY <2>2 DEF LockSreq
  <2>3. CASE Arm(t)        BY <2>3 DEF Arm, Call
  <2>4. CASE Write(t)
    <3>1. [cmd |-> call[t].cmd, id |-> call[t].id] \in Frame
      BY DEF Call, Frame
    <3>2. QED
      BY <2>4, <3>1 DEF Write
  <2>5. CASE WriteFails(t) BY <2>5 DEF WriteFails
  <2>6. CASE Answered(t)   BY <2>6 DEF Answered
  <2>7. CASE TimesOut(t)   BY <2>7 DEF TimesOut, Call
  <2>8. CASE UnlockSreq(t) BY <2>8 DEF UnlockSreq
  <2>9. CASE UnlockGate(t) BY <2>9 DEF UnlockGate
  <2> HIDE DEF TypeOK
  <2>10. QED
    BY <1>2, <2>1, <2>2, <2>3, <2>4, <2>5, <2>6, <2>7, <2>8, <2>9 DEF CallStep
<1>3. CASE Deliver
  BY <1>3, HeadTailProperties DEF Deliver, TypeOK, mutexVars, callVars, histVars
<1>4. CASE ReaderExits
  BY <1>4 DEF ReaderExits, TypeOK, mutexVars, srspVars, callVars, histVars
<1>5. CASE ZnpAnswers
  BY <1>5, HeadTailProperties DEF ZnpAnswers, TypeOK, mutexVars, srspVars, callVars, histVars
<1>6. CASE LoseRequest
  BY <1>6, HeadTailProperties DEF LoseRequest, TypeOK, mutexVars, srspVars, callVars, histVars
<1>7. CASE LoseResponse
  BY <1>7, HeadTailProperties DEF LoseResponse, TypeOK, mutexVars, srspVars, callVars, histVars
<1>8. CASE UNCHANGED vars
  BY <1>8 DEF vars, TypeOK, mutexVars, srspVars, callVars, lineVars, histVars
<1>9. QED
  BY <1>1, <1>2, <1>3, <1>4, <1>5, <1>6, <1>7, <1>8 DEF Next

\* Mutex ownership is determined by the positions of the threads.
LEMMA MutexInductive == TypeOK /\ MutexInv /\ [Next]_vars => MutexInv'
<1> SUFFICES ASSUME TypeOK, MutexInv, [Next]_vars PROVE MutexInv'
  OBVIOUS
<1>1. ASSUME NEW t \in Threads, NEW c \in Cmds, NEW high \in BOOLEAN, Begin(t, c, high)
      PROVE  MutexInv'
  BY <1>1 DEF Begin, TypeOK, MutexInv, InCall, PastGate, Goto, mutexVars, Call
<1>2. ASSUME NEW t \in Threads, CallStep(t) PROVE MutexInv'
  <2> USE TransportAssumption DEF TypeOK, MutexInv, InCall, PastGate, Goto, mutexVars, callVars
  <2>1. CASE LockGate(t)   BY <2>1 DEF LockGate
  <2>2. CASE LockSreq(t)   BY <2>2 DEF LockSreq
  <2>3. CASE Arm(t)        BY <2>3 DEF Arm
  <2>4. CASE Write(t)      BY <2>4 DEF Write
  <2>5. CASE WriteFails(t) BY <2>5 DEF WriteFails
  <2>6. CASE Answered(t)   BY <2>6 DEF Answered
  <2>7. CASE TimesOut(t)   BY <2>7 DEF TimesOut
  <2>8. CASE UnlockSreq(t) BY <2>8 DEF UnlockSreq
  <2>9. CASE UnlockGate(t) BY <2>9 DEF UnlockGate
  <2> HIDE DEF TypeOK, MutexInv
  <2>10. QED
    BY <1>2, <2>1, <2>2, <2>3, <2>4, <2>5, <2>6, <2>7, <2>8, <2>9 DEF CallStep
<1>3. CASE Deliver \/ ReaderExits \/ ZnpAnswers \/ LoseRequest \/ LoseResponse
  BY <1>3 DEF Deliver, ReaderExits, ZnpAnswers, LoseRequest, LoseResponse,
               MutexInv, InCall, PastGate, mutexVars, callVars
<1>4. CASE UNCHANGED vars
  BY <1>4 DEF vars, MutexInv, InCall, PastGate, mutexVars, callVars
<1>5. QED
  BY <1>1, <1>2, <1>3, <1>4 DEF Next

\* The expectation belongs to the thread that armed it, and what a thread is
\* given carries the command it asked for.
ExpectInv == ExpectationInv /\ AnswerHasOwnCommand

LEMMA ExpectInductive ==
  TypeOK /\ MutexInv /\ ExpectInv /\ [Next]_vars => ExpectInv'
<1> SUFFICES ASSUME TypeOK, MutexInv, ExpectInv, [Next]_vars PROVE ExpectInv'
  OBVIOUS
<1>1. ASSUME NEW t \in Threads, NEW c \in Cmds, NEW high \in BOOLEAN, Begin(t, c, high)
      PROVE  ExpectInv'
  BY <1>1 DEF Begin, TypeOK, ExpectInv, ExpectationInv, AnswerHasOwnCommand, Goto, srspVars
<1>2. ASSUME NEW t \in Threads, CallStep(t) PROVE ExpectInv'
  <2> USE DEF TypeOK, ExpectInv, ExpectationInv, AnswerHasOwnCommand, Goto,
              srspVars, callVars
  <2>1. CASE LockGate(t)   BY <2>1 DEF LockGate
  <2>2. CASE LockSreq(t)   BY <2>2 DEF LockSreq
  <2>3. CASE Arm(t)        BY <2>3 DEF Arm, MutexInv, InCall
  <2>4. CASE Write(t)      BY <2>4 DEF Write
  <2>5. CASE WriteFails(t) BY <2>5 DEF WriteFails
  <2>6. CASE Answered(t)   BY <2>6 DEF Answered
  <2>7. CASE TimesOut(t)   BY <2>7 DEF TimesOut
  <2>8. CASE UnlockSreq(t) BY <2>8 DEF UnlockSreq
  <2>9. CASE UnlockGate(t) BY <2>9 DEF UnlockGate
  <2> HIDE DEF TypeOK, ExpectInv
  <2>10. QED
    BY <1>2, <2>1, <2>2, <2>3, <2>4, <2>5, <2>6, <2>7, <2>8, <2>9 DEF CallStep
<1>3. CASE Deliver
  BY <1>3 DEF Deliver, ExpectInv, ExpectationInv, AnswerHasOwnCommand, callVars
<1>4. CASE ReaderExits \/ ZnpAnswers \/ LoseRequest \/ LoseResponse
  BY <1>4 DEF ReaderExits, ZnpAnswers, LoseRequest, LoseResponse,
              ExpectInv, ExpectationInv, AnswerHasOwnCommand, srspVars, callVars
<1>5. CASE UNCHANGED vars
  BY <1>5 DEF vars, ExpectInv, ExpectationInv, AnswerHasOwnCommand, srspVars, callVars
<1>6. QED
  BY <1>1, <1>2, <1>3, <1>4, <1>5 DEF Next

\* As long as no caller has given up, the line carries only the exchange of the
\* thread that waits, so nobody can be given another call's answer.
StepInv == InStepInv /\ CrossingNeedsTimeout

LEMMA InStepInductive ==
  TypeOK /\ MutexInv /\ ExpectInv /\ StepInv /\ [Next]_vars => StepInv'
<1> SUFFICES ASSUME TypeOK, MutexInv, ExpectInv, StepInv, [Next]_vars PROVE StepInv'
  OBVIOUS
<1>1. ASSUME NEW t \in Threads, NEW c \in Cmds, NEW high \in BOOLEAN, Begin(t, c, high)
      PROVE  StepInv'
  BY <1>1 DEF Begin, TypeOK, StepInv, InStepInv, CrossingNeedsTimeout, OwnExchange,
              OwnFrame, LineEmpty, Goto, srspVars, lineVars
<1>2. ASSUME NEW t \in Threads, CallStep(t) PROVE StepInv'
  <2> USE DEF TypeOK, StepInv, InStepInv, CrossingNeedsTimeout, OwnExchange, OwnFrame,
              LineEmpty, Goto, srspVars, callVars, lineVars, histVars
  <2>1. CASE LockGate(t)   BY <2>1 DEF LockGate
  <2>2. CASE LockSreq(t)   BY <2>2 DEF LockSreq
  <2>3. CASE Arm(t)        BY <2>3 DEF Arm, MutexInv, InCall
  <2>4. CASE Write(t)
    <3> SUFFICES ASSUME givenUp = {} PROVE InStepInv' /\ CrossingNeedsTimeout'
      BY <2>4 DEF Write
    <3>1. \A u \in Threads : u # t => pc[u] \notin {"write", "wait"}
      BY <2>4 DEF Write, MutexInv, InCall
    <3>2. ~received /\ LineEmpty
      BY <2>4, <3>1 DEF Write
    <3>3. toZnp' = <<OwnFrame(t)>>
      BY <2>4, <3>2 DEF Write
    <3>4. OwnExchange(t)'
      BY <2>4, <3>2, <3>3 DEF Write
    <3>5. QED
      BY <2>4, <3>1, <3>4 DEF Write
  <2>5. CASE WriteFails(t) BY <2>5 DEF WriteFails
  <2>6. CASE Answered(t)   BY <2>6 DEF Answered, MutexInv, InCall
  <2>7. CASE TimesOut(t)   BY <2>7 DEF TimesOut
  <2>8. CASE UnlockSreq(t) BY <2>8 DEF UnlockSreq
  <2>9. CASE UnlockGate(t) BY <2>9 DEF UnlockGate
  <2> HIDE DEF TypeOK, StepInv
  <2>10. QED
    BY <1>2, <2>1, <2>2, <2>3, <2>4, <2>5, <2>6, <2>7, <2>8, <2>9 DEF CallStep
<1>3. CASE Deliver
  <2> USE <1>3 DEF Deliver, StepInv, InStepInv, OwnExchange, OwnFrame, LineEmpty, callVars,
              histVars
  <2> SUFFICES ASSUME givenUp = {} PROVE InStepInv' /\ CrossingNeedsTimeout'
    BY DEF CrossingNeedsTimeout
  <2>1. PICK t \in Threads : pc[t] = "wait"
    OBVIOUS
  <2>2. \A u \in Threads : pc[u] \in {"wait", "write"} => u = t
    BY <2>1 DEF MutexInv, InCall
  <2>3. ~received /\ toZnp = <<>> /\ fromZnp = <<OwnFrame(t)>>
    BY <2>1
  <2>4. Head(fromZnp) = OwnFrame(t) /\ Tail(fromZnp) = <<>>
    BY <2>3
  <2>5. expected = call[t].cmd
    BY <2>1 DEF ExpectInv, ExpectationInv
  <2>6. received' /\ srspFrame' = OwnFrame(t) /\ LineEmpty'
    BY <2>3, <2>4, <2>5
  <2>7. QED
    BY <2>1, <2>2, <2>6 DEF CrossingNeedsTimeout
<1>4. CASE ReaderExits
  BY <1>4 DEF ReaderExits, StepInv, InStepInv, CrossingNeedsTimeout, OwnExchange,
              OwnFrame, LineEmpty, srspVars, callVars, histVars
<1>5. CASE ZnpAnswers
  <2> USE <1>5 DEF ZnpAnswers, StepInv, InStepInv, OwnExchange, OwnFrame, LineEmpty,
              srspVars, callVars, histVars
  <2> SUFFICES ASSUME givenUp = {} PROVE InStepInv' /\ CrossingNeedsTimeout'
    BY DEF CrossingNeedsTimeout
  <2>1. PICK t \in Threads : pc[t] = "wait"
    OBVIOUS
  <2>2. \A u \in Threads : pc[u] \in {"wait", "write"} => u = t
    BY <2>1 DEF MutexInv, InCall
  <2>3. ~received /\ toZnp = <<OwnFrame(t)>> /\ fromZnp = <<>>
    BY <2>1
  <2>4. toZnp' = <<>> /\ fromZnp' = <<OwnFrame(t)>>
    BY <2>3
  <2>5. QED
    BY <2>1, <2>2, <2>3, <2>4 DEF CrossingNeedsTimeout
<1>6. CASE LoseRequest \/ LoseResponse
  <2> USE <1>6 DEF LoseRequest, LoseResponse, StepInv, InStepInv, OwnExchange, OwnFrame,
              LineEmpty, srspVars, callVars, histVars
  <2> SUFFICES ASSUME givenUp = {} PROVE InStepInv' /\ CrossingNeedsTimeout'
    BY DEF CrossingNeedsTimeout
  <2>1. PICK t \in Threads : pc[t] = "wait"
    OBVIOUS
  <2>2. \A u \in Threads : pc[u] \in {"wait", "write"} => u = t
    BY <2>1 DEF MutexInv, InCall
  <2>3. \/ toZnp = <<OwnFrame(t)>> /\ fromZnp = <<>>
        \/ toZnp = <<>> /\ fromZnp = <<OwnFrame(t)>>
    BY <2>1
  <2>4. Tail(<<OwnFrame(t)>>) = <<>>
    OBVIOUS
  <2>5. ~received /\ LineEmpty'
    BY <2>1, <2>3, <2>4
  <2>6. QED
    BY <2>1, <2>2, <2>5 DEF CrossingNeedsTimeout
<1>7. CASE UNCHANGED vars
  BY <1>7 DEF vars, StepInv, InStepInv, CrossingNeedsTimeout, OwnExchange, OwnFrame,
              LineEmpty, srspVars, callVars, lineVars, histVars
<1>8. QED
  BY <1>1, <1>2, <1>3, <1>4, <1>5, <1>6, <1>7 DEF Next

-----------------------------------------------------------------------------
\* TransportInv, the conjunction of all of these, holds in every state.
THEOREM TransportInvariant == Spec => []TransportInv
<1> USE DEF TransportInv, ExpectInv, StepInv
<1>1. Init => TransportInv
  <2> SUFFICES ASSUME Init PROVE TransportInv
    OBVIOUS
  <2>1. TypeOK
    <3>1. NoFrame \in Frame /\ NoCall \in Call
      BY TransportAssumption DEF NoFrame, NoCall, Frame, Call
    <3>2. pc \in [Threads -> PCs]
      BY DEF Init, PCs
    <3>3. toZnp \in Seq(Frame) /\ fromZnp \in Seq(Frame)
      BY DEF Init
    <3>4. QED
      BY <3>1, <3>2, <3>3 DEF Init, TypeOK
  <2>2. QED
    BY <2>1, TransportAssumption DEF Init, MutexInv, InCall, PastGate, ExpectationInv,
       InStepInv, AnswerHasOwnCommand, CrossingNeedsTimeout, LineEmpty
<1>2. TransportInv /\ [Next]_vars => TransportInv'
  BY TypeInductive, MutexInductive, ExpectInductive, InStepInductive
<1>3. QED
  BY <1>1, <1>2, PTL DEF Spec

\* Every variable of the transport keeps its type.
THEOREM TypeCorrect == Spec => []TypeOK
<1>1. TransportInv => TypeOK
  BY DEF TransportInv
<1>2. QED
  BY <1>1, TransportInvariant, PTL

\* The response a thread is given has the command it asked for.
THEOREM CommandsMatch == Spec => []AnswerHasOwnCommand
<1>1. TransportInv => AnswerHasOwnCommand
  BY DEF TransportInv
<1>2. QED
  BY <1>1, TransportInvariant, PTL

\* Answers cross only after a timeout.
THEOREM NoCrossingWithoutTimeout == Spec => []CrossingNeedsTimeout
<1>1. TransportInv => CrossingNeedsTimeout
  BY DEF TransportInv
<1>2. QED
  BY <1>1, TransportInvariant, PTL

\* At most one normal caller competes with siren warnings for s_sreqMutex.
THEOREM OneNormalCompetitor == Spec => []GateAdmitsOne
<1>1. TransportInv => GateAdmitsOne
  BY TransportAssumption DEF TransportInv, MutexInv, GateAdmitsOne
<1>2. QED
  BY <1>1, TransportInvariant, PTL

\* Both together: what the run checks of the callers' state and the gate.
THEOREM GateSound == Spec => []GateInv
<1>1. TypeOK /\ GateAdmitsOne => GateInv
  BY DEF GateInv
<1>2. QED
  BY <1>1, TypeCorrect, OneNormalCompetitor, PTL

-----------------------------------------------------------------------------
\* The transport implements RequestService: taking s_sreqMutex is Serve, being
\* handed a response is Reply, releasing s_sreqMutex is Return, and every other
\* step of a caller, the reader, the line or the ZNP is invisible to it.
THEOREM ImplementsService == Spec => ServiceSpec
<1> DEFINE phase   == [t \in Threads |-> Phase(t)]
           request == [t \in Threads |-> call[t].cmd]
           reply   == [t \in Threads |-> IF success[t] THEN rxFrame[t].cmd ELSE NoCmd]
<1>1. Init => Service!Init
  BY TransportAssumption DEF Init, Service!Init, Phase, InCall, NoCall
<1>2. TransportInv /\ [Next]_vars => [Service!Next]_(Service!vars)
  <2> SUFFICES ASSUME TransportInv, [Next]_vars PROVE [Service!Next]_(Service!vars)
    OBVIOUS
  <2> USE DEF TransportInv, TypeOK
  <2>1. ASSUME NEW t \in Threads, NEW c \in Cmds, NEW high \in BOOLEAN, Begin(t, c, high)
        PROVE  Service!Request(t, c)
    <3>1. phase[t] = "idle" /\ phase' = [phase EXCEPT ![t] = "waiting"]
      BY <2>1 DEF Begin, Goto, Phase, InCall
    <3>2. request' = [request EXCEPT ![t] = c]
      BY <2>1 DEF Begin
    <3>3. reply' = [reply EXCEPT ![t] = NoCmd]
      BY <2>1 DEF Begin
    <3>4. QED
      BY <3>1, <3>2, <3>3 DEF Service!Request
  <2>2. ASSUME NEW t \in Threads, LockSreq(t)
        PROVE  Service!Serve(t)
    <3>1. phase[t] = "waiting" /\ phase' = [phase EXCEPT ![t] = "served"]
      BY <2>2 DEF LockSreq, Goto, Phase, InCall
    <3>2. \A u \in Threads : phase[u] # "served"
      BY <2>2, TransportAssumption DEF LockSreq, MutexInv, Phase
    <3>3. UNCHANGED <<request, reply>>
      BY <2>2 DEF LockSreq, callVars
    <3>4. QED
      BY <3>1, <3>2, <3>3 DEF Service!Serve
  <2>3. ASSUME NEW t \in Threads, Answered(t)
        PROVE  Service!Reply(t)
    <3>1. phase[t] = "served" /\ UNCHANGED phase
      BY <2>3 DEF Answered, Goto, Phase, InCall
    <3>2. UNCHANGED request
      BY <2>3 DEF Answered
    <3>3. reply[t] = NoCmd
      BY <2>3 DEF Answered, Goto, ExpectationInv
    <3>4. srspFrame.cmd = call[t].cmd
      BY <2>3 DEF Answered, Goto, ExpectationInv
    <3>5. reply' = [reply EXCEPT ![t] = request[t]]
      BY <2>3, <3>4 DEF Answered
    <3>6. QED
      BY <3>1, <3>2, <3>3, <3>5 DEF Service!Reply
  <2>4. ASSUME NEW t \in Threads, UnlockSreq(t)
        PROVE  Service!Return(t)
    <3>1. phase[t] = "served" /\ phase' = [phase EXCEPT ![t] = "idle"]
      BY <2>4 DEF UnlockSreq, Goto, Phase, InCall
    <3>2. UNCHANGED <<request, reply>>
      BY <2>4 DEF UnlockSreq, callVars
    <3>3. QED
      BY <3>1, <3>2 DEF Service!Return
  <2>5. ASSUME NEW t \in Threads,
               \/ LockGate(t) \/ Arm(t) \/ Write(t) \/ WriteFails(t)
               \/ TimesOut(t) \/ UnlockGate(t)
        PROVE  UNCHANGED <<phase, request, reply>>
    <3>1. UNCHANGED <<request, reply>>
      BY <2>5 DEF LockGate, Arm, Write, WriteFails, TimesOut, UnlockGate, callVars
    <3>2. UNCHANGED phase
      BY <2>5 DEF LockGate, Arm, Write, WriteFails, TimesOut, UnlockGate, Goto, Phase, InCall
    <3>3. QED
      BY <3>1, <3>2
  <2>6. ASSUME UNCHANGED <<pc, callVars>>
        PROVE  UNCHANGED <<phase, request, reply>>
    BY <2>6 DEF callVars, Phase, InCall
  <2>7. Deliver \/ ReaderExits \/ ZnpAnswers \/ LoseRequest \/ LoseResponse
          => UNCHANGED <<pc, callVars>>
    BY DEF Deliver, ReaderExits, ZnpAnswers, LoseRequest, LoseResponse
  <2>8. UNCHANGED vars => UNCHANGED <<pc, callVars>>
    BY DEF vars
  <2> HIDE DEF TransportInv, TypeOK, phase, request, reply
  <2>9. QED
    BY <2>1, <2>2, <2>3, <2>4, <2>5, <2>6, <2>7, <2>8
       DEF Next, CallStep, Service!Next, Service!vars, phase, request, reply
<1>3. QED
  BY <1>1, <1>2, TransportInvariant, PTL DEF Spec, ServiceSpec, Service!Spec

-----------------------------------------------------------------------------
(* How far the answers can be out of step: LateAnswersBounded.  Every call   *)
(* has a number of its own, a frame of it is on the line at most once, and   *)
(* an answer that nobody awaits any more replaces one that was given up.     *)

Frames(s) == {s[i] : i \in DOMAIN s}
IdsDiffer(s) == \A i, j \in DOMAIN s : s[i].id = s[j].id => i = j

\* Calls have numbers of their own, and only calls that were made are given up.
CallIdsInv ==
  /\ \A t \in Threads : call[t].id <= calls /\ (pc[t] # "idle" => call[t].id > 0)
  /\ \A t, u \in Threads : t # u /\ call[t].id = call[u].id => call[t].id = 0
  /\ \A i \in givenUp : i <= calls

\* The line carries a frame of a call at most once, and only after it was written.
LineIdsInv ==
  /\ IdsDiffer(toZnp) /\ IdsDiffer(fromZnp)
  /\ \A f \in Frames(toZnp), g \in Frames(fromZnp) : f.id # g.id
  /\ \A f \in FramesOnLine : f.id <= calls
  /\ \A t \in Threads :
       /\ pc[t] \in {"gate", "sreq", "arm", "write"} =>
            \A f \in FramesOnLine : f.id # call[t].id
       /\ pc[t] \in {"gate", "sreq", "arm", "write", "wait"} => call[t].id \notin givenUp

\* The frames on the line that no thread will take as its answer.  A caller that
\* was handed another call's answer leaves its own behind; one that was handed it
\* before it has written its request is about to.
StillAwaited(f) == \E t \in Threads : pc[t] = "wait" /\ ~received /\ call[t].id = f.id
Late == {f \in FramesOnLine : ~StillAwaited(f)}
StaleInHand == received /\ \E t \in Threads : pc[t] = "write"

LateInv ==
  /\ IsFiniteSet(givenUp) /\ IsFiniteSet(FramesOnLine)
  /\ Cardinality(Late) + (IF StaleInHand THEN 1 ELSE 0) <= Cardinality(givenUp)

\* A sequence of frames without its first one, and with one more.
LEMMA TailFrames ==
  ASSUME NEW s \in Seq(Frame), s # <<>>, IdsDiffer(s)
  PROVE  /\ Tail(s) \in Seq(Frame) /\ Head(s) \in Frames(s)
         /\ Frames(s) = Frames(Tail(s)) \cup {Head(s)}
         /\ IdsDiffer(Tail(s))
         /\ \A f \in Frames(Tail(s)) : f.id # Head(s).id
<1> DEFINE r == Tail(s)
           n == Len(s)
<1>1. /\ r \in Seq(Frame) /\ Len(r) = n - 1 /\ \A i \in 1 .. Len(r) : r[i] = s[i + 1]
      /\ Head(s) = s[1] /\ n \in Nat /\ n >= 1
  BY HeadTailProperties, EmptySeq, LenProperties
<1>2. DOMAIN s = 1 .. n /\ DOMAIN r = 1 .. n - 1
  BY <1>1
<1> HIDE DEF r, n
<1>3. /\ 1 \in 1 .. n
      /\ \A i \in 1 .. n - 1 : i + 1 \in 1 .. n /\ i + 1 # 1 /\ r[i] = s[i + 1]
      /\ \A i \in 1 .. n : i # 1 => i - 1 \in 1 .. n - 1 /\ s[i] = r[i - 1]
  <2>1. \A i \in 1 .. n : i # 1 => i - 1 \in 1 .. n - 1 /\ (i - 1) + 1 = i
    BY <1>1
  <2>2. \A i \in 1 .. n - 1 : i + 1 \in 1 .. n /\ i + 1 # 1 /\ r[i] = s[i + 1]
    BY <1>1
  <2>3. \A i \in 1 .. n : i # 1 => s[i] = r[i - 1]
    BY <2>1, <2>2
  <2>4. QED
    BY <1>1, <2>1, <2>2, <2>3
<1>4. Head(s) \in Frames(s)
  BY <1>1, <1>2, <1>3 DEF Frames
<1>5. Frames(s) = Frames(r) \cup {Head(s)}
  <2>1. \A f \in Frames(s) : f \in Frames(r) \/ f = Head(s)
    BY <1>1, <1>2, <1>3 DEF Frames
  <2>2. \A f \in Frames(r) : f \in Frames(s)
    BY <1>2, <1>3 DEF Frames
  <2>3. QED
    BY <1>4, <2>1, <2>2
<1>6. IdsDiffer(r)
  <2>1. ASSUME NEW i \in 1 .. n - 1, NEW j \in 1 .. n - 1, r[i].id = r[j].id PROVE i = j
    <3>1. i + 1 = j + 1
      BY <1>2, <1>3, <2>1 DEF IdsDiffer
    <3>2. QED
      BY <1>1, <3>1
  <2>2. QED
    BY <1>2, <2>1 DEF IdsDiffer
<1>7. \A f \in Frames(r) : f.id # Head(s).id
  <2>1. ASSUME NEW i \in 1 .. n - 1 PROVE r[i].id # s[1].id
    BY <1>2, <1>3 DEF IdsDiffer
  <2>2. QED
    BY <1>1, <1>2, <2>1 DEF Frames
<1>8. QED
  BY <1>1, <1>4, <1>5, <1>6, <1>7 DEF r

LEMMA AppendFrames ==
  ASSUME NEW s \in Seq(Frame), NEW x \in Frame
  PROVE  /\ Frames(Append(s, x)) = Frames(s) \cup {x}
         /\ IdsDiffer(s) /\ (\A f \in Frames(s) : f.id # x.id) => IdsDiffer(Append(s, x))
<1> DEFINE r == Append(s, x)
           n == Len(s)
<1>1. /\ n \in Nat /\ r \in Seq(Frame) /\ Len(r) = n + 1 /\ r[n + 1] = x
      /\ \A i \in 1 .. n : r[i] = s[i]
  BY AppendProperties, LenProperties
<1>2. DOMAIN s = 1 .. n /\ DOMAIN r = 1 .. n + 1
  BY <1>1
<1> HIDE DEF r, n
<1>3. /\ n + 1 \in 1 .. n + 1
      /\ \A i \in 1 .. n + 1 : i \in 1 .. n \/ i = n + 1
      /\ \A i \in 1 .. n : i \in 1 .. n + 1 /\ i # n + 1
  BY <1>1
<1>4. Frames(r) = Frames(s) \cup {x}
  BY <1>1, <1>2, <1>3 DEF Frames
<1>5. ASSUME IdsDiffer(s), \A f \in Frames(s) : f.id # x.id
      PROVE  IdsDiffer(r)
  <2>1. \A i \in 1 .. n : s[i] \in Frames(s)
    BY <1>2 DEF Frames
  <2>2. QED
    BY <1>1, <1>2, <1>3, <1>5, <2>1 DEF IdsDiffer
<1>6. QED
  BY <1>4, <1>5 DEF r

\* Sets that lose an element, gain one, or exchange one for another.
LEMMA CardinalityBounds ==
  ASSUME NEW S, IsFiniteSet(S), NEW T, NEW x, NEW y
  PROVE  /\ Cardinality(S) \in Nat
         /\ T \subseteq S => IsFiniteSet(T) /\ Cardinality(T) \in Nat
                             /\ Cardinality(T) <= Cardinality(S)
         /\ T \subseteq S \cup {y} => IsFiniteSet(T) /\ Cardinality(T) \in Nat
                                      /\ Cardinality(T) <= Cardinality(S) + 1
         /\ x \in S /\ T \subseteq S \ {x} => Cardinality(T) + 1 <= Cardinality(S)
         /\ x \in S /\ T \subseteq (S \ {x}) \cup {y} => Cardinality(T) <= Cardinality(S)
<1>1. Cardinality(S) \in Nat
  BY FS_CardinalityType
<1>2. ASSUME NEW U, IsFiniteSet(U), T \subseteq U
      PROVE  IsFiniteSet(T) /\ Cardinality(T) \in Nat /\ Cardinality(U) \in Nat
             /\ Cardinality(T) <= Cardinality(U)
  BY <1>2, FS_Subset, FS_CardinalityType
<1>3. IsFiniteSet(S \cup {y}) /\ Cardinality(S \cup {y}) <= Cardinality(S) + 1
  BY <1>1, FS_AddElement
<1>4. ASSUME x \in S
      PROVE  IsFiniteSet(S \ {x}) /\ Cardinality(S \ {x}) = Cardinality(S) - 1
  BY <1>4, FS_RemoveElement
<1>5. ASSUME x \in S
      PROVE  IsFiniteSet((S \ {x}) \cup {y}) /\ Cardinality((S \ {x}) \cup {y}) <= Cardinality(S)
  <2>1. IsFiniteSet(S \ {x}) /\ Cardinality(S \ {x}) = Cardinality(S) - 1
        /\ Cardinality(S \ {x}) \in Nat
    BY <1>4, <1>5, FS_CardinalityType
  <2>2. /\ IsFiniteSet((S \ {x}) \cup {y})
        /\ \/ Cardinality((S \ {x}) \cup {y}) = Cardinality(S \ {x})
           \/ Cardinality((S \ {x}) \cup {y}) = Cardinality(S \ {x}) + 1
    BY <2>1, FS_AddElement
  <2>3. QED
    BY <1>1, <2>1, <2>2
<1>6. T \subseteq S => IsFiniteSet(T) /\ Cardinality(T) \in Nat
                             /\ Cardinality(T) <= Cardinality(S)
  BY <1>2
<1>7. ASSUME T \subseteq S \cup {y}
      PROVE  IsFiniteSet(T) /\ Cardinality(T) \in Nat /\ Cardinality(T) <= Cardinality(S) + 1
  <2>1. IsFiniteSet(T) /\ Cardinality(T) \in Nat /\ Cardinality(S \cup {y}) \in Nat
        /\ Cardinality(T) <= Cardinality(S \cup {y})
    BY <1>2, <1>3, <1>7
  <2>2. QED
    BY <1>1, <1>3, <2>1
<1>8. ASSUME x \in S, T \subseteq S \ {x} PROVE Cardinality(T) + 1 <= Cardinality(S)
  <2>1. Cardinality(T) \in Nat /\ Cardinality(T) <= Cardinality(S \ {x})
    BY <1>2, <1>4, <1>8
  <2>2. Cardinality(S \ {x}) = Cardinality(S) - 1
    BY <1>4, <1>8
  <2>3. QED
    BY <1>1, <2>1, <2>2
<1>9. ASSUME x \in S, T \subseteq (S \ {x}) \cup {y} PROVE Cardinality(T) <= Cardinality(S)
  <2>1. Cardinality(T) \in Nat /\ Cardinality((S \ {x}) \cup {y}) \in Nat
        /\ Cardinality(T) <= Cardinality((S \ {x}) \cup {y})
    BY <1>2, <1>5, <1>9
  <2>2. Cardinality((S \ {x}) \cup {y}) <= Cardinality(S)
    BY <1>5, <1>9
  <2>3. QED
    BY <1>1, <2>1, <2>2
<1>10. QED
  BY <1>1, <1>6, <1>7, <1>8, <1>9

\* The numbers of the calls.
LEMMA CallIdsInductive ==
  TypeOK /\ CallIdsInv /\ [Next]_vars => CallIdsInv'
<1> SUFFICES ASSUME TypeOK, CallIdsInv, [Next]_vars PROVE CallIdsInv'
  OBVIOUS
<1>1. /\ calls \in Nat /\ givenUp \subseteq Nat /\ call \in [Threads -> Call]
      /\ \A u \in Threads : call[u].id \in Nat
      /\ pc \in [Threads -> PCs]
  BY DEF TypeOK, Call
<1>2. ASSUME NEW t \in Threads, NEW c \in Cmds, NEW high \in BOOLEAN, Begin(t, c, high)
      PROVE  CallIdsInv'
  <2>1. /\ calls' = calls + 1 /\ givenUp' = givenUp
        /\ call'[t].id = calls + 1
        /\ \A u \in Threads : u # t => call'[u] = call[u] /\ pc'[u] = pc[u]
    BY <1>1, <1>2 DEF Begin, Goto
  <2>2. \A u \in Threads : call'[u].id <= calls' /\ (pc'[u] # "idle" => call'[u].id > 0)
    BY <1>1, <2>1 DEF CallIdsInv
  <2>3. \A u, v \in Threads : u # v /\ call'[u].id = call'[v].id => call'[u].id = 0
    BY <1>1, <2>1 DEF CallIdsInv
  <2>4. \A i \in givenUp' : i <= calls'
    BY <1>1, <2>1 DEF CallIdsInv
  <2>5. QED
    BY <2>2, <2>3, <2>4 DEF CallIdsInv
<1>3. ASSUME NEW t \in Threads, CallStep(t) PROVE CallIdsInv'
  <2>1. /\ UNCHANGED <<call, calls>> /\ givenUp' \subseteq givenUp \cup {call[t].id}
        /\ \A u \in Threads : pc'[u] # "idle" => pc[u] # "idle"
    BY <1>1, <1>3 DEF CallStep, LockGate, LockSreq, Arm, Write, WriteFails, Answered, TimesOut,
         UnlockSreq, UnlockGate, Goto, callVars, histVars
  <2>2. QED
    BY <2>1 DEF CallIdsInv
<1>4. CASE Deliver \/ ReaderExits \/ ZnpAnswers \/ LoseRequest \/ LoseResponse
  BY <1>4 DEF Deliver, ReaderExits, ZnpAnswers, LoseRequest, LoseResponse, CallIdsInv,
       callVars, histVars
<1>5. CASE UNCHANGED vars
  BY <1>5 DEF vars, CallIdsInv, callVars, histVars
<1>6. QED
  BY <1>2, <1>3, <1>4, <1>5 DEF Next

\* The frames of the calls on the line.
LEMMA LineIdsInductive ==
  TypeOK /\ CallIdsInv /\ LineIdsInv /\ [Next]_vars => LineIdsInv'
<1> SUFFICES ASSUME TypeOK, CallIdsInv, LineIdsInv, [Next]_vars PROVE LineIdsInv'
  OBVIOUS
<1>1. /\ calls \in Nat /\ givenUp \subseteq Nat
      /\ \A u \in Threads : call[u].id \in Nat /\ call[u].cmd \in Cmds
      /\ pc \in [Threads -> PCs] /\ call \in [Threads -> Call]
      /\ toZnp \in Seq(Frame) /\ fromZnp \in Seq(Frame)
      /\ \A f \in FramesOnLine : f.id \in Nat
  <2>1. toZnp \in Seq(Frame) /\ fromZnp \in Seq(Frame)
    BY DEF TypeOK
  <2>2. \A i \in DOMAIN toZnp : toZnp[i] \in Frame
    BY <2>1, ElementOfSeq
  <2>3. \A i \in DOMAIN fromZnp : fromZnp[i] \in Frame
    BY <2>1, ElementOfSeq
  <2>4. \A f \in FramesOnLine : f.id \in Nat
    BY <2>2, <2>3 DEF FramesOnLine, Frame
  <2>5. QED
    BY <2>1, <2>4 DEF TypeOK, Call
<1>2. FramesOnLine = Frames(toZnp) \cup Frames(fromZnp)
      /\ FramesOnLine' = Frames(toZnp') \cup Frames(fromZnp')
  BY DEF FramesOnLine, Frames
<1> DEFINE Before == {"gate", "sreq", "arm", "write"}
           During == {"gate", "sreq", "arm", "write", "wait"}
<1>3. ASSUME UNCHANGED <<toZnp, fromZnp, call, calls>>,
             \A u \in Threads : /\ pc'[u] \in Before => pc[u] \in Before
                                /\ pc'[u] \in During =>
                                     pc[u] \in During /\ call[u].id \notin givenUp'
      PROVE  LineIdsInv'
  BY <1>2, <1>3 DEF LineIdsInv
<1>4. ASSUME NEW t \in Threads, NEW c \in Cmds, NEW high \in BOOLEAN, Begin(t, c, high)
      PROVE  LineIdsInv'
  <2>1. /\ calls' = calls + 1 /\ givenUp' = givenUp /\ toZnp' = toZnp /\ fromZnp' = fromZnp
        /\ call'[t].id = calls + 1
        /\ \A u \in Threads : u # t => call'[u] = call[u] /\ pc'[u] = pc[u]
    BY <1>1, <1>4 DEF Begin, Goto, lineVars
  <2>2. FramesOnLine' = FramesOnLine
    BY <1>2, <2>1
  <2>3. \A f \in FramesOnLine : f.id <= calls' /\ f.id # calls + 1
    BY <1>1, <2>1 DEF LineIdsInv
  <2>4. calls + 1 \notin givenUp
    BY <1>1 DEF CallIdsInv
  <2>5. ASSUME NEW u \in Threads
        PROVE  /\ pc'[u] \in Before => \A f \in FramesOnLine' : f.id # call'[u].id
               /\ pc'[u] \in During => call'[u].id \notin givenUp'
    BY <2>1, <2>2, <2>3, <2>4 DEF LineIdsInv
  <2>6. IdsDiffer(toZnp') /\ IdsDiffer(fromZnp')
        /\ \A f \in Frames(toZnp'), g \in Frames(fromZnp') : f.id # g.id
    BY <2>1 DEF LineIdsInv
  <2>7. QED
    BY <2>2, <2>3, <2>5, <2>6 DEF LineIdsInv
<1>5. ASSUME NEW t \in Threads,
             \/ LockGate(t) \/ LockSreq(t) \/ Arm(t) \/ WriteFails(t) \/ Answered(t)
             \/ UnlockSreq(t) \/ UnlockGate(t)
      PROVE  LineIdsInv'
  <2>1. UNCHANGED <<toZnp, fromZnp, call, calls, givenUp>>
    BY <1>5 DEF LockGate, LockSreq, Arm, WriteFails, Answered, UnlockSreq, UnlockGate,
         callVars, lineVars, histVars
  <2>2. \A u \in Threads : /\ pc'[u] \in Before => pc[u] \in Before
                           /\ pc'[u] \in During => pc[u] \in During
    BY <1>1, <1>5 DEF LockGate, LockSreq, Arm, WriteFails, Answered, UnlockSreq, UnlockGate,
         Goto
  <2>3. QED
    BY <1>3, <2>1, <2>2 DEF LineIdsInv
<1>6. ASSUME NEW t \in Threads, TimesOut(t) PROVE LineIdsInv'
  <2>1. /\ UNCHANGED <<toZnp, fromZnp, call, calls>> /\ givenUp' = givenUp \cup {call[t].id}
        /\ pc[t] = "wait" /\ pc'[t] = "unlock"
        /\ \A u \in Threads : u # t => pc'[u] = pc[u]
    BY <1>1, <1>6 DEF TimesOut, Goto, callVars, lineVars
  <2>2. \A u \in Threads : u # t => call[u].id # call[t].id
    BY <1>1, <2>1 DEF CallIdsInv
  <2>3. QED
    BY <1>3, <2>1, <2>2 DEF LineIdsInv
<1>7. ASSUME NEW t \in Threads, Write(t) PROVE LineIdsInv'
  <2> DEFINE own == OwnFrame(t)
  <2>1. /\ UNCHANGED <<fromZnp, call, calls, givenUp>> /\ toZnp' = Append(toZnp, own)
        /\ pc[t] = "write" /\ pc'[t] = "wait"
        /\ \A u \in Threads : u # t => pc'[u] = pc[u]
    BY <1>1, <1>7 DEF Write, Goto, callVars, histVars, OwnFrame
  <2>2. own \in Frame /\ own.id = call[t].id
    BY <1>1 DEF OwnFrame, Frame
  <2> HIDE DEF own
  <2>3. \A f \in FramesOnLine : f.id # own.id
    BY <2>1, <2>2 DEF LineIdsInv
  <2>4. Frames(toZnp') = Frames(toZnp) \cup {own} /\ IdsDiffer(toZnp')
    BY <1>1, <1>2, <2>1, <2>2, <2>3, AppendFrames DEF LineIdsInv
  <2>5. FramesOnLine' = FramesOnLine \cup {own}
    BY <1>2, <2>1, <2>4
  <2>6. \A f \in Frames(toZnp'), g \in Frames(fromZnp') : f.id # g.id
    BY <1>2, <2>1, <2>3, <2>4 DEF LineIdsInv
  <2>7. \A u \in Threads : u # t => call[u].id # call[t].id \/ pc[u] = "idle"
    BY <1>1, <2>1 DEF CallIdsInv
  <2>8. ASSUME NEW u \in Threads
        PROVE  /\ pc'[u] \in Before => \A f \in FramesOnLine' : f.id # call'[u].id
               /\ pc'[u] \in During => call'[u].id \notin givenUp'
    BY <2>1, <2>2, <2>5, <2>7 DEF LineIdsInv
  <2>9. \A f \in FramesOnLine' : f.id <= calls'
    BY <2>1, <2>2, <2>5 DEF LineIdsInv, CallIdsInv
  <2>10. QED
    BY <2>1, <2>4, <2>6, <2>8, <2>9 DEF LineIdsInv
<1>8. ASSUME UNCHANGED <<pc, call, calls, givenUp>>, FramesOnLine' \subseteq FramesOnLine,
             IdsDiffer(toZnp'), IdsDiffer(fromZnp'),
             \A f \in Frames(toZnp'), g \in Frames(fromZnp') : f.id # g.id
      PROVE  LineIdsInv'
  BY <1>8 DEF LineIdsInv
<1>9. ASSUME fromZnp # <<>>, fromZnp' = Tail(fromZnp),
             UNCHANGED <<pc, call, calls, givenUp, toZnp>>
      PROVE  LineIdsInv'
  <2>1. Frames(fromZnp') \subseteq Frames(fromZnp) /\ IdsDiffer(fromZnp')
    BY <1>1, <1>9, TailFrames DEF LineIdsInv
  <2>2. IdsDiffer(toZnp') /\ \A f \in Frames(toZnp'), g \in Frames(fromZnp') : f.id # g.id
    BY <1>9, <2>1 DEF LineIdsInv
  <2>3. FramesOnLine' \subseteq FramesOnLine
    BY <1>2, <1>9, <2>1
  <2>4. QED
    BY <1>8, <1>9, <2>1, <2>2, <2>3
<1>10. CASE LoseRequest
  <2>1. toZnp # <<>> /\ toZnp' = Tail(toZnp) /\ UNCHANGED <<pc, call, calls, givenUp, fromZnp>>
    BY <1>10 DEF LoseRequest, callVars, histVars
  <2>2. Frames(toZnp') \subseteq Frames(toZnp) /\ IdsDiffer(toZnp')
    BY <1>1, <2>1, TailFrames DEF LineIdsInv
  <2>3. IdsDiffer(fromZnp') /\ \A f \in Frames(toZnp'), g \in Frames(fromZnp') : f.id # g.id
    BY <2>1, <2>2 DEF LineIdsInv
  <2>4. FramesOnLine' \subseteq FramesOnLine
    BY <1>2, <2>1, <2>2
  <2>5. QED
    BY <1>8, <2>1, <2>2, <2>3, <2>4
<1>11. CASE ZnpAnswers
  <2> DEFINE h == Head(toZnp)
  <2>1. /\ toZnp # <<>> /\ toZnp' = Tail(toZnp) /\ fromZnp' = Append(fromZnp, h)
        /\ UNCHANGED <<pc, call, calls, givenUp>>
    BY <1>11 DEF ZnpAnswers, callVars, histVars
  <2>2. /\ Frames(toZnp) = Frames(toZnp') \cup {h} /\ IdsDiffer(toZnp') /\ h \in Frame
        /\ \A f \in Frames(toZnp') : f.id # h.id
    BY <1>1, <2>1, TailFrames, HeadTailProperties DEF LineIdsInv
  <2> HIDE DEF h
  <2>3. /\ Frames(fromZnp') = Frames(fromZnp) \cup {h} /\ IdsDiffer(fromZnp')
    BY <1>1, <2>1, <2>2, AppendFrames DEF LineIdsInv
  <2>4. \A f \in Frames(toZnp'), g \in Frames(fromZnp') : f.id # g.id
    BY <2>2, <2>3 DEF LineIdsInv
  <2>5. FramesOnLine' \subseteq FramesOnLine
    BY <1>2, <2>2, <2>3
  <2>6. QED
    BY <1>8, <2>1, <2>2, <2>3, <2>4, <2>5
<1>12. CASE Deliver \/ LoseResponse
  BY <1>9, <1>12 DEF Deliver, LoseResponse, callVars, histVars
<1>13. CASE ReaderExits \/ UNCHANGED vars
  <2>1. UNCHANGED <<pc, call, calls, givenUp, toZnp, fromZnp>>
    BY <1>13 DEF ReaderExits, vars, callVars, lineVars, histVars
  <2>2. QED
    BY <1>3, <2>1 DEF LineIdsInv
<1>14. QED
  BY <1>4, <1>5, <1>6, <1>7, <1>10, <1>11, <1>12, <1>13 DEF Next, CallStep

\* A response leaves the line, and is not on it any more.
LEMMA ResponseLeaves ==
  ASSUME TypeOK, LineIdsInv, fromZnp # <<>>, fromZnp' = Tail(fromZnp), toZnp' = toZnp
  PROVE  /\ Head(fromZnp) \in FramesOnLine
         /\ FramesOnLine' \subseteq FramesOnLine \ {Head(fromZnp)}
<1>1. /\ FramesOnLine = Frames(toZnp) \cup Frames(fromZnp)
      /\ FramesOnLine' = Frames(toZnp') \cup Frames(fromZnp')
  BY DEF FramesOnLine, Frames
<1>2. /\ Head(fromZnp) \in Frames(fromZnp)
      /\ Frames(fromZnp) = Frames(Tail(fromZnp)) \cup {Head(fromZnp)}
      /\ \A f \in Frames(Tail(fromZnp)) : f.id # Head(fromZnp).id
  BY TailFrames DEF TypeOK, LineIdsInv
<1>3. \A f \in Frames(toZnp) : f.id # Head(fromZnp).id
  BY <1>2 DEF LineIdsInv
<1>4. QED
  BY <1>1, <1>2, <1>3

\* A step that makes no frame late and gives up no call keeps the bound.
LEMMA NoneGetsLate ==
  ASSUME LateInv, Late' \subseteq Late, givenUp' = givenUp, StaleInHand' => StaleInHand,
         FramesOnLine' \subseteq FramesOnLine
  PROVE  LateInv'
<1>1. IsFiniteSet(Late) /\ IsFiniteSet(FramesOnLine') /\ Late \subseteq FramesOnLine
  BY FS_Subset DEF LateInv, Late
<1>2. /\ Cardinality(Late) \in Nat /\ Cardinality(Late') \in Nat
      /\ Cardinality(Late') <= Cardinality(Late) /\ Cardinality(givenUp) \in Nat
  BY <1>1, CardinalityBounds, FS_CardinalityType DEF LateInv
<1>3. CASE StaleInHand
  BY <1>1, <1>2, <1>3 DEF LateInv
<1>4. CASE ~StaleInHand
  BY <1>1, <1>2, <1>4 DEF LateInv
<1>5. QED
  BY <1>3, <1>4

LEMMA LateInductive ==
  TypeOK /\ MutexInv /\ CallIdsInv /\ LineIdsInv /\ LateInv /\ [Next]_vars => LateInv'
<1> SUFFICES ASSUME TypeOK, MutexInv, CallIdsInv, LineIdsInv, LateInv, [Next]_vars
             PROVE  LateInv'
  OBVIOUS
<1>1. /\ received \in BOOLEAN /\ pc \in [Threads -> PCs] /\ call \in [Threads -> Call]
      /\ \A u \in Threads : call[u].id \in Nat
  BY DEF TypeOK, Call
\* One thread at a time is in its exchange.
<1>2. \A u, v \in Threads :
        pc[u] \in {"arm", "write", "wait", "unlock"} /\ pc[v] \in {"arm", "write", "wait", "unlock"}
          => u = v
  BY DEF MutexInv, InCall
<1>3. /\ IsFiniteSet(FramesOnLine) /\ IsFiniteSet(givenUp) /\ Late \subseteq FramesOnLine
      /\ IsFiniteSet(Late) /\ Cardinality(Late) \in Nat /\ Cardinality(givenUp) \in Nat
      /\ StaleInHand => Cardinality(Late) + 1 <= Cardinality(givenUp)
      /\ Cardinality(Late) <= Cardinality(givenUp)
  <2>1. IsFiniteSet(FramesOnLine) /\ IsFiniteSet(givenUp) /\ Late \subseteq FramesOnLine
        /\ Cardinality(Late) + (IF StaleInHand THEN 1 ELSE 0) <= Cardinality(givenUp)
    BY DEF LateInv, Late
  <2>2. IsFiniteSet(Late)
    BY <2>1, FS_Subset
  <2>3. Cardinality(Late) \in Nat /\ Cardinality(givenUp) \in Nat
    BY <2>1, <2>2, FS_CardinalityType
  <2>4. CASE StaleInHand
    BY <2>1, <2>2, <2>3, <2>4
  <2>5. CASE ~StaleInHand
    BY <2>1, <2>2, <2>3, <2>5
  <2>6. QED
    BY <2>4, <2>5
\* What has to be shown of a step that keeps the calls given up.
<1>4. ASSUME givenUp' = givenUp, IsFiniteSet(FramesOnLine'), Cardinality(Late') \in Nat,
             \/ Cardinality(Late') + 1 <= Cardinality(givenUp)
             \/ ~StaleInHand' /\ Cardinality(Late') <= Cardinality(givenUp)
      PROVE  LateInv'
  <2>1. CASE StaleInHand'
    BY <1>3, <1>4, <2>1 DEF LateInv
  <2>2. CASE ~StaleInHand'
    BY <1>3, <1>4, <2>2 DEF LateInv
  <2>3. QED
    BY <2>1, <2>2
<1>5. ASSUME NEW t \in Threads, NEW c \in Cmds, NEW high \in BOOLEAN, Begin(t, c, high)
      PROVE  LateInv'
  <2>1. /\ UNCHANGED <<givenUp, toZnp, fromZnp, received>>
        /\ pc[t] = "idle" /\ pc'[t] \notin {"write", "wait"}
        /\ \A u \in Threads : u # t => call'[u] = call[u] /\ pc'[u] = pc[u]
    BY <1>1, <1>5 DEF Begin, Goto, lineVars, srspVars
  <2>2. FramesOnLine' = FramesOnLine /\ \A f : StillAwaited(f)' <=> StillAwaited(f)
    BY <2>1 DEF FramesOnLine, StillAwaited
  <2>3. StaleInHand' => StaleInHand
    BY <2>1 DEF StaleInHand
  <2>4. QED
    BY <2>1, <2>2, <2>3, NoneGetsLate DEF Late
<1>6. ASSUME NEW t \in Threads,
             \/ LockGate(t) \/ LockSreq(t) \/ Arm(t) \/ WriteFails(t) \/ Answered(t)
             \/ UnlockSreq(t) \/ UnlockGate(t)
      PROVE  LateInv'
  <2>1. UNCHANGED <<givenUp, toZnp, fromZnp, call>>
    BY <1>6 DEF LockGate, LockSreq, Arm, WriteFails, Answered, UnlockSreq, UnlockGate,
         callVars, lineVars, histVars
  <2>2. FramesOnLine' = FramesOnLine
    BY <2>1 DEF FramesOnLine
  <2>3. ASSUME NEW f, StillAwaited(f) PROVE StillAwaited(f)'
    <3>1. PICK u \in Threads : pc[u] = "wait" /\ ~received /\ call[u].id = f.id
      BY <2>3 DEF StillAwaited
    <3>2. pc'[u] = "wait" /\ ~received'
      BY <1>1, <1>2, <1>6, <3>1 DEF LockGate, LockSreq, Arm, WriteFails, Answered, UnlockSreq,
           UnlockGate, Goto, srspVars
    <3>3. QED
      BY <2>1, <3>1, <3>2 DEF StillAwaited
  <2>4. StaleInHand' => StaleInHand
    BY <1>1, <1>6 DEF LockGate, LockSreq, Arm, WriteFails, Answered, UnlockSreq, UnlockGate,
         Goto, srspVars, StaleInHand
  <2>5. QED
    BY <2>1, <2>2, <2>3, <2>4, NoneGetsLate DEF Late
\* A request that is written is late at once if an answer is in hand already.
<1>7. ASSUME NEW t \in Threads, Write(t) PROVE LateInv'
  <2> DEFINE own == OwnFrame(t)
  <2>1. /\ UNCHANGED <<fromZnp, call, givenUp, received>> /\ toZnp' = Append(toZnp, own)
        /\ pc[t] = "write" /\ pc'[t] = "wait"
        /\ \A u \in Threads : u # t => pc'[u] = pc[u] /\ pc[u] \notin {"write", "wait"}
    BY <1>1, <1>2, <1>7 DEF Write, Goto, callVars, histVars, srspVars, OwnFrame
  <2>2. own \in Frame /\ own.id = call[t].id
    BY <1>1 DEF OwnFrame, Frame, Call
  <2> HIDE DEF own
  <2>3. FramesOnLine' = FramesOnLine \cup {own}
    <3>1. Frames(toZnp') = Frames(toZnp) \cup {own}
      BY <2>1, <2>2, AppendFrames DEF TypeOK
    <3>2. QED
      BY <2>1, <3>1 DEF FramesOnLine, Frames
  <2>4. IsFiniteSet(FramesOnLine')
    BY <1>3, <2>3, FS_AddElement
  <2>5. ~StaleInHand'
    BY <2>1 DEF StaleInHand
  <2>6. Late = FramesOnLine
    BY <2>1 DEF Late, StillAwaited
  <2>7. CASE received
    <3>1. StaleInHand /\ Late' \subseteq Late \cup {own}
      BY <2>1, <2>3, <2>6, <2>7 DEF StaleInHand, Late
    <3>2. Cardinality(Late') \in Nat /\ Cardinality(Late') <= Cardinality(Late) + 1
      BY <1>3, <3>1, CardinalityBounds
    <3>3. Cardinality(Late') <= Cardinality(givenUp)
      BY <1>3, <3>1, <3>2
    <3>4. QED
      BY <1>4, <2>1, <2>4, <2>5, <3>2, <3>3
  <2>8. CASE ~received
    <3>1. \A f : f.id = call[t].id => StillAwaited(f)'
      BY <2>1, <2>8 DEF StillAwaited
    <3>2. Late' \subseteq Late
      BY <2>2, <2>3, <2>6, <3>1 DEF Late
    <3>3. Cardinality(Late') \in Nat /\ Cardinality(Late') <= Cardinality(Late)
      BY <1>3, <3>2, CardinalityBounds
    <3>4. Cardinality(Late') <= Cardinality(givenUp)
      BY <1>3, <3>3
    <3>5. QED
      BY <1>4, <2>1, <2>4, <2>5, <3>3, <3>4
  <2>9. QED
    BY <2>7, <2>8
\* A call that is given up leaves at most its own frame behind.
<1>8. ASSUME NEW t \in Threads, TimesOut(t) PROVE LateInv'
  <2>1. /\ UNCHANGED <<toZnp, fromZnp, call, received>> /\ givenUp' = givenUp \cup {call[t].id}
        /\ pc[t] = "wait" /\ pc'[t] = "unlock" /\ ~received
        /\ \A u \in Threads : u # t => pc'[u] = pc[u] /\ pc[u] \notin {"write", "wait"}
    BY <1>1, <1>2, <1>8 DEF TimesOut, Goto, callVars, lineVars, srspVars
  <2>2. FramesOnLine' = FramesOnLine
    BY <2>1 DEF FramesOnLine
  <2>3. call[t].id \notin givenUp
    BY <2>1 DEF LineIdsInv
  <2>4. IsFiniteSet(givenUp') /\ Cardinality(givenUp') = Cardinality(givenUp) + 1
    BY <1>3, <2>1, <2>3, FS_AddElement
  <2>5. \E y : Late' \subseteq Late \cup {y}
    <3>1. \A f \in Late' : f \in Late \/ f.id = call[t].id
      BY <2>1, <2>2 DEF Late, StillAwaited
    <3>2. \A f, g \in FramesOnLine : f.id = g.id => f = g
      BY DEF LineIdsInv, FramesOnLine, Frames, IdsDiffer
    <3>3. CASE \E y \in FramesOnLine : y.id = call[t].id
      BY <2>2, <3>1, <3>2, <3>3 DEF Late
    <3>4. CASE ~\E y \in FramesOnLine : y.id = call[t].id
      BY <2>2, <3>1, <3>4 DEF Late
    <3>5. QED
      BY <3>3, <3>4
  <2>6. Cardinality(Late') \in Nat /\ Cardinality(Late') <= Cardinality(Late) + 1
    BY <1>3, <2>5, CardinalityBounds
  <2>7. ~StaleInHand'
    BY <2>1 DEF StaleInHand
  <2>8. QED
    BY <1>3, <2>2, <2>4, <2>6, <2>7 DEF LateInv
\* An answer that is taken as another call's makes room for that call's own.
<1>9. CASE Deliver
  <2> DEFINE h == Head(fromZnp)
  <2>1. /\ fromZnp # <<>> /\ fromZnp' = Tail(fromZnp)
        /\ UNCHANGED <<toZnp, pc, call, givenUp>>
        /\ received' = TRUE \/ received' = received
    BY <1>9 DEF Deliver, callVars, histVars
  <2>2. h \in FramesOnLine /\ FramesOnLine' \subseteq FramesOnLine \ {h}
    BY <2>1, ResponseLeaves
  <2> HIDE DEF h
  <2>3. CASE received' = received
    <3>1. Late' \subseteq Late /\ (StaleInHand' => StaleInHand)
      BY <2>1, <2>2, <2>3 DEF Late, StillAwaited, StaleInHand
    <3>2. QED
      BY <2>1, <2>2, <3>1, NoneGetsLate
  <2>4. CASE received' = TRUE /\ received = FALSE
    <3>1. IsFiniteSet(FramesOnLine') /\ Late' \subseteq FramesOnLine \ {h}
      BY <1>3, <2>2, FS_Subset DEF Late
    <3>2. CASE \E t \in Threads : pc[t] = "wait"
      <4>1. PICK t \in Threads : pc[t] = "wait"
        BY <3>2
      <4>2. \A u \in Threads : pc[u] \in {"write", "wait"} => u = t
        BY <1>2, <4>1
      <4>3. ~StaleInHand'
        BY <2>1, <4>1, <4>2 DEF StaleInHand
      <4>4. Late = {f \in FramesOnLine : f.id # call[t].id}
        BY <2>4, <4>1, <4>2 DEF Late, StillAwaited
      <4>5. \A f, g \in FramesOnLine : f.id = g.id => f = g
        BY DEF LineIdsInv, FramesOnLine, Frames, IdsDiffer
      <4>6. \/ Late' \subseteq Late
            \/ \E y : h \in Late /\ Late' \subseteq (Late \ {h}) \cup {y}
        <5>1. CASE h.id = call[t].id
          BY <2>2, <3>1, <4>4, <4>5, <5>1
        <5>2. CASE h.id # call[t].id
          <6>1. h \in Late
            BY <2>2, <4>4, <5>2
          <6>2. CASE \E y \in FramesOnLine : y.id = call[t].id
            <7>1. PICK y \in FramesOnLine : y.id = call[t].id
              BY <6>2
            <7>2. Late' \subseteq (Late \ {h}) \cup {y}
              BY <3>1, <4>4, <4>5, <7>1
            <7>3. QED
              BY <6>1, <7>2
          <6>3. CASE ~\E y \in FramesOnLine : y.id = call[t].id
            BY <3>1, <4>4, <6>3
          <6>4. QED
            BY <6>2, <6>3
        <5>3. QED
          BY <5>1, <5>2
      <4>7. Cardinality(Late') <= Cardinality(Late)
        BY <1>3, <4>6, CardinalityBounds
      <4>8. Cardinality(Late') \in Nat
        BY <3>1, FS_Subset, FS_CardinalityType DEF Late
      <4>9. Cardinality(Late') <= Cardinality(givenUp)
        BY <1>3, <4>7, <4>8
      <4>10. QED
        BY <1>4, <2>1, <3>1, <4>3, <4>8, <4>9
    <3>3. CASE ~\E t \in Threads : pc[t] = "wait"
      <4>1. Late = FramesOnLine
        BY <3>3 DEF Late, StillAwaited
      <4>2. h \in Late /\ Late' \subseteq Late \ {h} /\ Late' \subseteq Late
        BY <2>2, <3>1, <4>1
      <4>3. Cardinality(Late') \in Nat /\ Cardinality(Late') + 1 <= Cardinality(Late)
        BY <1>3, <4>2, CardinalityBounds
      <4>4. Cardinality(Late') + 1 <= Cardinality(givenUp)
        BY <1>3, <4>3
      <4>5. QED
        BY <1>4, <2>1, <3>1, <4>3, <4>4
    <3>4. QED
      BY <3>2, <3>3
  <2>5. QED
    BY <1>1, <2>1, <2>3, <2>4
<1>10. CASE LoseRequest \/ LoseResponse \/ ZnpAnswers \/ ReaderExits \/ UNCHANGED vars
  <2>1. UNCHANGED <<pc, call, givenUp, received>>
    BY <1>10 DEF LoseRequest, LoseResponse, ZnpAnswers, ReaderExits, vars, callVars, histVars,
         srspVars
  <2>2. FramesOnLine' \subseteq FramesOnLine
    <3>1. CASE LoseResponse
      BY <3>1, ResponseLeaves DEF LoseResponse
    <3>2. CASE LoseRequest
      <4>1. Frames(toZnp') \subseteq Frames(toZnp)
        BY <3>2, TailFrames DEF LoseRequest, TypeOK, LineIdsInv
      <4>2. QED
        BY <3>2, <4>1 DEF LoseRequest, FramesOnLine, Frames
    <3>3. CASE ZnpAnswers
      <4>1. Frames(toZnp) = Frames(toZnp') \cup {Head(toZnp)} /\ Head(toZnp) \in Frame
        BY <3>3, TailFrames, HeadTailProperties DEF ZnpAnswers, TypeOK, LineIdsInv
      <4>2. Frames(fromZnp') = Frames(fromZnp) \cup {Head(toZnp)}
        BY <3>3, <4>1, AppendFrames DEF ZnpAnswers, TypeOK
      <4>3. QED
        BY <4>1, <4>2 DEF FramesOnLine, Frames
    <3>4. CASE ReaderExits \/ UNCHANGED vars
      BY <3>4 DEF ReaderExits, vars, lineVars, FramesOnLine
    <3>5. QED
      BY <1>10, <3>1, <3>2, <3>3, <3>4
  <2>3. Late' \subseteq Late /\ (StaleInHand' => StaleInHand)
    BY <2>1, <2>2 DEF Late, StillAwaited, StaleInHand
  <2>4. QED
    BY <2>1, <2>2, <2>3, NoneGetsLate
<1>11. QED
  BY <1>5, <1>6, <1>7, <1>8, <1>9, <1>10 DEF Next, CallStep

\* However answers cross, no more of them are on the line, awaited by nobody,
\* than calls have timed out: the link is never further out of step than that.
THEOREM LateAnswers == Spec => []LateAnswersBounded
<1> DEFINE Inv == TransportInv /\ CallIdsInv /\ LineIdsInv /\ LateInv
<1>1. Init => CallIdsInv /\ LineIdsInv /\ LateInv
  <2> SUFFICES ASSUME Init PROVE CallIdsInv /\ LineIdsInv /\ LateInv
    OBVIOUS
  <2>1. FramesOnLine = {} /\ Frames(toZnp) = {} /\ Frames(fromZnp) = {}
    BY DEF Init, FramesOnLine, Frames
  <2>2. CallIdsInv
    BY DEF Init, CallIdsInv, NoCall
  <2>3. LineIdsInv
    BY <2>1 DEF Init, LineIdsInv, IdsDiffer
  <2>4. Late = {} /\ ~StaleInHand /\ givenUp = {}
    BY <2>1 DEF Init, Late, StaleInHand
  <2>5. LateInv
    BY <2>1, <2>4, FS_EmptySet DEF LateInv
  <2>6. QED
    BY <2>2, <2>3, <2>5
<1>2. TransportInv /\ CallIdsInv /\ LineIdsInv /\ LateInv /\ [Next]_vars
        => (CallIdsInv /\ LineIdsInv /\ LateInv)'
  BY CallIdsInductive, LineIdsInductive, LateInductive DEF TransportInv
<1>3. LateInv => LateAnswersBounded
  <2> SUFFICES ASSUME LateInv PROVE LateAnswersBounded
    OBVIOUS
  <2> DEFINE U == {f \in FramesOnLine : ~Awaited(f)}
  <2>1. U \subseteq Late /\ IsFiniteSet(Late)
    BY FS_Subset DEF Late, LateInv, Awaited, StillAwaited
  <2> HIDE DEF U
  <2>2. /\ Cardinality(U) \in Nat /\ Cardinality(Late) \in Nat /\ Cardinality(givenUp) \in Nat
        /\ Cardinality(U) <= Cardinality(Late)
    BY <2>1, CardinalityBounds, FS_CardinalityType DEF LateInv
  <2>3. Cardinality(Late) <= Cardinality(givenUp)
    <3>1. CASE StaleInHand
      BY <2>2, <3>1 DEF LateInv
    <3>2. CASE ~StaleInHand
      BY <2>2, <3>2 DEF LateInv
    <3>3. QED
      BY <3>1, <3>2
  <2>4. Cardinality(U) <= Cardinality(givenUp)
    BY <2>2, <2>3
  <2>5. QED
    BY <2>4 DEF LateAnswersBounded, U
<1>4. QED
  BY <1>1, <1>2, <1>3, TransportInvariant, PTL DEF Spec

=============================================================================
