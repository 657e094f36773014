---------------------------- MODULE SreqTransport ----------------------------
(***************************************************************************)
(* The synchronous-request transport of the ZNP link (znp_host.c).         *)
(*                                                                         *)
(* Application threads call ZNP_SreqPrio: take s_sreqGate (normal callers  *)
(* only), take s_sreqMutex, arm the expected response, write the request   *)
(* and wait, with a timeout, until the serial reader thread hands over a   *)
(* response (SRSP) of the expected command.  The radio co-processor (ZNP)  *)
(* and the serial line are external: requests are answered in order, an    *)
(* answer may come late or be lost, and the reader thread may die.         *)
(*                                                                         *)
(* MT frames carry no request number.  The field id of a frame and the     *)
(* variable givenUp are history: they name the call that wrote a request,  *)
(* so that properties can tell a caller's own answer from another one.     *)
(***************************************************************************)
EXTENDS Naturals, Sequences, FiniteSets

CONSTANTS
  Threads,   \* the application threads: dispatcher, device threads, CLI
  Cmds,      \* the (cmd0, cmd1) pairs of the requests in use
  AfData,    \* AF_DATA_REQUEST, the one command sent with high priority
  NoCmd,     \* s_expectedSrspCmd0/1 = 0/0: no SRSP has this command
  Nobody,    \* the holder of a mutex that is free
  MaxCalls   \* bound: calls made in one behaviour

ASSUME TransportAssumption ==
  /\ AfData \in Cmds
  /\ NoCmd \notin Cmds
  /\ Nobody \notin Threads
  /\ MaxCalls \in Nat

VARIABLES
  gate,      \* holder of s_sreqGate
  sreq,      \* holder of s_sreqMutex
  expected,  \* s_expectedSrspCmd0/1, guarded by s_srspMutex
  received,  \* s_srspReceived, guarded by s_srspMutex
  srspFrame, \* s_srspFrame, guarded by s_srspMutex
  pc,        \* where each thread is in ZNP_SreqPrio
  call,      \* its arguments: command, priority (and the history id)
  success,   \* its return value
  rxFrame,   \* *rxFrame_, what the caller is given
  toZnp,     \* requests on the serial line
  fromZnp,   \* responses on the serial line
  reader,    \* the reader thread is running
  calls,     \* number of calls made so far
  givenUp    \* ids of the written requests whose wait ended without an answer

mutexVars == <<gate, sreq>>
srspVars  == <<expected, received, srspFrame>>
callVars  == <<call, success, rxFrame>>
lineVars  == <<toZnp, fromZnp, reader>>
histVars  == <<calls, givenUp>>
vars == <<mutexVars, srspVars, pc, callVars, lineVars, histVars>>

Frame == [cmd : Cmds, id : Nat]
Call  == [cmd : Cmds, high : BOOLEAN, id : Nat]

\* What s_srspFrame, *rxFrame_ and a thread's arguments hold before first use.
NoFrame == [cmd |-> AfData, id |-> 0]
NoCall  == [cmd |-> AfData, high |-> FALSE, id |-> 0]

\* Positions in ZNP_SreqPrio.  A thread at "gate" or "sreq" waits for that
\* mutex; at "wait" it is in pthread_cond_timedwait.
PCs == {"idle", "gate", "sreq", "arm", "write", "wait", "unlock", "ungate"}

Init ==
  /\ gate = Nobody /\ sreq = Nobody
  /\ expected = NoCmd /\ received = FALSE /\ srspFrame = NoFrame
  /\ pc = [t \in Threads |-> "idle"]
  /\ call = [t \in Threads |-> NoCall]
  /\ success = [t \in Threads |-> FALSE]
  /\ rxFrame = [t \in Threads |-> NoFrame]
  /\ toZnp = <<>> /\ fromZnp = <<>> /\ reader = TRUE
  /\ calls = 0 /\ givenUp = {}

Goto(t, from, to) == pc[t] = from /\ pc' = [pc EXCEPT ![t] = to]

-----------------------------------------------------------------------------
(* The callers. *)

\* A thread calls ZNP_Sreq (normal) or, for a siren warning, ZNP_SreqPrio with
\* highPrio_ set.
Begin(t, c, high) ==
  /\ calls < MaxCalls
  /\ high => c = AfData
  /\ Goto(t, "idle", IF high THEN "sreq" ELSE "gate")
  /\ calls' = calls + 1
  /\ call' = [call EXCEPT ![t] = [cmd |-> c, high |-> high, id |-> calls + 1]]
  /\ success' = [success EXCEPT ![t] = FALSE]
  /\ rxFrame' = [rxFrame EXCEPT ![t] = NoFrame]
  /\ UNCHANGED <<mutexVars, srspVars, lineVars, givenUp>>

\* Fault: the gate is not held while the caller queues for s_sreqMutex.
LockGateShared(t) ==
  /\ Goto(t, "gate", "sreq")
  /\ gate' = t
  /\ UNCHANGED <<sreq, srspVars, callVars, lineVars, histVars>>

LockGate(t) ==
  /\ gate = Nobody
  /\ Goto(t, "gate", "sreq")
  /\ gate' = t
  /\ UNCHANGED <<sreq, srspVars, callVars, lineVars, histVars>>

\* Fault: a high-priority caller does not take s_sreqMutex.
LockSreqUnlessHigh(t) ==
  /\ sreq = Nobody \/ call[t].high
  /\ Goto(t, "sreq", "arm")
  /\ sreq' = t
  /\ UNCHANGED <<gate, srspVars, callVars, lineVars, histVars>>

\* A pthread mutex may be granted to any of the threads that want it.
LockSreq(t) ==
  /\ sreq = Nobody
  /\ Goto(t, "sreq", "arm")
  /\ sreq' = t
  /\ UNCHANGED <<gate, srspVars, callVars, lineVars, histVars>>

\* Fault: s_srspReceived is not reset.
ArmKeepsFlag(t) ==
  /\ Goto(t, "arm", "write")
  /\ expected' = call[t].cmd
  /\ UNCHANGED <<mutexVars, received, srspFrame, callVars, lineVars, histVars>>

\* Expectation and flag are set together under s_srspMutex.
Arm(t) ==
  /\ Goto(t, "arm", "write")
  /\ expected' = call[t].cmd
  /\ received' = FALSE
  /\ UNCHANGED <<mutexVars, srspFrame, callVars, lineVars, histVars>>

\* Fault: the request is written twice.
WriteTwice(t) ==
  /\ Goto(t, "write", "wait")
  /\ LET f == [cmd |-> call[t].cmd, id |-> call[t].id] IN toZnp' = toZnp \o <<f, f>>
  /\ UNCHANGED <<mutexVars, srspVars, callVars, fromZnp, reader, histVars>>

Write(t) ==
  /\ Goto(t, "write", "wait")
  /\ toZnp' = Append(toZnp, [cmd |-> call[t].cmd, id |-> call[t].id])
  /\ UNCHANGED <<mutexVars, srspVars, callVars, fromZnp, reader, histVars>>

\* Fault: the error path returns with the mutexes locked.
WriteFailsLocked(t) ==
  /\ Goto(t, "write", "idle")
  /\ UNCHANGED <<mutexVars, srspVars, callVars, lineVars, histVars>>

\* write() failed: both mutexes are released on the way out, success is FALSE.
WriteFails(t) ==
  /\ Goto(t, "write", "unlock")
  /\ UNCHANGED <<mutexVars, srspVars, callVars, lineVars, histVars>>

\* The flag is set when the waiter looks at it, after a signal or a timeout.
Answered(t) ==
  /\ received
  /\ Goto(t, "wait", "unlock")
  /\ rxFrame' = [rxFrame EXCEPT ![t] = srspFrame]
  /\ success' = [success EXCEPT ![t] = TRUE]
  /\ UNCHANGED <<mutexVars, srspVars, call, lineVars, histVars>>

\* ETIMEDOUT with the flag still clear.
TimesOut(t) ==
  /\ ~received
  /\ Goto(t, "wait", "unlock")
  /\ givenUp' = givenUp \cup {call[t].id}
  /\ UNCHANGED <<mutexVars, srspVars, callVars, lineVars, calls>>

\* s_sreqMutex is released first, s_sreqGate after it.
UnlockSreq(t) ==
  /\ Goto(t, "unlock", IF call[t].high THEN "idle" ELSE "ungate")
  /\ sreq' = Nobody
  /\ UNCHANGED <<gate, srspVars, callVars, lineVars, histVars>>

UnlockGate(t) ==
  /\ Goto(t, "ungate", "idle")
  /\ gate' = Nobody
  /\ UNCHANGED <<sreq, srspVars, callVars, lineVars, histVars>>

-----------------------------------------------------------------------------
(* The reader thread, the line and the ZNP. *)

\* Fault: any SRSP is taken for the answer.
DeliverAny ==
  /\ reader /\ fromZnp # <<>>
  /\ fromZnp' = Tail(fromZnp)
  /\ srspFrame' = Head(fromZnp) /\ received' = TRUE
  /\ UNCHANGED <<mutexVars, expected, pc, callVars, toZnp, reader, histVars>>

\* The reader thread takes the next SRSP off the line and, under s_srspMutex,
\* hands it over if it has the expected command; any other SRSP is ignored.
Deliver ==
  /\ reader /\ fromZnp # <<>>
  /\ fromZnp' = Tail(fromZnp)
  /\ IF Head(fromZnp).cmd = expected
       THEN srspFrame' = Head(fromZnp) /\ received' = TRUE
       ELSE UNCHANGED <<srspFrame, received>>
  /\ UNCHANGED <<mutexVars, expected, pc, callVars, toZnp, reader, histVars>>

\* End of file or an error on the port: the reader thread returns for good.
ReaderExits ==
  /\ reader
  /\ reader' = FALSE
  /\ UNCHANGED <<mutexVars, srspVars, pc, callVars, toZnp, fromZnp, histVars>>

\* External: the ZNP answers the requests in the order they reach it.
ZnpAnswers ==
  /\ toZnp # <<>>
  /\ toZnp' = Tail(toZnp)
  /\ fromZnp' = Append(fromZnp, Head(toZnp))
  /\ UNCHANGED <<mutexVars, srspVars, pc, callVars, reader, histVars>>

\* External: a request is lost, or the ZNP does not answer it.
LoseRequest ==
  /\ toZnp # <<>>
  /\ toZnp' = Tail(toZnp)
  /\ UNCHANGED <<mutexVars, srspVars, pc, callVars, fromZnp, reader, histVars>>

\* A response with a bad FCS is dropped by the parser.
LoseResponse ==
  /\ reader /\ fromZnp # <<>>
  /\ fromZnp' = Tail(fromZnp)
  /\ UNCHANGED <<mutexVars, srspVars, pc, callVars, toZnp, reader, histVars>>

-----------------------------------------------------------------------------
CallStep(t) ==
  \/ LockGate(t) \/ LockSreq(t) \/ Arm(t) \/ Write(t) \/ WriteFails(t)
  \/ Answered(t) \/ TimesOut(t) \/ UnlockSreq(t) \/ UnlockGate(t)

Next ==
  \/ \E t \in Threads, c \in Cmds, high \in BOOLEAN : Begin(t, c, high)
  \/ \E t \in Threads : CallStep(t)
  \/ Deliver \/ ReaderExits \/ ZnpAnswers \/ LoseRequest \/ LoseResponse

\* A thread inside the call keeps running; nothing is promised of the ZNP, of
\* the line or of the reader thread, and no mutex is fair.
Fairness == \A t \in Threads : WF_vars(CallStep(t))

Spec == Init /\ [][Next]_vars
FairSpec == Spec /\ Fairness

-----------------------------------------------------------------------------
(* Properties. *)

TypeOK ==
  /\ gate \in Threads \cup {Nobody}
  /\ sreq \in Threads \cup {Nobody}
  /\ expected \in Cmds \cup {NoCmd}
  /\ received \in BOOLEAN
  /\ srspFrame \in Frame
  /\ pc \in [Threads -> PCs]
  /\ call \in [Threads -> Call]
  /\ success \in [Threads -> BOOLEAN]
  /\ rxFrame \in [Threads -> Frame]
  /\ toZnp \in Seq(Frame)
  /\ fromZnp \in Seq(Frame)
  /\ reader \in BOOLEAN
  /\ calls \in Nat
  /\ givenUp \subseteq Nat

\* A thread that holds s_sreqMutex, and a normal caller that holds s_sreqGate.
InCall(t) == pc[t] \in {"arm", "write", "wait", "unlock"}
PastGate(t) == ~call[t].high /\ (InCall(t) \/ pc[t] \in {"sreq", "ungate"})

\* However callers, timeouts and answers interleave, the response a thread is
\* given has the command it asked for: nobody re-arms the expectation while a
\* request waits, and the flag never survives from the request before.
AnswerHasOwnCommand ==
  \A t \in Threads : success[t] => rxFrame[t].cmd = call[t].cmd

\* Only a timeout lets answers cross: as long as no caller has given up
\* waiting, everyone who succeeds is given the answer to its own request.
CrossingNeedsTimeout ==
  givenUp = {} => \A t \in Threads : success[t] => rxFrame[t].id = call[t].id

\* After a timeout answers may be handed over one request late, and stay so
\* for request after request; but each timeout leaves at most one answer
\* behind, so the link is never out of step by more than the timeouts so far.
FramesOnLine == {toZnp[i] : i \in DOMAIN toZnp} \cup {fromZnp[i] : i \in DOMAIN fromZnp}
Awaited(f)   == \E t \in Threads : pc[t] = "wait" /\ call[t].id = f.id
LateAnswersBounded ==
  Cardinality({f \in FramesOnLine : ~Awaited(f)}) <= Cardinality(givenUp)

\* What the gate is for: of the normal callers at most one at a time competes
\* with a siren warning for s_sreqMutex; the others queue at s_sreqGate.
GateAdmitsOne ==
  \A t, u \in Threads : PastGate(t) /\ PastGate(u) => t = u

\* All state is of its type, and the gate keeps normal callers apart.
GateInv == TypeOK /\ GateAdmitsOne

\* An answer that is there when the waiter looks is returned, also when the
\* timeout has expired meanwhile: the loop tests the flag, not the return code.
PresentAnswerIsReturned ==
  [][\A t \in Threads :
       pc[t] = "wait" /\ received /\ pc'[t] # "wait" => success'[t]]_vars

\* Every ZNP_Sreq returns, whether or not the ZNP, the line and the reader
\* thread are alive: no thread waits for ever on a mutex or on a response.
EveryCallReturns ==
  \A t \in Threads : pc[t] # "idle" ~> pc[t] = "idle"

\* Every call returns, with its answer if that is there.
CallsReturn == EveryCallReturns /\ PresentAnswerIsReturned

-----------------------------------------------------------------------------
(* The inductive invariant behind them. *)

\* Who holds which mutex follows from where the threads are.
MutexInv ==
  \A t \in Threads : /\ InCall(t) <=> sreq = t
                     /\ PastGate(t) <=> gate = t
                     /\ pc[t] \in {"gate", "ungate"} => ~call[t].high

\* No call has succeeded before it waited, and the expectation is that of the
\* thread that armed it, until it is done.
ExpectationInv ==
  \A t \in Threads :
    /\ pc[t] \in {"gate", "sreq", "arm"} => ~success[t]
    /\ pc[t] \in {"write", "wait"} =>
         /\ ~success[t]
         /\ expected = call[t].cmd
         /\ received => srspFrame.cmd = expected

\* Without a timeout the line carries nothing but the one awaited exchange.
OwnFrame(t)   == [cmd |-> call[t].cmd, id |-> call[t].id]
LineEmpty     == toZnp = <<>> /\ fromZnp = <<>>
OwnExchange(t) ==
  \/ received /\ srspFrame.id = call[t].id /\ LineEmpty
  \/ ~received /\ toZnp = <<OwnFrame(t)>> /\ fromZnp = <<>>
  \/ ~received /\ toZnp = <<>> /\ fromZnp = <<OwnFrame(t)>>
  \/ ~received /\ LineEmpty
InStepInv ==
  givenUp = {} =>
    /\ (\A t \in Threads : pc[t] # "wait") => LineEmpty
    /\ \A t \in Threads : pc[t] = "write" => ~received
    /\ \A t \in Threads : pc[t] = "wait" => OwnExchange(t)

TransportInv ==
  /\ TypeOK /\ MutexInv /\ ExpectationInv /\ InStepInv
  /\ AnswerHasOwnCommand /\ CrossingNeedsTimeout

-----------------------------------------------------------------------------
(* What a comment says, and the code does not keep. *)

\* znp_host.c:292-294: "The reader thread already matches SRSPs by expected
\* cmd0/cmd1, so a stale response is ignored on its own."
StaleAnswerIsIgnored ==
  \A t \in Threads : success[t] => rxFrame[t].id = call[t].id

-----------------------------------------------------------------------------
(* What the transport promises: RequestService, with the caller served from  *)
(* the moment it holds s_sreqMutex until it releases it.                     *)

Phase(t) == IF InCall(t) THEN "served"
            ELSE IF pc[t] \in {"gate", "sreq"} THEN "waiting" ELSE "idle"

Service == INSTANCE RequestService WITH
  phase   <- [t \in Threads |-> Phase(t)],
  request <- [t \in Threads |-> call[t].cmd],
  reply   <- [t \in Threads |-> IF success[t] THEN rxFrame[t].cmd ELSE NoCmd],
  NoReply <- NoCmd

\* The transport implements the service.
ServiceSpec == Service!Spec
=============================================================================
