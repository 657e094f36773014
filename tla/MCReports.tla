----------------------------- MODULE MCReports ------------------------------
(***************************************************************************)
(* What reaches the program from the ZNP and the sensors, for TLC: bytes   *)
(* on the serial line, with three frames of which one was damaged; the     *)
(* answers and indications of the ZNP over a factory-new start and others  *)
(* after it; and the reports of two vibration sensors, with a timeout of   *)
(* one tick.  They have no state in common; a behaviour is about one.      *)
(***************************************************************************)
EXTENDS FrameParser

\* The operators of SequencesExt, under names of their own.
Seqs == INSTANCE SequencesExt

\* A checksum, three frames (the payload of one is a start byte, as is a command
\* byte of another), and what may become of the first on the line.
MCFcs(body) == Seqs!FoldLeft(LAMBDA x, y : (x + y) % (MaxByte + 1), 1, body)
MCFrame(len, cmd0, payload) ==
  LET body == <<len, cmd0, 0>> \o payload IN <<SOF>> \o body \o <<MCFcs(body)>>
MCFrames == {MCFrame(0, 1, <<>>), MCFrame(1, 1, <<SOF>>), MCFrame(1, SOF, <<0>>)}
Damaged(f) ==
  {f} \cup {Seqs!RemoveAt(f, i) : i \in DOMAIN f}
      \cup {[f EXCEPT ![i] = b] : i \in DOMAIN f, b \in Byte}
MCStreams ==
  {<<>>} \cup {d \o f \o MCFrame(1, 1, <<0>>) :
                 d \in UNION {Damaged(h) : h \in MCFrames}, f \in MCFrames}

CONSTANTS NumSensors, Timeout, MaxLag, MaxReports

ASSUME VibrationAssumption ==
  /\ NumSensors \in Nat \ {0}
  /\ {Timeout, MaxLag, MaxReports} \subseteq Nat

CONSTANTS MaxStarts

ASSUME StartAssumption == MaxStarts \in Nat

VARIABLES
  subject, \* what this behaviour is about
  inbox, on, age, lag, ucIn, sounding, reported, told,
  wipeFlag, items, net, chip, pending, events, pc, forced, hard, written, starts, nets,
  faulty, armed, confirmed, unclear, oldNets

V == INSTANCE VibrationAlarm WITH reports <- reported
S == INSTANCE Startup

alarmVars == <<inbox, on, age, lag, ucIn, sounding, reported, told>>
startVars == <<wipeFlag, items, net, chip, pending, events, pc, forced, hard, written, starts,
               nets, faulty, armed, confirmed, unclear, oldNets>>
allVars == <<vars, alarmVars, startVars, subject>>

MCInit ==
  /\ subject \in {"line", "start", "vibration"}
  /\ Init /\ (subject # "line" => stream = <<>>)
  /\ V!Init
  /\ S!Init /\ (subject # "start" => net = 0)

Only(name) == subject = name /\ UNCHANGED subject

LineNext == Only("line") /\ Next /\ UNCHANGED <<alarmVars, startVars>>
VibrationNext == Only("vibration") /\ V!Next /\ UNCHANGED <<vars, startVars>>
StartNext == Only("start") /\ S!Next /\ UNCHANGED <<vars, alarmVars>>

\* The fairness of the modules, for what the behaviour is about.
MCSpec ==
  /\ MCInit /\ [][LineNext \/ VibrationNext \/ StartNext]_allVars
  /\ WF_alarmVars(subject = "vibration" /\ V!Tick)
  /\ WF_alarmVars(subject = "vibration" /\ V!HandleStatus)
  /\ WF_alarmVars(subject = "vibration" /\ V!TakeEvent)
  /\ WF_alarmVars(subject = "vibration" /\ V!PollBegins)
  /\ WF_alarmVars(subject = "vibration" /\ V!PollAll)
  /\ WF_startVars(subject = "start" /\ S!Program)
  /\ WF_startVars(subject = "start" /\ S!TakeReset)
  /\ WF_startVars(subject = "start" /\ S!Boot)
  /\ WF_startVars(subject = "start" /\ S!StartNetwork)

\* The claims of VibrationAlarm: events tell the state, silence follows them,
\* and alarms end.
AlarmInv == V!AlarmInv
EveryAlarmEnds == V!EveryAlarmEnds

\* The claims of Startup: the main loop has a coordinator, and a factory-new start
\* a new network; nothing is erased but then; and starts come to an end.
StartupInv == S!StartupInv
WipeIsAskedFor == S!WipeIsAskedFor
StartsEnd == S!StartsEnd
=============================================================================
