--------------------------- MODULE VibrationAlarm ---------------------------
(***************************************************************************)
(* The alarms of the vibration sensors (vibration_sensor.c, usecase.c).    *)
(* The vibration thread stores what a sensor's status notification says,   *)
(* the main loop clears what was not reported again for 5 s, because the   *)
(* report of its end may be lost; both post every change to the use-case   *)
(* thread, which sounds and silences all sirens for it.                    *)
(*                                                                         *)
(* The sensors are registered, and no other event switches the sirens;     *)
(* these are taken as one, as SirenAlarm has what happens among them.      *)
(***************************************************************************)
EXTENDS Integers, Sequences, SequencesExt

CONSTANTS
  NumSensors, \* g_numVibrationSensors
  Timeout,    \* 5 s
  MaxLag,     \* bound: the longest wait of the main loop for g_deviceMutex
  MaxReports  \* bound: status notifications that arrive

Sensors == 1 .. NumSensors
Timed   == {"movement", "vibration"}   \* Alarm 1, Alarm 2
Alarms  == Timed \cup {"tamper"}
Events  == [sensor : Sensors, alarm : Alarms, type : {"DETECTED", "CLEARED"}]

VARIABLES
  inbox,    \* s_vibrationInbox: status notifications
  on,       \* isMoving, isVibrating, isTampered
  age,      \* since lastMovementTime, lastVibrationTime, up to MaxAge
  lag,      \* age of the time PollAll has read, NotPolling outside
  ucIn,     \* s_useCaseInbox
  sounding, \* the sirens obey the police-panic warning
  reports,  \* counter
  told      \* history: the last change of each alarm the use-case thread took

vars == <<inbox, on, age, lag, ucIn, sounding, reports, told>>

NotPolling == -1
MaxAge == Timeout + MaxLag + 1

Init ==
  /\ inbox = <<>>
  /\ on = [s \in Sensors |-> {}]
  /\ age = [s \in Sensors |-> [a \in Timed |-> MaxAge]]
  /\ lag = NotPolling
  /\ ucIn = <<>> /\ sounding = FALSE
  /\ reports = 0
  /\ told = [s \in Sensors |-> [a \in Alarms |-> "CLEARED"]]

-----------------------------------------------------------------------------
\* What is posted when the alarms of the sensors become now.
Announces(e, now) == (e.type = "DETECTED") = (e.alarm \in now[e.sensor])
Changes(now) ==
  {e \in Events : Announces(e, now) /\ (e.alarm \in on[e.sensor]) # (e.alarm \in now[e.sensor])}

\* It is posted sensor by sensor, the alarms of each in the order of rank.
Precedes(e, f, rank) ==
  \/ e.sensor < f.sensor
  \/ e.sensor = f.sensor /\ rank[e.alarm] < rank[f.alarm]
InOrder(es, rank) ==
  {q \in SetToSeqs(es) : \A i, j \in DOMAIN q : i < j => Precedes(q[i], q[j], rank)}
Post(es, rank) == \E q \in InOrder(es, rank) : ucIn' = ucIn \o q

StatusOrder == [movement |-> 1, vibration |-> 2, tamper |-> 3]
PollOrder   == [vibration |-> 1, movement |-> 2]

Tick ==
  /\ lag < MaxLag
  /\ age' = [s \in Sensors |-> [a \in Timed |->
               IF age[s][a] < MaxAge THEN age[s][a] + 1 ELSE MaxAge]]
  /\ lag' = IF lag = NotPolling THEN lag ELSE lag + 1
  /\ UNCHANGED <<inbox, on, ucIn, sounding, reports, told>>

\* A notification that is not lost: the sensor may skip or repeat any state.
Report(s) ==
  /\ reports < MaxReports
  /\ \E as \in SUBSET Alarms : inbox' = Append(inbox, [sensor |-> s, alarms |-> as])
  /\ reports' = reports + 1
  /\ UNCHANGED <<on, age, lag, ucIn, sounding, told>>

\* Fault: every report posts what it says.
HandleStatusRepeating ==
  /\ inbox # <<>>
  /\ LET m == Head(inbox) IN
       /\ on' = [on EXCEPT ![m.sensor] = m.alarms]
       /\ age' = [age EXCEPT ![m.sensor] =
                    [a \in Timed |-> IF a \in m.alarms THEN 0 ELSE @[a]]]
       /\ Post({e \in Events : e.sensor = m.sensor /\ e.alarm \in Timed /\ Announces(e, on')},
               StatusOrder)
  /\ inbox' = Tail(inbox)
  /\ UNCHANGED <<lag, sounding, reports, told>>

\* VibrationSensor_HandleStatus, all of it under g_deviceMutex.
HandleStatus ==
  /\ inbox # <<>>
  /\ LET m == Head(inbox) IN
       /\ on' = [on EXCEPT ![m.sensor] = m.alarms]
       /\ age' = [age EXCEPT ![m.sensor] =
                    [a \in Timed |-> IF a \in m.alarms THEN 0 ELSE @[a]]]
  /\ Post(Changes(on'), StatusOrder)
  /\ inbox' = Tail(inbox)
  /\ UNCHANGED <<lag, sounding, reports, told>>

\* VibrationSensor_PollAll reads the time before it takes g_deviceMutex.
PollBegins ==
  /\ lag = NotPolling
  /\ lag' = 0
  /\ UNCHANGED <<inbox, on, age, ucIn, sounding, reports, told>>

\* What was not reported for longer than Timeout, at the time PollAll has read.
Expired(s) == {a \in on[s] \cap Timed : age[s][a] - lag > Timeout}

\* Fault: only vibration is cleared.
PollAllVibration ==
  /\ lag # NotPolling
  /\ lag' = NotPolling
  /\ on' = [s \in Sensors |-> on[s] \ (Expired(s) \ {"movement"})]
  /\ Post(Changes(on'), PollOrder)
  /\ UNCHANGED <<inbox, age, sounding, reports, told>>

PollAll ==
  /\ lag # NotPolling
  /\ lag' = NotPolling
  /\ on' = [s \in Sensors |-> on[s] \ Expired(s)]
  /\ Post(Changes(on'), PollOrder)
  /\ UNCHANGED <<inbox, age, sounding, reports, told>>

\* UseCase_Handle: Siren_TriggerAll(4, 240) or Siren_ControlAll(0); a tamper
\* event is only logged.
TakeEvent ==
  /\ ucIn # <<>>
  /\ LET e == Head(ucIn) IN
       /\ sounding' = IF e.alarm \in Timed THEN e.type = "DETECTED" ELSE sounding
       /\ told' = [told EXCEPT ![e.sensor][e.alarm] = e.type]
  /\ ucIn' = Tail(ucIn)
  /\ UNCHANGED <<inbox, on, age, lag, reports>>

-----------------------------------------------------------------------------
Next ==
  \/ Tick
  \/ \E s \in Sensors : Report(s)
  \/ HandleStatus \/ PollBegins \/ PollAll \/ TakeEvent

Spec == Init /\ [][Next]_vars

\* Time passes, the main loop turns, the threads empty their inboxes.
FairSpec ==
  /\ Spec
  /\ WF_vars(Tick) /\ WF_vars(HandleStatus) /\ WF_vars(TakeEvent)
  /\ WF_vars(PollBegins) /\ WF_vars(PollAll)

-----------------------------------------------------------------------------
(* Properties. *)

TypeOK ==
  /\ inbox \in Seq([sensor : Sensors, alarms : SUBSET Alarms])
  /\ on \in [Sensors -> SUBSET Alarms]
  /\ age \in [Sensors -> [Timed -> 0 .. MaxAge]]
  /\ lag \in NotPolling .. MaxLag
  /\ ucIn \in Seq(Events)
  /\ sounding \in BOOLEAN
  /\ reports \in 0 .. MaxReports
  /\ told \in [Sensors -> [Alarms -> {"DETECTED", "CLEARED"}]]

\* What was last said of an alarm (at 0) or waits to be said.
Own(s, a)     == {0} \cup {i \in DOMAIN ucIn : ucIn[i].sensor = s /\ ucIn[i].alarm = a}
Says(s, a, i) == IF i = 0 THEN told[s][a] ELSE ucIn[i].type

\* Whichever thread sees a change first, the events of one alarm alternate, from
\* the last one taken to the last one posted, and that one is the stored state.
EventsAlternate ==
  \A s \in Sensors, a \in Alarms : \A i \in Own(s, a) :
    LET later == {j \in Own(s, a) : j > i} IN
      /\ later = {} => (Says(s, a, i) = "DETECTED") = (a \in on[s])
      /\ \A j \in later : (\A k \in later : j <= k) => Says(s, a, i) # Says(s, a, j)

\* When no sensor has an alarm and nothing is on its way, the sirens are silent.
SilentWhenClear ==
  ucIn = <<>> /\ (\A s \in Sensors : on[s] \cap Timed = {}) => ~sounding

\* All state is of its type, the events tell it, and silence follows.
AlarmInv == TypeOK /\ EventsAlternate /\ SilentWhenClear

\* Every movement and vibration alarm ends, also when its end is not reported.
EveryAlarmEnds ==
  \A s \in Sensors, a \in Timed : a \in on[s] ~> a \notin on[s]

-----------------------------------------------------------------------------
(* What a document says, and the code does not keep: README, section 5. *)

\* QA_TEST_MATRIX.md: the sirens sound until the movement clears; they fall
\* silent when another alarm of the sensor, or of another sensor, is cleared.
SoundingWhileDetected ==
  ucIn = <<>> /\ (\E s \in Sensors : on[s] \cap Timed # {}) => sounding
=============================================================================
