------------------------------ MODULE Intrusion ------------------------------
(***************************************************************************)
(* The intrusion alarm: somebody in a zone of the presence sensor while    *)
(* the zone's door is open sounds the sirens for 5 s (usecase.c).  The     *)
(* occupancy thread and the operator decide which zones are occupied, the  *)
(* contact thread keeps the doors' states, each posts its changes to the   *)
(* use-case thread, and that thread relates the two: it reads the doors    *)
(* when it handles a zone's event, and the zones when it handles a door's. *)
(*                                                                         *)
(* One presence sensor is modelled.  Age is not: RefreshIfStale may ask    *)
(* any door for its status.                                                *)
(***************************************************************************)
EXTENDS Naturals, Sequences, SequencesExt, FiniteSets

CONSTANTS
  Doors,       \* contact sensors, g_contactSensors
  Zones,       \* indices into zones[] of the presence sensor
  DefaultZone, \* zone 0, which cannot be deleted
  Distances,   \* values of currentDistanceCm
  FirstBand,   \* the distances between minCm and maxCm at first, by zone
  Bands,       \* those that the operator may choose
  DoorOf,      \* the doors whose zoneId is the zone's index, by zone
  MaxMoves, MaxReports, MaxZoneOrders, MaxRefreshes \* bounds

ASSUME IntrusionAssumption ==
  /\ Doors # {} /\ DefaultZone \in Zones /\ 0 \in Distances
  /\ IsFiniteSet(Doors) /\ IsFiniteSet(Zones)
  /\ FirstBand \in [Zones -> SUBSET Distances] /\ Bands \subseteq SUBSET Distances
  /\ DoorOf \in [Zones -> SUBSET Doors]
  /\ \A z \in Zones : Cardinality(DoorOf[z]) <= 1
  /\ {MaxMoves, MaxReports, MaxZoneOrders, MaxRefreshes} \subseteq Nat

VARIABLES
  doorIs,      \* the doors themselves, TRUE when open
  isOpen,      \* what the program believes, CONTACT_SENSOR_T
  contactIn,   \* s_contactInbox
  posting,     \* the door event the contact thread has yet to post
  raw, dist,   \* rawOccupied, currentDistanceCm
  zoneActive, band, occupied, \* zones[]; band is what lies between minCm and maxCm
  evaluating,  \* the threads about to call EvaluatePresenceLogic
  ucIn,        \* s_useCaseInbox
  ucPc, ucEvent, \* the use-case thread
  moves, reports, zoneOrders, refreshes, \* counters
  missed,      \* history: doors whose last move was not reported and not read
  owed,        \* history: zones whose intrusion has not sounded yet
  silently     \* history: doors whose state was last changed by a refresh

doorVars == <<doorIs, isOpen, contactIn, posting, moves, missed, silently>>
zoneVars == <<raw, dist, zoneActive, band, occupied, evaluating, reports, zoneOrders>>
useCaseVars == <<ucIn, ucPc, ucEvent, refreshes>>
vars == <<doorVars, zoneVars, useCaseVars, owed>>

NoEvent == [type |-> "none"]

Init ==
  /\ doorIs = [d \in Doors |-> FALSE] /\ isOpen = [d \in Doors |-> FALSE]
  /\ contactIn = <<>> /\ posting = NoEvent
  /\ raw = FALSE /\ dist = 0
  /\ zoneActive = [z \in Zones |-> z = DefaultZone] /\ band = FirstBand
  /\ occupied = [z \in Zones |-> FALSE]
  /\ evaluating = {}
  /\ ucIn = <<>> /\ ucPc = "idle" /\ ucEvent = NoEvent
  /\ moves = 0 /\ reports = 0 /\ zoneOrders = 0 /\ refreshes = 0
  /\ missed = {} /\ owed = {} /\ silently = {}

-----------------------------------------------------------------------------
\* UseCase_IsDoorOpenForZone: the zone's own door if one bears its index, else
\* any door.  No sensor rejoins here, so that no grace window opens; DoorWatch has
\* those that a merge opens.
DoorsFor(z) == IF DoorOf[z] # {} THEN DoorOf[z] ELSE Doors
OpenFor(z) == \E d \in DoorsFor(z) : isOpen[d]

Intrusions == {z \in Zones : occupied[z] /\ OpenFor(z)}

\* An intrusion is owed an alarm from when it begins until it ends or sounds.
NoteIntrusions(sounded) ==
  owed' = Intrusions' \cap ((owed \cup (Intrusions' \ Intrusions)) \ sounded)

Post(es) == ucIn' = ucIn \o es

-----------------------------------------------------------------------------
(* The doors and the contact thread. *)

\* A door moves; its Zone Status Change Notification is queued, or is lost.
DoorMoves(d) ==
  /\ moves < MaxMoves
  /\ doorIs' = [doorIs EXCEPT ![d] = ~@]
  /\ moves' = moves + 1
  /\ \/ /\ contactIn' = Append(contactIn, [kind |-> "status", door |-> d, open |-> ~doorIs[d]])
        /\ missed' = missed \ {d}
     \/ /\ missed' = missed \cup {d}
        /\ UNCHANGED contactIn
  /\ UNCHANGED <<isOpen, posting, silently, zoneVars, useCaseVars>>
  /\ NoteIntrusions({})

ContactTakes(kind) ==
  /\ posting = NoEvent
  /\ contactIn # <<>> /\ Head(contactIn).kind = kind

\* ContactSensor_HandleStatus: the state is stored, the event posted after.
StoreStatus ==
  /\ ContactTakes("status")
  /\ LET m == Head(contactIn) IN
       /\ isOpen' = [isOpen EXCEPT ![m.door] = m.open]
       /\ silently' = silently \ {m.door}
       /\ posting' = [type |-> IF m.open THEN "open" ELSE "closed"]
  /\ contactIn' = Tail(contactIn)
  /\ UNCHANGED <<doorIs, moves, missed, zoneVars, useCaseVars>>
  /\ NoteIntrusions({})

PostDoorEvent ==
  /\ posting # NoEvent
  /\ Post(<<posting>>)
  /\ posting' = NoEvent
  /\ UNCHANGED <<doorIs, isOpen, contactIn, moves, missed, silently, zoneVars,
                 ucPc, ucEvent, refreshes, owed>>

\* ContactSensor_SendStatusRead; the sensor answers if the read reaches it.
SendStatusRead ==
  /\ ContactTakes("refresh")
  /\ LET d == Head(contactIn).door IN
       \/ /\ contactIn' = Append(Tail(contactIn),
                                 [kind |-> "answer", door |-> d, open |-> doorIs[d]])
          /\ missed' = missed \ {d}
       \/ contactIn' = Tail(contactIn) /\ UNCHANGED missed
  /\ UNCHANGED <<doorIs, isOpen, posting, moves, silently, zoneVars, useCaseVars, owed>>

\* The answer corrects the state and posts nothing.
StoreAnswer ==
  /\ ContactTakes("answer")
  /\ LET m == Head(contactIn) IN
       /\ isOpen' = [isOpen EXCEPT ![m.door] = m.open]
       /\ silently' = IF isOpen[m.door] # m.open
                        THEN silently \cup {m.door} ELSE silently
  /\ contactIn' = Tail(contactIn)
  /\ UNCHANGED <<doorIs, posting, moves, missed, zoneVars, useCaseVars>>
  /\ NoteIntrusions({})

-----------------------------------------------------------------------------
(* The presence sensor, the occupancy thread and the operator's zones. *)

\* AqaraOccupancy_HandleState and _HandleDistance: one attribute is stored, and
\* the zones are evaluated in a critical section of its own.
ReportPresence ==
  /\ "occupancy" \notin evaluating /\ reports < MaxReports
  /\ \E b \in BOOLEAN : raw' = b
  /\ evaluating' = evaluating \cup {"occupancy"}
  /\ reports' = reports + 1
  /\ UNCHANGED <<dist, zoneActive, band, occupied, zoneOrders, doorVars, useCaseVars, owed>>

ReportDistance ==
  /\ "occupancy" \notin evaluating /\ reports < MaxReports
  /\ \E c \in Distances : dist' = c
  /\ evaluating' = evaluating \cup {"occupancy"}
  /\ reports' = reports + 1
  /\ UNCHANGED <<raw, zoneActive, band, occupied, zoneOrders, doorVars, useCaseVars, owed>>

\* A new zone, or a new band for one that may be occupied.
SetZone(z, b) ==
  /\ "cli" \notin evaluating /\ zoneOrders < MaxZoneOrders
  /\ zoneActive' = [zoneActive EXCEPT ![z] = TRUE]
  /\ band' = [band EXCEPT ![z] = b]
  /\ evaluating' = evaluating \cup {"cli"}
  /\ zoneOrders' = zoneOrders + 1
  /\ UNCHANGED <<raw, dist, occupied, reports, doorVars, useCaseVars, owed>>

DeleteZone(z) ==
  /\ "cli" \notin evaluating /\ zoneOrders < MaxZoneOrders
  /\ z # DefaultZone
  /\ zoneActive' = [zoneActive EXCEPT ![z] = FALSE]
  /\ occupied' = [occupied EXCEPT ![z] = FALSE]
  /\ zoneOrders' = zoneOrders + 1
  /\ UNCHANGED <<raw, dist, band, evaluating, reports, doorVars, useCaseVars>>
  /\ NoteIntrusions({})

\* EvaluatePresenceLogic: the active zones follow presence and distance, and
\* every change is posted.
Evaluate(t) ==
  /\ t \in evaluating
  /\ LET active  == {z \in Zones : zoneActive[z]}
         nowIn   == {z \in active : raw /\ dist \in band[z]}
         changed == {z \in active : occupied[z] # (z \in nowIn)}
     IN /\ occupied' = [z \in Zones |-> IF z \in active THEN z \in nowIn ELSE occupied[z]]
        /\ Post([i \in 1 .. Cardinality(changed) |->
                   LET z == SetToSeq(changed)[i] IN
                     [type |-> IF z \in nowIn THEN "detected" ELSE "cleared", zone |-> z]])
  /\ evaluating' = evaluating \ {t}
  /\ UNCHANGED <<raw, dist, zoneActive, band, reports, zoneOrders, doorVars,
                 ucPc, ucEvent, refreshes>>
  /\ NoteIntrusions({})

-----------------------------------------------------------------------------
(* The use-case thread. *)

\* "cleared" is only logged.
TakeEvent ==
  /\ ucPc = "idle" /\ ucIn # <<>>
  /\ ucEvent' = Head(ucIn)
  /\ ucIn' = Tail(ucIn)
  /\ ucPc' = CASE Head(ucIn).type = "detected" -> "refresh"
               [] Head(ucIn).type \in {"open", "closed"} -> "trigger"
               [] OTHER -> "idle"
  /\ UNCHANGED <<refreshes, doorVars, zoneVars, owed>>

\* ContactSensor_RefreshIfStale posts a status read for each stale door; the
\* answer comes too late for the event at hand.
RefreshIfStale ==
  /\ ucPc = "refresh"
  /\ \E stale \in SUBSET Doors :
       /\ refreshes + Cardinality(stale) <= MaxRefreshes
       /\ refreshes' = refreshes + Cardinality(stale)
       /\ contactIn' = contactIn \o [i \in 1 .. Cardinality(stale) |->
                                       [kind |-> "refresh", door |-> SetToSeq(stale)[i]]]
  /\ ucPc' = "read"
  /\ UNCHANGED <<doorIs, isOpen, posting, moves, missed, silently, zoneVars,
                 ucIn, ucEvent, owed>>

\* Fault: the doors are read until one is open.
ReadDoorsUntilOpen ==
  /\ ucPc = "read"
  /\ ucPc' = IF OpenFor(ucEvent.zone) THEN "alarm" ELSE "read"
  /\ UNCHANGED <<ucIn, ucEvent, refreshes, doorVars, zoneVars, owed>>

ReadDoors ==
  /\ ucPc = "read"
  /\ ucPc' = IF OpenFor(ucEvent.zone) THEN "alarm" ELSE "idle"
  /\ UNCHANGED <<ucIn, ucEvent, refreshes, doorVars, zoneVars, owed>>

\* Siren_TriggerAll(5, 5).
SoundAlarm ==
  /\ ucPc = "alarm"
  /\ ucPc' = "idle"
  /\ UNCHANGED <<ucIn, ucEvent, refreshes, doorVars, zoneVars>>
  /\ NoteIntrusions({ucEvent.zone})

\* Fault: only the default zone is looked at.
TriggerIfDefaultOccupied ==
  /\ ucPc = "trigger"
  /\ Post(IF raw /\ occupied[DefaultZone]
            THEN <<[type |-> "detected", zone |-> DefaultZone]>> ELSE <<>>)
  /\ ucPc' = "idle"
  /\ UNCHANGED <<ucEvent, refreshes, doorVars, zoneVars, owed>>

\* AqaraOccupancy_TriggerIfOccupied, after a door opened or closed: every
\* occupied zone is posted again.
TriggerIfOccupied ==
  /\ ucPc = "trigger"
  /\ LET zs == {z \in Zones : raw /\ zoneActive[z] /\ occupied[z]} IN
       Post([i \in 1 .. Cardinality(zs) |->
               [type |-> "detected", zone |-> SetToSeq(zs)[i]]])
  /\ ucPc' = "idle"
  /\ UNCHANGED <<ucEvent, refreshes, doorVars, zoneVars, owed>>

-----------------------------------------------------------------------------
ContactThread == StoreStatus \/ PostDoorEvent \/ SendStatusRead \/ StoreAnswer
UseCaseThread ==
  TakeEvent \/ RefreshIfStale \/ ReadDoors \/ SoundAlarm \/ TriggerIfOccupied

Next ==
  \/ \E d \in Doors : DoorMoves(d)
  \/ ContactThread
  \/ ReportPresence \/ ReportDistance
  \/ \E z \in Zones : DeleteZone(z) \/ \E b \in Bands : SetZone(z, b)
  \/ \E t \in {"occupancy", "cli"} : Evaluate(t)
  \/ UseCaseThread

Spec == Init /\ [][Next]_vars

\* The worker threads wait for nothing but their inboxes and bounded requests.
FairSpec ==
  /\ Spec
  /\ WF_vars(ContactThread) /\ WF_vars(UseCaseThread)
  /\ \A t \in {"occupancy", "cli"} : WF_vars(Evaluate(t))

-----------------------------------------------------------------------------
(* Properties. *)

DoorEvents == [type : {"open", "closed"}]
ZoneEvents == [type : {"detected", "cleared"}, zone : Zones]
ContactMessages ==
  [kind : {"status", "answer"}, door : Doors, open : BOOLEAN]
    \cup [kind : {"refresh"}, door : Doors]

TypeOK ==
  /\ doorIs \in [Doors -> BOOLEAN] /\ isOpen \in [Doors -> BOOLEAN]
  /\ contactIn \in Seq(ContactMessages)
  /\ posting \in DoorEvents \cup {NoEvent}
  /\ raw \in BOOLEAN /\ dist \in Distances
  /\ zoneActive \in [Zones -> BOOLEAN] /\ occupied \in [Zones -> BOOLEAN]
  /\ band \in [Zones -> SUBSET Distances]
  /\ evaluating \subseteq {"occupancy", "cli"}
  /\ ucIn \in Seq(DoorEvents \cup ZoneEvents)
  /\ ucPc \in {"idle", "refresh", "read", "alarm", "trigger"}
  /\ ucEvent \in DoorEvents \cup ZoneEvents \cup {NoEvent}
  /\ moves \in Nat /\ reports \in Nat /\ zoneOrders \in Nat /\ refreshes \in Nat
  /\ missed \subseteq Doors /\ owed \subseteq Zones /\ silently \subseteq Doors

\* Nothing is on its way to the use-case thread.
Quiet ==
  ucPc = "idle" /\ ucIn = <<>> /\ posting = NoEvent /\ evaluating = {}

\* A door corrected by a refresh changed without an event.
Unannounced(z) == DoorsFor(z) \cap silently # {}

\* Whatever the order of the threads, an intrusion the program can know of has
\* sounded the sirens once nothing is on its way, unless only a refresh showed
\* that the door is open.
NoMissedIntrusion ==
  Quiet => \A z \in owed : Unannounced(z)

\* With nothing on its way, the believed state of a door is its state, unless a
\* notification was lost and no read succeeded since.
DoorsAreKnown ==
  \A d \in Doors :
    d \notin missed
      /\ (\A i \in 1 .. Len(contactIn) :
            contactIn[i].door # d \/ contactIn[i].kind = "refresh") =>
    isOpen[d] = doorIs[d]

\* All state is of its type, the doors are known, and no intrusion is missed.
IntrusionInv == TypeOK /\ DoorsAreKnown /\ NoMissedIntrusion

\* Every intrusion sounds the sirens or ends, or is unannounced.
EveryIntrusionSounds ==
  \A z \in Zones : z \in owed ~> (z \notin owed \/ Unannounced(z))

-----------------------------------------------------------------------------
(* What the documents say, and the code does not keep: README, section 5. *)

\* QA_TEST_MATRIX.md: walking into a zone when the door is open sounds the
\* sirens, also when the open door was found by a refresh.
RefreshedDoorCounts == Quiet => owed = {}
=============================================================================
