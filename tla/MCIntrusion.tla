---------------------------- MODULE MCIntrusion ----------------------------
(***************************************************************************)
(* Doors and presence, for TLC: intrusions, with two zones that may        *)
(* overlap, the first mapped to a door, the second (no door bears its      *)
(* index) guarded by both; and what is known of one door, whose sensor     *)
(* rejoins with a second address, with a tick of ten seconds.  The two     *)
(* have no state in common; a behaviour is about one of them.              *)
(***************************************************************************)
EXTENDS Intrusion

CONSTANTS front, back

MCFirstBand == [z \in Zones |-> IF z = DefaultZone THEN {0, 100} ELSE {0}]
MCBands == {{100, 200}}
MCDoorOf == [z \in Zones |-> IF z = DefaultZone THEN {front} ELSE {}]

CONSTANTS
  Sensors, Addrs, OwnerOf, NoIeee, NoAddr, FirstAddr, Capacity,
  StaleAge, RetryAge, Grace, LateAnnounces, MaxPending, MaxTurns, MaxLosses

ASSUME DoorAssumption ==
  /\ OwnerOf \in [Addrs -> Sensors] /\ NoAddr \notin Addrs /\ NoIeee \notin Sensors
  /\ FirstAddr \in [Sensors -> Addrs \cup {NoAddr}]
  /\ {Capacity, StaleAge, RetryAge, Grace, MaxPending} \subseteq Nat \ {0}
  /\ LateAnnounces \in BOOLEAN /\ {MaxTurns, MaxLosses} \subseteq Nat

\* One sensor, which has an address when the program starts.
MCOwnerOf == [a \in Addrs |-> CHOOSE d \in Sensors : TRUE]
MCFirstAddr == [d \in Sensors |-> CHOOSE a \in Addrs : TRUE]

VARIABLES
  subject, \* what this behaviour is about
  ajar, at, heard, cached, slots, num, sent, reads, turns, losses

D == INSTANCE DoorWatch
       WITH doorIs <- ajar, reports <- sent, moves <- turns, MaxMoves <- MaxTurns

watchVars == <<ajar, at, heard, cached, slots, num, sent, reads, turns, losses>>

MCInit == Init /\ D!Init /\ subject \in {"intrusion", "door"}

IntrusionNext == subject = "intrusion" /\ Next /\ UNCHANGED <<watchVars, subject>>
DoorNext == subject = "door" /\ D!Next /\ UNCHANGED <<vars, subject>>

\* The fairness of the modules, for what the behaviour is about.
MCSpec ==
  /\ MCInit /\ [][IntrusionNext \/ DoorNext]_<<vars, watchVars, subject>>
  /\ WF_vars(subject = "intrusion" /\ ContactThread)
  /\ WF_vars(subject = "intrusion" /\ UseCaseThread)
  /\ \A t \in {"occupancy", "cli"} : WF_vars(subject = "intrusion" /\ Evaluate(t))
  /\ WF_watchVars(subject = "door" /\ D!Tick)
  /\ WF_watchVars(subject = "door" /\ (D!StoreNotification \/ D!StoreAnswer))
  /\ \A a \in Addrs : WF_watchVars(subject = "door" /\ D!SensorAnswers(a))
  /\ SF_watchVars(subject = "door" /\ D!RefreshIfStale)

\* The claims of DoorWatch: the grace window decides only after a merge, and what is
\* known of a door whose sensor is configured comes right.
DoorInv == D!DoorInv
LostNotificationIsCorrected == D!LostNotificationIsCorrected
=============================================================================
