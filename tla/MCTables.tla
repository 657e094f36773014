------------------------------ MODULE MCTables ------------------------------
(***************************************************************************)
(* Two tables of limited size, for TLC: the registry of the contact        *)
(* sensors, and the presses that the use-case thread remembers for each    *)
(* Aqara button.  In AqaraSos a tick stands for a second; two presses in   *)
(* one tick are closer than the debounce time.  The two have no state in   *)
(* common; a behaviour is about one of them.                               *)
(***************************************************************************)
EXTENDS MCContactRegistry

CONSTANTS Buttons, MaxHistory, Debounce, Window, Gap, MaxDelay, MaxTime, MaxPresses

ASSUME PressAssumption ==
  /\ {MaxHistory, MaxDelay, MaxTime, MaxPresses} \subseteq Nat
  /\ {Debounce, Window, Gap} \subseteq Nat \ {0}
  /\ Debounce <= Window /\ Window <= Gap /\ Debounce <= MaxTime

VARIABLES
  subject, \* what this behaviour is about
  now, inbox, tracked, lastEventTime, pressTimes, active, log

A == INSTANCE AqaraSos

pressVars == <<now, inbox, tracked, lastEventTime, pressTimes, active, log>>

MCInit == Init /\ A!Init /\ subject \in {"contact", "button"}

ContactNext == subject = "contact" /\ Next /\ UNCHANGED <<pressVars, subject>>
ButtonNext == subject = "button" /\ A!Next /\ UNCHANGED <<vars, subject>>

MCSpec == MCInit /\ [][ContactNext \/ ButtonNext]_<<vars, pressVars, subject>>

\* Nothing tells buttons apart, or the addresses of one sensor.
Symmetry == Permutations(Buttons) \cup Permutations(Addrs \ {b1})

\* The claims of AqaraSos: what the table holds is what was pressed, and an alarm
\* is three presses in the window.
SosInv == A!SosInv
AlarmIsThreePresses == A!AlarmIsThreePresses
=============================================================================
