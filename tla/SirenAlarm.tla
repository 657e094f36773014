----------------------------- MODULE SirenAlarm -----------------------------
(***************************************************************************)
(* Who makes the sirens sound: the use-case thread broadcasts what an      *)
(* event calls for (UseCase_Handle, Siren_ControlAll, Siren_TriggerAll),   *)
(* the siren thread plays the door beeps it was posted (Siren_Beep) and    *)
(* the operator commands single sirens (siren on|off|test|stop).  Each     *)
(* sends one warning after another, and each waits for the coordinator     *)
(* between two of them, so their warnings interleave.                      *)
(*                                                                         *)
(* A siren's sound is the warning it obeys: "own" is the mode stored for   *)
(* it, the others are the modes 1, 4, 5 and 6 that the policy asks for.    *)
(***************************************************************************)
EXTENDS Naturals, Sequences

CONSTANTS
  Sirens,
  Happens,    \* the types of events that occur
  MaxEvents,  \* bound: events the use-case thread handles
  MaxOrders   \* bound: commands the operator types

VARIABLES
  registered, \* g_sirens
  offline,    \* s_offlineDevices, of the sirens
  active,     \* g_sirenActive
  sound,      \* what each siren does
  pc, order, todo, \* of the two threads that broadcast
  beeps,      \* s_sirenInbox: numbers of beeps to play
  phase, left, round, beepTodo, \* Siren_Beep
  events, orders, \* counters
  flagBy,     \* history: who wrote active last
  apart,      \* history: sirens something happened to that the flag misses
  unstopped   \* history: sirens the stop of the last beep did not reach

beepVars == <<beeps, phase, left, round, beepTodo, unstopped>>
vars == <<registered, offline, active, sound, pc, order, todo, events,
          beepVars, orders, flagBy, apart>>

Threads == {"usecase", "cli"}

-----------------------------------------------------------------------------
(* The policy: the warning an event calls for (UseCase_Handle). *)

Starts == [BUTTON_ON |-> "own", SOS |-> "burglar",
           VIBRATION_DETECTED |-> "police", MOVEMENT_DETECTED |-> "police",
           INTRUSION |-> "fire", LIGHT_ON |-> "emergency", PANIC_SET |-> "emergency"]
Stops == {"BUTTON_OFF", "PANIC_CLEAR", "LIGHT_OFF", "VIBRATION_CLEARED",
          "MOVEMENT_CLEARED"}
Beeps == [CONTACT_OPEN |-> 2, CONTACT_CLOSED |-> 1]
EventTypes == DOMAIN Starts \cup Stops \cup DOMAIN Beeps \cup {"BUTTON_TOGGLE"}

Sounds == {Starts[e] : e \in DOMAIN Starts} \cup {"silent", "beep"}

ASSUME SirenAssumption ==
  /\ Happens \subseteq EventTypes
  /\ MaxEvents \in Nat /\ MaxOrders \in Nat

\* What Siren_ControlAll or Siren_TriggerAll is called with.
WarningFor(e) ==
  CASE e \in DOMAIN Starts -> Starts[e]
    [] e \in Stops -> "silent"
    [] e = "BUTTON_TOGGLE" -> IF active THEN "silent" ELSE "own"

-----------------------------------------------------------------------------
Init ==
  /\ registered = <<>> /\ offline = {}
  /\ active = FALSE
  /\ sound = [s \in Sirens |-> "silent"]
  /\ pc = [t \in Threads |-> "idle"]
  /\ order = [t \in Threads |-> "silent"]
  /\ todo = [t \in Threads |-> <<>>]
  /\ beeps = <<>> /\ phase = "idle" /\ left = 0 /\ round = <<>> /\ beepTodo = <<>>
  /\ events = 0 /\ orders = 0
  /\ flagBy = "usecase" /\ apart = {} /\ unstopped = {}

IsRegistered(s) == \E i \in DOMAIN registered : registered[i] = s

\* The warning arrives, or is lost: nobody looks at the result of the request.
Warn(s, w) == sound' \in {sound, [sound EXCEPT ![s] = w]}

\* A warning sent to every siren that is not listed as offline, in turn.
WarnUnlessOffline(s, w) ==
  IF s \in offline THEN UNCHANGED sound ELSE Warn(s, w)

-----------------------------------------------------------------------------
(* The use-case thread. *)

Handle(e) ==
  /\ pc["usecase"] = "idle" /\ events < MaxEvents
  /\ e \notin DOMAIN Beeps
  /\ order' = [order EXCEPT !["usecase"] = WarningFor(e)]
  /\ pc' = [pc EXCEPT !["usecase"] = "flag"]
  /\ events' = events + 1
  /\ UNCHANGED <<registered, offline, active, sound, todo, beepVars, orders,
                 flagBy, apart>>

\* The door events only post: the beeps are played by the siren thread.
HandleDoor(e) ==
  /\ pc["usecase"] = "idle" /\ events < MaxEvents
  /\ e \in DOMAIN Beeps
  /\ beeps' = Append(beeps, Beeps[e])
  /\ events' = events + 1
  /\ UNCHANGED <<registered, offline, active, sound, pc, order, todo, phase,
                 left, round, beepTodo, orders, flagBy, apart, unstopped>>

\* g_sirenActive is written before the mutex is taken, and even if there is
\* no siren, or the one siren meant is offline.
WriteFlag(t) ==
  /\ pc[t] = "flag"
  /\ active' = (order[t] # "silent")
  /\ flagBy' = t
  /\ pc' = [pc EXCEPT ![t] = IF t = "usecase" THEN "copy" ELSE "send"]
  /\ UNCHANGED <<registered, offline, sound, order, todo, events, beepVars,
                 orders, apart>>

CopySirens ==
  /\ pc["usecase"] = "copy"
  /\ todo' = [todo EXCEPT !["usecase"] = registered]
  /\ pc' = [pc EXCEPT !["usecase"] = "send"]
  /\ apart' = {}
  /\ UNCHANGED <<registered, offline, active, sound, order, events, beepVars,
                 orders, flagBy>>

\* Fault: the warning to a siren that is offline is tried again.
SendNextOrRetry(t) ==
  /\ pc[t] = "send" /\ todo[t] # <<>>
  /\ LET s == Head(todo[t]) IN
       /\ WarnUnlessOffline(s, order[t])
       /\ apart' = apart \cup {s}
       /\ todo' = IF s \in offline THEN todo ELSE [todo EXCEPT ![t] = Tail(todo[t])]
  /\ UNCHANGED <<registered, offline, active, pc, order, events, beepVars,
                 orders, flagBy>>

SendNext(t) ==
  /\ pc[t] = "send" /\ todo[t] # <<>>
  /\ LET s == Head(todo[t]) IN
       /\ WarnUnlessOffline(s, order[t])
       /\ apart' = IF t = "usecase" /\ s \notin offline /\ sound'[s] = order[t]
                     THEN apart ELSE apart \cup {s}
  /\ todo' = [todo EXCEPT ![t] = Tail(todo[t])]
  /\ UNCHANGED <<registered, offline, active, pc, order, events, beepVars,
                 orders, flagBy>>

EndSend(t) ==
  /\ pc[t] = "send" /\ todo[t] = <<>>
  /\ pc' = [pc EXCEPT ![t] = "idle"]
  /\ UNCHANGED <<registered, offline, active, sound, order, todo, events,
                 beepVars, orders, flagBy, apart>>

-----------------------------------------------------------------------------
(* The CLI thread. *)

\* siren on|off <addr>: Siren_Control.
OrderControl(s, w) ==
  /\ pc["cli"] = "idle" /\ orders < MaxOrders
  /\ IsRegistered(s)
  /\ order' = [order EXCEPT !["cli"] = w]
  /\ todo' = [todo EXCEPT !["cli"] = <<s>>]
  /\ pc' = [pc EXCEPT !["cli"] = "flag"]
  /\ orders' = orders + 1
  /\ UNCHANGED <<registered, offline, active, sound, events, beepVars,
                 flagBy, apart>>

\* siren test|stop <addr>: the warning is sent past flag and offline list.
OrderDirectly(s, w) ==
  /\ pc["cli"] = "idle" /\ orders < MaxOrders
  /\ IsRegistered(s)
  /\ Warn(s, w)
  /\ apart' = apart \cup {s}
  /\ orders' = orders + 1
  /\ UNCHANGED <<registered, offline, active, pc, order, todo, events,
                 beepVars, flagBy>>

-----------------------------------------------------------------------------
(* The siren thread: Siren_Beep. *)

BeepBegins ==
  /\ phase = "idle" /\ beeps # <<>>
  /\ beeps' = Tail(beeps)
  /\ IF registered = <<>>
       THEN UNCHANGED <<phase, left, round, beepTodo>>
       ELSE /\ phase' = "on" /\ left' = Head(beeps)
            /\ round' = registered /\ beepTodo' = registered
  /\ UNCHANGED <<registered, offline, active, sound, pc, order, todo, events,
                 orders, flagBy, apart, unstopped>>

\* One siren of the round is started, or stopped, if it is not offline.
BeepNext ==
  /\ beepTodo # <<>>
  /\ LET s == Head(beepTodo)
         w == IF phase = "on" THEN "beep" ELSE "silent"
         arrives == s \notin offline /\ sound'[s] = w
     IN /\ WarnUnlessOffline(s, w)
        /\ apart' = IF s \in offline THEN apart ELSE apart \cup {s}
        /\ unstopped' = IF phase = "on" THEN unstopped
                         ELSE IF arrives THEN unstopped \ {s} ELSE unstopped \cup {s}
  /\ beepTodo' = Tail(beepTodo)
  /\ UNCHANGED <<registered, offline, active, pc, order, todo, events, beeps,
                 phase, left, round, orders, flagBy>>

\* Fault: the stops miss the first siren.
BeepTurnsFromSecond ==
  /\ phase # "idle" /\ beepTodo = <<>>
  /\ \/ /\ phase = "on"
        /\ phase' = "off" /\ beepTodo' = Tail(round)
        /\ UNCHANGED <<left, round>>
     \/ /\ phase = "off" /\ left > 1
        /\ phase' = "on" /\ beepTodo' = round /\ left' = left - 1
        /\ UNCHANGED round
     \/ /\ phase = "off" /\ left = 1
        /\ phase' = "idle" /\ left' = 0 /\ round' = <<>>
        /\ UNCHANGED beepTodo
  /\ UNCHANGED <<registered, offline, active, sound, pc, order, todo, events,
                 beeps, orders, flagBy, apart, unstopped>>

\* After 100 ms on, the stops; after 300 ms off, the next beep.
BeepTurns ==
  /\ phase # "idle" /\ beepTodo = <<>>
  /\ \/ /\ phase = "on"
        /\ phase' = "off" /\ beepTodo' = round
        /\ UNCHANGED <<left, round>>
     \/ /\ phase = "off" /\ left > 1
        /\ phase' = "on" /\ beepTodo' = round /\ left' = left - 1
        /\ UNCHANGED round
     \/ /\ phase = "off" /\ left = 1
        /\ phase' = "idle" /\ left' = 0 /\ round' = <<>>
        /\ UNCHANGED beepTodo
  /\ UNCHANGED <<registered, offline, active, sound, pc, order, todo, events,
                 beeps, orders, flagBy, apart, unstopped>>

-----------------------------------------------------------------------------
(* The main thread and the sirens themselves. *)

\* Siren_Discover: a siren joins the registry.
Join(s) ==
  /\ ~IsRegistered(s)
  /\ registered' = Append(registered, s)
  /\ apart' = apart \cup {s}
  /\ UNCHANGED <<offline, active, sound, pc, order, todo, events, beepVars,
                 orders, flagBy>>

\* Main_SetOffline and Main_SetOnline.
ToggleOffline(s) ==
  /\ IsRegistered(s)
  /\ offline' = IF s \in offline THEN offline \ {s} ELSE offline \cup {s}
  /\ UNCHANGED <<registered, active, sound, pc, order, todo, events, beepVars,
                 orders, flagBy, apart>>

\* A siren falls silent when the duration in its warning is over.
Expire(s) ==
  /\ sound[s] # "silent"
  /\ sound' = [sound EXCEPT ![s] = "silent"]
  /\ apart' = apart \cup {s}
  /\ UNCHANGED <<registered, offline, active, pc, order, todo, events, beepVars,
                 orders, flagBy>>

-----------------------------------------------------------------------------
Broadcast(t) == WriteFlag(t) \/ SendNext(t) \/ EndSend(t)

BeepStep == BeepBegins \/ BeepNext \/ BeepTurns

Next ==
  \/ \E e \in Happens : Handle(e) \/ HandleDoor(e)
  \/ CopySirens
  \/ \E t \in Threads : Broadcast(t)
  \/ \E s \in Sirens, w \in {"own", "silent"} : OrderControl(s, w) \/ OrderDirectly(s, w)
  \/ BeepStep
  \/ \E s \in Sirens : Join(s) \/ ToggleOffline(s) \/ Expire(s)

Spec == Init /\ [][Next]_vars

\* Every request returns within its 3 s, whatever became of it, so each thread
\* gets through its list.
FairSpec ==
  /\ Spec
  /\ WF_vars(CopySirens \/ Broadcast("usecase"))
  /\ WF_vars(BeepStep)

-----------------------------------------------------------------------------
(* Properties. *)

TypeOK ==
  /\ registered \in Seq(Sirens) /\ offline \subseteq Sirens
  /\ active \in BOOLEAN
  /\ sound \in [Sirens -> Sounds]
  /\ pc \in [Threads -> {"idle", "flag", "copy", "send"}]
  /\ order \in [Threads -> Sounds]
  /\ todo \in [Threads -> Seq(Sirens)]
  /\ beeps \in Seq({1, 2}) /\ phase \in {"idle", "on", "off"}
  /\ left \in 0 .. 2 /\ round \in Seq(Sirens) /\ beepTodo \in Seq(Sirens)
  /\ events \in 0 .. MaxEvents /\ orders \in 0 .. MaxOrders
  /\ flagBy \in Threads /\ apart \subseteq Sirens /\ unstopped \subseteq Sirens

\* Between two broadcasts every registered siren does what g_sirenActive says,
\* but for those that joined, expired, beeped, were commanded singly, missed
\* their warning or were listed as offline when it was their turn.
FlagTellsSirens ==
  pc["usecase"] = "idle" /\ flagBy = "usecase" =>
    \A s \in Sirens : IsRegistered(s) /\ s \notin apart =>
      (sound[s] # "silent") = active

\* A siren that still chirps when the beeps are over missed its stop.
ChirpIsStopped ==
  \A s \in Sirens : phase = "idle" /\ sound[s] = "beep" => s \in unstopped

\* All state is of its type, the flag tells what the sirens do, and beeps leave
\* nothing sounding.
SirenInv == TypeOK /\ FlagTellsSirens /\ ChirpIsStopped

\* A broadcast ends, whichever sirens are offline, lose it or join meanwhile.
BroadcastEnds == pc["usecase"] # "idle" ~> pc["usecase"] = "idle"

\* The beeps of every door event are played.
BeepsArePlayed == beeps # <<>> ~> beeps = <<>> /\ phase = "idle"

\* The use-case and siren threads come to the end of what they were given.
ThreadsComeToEnd == BroadcastEnds /\ BeepsArePlayed

-----------------------------------------------------------------------------
(* What documents and comments say of the sirens, and the code does not keep: README, section 5. *)

\* znp_host.h: g_sirenActive is true while at least one siren is sounding.
SoundingIsFlagged ==
  (\A t \in Threads : pc[t] = "idle") =>
    ((\E s \in Sirens : sound[s] \in Sounds \ {"silent", "beep"}) => active)

\* usecase.h: a toggle flips the siren state.
ToggleFlips ==
  [][Handle("BUTTON_TOGGLE") =>
       (order'["usecase"] = "silent") = (\E s \in Sirens : sound[s] # "silent")]_vars

\* QA_TEST_MATRIX.md: an alarm sounds until its cause is gone; the beep of a
\* door does not end it.
AlarmSurvivesBeep ==
  [][\A s \in Sirens :
       BeepNext /\ sound[s] \notin {"silent", "beep"} => sound'[s] = sound[s]]_vars
=============================================================================
