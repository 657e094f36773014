-------------------------- MODULE SirenAlarm_proofs --------------------------
(***************************************************************************)
(* Proofs about SirenAlarm, for any set of sirens, any events and any      *)
(* number of orders: between two broadcasts the flag tells what every      *)
(* siren does that nothing happened to, and no chirp outlives its beep.    *)
(***************************************************************************)
EXTENDS SirenAlarm, SequencesExt, SequenceTheorems, TLAPS

-----------------------------------------------------------------------------
(* The inductive invariant. *)

\* No broadcast and no command orders a beep.
OrderInv == \A t \in Threads : order[t] # "beep"

\* While the use-case thread broadcasts, nobody else having written the flag
\* since, the flag says what it broadcasts.
FlagIsOrder ==
  pc["usecase"] \in {"copy", "send"} /\ flagBy = "usecase" =>
    active = (order["usecase"] # "silent")

\* During the sends, a registered siren that nothing happened to is still to
\* come or obeys the flag.
SendInv ==
  pc["usecase"] = "send" /\ flagBy = "usecase" =>
    \A s \in Sirens : IsRegistered(s) /\ s \notin apart =>
      Contains(todo["usecase"], s) \/ (sound[s] # "silent") = active

\* A siren that chirps is in the round that is being played and still to be
\* stopped, or it missed its stop.
ChirpInv ==
  /\ phase = "on" => \A s \in Sirens : Contains(beepTodo, s) => Contains(round, s)
  /\ \A s \in Sirens : sound[s] = "beep" =>
       \/ s \in unstopped
       \/ phase = "on" /\ Contains(round, s)
       \/ phase = "off" /\ Contains(beepTodo, s)

SirenIInv ==
  /\ TypeOK
  /\ OrderInv
  /\ FlagIsOrder
  /\ SendInv
  /\ FlagTellsSirens
  /\ ChirpInv

-----------------------------------------------------------------------------
(* Lemmas. *)

\* A list is its head and the rest.
LEMMA ContainsHeadTail ==
  ASSUME NEW q \in Seq(Sirens), q # <<>>, NEW s
  PROVE  /\ Head(q) \in Sirens /\ Tail(q) \in Seq(Sirens)
         /\ Contains(q, s) <=> s = Head(q) \/ Contains(Tail(q), s)
<1>1. /\ Head(q) \in Sirens /\ Tail(q) \in Seq(Sirens) /\ Len(Tail(q)) = Len(q) - 1
      /\ \A i \in 1 .. Len(Tail(q)) : Tail(q)[i] = q[i + 1]
  BY HeadTailProperties
<1>2. Len(q) \in Nat \ {0} /\ Head(q) = q[1]
  BY EmptySeq
<1>3. ASSUME Contains(q, s), s # Head(q) PROVE Contains(Tail(q), s)
  <2>1. PICK i \in 1 .. Len(q) : q[i] = s
    BY <1>3 DEF Contains
  <2>2. i - 1 \in 1 .. Len(Tail(q)) /\ Tail(q)[i - 1] = s
    BY <1>1, <1>2, <1>3, <2>1
  <2>3. QED
    BY <2>2 DEF Contains
<1>4. ASSUME Contains(Tail(q), s) PROVE Contains(q, s)
  <2>1. PICK i \in 1 .. Len(Tail(q)) : Tail(q)[i] = s
    BY <1>4 DEF Contains
  <2>2. i + 1 \in 1 .. Len(q) /\ q[i + 1] = s
    BY <1>1, <1>2, <2>1
  <2>3. QED
    BY <2>2 DEF Contains
<1>5. s = Head(q) => Contains(q, s)
  BY <1>2 DEF Contains
<1>6. QED
  BY <1>1, <1>3, <1>4, <1>5

\* Every registered siren is in the registry's list.
LEMMA RegisteredIsContained ==
  ASSUME registered \in Seq(Sirens), NEW s
  PROVE  IsRegistered(s) <=> Contains(registered, s)
  BY LenProperties DEF IsRegistered, Contains

\* Nothing is in the empty list.
LEMMA EmptyContainsNone == \A s : ~Contains(<<>>, s)
  BY EmptySeq DEF Contains

\* The warnings the policy asks for.
LEMMA SoundsAre ==
  Sounds = {"own", "burglar", "police", "fire", "emergency", "silent", "beep"}
<1>1. DOMAIN Starts = {"BUTTON_ON", "SOS", "VIBRATION_DETECTED", "MOVEMENT_DETECTED",
                       "INTRUSION", "LIGHT_ON", "PANIC_SET"}
  BY DEF Starts
<1>2. /\ Starts["BUTTON_ON"] = "own" /\ Starts["SOS"] = "burglar"
      /\ Starts["VIBRATION_DETECTED"] = "police" /\ Starts["MOVEMENT_DETECTED"] = "police"
      /\ Starts["INTRUSION"] = "fire" /\ Starts["LIGHT_ON"] = "emergency"
      /\ Starts["PANIC_SET"] = "emergency"
  BY DEF Starts
<1>3. QED
  BY <1>1, <1>2 DEF Sounds

\* No event calls for a beep in a broadcast.
LEMMA WarningIsASound ==
  ASSUME NEW e \in Happens, e \notin DOMAIN Beeps
  PROVE  WarningFor(e) \in Sounds \ {"beep"}
<1>1. e \in DOMAIN Starts \cup Stops \cup {"BUTTON_TOGGLE"}
  BY SirenAssumption DEF EventTypes
<1>2. CASE e \in DOMAIN Starts
  <2>1. WarningFor(e) = Starts[e]
    BY <1>2 DEF WarningFor, Starts, Stops
  <2>2. Starts[e] # "beep"
    BY <1>2 DEF Starts
  <2>3. QED
    BY <1>2, <2>1, <2>2 DEF Sounds
<1>3. CASE e \in Stops
  BY <1>3, SoundsAre DEF WarningFor, Starts, Stops
<1>4. CASE e = "BUTTON_TOGGLE"
  BY <1>4, SoundsAre DEF WarningFor, Starts, Stops
<1>5. QED
  BY <1>1, <1>2, <1>3, <1>4

\* A warning changes at most the siren it is sent to, and to what it says.
LEMMA WarnChanges ==
  ASSUME sound \in [Sirens -> Sounds], NEW s \in Sirens, NEW w \in Sounds, Warn(s, w)
  PROVE  /\ sound' \in [Sirens -> Sounds]
         /\ sound'[s] \in {sound[s], w}
         /\ \A r \in Sirens \ {s} : sound'[r] = sound[r]
  BY DEF Warn

\* The same of a warning that is not sent to an offline siren.
LEMMA WarnUnlessOfflineChanges ==
  ASSUME sound \in [Sirens -> Sounds], NEW s \in Sirens, NEW w \in Sounds,
         WarnUnlessOffline(s, w)
  PROVE  /\ sound' \in [Sirens -> Sounds]
         /\ sound'[s] \in {sound[s], w}
         /\ \A r \in Sirens \ {s} : sound'[r] = sound[r]
         /\ s \in offline => sound' = sound
  BY WarnChanges DEF WarnUnlessOffline


-----------------------------------------------------------------------------
(* What leaves the flag and the sirens in step. *)

FlagInv == FlagIsOrder /\ SendInv /\ FlagTellsSirens

\* A step that is none of the use-case thread's sends and writes no flag keeps
\* the three, if every siren it touches is accounted for.
LEMMA FlagInvFrame ==
  ASSUME SirenIInv, UNCHANGED <<active, flagBy>>,
         pc'["usecase"] = pc["usecase"], order'["usecase"] = order["usecase"],
         todo'["usecase"] = todo["usecase"],
         \A s \in Sirens : IsRegistered(s)' /\ s \notin apart' =>
           IsRegistered(s) /\ s \notin apart /\ sound'[s] = sound[s]
  PROVE  FlagInv'
<1>1. FlagIsOrder'
  BY DEF SirenIInv, FlagIsOrder
<1>2. SendInv'
  BY DEF SirenIInv, SendInv, Contains
<1>3. FlagTellsSirens'
  BY DEF SirenIInv, FlagTellsSirens
<1>4. QED
  BY <1>1, <1>2, <1>3 DEF FlagInv

\* Between the stops of a beep and the next one, a chirp is no news.
LEMMA ChirpFrame ==
  ASSUME SirenIInv, UNCHANGED <<phase, round, beepTodo, unstopped>>,
         \A s \in Sirens : sound'[s] = "beep" => sound[s] = "beep"
  PROVE  ChirpInv'
  BY DEF SirenIInv, ChirpInv, Contains

-----------------------------------------------------------------------------
(* The use-case thread. *)

LEMMA HandleKeeps ==
  ASSUME SirenIInv, NEW e \in Happens, Handle(e)
  PROVE  SirenIInv'
<1>1. WarningFor(e) \in Sounds \ {"beep"}
  BY WarningIsASound DEF Handle
<1>2. pc' = [pc EXCEPT !["usecase"] = "flag"]
  BY DEF Handle
<1>3. TypeOK'
  BY <1>1, SirenAssumption DEF Handle, SirenIInv, TypeOK, Threads, beepVars
<1>4. OrderInv'
  BY <1>1 DEF Handle, SirenIInv, TypeOK, OrderInv, Threads
<1>5. pc'["usecase"] = "flag"
  BY <1>2 DEF SirenIInv, TypeOK, Threads
<1>6. FlagIsOrder' /\ SendInv' /\ FlagTellsSirens'
  BY <1>5 DEF FlagIsOrder, SendInv, FlagTellsSirens
<1>7. ChirpInv'
  BY ChirpFrame DEF Handle, beepVars
<1>8. QED
  BY <1>3, <1>4, <1>6, <1>7 DEF SirenIInv

LEMMA HandleDoorKeeps ==
  ASSUME SirenIInv, NEW e \in Happens, HandleDoor(e)
  PROVE  SirenIInv'
<1>1. Beeps[e] \in {1, 2}
  BY DEF HandleDoor, Beeps
<1>2. TypeOK'
  BY <1>1, SirenAssumption, AppendProperties DEF HandleDoor, SirenIInv, TypeOK
<1>3. OrderInv'
  BY DEF HandleDoor, SirenIInv, OrderInv
<1>4. FlagInv'
  BY FlagInvFrame DEF HandleDoor, IsRegistered
<1>5. ChirpInv'
  BY ChirpFrame DEF HandleDoor
<1>6. QED
  BY <1>2, <1>3, <1>4, <1>5 DEF SirenIInv, FlagInv

LEMMA WriteFlagKeeps ==
  ASSUME SirenIInv, NEW t \in Threads, WriteFlag(t)
  PROVE  SirenIInv'
<1>1. TypeOK'
  BY DEF WriteFlag, SirenIInv, TypeOK, Threads, beepVars
<1>2. OrderInv'
  BY DEF WriteFlag, SirenIInv, OrderInv
<1>3. FlagIsOrder' /\ SendInv' /\ FlagTellsSirens'
  <2>1. CASE t = "usecase"
    <3>1. pc'["usecase"] = "copy" /\ active' = (order'["usecase"] # "silent")
      BY <2>1 DEF WriteFlag, SirenIInv, TypeOK, Threads
    <3>2. QED
      BY <3>1 DEF FlagIsOrder, SendInv, FlagTellsSirens
  <2>2. CASE t = "cli"
    BY <2>2 DEF WriteFlag, FlagIsOrder, SendInv, FlagTellsSirens
  <2>3. QED
    BY <2>1, <2>2 DEF Threads
<1>4. ChirpInv'
  BY ChirpFrame DEF WriteFlag, beepVars
<1>5. QED
  BY <1>1, <1>2, <1>3, <1>4 DEF SirenIInv

LEMMA CopySirensKeeps ==
  ASSUME SirenIInv, CopySirens
  PROVE  SirenIInv'
<1>1. TypeOK'
  BY DEF CopySirens, SirenIInv, TypeOK, Threads, beepVars
<1>2. OrderInv'
  BY DEF CopySirens, SirenIInv, OrderInv
<1>3. /\ pc["usecase"] = "copy" /\ pc'["usecase"] = "send"
      /\ todo'["usecase"] = registered /\ registered \in Seq(Sirens)
      /\ UNCHANGED <<registered, active, flagBy, order>>
  BY DEF CopySirens, SirenIInv, TypeOK, Threads
<1>4. FlagIsOrder'
  BY <1>3 DEF FlagIsOrder, SirenIInv
<1>5. ASSUME NEW s \in Sirens, IsRegistered(s)' PROVE Contains(todo["usecase"], s)'
  <2>1. Contains(registered, s)
    BY <1>3, <1>5, RegisteredIsContained DEF IsRegistered
  <2>2. QED
    BY <1>3, <2>1 DEF Contains
<1>6. SendInv'
  BY <1>5 DEF SendInv
<1>7. FlagTellsSirens'
  BY <1>3 DEF FlagTellsSirens
<1>8. ChirpInv'
  BY ChirpFrame DEF CopySirens, beepVars
<1>9. QED
  BY <1>1, <1>2, <1>4, <1>6, <1>7, <1>8 DEF SirenIInv

\* The siren a thread sends to next is a siren, and its list loses it.
LEMMA NextOfList ==
  ASSUME TypeOK, NEW t \in Threads, todo[t] # <<>>
  PROVE  /\ Head(todo[t]) \in Sirens /\ Tail(todo[t]) \in Seq(Sirens)
         /\ [todo EXCEPT ![t] = Tail(todo[t])] \in [Threads -> Seq(Sirens)]
         /\ \A s : Contains(todo[t], s) <=> s = Head(todo[t]) \/ Contains(Tail(todo[t]), s)
<1>1. todo[t] \in Seq(Sirens)
  BY DEF TypeOK
<1>2. QED
  BY <1>1, ContainsHeadTail DEF TypeOK

LEMMA SendNextKeeps ==
  ASSUME SirenIInv, NEW t \in Threads, SendNext(t)
  PROVE  SirenIInv'
<1> DEFINE r == Head(todo[t])
<1>1. TypeOK /\ OrderInv /\ todo[t] # <<>> /\ pc[t] = "send"
  BY DEF SirenIInv, SendNext
<1>2. /\ r \in Sirens /\ todo' \in [Threads -> Seq(Sirens)] /\ todo'[t] = Tail(todo[t])
      /\ \A s : Contains(todo[t], s) <=> s = r \/ Contains(todo'[t], s)
      /\ \A u \in Threads \ {t} : todo'[u] = todo[u]
  BY <1>1, NextOfList DEF SendNext, TypeOK
<1>3. /\ UNCHANGED <<registered, offline, active, pc, order, events, beepVars, orders, flagBy>>
      /\ WarnUnlessOffline(r, order[t])
      /\ apart' = IF t = "usecase" /\ r \notin offline /\ sound'[r] = order[t]
                    THEN apart ELSE apart \cup {r}
  BY DEF SendNext
<1> HIDE DEF r
<1>4. order[t] \in Sounds /\ order[t] # "beep" /\ sound \in [Sirens -> Sounds]
  BY <1>1 DEF TypeOK, OrderInv
<1>5. /\ sound' \in [Sirens -> Sounds]
      /\ sound'[r] \in {sound[r], order[t]}
      /\ \A s \in Sirens \ {r} : sound'[s] = sound[s]
  BY <1>2, <1>3, <1>4, WarnUnlessOfflineChanges
<1>6. TypeOK'
  BY <1>1, <1>2, <1>3, <1>5 DEF TypeOK, beepVars
<1>7. OrderInv'
  BY <1>1, <1>3 DEF OrderInv
<1>8. ChirpInv'
  BY <1>2, <1>3, <1>4, <1>5, ChirpFrame DEF beepVars
<1>9. FlagIsOrder' /\ SendInv' /\ FlagTellsSirens'
  <2>1. CASE t = "usecase"
    <3>1. FlagIsOrder'
      BY <1>3 DEF FlagIsOrder, SirenIInv
    <3>2. pc'["usecase"] = "send"
      BY <1>1, <1>3, <2>1
    <3>3. FlagTellsSirens'
      BY <3>2 DEF FlagTellsSirens
    <3>4. ASSUME flagBy = "usecase", NEW s \in Sirens, IsRegistered(s), s \notin apart',
                 ~Contains(todo'["usecase"], s)
          PROVE  (sound'[s] # "silent") = active
      <4>1. s \notin apart
        BY <1>3, <3>4
      <4>2. active = (order["usecase"] # "silent")
        BY <1>1, <2>1, <3>4 DEF SirenIInv, FlagIsOrder
      <4>3. CASE s = r
        <5>1. sound'[s] = order["usecase"]
          BY <1>3, <2>1, <3>4, <4>3
        <5>2. QED
          BY <4>2, <5>1
      <4>4. CASE s # r
        <5>1. ~Contains(todo["usecase"], s) /\ sound'[s] = sound[s]
          BY <1>2, <1>5, <2>1, <3>4, <4>4
        <5>2. (sound[s] # "silent") = active
          BY <1>1, <2>1, <3>4, <4>1, <5>1 DEF SirenIInv, SendInv
        <5>3. QED
          BY <5>1, <5>2
      <4>5. QED
        BY <4>3, <4>4
    <3>5. \A s : IsRegistered(s)' <=> IsRegistered(s)
      BY <1>3 DEF IsRegistered
    <3>6. SendInv'
      BY <1>3, <3>4, <3>5 DEF SendInv, Contains
    <3>7. QED
      BY <3>1, <3>3, <3>6
  <2>2. CASE t = "cli"
    <3>1. apart' = apart \cup {r} /\ todo'["usecase"] = todo["usecase"]
      BY <1>2, <1>3, <2>2 DEF Threads
    <3>2. FlagInv'
      BY <1>3, <1>5, <3>1, FlagInvFrame DEF IsRegistered
    <3>3. QED
      BY <3>2 DEF FlagInv
  <2>3. QED
    BY <2>1, <2>2 DEF Threads
<1>10. QED
  BY <1>6, <1>7, <1>8, <1>9 DEF SirenIInv

LEMMA EndSendKeeps ==
  ASSUME SirenIInv, NEW t \in Threads, EndSend(t)
  PROVE  SirenIInv'
<1>1. TypeOK'
  BY DEF EndSend, SirenIInv, TypeOK, Threads, beepVars
<1>2. OrderInv'
  BY DEF EndSend, SirenIInv, OrderInv
<1>3. FlagIsOrder' /\ SendInv' /\ FlagTellsSirens'
  <2>1. CASE t = "usecase"
    <3>1. /\ pc["usecase"] = "send" /\ todo["usecase"] = <<>> /\ pc'["usecase"] = "idle"
          /\ UNCHANGED <<registered, active, sound, flagBy, apart>>
      BY <2>1 DEF EndSend, SirenIInv, TypeOK, Threads
    <3>2. \A s : ~Contains(todo["usecase"], s)
      BY <3>1, EmptyContainsNone
    <3>3. FlagTellsSirens'
      BY <3>1, <3>2 DEF SirenIInv, SendInv, FlagTellsSirens, IsRegistered
    <3>4. QED
      BY <3>1, <3>3 DEF FlagIsOrder, SendInv
  <2>2. CASE t = "cli"
    <3>1. pc'["usecase"] = pc["usecase"]
      BY <2>2 DEF EndSend, SirenIInv, TypeOK, Threads
    <3>2. FlagInv'
      BY <3>1, FlagInvFrame DEF EndSend, IsRegistered
    <3>3. QED
      BY <3>2 DEF FlagInv
  <2>3. QED
    BY <2>1, <2>2 DEF Threads
<1>4. ChirpInv'
  BY ChirpFrame DEF EndSend, beepVars
<1>5. QED
  BY <1>1, <1>2, <1>3, <1>4 DEF SirenIInv

-----------------------------------------------------------------------------
(* The operator. *)

LEMMA OrderControlKeeps ==
  ASSUME SirenIInv, NEW s \in Sirens, NEW w \in {"own", "silent"}, OrderControl(s, w)
  PROVE  SirenIInv'
<1>1. w \in Sounds \ {"beep"} /\ <<s>> \in Seq(Sirens)
  BY SoundsAre
<1>2. TypeOK'
  BY <1>1, SirenAssumption DEF OrderControl, SirenIInv, TypeOK, Threads, beepVars
<1>3. OrderInv'
  BY <1>1 DEF OrderControl, SirenIInv, TypeOK, OrderInv, Threads
<1>4. /\ pc'["usecase"] = pc["usecase"] /\ order'["usecase"] = order["usecase"]
      /\ todo'["usecase"] = todo["usecase"]
  BY DEF OrderControl, SirenIInv, TypeOK, Threads
<1>5. FlagInv'
  BY <1>4, FlagInvFrame DEF OrderControl, IsRegistered
<1>6. ChirpInv'
  BY ChirpFrame DEF OrderControl, beepVars
<1>7. QED
  BY <1>2, <1>3, <1>5, <1>6 DEF SirenIInv, FlagInv

LEMMA OrderDirectlyKeeps ==
  ASSUME SirenIInv, NEW s \in Sirens, NEW w \in {"own", "silent"}, OrderDirectly(s, w)
  PROVE  SirenIInv'
<1>1. w \in Sounds \ {"beep"} /\ sound \in [Sirens -> Sounds]
  BY SoundsAre DEF SirenIInv, TypeOK
<1>2. /\ sound' \in [Sirens -> Sounds]
      /\ sound'[s] \in {sound[s], w}
      /\ \A r \in Sirens \ {s} : sound'[r] = sound[r]
  BY <1>1, WarnChanges DEF OrderDirectly
<1>3. TypeOK'
  BY <1>2, SirenAssumption DEF OrderDirectly, SirenIInv, TypeOK, beepVars
<1>4. OrderInv'
  BY DEF OrderDirectly, SirenIInv, OrderInv
<1>5. FlagInv'
  BY <1>2, FlagInvFrame DEF OrderDirectly, IsRegistered
<1>6. ChirpInv'
  BY <1>1, <1>2, ChirpFrame DEF OrderDirectly, beepVars
<1>7. QED
  BY <1>3, <1>4, <1>5, <1>6 DEF SirenIInv, FlagInv

-----------------------------------------------------------------------------
(* The siren thread. *)

LEMMA BeepBeginsKeeps ==
  ASSUME SirenIInv, BeepBegins
  PROVE  SirenIInv'
<1>1. /\ beeps \in Seq({1, 2}) /\ beeps # <<>> /\ phase = "idle"
      /\ registered \in Seq(Sirens)
  BY DEF BeepBegins, SirenIInv, TypeOK
<1>2. Head(beeps) \in {1, 2} /\ Tail(beeps) \in Seq({1, 2})
  BY <1>1, HeadTailProperties
<1>3. TypeOK'
  <2>1. /\ beeps' \in Seq({1, 2}) /\ phase' \in {"idle", "on", "off"} /\ left' \in 0 .. 2
        /\ round' \in Seq(Sirens) /\ beepTodo' \in Seq(Sirens)
    BY <1>1, <1>2 DEF BeepBegins, SirenIInv, TypeOK
  <2>2. UNCHANGED <<registered, offline, active, sound, pc, order, todo, events, orders,
                    flagBy, apart, unstopped>>
    BY DEF BeepBegins
  <2>3. QED
    BY <2>1, <2>2 DEF SirenIInv, TypeOK
<1>4. OrderInv'
  BY DEF BeepBegins, SirenIInv, OrderInv
<1>5. FlagInv'
  BY FlagInvFrame DEF BeepBegins, IsRegistered
<1>6. ChirpInv'
  BY <1>1 DEF BeepBegins, SirenIInv, ChirpInv, Contains
<1>7. QED
  BY <1>3, <1>4, <1>5, <1>6 DEF SirenIInv, FlagInv

LEMMA BeepNextKeeps ==
  ASSUME SirenIInv, BeepNext
  PROVE  SirenIInv'
<1> DEFINE r == Head(beepTodo)
           w == IF phase = "on" THEN "beep" ELSE "silent"
<1>1. /\ TypeOK /\ beepTodo # <<>> /\ beepTodo' = Tail(beepTodo)
      /\ UNCHANGED <<registered, offline, active, pc, order, todo, events, beeps,
                     phase, left, round, orders, flagBy>>
      /\ WarnUnlessOffline(r, w)
      /\ apart' = IF r \in offline THEN apart ELSE apart \cup {r}
      /\ unstopped' = IF phase = "on" THEN unstopped
                      ELSE IF r \notin offline /\ sound'[r] = w
                             THEN unstopped \ {r} ELSE unstopped \cup {r}
  BY DEF BeepNext, SirenIInv
<1>2. /\ r \in Sirens /\ beepTodo' \in Seq(Sirens)
      /\ \A s : Contains(beepTodo, s) <=> s = r \/ Contains(beepTodo', s)
  BY <1>1, ContainsHeadTail DEF TypeOK
<1>3. w \in Sounds
  BY SoundsAre
<1> HIDE DEF r
<1>4. /\ sound' \in [Sirens -> Sounds]
      /\ sound'[r] \in {sound[r], w}
      /\ \A s \in Sirens \ {r} : sound'[s] = sound[s]
      /\ r \in offline => sound' = sound
  <2> HIDE DEF w
  <2>1. QED
    BY <1>1, <1>2, <1>3, WarnUnlessOfflineChanges DEF TypeOK
<1>5. TypeOK'
  BY <1>1, <1>2, <1>4 DEF TypeOK
<1>6. OrderInv'
  BY <1>1 DEF SirenIInv, OrderInv
<1>7. FlagInv'
  <2>1. \A s \in Sirens : s \notin apart' => s \notin apart /\ sound'[s] = sound[s]
    BY <1>1, <1>2, <1>4
  <2>2. QED
    BY <1>1, <2>1, FlagInvFrame DEF IsRegistered
<1>8. ChirpInv'
  <2>1. \A s : Contains(beepTodo', s) <=> Contains(beepTodo, s)'
    BY DEF Contains
  <2>2. phase' = "on" => \A s \in Sirens : Contains(beepTodo, s)' => Contains(round, s)'
    BY <1>1, <1>2, <2>1 DEF SirenIInv, ChirpInv, Contains
  <2>3. ASSUME NEW s \in Sirens, sound'[s] = "beep"
        PROVE  \/ s \in unstopped'
               \/ phase = "on" /\ Contains(round, s)
               \/ phase = "off" /\ Contains(beepTodo', s)
    <3>1. CASE phase = "on"
      BY <1>1, <1>2, <1>4, <2>3, <3>1 DEF SirenIInv, ChirpInv
    <3>2. CASE phase # "on"
      BY <1>1, <1>2, <1>4, <2>3, <3>2 DEF SirenIInv, ChirpInv
    <3>3. QED
      BY <3>1, <3>2
  <2>4. QED
    BY <1>1, <2>1, <2>2, <2>3 DEF ChirpInv, Contains
<1>9. QED
  BY <1>5, <1>6, <1>7, <1>8 DEF SirenIInv, FlagInv

LEMMA BeepTurnsKeeps ==
  ASSUME SirenIInv, BeepTurns
  PROVE  SirenIInv'
<1>1. TypeOK'
  <2>1. left' \in 0 .. 2 /\ phase' \in {"idle", "on", "off"}
    BY DEF BeepTurns, SirenIInv, TypeOK
  <2>2. round' \in Seq(Sirens) /\ beepTodo' \in Seq(Sirens)
    BY DEF BeepTurns, SirenIInv, TypeOK
  <2>3. QED
    BY <2>1, <2>2 DEF BeepTurns, SirenIInv, TypeOK
<1>2. OrderInv'
  BY DEF BeepTurns, SirenIInv, OrderInv
<1>3. FlagInv'
  BY FlagInvFrame DEF BeepTurns, IsRegistered
<1>4. ChirpInv'
  <2>1. beepTodo = <<>> /\ \A s : ~Contains(beepTodo, s)
    BY EmptyContainsNone DEF BeepTurns
  <2>2. QED
    BY <2>1 DEF BeepTurns, SirenIInv, ChirpInv, Contains
<1>5. QED
  BY <1>1, <1>2, <1>3, <1>4 DEF SirenIInv, FlagInv

-----------------------------------------------------------------------------
(* The main thread and the sirens themselves. *)

LEMMA JoinKeeps ==
  ASSUME SirenIInv, NEW s \in Sirens, Join(s)
  PROVE  SirenIInv'
<1>1. /\ registered \in Seq(Sirens) /\ registered' = Append(registered, s)
  BY DEF Join, SirenIInv, TypeOK
<1>2. /\ registered' \in Seq(Sirens) /\ Len(registered') = Len(registered) + 1
      /\ \A i \in 1 .. Len(registered) : registered'[i] = registered[i]
      /\ registered'[Len(registered) + 1] = s
  BY <1>1, AppendProperties
<1>3. TypeOK'
  BY <1>2 DEF Join, SirenIInv, TypeOK, beepVars
<1>4. OrderInv'
  BY DEF Join, SirenIInv, OrderInv
<1>5. ASSUME NEW r, IsRegistered(r)' PROVE r = s \/ IsRegistered(r)
  <2>1. PICK i \in 1 .. Len(registered') : registered'[i] = r
    BY <1>2, <1>5, LenProperties DEF IsRegistered
  <2>2. Len(registered) \in Nat /\ DOMAIN registered = 1 .. Len(registered)
    BY <1>1, LenProperties
  <2>3. QED
    BY <1>2, <2>1, <2>2 DEF IsRegistered
<1>6. FlagInv'
  BY <1>5, FlagInvFrame DEF Join
<1>7. ChirpInv'
  BY ChirpFrame DEF Join, beepVars
<1>8. QED
  BY <1>3, <1>4, <1>6, <1>7 DEF SirenIInv, FlagInv

LEMMA ToggleOfflineKeeps ==
  ASSUME SirenIInv, NEW s \in Sirens, ToggleOffline(s)
  PROVE  SirenIInv'
<1>1. TypeOK'
  BY DEF ToggleOffline, SirenIInv, TypeOK, beepVars
<1>2. OrderInv'
  BY DEF ToggleOffline, SirenIInv, OrderInv
<1>3. FlagInv'
  BY FlagInvFrame DEF ToggleOffline, IsRegistered
<1>4. ChirpInv'
  BY ChirpFrame DEF ToggleOffline, beepVars
<1>5. QED
  BY <1>1, <1>2, <1>3, <1>4 DEF SirenIInv, FlagInv

LEMMA ExpireKeeps ==
  ASSUME SirenIInv, NEW s \in Sirens, Expire(s)
  PROVE  SirenIInv'
<1>1. "silent" \in Sounds
  BY SoundsAre
<1>2. TypeOK'
  BY <1>1 DEF Expire, SirenIInv, TypeOK, beepVars
<1>3. OrderInv'
  BY DEF Expire, SirenIInv, OrderInv
<1>4. FlagInv'
  BY FlagInvFrame DEF Expire, IsRegistered, SirenIInv, TypeOK
<1>5. ChirpInv'
  BY ChirpFrame DEF Expire, beepVars, SirenIInv, TypeOK
<1>6. QED
  BY <1>2, <1>3, <1>4, <1>5 DEF SirenIInv, FlagInv

-----------------------------------------------------------------------------
(* The theorem. *)

LEMMA SirenInit ==
  ASSUME Init
  PROVE  SirenIInv
<1>1. "silent" \in Sounds /\ <<>> \in Seq(Sirens) /\ <<>> \in Seq({1, 2})
  BY SoundsAre
<1>2. TypeOK
  <2>1. /\ pc \in [Threads -> {"idle", "flag", "copy", "send"}]
        /\ order \in [Threads -> Sounds] /\ todo \in [Threads -> Seq(Sirens)]
        /\ sound \in [Sirens -> Sounds]
    BY <1>1 DEF Init
  <2>2. left \in 0 .. 2 /\ events \in 0 .. MaxEvents /\ orders \in 0 .. MaxOrders
    BY SirenAssumption DEF Init
  <2>3. /\ registered \in Seq(Sirens) /\ offline \subseteq Sirens /\ active \in BOOLEAN
        /\ beeps \in Seq({1, 2}) /\ phase \in {"idle", "on", "off"}
        /\ round \in Seq(Sirens) /\ beepTodo \in Seq(Sirens)
        /\ flagBy \in Threads /\ apart \subseteq Sirens /\ unstopped \subseteq Sirens
    BY <1>1 DEF Init, Threads
  <2>4. QED
    BY <2>1, <2>2, <2>3 DEF TypeOK
<1>3. OrderInv /\ FlagIsOrder /\ SendInv /\ FlagTellsSirens
  BY DEF Init, OrderInv, FlagIsOrder, SendInv, FlagTellsSirens, IsRegistered, Threads
<1>4. ChirpInv
  BY DEF Init, ChirpInv
<1>5. QED
  BY <1>2, <1>3, <1>4 DEF SirenIInv

LEMMA SirenStep ==
  ASSUME SirenIInv, [Next]_vars
  PROVE  SirenIInv'
<1>1. CASE \E e \in Happens : Handle(e) \/ HandleDoor(e)
  BY <1>1, HandleKeeps, HandleDoorKeeps
<1>2. CASE CopySirens
  BY <1>2, CopySirensKeeps
<1>3. CASE \E t \in Threads : Broadcast(t)
  BY <1>3, WriteFlagKeeps, SendNextKeeps, EndSendKeeps DEF Broadcast
<1>4. CASE \E s \in Sirens, w \in {"own", "silent"} : OrderControl(s, w) \/ OrderDirectly(s, w)
  BY <1>4, OrderControlKeeps, OrderDirectlyKeeps
<1>5. CASE BeepStep
  BY <1>5, BeepBeginsKeeps, BeepNextKeeps, BeepTurnsKeeps DEF BeepStep
<1>6. CASE \E s \in Sirens : Join(s) \/ ToggleOffline(s) \/ Expire(s)
  BY <1>6, JoinKeeps, ToggleOfflineKeeps, ExpireKeeps
<1>7. CASE UNCHANGED vars
  <2>1. TypeOK'
    BY <1>7 DEF vars, beepVars, SirenIInv, TypeOK
  <2>2. OrderInv'
    BY <1>7 DEF vars, beepVars, SirenIInv, OrderInv
  <2>3. FlagInv'
    BY <1>7, FlagInvFrame DEF vars, beepVars, IsRegistered
  <2>4. ChirpInv'
    BY <1>7, ChirpFrame DEF vars, beepVars
  <2>5. QED
    BY <2>1, <2>2, <2>3, <2>4 DEF SirenIInv, FlagInv
<1>8. QED
  BY <1>1, <1>2, <1>3, <1>4, <1>5, <1>6, <1>7 DEF Next

\* However broadcasts, beeps, single commands and joins interleave, and
\* whichever warnings are lost: between two broadcasts the registered sirens
\* nothing else happened to do what g_sirenActive says, and a siren that still
\* chirps after the beeps is one whose stop was lost or not sent.
THEOREM SirenSafety == Spec => []SirenInv
<1>1. Init => SirenIInv
  BY SirenInit
<1>2. SirenIInv /\ [Next]_vars => SirenIInv'
  BY SirenStep
<1>3. SirenIInv => SirenInv
  BY DEF SirenIInv, SirenInv, ChirpInv, ChirpIsStopped
<1>4. QED
  BY <1>1, <1>2, <1>3, PTL DEF Spec

=============================================================================
