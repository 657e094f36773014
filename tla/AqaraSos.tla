------------------------------ MODULE AqaraSos ------------------------------
(***************************************************************************)
(* The Aqara buttons in UseCase_Handle: one press stops sounding sirens,   *)
(* three fast presses of one button sound them, duplicates of a press are  *)
(* dropped.  Presses are timed when the use-case thread handles them, not  *)
(* when they happen: while it waits for a siren's request (3 s at most per *)
(* siren) they queue up in its inbox.                                      *)
(***************************************************************************)
EXTENDS Naturals, Sequences, FiniteSets

CONSTANTS
  Buttons,
  MaxHistory, \* MAX_AQARA_HISTORY: buttons whose presses can be remembered
  Debounce,   \* 0.15 s
  Window,     \* 3.0 s
  Gap,        \* MAX_PRESS_INTERVAL_S
  MaxDelay,   \* the longest a press waits in the inbox
  MaxTime, MaxPresses \* bounds

VARIABLES
  now,
  inbox,      \* presses posted to the use-case thread, with their time
  tracked,    \* s_aqaraHistory: the buttons that have an entry
  lastEventTime, pressTimes, \* AqaraPressHistory, by button
  active,     \* g_sirenActive
  log         \* history: when the last four presses since the last stop counted

vars == <<now, inbox, tracked, lastEventTime, pressTimes, active, log>>

Init ==
  /\ now = Debounce
  /\ inbox = <<>> /\ tracked = {}
  /\ lastEventTime = [b \in Buttons |-> 0]
  /\ pressTimes = [b \in Buttons |-> <<>>]
  /\ active = FALSE
  /\ log = [b \in Buttons |-> <<>>]

-----------------------------------------------------------------------------
(* The world: time, fingers, and the other events that switch the sirens. *)

Tick ==
  /\ now < MaxTime
  /\ inbox # <<>> => now - Head(inbox).at < MaxDelay
  /\ now' = now + 1
  /\ UNCHANGED <<inbox, tracked, lastEventTime, pressTimes, active, log>>

Press(b) ==
  /\ Len(inbox) < MaxPresses
  /\ inbox' = Append(inbox, [button |-> b, at |-> now])
  /\ UNCHANGED <<now, tracked, lastEventTime, pressTimes, active, log>>

OtherEvent ==
  /\ active' = ~active
  /\ UNCHANGED <<now, inbox, tracked, lastEventTime, pressTimes, log>>

-----------------------------------------------------------------------------
(* UseCase_Handle for a press of button b. *)

\* GetAqaraHistory finds the entry of b, or makes one if there is room.
HasHistory(b) == b \in tracked \/ Cardinality(tracked) < MaxHistory

IsDuplicate(b) == now - lastEventTime[b] < Debounce

NextIs(b) ==
  /\ inbox # <<>> /\ Head(inbox).button = b
  /\ inbox' = Tail(inbox)
  /\ UNCHANGED now

Remember(b) ==
  /\ HasHistory(b) /\ ~IsDuplicate(b)
  /\ tracked' = tracked \cup {b}
  /\ lastEventTime' = [lastEventTime EXCEPT ![b] = now]

\* No room for another button: its presses do nothing.
IgnorePress(b) ==
  /\ NextIs(b)
  /\ ~HasHistory(b)
  /\ UNCHANGED <<tracked, lastEventTime, pressTimes, active, log>>

DropDuplicate(b) ==
  /\ NextIs(b)
  /\ HasHistory(b) /\ IsDuplicate(b)
  /\ tracked' = tracked \cup {b}
  /\ UNCHANGED <<lastEventTime, pressTimes, active, log>>

\* Fault: the presses before the stop still count.
StopPressOnly(b) ==
  /\ NextIs(b)
  /\ Remember(b)
  /\ active
  /\ active' = FALSE
  /\ UNCHANGED pressTimes
  /\ log' = [log EXCEPT ![b] = <<>>]

StopPress(b) ==
  /\ NextIs(b)
  /\ Remember(b)
  /\ active
  /\ active' = FALSE
  /\ pressTimes' = [pressTimes EXCEPT ![b] = <<>>]
  /\ log' = [log EXCEPT ![b] = <<>>]

\* The presses remembered, without those that a long gap has made stale.
Pending(b) ==
  LET p == pressTimes[b] IN
    IF p # <<>> /\ now - p[Len(p)] > Gap THEN <<>> ELSE p

LastFour(s) == IF Len(s) <= 4 THEN s ELSE SubSeq(s, Len(s) - 3, Len(s))

\* Fault: two presses are enough.
CountPressOfTwo(b) ==
  /\ NextIs(b)
  /\ Remember(b)
  /\ ~active
  /\ LET p == Append(Pending(b), now)
         sos == Len(p) = 2 /\ p[2] - p[1] <= Window
     IN /\ pressTimes' = [pressTimes EXCEPT ![b] = IF Len(p) = 2 THEN <<>> ELSE p]
        /\ active' = sos
  /\ log' = [log EXCEPT ![b] = LastFour(Append(@, now))]

CountPress(b) ==
  /\ NextIs(b)
  /\ Remember(b)
  /\ ~active
  /\ LET p == Append(Pending(b), now)
         sos == Len(p) = 3 /\ p[3] - p[1] <= Window
     IN /\ pressTimes' = [pressTimes EXCEPT ![b] = IF Len(p) = 3 THEN <<>> ELSE p]
        /\ active' = sos
  /\ log' = [log EXCEPT ![b] = LastFour(Append(@, now))]

UseCaseThread ==
  \E b \in Buttons : IgnorePress(b) \/ DropDuplicate(b) \/ StopPress(b) \/ CountPress(b)

Next == Tick \/ OtherEvent \/ (\E b \in Buttons : Press(b)) \/ UseCaseThread

Spec == Init /\ [][Next]_vars

-----------------------------------------------------------------------------
(* Properties. *)

Times == 0 .. MaxTime

TypeOK ==
  /\ now \in Times
  /\ inbox \in Seq([button : Buttons, at : Times])
  /\ tracked \subseteq Buttons
  /\ lastEventTime \in [Buttons -> Times]
  /\ pressTimes \in [Buttons -> Seq(Times)]
  /\ active \in BOOLEAN
  /\ log \in [Buttons -> Seq(Times)]

\* At most two presses of a button wait for the third.  They are the last ones
\* counted since the last stop, in order, Debounce apart and no more than Gap.
PendingInv ==
  \A b \in Buttons :
    LET p == pressTimes[b]
        l == log[b]
    IN /\ Len(p) <= 2 /\ Len(p) <= Len(l)
       /\ \A i \in 1 .. Len(p) :
            /\ p[i] = l[Len(l) - Len(p) + i]
            /\ p[i] <= lastEventTime[b]
            /\ i > 1 => p[i] - p[i - 1] \in Debounce .. Gap

\* All state is of its type, and the histories hold the presses that count.
SosInv == TypeOK /\ PendingInv

\* The alarm of three presses is due to three presses of one button, none of
\* them a duplicate or one that stopped the sirens, handled within Window.
AlarmNeedsThreePresses ==
  [][\A b \in Buttons : CountPress(b) /\ active' =>
       LET l == log'[b]
           n == Len(l)
       IN /\ n >= 3
          /\ l[n] - l[n - 2] <= Window
          /\ \A i \in {n - 1, n} : l[i] - l[i - 1] >= Debounce]_vars

\* Three presses of b are the last counted, handled within Window.
FastTriple(l) == Len(l) >= 3 /\ l[Len(l)] - l[Len(l) - 2] <= Window

\* Three presses handled within Window do sound the alarm, if no other press
\* of that button was counted for Gap before them.
FreshTripleSounds ==
  [][\A b \in Buttons : CountPress(b) =>
       LET l == log'[b] IN
         FastTriple(l) /\ (Len(l) = 4 => l[2] - l[1] > Gap) => active']_vars

\* The alarm sounds for three presses, and only for them.
AlarmIsThreePresses == AlarmNeedsThreePresses /\ FreshTripleSounds

-----------------------------------------------------------------------------
(* What documents and comments say of the button, and the code does not keep: README, section 5. *)

\* QA_TEST_MATRIX.md: three presses within 3 s are a full alarm, also after an
\* earlier press.
FastTripleSounds ==
  [][\A b \in Buttons : CountPress(b) /\ FastTriple(log'[b]) => active']_vars

\* QA_TEST_MATRIX.md: a press of any button turns sounding sirens off.
AnyButtonStops ==
  [][\A b \in Buttons : ~IgnorePress(b) \/ ~active]_vars
=============================================================================
