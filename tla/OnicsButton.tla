----------------------------- MODULE OnicsButton -----------------------------
(***************************************************************************)
(* The panic buttons (onics_button.c): their registry, and the worker that *)
(* sets one up, follows it through the reset that its panic mode brings    *)
(* on, and binds it again.  Dispatcher has the frames that lead here.      *)
(*                                                                         *)
(* The device is external: there is one in the network, of any kind, which *)
(* may change its short address.  A command reaches the device that has    *)
(* the address, at once, or is lost.  As the comments of the code have it, *)
(* writing the panic mode unlocks endpoint 0x23 and resets the button,     *)
(* and the reset clears its bindings.                                      *)
(***************************************************************************)
EXTENDS Naturals, Sequences, SequencesExt, Compaction

CONSTANTS
  None,        \* no address, or no IEEE address
  Ieee,        \* the IEEE address of the device
  MaxButtons,  \* MAX_ONICS_BUTTONS
  MaxCached,   \* MAX_DISCOVERED_IEEES
  MaxBacklog,  \* bound: messages that wait for the worker
  MaxMishaps   \* bound: frames and commands lost, frames late, new addresses

ASSUME OnicsAssumption == {MaxButtons, MaxMishaps} \subseteq Nat

VARIABLES
  cache,    \* g_discoveredIeees, by address
  buttons,  \* g_onicsButtons
  inbox,    \* s_onicsInbox
  job,      \* the address the worker is busy with, and the commands left to send
  device,   \* external
  air,      \* frames on their way to Main_HandleIncomingFrame
  mishaps,  \* counter
  lost,     \* history: a frame or a command was lost
  press     \* history: a press was "sent" by a registered button, and "heard"

\* The short addresses, in the order in which the device has them.
ShortAddrs == 1 .. MaxMishaps + 1

workerVars == <<cache, buttons, inbox, job, device, air, mishaps, lost, press>>

Idle == [addr |-> None, todo |-> <<>>]
Frame(kind, a, eps) == [kind |-> kind, addr |-> a, eps |-> eps]
From(a, frames) == IF device.addr = a THEN frames ELSE <<>>
IeeeRsp(a) == From(a, <<Frame("ieeeRsp", a, {})>>)

-----------------------------------------------------------------------------
(* The registry. *)

IsKnown(a) == \E i \in DOMAIN buttons : buttons[i].addr = a
IndexOf(a) == CHOOSE i \in DOMAIN buttons : buttons[i].addr = a /\ \A j \in 1 .. i - 1 : buttons[j].addr # a

\* Device_GetDiscoveredIeee, for an entry that has no IEEE address yet.
Learnt(b) == IF b.ieee = None THEN [b EXCEPT !.ieee = cache[b.addr]] ELSE b

Post(kind, a) == inbox' = Append(inbox, [kind |-> kind, addr |-> a])

Discover(a) ==
  /\ buttons' =
       IF IsKnown(a) THEN [buttons EXCEPT ![IndexOf(a)] = Learnt(@)]
       ELSE IF Len(buttons) < MaxButtons
         THEN Append(buttons, [addr |-> a, ieee |-> cache[a],
                               configured |-> FALSE, isPanic |-> FALSE])
       ELSE buttons
  /\ Post("assign", a)

\* Entries of the same button under another address are dropped, and the first
\* of them says whether the one that stays is configured.
UpdateIeee(a, ieee) ==
  LET stale   == {i \in DOMAIN buttons : buttons[i].addr # a /\ buttons[i].ieee = ieee}
      others  == Keep(buttons, DOMAIN buttons \ stale)
      Kept(b) == IF b.addr # a THEN b
                 ELSE [b EXCEPT !.ieee = ieee,
                        !.configured = IF stale = {} THEN @
                                       ELSE buttons[Entrant(stale, 1)].configured]
  IN  IF IsKnown(a)
        THEN /\ buttons' = [i \in DOMAIN others |-> Kept(others[i])]
             /\ Post("assign", a)
        ELSE UNCHANGED <<buttons, inbox>>

-----------------------------------------------------------------------------
(* The worker takes a message: the part under the lock. *)

Take(kind) == job.todo = <<>> /\ inbox # <<>> /\ Head(inbox).kind = kind /\ inbox' = Tail(inbox)
Addr == Head(inbox).addr
Do(todo) == job' = [addr |-> Addr, todo |-> todo]

\* Setup: configured is set before anything is sent.
Setup ==
  /\ Take("assign")
  /\ LET b == Learnt(buttons[IndexOf(Addr)]) IN
       IF ~IsKnown(Addr) \/ b.configured
         THEN UNCHANGED <<buttons, job, air>>
       ELSE IF b.ieee = None
         THEN /\ air' = air \o IeeeRsp(Addr)
              /\ UNCHANGED <<buttons, job>>
         ELSE /\ buttons' = [buttons EXCEPT ![IndexOf(Addr)] = [b EXCEPT !.configured = TRUE]]
              /\ Do(<<"bindOnOff", "activate">>)
              /\ UNCHANGED air
  /\ UNCHANGED <<cache, device, mishaps, lost, press>>

Rebind ==
  /\ Take("rebind")
  /\ IF cache[Addr] = None THEN UNCHANGED job
     ELSE Do(<<"bindOnOff", "bindZone", "writeCie">>)
  /\ UNCHANGED <<cache, buttons, device, air, mishaps, lost, press>>

\* HandleAf, cluster 0x000F: the panic mode is on.
Activated ==
  /\ Take("writeRsp")
  /\ IF IsKnown(Addr) /\ buttons[IndexOf(Addr)].ieee # None
       THEN Do(<<"bindZone", "writeCie">>) ELSE UNCHANGED job
  /\ UNCHANGED <<cache, buttons, device, air, mishaps, lost, press>>

\* HandleEnroll; nothing depends on the zone id.
Enroll ==
  /\ Take("enrollReq") /\ Do(<<"enroll">>)
  /\ UNCHANGED <<cache, buttons, device, air, mishaps, lost, press>>

\* Fault: the alarm is stored before it is compared with the stored one.
HandleStatusStoredFirst(kind) ==
  /\ Take(kind)
  /\ buttons' = IF IsKnown(Addr) THEN [buttons EXCEPT ![IndexOf(Addr)].isPanic = (kind = "panic")]
                ELSE buttons
  /\ UNCHANGED <<cache, job, device, air, mishaps, lost, press>>

\* HandleStatus: a change is posted to the use-case layer; tamper is only logged there.
HandleStatus(kind) ==
  /\ Take(kind)
  /\ LET alarm   == kind = "panic"
         changed == IsKnown(Addr) /\ buttons[IndexOf(Addr)].isPanic # alarm
     IN /\ buttons' = IF changed THEN [buttons EXCEPT ![IndexOf(Addr)].isPanic = alarm]
                      ELSE buttons
        /\ press' = IF changed /\ alarm THEN "heard" ELSE press
  /\ UNCHANGED <<cache, job, device, air, mishaps, lost>>

\* Any other frame: reports are logged, and answered.
IgnoreAf ==
  /\ \E kind \in {"report", "model"} : Take(kind)
  /\ UNCHANGED <<cache, buttons, job, device, air, mishaps, lost, press>>

-----------------------------------------------------------------------------
(* It sends its commands, and ignores what becomes of them. *)

Effect(command) ==
  CASE command = "bindOnOff" -> [device EXCEPT !.bound = @ \cup {"onOff"}]
    [] command = "activate"  -> [device EXCEPT !.active = TRUE, !.resets = TRUE]
    [] command = "bindZone"  -> [device EXCEPT !.bound = IF device.active THEN @ \cup {"zone"} ELSE @]
    [] command = "writeCie"  -> [device EXCEPT !.cie = device.active]
    [] command = "enroll"    -> [device EXCEPT !.enrolled = device.cie]

Answer(command) ==
  CASE command = "activate" -> <<Frame("writeRsp", job.addr, {})>>
    [] command = "writeCie" /\ device.active -> <<Frame("enrollReq", job.addr, {})>>
    [] OTHER -> <<>>

Command ==
  /\ job.todo # <<>>
  /\ job' = [job EXCEPT !.todo = Tail(@)]
  /\ \/ /\ device.addr = job.addr
        /\ device' = Effect(Head(job.todo))
        /\ air' = air \o Answer(Head(job.todo))
        /\ UNCHANGED <<mishaps, lost>>
     \/ /\ device.addr # job.addr
        /\ UNCHANGED <<device, air, mishaps, lost>>
     \/ /\ device.addr = job.addr /\ mishaps < MaxMishaps
        /\ mishaps' = mishaps + 1 /\ lost' = TRUE
        /\ UNCHANGED <<device, air>>
  /\ UNCHANGED <<cache, buttons, inbox, press>>

Worker ==
  \/ Setup \/ Rebind \/ Activated \/ Enroll \/ IgnoreAf
  \/ \E kind \in {"panic", "clear"} : HandleStatus(kind)
  \/ Command
=============================================================================
