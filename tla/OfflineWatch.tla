---------------------------- MODULE OfflineWatch ----------------------------
(***************************************************************************)
(* The list of the devices that are offline (main.c): the main thread adds *)
(* a device that was silent for too long and removes it when it is heard   *)
(* again, or announces itself; the threads that send warnings look a siren *)
(* up before each one.  Nobody locks the list: an entry and the length are *)
(* stored one after the other, in the order the compiler and the processor *)
(* choose, and a thread that looks a siren up reads them one after the     *)
(* other too.                                                              *)
(***************************************************************************)
EXTENDS Naturals, FiniteSets

CONSTANTS
  Sirens,     \* flagged after 5 minutes of silence
  Sensors,    \* event driven: flagged after 2 hours
  Readers,    \* threads that call Device_IsOffline
  Capacity,   \* the length of s_offlineDevices
  MaxLookups, \* bound: calls of Device_IsOffline
  Nothing     \* an entry never written, no device

Devices == Sirens \cup Sensors

VARIABLES
  list, num,  \* s_offlineDevices, s_numOfflineDevices
  pending,    \* stores of the main thread the others cannot see yet
  changing,   \* the device it adds or removes, until both stores are done
  silent,     \* the devices whose lastSeen is too old
  todo,       \* the silent devices Main_CheckDeviceOfflineStatus has to add
  flagged,    \* history: the devices whose last event was UC_DEVICE_OFFLINE
  looked,     \* for each reader: the device, where it is, the bound it read
  lookups,    \* counter
  disturbed   \* history: whether the list has changed since the look-up began

mainVars == <<list, num, pending, changing, todo, flagged>>
readVars == <<looked, lookups, disturbed>>
vars == <<mainVars, silent, readVars>>

Slots == 0 .. Capacity - 1
Idle == [at |-> "idle", device |-> Nothing, i |-> 0, bound |-> 0, says |-> FALSE]

Init ==
  /\ list = [i \in Slots |-> Nothing] /\ num = 0
  /\ pending = {} /\ changing = Nothing
  /\ silent = {} /\ todo = {} /\ flagged = {}
  /\ looked = [r \in Readers |-> Idle] /\ lookups = 0
  /\ disturbed = [r \in Readers |-> FALSE]

-----------------------------------------------------------------------------
(* The main thread. *)

MainIdle == changing = Nothing
IsListed(d) == \E i \in Slots : i < num /\ list[i] = d

\* The main thread begins or ends to change the list under every reader.
Disturb == disturbed' = [r \in Readers |-> TRUE]

FallSilent(d) ==
  /\ d \notin silent
  /\ silent' = silent \cup {d}
  /\ UNCHANGED <<mainVars, readVars>>

\* Fault: the sirens are left out, as the comment says they may be.
CheckSensorsOnly ==
  /\ MainIdle /\ todo = {}
  /\ silent # {}
  /\ todo' = silent \cap Sensors
  /\ UNCHANGED <<list, num, pending, changing, flagged, silent, readVars>>

\* Main_CheckDeviceOfflineStatus, every 60 s.
CheckBegins ==
  /\ MainIdle /\ todo = {}
  /\ silent # {}
  /\ todo' = silent
  /\ UNCHANGED <<list, num, pending, changing, flagged, silent, readVars>>

\* Main_SetOffline: nothing happens to a device that is listed already, or if
\* the list is full.
SetOffline(d) ==
  /\ MainIdle /\ d \in todo
  /\ IF ~IsListed(d) /\ num < Capacity
       THEN /\ changing' = d
            /\ pending' = {[slot |-> num, value |-> d], [num |-> num + 1]}
            /\ UNCHANGED <<todo, flagged>>
            /\ Disturb
       ELSE /\ todo' = todo \ {d}
            /\ UNCHANGED <<changing, pending, flagged, disturbed>>
  /\ UNCHANGED <<list, num, silent, looked, lookups>>

\* Fault: the slot of the device that is removed is not filled.
SetOnlineLeavesHole(d) ==
  /\ MainIdle /\ todo = {}
  /\ IF IsListed(d)
       THEN /\ changing' = d
            /\ pending' = {[num |-> num - 1]}
            /\ UNCHANGED flagged
            /\ Disturb
       ELSE UNCHANGED <<changing, pending, flagged, disturbed>>
  /\ UNCHANGED <<list, num, todo, looked, lookups>>

\* Main_SetOnline moves the last entry to the place of d.
SetOnline(d) ==
  /\ MainIdle /\ todo = {}
  /\ IF IsListed(d)
       THEN \E i \in Slots :
              /\ i < num /\ list[i] = d
              /\ \A j \in Slots : j < i => list[j] # d
              /\ changing' = d
              /\ pending' = {[slot |-> i, value |-> list[num - 1]], [num |-> num - 1]}
              /\ UNCHANGED flagged
              /\ Disturb
       ELSE UNCHANGED <<changing, pending, flagged, disturbed>>
  /\ UNCHANGED <<list, num, todo, looked, lookups>>

\* A message of d: its lastSeen is renewed, too (the UpdateSeen functions).
HearFrom(d) == SetOnline(d) /\ silent' = silent \ {d}

\* An announcement of d, of either kind, does not renew it: the next check may
\* list d again.
Announce(d) == SetOnline(d) /\ UNCHANGED silent

\* The Discover functions renew it, and leave the list alone.
Discover(d) ==
  /\ MainIdle /\ todo = {}
  /\ silent' = silent \ {d}
  /\ UNCHANGED <<mainVars, readVars>>

\* One of the stores becomes visible.
Store ==
  /\ \E s \in pending :
       /\ pending' = pending \ {s}
       /\ IF "num" \in DOMAIN s
            THEN num' = s.num /\ UNCHANGED list
            ELSE list' = [list EXCEPT ![s.slot] = s.value] /\ UNCHANGED num
  /\ UNCHANGED <<changing, todo, flagged, silent, readVars>>

\* UC_DEVICE_OFFLINE or UC_DEVICE_ONLINE is posted.
PostChange ==
  /\ ~MainIdle /\ pending = {}
  /\ flagged' = IF changing \in flagged THEN flagged \ {changing}
                                        ELSE flagged \cup {changing}
  /\ changing' = Nothing
  /\ todo' = todo \ {changing}
  /\ Disturb
  /\ UNCHANGED <<list, num, pending, silent, looked, lookups>>

MainStep == CheckBegins \/ Store \/ PostChange \/ \E d \in Devices : SetOffline(d)

-----------------------------------------------------------------------------
(* Device_IsOffline. *)

Goto(r, rec) == looked' = [looked EXCEPT ![r] = rec]

LookUp(r, d) ==
  /\ looked[r].at = "idle" /\ lookups < MaxLookups
  /\ lookups' = lookups + 1
  /\ Goto(r, [at |-> "bound", device |-> d, i |-> 0, bound |-> num, says |-> FALSE])
  /\ disturbed' = [disturbed EXCEPT ![r] = ~MainIdle]
  /\ UNCHANGED <<mainVars, silent>>

\* The bound is read once or before every entry, as the compiler likes.
TestBound(r) ==
  /\ looked[r].at = "bound"
  /\ \E b \in {looked[r].bound, num} :
       Goto(r, [looked[r] EXCEPT !.at = IF looked[r].i < b THEN "entry" ELSE "done"])
  /\ UNCHANGED <<mainVars, silent, lookups, disturbed>>

TestEntry(r) ==
  /\ looked[r].at = "entry"
  /\ LET l == looked[r] IN
       Goto(r, IF list[l.i] = l.device
                 THEN [l EXCEPT !.at = "done", !.says = TRUE]
                 ELSE [l EXCEPT !.at = "bound", !.i = @ + 1])
  /\ UNCHANGED <<mainVars, silent, lookups, disturbed>>

Return(r) ==
  /\ looked[r].at = "done"
  /\ Goto(r, Idle)
  /\ UNCHANGED <<mainVars, silent, lookups, disturbed>>

-----------------------------------------------------------------------------
Next ==
  \/ \E d \in Devices : FallSilent(d) \/ HearFrom(d) \/ Announce(d) \/ Discover(d)
  \/ MainStep
  \/ \E r \in Readers, d \in Sirens : LookUp(r, d)
  \/ \E r \in Readers : TestBound(r) \/ TestEntry(r) \/ Return(r)

Spec == Init /\ [][Next]_vars

\* The main loop turns, and comes to its 60 s check again and again.
FairSpec == Spec /\ WF_vars(MainStep) /\ SF_vars(CheckBegins)

-----------------------------------------------------------------------------
(* Properties. *)

TypeOK ==
  /\ list \in [Slots -> Devices \cup {Nothing}] /\ num \in 0 .. Capacity
  /\ pending \subseteq [slot : Slots, value : Devices] \cup [num : 0 .. Capacity]
  /\ changing \in Devices \cup {Nothing}
  /\ silent \subseteq Devices /\ todo \subseteq Devices /\ flagged \subseteq Devices
  /\ looked \in [Readers -> [at : {"idle", "bound", "entry", "done"},
                             device : Sirens \cup {Nothing}, i : 0 .. Capacity,
                             bound : 0 .. Capacity, says : BOOLEAN]]
  /\ lookups \in 0 .. MaxLookups
  /\ disturbed \in [Readers -> BOOLEAN]

\* Between two changes the list holds each device whose last event was
\* UC_DEVICE_OFFLINE once, and nothing else.
ListInv ==
  MainIdle =>
    /\ flagged = {list[i] : i \in {j \in Slots : j < num}}
    /\ Cardinality(flagged) = num

\* A look-up during which the main thread leaves the list alone is right.
UndisturbedLookUpIsRight ==
  \A r \in Readers :
    looked[r].at = "done" /\ ~disturbed[r] =>
      looked[r].says = (looked[r].device \in flagged)

\* All state is of its type, the list is exact, and so are look-ups of it.
WatchInv == TypeOK /\ ListInv /\ UndisturbedLookUpIsRight

\* A device that stays silent is listed, unless the list is full.
SilenceIsNoticed ==
  \A d \in Devices : d \in silent ~> (d \notin silent \/ IsListed(d) \/ num = Capacity)

-----------------------------------------------------------------------------
(* What a comment says, and the code does not keep: README, section 5. *)

\* main.c:883-886: event-driven sensors are never flagged.
SensorsAreNeverFlagged == flagged \cap Sensors = {}
=============================================================================
