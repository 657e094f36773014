------------------------------ MODULE DoorWatch ------------------------------
(***************************************************************************)
(* What the program knows of doors, and how old it is (contact_sensor.c,   *)
(* and the grace window of usecase.c): status notifications can be lost,   *)
(* and presence in a zone makes the use-case thread ask for the status of  *)
(* a door not heard of for 30 s, at most every 10 s.                       *)
(*                                                                         *)
(* A sensor rejoins with new short addresses.  The entries of its old and  *)
(* its new address are merged when the IEEE address arrives, and what they *)
(* know is mixed: the merge takes over isOpen and lastOpenedTime, but not  *)
(* lastStatusTime.  A slot that is used again keeps all times.             *)
(*                                                                         *)
(* The times stored by the code are modelled by their age, in ticks, each  *)
(* up to the age from which on nothing depends on it.                      *)
(***************************************************************************)
EXTENDS Integers, Sequences, FiniteSets, Compaction

CONSTANTS
  Sensors,    \* of one door each, identified by their IEEE addresses
  Addrs,      \* short addresses
  OwnerOf,    \* the sensor that an address is given to
  NoIeee,     \* hasIeee is false
  NoAddr,     \* a slot that was never used, a sensor that has not joined
  FirstAddr,  \* the address each sensor has when the program starts, or NoAddr
  Capacity,   \* MAX_CONTACT_SENSORS
  StaleAge,   \* 30 s, the argument of ContactSensor_RefreshIfStale
  RetryAge,   \* 10 s, between two reads of a door
  Grace,      \* DOOR_OPEN_GRACE_S
  LateAnnounces, \* bound: sensors that are registered may be announced, too
  MaxPending, \* bound: reads and reports on their way when a read is posted
  MaxMoves,   \* bound: the doors move so often
  MaxLosses   \* bound: so many reports and reads are lost

VARIABLES
  doorIs,     \* the doors, TRUE when open
  at,         \* the address each sensor has now
  heard,      \* addresses the sensors have joined with
  cached,     \* g_discoveredIeees: the addresses it has
  slots,      \* g_contactSensors, the times in it as ages
  num,        \* g_numContactSensors
  reports,    \* what sensors sent and the program has not stored yet
  reads,      \* addresses for which a read is posted or sent
  moves, losses

joinVars == <<at, heard, cached>>
sensorVars == <<doorIs, at, heard, moves>>
vars == <<doorIs, joinVars, slots, num, reports, reads, moves, losses>>

StatusCap == IF StaleAge < Grace THEN Grace ELSE StaleAge
Older(age, cap) == IF age < cap THEN age + 1 ELSE age

\* A time never stored is as old as any. merged is history: the opening was taken over
\* from another entry, and no report was stored since.
NoSlot == [addr |-> NoAddr, ieee |-> NoIeee, configured |-> FALSE, isOpen |-> FALSE,
           openedAge |-> Grace, statusAge |-> StatusCap, readAge |-> RetryAge, merged |-> FALSE]

\* The program has just started: nothing was heard of any door, ever.
Init ==
  /\ doorIs = [d \in Sensors |-> FALSE] /\ at = FirstAddr
  /\ heard = {FirstAddr[d] : d \in Sensors} \ {NoAddr} /\ cached = {}
  /\ slots = [i \in 1 .. Capacity |-> NoSlot] /\ num = 0
  /\ reports = <<>> /\ reads = {}
  /\ moves = 0 /\ losses = 0

\* The loops over g_contactSensors stop at the first entry that matches; 0 if
\* there is none.
FirstOf(is) == IF is = {} THEN 0 ELSE CHOOSE i \in is : \A j \in is : i <= j
EntryOf(a) == FirstOf({i \in 1 .. num : slots[i].addr = a})
Registered(a) == EntryOf(a) # 0

ContactCountsAsOpen(e) ==
  e.isOpen \/ (e.openedAge < e.statusAge /\ e.openedAge < Grace)

-----------------------------------------------------------------------------
(* The doors and their sensors. *)

Tick ==
  /\ slots' = [i \in 1 .. Capacity |->
                 [slots[i] EXCEPT !.openedAge = Older(@, Grace), !.statusAge = Older(@, StatusCap),
                                  !.readAge = Older(@, RetryAge)]]
  /\ UNCHANGED <<sensorVars, cached, num, reports, reads, losses>>

\* A sensor joins or rejoins.
Join(a) ==
  /\ a \notin heard /\ heard' = heard \cup {a}
  /\ at' = [at EXCEPT ![OwnerOf[a]] = a]
  /\ UNCHANGED <<doorIs, moves, cached, slots, num, reports, reads, losses>>

DoorMoves(d) ==
  /\ moves < MaxMoves /\ moves' = moves + 1
  /\ doorIs' = [doorIs EXCEPT ![d] = ~@]
  /\ reports' = IF at[d] = NoAddr THEN reports
                ELSE Append(reports, [addr |-> at[d], kind |-> "notification", open |-> ~doorIs[d]])
  /\ UNCHANGED <<joinVars, slots, num, reads, losses>>

\* A read is sent, if its address is registered (ContactSensor_SendStatusRead), and
\* answered, if a sensor still has it.
SensorAnswers(a) ==
  /\ a \in reads /\ reads' = reads \ {a}
  /\ LET d == OwnerOf[a] IN
       reports' = IF Registered(a) /\ at[d] = a
                    THEN Append(reports, [addr |-> a, kind |-> "answer", open |-> doorIs[d]])
                    ELSE reports
  /\ UNCHANGED <<sensorVars, cached, slots, num, losses>>

ReportLost ==
  /\ losses < MaxLosses /\ losses' = losses + 1
  /\ reports # <<>> /\ reports' = Tail(reports)
  /\ UNCHANGED <<sensorVars, cached, slots, num, reads>>

ReadLost(a) ==
  /\ losses < MaxLosses /\ losses' = losses + 1
  /\ a \in reads /\ reads' = reads \ {a}
  /\ UNCHANGED <<sensorVars, cached, slots, num, reports>>

-----------------------------------------------------------------------------
(* The main thread registers the sensors. *)

\* ZDO_END_DEVICE_ANNCE_IND.
Announce(a) ==
  /\ a \in heard /\ (LateAnnounces \/ ~Registered(a))
  /\ cached' = cached \cup {a}
  /\ UNCHANGED <<sensorVars, slots, num, reports, reads, losses>>

\* ContactSensor_Discover for an address that is not found: the slot keeps its times.
Register(a) ==
  IF num < Capacity
    THEN /\ slots' = [slots EXCEPT ![num + 1] =
                        [@ EXCEPT !.addr = a, !.ieee = IF a \in cached THEN OwnerOf[a] ELSE NoIeee,
                                  !.configured = FALSE, !.isOpen = FALSE]]
         /\ num' = num + 1
    ELSE UNCHANGED <<slots, num>>

\* ContactSensor_Discover for an entry that is found, by its short or its IEEE address.
Refresh(i, a) ==
  /\ slots' = [slots EXCEPT
                 ![i].addr = a, ![i].configured = @ /\ slots[i].addr = a,
                 ![i].ieee = IF @ = NoIeee /\ a \in cached THEN OwnerOf[a] ELSE @]
  /\ UNCHANGED num

Discover(a) ==
  /\ a \in heard
  /\ LET i == FirstOf({j \in 1 .. num : slots[j].addr = a
                                        \/ (a \in cached /\ slots[j].ieee = OwnerOf[a])})
     IN IF i = 0 THEN Register(a) ELSE Refresh(i, a)
  /\ UNCHANGED <<sensorVars, cached, reports, reads, losses>>

\* What ContactSensor_UpdateIeee takes over from an entry that it removes.
TakeOver(e, t) ==
  [t EXCEPT !.configured = e.configured, !.isOpen = e.isOpen, !.openedAge = e.openedAge,
            !.merged = TRUE]

\* One round of its loop: an entry with the IEEE address of a and another short
\* address is removed.
MergeStep(a, i, r) ==
  LET e == r.slots[i]
      kept == [r.slots EXCEPT ![r.target] = TakeOver(e, @)]
  IN IF e.addr = a \/ e.ieee # OwnerOf[a] THEN r
     ELSE [slots |-> MoveDown(kept, i, r.num), num |-> r.num - 1,
           target |-> IF r.target > i THEN r.target - 1 ELSE r.target]

\* The entry of a gets its IEEE address.
MergeStart(a) ==
  [slots |-> [slots EXCEPT ![EntryOf(a)].ieee = OwnerOf[a]], num |-> num, target |-> EntryOf(a)]

\* The loop, from the last entry to the first.
Merged(a) ==
  LET Passed[i \in 1 .. num + 1] ==
        IF i = num + 1 THEN MergeStart(a) ELSE MergeStep(a, i, Passed[i + 1])
  IN Passed[1]

\* An IEEE address response: ContactSensor_UpdateIeee.
IeeeResponse(a) ==
  /\ a \in heard
  /\ cached' = cached \cup {a}
  /\ IF Registered(a) THEN slots' = Merged(a).slots /\ num' = Merged(a).num
     ELSE UNCHANGED <<slots, num>>
  /\ UNCHANGED <<sensorVars, reports, reads, losses>>

-----------------------------------------------------------------------------
(* The contact thread, and the use-case thread that makes it read. *)

\* The contact thread takes the next report; it is about an entry, or about none.
Take(kind) ==
  /\ reports # <<>> /\ Head(reports).kind = kind
  /\ reports' = Tail(reports)
  /\ UNCHANGED <<sensorVars, cached, num, reads, losses>>
StoredFor(a, e) == LET i == EntryOf(a) IN IF i = 0 THEN slots ELSE [slots EXCEPT ![i] = e]
Reported == slots[EntryOf(Head(reports).addr)]

\* Fault: a notification does not store its time.
StoreNotificationUndated ==
  /\ Take("notification")
  /\ LET open == Head(reports).open IN
       slots' = StoredFor(Head(reports).addr,
                  [Reported EXCEPT !.isOpen = open, !.openedAge = IF open THEN 0 ELSE @,
                                   !.merged = FALSE])

\* ContactSensor_HandleStatus: every report of an open door dates its opening.
StoreNotification ==
  /\ Take("notification")
  /\ LET open == Head(reports).open IN
       slots' = StoredFor(Head(reports).addr,
                  [Reported EXCEPT !.isOpen = open, !.openedAge = IF open THEN 0 ELSE @,
                                   !.statusAge = 0, !.merged = FALSE])

\* ContactSensor_HandleAf, for the answer to a read: only a change does.
StoreAnswer ==
  /\ Take("answer")
  /\ LET open == Head(reports).open IN
       slots' = StoredFor(Head(reports).addr,
                  [Reported EXCEPT !.isOpen = open,
                                   !.openedAge = IF open /\ ~Reported.isOpen THEN 0 ELSE @,
                                   !.statusAge = 0, !.merged = FALSE])

\* Bind and CIE address were accepted; ContactRegistry has the steps of a setup.
SetUp(a) ==
  /\ Registered(a)
  /\ LET i == EntryOf(a) IN
       /\ ~slots[i].configured /\ (slots[i].ieee # NoIeee \/ a \in cached)
       /\ slots' = [slots EXCEPT ![i].configured = TRUE,
                                 ![i].ieee = IF @ = NoIeee THEN OwnerOf[a] ELSE @]
  /\ UNCHANGED <<sensorVars, cached, num, reports, reads, losses>>

\* The entries is are marked, and the contact thread is told to read them. Reads of
\* one address that are pending together are one.
Read(is) ==
  /\ is # {} /\ reads' = reads \cup {slots[i].addr : i \in is}
  /\ Cardinality(reads') + Len(reports) <= MaxPending
  /\ slots' = [i \in 1 .. Capacity |-> IF i \in is THEN [slots[i] EXCEPT !.readAge = 0] ELSE slots[i]]
  /\ UNCHANGED <<sensorVars, cached, num, reports, losses>>

\* The entries that ContactSensor_RefreshIfStale does not pass over.
IsStale(e) == e.configured /\ e.statusAge >= StaleAge /\ e.readAge >= RetryAge

\* Fault: only doors that are believed open are read.
RefreshIfOpen == Read({i \in 1 .. num : IsStale(slots[i]) /\ slots[i].isOpen})

\* Presence is detected in a zone.
RefreshIfStale == Read({i \in 1 .. num : IsStale(slots[i])})

-----------------------------------------------------------------------------
Next ==
  \/ Tick
  \/ \E d \in Sensors : DoorMoves(d)
  \/ \E a \in Addrs : SensorAnswers(a) \/ ReadLost(a)
  \/ ReportLost
  \/ \E a \in Addrs : Join(a) \/ Announce(a) \/ Discover(a) \/ IeeeResponse(a) \/ SetUp(a)
  \/ StoreNotification \/ StoreAnswer \/ RefreshIfStale

Spec == Init /\ [][Next]_vars

\* The contact thread handles what arrives, the sensors answer, and somebody
\* is detected in a zone again and again; a setup may never succeed.
FairSpec ==
  /\ Spec
  /\ WF_vars(Tick) /\ WF_vars(StoreNotification \/ StoreAnswer)
  /\ \A a \in Addrs : WF_vars(SensorAnswers(a))
  /\ SF_vars(RefreshIfStale)

-----------------------------------------------------------------------------
(* Properties. *)

Slot == [addr : Addrs \cup {NoAddr}, ieee : Sensors \cup {NoIeee}, configured : BOOLEAN,
         isOpen : BOOLEAN, openedAge : 0 .. Grace, statusAge : 0 .. StatusCap,
         readAge : 0 .. RetryAge, merged : BOOLEAN]
Report == [addr : Addrs, kind : {"notification", "answer"}, open : BOOLEAN]

TypeOK ==
  /\ doorIs \in [Sensors -> BOOLEAN] /\ at \in [Sensors -> Addrs \cup {NoAddr}]
  /\ heard \subseteq Addrs /\ cached \subseteq Addrs
  /\ slots \in [1 .. Capacity -> Slot] /\ num \in 0 .. Capacity
  /\ \A i \in 1 .. num : slots[i].addr \in Addrs
  /\ reports \in Seq(Report) /\ reads \subseteq Addrs
  /\ moves \in 0 .. MaxMoves /\ losses \in 0 .. MaxLosses

\* The grace window of ContactCountsAsOpen makes a difference only for an entry that
\* took over the opening of another one and has stored no report since: every report
\* that dates an opening dates the status no earlier. A slot that is used again, with
\* the times of another sensor in it, opens no window by itself.
GraceComesFromMerges ==
  \A i \in 1 .. num :
    ~slots[i].merged => (ContactCountsAsOpen(slots[i]) <=> slots[i].isOpen)

\* All state is of its type, and grace comes from merges.
DoorInv == TypeOK /\ GraceComesFromMerges

\* What is known of a door, under the address its sensor has now.
Followed(d) == Registered(at[d]) /\ slots[EntryOf(at[d])].configured
Right(d) == Registered(at[d]) /\ slots[EntryOf(at[d])].isOpen = doorIs[d]

\* A door whose sensor is registered and configured is known in the end, whatever
\* notification was lost or sent under an old address, and whatever a merge has
\* overwritten, as long as presence is detected now and then.
LostNotificationIsCorrected ==
  \A d \in Sensors : <>[]Followed(d) => <>[]Right(d)

-----------------------------------------------------------------------------
(* What the comments say, and the code does not keep: README, section 5. *)

\* usecase.c:30-35: a door counts as open for a grace window after it opened.
OpenedRecentlyCounts ==
  \A i \in 1 .. num : slots[i].openedAge < Grace => ContactCountsAsOpen(slots[i])

\* usecase.c:38-41: the grace window is not for a door that was closed after it opened.
ClosedDoorGetsNoGrace ==
  \A i \in 1 .. num : ContactCountsAsOpen(slots[i]) => slots[i].isOpen

\* A merge overwrites the status that was just heard under the new address, with
\* the one of the old address (contact_sensor.c:282; "preserving", comment :182-185).
MergeKeepsNews ==
  [][\A a \in Addrs : IeeeResponse(a) /\ Registered(a) /\ slots[EntryOf(a)].statusAge = 0
       => slots'[Merged(a).target].isOpen = slots[EntryOf(a)].isOpen]_vars

\* contact_sensor.c:104-106: a missed notification cannot leave isOpen stale
\* for ever; a sensor that is not configured is never read.
NoDoorStaysStale == \A d \in Sensors : <>[](Registered(at[d]) => Right(d))
=============================================================================
