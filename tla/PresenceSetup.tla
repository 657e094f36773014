---------------------------- MODULE PresenceSetup ----------------------------
(***************************************************************************)
(* How the presence sensors are registered, set up and kept reporting      *)
(* (aqara_occupancy.c).  A sensor must not be flooded with requests right  *)
(* after it joined, so the dispatcher only schedules its setup; the poll   *)
(* thread posts what is due and tries again what was not done, and the     *)
(* occupancy thread runs the setups.                                       *)
(*                                                                         *)
(* The sensors are external.  They rejoin with new addresses, which are    *)
(* never given to another sensor.  A frame of an address that was ever     *)
(* used may come at any time, or never.  Time passes in ticks, as slowly   *)
(* or fast as the threads do.                                              *)
(***************************************************************************)
EXTENDS Integers, SequencesExt, FiniteSets, Compaction

CONSTANTS
  Sensors,
  Addrs,      \* 1 .. some number: they are given in this order
  OwnerOf,    \* the sensor that an address is given to
  None,       \* no address, no IEEE address, no schedule
  Capacity,   \* MAX_AQARA_OCCUPANCY
  MaxRetries, \* 5: setups that may fail before the poll thread stops
  Settle,     \* 10 s, in ticks
  Cooldown,   \* 90 s, in ticks
  MaxFailures, MaxDiscoveries, MaxOrders \* bounds

ASSUME PresenceAssumption ==
  /\ 1 \in Addrs /\ Addrs \subseteq Nat /\ OwnerOf \in [Addrs -> Sensors]
  /\ None \notin Sensors \cup Nat
  /\ {Capacity, MaxRetries, Settle, Cooldown} \subseteq Nat \ {0}
  /\ {MaxFailures, MaxDiscoveries, MaxOrders} \subseteq Nat

VARIABLES
  address,   \* the address of each sensor
  used,      \* addresses that were ever given to a sensor
  cached,    \* g_discoveredIeees: the addresses it has
  asked,     \* addresses that were asked for their IEEE address
  slots,     \* g_aqaraOccupancies; the last ones may hold what was there before
  num,       \* g_numAqaraOccupancies
  inbox,     \* s_occupancyInbox: addresses to set up
  setting,   \* the address whose setup the occupancy thread is busy with
  started,   \* the poll thread has posted the sensors of devices.txt
  failures, discoveries, orders, \* counters
  anonymous, \* history: a sensor was registered without its IEEE address
  accepted,  \* history: the sensors whose bindings were accepted, or that were loaded
  early,     \* history: the sensors that were posted at the start or by the operator
  age,       \* history: ticks since an address was registered, up to Settle
  rest       \* history: ticks since the last setup of a sensor, up to Cooldown

deviceVars == <<address, used>>
ieeeVars == <<cached, asked>>
counters == <<failures, discoveries, orders>>
history == <<anonymous, accepted, early, age, rest>>
vars == <<deviceVars, ieeeVars, slots, num, inbox, setting, started, counters, history>>

Blank == [addr |-> None, ieee |-> None, configured |-> FALSE, retries |-> 0,
          last |-> Cooldown,  \* ticks since lastSetupAttempt
          sched |-> None]     \* ticks until setupScheduledTime

\* No sensor is known, or one was loaded from devices.txt, as configured.
Init ==
  /\ \E known \in {{}, {1}} :
       /\ address = [s \in Sensors |->
                       IF \E a \in known : OwnerOf[a] = s THEN CHOOSE a \in known : TRUE ELSE None]
       /\ used = known /\ cached = known /\ accepted = {OwnerOf[a] : a \in known}
       /\ num = Cardinality(known)
       /\ slots = [i \in 1 .. Capacity |->
                     IF i > num THEN Blank
                     ELSE LET a == CHOOSE a \in known : TRUE
                          IN  [Blank EXCEPT !.addr = a, !.ieee = OwnerOf[a], !.configured = TRUE]]
  /\ asked = {} /\ inbox = <<>> /\ setting = None
  /\ started = FALSE
  /\ failures = 0 /\ discoveries = 0 /\ orders = 0
  /\ anonymous = FALSE /\ early = {}
  /\ age = [a \in Addrs |-> 0] /\ rest = [s \in Sensors |-> Cooldown]

-----------------------------------------------------------------------------
(* The table. *)

Ieee(a) == IF a \in cached THEN OwnerOf[a] ELSE None

\* The loops over the table stop at the first entry that matches; 0 if none does.
FirstOf(is) == IF is = {} THEN 0 ELSE CHOOSE i \in is : \A j \in is : i <= j
IndexOf(a) == FirstOf({i \in 1 .. num : slots[i].addr = a})
Found(a) == FirstOf({i \in 1 .. num : slots[i].addr = a
                                      \/ (Ieee(a) # None /\ slots[i].ieee = Ieee(a))})
Registered(a) == IndexOf(a) # 0
AddrsIn(is) == Keep([i \in 1 .. num |-> slots[i].addr], is)

\* AqaraOccupancy_PostAssign.  A second message for an address that already waits
\* would find nothing left to do, and is left out.
Post(as) == inbox' = inbox \o Keep(as, {k \in DOMAIN as : ~Contains(inbox, as[k])})
Schedule(e) == [e EXCEPT !.sched = Settle]

-----------------------------------------------------------------------------
(* The sensors. *)

\* A sensor joins, or rejoins with a new address.
Join(a) ==
  /\ a = Cardinality(used) + 1 /\ used' = used \cup {a}
  /\ address' = [address EXCEPT ![OwnerOf[a]] = a]
  /\ UNCHANGED <<ieeeVars, slots, num, inbox, setting, started, counters, history>>

LoseAnswer(a) ==
  /\ a \in asked /\ asked' = asked \ {a}
  /\ UNCHANGED <<deviceVars, cached, slots, num, inbox, setting, started, counters, history>>

-----------------------------------------------------------------------------
(* The main thread. *)

\* Device announce: the IEEE address is stored, and asked for.
Announce(a) ==
  /\ a \in used \ cached
  /\ cached' = cached \cup {a} /\ asked' = asked \cup {a}
  /\ UNCHANGED <<deviceVars, slots, num, inbox, setting, started, counters, history>>

\* Fault: a sensor is looked up by its address only.
DiscoverByAddr(a) ==
  /\ a \in used /\ discoveries < MaxDiscoveries /\ discoveries' = discoveries + 1
  /\ LET i == IndexOf(a) IN
       IF i = 0 /\ num < Capacity
         THEN /\ slots' = [slots EXCEPT ![num + 1] =
                             Schedule([@ EXCEPT !.addr = a, !.ieee = Ieee(a), !.configured = FALSE])]
              /\ num' = num + 1
              /\ anonymous' = (anonymous \/ Ieee(a) = None)
              /\ UNCHANGED inbox
         ELSE UNCHANGED <<slots, num, inbox, anonymous>>
  /\ UNCHANGED <<deviceVars, ieeeVars, setting, started, failures, orders,
                 accepted, early, age, rest>>

\* AqaraOccupancy_Discover.  A new entry takes over the retries and the last
\* attempt of whatever was in its slot; when the table is full, the schedule of
\* its last entry is moved.
Discover(a) ==
  /\ a \in used /\ discoveries < MaxDiscoveries /\ discoveries' = discoveries + 1
  /\ LET i == Found(a)
         e == slots[i]
     IN IF i = 0
          THEN /\ IF num < Capacity
                    THEN /\ slots' = [slots EXCEPT ![num + 1] =
                              Schedule([@ EXCEPT !.addr = a, !.ieee = Ieee(a), !.configured = FALSE])]
                         /\ num' = num + 1
                         /\ anonymous' = (anonymous \/ Ieee(a) = None)
                    ELSE /\ slots' = [slots EXCEPT ![num] = Schedule(@)]
                         /\ UNCHANGED <<num, anonymous>>
               /\ UNCHANGED inbox
          ELSE LET new == [e EXCEPT !.addr = a, !.ieee = IF @ = None THEN Ieee(a) ELSE @]
               IN /\ slots' = [slots EXCEPT ![i] = IF e.configured THEN new ELSE Schedule(new)]
                  /\ Post(IF e.configured /\ e.addr = a THEN <<a>> ELSE <<>>)
                  /\ UNCHANGED <<num, anonymous>>
  /\ UNCHANGED <<deviceVars, ieeeVars, setting, started, failures, orders,
                 accepted, early, age, rest>>

\* AqaraOccupancy_UpdateIeee: other entries with the IEEE address are dropped,
\* and the first of them says whether the one that stays is configured.
UpdateIeee(a) ==
  LET i     == IndexOf(a)
      stale == {j \in 1 .. num : slots[j].addr # a /\ slots[j].ieee = OwnerOf[a]}
      known == [slots EXCEPT ![i].ieee = OwnerOf[a],
                 ![i].configured = IF stale = {} THEN @ ELSE slots[FirstOf(stale)].configured]
      table == Removal(known, num, stale)
  IN  IF i = 0 THEN UNCHANGED <<slots, num, inbox>>
      ELSE /\ slots' = table.entries /\ num' = table.num
           /\ Post(IF known[i].configured THEN <<a>> ELSE <<>>)

IeeeRsp(a) ==
  /\ a \in asked /\ asked' = asked \ {a}
  /\ cached' = cached \cup {a}
  /\ UpdateIeee(a)
  /\ UNCHANGED <<deviceVars, setting, started, counters, history>>

-----------------------------------------------------------------------------
(* The operator. *)

Order(a) ==
  /\ orders < MaxOrders /\ orders' = orders + 1
  /\ Registered(a) /\ Post(<<a>>) /\ early' = early \cup {OwnerOf[a]}
  /\ UNCHANGED <<deviceVars, ieeeVars, num, setting, started, failures, discoveries,
                 anonymous, accepted, age, rest>>

\* "forcesetup" and "rebind".
ForceSetup(a) == Order(a) /\ UNCHANGED slots
Rebind(a) == Order(a) /\ slots' = [slots EXCEPT ![IndexOf(a)].configured = FALSE]

-----------------------------------------------------------------------------
(* AqaraOccupancy_PollThread.  It collects under the lock and posts after: as *)
(* any message may wait for long, both are one step here.                     *)

PostAtStart ==
  /\ ~started /\ started' = TRUE
  /\ Post(AddrsIn(1 .. num)) /\ early' = early \cup {OwnerOf[slots[i].addr] : i \in 1 .. num}
  /\ UNCHANGED <<deviceVars, ieeeVars, slots, num, setting, counters,
                 anonymous, accepted, age, rest>>

MayRetry(e) == ~e.configured /\ e.retries < MaxRetries

\* Every 300 ms.
PollDelayed ==
  /\ started
  /\ LET due == {i \in 1 .. num : MayRetry(slots[i]) /\ slots[i].sched = 0} IN
       /\ due # {} /\ Post(AddrsIn(due))
       /\ slots' = [i \in DOMAIN slots |->
                      IF i \in due THEN [slots[i] EXCEPT !.sched = None] ELSE slots[i]]
  /\ UNCHANGED <<deviceVars, ieeeVars, num, setting, started, counters, history>>

\* Fault: it tries again only what has failed.
PollRetryFailed ==
  /\ started
  /\ Post(AddrsIn({i \in 1 .. num : MayRetry(slots[i]) /\ slots[i].sched = None
                                       /\ slots[i].retries > 0}))
  /\ UNCHANGED <<deviceVars, ieeeVars, slots, num, setting, started, counters, history>>

\* Fault: it does not wait for the schedule.
PollRetryAll ==
  /\ started
  /\ Post(AddrsIn({i \in 1 .. num : MayRetry(slots[i])}))
  /\ UNCHANGED <<deviceVars, ieeeVars, slots, num, setting, started, counters, history>>

\* Every 90 s, what is not waiting for its schedule.
PollRetry ==
  /\ started
  /\ Post(AddrsIn({i \in 1 .. num : MayRetry(slots[i]) /\ slots[i].sched = None}))
  /\ UNCHANGED <<deviceVars, ieeeVars, slots, num, setting, started, counters, history>>

-----------------------------------------------------------------------------
(* AqaraOccupancy_Setup. *)

\* The part under the lock: a configured sensor is left alone, an unknown IEEE
\* address is asked for, and setups keep their distance.
BeginSetup(a) ==
  /\ setting = None /\ inbox # <<>> /\ a = Head(inbox) /\ inbox' = Tail(inbox)
  /\ LET i == IndexOf(a)
         e == [slots[i] EXCEPT !.ieee = IF @ = None THEN Ieee(a) ELSE @]
     IN IF i = 0 \/ slots[i].configured
          THEN UNCHANGED <<slots, setting, asked, rest>>
        ELSE IF e.ieee = None
          THEN asked' = asked \cup {a} /\ UNCHANGED <<slots, setting, rest>>
        ELSE IF e.last < Cooldown
          THEN slots' = [slots EXCEPT ![i] = e] /\ UNCHANGED <<setting, asked, rest>>
          ELSE /\ slots' = [slots EXCEPT ![i] = [e EXCEPT !.last = 0]]
               /\ setting' = a /\ rest' = [rest EXCEPT ![OwnerOf[a]] = 0]
               /\ UNCHANGED asked
  /\ UNCHANGED <<deviceVars, cached, num, started, counters, anonymous, accepted, early, age>>

SetupDone ==
  /\ setting # None /\ setting' = None
  /\ UNCHANGED <<deviceVars, ieeeVars, num, inbox, started, discoveries, orders,
                 anonymous, early, age, rest>>

\* The ZNP has taken the bind requests; the sensor's attributes are written,
\* whatever becomes of it.
SetupSucceeds ==
  /\ SetupDone
  /\ LET i == IndexOf(setting) IN
       slots' = IF i = 0 THEN slots
                ELSE [slots EXCEPT ![i] = [@ EXCEPT !.configured = TRUE, !.retries = 0]]
  /\ accepted' = accepted \cup {OwnerOf[setting]}
  /\ UNCHANGED failures

\* One of them was refused, or not answered.
SetupFails ==
  /\ SetupDone
  /\ failures < MaxFailures /\ failures' = failures + 1
  /\ slots' = IF Registered(setting)
                THEN [slots EXCEPT ![IndexOf(setting)].retries = @ + 1] ELSE slots
  /\ UNCHANGED accepted

-----------------------------------------------------------------------------
\* Time passes for whatever waits for it.
Tick ==
  /\ slots' = [i \in DOMAIN slots |->
                [slots[i] EXCEPT !.last = IF @ < Cooldown THEN @ + 1 ELSE @,
                                 !.sched = IF @ \in {None, 0} THEN @ ELSE @ - 1]]
  /\ rest' = [s \in Sensors |-> IF rest[s] < Cooldown THEN rest[s] + 1 ELSE rest[s]]
  /\ age' = [a \in Addrs |-> IF Registered(a) /\ age[a] < Settle THEN age[a] + 1 ELSE age[a]]
  /\ UNCHANGED <<deviceVars, ieeeVars, num, inbox, setting, started, counters,
                 anonymous, accepted, early>>

Worker == (\E a \in Addrs : BeginSetup(a)) \/ SetupSucceeds \/ SetupFails

Next ==
  \/ \E a \in Addrs :
       Join(a) \/ LoseAnswer(a) \/ Announce(a) \/ Discover(a) \/ IeeeRsp(a)
         \/ ForceSetup(a) \/ Rebind(a)
  \/ PostAtStart \/ PollDelayed \/ PollRetry \/ Worker \/ Tick

Spec == Init /\ [][Next]_vars

\* The threads go on, the poll thread's periods come round, time passes, and a
\* sensor that is asked again and again answers in the end.
FairSpec ==
  /\ Spec
  /\ WF_vars(PostAtStart \/ PollDelayed) /\ WF_vars(PollRetry)
  /\ WF_vars(Worker)
  /\ SF_vars(\E s \in Sensors : IeeeRsp(address[s]))
  /\ WF_vars(Tick)

-----------------------------------------------------------------------------
(* Properties. *)

Slot == [addr : Addrs \cup {None}, ieee : Sensors \cup {None}, configured : BOOLEAN,
         retries : 0 .. MaxFailures, last : 0 .. Cooldown, sched : 0 .. Settle \cup {None}]

TypeOK ==
  /\ address \in [Sensors -> Addrs \cup {None}] /\ used \subseteq Addrs
  /\ UNION {accepted, early} \subseteq Sensors
  /\ cached \cup asked \subseteq Addrs /\ inbox \in Seq(Addrs)
  /\ num \in 0 .. Capacity /\ setting \in Addrs \cup {None}
  /\ slots \in [1 .. Capacity -> Slot]
  /\ {started, anonymous} \subseteq BOOLEAN /\ failures \in 0 .. MaxFailures
  /\ discoveries \in 0 .. MaxDiscoveries /\ orders \in 0 .. MaxOrders
  /\ age \in [Addrs -> 0 .. Settle] /\ rest \in [Sensors -> 0 .. Cooldown]

\* Unless a sensor was registered before its IEEE address was known, the table
\* has one entry for it, whatever addresses it had.
OneEntry ==
  anonymous \/ \A i, j \in 1 .. num : i # j => slots[i].addr # slots[j].addr
                                               /\ slots[i].ieee # slots[j].ieee

\* A sensor counts as configured only if a setup of it was accepted, although the
\* entry is looked up anew after it and entries are merged.
ConfiguredWasBound ==
  \A i \in 1 .. num : slots[i].configured => OwnerOf[slots[i].addr] \in accepted

SetupInv == TypeOK /\ OneEntry /\ ConfiguredWasBound

\* No setup starts while the sensor is still joining, unless the sensor was posted
\* at the start or by the operator, nor so soon after the last one of the sensor,
\* whatever address it had, if it was never registered without its IEEE address.
SetupsAreApart ==
  [][setting = None /\ setting' # None =>
       anonymous \/ (/\ age[setting'] >= Settle \/ OwnerOf[setting'] \in early
                     /\ rest[OwnerOf[setting']] >= Cooldown)]_vars

Entry(s) == slots[IndexOf(address[s])]

\* A registered sensor is configured in the end, or its setup has failed too often.
GetsConfigured ==
  \A s \in Sensors :
    Registered(address[s]) ~>
      (~Registered(address[s]) \/ Entry(s).configured \/ Entry(s).retries >= MaxRetries)

-----------------------------------------------------------------------------
(* What a comment says, and the code does not keep: README, section 5. *)

\* aqara_occupancy.c:647-651: the cooldown holds for a new address whose IEEE
\* address is not cached, too; its new entry has no last attempt.
SetupsAlwaysApart ==
  [][setting = None /\ setting' # None => rest[OwnerOf[setting']] >= Cooldown]_vars
=============================================================================
