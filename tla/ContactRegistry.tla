--------------------------- MODULE ContactRegistry ---------------------------
(***************************************************************************)
(* The registry of the contact sensors (contact_sensor.c), with what feeds *)
(* it: the cache of IEEE addresses and the frames of main.c, the setups of *)
(* the contact thread, and devices.txt, across crashes and restarts.       *)
(*                                                                         *)
(* A battery sensor often rejoins with a new short address.  The program   *)
(* knows it again by its IEEE address, which may be known too late: then   *)
(* the new address is registered anonymously and the entries are merged    *)
(* when the IEEE address arrives.                                          *)
(*                                                                         *)
(* An address is never given to a second sensor.  Frames may be lost or    *)
(* late: any frame of an address that was ever used may come at any time.  *)
(***************************************************************************)
EXTENDS Integers, Sequences, SequencesExt, FiniteSets, Compaction

CONSTANTS
  Sensors,    \* identified by their IEEE addresses
  Addrs,      \* short addresses
  OwnerOf,    \* the sensor that an address is given to
  NoIeee,     \* hasIeee is false
  NoAddr,     \* the contact thread sets up no sensor
  Capacity,   \* MAX_CONTACT_SENSORS
  CacheSize,  \* MAX_DISCOVERED_IEEES
  MaxRetries, \* 5: setups that may fail before frames stop to retrigger them
  RetryWrap,  \* 256: setupRetries is a uint8_t
  MaxZone, MaxRestarts \* bounds: zone ids handed out, restarts

ASSUME RegistryAssumption ==
  /\ OwnerOf \in [Addrs -> Sensors]
  /\ NoIeee \notin Sensors /\ NoAddr \notin Addrs
  /\ {Capacity, CacheSize, MaxRetries, RetryWrap} \subseteq Nat \ {0}
  /\ MaxRetries < RetryWrap
  /\ {MaxZone, MaxRestarts} \subseteq Nat

VARIABLES
  heard,      \* addresses the sensors have joined with
  cached,     \* g_discoveredIeees: the addresses it has
  reg,        \* g_contactSensors
  assigned,   \* addresses with a SENSOR_MSG_ASSIGN in s_contactInbox
  setting,    \* the address ContactSensor_Setup is sending its requests to
  nextZone,   \* g_nextZoneId
  saving,     \* threads about to call Device_Save
  file,       \* devices.txt
  restarts,   \* counter
  anonymous,  \* history: an address was once registered without IEEE address
  resolved,   \* history: a setup filled in an IEEE address since the last save
  accepted,   \* history: addresses for which a setup was accepted
  loaded      \* history: sensors whose entry came from devices.txt

mainVars == <<heard, cached, anonymous>>
contactVars == <<assigned, setting, nextZone, accepted>>
fileVars == <<file, restarts, resolved, loaded>>
vars == <<mainVars, reg, contactVars, saving, fileVars>>

NoZone == -1
Ieee(a) == IF a \in cached THEN OwnerOf[a] ELSE NoIeee

Init ==
  /\ heard = {} /\ cached = {} /\ reg = <<>>
  /\ assigned = {} /\ setting = NoAddr /\ nextZone = 1
  /\ saving = {} /\ file = <<>> /\ restarts = 0
  /\ anonymous = FALSE /\ resolved = FALSE /\ accepted = {} /\ loaded = {}

\* The loops over g_contactSensors stop at the first entry that matches; 0 if
\* there is none.
FirstWith(P(_)) == SelectInSeq(reg, P)
EntryOf(a) == FirstWith(LAMBDA e : e.addr = a)

MainIdle == "main" \notin saving
ContactIdle == "contact" \notin saving /\ setting = NoAddr

\* Device_AddDiscoveredIeee.
CacheWith(a) ==
  IF Cardinality(cached) < CacheSize THEN cached \cup {a} ELSE cached

-----------------------------------------------------------------------------
(* The sensors and the main thread. *)

\* A sensor joins or rejoins.
Join(a) ==
  /\ a \notin heard
  /\ heard' = heard \cup {a}
  /\ UNCHANGED <<cached, anonymous, reg, contactVars, saving, fileVars>>

\* ZDO_END_DEVICE_ANNCE_IND.
Announce(a) ==
  /\ MainIdle /\ a \in heard
  /\ cached' = CacheWith(a)
  /\ UNCHANGED <<heard, anonymous, reg, contactVars, saving, fileVars>>

\* ContactSensor_Discover for an address that is not found.
Register(a) ==
  IF Len(reg) < Capacity
    THEN /\ reg' = Append(reg, [addr |-> a, ieee |-> Ieee(a), configured |-> FALSE,
                                retries |-> 0, zone |-> NoZone])
         /\ saving' = saving \cup {"main"}
         /\ anonymous' = (anonymous \/ Ieee(a) = NoIeee)
    ELSE UNCHANGED <<reg, saving, anonymous>>

\* ContactSensor_Discover for an entry that is found: a new address has to be
\* configured again, a missing IEEE address is filled in.
Refresh(i, a) ==
  LET e == reg[i]
      new == [e EXCEPT !.addr = a,
                       !.configured = @ /\ e.addr = a,
                       !.ieee = IF @ = NoIeee THEN Ieee(a) ELSE @]
  IN /\ reg' = [reg EXCEPT ![i] = new]
     /\ saving' = IF e.addr # a \/ new.ieee # e.ieee THEN saving \cup {"main"} ELSE saving
     /\ UNCHANGED anonymous

\* Fault: a sensor is looked up by its short address only.
DiscoverByAddr(a) ==
  /\ MainIdle /\ a \in heard
  /\ LET i == EntryOf(a) IN IF i = 0 THEN Register(a) ELSE Refresh(i, a)
  /\ assigned' = assigned \cup {a}
  /\ UNCHANGED <<heard, cached, setting, nextZone, accepted, fileVars>>

\* A simple descriptor response: the setup is posted in any case.
Discover(a) ==
  /\ MainIdle /\ a \in heard
  /\ LET i == FirstWith(LAMBDA e : e.addr = a \/ (a \in cached /\ e.ieee = OwnerOf[a]))
     IN IF i = 0 THEN Register(a) ELSE Refresh(i, a)
  /\ assigned' = assigned \cup {a}
  /\ UNCHANGED <<heard, cached, setting, nextZone, accepted, fileVars>>

\* Fault: the entry that the others are merged into is removed with them.
MergedAway(a) ==
  LET t == EntryOf(a)
      d == OwnerOf[a]
  IN Keep([reg EXCEPT ![t].ieee = d], {i \in DOMAIN reg : i # t /\ reg[i].ieee # d})

\* ContactSensor_UpdateIeee takes over zone and configuration of the other
\* entries of the sensor, the first of them last, and removes them. It takes over
\* isOpen and lastOpenedTime, too: DoorWatch has them.
Merged(a) ==
  LET t == EntryOf(a)
      d == OwnerOf[a]
      Stale(e) == e.addr # a /\ e.ieee = d
      s == FirstWith(Stale)
      target == IF s = 0 THEN [reg[t] EXCEPT !.ieee = d]
                ELSE [reg[t] EXCEPT !.ieee = d, !.zone = reg[s].zone,
                                    !.configured = reg[s].configured]
  IN Keep([reg EXCEPT ![t] = target], {i \in DOMAIN reg : ~Stale(reg[i])})

\* An IEEE address response. Nothing is updated if the cache has no room.
IeeeResponse(a) ==
  /\ MainIdle /\ a \in heard
  /\ cached' = CacheWith(a)
  /\ IF a \in cached' /\ EntryOf(a) # 0
       THEN /\ reg' = Merged(a)
            /\ assigned' = assigned \cup {a}
            /\ saving' = saving \cup {"main"}
       ELSE UNCHANGED <<reg, assigned, saving>>
  /\ UNCHANGED <<heard, anonymous, setting, nextZone, accepted, fileVars>>

IsUnconfigured(a) == EntryOf(a) # 0 /\ ~reg[EntryOf(a)].configured

\* Any frame of a registered sensor: ContactSensor_UpdateSeen. The last attempt
\* is more than 30 s ago (long) or not.
FrameOf(a, long) ==
  /\ MainIdle /\ a \in heard
  /\ IsUnconfigured(a)
  /\ assigned' = IF long /\ reg[EntryOf(a)].retries < MaxRetries
                   THEN assigned \cup {a} ELSE assigned
  /\ UNCHANGED <<mainVars, reg, setting, nextZone, accepted, saving, fileVars>>

-----------------------------------------------------------------------------
(* The contact thread. *)

\* ContactSensor_Setup, up to its requests. An IEEE address found in the cache
\* is filled in, and not saved; one that is not known is asked for.
SetupBegins(a) ==
  /\ ContactIdle /\ a \in assigned
  /\ assigned' = assigned \ {a}
  /\ LET i == EntryOf(a) IN
       IF ~IsUnconfigured(a) \/ (reg[i].ieee = NoIeee /\ a \notin cached)
         THEN UNCHANGED <<reg, setting, resolved>>
         ELSE /\ setting' = a
              /\ reg' = [reg EXCEPT ![i].ieee = IF @ = NoIeee THEN OwnerOf[a] ELSE @]
              /\ resolved' = (resolved \/ reg[i].ieee = NoIeee)
  /\ UNCHANGED <<mainVars, nextZone, accepted, saving, file, restarts, loaded>>

\* Bind and CIE address were accepted by the coordinator, or not.
SetupEnds(ok) ==
  /\ setting # NoAddr
  /\ LET i == EntryOf(setting) IN
       reg' = IF i = 0 THEN reg
              ELSE IF ok THEN [reg EXCEPT ![i].configured = TRUE, ![i].retries = 0]
              ELSE [reg EXCEPT ![i].retries = (@ + 1) % RetryWrap]
  /\ accepted' = IF ok THEN accepted \cup {setting} ELSE accepted
  /\ setting' = NoAddr
  /\ UNCHANGED <<mainVars, assigned, nextZone, saving, fileVars>>

\* ContactSensor_HandleEnroll.
Enroll(a) ==
  /\ ContactIdle /\ a \in heard /\ nextZone <= MaxZone
  /\ nextZone' = nextZone + 1
  /\ LET i == EntryOf(a) IN
       reg' = IF i = 0 THEN reg ELSE [reg EXCEPT ![i].zone = nextZone]
  /\ saving' = saving \cup {"contact"}
  /\ UNCHANGED <<mainVars, assigned, setting, accepted, fileVars>>

-----------------------------------------------------------------------------
(* devices.txt. *)

\* What Device_Save writes, and what Device_Load makes of it: entries without
\* IEEE address are left out, and all entries come back configured.
Persisted(r) ==
  LET kept == Keep(r, {i \in DOMAIN r : r[i].ieee # NoIeee})
  IN [i \in DOMAIN kept |-> [addr |-> kept[i].addr, ieee |-> kept[i].ieee,
                             zone |-> kept[i].zone]]
Load(f) ==
  [i \in DOMAIN f |-> [addr |-> f[i].addr, ieee |-> f[i].ieee, configured |-> TRUE,
                       retries |-> 0, zone |-> f[i].zone]]

SensorsIn(f) == {f[i].ieee : i \in DOMAIN f}

\* Device_Save, with g_deviceMutex held throughout.
Save(t) ==
  /\ t \in saving
  /\ file' = Persisted(reg)
  /\ resolved' = FALSE
  /\ saving' = saving \ {t}
  /\ UNCHANGED <<mainVars, reg, contactVars, restarts, loaded>>

\* The program is stopped, and started again. In the middle of a save the file
\* has been truncated and holds the lines written so far.
Restart ==
  /\ restarts < MaxRestarts
  /\ restarts' = restarts + 1
  /\ \E f \in {file} \cup (IF saving = {} THEN {} ELSE Prefixes(Persisted(reg))) :
       /\ file' = f
       /\ reg' = Load(f)
       /\ cached' = {f[i].addr : i \in DOMAIN f}
       /\ loaded' = SensorsIn(f)
  /\ assigned' = {} /\ setting' = NoAddr /\ saving' = {} /\ nextZone' = 1
  /\ accepted' = {} /\ resolved' = FALSE
  /\ UNCHANGED <<heard, anonymous>>

-----------------------------------------------------------------------------
Next ==
  \/ \E a \in Addrs :
       \/ Join(a) \/ Announce(a) \/ Discover(a) \/ IeeeResponse(a)
       \/ \E long \in BOOLEAN : FrameOf(a, long)
       \/ SetupBegins(a) \/ Enroll(a)
  \/ \E ok \in BOOLEAN : SetupEnds(ok)
  \/ \E t \in {"main", "contact"} : Save(t)
  \/ Restart

Spec == Init /\ [][Next]_vars

-----------------------------------------------------------------------------
(* Properties. *)

Saved == [addr : Addrs, ieee : Sensors, zone : Nat \cup {NoZone}]
Entry == [addr : Addrs, ieee : Sensors \cup {NoIeee}, configured : BOOLEAN,
          retries : 0 .. RetryWrap - 1, zone : Nat \cup {NoZone}]

TypeOK ==
  /\ heard \subseteq Addrs /\ cached \subseteq Addrs
  /\ reg \in Seq(Entry) /\ Len(reg) <= Capacity
  /\ assigned \subseteq Addrs /\ setting \in Addrs \cup {NoAddr}
  /\ nextZone \in Nat /\ saving \subseteq {"main", "contact"}
  /\ file \in Seq(Saved) /\ restarts \in 0 .. MaxRestarts
  /\ anonymous \in BOOLEAN /\ resolved \in BOOLEAN
  /\ accepted \subseteq Addrs /\ loaded \subseteq Sensors

Distinct ==
  \A i, j \in DOMAIN reg : i # j =>
    reg[i].addr # reg[j].addr /\ reg[i].ieee # reg[j].ieee

\* As long as every address was known by its IEEE address when it was
\* registered, a sensor has one entry however often it rejoins.
KnownSensorsAreDistinct == ~anonymous => Distinct

\* Between two saves devices.txt is what the registry would write: both threads
\* save after each change, but for the IEEE address that a setup fills in.
FileIsCurrent == saving = {} /\ ~resolved => file = Persisted(reg)

\* Merging never drops a sensor from the file: only a crash in the middle of a
\* save loses it.
SavedIsKept ==
  [][SensorsIn(file) \subseteq SensorsIn(file') \/ (restarts' # restarts /\ saving # {})]_vars

\* A configured sensor was set up at one of its addresses, or came from the file.
ConfiguredWasSetUp ==
  \A i \in DOMAIN reg : reg[i].configured =>
    \/ \E a \in accepted : OwnerOf[a] = OwnerOf[reg[i].addr]
    \/ reg[i].ieee \in loaded

\* All state is of its type, known sensors have one entry, the file has it, and
\* what counts as configured was set up.
RegistryInv == TypeOK /\ KnownSensorsAreDistinct /\ FileIsCurrent /\ ConfiguredWasSetUp

-----------------------------------------------------------------------------
(* What the comments say, and the code does not keep: README, section 5. *)

\* contact_sensor.c:182-185: looking a sensor up by its IEEE address prevents
\* phantom duplicates. An entry behind another with its address is one: no
\* status ever reaches it, and nothing removes it.
NoPhantoms == \A i, j \in DOMAIN reg : i # j => reg[i].addr # reg[j].addr

\* contact_sensor.c:233-236: a rejoined sensor must be configured again.
RejoinedIsSetUpAgain ==
  restarts = 0 => \A i \in DOMAIN reg : reg[i].configured => reg[i].addr \in accepted

\* contact_sensor.h:21: configured is true once bind and CIE write succeeded.
ConfiguredIsVerified ==
  \A i \in DOMAIN reg : reg[i].configured =>
    \E a \in accepted : OwnerOf[a] = OwnerOf[reg[i].addr]

\* contact_sensor.c:347-348: the next frame retriggers a setup that failed.
NextFrameRetriggers ==
  \A a \in Addrs : IsUnconfigured(a) => reg[EntryOf(a)].retries < MaxRetries
=============================================================================
