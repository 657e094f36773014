--------------------------- MODULE DeviceRegistry ---------------------------
(***************************************************************************)
(* The registries of the Frient sirens (siren.c), the Okos sirens          *)
(* (okos_siren.c) and the air-quality sensors (aqara_tvoc.c): arrays of a  *)
(* fixed size whose entries are removed by moving the later ones down, so  *)
(* that what an entry held stays behind in the slot after the last one.    *)
(* How they differ is in what they reset when a slot is used again, in     *)
(* what a merge takes over, and in when a device counts as configured.     *)
(*                                                                         *)
(* A siren that rejoins with a new short address gets a second entry, and  *)
(* the two are merged when its IEEE address arrives.  The cache of IEEE    *)
(* addresses has room (its limit is in ContactRegistry).  A device may use *)
(* any of its addresses from the start, and any frame of an address that   *)
(* it has used may come late.  The endpoint, the zone id and the times are *)
(* left out; volume stands for the settings of a siren that a merge takes  *)
(* over (volume and tone).  The strobe mode of an Okos siren, which no     *)
(* merge takes over, is left out.                                          *)
(***************************************************************************)
EXTENDS Integers, SequencesExt, FiniteSets, Compaction

CONSTANTS
  Devices,       \* identified by their IEEE addresses
  Addrs,         \* short addresses
  OwnerOf,       \* the device that an address is given to
  NoIeee,        \* hasIeee is false
  NoAddr,        \* an address of no device, as in a slot never used
  Capacity,      \* MAX_SIRENS, MAX_OKOS_SIRENS, MAX_AQARA_TVOC
  Volumes, DefaultVolume,
  NoVolume,      \* it is not clear which volume a siren should have
  MaxRestarts    \* bound

ASSUME DeviceAssumption ==
  /\ OwnerOf \in [Addrs -> Devices]
  /\ NoIeee \notin Devices /\ NoAddr \notin Addrs
  /\ Capacity \in Nat \ {0} /\ MaxRestarts \in Nat
  /\ DefaultVolume \in Volumes /\ NoVolume \notin Volumes

Kinds == {"siren", "okos", "tvoc"}

VARIABLES
  kind,      \* which of the three registries this behaviour is about
  cached,    \* g_discoveredIeees: the addresses it has
  slots,     \* g_sirens, g_okosSirens, g_aqaraTvocs
  num,       \* g_numSirens, g_numOkosSirens, g_numAqaraTvocs
  assigned,  \* addresses with a SENSOR_MSG_ASSIGN in the inbox of the worker
  setting,   \* the address that a setup is sending its requests to
  slotSet,   \* the index it has found, which AqaraTvoc_Setup uses again
  saving,    \* threads about to call Device_Save
  file,      \* the lines of devices.txt for this kind
  restarts,  \* counter
  setUp,     \* history: devices whose setup was sent, or that came from devices.txt
  inherited, \* history: a new entry took over old contents of its slot
  unsaved,   \* history: a setup or a report changed an entry since the last save
  wanted     \* history: the volume last set for a siren, or reported by it

slotVars == <<slots, num, inherited>>
setupVars == <<assigned, setting, slotSet, setUp>>
fileVars == <<file, restarts>>
vars == <<kind, cached, slotVars, setupVars, saving, fileVars, unsaved, wanted>>

NoSlot == [addr |-> NoAddr, ieee |-> NoIeee, configured |-> FALSE, volume |-> DefaultVolume]

Init ==
  /\ kind \in Kinds
  /\ cached = {}
  /\ slots = [i \in 1 .. Capacity |-> NoSlot] /\ num = 0 /\ inherited = FALSE
  /\ assigned = {} /\ setting = NoAddr /\ slotSet = 0 /\ setUp = {}
  /\ saving = {} /\ file = <<>> /\ restarts = 0
  /\ unsaved = FALSE
  /\ wanted = [d \in Devices |-> DefaultVolume]

IsSiren == kind # "tvoc"

\* The loops over a registry stop at the first entry that matches; 0 if none does.
FirstOf(is) == IF is = {} THEN 0 ELSE CHOOSE i \in is : \A j \in is : i <= j
EntryOf(a) == FirstOf({i \in 1 .. num : slots[i].addr = a})
Registered(a) == EntryOf(a) # 0
EntriesOf(d) == {i \in 1 .. num : slots[i].addr \in Addrs /\ OwnerOf[slots[i].addr] = d}

Idle(t) == t \notin saving
WorkerIdle == Idle("worker") /\ setting = NoAddr

-----------------------------------------------------------------------------
(* The devices and the main thread. *)

\* ZDO_END_DEVICE_ANNCE_IND.
Announce(a) ==
  /\ Idle("main")
  /\ cached' = cached \cup {a}
  /\ UNCHANGED <<kind, slotVars, setupVars, saving, fileVars, unsaved, wanted>>

\* Fault: no entry is reset to unconfigured.
EntryUnreset(old, a) ==
  [old EXCEPT !.addr = a, !.volume = DefaultVolume,
              !.ieee = IF a \in cached THEN OwnerOf[a] ELSE NoIeee]

\* What a slot holds once an address is registered in it: OkosSiren_Discover
\* does not reset configured, AqaraTvoc_Discover does not reset hasIeee.
NewEntry(old, a) ==
  LET ieee == IF a \in cached THEN OwnerOf[a] ELSE NoIeee
  IN CASE kind = "siren" -> [addr |-> a, ieee |-> ieee, configured |-> FALSE,
                             volume |-> DefaultVolume]
       [] kind = "okos" -> [old EXCEPT !.addr = a, !.ieee = ieee, !.volume = DefaultVolume]
       [] kind = "tvoc" -> [old EXCEPT !.addr = a, !.configured = FALSE,
                                       !.ieee = IF ieee = NoIeee THEN @ ELSE ieee]

Register(a) ==
  IF num < Capacity
    THEN /\ slots' = [slots EXCEPT ![num + 1] = NewEntry(@, a)]
         /\ num' = num + 1
         /\ inherited' = (inherited \/ NewEntry(slots[num + 1], a) # NewEntry(NoSlot, a))
         /\ saving' = saving \cup {"main"}
    ELSE UNCHANGED <<slotVars, saving>>

\* The entry that is found: a siren's misses its IEEE address, unless it is an
\* Okos siren; that of an air-quality sensor is moved to its new address.
Refresh(i, a) ==
  LET e == slots[i]
      filled == IF e.ieee = NoIeee /\ a \in cached THEN OwnerOf[a] ELSE e.ieee
      new == CASE kind = "siren" -> [e EXCEPT !.ieee = filled]
               [] kind = "okos" -> e
               [] kind = "tvoc" -> [e EXCEPT !.addr = a, !.ieee = filled,
                                             !.configured = @ /\ e.addr = a]
  IN /\ slots' = [slots EXCEPT ![i] = new]
     /\ saving' = IF new # e THEN saving \cup {"main"} ELSE saving
     /\ UNCHANGED <<num, inherited>>

\* A simple descriptor response; air-quality sensors are looked up by their
\* IEEE address first. The setup is posted in any case.
Discover(a) ==
  /\ Idle("main")
  /\ LET known == FirstOf({i \in 1 .. num : kind = "tvoc" /\ a \in cached
                                           /\ slots[i].ieee = OwnerOf[a]})
         i == IF known # 0 THEN known ELSE EntryOf(a)
     IN IF i = 0 THEN Register(a) ELSE Refresh(i, a)
  /\ assigned' = assigned \cup {a}
  /\ UNCHANGED <<kind, cached, setting, slotSet, setUp, fileVars, unsaved, wanted>>

\* Fault: the settings are not taken over.
TakeOverConfigured(e, t) == [t EXCEPT !.configured = e.configured]

\* What UpdateIeee takes over from an entry that it removes.
TakeOver(e, t) ==
  IF IsSiren THEN [t EXCEPT !.configured = e.configured, !.volume = e.volume] ELSE t

\* One round of the loop of UpdateIeee: an entry with the IEEE address of a and
\* another short address is removed.
MergeStep(a, i, r) ==
  LET e == r.slots[i]
      kept == [r.slots EXCEPT ![r.target] = TakeOver(e, @)]
  IN IF e.addr = a \/ e.ieee # OwnerOf[a] THEN r
     ELSE [slots |-> MoveDown(kept, i, r.num), num |-> r.num - 1,
           target |-> IF r.target > i THEN r.target - 1 ELSE r.target]

\* The entry of a gets its IEEE address.
MergeStart(a) ==
  [slots |-> [slots EXCEPT ![EntryOf(a)].ieee = OwnerOf[a]], num |-> num, target |-> EntryOf(a)]

\* The loop, from the last entry to the first.
Merged(a) ==
  LET Passed[i \in 1 .. num + 1] ==
        IF i = num + 1 THEN MergeStart(a) ELSE MergeStep(a, i, Passed[i + 1])
  IN Passed[1]

\* It is clear which volume a merge should leave to a siren: what it is merged into
\* is the newest entry, and the oldest one stays, or all the others are removed.
MergeIsClear(a) ==
  LET others == EntriesOf(OwnerOf[a]) \ {EntryOf(a)} IN
  /\ \A i \in others : i < EntryOf(a)
  /\ \/ \E i \in others : slots[i].ieee = NoIeee /\ \A j \in others : i <= j
     \/ \A i \in others : slots[i].ieee # NoIeee

\* An IEEE address response: Siren_, OkosSiren_, AqaraTvoc_UpdateIeee.
IeeeResponse(a) ==
  /\ Idle("main")
  /\ cached' = cached \cup {a}
  /\ IF Registered(a)
       THEN /\ slots' = Merged(a).slots /\ num' = Merged(a).num
            /\ assigned' = assigned \cup {a}
            /\ saving' = saving \cup {"main"}
            /\ wanted' = IF MergeIsClear(a) THEN wanted
                         ELSE [wanted EXCEPT ![OwnerOf[a]] = NoVolume]
       ELSE UNCHANGED <<slots, num, assigned, saving, wanted>>
  /\ UNCHANGED <<kind, inherited, setting, slotSet, setUp, fileVars, unsaved>>

\* Where a poll may go: Siren_PollAll leaves out the addresses of the sirens that
\* are not configured, and sends to them all the same: what is in their place was
\* never written. OkosSiren_PollAll leaves out none.
PollTargets ==
  {addrs \in [1 .. num -> Addrs \cup {NoAddr}] :
     \A i \in 1 .. num : (kind = "okos" \/ slots[i].configured) => addrs[i] = slots[i].addr}

-----------------------------------------------------------------------------
(* The worker thread of the kind. *)

\* The setup of a registered device that is not configured, up to its requests:
\* an IEEE address found in the cache is filled in, and not saved; one that is
\* not known is asked for. A siren counts as configured from here on.
SetupBegins(a) ==
  /\ WorkerIdle /\ a \in assigned
  /\ assigned' = assigned \ {a}
  /\ LET i == EntryOf(a)
         ieee == IF slots[i].ieee = NoIeee /\ a \in cached THEN OwnerOf[a] ELSE slots[i].ieee
     IN IF i = 0 \/ slots[i].configured \/ ieee = NoIeee
          THEN UNCHANGED <<slots, setting, slotSet, unsaved>>
          ELSE /\ slots' = [slots EXCEPT ![i].ieee = ieee, ![i].configured = IsSiren]
               /\ unsaved' = (unsaved \/ slots[i].ieee = NoIeee)
               /\ setting' = a /\ slotSet' = IF IsSiren THEN 0 ELSE i
  /\ UNCHANGED <<kind, cached, num, inherited, setUp, saving, fileVars, wanted>>

\* The CIE address is written, or the clusters are bound; nobody looks at the
\* result. An air-quality sensor now counts as configured, if it is still at
\* its index.
SetupEnds ==
  /\ setting # NoAddr
  /\ setUp' = setUp \cup {OwnerOf[setting]}
  /\ setting' = NoAddr /\ slotSet' = 0
  /\ slots' = IF ~IsSiren /\ slotSet <= num /\ slots[slotSet].addr = setting
                THEN [slots EXCEPT ![slotSet].configured = TRUE] ELSE slots
  /\ saving' = IF IsSiren THEN saving ELSE saving \cup {"worker"}
  /\ UNCHANGED <<kind, cached, num, inherited, assigned, fileVars, unsaved, wanted>>

Store(a, v) ==
  /\ Registered(a)
  /\ slots' = [slots EXCEPT ![EntryOf(a)].volume = v]
  /\ wanted' = [wanted EXCEPT ![OwnerOf[a]] =
                  IF EntriesOf(OwnerOf[a]) = {EntryOf(a)} THEN v ELSE NoVolume]
  /\ UNCHANGED <<kind, cached, num, inherited, setupVars, fileVars>>

\* An Okos siren reports its volume, which is not saved.
ReportVolume(a, v) ==
  /\ kind = "okos" /\ WorkerIdle
  /\ Store(a, v)
  /\ unsaved' = TRUE
  /\ UNCHANGED saving

-----------------------------------------------------------------------------
(* The operator. *)

\* Siren_SetVolume, OkosSiren_SetVolume.
SetVolume(a, v) ==
  /\ IsSiren /\ Idle("cli")
  /\ Store(a, v)
  /\ saving' = saving \cup {"cli"}
  /\ UNCHANGED unsaved

\* rebind, which knows neither Okos sirens nor air-quality sensors.
Rebind(a) ==
  /\ kind = "siren" /\ Idle("cli") /\ Registered(a)
  /\ slots' = [slots EXCEPT ![EntryOf(a)].configured = FALSE]
  /\ assigned' = assigned \cup {a}
  /\ UNCHANGED <<kind, cached, num, inherited, setting, slotSet, setUp, saving, fileVars,
                 unsaved, wanted>>

-----------------------------------------------------------------------------
(* devices.txt. *)

\* What Device_Save writes, and what Device_Load makes of it: sirens come back
\* configured, air-quality sensors do not.
Line(e) == [addr |-> e.addr, ieee |-> e.ieee, volume |-> e.volume]
Persisted ==
  Keep([i \in 1 .. num |-> Line(slots[i])], {i \in 1 .. num : slots[i].ieee # NoIeee})
Load(f) ==
  [i \in 1 .. Capacity |->
     IF i \in DOMAIN f THEN [addr |-> f[i].addr, ieee |-> f[i].ieee,
                             configured |-> IsSiren, volume |-> f[i].volume]
     ELSE NoSlot]

\* Device_Save, with g_deviceMutex held throughout.
Save(t) ==
  /\ t \in saving
  /\ file' = Persisted /\ unsaved' = FALSE
  /\ saving' = saving \ {t}
  /\ UNCHANGED <<kind, cached, slotVars, setupVars, restarts, wanted>>

\* Siren_HandleEnroll, OkosSiren_HandleEnroll: but for the zone id, a save.
Enroll ==
  /\ IsSiren /\ WorkerIdle
  /\ file' = Persisted /\ unsaved' = FALSE
  /\ UNCHANGED <<kind, cached, slotVars, setupVars, saving, restarts, wanted>>

\* A save may be under way; that of an enrollment is modelled as one step.
IsSaving == saving # {} \/ (IsSiren /\ WorkerIdle)

\* The program is stopped, and started again. In the middle of a save the file
\* has been truncated and holds the lines written so far.
Restart ==
  /\ restarts < MaxRestarts
  /\ restarts' = restarts + 1
  /\ \E f \in {file} \cup (IF IsSaving THEN Prefixes(Persisted) ELSE {}) :
       /\ file' = f
       /\ slots' = Load(f) /\ num' = Len(f)
       /\ cached' = {f[i].addr : i \in DOMAIN f}
       /\ setUp' = {OwnerOf[f[i].addr] : i \in DOMAIN f}
       /\ wanted' = [d \in Devices |->
                       LET i == FirstOf({j \in DOMAIN f : OwnerOf[f[j].addr] = d})
                       IN IF i = 0 THEN DefaultVolume ELSE f[i].volume]
  /\ assigned' = {} /\ setting' = NoAddr /\ slotSet' = 0 /\ saving' = {}
  /\ unsaved' = FALSE
  /\ UNCHANGED <<kind, inherited>>

-----------------------------------------------------------------------------
Next ==
  \/ \E a \in Addrs :
       \/ Announce(a) \/ Discover(a) \/ IeeeResponse(a)
       \/ SetupBegins(a) \/ Rebind(a)
       \/ \E v \in Volumes : ReportVolume(a, v) \/ SetVolume(a, v)
  \/ SetupEnds \/ Enroll
  \/ \E t \in {"main", "worker", "cli"} : Save(t)
  \/ Restart

Spec == Init /\ [][Next]_vars

-----------------------------------------------------------------------------
(* Properties. *)

Slot == [addr : Addrs \cup {NoAddr}, ieee : Devices \cup {NoIeee}, configured : BOOLEAN,
         volume : Volumes]
Saved == [addr : Addrs, ieee : Devices, volume : Volumes]

TypeOK ==
  /\ kind \in Kinds /\ cached \subseteq Addrs
  /\ slots \in [1 .. Capacity -> Slot] /\ num \in 0 .. Capacity /\ inherited \in BOOLEAN
  /\ assigned \subseteq Addrs /\ setting \in Addrs \cup {NoAddr} /\ setUp \subseteq Devices
  /\ slotSet \in 0 .. Capacity /\ saving \subseteq {"main", "worker", "cli"}
  /\ file \in Seq(Saved) /\ restarts \in 0 .. MaxRestarts
  /\ unsaved \in BOOLEAN
  /\ wanted \in [Devices -> Volumes \cup {NoVolume}]

\* A siren has one entry for each of its addresses.
AddrsAreDistinct ==
  IsSiren => \A i, j \in 1 .. num : i # j => slots[i].addr # slots[j].addr

\* A device is known by its own IEEE address: only that of an air-quality sensor
\* in a slot with old contents may be another's.
IeeeIsOwn ==
  ~(kind = "tvoc" /\ inherited) =>
    \A i \in 1 .. num : slots[i].ieee \in {NoIeee, OwnerOf[slots[i].addr]}

\* The setup of a device was sent at one of its addresses, is being sent, or its
\* entry came from the file.
WasSetUp(d) == d \in setUp \/ (setting # NoAddr /\ OwnerOf[setting] = d)

\* Configured devices were set up, but for Okos sirens in a slot with old contents.
ConfiguredWasSetUp ==
  ~(kind = "okos" /\ inherited) =>
    \A i \in 1 .. num : slots[i].configured => WasSetUp(OwnerOf[slots[i].addr])

\* Between two saves devices.txt is what the registry would write.
FileIsCurrent == saving = {} /\ ~unsaved => file = Persisted

\* What the arrays hold is of the device it is kept for, whatever is moved down
\* when entries are merged, and however late an IEEE address arrives.
DeviceInv ==
  TypeOK /\ AddrsAreDistinct /\ IeeeIsOwn /\ ConfiguredWasSetUp /\ FileIsCurrent

\* The volume set for a siren outlives its rejoining under a new address, as the
\* merge intends (siren.c:287): unless it was set while the siren had more entries
\* than one, or a merge left an older one, its one entry has it.
SettingIsKept ==
  \A d \in Devices, i \in 1 .. num :
    IsSiren /\ EntriesOf(d) = {i} => wanted[d] \in {slots[i].volume, NoVolume}

-----------------------------------------------------------------------------
(* What the comments say, and the code does not keep: README, section 5. *)

\* okos_siren.h:103: configured is true once the CIE address write has been sent.
OkosConfiguredIsSent ==
  (kind = "okos") =>
    \A i \in 1 .. num : slots[i].configured => WasSetUp(OwnerOf[slots[i].addr])

\* siren.h:151: the sirens are polled, and nothing else.
PollsReachSirens ==
  IsSiren => \A addrs \in PollTargets : \A i \in 1 .. num : Registered(addrs[i])
=============================================================================
