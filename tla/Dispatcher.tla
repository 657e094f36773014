----------------------------- MODULE Dispatcher ------------------------------
(***************************************************************************)
(* How a device gets into the program (Main_HandleIncomingFrame of main.c): *)
(* its announcements, the queries they lead to, the classification of its   *)
(* simple descriptors, and the routing of its messages to the workers,      *)
(* composed with the worker of the panic buttons (OnicsButton).             *)
(*                                                                          *)
(* Queries are asked at most once in 30 s for each address.  Responses      *)
(* arrive in any order, or are lost.  Of the other workers the model has    *)
(* the addresses they know.                                                 *)
(***************************************************************************)
EXTENDS OnicsButton, FiniteSets

CONSTANTS
  Profiles,    \* the kinds of devices: the descriptors of their endpoints, those that
               \* panic mode unlocks (hidden), the one that reports (app), the model
  MaxPending,  \* MAX_PENDING_DISCOVERIES
  MovesEarly   \* a button may change its address before it works

VARIABLES
  asked,    \* s_pendingDiscoveries: when an address was last queried
  known,    \* the addresses the other modules know
  profile   \* external: what kind of device it is

vars == <<workerVars, asked, known, profile>>
deviceVars == <<device, profile>>
frameVars == <<cache, buttons, inbox, asked, known, air>>

Modules == <<"aqara", "onics", "contact", "vibration", "occupancy", "okos", "siren", "tvoc">>
Others  == {Modules[i] : i \in DOMAIN Modules} \ {"onics"}

Knows(module, a) == IF module = "onics" THEN IsKnown(a) ELSE a \in known[module]
Owners(a) == {i \in DOMAIN Modules : Knows(Modules[i], a)}
First(is) == CHOOSE i \in is : \A j \in is : i <= j

-----------------------------------------------------------------------------
(* Device_AddDiscoveredIeee, Device_ShouldQuery. *)

AddDiscoveredIeee(a) ==
  cache' = IF cache[a] # None \/ Cardinality({b \in ShortAddrs : cache[b] # None}) < MaxCached
             THEN [cache EXCEPT ![a] = Ieee] ELSE cache

\* An address that finds no room in the table is never held back.
ShouldQuery(a) == asked[a] # "recently"
NoteQuery(a) ==
  asked' = IF asked[a] = "never"
                /\ Cardinality({b \in ShortAddrs : asked[b] # "never"}) >= MaxPending
             THEN asked ELSE [asked EXCEPT ![a] = "recently"]

\* Thirty seconds have passed, in which all answers have come.
Cool(a) ==
  /\ asked[a] = "recently"
  /\ \A i \in DOMAIN air : air[i].kind = "report"
  /\ asked' = [asked EXCEPT ![a] = "before"]
  /\ UNCHANGED <<workerVars, known, profile>>

(* The queries, and what the device will answer. *)

Endpoints == DOMAIN profile.descriptors \ (IF device.active THEN {} ELSE profile.hidden)
ActiveEpRsp(a) == From(a, <<Frame("activeEpRsp", a, Endpoints)>>)
SimpleDescRsp(a, eps) ==
  LET answered == eps \cap Endpoints
  IN  From(a, [k \in 1 .. Cardinality(answered) |->
                 Frame("simpleDescRsp", a, {Entrant(answered, k)})])
ModelRsp(a) == From(a, <<Frame("model", a, {})>>)

\* Endpoints 1 and 43 are asked about without waiting for the list of them.
Burst(a) == IeeeRsp(a) \o ActiveEpRsp(a) \o SimpleDescRsp(a, {1, 43})

-----------------------------------------------------------------------------
(* Classification of a simple descriptor. *)

\* The flags; iasZone alone means a contact sensor, but two kinds of Aqara
\* sensors have the device id 0x0402 in common, and are asked for their model.
IsVibration(d) == d.in \cap {"frient", "doorLock"} # {} \/ d.id = "vibration"

Flags(d) ==
  {flag \in {"occupancy", "tvoc", "vibration", "contact", "okosTuya", "siren", "onics", "aqara"} :
     CASE flag = "occupancy" -> "occupancy" \in d.in \/ d.id = "occupancy"
       [] flag = "tvoc"      -> "analogInput" \in d.in
       [] flag = "vibration" -> IsVibration(d)
       [] flag = "contact"   -> "iasZone" \in d.in /\ d.id # "iasZone" /\ ~IsVibration(d)
       [] flag = "okosTuya"  -> "tuya" \in d.in \/ (d.id = "plug" /\ d.in # {})
       [] flag = "siren"     -> "iasWd" \in d.in
       [] flag = "onics"     -> d.in \cap {"binaryInput", "multistate"} # {}
       [] flag = "aqara"     -> d.in \cap {"onOff", "multistate"} # {} \/ "onOff" \in d.out}

Precedence == <<"occupancy", "tvoc", "vibration", "contact", "okosTuya", "siren", "onics", "aqara">>

\* The module that registers endpoint ep: none is asked twice.
Classify(d, ep) ==
  LET flags == {i \in DOMAIN Precedence : Precedence[i] \in Flags(d)}
      flag  == Precedence[First(flags)]
  IN  IF flags = {} THEN None
      ELSE IF flag = "okosTuya" THEN "okos"
      ELSE IF flag # "siren" THEN flag
      ELSE CASE ep = 1 -> "okos" [] ep = 43 -> "siren" [] OTHER -> None

AsksModel(d) == d.id = "iasZone" /\ ~IsVibration(d)

\* The Discover function of the module.
Register(module, a) ==
  IF module = "onics" THEN Discover(a) /\ UNCHANGED known
  ELSE /\ known' = IF module = None THEN known ELSE [known EXCEPT ![module] = @ \cup {a}]
       /\ UNCHANGED <<buttons, inbox>>

-----------------------------------------------------------------------------
(* Main_HandleIncomingFrame. *)

F == Head(air)
Takes(frames) == air' = Tail(air) \o frames  \* the answers to new queries follow

\* ZDO device announce, 0xC1.
Announce ==
  /\ F.kind = "annce"
  /\ AddDiscoveredIeee(F.addr)
  /\ IF ShouldQuery(F.addr)
       THEN NoteQuery(F.addr) /\ Takes(Burst(F.addr))
       ELSE Takes(<<>>) /\ UNCHANGED asked
  /\ UNCHANGED <<buttons, inbox, known>>

\* Fault: a known panic button is held back as well.
AnnounceCbHeldBack ==
  /\ F.kind = "annceCb"
  /\ AddDiscoveredIeee(F.addr)
  /\ IF ShouldQuery(F.addr) THEN NoteQuery(F.addr) ELSE UNCHANGED asked
  /\ Takes(IF ShouldQuery(F.addr) THEN Burst(F.addr) ELSE <<>>)
  /\ IF ShouldQuery(F.addr) /\ IsKnown(F.addr) THEN Post("rebind", F.addr) ELSE UNCHANGED inbox
  /\ UNCHANGED <<buttons, known>>

\* The same by MSG_CB: a known panic button is not held back, as it may have
\* announced itself after its reset.
AnnounceCb ==
  /\ F.kind = "annceCb"
  /\ AddDiscoveredIeee(F.addr)
  /\ IF ShouldQuery(F.addr) THEN NoteQuery(F.addr) ELSE UNCHANGED asked
  /\ Takes(IF ShouldQuery(F.addr) \/ IsKnown(F.addr) THEN Burst(F.addr) ELSE <<>>)
  /\ IF IsKnown(F.addr) THEN Post("rebind", F.addr) ELSE UNCHANGED inbox
  /\ UNCHANGED <<buttons, known>>

HandleIeeeRsp ==
  /\ F.kind = "ieeeRsp"
  /\ AddDiscoveredIeee(F.addr)
  /\ IF cache'[F.addr] # None THEN UpdateIeee(F.addr, cache'[F.addr])
     ELSE UNCHANGED <<buttons, inbox>>
  /\ Takes(<<>>)
  /\ UNCHANGED <<asked, known>>

HandleActiveEpRsp ==
  /\ F.kind = "activeEpRsp"
  /\ Takes(SimpleDescRsp(F.addr, F.eps))
  /\ IF 35 \in F.eps /\ IsKnown(F.addr) THEN Post("rebind", F.addr) ELSE UNCHANGED inbox
  /\ UNCHANGED <<cache, buttons, asked, known>>

\* The answer to the queries by which the program looks for its devices when
\* it starts.
HandleMatchDescRsp ==
  /\ F.kind = "matchDescRsp"
  /\ Takes(SimpleDescRsp(F.addr, F.eps))
  /\ UNCHANGED <<cache, buttons, inbox, asked, known>>

HandleSimpleDescRsp ==
  /\ F.kind = "simpleDescRsp"
  /\ LET ep == CHOOSE ep \in F.eps : TRUE
         d  == profile.descriptors[ep]
     IN /\ Takes(IF AsksModel(d) THEN ModelRsp(F.addr) ELSE <<>>)
        /\ Register(Classify(d, ep), F.addr)
  /\ UNCHANGED <<cache, asked>>

\* Fault: the model is looked at before the registries.
HandleAfByModel ==
  /\ F.kind \in {"model", "report", "writeRsp", "enrollReq", "panic", "clear"}
  /\ LET a       == F.addr
         byModel == F.kind = "model" /\ profile.model \in {"contact", "tvoc"}
     IN IF byModel
          THEN Register(profile.model, a) /\ Takes(<<>>) /\ UNCHANGED asked
        ELSE IF Owners(a) # {}
          THEN /\ IF Modules[First(Owners(a))] = "onics" THEN Post(F.kind, a) ELSE UNCHANGED inbox
               /\ Takes(<<>>)
               /\ UNCHANGED <<buttons, asked, known>>
        ELSE IF ShouldQuery(a)
          THEN /\ NoteQuery(a)
               /\ Register(IF profile.app = 43 THEN "siren" ELSE None, a)
               /\ Takes(IF profile.app = 43 THEN <<>> ELSE ActiveEpRsp(a))
          ELSE Takes(<<>>) /\ UNCHANGED <<buttons, inbox, asked, known>>
  /\ UNCHANGED cache

\* AF message: of an unknown device, its model tells what it is, or endpoint 43,
\* or it is queried; then the first module that knows it is sent the message.
HandleAf ==
  /\ F.kind \in {"model", "report", "writeRsp", "enrollReq", "panic", "clear"}
  /\ LET a       == F.addr
         byModel == F.kind = "model" /\ profile.model \in {"contact", "tvoc"}
     IN IF Owners(a) # {}
          THEN /\ IF Modules[First(Owners(a))] = "onics" THEN Post(F.kind, a) ELSE UNCHANGED inbox
               /\ Takes(<<>>)
               /\ UNCHANGED <<buttons, asked, known>>
        ELSE IF byModel
          THEN Register(profile.model, a) /\ Takes(<<>>) /\ UNCHANGED asked
        ELSE IF ShouldQuery(a)
          THEN /\ NoteQuery(a)
               /\ Register(IF profile.app = 43 THEN "siren" ELSE None, a)
               /\ Takes(IF profile.app = 43 THEN <<>> ELSE ActiveEpRsp(a))
          ELSE Takes(<<>>) /\ UNCHANGED <<buttons, inbox, asked, known>>
  /\ UNCHANGED cache

HandleFrame ==
  /\ air # <<>> /\ Len(inbox) < MaxBacklog
  /\ \/ Announce \/ AnnounceCb \/ HandleIeeeRsp \/ HandleActiveEpRsp
     \/ HandleMatchDescRsp \/ HandleSimpleDescRsp \/ HandleAf
  /\ UNCHANGED <<job, deviceVars, mishaps, lost, press>>

-----------------------------------------------------------------------------
(* The device. *)

Announced(a) == air' = air \o <<Frame("annce", a, {}), Frame("annceCb", a, {})>>
InAir(kind) == \E i \in DOMAIN air : air[i].kind = kind

\* Set up as a panic button, or any other device, which needs nothing here.
Works ==
  profile.hidden = {} \/
    (/\ device.active /\ device.cie /\ device.enrolled /\ ~device.resets
     /\ device.bound = {"onOff", "zone"})

Join ==
  /\ device.addr = None
  /\ device' = [device EXCEPT !.addr = 1] /\ Announced(1)
  /\ UNCHANGED <<cache, buttons, inbox, job, mishaps, lost, press, asked, known, profile>>

\* It has another short address, and keeps what it was told.
Move ==
  /\ device.addr # None /\ (Works \/ MovesEarly)
  /\ mishaps < MaxMishaps /\ mishaps' = mishaps + 1
  /\ device' = [device EXCEPT !.addr = @ + 1] /\ Announced(device.addr + 1)
  /\ UNCHANGED <<cache, buttons, inbox, job, lost, press, asked, known, profile>>

Reset ==
  /\ device.resets
  /\ device' = [device EXCEPT !.resets = FALSE, !.bound = {}, !.cie = FALSE, !.enrolled = FALSE]
  /\ Announced(device.addr)
  /\ UNCHANGED <<cache, buttons, inbox, job, mishaps, lost, press, asked, known, profile>>

Send(frame) ==
  /\ device.addr # None /\ air' = Append(air, Frame(frame, device.addr, {}))
  /\ UNCHANGED <<cache, buttons, inbox, job, mishaps, lost, asked, known, profile>>

\* It goes on reporting; of a registered one this changes nothing, and is left out.
Report ==
  /\ ~InAir("report")
  /\ Owners(device.addr) = {}
  /\ Send("report") /\ UNCHANGED <<device, press>>

\* The button is pressed once it works, and released; its frames keep their order.
Press ==
  /\ profile.hidden # {} /\ Works /\ press = "none" /\ IsKnown(device.addr)
  /\ device' = [device EXCEPT !.pressed = TRUE]
  /\ press' = "sent"
  /\ Send("panic")
Release ==
  /\ device.pressed /\ Works
  /\ ~InAir("panic")
  /\ device' = [device EXCEPT !.pressed = FALSE]
  /\ Send("clear") /\ UNCHANGED press

(* The network: a frame comes late, or never. *)

Delay(i) ==
  /\ mishaps < MaxMishaps /\ mishaps' = mishaps + 1
  /\ air' = Append(RemoveAt(air, i), air[i])
  /\ UNCHANGED <<cache, buttons, inbox, job, device, profile, lost, press, asked, known>>

Lose(i) ==
  /\ mishaps < MaxMishaps /\ mishaps' = mishaps + 1
  /\ air' = RemoveAt(air, i) /\ lost' = TRUE
  /\ UNCHANGED <<cache, buttons, inbox, job, device, profile, press, asked, known>>

-----------------------------------------------------------------------------
Outside ==
  \/ Join \/ Move \/ Reset \/ Report \/ Press \/ Release
  \/ \E i \in DOMAIN air : Delay(i) \/ Lose(i)

WorkerStep == Worker /\ UNCHANGED <<asked, known, profile>>

Next ==
  \/ HandleFrame
  \/ WorkerStep
  \/ \E a \in ShortAddrs : Cool(a)
  \/ Outside

NewDevice(a) ==
  [addr |-> a, active |-> FALSE, bound |-> {}, cie |-> FALSE, enrolled |-> FALSE,
   resets |-> FALSE, pressed |-> FALSE]

\* The device is yet to join, or is in the network when the program starts
\* without its file.
Init ==
  /\ profile \in Profiles
  /\ \/ device = NewDevice(None) /\ air = <<>>
     \/ device = NewDevice(1) /\ air = <<Frame("matchDescRsp", 1, {profile.app})>>
  /\ cache = [a \in ShortAddrs |-> None] /\ asked = [a \in ShortAddrs |-> "never"]
  /\ known = [m \in Others |-> {}] /\ buttons = <<>> /\ inbox = <<>> /\ job = Idle
  /\ mishaps = 0 /\ lost = FALSE /\ press = "none"

Spec == Init /\ [][Next]_vars

\* Threads go on, frames are handled in the end, the device resets when it must
\* and reports for ever; time passes.
FairSpec ==
  /\ Spec
  /\ WF_vars(WorkerStep) /\ WF_vars(Reset) /\ WF_vars(Report)
  /\ WF_vars(HandleFrame)
  /\ WF_vars(\E a \in ShortAddrs : Cool(a))

-----------------------------------------------------------------------------
(* Properties. *)

TypeOK ==
  /\ \A a \in ShortAddrs : cache[a] \in {None, Ieee} /\ asked[a] \in {"never", "recently", "before"}
  /\ Len(buttons) <= MaxButtons
  /\ \A i \in DOMAIN buttons : buttons[i].addr \in ShortAddrs /\ buttons[i].ieee \in {None, Ieee}
  /\ known \in [Others -> SUBSET ShortAddrs]
  /\ \A i \in DOMAIN air : air[i].addr \in ShortAddrs

\* A panic button has an entry for each address at most, and one that was set up
\* has an IEEE address.
EntriesAgree ==
  /\ \A i, j \in DOMAIN buttons : i # j => buttons[i].addr # buttons[j].addr
  /\ \A i \in DOMAIN buttons : buttons[i].configured => buttons[i].ieee # None

\* The modules that the descriptors of a device of profile p lead to, and all that may
\* register it: by its model and by the endpoint of its reports, too.
Described(p) == {Classify(p.descriptors[ep], ep) : ep \in DOMAIN p.descriptors} \ {None}
Candidates(p) ==
  Described(p)
    \cup (IF p.model \in {"contact", "tvoc"} THEN {p.model} ELSE {})
    \cup (IF p.app = 43 THEN {"siren"} ELSE {})

\* A module knows an address only if something learnt of the device leads to it.
OwnersAreCandidates ==
  /\ \A m \in Others : known[m] # {} => m \in Candidates(profile)
  /\ buttons # <<>> => "onics" \in Candidates(profile)

JoinInv == TypeOK /\ OwnersAreCandidates /\ EntriesAgree

\* When a module has an address, only a descriptor makes another one claim it: what is
\* learnt from messages, the model and the endpoint, comes second to all else.
SecondClaimIsDescribed ==
  \/ UNCHANGED <<buttons, known>>
  \/ \A a \in ShortAddrs :
       Owners(a) # {} =>
         \A i \in DOMAIN Modules :
           Knows(Modules[i], a)' => Knows(Modules[i], a) \/ Modules[i] \in Described(profile)

\* However the descriptors, the model and the messages of a device arrive.
ClaimsAreFounded == []JoinInv /\ [][SecondClaimIsDescribed]_vars

\* What the proofs take for granted: the devices report from an endpoint they have.
ProfilesAreDevices ==
  /\ \A i \in DOMAIN Modules : Modules[i] # None
  /\ \A p \in Profiles :
       DOMAIN p.descriptors \subseteq 1 .. 240 /\ p.app \in DOMAIN p.descriptors

\* A device that goes on reporting is registered in the end under the address it
\* has, although queries are held back and frames are lost. If nothing is lost, a
\* panic button has also been bound and enrolled, in spite of the reset that
\* clears its bindings, and has one entry.
EventuallyWorks ==
  device.addr # None ~>
    Owners(device.addr) # {} /\ (lost \/ (Works /\ Len(buttons) <= 1))

\* A press of a registered button reaches the use-case layer.
PanicIsHeard == press = "sent" ~> press = "heard" \/ lost

-----------------------------------------------------------------------------
(* What the code does not ensure: README, section 5. *)

\* A device is in one registry. No registry looks at the others when a descriptor is
\* classified, and one descriptor knows nothing of the next.
OneOwner == \A a \in ShortAddrs : Cardinality(Owners(a)) <= 1

\* The messages of a registered device do not pass to another module.
HandlerIsKept ==
  [][\A a \in ShortAddrs : Owners(a) # {} /\ Owners(a)' # {} => First(Owners(a))' = First(Owners(a))]_vars
=============================================================================
