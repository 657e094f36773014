------------------------------- MODULE Startup -------------------------------
(***************************************************************************)
(* How the program brings the coordinator up (main of main.c, ZNP_Factory- *)
(* New and the system commands of znp_host.c): ping, device info, a soft   *)
(* reset or the factory-new sequence, ZDO_STARTUP_FROM_APP, and the wait   *)
(* for state 9, over starts of the program that may stop anywhere.         *)
(*                                                                         *)
(* Requests and answers can be lost, and a reset may be executed after the *)
(* 8 s that ZNP_SysResetReq waits; no request is answered before it is.    *)
(* FactoryNew looks at the outcome of its resets only, and then goes on    *)
(* whatever it was.                                                        *)
(*                                                                         *)
(* The ZNP is external.  As the comments of FactoryNew assume, a reset     *)
(* erases its NV items while STARTUP_OPTION asks for it, which stays set   *)
(* until it is written again.                                              *)
(***************************************************************************)
EXTENDS Naturals, Sequences, FiniteSets

CONSTANTS MaxStarts  \* bound: starts of the program

\* The NV items of FN-4 .. FN-9: the logical type, PAN id, channel and keys
\* (params), and ZDO_DIRECT_CB; in the order they are written.
ItemOrder == <<"type", "params", "directCb">>
Items == {ItemOrder[i] : i \in DOMAIN ItemOrder}

VARIABLES
  wipeFlag,  \* ZNP, NV: STARTUP_OPTION asks to clear configuration and state
  items,     \* ZNP, NV: the items that hold what the program writes
  net,       \* ZNP, NV: the network, 0 for none
  chip,      \* ZNP: boots, waits for ZDO_STARTUP_FROM_APP, starts, or is coordinator
  pending,   \* a reset is on its way to the ZNP
  events,    \* g_eventQueue
  pc, forced, \* the program, and whether it was started with -f
  hard,      \* the type of the reset that is asked for
  written,   \* items that FactoryNew has tried to write
  starts, nets, \* counters: starts, networks that were ever formed
  faulty,    \* history: something was lost, late or stopped in this start
  armed,     \* history: this start has set the wipe flag
  confirmed, \* history: the reset that wipes was confirmed
  unclear,   \* history: a start has left the wipe flag as it was
  oldNets    \* history: networks formed before this start

znpVars == <<wipeFlag, items, net, chip, pending, nets>>
progVars == <<pc, forced, hard, written>>
histVars == <<armed, confirmed, unclear>>
startVars == <<starts, oldNets>>
vars == <<znpVars, events, progVars, faulty, histVars, startVars>>

Init ==
  /\ wipeFlag = FALSE
  /\ net \in {0, 1} /\ nets = 1
  /\ items = IF net = 0 THEN {} ELSE Items
  /\ chip \in IF net = 0 THEN {"hold"} ELSE {"hold", "active"}
  /\ pending = FALSE /\ events = <<>>
  /\ pc = "down" /\ forced = FALSE /\ hard = FALSE /\ written = 0
  /\ starts = 0 /\ oldNets = 1 /\ faulty = FALSE
  /\ armed = FALSE /\ confirmed = FALSE /\ unclear = FALSE

-----------------------------------------------------------------------------
(* The ZNP. *)

TakeReset ==
  /\ pending /\ pending' = FALSE
  /\ chip' = "boots"
  /\ UNCHANGED <<wipeFlag, items, net, nets, events, progVars, faulty, histVars, startVars>>

\* A reset erases the NV first while the flag asks for it.
Boot ==
  /\ chip = "boots"
  /\ items' = IF wipeFlag THEN {} ELSE items
  /\ net' = IF wipeFlag THEN 0 ELSE net
  /\ chip' = "hold"
  /\ \/ events' = Append(events, "SYS_RESET_IND") /\ UNCHANGED faulty
     \/ faulty' = TRUE /\ UNCHANGED events
  /\ UNCHANGED <<wipeFlag, pending, nets, progVars, histVars, startVars>>

\* A coordinator restores its network or forms one. ZDO_STATE_CHANGE_IND is
\* sent to the program if ZDO_DIRECT_CB asks for it.
StartNetwork ==
  /\ chip = "starting" /\ "type" \in items
  /\ chip' = "active"
  /\ net' = IF net = 0 THEN nets + 1 ELSE net
  /\ nets' = IF net = 0 THEN nets + 1 ELSE nets
  /\ \/ /\ "directCb" \in items
        /\ events' = Append(events, "STATE_9") /\ UNCHANGED faulty
     \/ faulty' = TRUE /\ UNCHANGED events
  /\ UNCHANGED <<wipeFlag, items, pending, progVars, histVars, startVars>>

\* A request is answered, or its answer is lost, or the request itself.
Outcomes ==
  IF pending \/ chip = "boots" THEN {"lost"} ELSE {"answered", "unanswered", "lost"}
Note(outcome) == faulty' = (faulty \/ outcome # "answered")

-----------------------------------------------------------------------------
(* The program. *)

Start ==
  /\ pc = "down" /\ starts < MaxStarts /\ starts' = starts + 1
  /\ forced' \in BOOLEAN
  /\ pc' = "ping" /\ hard' = FALSE /\ written' = 0
  /\ events' = <<>>
  /\ faulty' = FALSE /\ armed' = FALSE /\ confirmed' = FALSE
  /\ oldNets' = nets
  /\ UNCHANGED <<znpVars, unclear>>

\* The flag is set, and not taken back yet.
Wiping == armed /\ pc \in {"wipe", "wipeWait", "clear"}

\* It is stopped, at any point.
Stop ==
  /\ pc # "down" /\ pc' = "down"
  /\ unclear' = (unclear \/ Wiping)
  /\ faulty' = TRUE
  /\ UNCHANGED <<znpVars, events, forced, hard, written, armed, confirmed, startVars>>

\* ZNP_SysPing; without an answer the program ends.
Ping(outcome) ==
  /\ pc = "ping"
  /\ pc' = IF outcome = "answered" THEN "info" ELSE "down"
  /\ Note(outcome)
  /\ UNCHANGED <<znpVars, events, forced, hard, written, histVars, startVars>>

\* ZNP_UtilGetDeviceInfo: a coordinator that is active already is left alone.
DeviceInfo(outcome) ==
  /\ pc = "info"
  /\ pc' = IF forced THEN "arm"
           ELSE IF outcome = "answered" /\ chip = "active" THEN "register"
           ELSE "reset"
  /\ Note(outcome)
  /\ UNCHANGED <<znpVars, events, forced, hard, written, histVars, startVars>>

\* FN-1: the wipe flag is set.
ArmWipe(outcome) ==
  /\ pc = "arm" /\ pc' = "wipe"
  /\ wipeFlag' = (wipeFlag \/ outcome # "lost")
  /\ armed' = (outcome # "lost")
  /\ Note(outcome)
  /\ UNCHANGED <<items, net, chip, pending, nets, events, forced, hard, written,
                 confirmed, unclear, startVars>>

(* ZNP_SysResetReq, at one of three places. *)
ResetAt == {"reset", "wipe", "final"}
WaitOf  == [reset |-> "resetWait", wipe |-> "wipeWait", final |-> "finalWait"]
AfterReset == [reset |-> "startup", wipe |-> "clear", final |-> "startup"]

\* Fault: an unconfirmed reset is asked for again, until it is confirmed.
ResetReturnsConfirmed(p, ok) ==
  IF p # "reset" /\ ~ok
    THEN /\ hard' = TRUE /\ pc' = p
         /\ UNCHANGED confirmed
    ELSE /\ hard' = FALSE /\ pc' = AfterReset[p]
         /\ confirmed' = IF p = "wipe" THEN ok ELSE confirmed

\* An unconfirmed soft reset of FactoryNew is followed by a hard one.
ResetReturns(p, ok) ==
  IF p # "reset" /\ ~ok /\ ~hard
    THEN /\ hard' = TRUE /\ pc' = p
         /\ UNCHANGED confirmed
    ELSE /\ hard' = FALSE /\ pc' = AfterReset[p]
         /\ confirmed' = IF p = "wipe" THEN ok ELSE confirmed

\* Old events are thrown away, and the request is written, or the write fails.
SendReset(p) ==
  /\ pc = p
  /\ events' = <<>>
  /\ \/ pc' = WaitOf[p] /\ pending' = TRUE
        /\ UNCHANGED <<hard, confirmed, faulty>>
     \/ pc' = WaitOf[p] /\ faulty' = TRUE
        /\ UNCHANGED <<pending, hard, confirmed>>
     \/ ResetReturns(p, FALSE) /\ faulty' = TRUE
        /\ UNCHANGED pending
  /\ UNCHANGED <<wipeFlag, items, net, chip, nets, forced, written, armed, unclear, startVars>>

\* Other events are thrown away as well.
TakeWhileWaiting(p) ==
  /\ pc = WaitOf[p] /\ events # <<>>
  /\ events' = Tail(events)
  /\ IF Head(events) = "SYS_RESET_IND" THEN ResetReturns(p, TRUE)
     ELSE UNCHANGED <<pc, hard, confirmed>>
  /\ UNCHANGED <<znpVars, forced, written, faulty, armed, unclear, startVars>>

\* Eight seconds have passed: the request has arrived, or never will.
ResetTimesOut(p) ==
  /\ pc = WaitOf[p] /\ events = <<>> /\ ~pending
  /\ ResetReturns(p, FALSE)
  /\ faulty' = TRUE
  /\ UNCHANGED <<znpVars, events, forced, written, armed, unclear, startVars>>

\* Fault: it is left to the final reset, which wipes once more.
ClearWipeSkipped(outcome) ==
  /\ pc = "clear" /\ pc' = "write"
  /\ Note(outcome)
  /\ UNCHANGED <<wipeFlag, items, net, chip, pending, nets, events, forced, hard, written,
                 histVars, startVars>>

\* FN-3: the wipe flag is taken back, so that later resets do not wipe.
ClearWipe(outcome) ==
  /\ pc = "clear" /\ pc' = "write"
  /\ wipeFlag' = (wipeFlag /\ outcome = "lost")
  /\ unclear' = (outcome = "lost" /\ (unclear \/ armed))
  /\ Note(outcome)
  /\ UNCHANGED <<items, net, chip, pending, nets, events, forced, hard, written,
                 armed, confirmed, startVars>>

\* FN-4 .. FN-9: ZNP_WriteConfiguration writes the next item.
WriteItem(outcome) ==
  /\ pc = "write" /\ written < Len(ItemOrder)
  /\ written' = written + 1
  /\ items' = IF outcome = "lost" THEN items ELSE items \cup {ItemOrder[written + 1]}
  /\ pc' = IF written' = Len(ItemOrder) THEN "final" ELSE pc
  /\ Note(outcome)
  /\ UNCHANGED <<wipeFlag, net, chip, pending, nets, events, forced, hard, histVars, startVars>>

\* ZNP_ZdoStartupFromApp; the start mode it returns is ignored.
StartupFromApp(outcome) ==
  /\ pc = "startup" /\ pc' = "await"
  /\ chip' = IF outcome # "lost" /\ chip = "hold" THEN "starting" ELSE chip
  /\ Note(outcome)
  /\ UNCHANGED <<wipeFlag, items, net, pending, nets, events, forced, hard, written,
                 histVars, startVars>>

\* Main pops an event; others go to Main_HandleIncomingFrame.
TakeWhileStarting ==
  /\ pc = "await" /\ events # <<>>
  /\ events' = Tail(events)
  /\ pc' = IF Head(events) = "STATE_9" THEN "register" ELSE pc
  /\ UNCHANGED <<znpVars, forced, hard, written, faulty, histVars, startVars>>

\* Thirty seconds have passed.
StartTimesOut ==
  /\ pc = "await" /\ events = <<>>
  /\ pc' = "recheck" /\ faulty' = TRUE
  /\ UNCHANGED <<znpVars, events, forced, hard, written, histVars, startVars>>

\* Fault: an answer is enough, whatever state it reports.
RecheckAnswered(outcome) ==
  /\ pc = "recheck"
  /\ pc' = IF outcome = "answered" THEN "register" ELSE "down"
  /\ Note(outcome)
  /\ UNCHANGED <<znpVars, events, forced, hard, written, histVars, startVars>>

\* Device info is asked for again, and decides.
Recheck(outcome) ==
  /\ pc = "recheck"
  /\ pc' = IF outcome = "answered" /\ chip = "active" THEN "register" ELSE "down"
  /\ Note(outcome)
  /\ UNCHANGED <<znpVars, events, forced, hard, written, histVars, startVars>>

\* Endpoint, callbacks, policies, install codes, permit join and discovery are
\* requested, whatever the outcomes; the threads start, and the main loop.
Register ==
  /\ pc = "register" /\ pc' = "running"
  /\ UNCHANGED <<znpVars, events, forced, hard, written, faulty, histVars, startVars>>

-----------------------------------------------------------------------------
Program ==
  \/ \E outcome \in Outcomes :
       \/ Ping(outcome) \/ DeviceInfo(outcome)
       \/ ArmWipe(outcome) \/ ClearWipe(outcome) \/ WriteItem(outcome)
       \/ StartupFromApp(outcome) \/ Recheck(outcome)
  \/ \E p \in ResetAt : SendReset(p) \/ TakeWhileWaiting(p) \/ ResetTimesOut(p)
  \/ TakeWhileStarting \/ StartTimesOut \/ Register

Next == Start \/ Stop \/ TakeReset \/ Boot \/ StartNetwork \/ Program

Spec == Init /\ [][Next]_vars

\* The program goes on, and the ZNP does what it was asked; nobody has to start
\* the program, or to stop it.
FairSpec ==
  /\ Spec
  /\ WF_vars(Program)
  /\ WF_vars(TakeReset) /\ WF_vars(Boot) /\ WF_vars(StartNetwork)

-----------------------------------------------------------------------------
(* Properties. *)

Stages == {"down", "ping", "info", "arm", "clear", "write", "startup", "await", "recheck",
           "register", "running"} \cup ResetAt \cup {WaitOf[p] : p \in ResetAt}

TypeOK ==
  /\ wipeFlag \in BOOLEAN /\ items \subseteq Items
  /\ net \in 0 .. nets /\ nets \in 1 .. MaxStarts + 1 /\ oldNets \in 1 .. nets
  /\ chip \in {"boots", "hold", "starting", "active"} /\ pending \in BOOLEAN
  /\ events \in Seq({"SYS_RESET_IND", "STATE_9"})
  /\ pc \in Stages /\ forced \in BOOLEAN /\ hard \in BOOLEAN
  /\ written \in 0 .. Len(ItemOrder) /\ starts \in 0 .. MaxStarts
  /\ {faulty, armed, confirmed, unclear} \subseteq BOOLEAN

\* The main loop runs on an active coordinator only: no late reset and no old
\* indication makes the program believe in one that is not up.
RunningIsUp == pc = "running" => chip = "active" /\ net # 0

\* After a factory-new sequence whose wipe was armed and confirmed the network
\* is a new one; if nothing was lost, it has the program's configuration, and
\* later resets keep it.
FactoryNewIsNew ==
  pc = "running" /\ forced =>
    /\ armed /\ confirmed => net > oldNets
    /\ ~faulty => armed /\ confirmed /\ items = Items /\ ~wipeFlag

\* All state is of its type, the main loop has a coordinator, and a factory-new
\* start a new network.
StartupInv == TypeOK /\ RunningIsUp /\ FactoryNewIsNew

\* Network and configuration are erased between FN-1 and FN-3 only, unless an
\* earlier factory-new sequence was stopped there, or lost its FN-3.
WipeIsAskedFor ==
  [][(net # 0 /\ net' = 0) \/ (items # {} /\ items' = {}) => Wiping \/ unclear]_vars

\* Every start reaches the main loop or ends; a factory-new start in which
\* nothing is lost or stopped reaches it.
StartsEnd ==
  /\ pc = "ping" ~> pc \in {"running", "down"}
  /\ pc = "ping" /\ forced ~> pc = "running" \/ faulty

-----------------------------------------------------------------------------
(* What a comment says, and the code does not keep: README, section 5. *)

\* znp_host.c:721-731: the wipe flag stays set until the reset that wipes is
\* confirmed; FN-3 clears it also when neither reset was.
ClearedWhenConfirmed == [][ wipeFlag /\ ~wipeFlag' => confirmed]_vars
=============================================================================
