------------------------------ MODULE MCShared -------------------------------
(***************************************************************************)
(* The three structures the threads share, for TLC: the event queue on a   *)
(* small ring, an inbox with more items than heap cells, so that cells are *)
(* used again, and a list of offline devices that is shorter than the      *)
(* devices are many.  They have no state in common; a behaviour is about   *)
(* one of them.                                                            *)
(***************************************************************************)
EXTENDS EventQueue

CONSTANTS
  Items, Producers, Nodes, NULL,
  Sirens, Sensors, Readers, Capacity, MaxLookups, Nothing

ASSUME HeapAssumption == NULL \notin Nodes \cup Items

ASSUME WatchAssumption ==
  /\ Nothing \notin Sirens \cup Sensors
  /\ Capacity \in Nat \ {0} /\ MaxLookups \in Nat

VARIABLES
  subject,  \* the structure this behaviour is about
  item, next, first, last, length, allocated, mine, unposted, sleeping, woken,
  spent, handling, chain,
  list, num, pending, changing, silent, todo, flagged, looked, lookups, disturbed

M == INSTANCE MsgQueue WITH
       head <- first, tail <- last, count <- length,
       waiting <- sleeping, signalled <- woken
W == INSTANCE OfflineWatch

mailVars == <<item, next, first, last, length, allocated, mine, unposted,
              sleeping, woken, spent, handling, chain>>
watchVars == <<list, num, pending, changing, silent, todo, flagged, looked,
               lookups, disturbed>>
allVars == <<vars, mailVars, watchVars, subject>>

MCInit ==
  /\ subject \in {"event queue", "inbox", "offline list"}
  /\ Init /\ M!Init /\ W!Init

EventQueueNext ==
  subject = "event queue" /\ Next /\ UNCHANGED <<mailVars, watchVars, subject>>
InboxNext ==
  subject = "inbox" /\ M!Next /\ UNCHANGED <<vars, watchVars, subject>>
OfflineNext ==
  subject = "offline list" /\ W!Next /\ UNCHANGED <<vars, mailVars, subject>>

\* The fairness of the modules, for the structure in question.
MCSpec ==
  /\ MCInit /\ [][EventQueueNext \/ InboxNext \/ OfflineNext]_allVars
  /\ WF_vars(subject = "event queue" /\ MainStep)
  /\ SF_vars(subject = "event queue" /\ ResetGivesUp)
  /\ WF_mailVars(subject = "inbox" /\ M!Worker)
  /\ \A p \in Producers : WF_mailVars(subject = "inbox" /\ M!LinkNode(p))
  /\ WF_watchVars(subject = "offline list" /\ W!MainStep)
  /\ SF_watchVars(subject = "offline list" /\ W!CheckBegins)

\* What MsgQueue says of the inbox: list and heap agree, its worker is woken, it
\* implements Mailbox, and every item is handled.
MailInv == M!MailInv
InboxSpec == M!InboxSpec
EveryItemHandled == M!EveryItemHandled

\* What OfflineWatch says of the list: it is exact, and who is silent gets on it.
WatchInv == W!WatchInv
SilenceIsNoticed == W!SilenceIsNoticed
=============================================================================
