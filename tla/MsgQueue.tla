------------------------------ MODULE MsgQueue ------------------------------
(***************************************************************************)
(* The inbox of every worker thread (msg_queue.c): a linked list under a   *)
(* mutex and a condition variable, with the producers that post to it and  *)
(* the one worker that blocks on it.                                       *)
(*                                                                         *)
(* MsgQueue_Push allocates its node before it takes the mutex and          *)
(* MsgQueue_Pop frees the node after it released it, so cells of the heap  *)
(* are recycled while other threads are half way through a push.           *)
(***************************************************************************)
EXTENDS Naturals, Sequences

CONSTANTS
  Items,      \* the payloads, each posted at most once
  Producers,  \* threads that post
  Nodes,      \* heap cells malloc may return for a MSG_NODE_T
  NULL        \* no cell, and no item

VARIABLES
  item, next,  \* MSG_NODE_T, by heap cell
  head, tail,  \* MSG_QUEUE_T
  count,
  allocated,   \* the cells malloc has handed out and nobody freed
  mine,        \* the node a producer has filled and not linked
  unposted,    \* items nobody has tried to post
  waiting,     \* the worker is in pthread_cond_wait
  signalled,   \* and has been signalled
  spent,       \* the node the worker unlinked and has not freed
  handling,    \* the item MsgQueue_Pop returned and the worker handles
  chain        \* history: the linked nodes, in the order they were linked

listVars == <<item, next, head, tail, count, chain>>
workerVars == <<waiting, signalled, spent, handling>>
vars == <<listVars, allocated, mine, unposted, workerVars>>

Init ==
  /\ item = [n \in Nodes |-> NULL]   \* whatever malloc returned
  /\ next = [n \in Nodes |-> NULL]
  /\ head = NULL /\ tail = NULL /\ count = 0
  /\ allocated = {}
  /\ mine = [p \in Producers |-> NULL]
  /\ unposted = Items
  /\ waiting = FALSE /\ signalled = FALSE
  /\ spent = NULL /\ handling = NULL
  /\ chain = <<>>

-----------------------------------------------------------------------------
(* MsgQueue_Push, and the Post functions that call it. *)

AllocNode(p) ==
  /\ mine[p] = NULL
  /\ \E i \in unposted, n \in Nodes \ allocated :
       /\ item' = [item EXCEPT ![n] = i]
       /\ next' = [next EXCEPT ![n] = NULL]
       /\ mine' = [mine EXCEPT ![p] = n]
       /\ allocated' = allocated \cup {n}
       /\ unposted' = unposted \ {i}
  /\ UNCHANGED <<head, tail, count, chain, workerVars>>

\* malloc or calloc returns NULL, for the item or for the node: no retry.
AllocFails(p) ==
  /\ mine[p] = NULL
  /\ \E i \in unposted : unposted' = unposted \ {i}
  /\ UNCHANGED <<listVars, allocated, mine, workerVars>>

LinkNode(p) ==
  /\ mine[p] # NULL
  /\ IF tail # NULL
       THEN next' = [next EXCEPT ![tail] = mine[p]] /\ UNCHANGED head
       ELSE head' = mine[p] /\ UNCHANGED next
  /\ tail' = mine[p]
  /\ count' = count + 1
  /\ signalled' = waiting
  /\ chain' = Append(chain, mine[p])
  /\ mine' = [mine EXCEPT ![p] = NULL]
  /\ UNCHANGED <<item, allocated, unposted, waiting, spent, handling>>

-----------------------------------------------------------------------------
(* MsgQueue_Pop, in the loop of a worker thread. *)

Popping == ~waiting /\ handling = NULL /\ spent = NULL

\* Faults: tail survives the last node; the youngest item is handed over.
UnlinkHeadKeepsTail ==
  /\ Popping
  /\ head # NULL
  /\ spent' = head
  /\ handling' = item[head]
  /\ head' = next[head]
  /\ count' = count - 1
  /\ chain' = Tail(chain)
  /\ UNCHANGED <<item, next, tail, allocated, mine, unposted, waiting, signalled>>

UnlinkYoungest ==
  /\ Popping
  /\ head # NULL
  /\ spent' = head
  /\ handling' = item[tail]
  /\ head' = next[head]
  /\ tail' = IF next[head] = NULL THEN NULL ELSE tail
  /\ count' = count - 1
  /\ chain' = Tail(chain)
  /\ UNCHANGED <<item, next, allocated, mine, unposted, waiting, signalled>>

UnlinkHead ==
  /\ Popping
  /\ head # NULL
  /\ spent' = head
  /\ handling' = item[head]
  /\ head' = next[head]
  /\ tail' = IF next[head] = NULL THEN NULL ELSE tail
  /\ count' = count - 1
  /\ chain' = Tail(chain)
  /\ UNCHANGED <<item, next, allocated, mine, unposted, waiting, signalled>>

\* Fault: the worker waits without looking at the list.
BlockUnseen ==
  /\ Popping
  /\ waiting' = TRUE /\ signalled' = FALSE
  /\ UNCHANGED <<listVars, allocated, mine, unposted, spent, handling>>

BlockOnEmpty ==
  /\ Popping
  /\ head = NULL
  /\ waiting' = TRUE /\ signalled' = FALSE
  /\ UNCHANGED <<listVars, allocated, mine, unposted, spent, handling>>

WakeUp ==
  /\ waiting /\ signalled
  /\ waiting' = FALSE /\ signalled' = FALSE
  /\ UNCHANGED <<listVars, allocated, mine, unposted, spent, handling>>

FreeNode ==
  /\ spent # NULL
  /\ allocated' = allocated \ {spent}
  /\ spent' = NULL
  /\ UNCHANGED <<listVars, mine, unposted, waiting, signalled, handling>>

\* The worker acts on the item and frees it.
FinishItem ==
  /\ handling # NULL /\ spent = NULL
  /\ handling' = NULL
  /\ UNCHANGED <<listVars, allocated, mine, unposted, waiting, signalled, spent>>

Worker == UnlinkHead \/ BlockOnEmpty \/ WakeUp \/ FreeNode \/ FinishItem

Next ==
  \/ \E p \in Producers : AllocNode(p) \/ AllocFails(p) \/ LinkNode(p)
  \/ Worker

Spec == Init /\ [][Next]_vars

\* Threads that hold no lock for long keep running: the worker and every
\* producer that is inside MsgQueue_Push.
FairSpec ==
  /\ Spec
  /\ WF_vars(Worker)
  /\ \A p \in Producers : WF_vars(LinkNode(p))

-----------------------------------------------------------------------------
(* Properties. *)

TypeOK ==
  /\ item \in [Nodes -> Items \cup {NULL}] /\ next \in [Nodes -> Nodes \cup {NULL}]
  /\ head \in Nodes \cup {NULL} /\ tail \in Nodes \cup {NULL}
  /\ count \in Nat
  /\ allocated \subseteq Nodes
  /\ mine \in [Producers -> Nodes \cup {NULL}]
  /\ unposted \subseteq Items
  /\ waiting \in BOOLEAN /\ signalled \in BOOLEAN
  /\ spent \in Nodes \cup {NULL} /\ handling \in Items \cup {NULL}
  /\ chain \in Seq(Nodes)

\* The pointers spell out the pushes not yet popped: head leads to them one by
\* one, the last is tail and points nowhere, and count is their number.
ListInv ==
  /\ count = Len(chain)
  /\ head = IF chain = <<>> THEN NULL ELSE chain[1]
  /\ tail = IF chain = <<>> THEN NULL ELSE chain[Len(chain)]
  /\ \A k \in 1 .. Len(chain) :
       next[chain[k]] = IF k = Len(chain) THEN NULL ELSE chain[k + 1]

\* Every cell the list reaches, a producer fills or the worker reads is
\* allocated and has one owner: free never hits a node still in use.
HeapInv ==
  /\ \A k \in 1 .. Len(chain) :
       /\ chain[k] \in allocated /\ chain[k] # spent
       /\ \A j \in 1 .. Len(chain) : chain[j] = chain[k] => j = k
       /\ \A p \in Producers : mine[p] # chain[k]
  /\ spent # NULL => spent \in allocated
  /\ \A p \in Producers : mine[p] # NULL =>
       /\ mine[p] \in allocated /\ mine[p] # spent
       /\ next[mine[p]] = NULL
       /\ \A q \in Producers : mine[q] = mine[p] => q = p

\* The worker never sleeps unsignalled on a list that holds an item.
WorkerIsSignalled == waiting /\ head # NULL => signalled

\* List and heap agree, whatever producers and worker are half way through, and
\* no item lies unseen.
MailInv == TypeOK /\ ListInv /\ HeapInv /\ WorkerIsSignalled

\* The list implements the inbox of Mailbox.
Contents == [k \in 1 .. Len(chain) |-> item[chain[k]]]
Inbox == INSTANCE Mailbox WITH
           Nothing <- NULL, inbox <- Contents, inHand <- handling
InboxSpec == Inbox!Spec

\* An item whose node was allocated is handled in the end.
EveryItemHandled ==
  \A i \in Items :
    (\E n \in allocated \ {spent} : item[n] = i) ~> handling = i
=============================================================================
