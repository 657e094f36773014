--------------------------- MODULE RequestService ---------------------------
(***************************************************************************)
(* What ZNP_Sreq promises to its callers (znp_host.h): requests are        *)
(* serialised, so at most one thread is being served at a time, and a      *)
(* successful call returns a response of the command it asked for.  How    *)
(* the callers queue, and why a call fails, is left open.                  *)
(***************************************************************************)
CONSTANTS Threads, Cmds, NoReply

VARIABLES
  phase,   \* "idle", "waiting" for its turn or being "served"
  request, \* the command each thread last asked for
  reply    \* the command of the response it was given, or NoReply

vars == <<phase, request, reply>>

Init ==
  /\ phase = [t \in Threads |-> "idle"]
  /\ request \in [Threads -> Cmds]
  /\ reply = [t \in Threads |-> NoReply]

Request(t, c) ==
  /\ phase[t] = "idle"
  /\ phase' = [phase EXCEPT ![t] = "waiting"]
  /\ request' = [request EXCEPT ![t] = c]
  /\ reply' = [reply EXCEPT ![t] = NoReply]

Serve(t) ==
  /\ phase[t] = "waiting"
  /\ \A u \in Threads : phase[u] # "served"
  /\ phase' = [phase EXCEPT ![t] = "served"]
  /\ UNCHANGED <<request, reply>>

Reply(t) ==
  /\ phase[t] = "served"
  /\ reply[t] = NoReply
  /\ reply' = [reply EXCEPT ![t] = request[t]]
  /\ UNCHANGED <<phase, request>>

\* The call returns, with or without a reply.
Return(t) ==
  /\ phase[t] = "served"
  /\ phase' = [phase EXCEPT ![t] = "idle"]
  /\ UNCHANGED <<request, reply>>

Next == \E t \in Threads : \/ \E c \in Cmds : Request(t, c)
                           \/ Serve(t) \/ Reply(t) \/ Return(t)

Spec == Init /\ [][Next]_vars
=============================================================================
