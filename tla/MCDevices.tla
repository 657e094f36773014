------------------------------ MODULE MCDevices -------------------------------
(****************************************************************************)
(* How devices are registered, for TLC: DeviceRegistry, with the values of  *)
(* MCDeviceRegistry, and what Dispatcher keeps safe, with the devices of    *)
(* DeviceProfiles.  They have no state in common; a behaviour is about one. *)
(****************************************************************************)
EXTENDS MCDeviceRegistry, DeviceProfiles

CONSTANTS
  None, Ieee, Profiles, MaxButtons, MaxCached, MaxPending, MaxBacklog, MaxMishaps, MovesEarly

VARIABLES
  subject,  \* what this behaviour is about
  cache, buttons, inbox, job, device, air, mishaps, lost, press, asked, known, profile

J == INSTANCE Dispatcher

ASSUME JoiningAssumption == {MaxButtons, MaxMishaps} \subseteq Nat /\ J!ProfilesAreDevices

joinVars == <<cache, buttons, inbox, job, device, air, mishaps, lost, press, asked, known, profile>>
allVars == <<vars, joinVars, subject>>

MCInit ==
  /\ subject \in {"registry", "joining"}
  /\ Init /\ (subject # "registry" => kind = "siren")
  /\ J!Init /\ (subject # "joining" => device.addr = None /\ profile = PanicButton)

RegistryNext == subject = "registry" /\ Next /\ UNCHANGED <<joinVars, subject>>
JoiningNext == subject = "joining" /\ J!Next /\ UNCHANGED <<vars, subject>>

MCSpec == MCInit /\ [][RegistryNext \/ JoiningNext]_allVars

\* What Dispatcher says of a device while it joins, whatever becomes of the frames.
ClaimsAreFounded == J!ClaimsAreFounded
=============================================================================
