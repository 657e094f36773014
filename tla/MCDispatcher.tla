---------------------------- MODULE MCDispatcher -----------------------------
(* Dispatcher for TLC, with the devices of DeviceProfiles. *)
EXTENDS Dispatcher, DeviceProfiles

ASSUME ProfilesAssumption == ProfilesAreDevices
==============================================================================
