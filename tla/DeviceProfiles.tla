--------------------------- MODULE DeviceProfiles ----------------------------
(* Devices for TLC: one of each kind that the program tells apart.          *)
EXTENDS TLC

Desc(id, in, out) == [id |-> id, in |-> in, out |-> out]
Profile(descriptors, hidden, app, model) ==
  [descriptors |-> descriptors, hidden |-> hidden, app |-> app, model |-> model]

PanicButton ==
  Profile((32 :> Desc("other", {"binaryInput"}, {"onOff"})) @@
          (35 :> Desc("iasZone", {"iasZone"}, {})), {35}, 32, "other")
MagnetSensor == Profile(1 :> Desc("iasZone", {"iasZone"}, {}), {}, 1, "contact")
AirSensor    == Profile(1 :> Desc("iasZone", {"iasZone", "analogInput"}, {}), {}, 1, "tvoc")
FrientSiren  == Profile(43 :> Desc("other", {"iasWd"}, {}), {}, 43, "other")
Vibration    == Profile(35 :> Desc("iasZone", {"iasZone", "frient"}, {}), {}, 35, "other")
AqaraButton  == Profile(1 :> Desc("other", {"onOff"}, {"onOff"}), {}, 1, "other")
\* Two modules may claim it, by its model and by its second endpoint.
MagnetSwitch ==
  Profile((1 :> Desc("iasZone", {"iasZone"}, {})) @@ (2 :> Desc("other", {"onOff"}, {})),
          {}, 1, "contact")

MCProfiles ==
  {PanicButton, MagnetSensor, AirSensor, FrientSiren, Vibration, AqaraButton, MagnetSwitch}
==============================================================================
