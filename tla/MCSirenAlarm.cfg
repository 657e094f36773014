SPECIFICATION FairSpec
CONSTANTS
  Sirens = {s1, s2}
  Happens = {"BUTTON_TOGGLE", "CONTACT_OPEN"}
  MaxEvents = 2
  MaxOrders = 1
INVARIANTS SirenInv
PROPERTIES ThreadsComeToEnd
