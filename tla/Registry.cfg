\* A group that two hosts may claim, and a device that one of them is.
SPECIFICATION Spec
CONSTANTS
  h1 = h1
  h2 = h2
  g = g
  p = p
  Hosts = {h1, h2}
  Groups = {g}
  Players = {p}
  Addresses <- MCAddresses
  Failing = {h1}
  Enabled = {g, p}
  MaxDevices = 2
  MaxMasters = 3
  Overlaps = FALSE
INVARIANTS TableOK  
PROPERTIES SilentIsRemoved 
CHECK_DEADLOCK FALSE
