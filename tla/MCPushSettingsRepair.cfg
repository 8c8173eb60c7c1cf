\* The same instance: after a half-done switching off the button never helps.
CONSTANTS
  Endpoints = {old, e1, e2, e3, e4}
  OldKey = {old}
  None = None
SPECIFICATION FairSpec
PROPERTIES RepairButtonRepairs
CHECK_DEADLOCK FALSE
