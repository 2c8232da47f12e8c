SPECIFICATION Spec
CONSTANTS
  Cards = {"FSCC"}
  Ports = {"A", "B"}
  Asked <- MCAsked
  Senders = {"A"}
  Registry <- MCRegistry
  HasFrames = TRUE
  MaxEvents = 2
  MaxRequests = 1
  MaxBusy = 2
INVARIANT
  LineControlRestored
CHECK_DEADLOCK FALSE
