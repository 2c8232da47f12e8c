SPECIFICATION Spec
CONSTANTS
  Cards = {"PCI", "PCIe", "FSCC", "UNKNOWN"}
  Ports = {"A", "B"}
  Asked <- MCAsked
  Senders = {"A"}
  Registry <- MCRegistry
  HasFrames = TRUE
  MaxEvents = 3
  MaxRequests = 2
  MaxBusy = 2
INVARIANTS
  SettingsInForce
  AnswersAreTrue
CHECK_DEADLOCK FALSE
