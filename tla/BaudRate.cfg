SPECIFICATION Spec
CONSTANTS
  LongRange = 1073741824
  ShortRange = 65536
  Cards = {"PCI", "PCIe", "FSCC", "UNKNOWN"}
  Bauds <- MCBauds
  FixedRates = {57600, 250000}
  ClockRates <- MCClockRates
  RateSamples = {4, 5, 7, 8, 13, 16}
INVARIANTS
  
  LineWithinOnePercent
  CharTimeCovers
