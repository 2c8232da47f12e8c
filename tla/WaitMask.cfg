SPECIFICATION FairSpec
CONSTANTS
  r1 = r1
  r2 = r2
  r3 = r3
  Req = {r1, r2, r3}
  NoReq = NoReq
  Events = {"RXCHAR", "TXEMPTY"}
  Masks = {{}, {"RXCHAR"}, {"RXCHAR", "TXEMPTY"}}
INVARIANTS RefsMatchOwners NoMissedEvent
PROPERTIES ToldOnce SatisfiedWaitEnds
