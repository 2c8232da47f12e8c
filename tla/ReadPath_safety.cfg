SPECIFICATION Spec
CONSTANTS
  r1 = r1
  r2 = r2
  z1 = z1
  z2 = z2
  Reads = {r1, r2}
  Resizes = {z1, z2}
  Loads <- LoadsOfThree
  NoReq = NoReq
  Lens = {1, 3}
  MaxLen = 3
  InitSize = 2
  Sizes = {3}
  MaxSize = 3
  MaxChars = 3
  Timeouts <- AllTimeouts
  ErrorAbort = FALSE
  ErrorChar = TRUE
  LineHolds = {"RTS"}
INVARIANTS TypeOK RefsMatchOwners PointersAgree HoldFollowsFill
PROPERTIES CompletedIsFinal ImplementsStream
