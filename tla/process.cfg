SPECIFICATION Spec
CONSTANTS
  Junk = Junk  NaN = NaN  Plain = Plain  Nobody = Nobody
  Lines <- FileLines  MaxLines = 5  LogLines <- StartLines
INVARIANTS TypeOK AcceptedAsWritten NothingLost NoLostWakeup
PROPERTIES PlaintextIsSaid ModeIsSaid DestructorReturns
CHECK_DEADLOCK FALSE
