SPECIFICATION Spec
CONSTANTS
  Absent = Absent
  CellBase = 32  BufferSize = 24  MaxHops = 3
  Messages <- ClientMessages  Garbage <- AnyCells  HashName <- Hash
INVARIANTS TypeOK InBounds TruncatedRefused BuiltIsValid ReadAsWritten GrowsOnce
PROPERTIES OneName
CHECK_DEADLOCK FALSE
