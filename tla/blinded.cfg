SPECIFICATION Spec
CONSTANTS
  NoKey = NoKey  NoSub = NoSub  NoPub = NoPub
  Names = {0, 1, 2, 3}
  Primes <- SmallPrimes
  Masks = {0, 12}
  Scalars = {2, 3, 4}
  Nonces = {2, 3}
  MaxRuns = 2
INVARIANTS DifferenceExact VerdictIsEquality
CHECK_DEADLOCK FALSE
