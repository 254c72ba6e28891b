\* What the playground's checks let through.
SPECIFICATION RequestFormSpec
CONSTANTS
  MinText = 2
  MaxText = 3
  DemoMaxText = 4
  MaxLimit = 2
  LongestText = 5
INVARIANTS FormMirrorsApi
CHECK_DEADLOCK FALSE
