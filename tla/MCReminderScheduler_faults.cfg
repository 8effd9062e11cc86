CONSTANTS
  Keys = {a, b}
  Handlers = {h1, h2}
  NoKey = NoKey
  MaxTime = 2
  SnoozeDurations = {1}
  MaxRequests = 2
  MaxCrashes = 1
  MaxFaults = 1
SPECIFICATION Spec
SYMMETRY MCSymmetry
INVARIANT TypeOK
INVARIANT TrackedOrLost
INVARIANT NeverTwice
INVARIANT CompletedIsSent
PROPERTY ImplementsService
