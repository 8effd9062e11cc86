CONSTANTS
  Keys = {a, b}
  Handlers = {h1, h2}
  NoKey = NoKey
  MaxTime = 2
  SnoozeDurations = {1}
  MaxRequests = 3
  MaxCrashes = 0
  MaxFaults = 0
SPECIFICATION Spec
SYMMETRY MCSymmetry
INVARIANT TrackedOrLost
INVARIANT NoOversleep
INVARIANT FiresAfterSomeSchedule
INVARIANT AtMostTwoCopies
