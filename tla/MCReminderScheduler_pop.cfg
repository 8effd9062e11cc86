CONSTANTS
  Keys = {a}
  Handlers = {h1}
  NoKey = NoKey
  MaxTime = 1
  SnoozeDurations = {1}
  MaxRequests = 2
  MaxCrashes = 0
  MaxFaults = 0
SPECIFICATION Spec
INVARIANT PopFindsAReminder
