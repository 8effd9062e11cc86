CONSTANTS
  Keys = {a, b}
  MaxTime = 2
  Nothing = Nothing
  MaxLen = 6
SPECIFICATION Spec
SYMMETRY MCSymmetry
INVARIANT HeapOrdered
INVARIANT SiftOrdered
PROPERTY ImplementsQueue
