CONSTANTS
  Owner = Owner
  c1 = c1
  c2 = c2
  c3 = c3
  Cursors <- MCCursors
  MaxCursors = 2
SPECIFICATION Spec
INVARIANT NoResetWhileHeld
PROPERTIES ResetWhenUnreferenced
