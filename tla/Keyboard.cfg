SPECIFICATION Spec
CONSTANTS
  Keys = {2, 30, 42, 54, 58, 157, 200}
  MaxBytes = 3
INVARIANTS TypeOK ModifiersMatch
PROPERTY KeysSpec
