\* Flash that neither fails nor loses power.
CONSTANTS
  Numbers = 4
  Bit = {1, 2}
SPECIFICATION Spec
INVARIANT SavesOnWorkingFlash
