SPECIFICATION Spec
CONSTANTS
  Numbers <- Boundaries
  MaxBytes = 7
PROPERTY NumbersAreQueued
