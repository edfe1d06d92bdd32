SPECIFICATION Spec
CONSTANTS
  NoEnv = NoEnv
  MaxEnvLen = 1
INVARIANTS
  AssociatedDirExists
