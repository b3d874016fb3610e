SPECIFICATION Spec
CHECK_DEADLOCK FALSE
CONSTANTS
  Bodies <- MCAllBodies
INVARIANTS
  MarkedIsExecutable
  
  
PROPERTY
  Termination
