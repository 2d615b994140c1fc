SPECIFICATION Spec
INVARIANTS
  BreakpointHeld
  UnstallAccepted
PROPERTY BreakpointVisible
