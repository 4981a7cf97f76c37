SPECIFICATION RestartSpec
CONSTANTS
  PlainForms = {}
  RegisterForms = {}
  StackForms = {}
  MemoryForms <- MCDivide
INVARIANT FaultCommitsNothing
CHECK_DEADLOCK FALSE
