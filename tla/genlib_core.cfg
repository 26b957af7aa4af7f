SPECIFICATION Spec
CONSTANTS
  Chars <- MCChars
  Calls <- MCCalls
  Builtin <- MCBuiltin
  Stray <- MCStray
  MaxDirs = 4
INVARIANTS PathsLead SearchComplete
PROPERTY Terminates
CHECK_DEADLOCK FALSE
