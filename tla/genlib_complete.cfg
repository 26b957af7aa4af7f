SPECIFICATION Spec
CONSTANTS
  Chars <- MCChars
  Calls <- MCPlain
  Builtin <- MCBuiltin
  Stray <- MCStray
  MaxDirs = 4
INVARIANT AllAdded
CHECK_DEADLOCK FALSE
