CONSTANTS
  Invocations <- MCInvocations
  Dashed = {"-- a comment"}
  Sources = {"good"}
SPECIFICATION Spec
CHECK_DEADLOCK FALSE
INVARIANTS TypeOK ReadAsWritten
