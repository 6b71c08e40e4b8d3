\* One Issue's evidence over two Repair iterations, or two of its turns with commands.
SPECIFICATION Spec
CONSTANTS
  Iterations = {1, 2}
  MaxOperations = 2
  Faults = {"exit", "power", "disk", "listing", "stuck", "abort", "target"}
  MaxFaults = 2
  Unterminated = 1
  MaxOutput = 3
  MaxCommands = 2
  MaxTurns = 2
  MaxAttempts = 8
INVARIANTS TypeOK EvidenceKept CaptureLeavesNothing TerminalFaithful PermittedOnly
CHECK_DEADLOCK FALSE
