SPECIFICATION Spec
CONSTANTS
  Readers = {"release", "artifact", "admin", "kubeconfig", "token", "evidence", "contract", "binding", "public", "template"}
  MaxEvents = 3
  FineClock = TRUE
  Name = {"one", "two"}
  Target <- OldArchive
  Mount <- MountChoices
  MaxAge = 1
  MaxChanges = 3
CHECK_DEADLOCK FALSE
INVARIANTS AcceptedIsTrue HeldThroughout RefusedForCause ArchiveIsBound UndisturbedVerdict
