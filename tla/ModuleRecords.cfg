SPECIFICATION Spec
CONSTANTS
  m1 = m1
  m2 = m2
  m3 = m3
  m4 = m4
  Modules <- AllModules
  Worlds <- ManyWorlds
  UIntSpan = 8
  None = None
CHECK_DEADLOCK FALSE
INVARIANTS
  RunsOnce
  DependenciesFirst
  RootsAnnounced
  LinkedWhenReady
  AwaitedExact
  CompletionReported
  ImportsFulfilled
