CONSTANTS
  INFRA_EVT_MAX = 3
  Prios <- TwoPrios
  PRIO_DEFAULT = 255
  Deletable = {1}
  Usage = {"interrupt", "clear_isr"}
SPECIFICATION FairSpec
INVARIANTS
  RunnableSorted
  LostOnlyAtRisk
PROPERTIES
  ImplementsAbs
  AbortStops
  SharesPriority
