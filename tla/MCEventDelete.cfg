CONSTANTS
  INFRA_EVT_MAX = 3
  Prios <- TwoPrios
  PRIO_DEFAULT = 255
  Deletable = {0, 1}
  Usage = {"interrupt"}
SPECIFICATION Spec
INVARIANTS
  DeleteDeallocates
