\* Once an index left the array (overrun) the specification says nothing more.
CONSTANTS
  INFRA_EVT_MAX = 3
  Prios <- TwoPrios
  PRIO_DEFAULT = 255
  Deletable = {}
  Usage = {"interrupt", "raise_uncreated"}
SPECIFICATION Spec
CHECK_DEADLOCK FALSE
INVARIANTS
  OnlyCreatedRuns
