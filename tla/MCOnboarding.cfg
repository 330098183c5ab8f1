SPECIFICATION Spec
CONSTANTS
  Services = {"pay"}
  Modules = {"pay", "web"}
  Owners = {"ann"}
  Types = {"api"}
  Tiers = {"low", "high"}
  Kinds <- KindsDef
  HandWritten <- HandWrittenDef
  Terminals = {t1, t2}
  MaxCommands = 4
  None = None
SYMMETRY Symmetry
INVARIANT IndInv
INVARIANT ReadyIsEarned
CHECK_DEADLOCK FALSE
