CONSTANTS
  Nil = Nil
  None = None
  Pack = {"p1", "p2", "p3"}
  ID <- DefinedNames
  Sources <- Lists
  Required = {"f", "g"}
  Unlisted = "h"
  MaxEdits = 2
  Keys <- KeysUsed
  Values <- ValuesUsed
  Asked <- AskedUsed
  Offered = {"read_pack", "set_charge"}
  MaxRevision = 2
  MaxExponent = 2
SPECIFICATION MCSpec
CHECK_DEADLOCK FALSE
INVARIANT OneOwnerInAnyOrder
INVARIANT RelationsCanBeUsed
INVARIANT OneReading
INVARIANT IntentsWereSafe
INVARIANT VerdictsAreExact
