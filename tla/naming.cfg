SPECIFICATION NamingSpec
CONSTANTS
  MaxIndex = 3
  Endpoints = {"a", "b", "c", "d"}
  Instances = {"i1", "i2"}
  NameOf <- TwoNames
  Aliases <- PlainAliases
  Addresses <- Places
  Words <- Typed
  Windows = {1}
INVARIANTS NeverSilentlyNarrowed RetypingNeverMisdirects
CHECK_DEADLOCK FALSE
