SPECIFICATION TreeSpec
CONSTANTS
  zip = zip
  a = a
  b = b
  lib = lib
  alib = alib
  na = na
  nb = nb
  nlib = nlib
  None = None
  Dir <- MCDir
  Root = zip
  ParentOf <- MCParentOf
  NameOf <- MCNameOf
  Lib <- MCLib
  MaxFile = 4
INVARIANTS
  ZipIsAFolder
  StructureKeepsScript
CHECK_DEADLOCK FALSE
