CONSTANTS
  PKT_HEADER_SIZE = 1
  MaxData = 2
  AddrMod = 7
  MaxLen = 4
  Regions <- MCRegions
  Flags = {f1}
SPECIFICATION Spec
INVARIANTS
  SlicesInChain
  PayloadAsAnnounced
  CopiesAgree
