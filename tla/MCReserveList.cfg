SPECIFICATION Spec
CONSTANTS
  a1 = a1
  a2 = a2
  a3 = a3
  a4 = a4
  eoa = eoa
  zero = zero
  u1 = u1
  u2 = u2
  Contracts <- MCContracts
  Addresses <- MCAddresses
  ZERO_ADDRESS <- zero
  Users <- MCUsers
  MAX_RESERVES = 3
  INDEX_LIMIT = 3
  ID_RANGE = 6
  WORD_BITS = 6
INVARIANT ShortcutsAgree
PROPERTY ImplementsUserFlags
SYMMETRY MCSymmetry
