CONSTANTS
  Chars <- MCChars
  LowerOf <- MCLowerOf
  Separators <- MCSeparators
  HostChars <- MCHostChars
  MaxLen = 4

SPECIFICATION Spec

INVARIANT HostNameMatchesReference
