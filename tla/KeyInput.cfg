CONSTANTS
  a = a
  esc = esc
  left = left
  d = d
  Byte <- MCByte
  Key <- MCKey
  ReadSize = 2
  MaxTyped = 5
SPECIFICATION KeySpec
INVARIANTS KeyIInv NeverEof InOrder
PROPERTIES AllTaken
