SPECIFICATION Spec
CONSTANTS
  PointerMax = 7
  Capacity = 6
  OtherOffsets <- MCOtherOffsets
  Bytes <- MCBytes
  Utf8 <- MCUtf8
  Cp949 <- MCCp949
  Memories <- MCMemories
  Changing <- MCChangingMemories
  MaxGame = 1
INVARIANTS TypeOK QuietTextIsExact QuietNameIsText
