SPECIFICATION Spec
CONSTANTS
  Patch = 2
  Ratio = 2
  MaxTokens = 16
  MinPixels = 16
  MaxWhRatio = 8
  Images <- MCImages
  Height <- MCHeight
  Width <- MCWidth
  Size <- MCSize
  Places = 2
  Chats <- MCChats
  Pieces = {3, 8}
  CacheSize = 2
  Gates = 2
  DraftGates = 1
INVARIANTS TypeOK RowsMatchLayout EveryImageFits ClassifiedOnce
PROPERTY RoutesOwnRows
