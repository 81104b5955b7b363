SPECIFICATION FairSpec
CONSTANTS
  Width = 20
  Height = 5
  CHAR_WIDTH = 2
  CHAR_HEIGHT = 2
  CrabWidth = 15
  KbdCap = 1
  MaxTraps = 4
  Buffers <- MCBuffers
  Message <- MCMessage
INVARIANTS NoRecursiveLock HandlersNest ScreenShowsText
PROPERTY InterruptsComeBack
