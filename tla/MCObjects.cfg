SPECIFICATION Spec
CONSTANTS
  PageSize = 4
  Classes <- MCClasses
  TablePages = 2
  MaxPages = 3
  BoxLayouts <- MCBoxLayouts
  ArcLayouts <- MCArcLayouts
  PtrLayout <- MCPtrLayout
  MaxBoxes = 1
  None = None
  Tasks = {1, 2, 3}
  MaxHandle = 2
  SplitKeeps = 0
  SplitLoses = 1
  MaxLeaks = 1
INVARIANTS HeapIsTiled RefsExact
PROPERTY HandleKeepsObject
