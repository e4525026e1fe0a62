SPECIFICATION Spec
CONSTANTS
  VramLen = 7
  CgramLen = 2
  NSprites = 2
  Garbage = garbage
  Columns = 2
  Rows = 2
  Blank = "blank"
  NewLine = "nl"
  Texts <- MCTexts
  MapAddr = 1
  GfxAddr = 5
  Gfx <- MCGfx
  Pal <- MCPal
  Positions <- MCPositions
  Offsets = {0, 257}
  Dressed = {0}
  Pads = {0}
  Buttons = {b}
  Device = device
  HandlerAddr <- MCHandlerAddr
  Programs <- MCWaiting
  MaxCalls = 2
  Room = 8
  Loaders = {"bgInitTileSetLz"}
INVARIANT UploadStays
