SPECIFICATION Spec
CONSTANTS
  WidthArgs <- MCWidthArgs
  GroupArgs = {3, 2, 4}
  OffsetDigits = 1
  SizeDigits = 3
  MaxBytes = 17
  Widths = {1, 2, 3, 4}
  Heights <- MCHeights
  OffBits = {54, 56}
  FloatMax = 2
  MaxText = 4
  ReadFaults = {"fopen", "malloc", "ftell"}
  NUMBER = 10
  NameBytes = {32, 37, 46, 52, 65, 97}
  MaxName = 4
CHECK_DEADLOCK FALSE
INVARIANTS HexAligned HexComplete GreyImage WordsCounted AllSentOrTold UrlDecoded
