SPECIFICATION Spec
CONSTANTS
  wide = wide
  small = small
  None = None
  Images <- MCImages
  Dim <- MCDim
  Work <- MCWork
  Chrome <- MCChrome
  MinSize <- MCMinSize
  Frames <- MCFrames
  Points <- MCPoints
  DragLevels <- MCDragLevels
  Reach <- MCReach
  MaxInputs = 5
INVARIANTS TypeOK ScreenCurrent ViewSettled
PROPERTIES FitStaysOnScreen ZoomDirection
CHECK_DEADLOCK FALSE
