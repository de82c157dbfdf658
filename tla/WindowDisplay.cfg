SPECIFICATION Spec
CONSTANTS
  X_RES = 13
  Y_RES = 15
  GlyphWidth = 2
  GlyphHeight = 2
  WINDOW_WIDTH = 6
  WINDOW_HEIGHT = 8
  WINDOW_TITLE_HEIGHT = 2
  TEXT_OFF_X = 1
  TEXT_OFF_Y = 3
  WindowX <- MCWindowX
  WindowY <- MCWindowY
  IconX <- MCIconX
  IconY <- MCIconY
  ICON_WIDTH = 2
  ICON_HEIGHT = 2
  PointerWidth = 1
  PointerHeight = 1
  Black = Black
  TitleInk = TitleInk
  Desk = Desk
  PointerInk = PointerInk
  Letters = {a}
  a = a
  FishTerms = {0}
  Moves <- MCMoves
  MaxSteps = 4
INVARIANTS
  TypeOK
  CoverageExact
PROPERTIES
  NoOverdraw
  FrontShowsBuffer
  IconsUpright
CHECK_DEADLOCK FALSE
