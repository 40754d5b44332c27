SPECIFICATION FairSpec
CONSTANTS
  Names = {a, b}
  Given = {a}
  Parts <- OnePart
  Slots = {h1, h2}
  MaxTyped = 2
  MaxClicks = 2
  MaxFailures = 1
INVARIANTS TypeOK NewerTextsStay RunUsesEdits
PROPERTIES EveryHandlerEnds
CHECK_DEADLOCK FALSE
