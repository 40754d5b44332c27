SPECIFICATION Spec
CONSTANTS
  Names = {a, b}
  Given = {a}
  Parts <- BothParts
  Slots = {h1}
  MaxTyped = 2
  MaxClicks = 2
  MaxFailures = 1
INVARIANTS EditsStayInTheirPrompt
CHECK_DEADLOCK FALSE
