\* Both editors: a run waits for the save of each of them in turn.
SPECIFICATION Spec
CONSTANTS
  Names = {a, b}
  Given = {a, b}
  Parts <- BothParts
  Slots = {h1, h2}
  MaxTyped = 2
  MaxClicks = 2
  MaxFailures = 1
SYMMETRY Symmetry
INVARIANTS RunUsesEdits
CHECK_DEADLOCK FALSE
