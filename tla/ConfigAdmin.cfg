SPECIFICATION Spec
CONSTANTS
  Styles = {"fun"}
  NoSlug = "no slug"
  NewRows = {"added"}
  Providers = {"p", "q"}
  Features <- TwoFeatures
  Tabs = {t1, t2}
  Requests = {r1}
  FirstFile <- OneProvider
  FirstStyles <- DefaultAndFun
  MaxEdits = 2
  MaxFailures = 1
SYMMETRY TabSymmetry
INVARIANTS TypeOK ServedIsSaved FormsKeepItLoadable DanglingWasRemoved TraceTellsStyle
CHECK_DEADLOCK FALSE
