SPECIFICATION Spec
CONSTANTS
  prj1 = prj1
  prj2 = prj2
  d1 = d1
  run0 = run0
  run1 = run1
  e1 = e1
  a = a
  b = b
  x = x
  None = None
  ProjectIds = {prj1, prj2}
  DefIds = {d1}
  EngineIds = {e1}
  DemoProject = prj1
  DemoRun = run0
  Seeded = TRUE
  RunIds = {run0, run1}
  StepNames = {a, b, x}
  TemplateSteps = {a, b}
  JobSets = {{a}, {a, b}}
INVARIANTS RunMatchesSteps FullProgressMeansSucceeded DefinitionInProject
PROPERTIES TerminalRunsKeepState RunsMoveForward
