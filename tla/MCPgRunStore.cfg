SPECIFICATION PgSpec
CONSTANTS
  prj1 = prj1
  prj2 = prj2
  d1 = d1
  run1 = run1
  run2 = run2
  e1 = e1
  a = a
  x = x
  c1 = c1
  c2 = c2
  None = None
  DefIds = {d1}
  EngineIds = {e1}
  DemoProject = prj1
  DemoRun = run1
  Seeded = FALSE
  TemplateSteps = {a}
  ProjectIds = {prj1, prj2}
  RunIds = {run1, run2}
  StepNames = {a}
  JobSets = {{a}}
  Clients = {c1, c2}
INVARIANTS RunMatchesSteps RetryLineage
PROPERTIES ImplementsFileStore
CONSTRAINT Bounded
SYMMETRY Symmetry
