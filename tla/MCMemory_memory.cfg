SPECIFICATION Spec
CONSTANTS
  Chats = {c1, c2}
  search = search
  pdf = pdf
  mail = mail
  notes = notes
  Lengths = {8000, 30000}
  MaxMessages = 3
  Skills <- MCSkills
  SkillRunes <- MCSkillRunes
  MaxArtifacts = 2
  Catalog <- MCCatalog
  NoTool = NoTool
  Goals <- MCGoals
  Words <- MCWords
  RecentCap = 2
  HintLimit = 1
  BudgetTokens <- MCBudget
  Overlap <- MCOverlap
  GoalRunes <- MCGoalRunes
  ProjectTokens = 5000
  CatalogTokens = 900
  PlanTokens = 3000
  FeedbackTokens = 200
  ToolTokens <- MCToolTokens
  LineTokens = 160
  StepSizes <- MCStepSizes
  MaxWork = 4
SYMMETRY MCSymmetry
INVARIANTS
  ThreadIsRecentHistory
  SkillsCarryOver
  HintsAreBacked
  PromptFits
PROPERTIES
  SavedCountsGrow
