SPECIFICATION Spec
CONSTANTS
  Variables <- MCVariables
  Scenes <- MCScenes
INVARIANTS
  TextIsReadWhole
  AnswersMeanTheClaim
  ReadBackIsWhatRuns
  VacuousNeverFails
