\* Every answer a judge may give to one score question of three levels.
SPECIFICATION JudgmentSpec
CONSTANTS
  Levels = 3
  Whole = 2
  MaxRetries = 2
INVARIANTS AnswersRecorded
