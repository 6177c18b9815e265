SPECIFICATION Spec
CONSTANTS
  Scores = {1, 2}
  StoreLens = {0, 2, 3}
  Ks = {0, 1, 2}
  ExtraIds = {9}
  MaxEdits = 3
INVARIANTS DeletedStaysHidden AnswerIsFilled ExactFromExact
CHECK_DEADLOCK FALSE
