SPECIFICATION Spec
CONSTANTS
  Ids = {1, 2}
  Scores = {1, 2}
  Ks = {0, 1, 2}
  MaxOffers = 5
INVARIANT ResultIsReference
CHECK_DEADLOCK FALSE
