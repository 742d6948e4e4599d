\* Two scores, two reads at a time.
SPECIFICATION Spec
CONSTANTS
  r1 = r1
  r2 = r2
  None = None
  Score = {1, 2}
  Reader = {r1, r2}
PROPERTIES ScoreConverges
