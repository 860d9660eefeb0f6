CONSTANTS
  a = a  b = b  c = c  r1 = r1  w1 = w1
  Elts = {a, b, c}
  HashSize = 8
  Points <- Spread
  Readers = {r1}
  Writers = {w1}
  MaxN = 4
  Adds = {a, b}
  Removes = {}
  Sets <- NoSets
  MaxCount = 3
SPECIFICATION FairSpec
PROPERTIES GetNReturns
CHECK_DEADLOCK FALSE
