CONSTANTS
  a = a  b = b  c = c  r1 = r1  w1 = w1
  Elts = {a, b, c}
  HashSize = 6
  Points <- Colliding
  Readers = {r1}
  Writers = {w1}
  MaxN = 4
  Adds = {a, b}
  Removes = {a, b, c}
  Sets <- SomeSets
  MaxCount = 3
SPECIFICATION FairSpec
INVARIANTS TypeOK AnswerComplete SetEstablishes RingAgrees GetNClosest
PROPERTIES SetKeepsCount CallsReturn
