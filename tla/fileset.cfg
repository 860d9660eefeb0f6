CONSTANTS
  r1 = r1  r2 = r2
  Readers = {r1, r2}
  Callers = {r1}
  Handles = {1, 2}
  MaxFiles = 2
  Sizes = {3}
  Gaps = {0}
  Tables <- SomeTables
  Infos <- TwoInfos
  MaxInfos = 1
  MaxPos = 8
SPECIFICATION Spec
VIEW Relevant
INVARIANTS RangesDisjoint LookupRight SettledPositionsRight
