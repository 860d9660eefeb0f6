----------------------------- MODULE MCFileSet -----------------------------
EXTENDS FileSet

CONSTANTS r1, r2

\* One line again, where there were more.
SomeTables == {<<0>>}

TwoInfos == {[Offset |-> 0, Line |-> 4], [Offset |-> 1, Line |-> 7]}

\* What later steps and the properties depend on: without a set that cannot be
\* read back any more, and what a lookup that need not be right has found.
Relevant ==
  <<set, file,
    IF Len(file) + Len(saved.files) \in Handles THEN <<saved>> ELSE << >>,
    [r \in Readers |-> IF reader[r].kept THEN reader[r]
       ELSE [reader[r] EXCEPT !.line = 0, !.column = 0, !.table = << >>, !.seen = 0]]>>
=============================================================================
