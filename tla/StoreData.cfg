\* One object in the data file, one more created, two transactions with three
\* operations between them, values 1 and 2.  A hash index differs from an
\* ordered one only in that it answers no range.
CONSTANTS
    Values = {1, 2}
    Missing = 0
    Stored = 1
    Transactions = {t1, t2}
    Kinds = {"Ordered"}
    MaxObjects = 2
    MaxOps = 3
SPECIFICATION Spec
SYMMETRY Interchangeable
INVARIANT QueryAgrees
PROPERTY RollbackRestores
CHECK_DEADLOCK FALSE
