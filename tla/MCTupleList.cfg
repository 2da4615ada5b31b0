CONSTANTS
    t1 = t1
    t2 = t2
    t3 = t3
    n1 = n1
    n2 = n2
    n3 = n3
    n4 = n4
    Null = Null
    Free = Free
    Tuple <- MCTuple
    Node <- MCNode
    Guarded = TRUE
SPECIFICATION Spec
INVARIANTS
    TypeOK
    CurrentIsLast
    SizeIsLength
    NoDuplicates
    NoLeak
    AnswersTrue
    NamelessIsLast
PROPERTY ImplementsRegistry
CHECK_DEADLOCK FALSE
