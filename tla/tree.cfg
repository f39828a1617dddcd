CONSTANTS
    n1 = n1
    n2 = n2
    n3 = n3
    n4 = n4
    n5 = n5
    n6 = n6
    n7 = n7
    Node = {n1, n2, n3, n4, n5, n6, n7}
    Key = {1, 2, 3, 4, 5, 6, 7}
    d1 = d1
    d2 = d2
    Data = {d1, d2}
    Removing = TRUE
    Nil = Nil
SPECIFICATION FewSpec
VIEW ByKey
INVARIANTS WellLinked NeighboursInOrder
PROPERTY MapRefined
CHECK_DEADLOCK FALSE
