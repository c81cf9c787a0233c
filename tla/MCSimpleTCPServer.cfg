SPECIFICATION Spec
CONSTANTS
    NULL = NULL
    Conn = {c1, c2, c3}
    Fd = {1, 2}
    MaxTime = 1
SYMMETRY Symmetry
INVARIANTS TypeOK LoggedTimeIsItsOwn LookupAlwaysFinds AllSentIsLogged BlankLinesBounded
CHECK_DEADLOCK FALSE
