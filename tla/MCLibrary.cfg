CONSTANTS
    x = x
    a1 = a1
    a2 = a2
    r1 = r1
    c1 = c1
    c2 = c2
    Absent = Absent
    Null = Null
    Artists = {x}
    Collections = {a1, a2}
    Records = {r1}
    Calls = {c1, c2}
    Owner <- MCOwner
    Requests <- MCRequests
SPECIFICATION Spec
SYMMETRY Symmetry
INVARIANTS
    OneSingle
    
 
CHECK_DEADLOCK FALSE
