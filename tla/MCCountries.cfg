\* Two processes seed three countries; one client walks the lists.
SPECIFICATION Spec
CONSTANTS
    p1 = p1
    p2 = p2
    Process <- MCProcess
    States <- MCStates
    Name <- MCName
    Region = {1}
    PageSizes <- MCPageSizes
SYMMETRY Symmetry
INVARIANTS
    TypeOK
    HalfSeededNeedsDeath
    PagesMissNothing
