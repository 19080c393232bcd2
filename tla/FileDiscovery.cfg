\* Two processes and a fault of any kind.
CONSTANTS
    Nodes = {a, b}
    Processes = {a, b}
    Absent = Absent
    Corrupt = Corrupt
    Nil = Nil
    Copies = 1
    MaxFaults = 1
SPECIFICATION FairSpec
INVARIANTS RegisteredIsListed LeftIsGone
PROPERTIES ListsHeal CloseReturns
