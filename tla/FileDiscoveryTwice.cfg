\* A list edited by hand may name a node twice.
CONSTANTS
    Nodes = {a, b}
    Processes = {b}
    Absent = Absent
    Corrupt = Corrupt
    Nil = Nil
    Copies = 2
    MaxFaults = 1
SPECIFICATION FairSpec
PROPERTIES ListsHeal
