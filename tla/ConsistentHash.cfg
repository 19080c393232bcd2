\* Three peers and every placement of their virtual nodes on four hash values.
CONSTANTS
    a = a
    b = b
    c = c
    Nodes <- MCNodes
    MaxHash = 3
    Nil = Nil
SYMMETRY MCSymmetry
SPECIFICATION Spec
INVARIANTS RingConsistent NodesAgreeUnlessCollision
PROPERTIES MovesAreMinimal
