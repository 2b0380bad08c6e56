SPECIFICATION Spec
CONSTANTS
    User = {u1, u2}
    MediaID = {m1, m2}
    Content = {c1}
    None = None
    Request = {r1}
    Worker = {w1}
SYMMETRY Symmetry
INVARIANTS
    TypeOK
PROPERTIES
    ImplementsCatalog
