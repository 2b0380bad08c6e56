SPECIFICATION Spec
CONSTANTS
    User = {u1}
    MediaID = {m1}
    Content = {c1}
    None = None
    Request = {r1}
    Worker = {w1}
INVARIANTS
    ReusedIdKeepsContent
