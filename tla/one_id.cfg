SPECIFICATION Spec
CONSTANTS
    User = {u1, u2}
    MediaID = {m1}
    Content = {c1, c2}
    None = None
    Request = {r1, r2}
    Worker = {w1, w2}
SYMMETRY Symmetry
INVARIANTS
    RowHasContent
    CompletedMeansGone
    DownloadMatchesRow
    MissingNeverOnClean
    IInv
