SPECIFICATION Spec
CONSTANTS
    NoRow = NoRow
    NoCell = NoCell
    Blank = Blank
    NoRecord = NoRecord
    NoValue = NoValue
    Foreign = Foreign
    m1 = m1  m2 = m2  a = a  b = b
    Ids = {a, b}
    Mutations = {m1, m2}
    Table = t
    AssignedId <- NewIds
    Strategy = "last-write-wins"
    Revisions = "clock"
    Epoch = 1
    RetryCap = 0
    Ticks = {0}
    ClockBehind = {1}
    ClockAhead = {}
    MaxForeign = 1
    MaxResets = 1
    MaxFailures = 1
    MaxTogether = 2
INVARIANTS
    TypeOK
    CopiesFollowTheServer
    MergeIsTheLoop
PROPERTIES
    SentWritesSurvive
    DeletedStaysDeleted
SYMMETRY MutationSymmetry
