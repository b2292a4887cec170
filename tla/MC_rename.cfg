SPECIFICATION Spec
CONSTANTS
    NoRow = NoRow
    NoCell = NoCell
    Blank = Blank
    NoRecord = NoRecord
    NoValue = NoValue
    Foreign = Foreign
    m1 = m1  m2 = m2  a = a  b = b
    Ids = {a, b}
    Mutations = {m1, m2}
    Table = t
    AssignedId <- NewIds
    Strategy = "last-write-wins"
    Revisions = "clock"
    Epoch = 1
    RetryCap = 0
    Ticks = {1}
    ClockBehind = {0}
    ClockAhead = {0}
    MaxForeign = 0
    MaxResets = 0
    MaxFailures = 1
    MaxTogether = 1
INVARIANTS
    RenamesGoThrough
