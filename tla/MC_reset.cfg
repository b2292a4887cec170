SPECIFICATION Spec
CONSTANTS
    NoRow = NoRow
    NoCell = NoCell
    Blank = Blank
    NoRecord = NoRecord
    NoValue = NoValue
    Foreign = Foreign
    m1 = m1  m2 = m2  a = a  b = b
    Ids = {a}
    Mutations = {m1, m2}
    Table = t
    AssignedId <- SameIds
    Strategy = "last-write-wins"
    Revisions = "clock"
    Epoch = 1
    RetryCap = 0
    Ticks = {1}
    ClockBehind = {0}
    ClockAhead = {0}
    MaxForeign = 0
    MaxResets = 1
    MaxFailures = 0
    MaxTogether = 1
PROPERTIES
    ResetKeepsUnacknowledged
