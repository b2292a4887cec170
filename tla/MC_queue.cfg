SPECIFICATION Spec
CONSTANTS
    NoRow = NoRow
    NoCell = NoCell
    Blank = v
    m1 = m1  t1 = t1  t2 = t2  a = a  b = b  v = v
    Mutations = {m1}
    Tables = {t1, t2}
    RecordIds = {a, b}
    Values = {v}
    Drafts <- OneDraft
    MaxClock = 1
    RetryCap = 1
    Limits = {100}
INVARIANTS
    TypeOK
    DelayHasACause
PROPERTIES
    QueuedContentIsFixed
    LastWriterWins
    OneTablePerStep
