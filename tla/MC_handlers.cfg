SPECIFICATION Spec
CONSTANTS
    NoRow = NoRow
    NoRun = NoRun
    m1 = m1  m2 = m2  m3 = m3  t1 = t1  t2 = t2  r1 = r1  r2 = r2
    Mutations = {m1}
    Tables = {t1, t2}
    TableOf <- MCTableOf
    DependsOn <- AcrossTables
    Stamp <- MCStamp
    Limit = 100
    MaxConcurrentTables = 4
    Requests <- SyncAll
    Runs = {r1, r2}
    RetryCap = 0
    HandlersFail = TRUE
    MaxRemounts = 1
    Strays = {}
    MaxCrashes = 1
    MaxWaiting = 1
INVARIANTS
    SyncingIsOwned
SYMMETRY RunSymmetry
