SPECIFICATION Spec
CONSTANTS
    NoRow = NoRow
    m1 = m1  m2 = m2
    Mutations = {m1, m2}
    Natives = {FALSE}
INVARIANTS
    OpensUpToDate
