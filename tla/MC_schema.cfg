SPECIFICATION Spec
CONSTANTS
    NoRow = NoRow
    m1 = m1  m2 = m2
    Mutations = {m1, m2}
    Natives = {TRUE, FALSE}
INVARIANTS
    TypeOK
    OpensUpToDateButFrom5
    NeverStuck
PROPERTIES
    WorkIsPreserved
