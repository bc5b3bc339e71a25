SPECIFICATION Spec
CONSTANTS
    j1 = j1
    j2 = j2
    j3 = j3
    Jobs = {j1, j2, j3}
    NoJob = NoJob
    MaxBoots = 2
INVARIANTS
    TypeOK
    InOrderOnce
    RowsTellTheTruth
PROPERTY
    JobsEnd
