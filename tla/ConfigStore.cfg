\* A directory written by hand and one that has been set up, two saves, one accident
SPECIFICATION Spec
CONSTANTS
    s1 = s1
    s2 = s2
    a1 = a1
    m1 = m1
    m2 = m2
    g1 = g1
    p1 = p1
    w1 = w1
    Blank = Blank
    Absent = Absent
    Broken = Broken
    Unsure = Unsure
    EntryNames <- MCEntryNames
    Secrets <- MCSecrets
    Offered <- MCOffered
    ByHand <- MCByHand
    Installed <- MCInstalled
    MaxSaves = 2
    MaxAccidents = 1
INVARIANTS TypeOK KeptAsTold InStep
PROPERTIES ReloadIsWhole
