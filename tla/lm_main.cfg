SPECIFICATION Spec
CONSTANTS
    Entries = {d1,d2,d3}
    Baseline = {d1}
    MaxBatch = 2
    RequiredClean = 2
    MaxFaults = 3
    MaxDemotes = 1
    MaxDegraded = 1
INVARIANTS TypeOK AckedIsListed PublishedIsRecorded
PROPERTIES PromotionEarned AckedIsAnnounced
