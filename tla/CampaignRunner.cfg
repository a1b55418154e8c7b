SPECIFICATION FairCampaignSpec
CONSTANTS
    Runner = {r1, r2}
    Batch = {b1, b2}
    Days <- ThreeDays
    MaxRuns = 2
    Target = 2
    BatchSize = 2
    MinDays = 2
    PerDay = 1
    MaxFaults = 2
INVARIANTS
    OneBatch
    NoOvershoot
PROPERTIES
    ResultsNeverShrink
    CampaignEnds
CHECK_DEADLOCK FALSE
