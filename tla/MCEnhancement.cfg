SPECIFICATION Spec
INVARIANTS
    TypeOK
    AudioSurvives
    LibraryLeads
CONSTANTS
    Documents = {d1, d2}
    MaxJobs = 2
    MaxDeaths = 1
