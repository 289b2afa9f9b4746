CONSTANTS
    Targets = {"lake_target"}
    RetiredNames = {"probEvent", "probOutput", "probFailure"}
    CodemodTargets = {"prEvent"}
    Modules <- MCModules
    Library = {"Base", "Top"}
    Cone <- MCCone
    Contents <- MCContents
    First <- MCFirst
    Documents <- MCDocuments
    MaxPushes = 2
    MaxRuns = 3
SPECIFICATION Spec
CHECK_DEADLOCK FALSE
INVARIANTS
    TypeOK
    TableFresh
    PublishedIsChecked
