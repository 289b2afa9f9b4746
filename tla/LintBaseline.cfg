CONSTANTS
    Findings <- MCFindings
    Libraries = {"VCVio", "Examples"}
    MaxEdits = 2
    MaxLints = 1
    MaxQueue = 2
SPECIFICATION Spec
INVARIANTS
    MainExact
    NeverTorn
    RunIsAtomic
PROPERTY MainShrinks
