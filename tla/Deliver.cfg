CONSTANTS
    c1 = c1
    c2 = c2
    None = None
    Client = {c1, c2}
    Character <- DeliverCharacter
    Cases <- DeliverCases
    OldFiles <- DeliverOld
    Ambient <- DeliverAmbient
    Faults = {"crash", "io_error"}

SPECIFICATION Spec
INVARIANTS
    RunInv
    ExportReadsBack
    OldExportSurvives
    PlaintextIsPrivate
    ChildEnvironment
    SuccessIsTheChilds
