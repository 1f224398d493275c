SPECIFICATION ConfigurationSpec
CONSTANTS
    AdminSessions = {s1, s2}
    ServiceOrder <- TwoServices
    Configs <- ThreeConfigs
    Baseline <- Auto
    Profiles = {"ocr_cpu", "ocr_gpu"}
    Startable = {"ocr_cpu"}
    OcrOf <- Devices
    MaxChanges = 2
    MaxPreviews = 2
    MaxGrants = 2
    MaxOperations = 1
    MaxFaults = 1
    MaxCrashes = 1
INVARIANTS
    AppliedAsConfirmed
    ReportedResultHolds
PROPERTIES
    EveryRowSettles
CHECK_DEADLOCK FALSE
