SPECIFICATION Spec
CONSTANTS
    RuleCount = 2
    LegacyRules = {1}
    Clients = {"phone", "other"}
    OwnMac = "own"
    HasOwnMac = TRUE
    Originals <- SixAdapters
    Overlapped <- OneNumbered
    MaxFaults = 2
INVARIANTS AdapterRestorable
PROPERTIES RulesAreSafe LeaseStaysWithClient LinkRecovers
