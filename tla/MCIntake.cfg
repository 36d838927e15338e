CONSTANTS
    c1 = c1
    c2 = c2
    None = None
    Client = {c1, c2}
    Url = {"a1", "a2", "b", "x"}
    Canonical <- CanonicalUrl
    Unacceptable = {"x"}
    MaxItems = 3
    Endpoints = {"single", "batch"}
    Address = {"p", "private"}
    PublicAddress = {"p"}
    AddressLimit = 2
    HeadAnswers <- Heads
    GetAnswers <- Gets
    Faults = {"database", "drop"}
SPECIFICATION Spec
SYMMETRY ClientSymmetry
INVARIANTS SubmissionsAgree ClassificationIsSound RobotsAsWritten UrlRulesAsDefined LabAgreesWithCrawl
CHECK_DEADLOCK FALSE
