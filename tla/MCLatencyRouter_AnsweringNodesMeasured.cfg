CONSTANTS
    n1 = n1
    n2 = n2
    Members <- MembersMC
    Answering = {n1, n2}
    Threshold = 1
    Hour = 9
    WriteErrors = TRUE
    MaxPasses = 2
    MaxTime = 4
SPECIFICATION Spec
INVARIANT AnsweringNodesMeasured
