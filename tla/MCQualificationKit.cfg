SPECIFICATION Spec
CONSTANTS
    Suites <- MCSuites
    Reruns <- MCReruns
    Tree <- MCTree
    Testcase <- MCTestcase
    Options <- MCOptions
    MaxInvocations = 2
INVARIANTS
    ReportTruthful
    KitOfInvocation
    FreshLogExact
CHECK_DEADLOCK FALSE
