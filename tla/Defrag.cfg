SPECIFICATION MCSpec
CONSTANTS
    Flows <- MCFlows
    Callers = {"c1", "c2"}
    Feedings <- MCFeedings
    Fragments <- MCFragments
    W = 16
    Unit = 2
    HeaderLen = 2
    IPv4MaximumFragmentOffset = 5
    IPv4MaximumFragmentListLen = 3
    MaxTime = 2
    Messages = {"m1", "m2"}
    Total <- MCTotal
    Timeout = 1
INVARIANT NothingLeftOver
PROPERTIES Refines LcmRefines
