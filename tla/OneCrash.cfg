\* The instance of RaftGroup.cfg; the fault that matters is one crash.
SPECIFICATION FairSpec
CONSTANTS
    Process = {p1, p2, p3}
    Founder = p1
    MaxId = 3
    Command = {c1}
    MaxFaults = 1
    None = None
PROPERTIES SurvivesMinorityFailure

\* A group whose loops have ended, or whose proposals are over, rests.
CHECK_DEADLOCK FALSE
