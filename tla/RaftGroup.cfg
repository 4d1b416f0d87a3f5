\* A founder, two processes that join, one command, one kind of fault.
SPECIFICATION FairSpec
CONSTANTS
    Process = {p1, p2, p3}
    Founder = p1
    MaxId = 3
    Command = {c1}
    MaxFaults = 1
    None = None
INVARIANTS TypeOK LoopsEndForAReason ProposalOutcome
PROPERTIES ProposalsEnd

\* A group whose loops have ended, or whose proposals are over, rests.
CHECK_DEADLOCK FALSE
