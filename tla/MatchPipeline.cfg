SPECIFICATION FairSpec
CONSTANTS
    FullSyncs = {"worker"}
    OtherPolls = {"live", "one"}
    MaxAttempts = 2
    MaxFaults = 1
    Running = Running
    Final = Final
    Override = Override
    NoScore = NoScore
INVARIANTS SettledWithFinal AdminResultKept PipelineInv
PROPERTY AutoSettles
