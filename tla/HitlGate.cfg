\* Every channel, every decider, crashes, resumes, retries and daemon starts.
CONSTANTS
    g1 = g1  g2 = g2  dashboard = dashboard  NoGate = NoGate
    Gates = {g1, g2}
    Channels = {"terminal", "detached", "slack", "telegram"}
    AutoApprove = {TRUE, FALSE}
    Remote = {dashboard}
SPECIFICATION FairSpec
INVARIANTS ReportedOnce NoPhantomGate
PROPERTIES KeepsPromise TimeoutNeverClobbers EveryAskEnds
CHECK_DEADLOCK FALSE
