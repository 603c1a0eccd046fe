CONSTANTS
  Job = {j1, j2}
  N_PROCESSES = 2
  MaxSignals = 3
  Unreadable = Unreadable
SPECIFICATION FairSpec
INVARIANT TypeOK
INVARIANT CountedOnce
INVARIANT CompleteWithoutSignal
INVARIANT SignalSaves
PROPERTY CampaignEnds
CHECK_DEADLOCK FALSE
