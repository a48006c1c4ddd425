CONSTANTS
    None = None
    Uids = {0, 1, 2}
    BattleTicks = 2
    BuildingNum = 1
    StartPoints <- Even
    MaxPulses = 1
    MaxRequests = 3
    MaxQueue = 3
SPECIFICATION FairSpec
INVARIANTS
    BattlesSettled
    PopsWhatIsThere
PROPERTY RunningEnds
