SPECIFICATION FairSpec
CONSTANTS
    Messages = {1}
    Takes = {}
    Faults = {"wifi"}
    None = None
    Failed = Failed
    Partial = Partial
PROPERTIES
    EveryFetched
