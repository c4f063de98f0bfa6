SPECIFICATION Spec
CONSTANTS
    NMetric = 2
    Kind <- MixedKind
    Delta <- UpDown
    Time = {1, 2}
    MaxTotal = 1
INVARIANT OneOwner
PROPERTY ServiceSpec
