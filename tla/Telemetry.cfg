SPECIFICATION FairSpec
CONSTANTS
    Readers = {r1}
    MaxEmergencies = 2
INVARIANT EnabledIsHonest
PROPERTY FaultIsReported
PROPERTY FeedbackReturns
