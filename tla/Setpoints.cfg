SPECIFICATION FairSpec
CONSTANTS
    MaxMoves = 4
    MaxInterruptions = 2
INVARIANT NoMoveLost
INVARIANT TakenOnce
PROPERTY HandshakeEnds
