SPECIFICATION FairSpec
CONSTANTS
    Id = {i1, i2}
    Delay = {0, 3}
    Time <- Times
    Interval = {2}
    frequency = 1
    Second = 2
INVARIANTS TypeOK OnceAtMostOnce CancelIsFinal
PROPERTIES NotTooEarly RepeatSpacing OnceDelivered RepeatGoesOn CancelTakesEffect
