SPECIFICATION Spec
CONSTANTS
    Caller = {r1, r2, r3, r4}
    NoCaller = NoCaller
    MaxFailures = 1
    MayDisconnect = FALSE
INVARIANT
    EffectAtMostOnce
