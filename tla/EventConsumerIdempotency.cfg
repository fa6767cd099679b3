SPECIFICATION FairSpec
CONSTANTS
    Caller = {d1, d2, d3, d4}
    NoCaller = NoCaller
INVARIANTS
    TypeOK
    EffectAtMostOnce
    BodyIsOfRecordedEffect
PROPERTY
    EveryDeliveryReturns
