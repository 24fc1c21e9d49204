\* The shipped policy and a text with a secret.
CONSTANTS
    auto = auto
    opus = opus
    sonnet = sonnet
    NoModel = NoModel
    Models <- MCModels
    AutoSecure = auto
    Policies <- MCAsShipped
    Contents <- MCOneText
SPECIFICATION FairSpec
CHECK_DEADLOCK FALSE
INVARIANT
    BlockedDidNotHappen
