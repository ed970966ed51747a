\* Three readings within six ticks, over windows of two ticks and of one reading.
SPECIFICATION Spec
CONSTANTS
    Confs <- Settings
    Grace = 2
    DownLimit = 2
    UpLimit = 2
    Rates <- Readings
    MaxTime = 6
    MaxPolls = 3
INVARIANTS DeferralIsBounded WindowDecides
PROPERTIES LossOfContactHolds
