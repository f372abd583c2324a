CONSTANTS
    Entry = {1, 2}
    Author = {1, 2}
    LogCap = 1
    MaxProgress = 2
SPECIFICATION FairSpec
PROPERTY StickyTextsStay
