CONSTANTS
    Processes = {p1}
    Last = 2
    Codes = {k1, k2}
    Attempts = 2
    Outages = 1
    Purgeable = {2}
SPECIFICATION FairSpec
PROPERTY
    ServesAgain
