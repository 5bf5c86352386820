\* Requests of at most two bytes, read four characters at a time: three reads of one line.
SPECIFICATION FairSpec
CONSTANTS
    MaxRequest = 2
    MaxWritten = 9
    MaxOther = 1
INVARIANTS
    OneResponseForAWholeLine
PROPERTIES
    EveryLineIsAnswered
CHECK_DEADLOCK FALSE
