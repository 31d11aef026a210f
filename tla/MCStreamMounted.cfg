SPECIFICATION StreamFairSpec
CONSTANTS
    MaxLines = 1
    ChannelCapacity = 1
    Answers <- AllAnswers
    Readers = {"checks"}
    Writers = {"logging"}
PROPERTY StreamIsSent
CHECK_DEADLOCK FALSE
