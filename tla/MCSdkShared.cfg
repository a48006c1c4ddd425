CONSTANTS
    MaxId = 7
    Threshold = 2
    MaxConnections = 2
    NoByte = NoByte
    s1 = s1
    s2 = s2
    Sessions <- MCSessions
    Texts = {0, 200}
    Randoms <- Draws
    SendSizes = {4, 129, 32768, 65536}
    AskSizes = {3, 4}
    MaxMessages = 2
    MaxAsked = 1
SPECIFICATION SdkSpec
SYMMETRY Interchangeable
INVARIANT SharedArrives
CHECK_DEADLOCK FALSE
