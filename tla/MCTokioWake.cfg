\* Futures under a fair executor, and a reader that keeps the contract of
\* AsyncRead.
SPECIFICATION FairSpec
CONSTANTS
    Bound = 2
    Flaky = FALSE
    Slack = 0
    InlineCap = 1
    READ_CHUNK = 4
    N = 2
    MaxWant = 2
    MaxFilled = 0
    BufCaps <- CapSome
    Texts <- PlainText
    WouldBlocks = FALSE
INVARIANTS TypeOK
PROPERTIES AnsweredAtLast
