\* Futures under a fair executor, over a back end that holds Bound bytes and
\* a reader that keeps the contract of AsyncRead.
SPECIFICATION FairSpec
CONSTANTS
    Bound = 2
    Flaky = TRUE
    Slack = 0
    InlineCap = 1
    READ_CHUNK = 4
    N = 2
    MaxWant = 3
    BufCaps <- CapSome
    Texts <- PlainText
    WouldBlocks = FALSE
INVARIANTS TypeOK ParkedIsWatched
PROPERTIES AnsweredAtLast
