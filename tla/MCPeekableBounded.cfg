\* A back end that holds at most Bound bytes, fewer than the stream has.
SPECIFICATION FairSpec
CONSTANTS
    Bound = 2
    Flaky = FALSE
    Slack = 1
    InlineCap = 1
    READ_CHUNK = 4
    N = 3
    MaxWant = 4
    BufCaps <- CapSome
    Texts <- PlainText
INVARIANTS TypeOK
PROPERTIES FailsOnlyWhenFull GrowsAsOneStep ImplementsPeekStream CallsReturn
