\* A back end that holds Bound bytes, a reader that may say WouldBlock,
\* ReadBufs that are not empty.
SPECIFICATION Spec
CONSTANTS
    Bound = 3
    Flaky = TRUE
    Slack = 0
    InlineCap = 0
    READ_CHUNK = 2
    N = 2
    MaxWant = 2
    MaxFilled = 1
    BufCaps <- CapSome
    Texts <- SomeText
    WouldBlocks = TRUE
INVARIANTS ReadBufIntact
PROPERTIES ImplementsFuture
