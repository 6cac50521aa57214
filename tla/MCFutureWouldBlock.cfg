\* future.rs:36-40 against the code.
SPECIFICATION Spec
CONSTANTS
    Bound = 99
    Flaky = FALSE
    Slack = 0
    InlineCap = 0
    READ_CHUNK = 2
    N = 2
    MaxWant = 2
    BufCaps <- CapNone
    Texts <- PlainText
    WouldBlocks = TRUE
INVARIANTS ParkedIsWatched
