\* A reader that is read and written behind the wrapper's back, and panics.
SPECIFICATION ISpec
CONSTANTS
    Bound = 99
    Flaky = FALSE
    Slack = 0
    InlineCap = 1
    READ_CHUNK = 2
    N = 3
    MaxWant = 2
    MaxPanics = 1
    BufCaps <- CapSome
    Texts <- PlainText
INVARIANTS NothingLost OnceInOrder FillerOnlyFromPanics
