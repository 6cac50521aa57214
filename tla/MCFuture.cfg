\* A back end that may refuse any growth (Bound out of reach), plain text, a
\* reader that may say WouldBlock.
SPECIFICATION Spec
CONSTANTS
    Bound = 99
    Flaky = TRUE
    Slack = 1
    InlineCap = 0
    READ_CHUNK = 2
    N = 3
    MaxWant = 3
    BufCaps <- CapNone
    Texts <- PlainText
    WouldBlocks = TRUE
INVARIANTS StreamIntact ProgressIntact BufReadContract WaitsForSomething
PROPERTIES EofIsReal PeekExactBounded ImplementsPeekStream ActsAsReader
