\* A back end that may refuse any growth (Bound out of reach), plain text.
SPECIFICATION Spec
CONSTANTS
    Bound = 99
    Flaky = TRUE
    Slack = 1
    InlineCap = 0
    READ_CHUNK = 2
    N = 3
    MaxWant = 4
    BufCaps <- CapSome
    Texts <- PlainText
INVARIANTS StreamIntact CallIntact BufReadContract CapacityKept
PROPERTIES EofIsReal PeekExactBounded ImplementsPeekStream ActsAsReader
