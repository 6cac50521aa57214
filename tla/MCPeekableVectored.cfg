\* lib.rs:577-579 against the code.
SPECIFICATION Spec
CONSTANTS
    Bound = 99
    Flaky = FALSE
    Slack = 0
    InlineCap = 0
    READ_CHUNK = 2
    N = 3
    MaxWant = 2
    BufCaps <- CapNone
    Texts <- PlainText
PROPERTIES VectoredAsConcatenated
