\* Every text of three bytes and every prefix of one, on a back end that never
\* fails: Bound is N + READ_CHUNK.
SPECIFICATION Utf8Spec
CONSTANTS
    Bound = 5
    Flaky = FALSE
    Slack = 0
    InlineCap = 0
    READ_CHUNK = 2
    N = 3
    MaxWant = 1
    BufCaps <- CapNone
    Texts <- AnyText
    WouldBlocks = FALSE
PROPERTIES StringVerdict
