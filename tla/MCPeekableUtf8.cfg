\* Every text of four bytes and every prefix of one, on a back end that may refuse any
\* growth and never has to: Bound is N + READ_CHUNK.
SPECIFICATION Utf8Spec
CONSTANTS
    Bound = 6
    Flaky = TRUE
    Slack = 0
    InlineCap = 0
    READ_CHUNK = 2
    N = 4
    MaxWant = 2
    BufCaps <- CapNone
    Texts <- AnyText
PROPERTIES StringVerdict LongestPrefixKept
