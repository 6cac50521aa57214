\* CHANGELOG.md and tests/sync.rs:879-882 against the code.
SPECIFICATION Utf8Spec
CONSTANTS
    Bound = 99
    Flaky = FALSE
    Slack = 0
    InlineCap = 0
    READ_CHUNK = 2
    N = 3
    MaxWant = 2
    BufCaps <- CapNone
    Texts <- AnyText
PROPERTIES StringUnchangedOnInvalid
