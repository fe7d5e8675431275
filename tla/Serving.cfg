\* Two requests of at most two tokens at one server of the rollouter and one hybrid
\* server, through a validation before training or none and a weight update with or
\* without validation: two versions, and up to two validations.  The run ends when
\* every request has ended and no version is left.
SPECIFICATION FairSpec
CONSTANTS
    Requests = {r1, r2}
    Standalone = {s1}
    Hybrid = {h1}
    ResponseLength = 2
    Slack = 0
    Partial = TRUE
    MaxVersion = 1
    None = None
CHECK_DEADLOCK FALSE
INVARIANTS
    TypeOK
    LoadCounted
    TransferAlone
    LabelsBracket
    ResponseFits
PROPERTIES
    RoutedAwake
    RequestsEnd
