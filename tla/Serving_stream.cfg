\* Two requests as in Serving.cfg at one server of the rollouter and one hybrid
\* server, through MaxVersion weight updates with and without validation.  The
\* run ends when every request has ended and no version is left.
SPECIFICATION Spec
CONSTANTS
    Requests = {r1, r2}
    Standalone = {s1}
    Hybrid = {h1}
    ResponseLength = 2
    Slack = 0
    Partial = FALSE
    MaxVersion = 1
    None = None
CHECK_DEADLOCK FALSE
INVARIANTS
    NotCutShort
