SPECIFICATION SteadySpec
CONSTANTS
    s = s
    m = m
    r1 = r1
    r2 = r2
    w1 = w1
    w2 = w2
    Version = Version
    Node = {s, m}
    Dials <- MCPair
    Sender = {s}
    Rule = {r1, r2}
    Notice = {w1, w2}
    CancelUpTo <- MCCancelUpTo
    MaxLosses = 1
INVARIANT RulesAgree
INVARIANT AlertsAreOffered
PROPERTY RulesNeverLost
CONSTRAINT MCThreeSent
CHECK_DEADLOCK FALSE
