SPECIFICATION Spec
CONSTANTS
    None = None
    Users = {u1, u2}
    Registered = {u1}
    Moderators = {u1}
    Tabs = {w1, w2}
    MaxTokens = 2
    Writers = {w1}
    Entrances = {w2}
    Readers = {w1}
    u1 = u1
    Earlier <- Reply
    MaxDrafts = 2
    MaxLost = 1
    Ops <- AllOps
INVARIANTS ActsAsShown
PROPERTIES StoredOnce SuspendedStayQuiet
CONSTRAINT TwoPosts
