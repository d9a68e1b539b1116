\* Two accounts, seven conversations of up to two turns.
CONSTANTS
    a1 = a1
    a2 = a2
    Accounts = {a1, a2}
    Client <- Sends
    Says <- Messages
    Mixes <- Held
    Own = Own
    Missing = Missing
    Blank = Blank
    Cap = 2
    TTL = 2
    CleanupInterval = 1
    MaxTime = 3
    MaxIds = 4
    MaxRequests = 4
    MaxRestarts = 1
SPECIFICATION Spec
SYMMETRY Symmetry
INVARIANT TypeOK
INVARIANT IdsStayWithAccount
INVARIANT IdsRetire
INVARIANT RepeatKeepsId
INVARIANT AnsweredApart
INVARIANT SentIsAcceptable
INVARIANT WordsArrive
CHECK_DEADLOCK FALSE
