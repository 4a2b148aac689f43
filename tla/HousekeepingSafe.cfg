SPECIFICATION HousekeepingSpec
CONSTANTS
    u1 = u1
    u2 = u2
    Upload = {u1, u2}
    h1 = h1
    h2 = h2
    openai = openai
    r1 = r1
    House = House
    NoHolder = NoHolder
    Holder = {h1, h2}
    Provider = {openai}
    Keyed = {}
    Request = {r1}
    MaxFile = 2
    MaxCopy = 3
INVARIANTS
    DeadUploadsYield
    AnswerIsTrue
PROPERTIES
    DraftsGo
    OrphansGo
CHECK_DEADLOCK FALSE
