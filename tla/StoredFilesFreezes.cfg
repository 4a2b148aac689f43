SPECIFICATION FairSpec
CONSTANTS
    h1 = h1
    h2 = h2
    openai = openai
    r1 = r1
    r2 = r2
    House = House
    NoHolder = NoHolder
    Holder = {h1, h2}
    Provider = {openai}
    Keyed = {}
    Request = {r1, r2}
    Chores = {}
    Faults = {"timeout"}
    MaxFile = 2
    MaxCopy = 3
PROPERTIES
    EveryRequestEnds
CHECK_DEADLOCK FALSE
