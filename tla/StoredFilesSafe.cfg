SPECIFICATION PartsSpec
CONSTANTS
    h1 = h1
    h2 = h2
    openai = openai
    vertex = vertex
    r1 = r1
    r2 = r2
    House = House
    NoHolder = NoHolder
    Holder = {h1, h2}
    Provider = {openai}
    Keyed = {}
    CopyProvider = {openai, vertex}
    CopyKeyed = {vertex}
    Request = {r1, r2}
    Chores = {"reconcile", "retry"}
    Faults = {"upload", "delete", "timeout", "crash"}
    MaxFile = 2
    MaxCopy = 3
SYMMETRY Symmetry
INVARIANTS
    ActiveIffAttached
    NoCopyIsForgotten
PROPERTIES
    KeepsWhatIsAttached
    DispatchedCopyIsThere
CHECK_DEADLOCK FALSE
