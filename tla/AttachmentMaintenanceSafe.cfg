SPECIFICATION MaintenanceSpec
CONSTANTS
    h1 = h1
    openai = openai
    vertex = vertex
    r1 = r1
    House = House
    NoHolder = NoHolder
    Holder = {h1}
    Provider = {openai, vertex}
    Keyed = {vertex}
    Request = {r1}
    Chores = {}
    Faults = {"vanish", "crash"}
    MaxFile = 1
    MaxCopy = 3
    Commands = {"reconcile", "filename", "file_id"}
INVARIANTS
    ReconcilesFully
PROPERTIES
    ClearsOnlyTheDead
CHECK_DEADLOCK FALSE
