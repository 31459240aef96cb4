\* One Prune over blobs pulled in safetensors format.
SPECIFICATION AuditSpec
CONSTANTS
    d1 = d1
    d2 = d2
    d3 = d3
    Digest = {d1, d2}
    Writer = {}
    SizeOf <- MCSizeOf
    None = None
    Torn = Torn
    Shapes = {"absent", "pulled_st"}
    MaxAge = 1
    Pruner = {p1}
    PinClient = {c1}
    Budgets = {1, 2}
PROPERTIES PruneMeetsBudget
