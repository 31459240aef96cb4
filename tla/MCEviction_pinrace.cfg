\* A pin that lands between the check and the unlinks.
SPECIFICATION AuditSpec
CONSTANTS
    d1 = d1
    d2 = d2
    d3 = d3
    Digest = {d1, d2}
    Writer = {}
    SizeOf <- MCSizeOf
    None = None
    Torn = Torn
    Shapes = {"absent", "imported", "pulled_gguf"}
    MaxAge = 1
    Pruner = {p1}
    PinClient = {c1}
    Budgets = {1, 2}
PROPERTIES PinnedNeverEvicted
