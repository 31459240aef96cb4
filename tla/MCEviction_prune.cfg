\* Two Prune callers and one Pin client over two blobs.
SPECIFICATION AuditSpec
CONSTANTS
    d1 = d1
    d2 = d2
    d3 = d3
    Digest = {d1, d2}
    Writer = {}
    SizeOf <- MCSizeOf
    None = None
    Torn = Torn
    Shapes = {"imported", "pulled_gguf", "flat_gguf"}
    MaxAge = 1
    Pruner = {p1, p2}
    PinClient = {c1}
    Budgets = {1, 2}
INVARIANTS AuditTypeOK ReclaimedIsFreed
PROPERTIES SafePinHolds PruneMeetsBudget OldestFirst NoOverEviction
SYMMETRY MCSymmetry
