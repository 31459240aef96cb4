\* One pull and one import against one Prune and one Pin client.
SPECIFICATION FairStoreSpec
CONSTANTS
    Digest = {d1}
    Importer = {i1}
    Puller = {q1}
    Writer = {i1, q1}
    SizeOf <- MCSizeOf
    None = None
    Torn = Torn
    Blank = Blank
    Shapes = {"absent", "imported", "pulled_gguf"}
    MaxAge = 0
    Tag = {t1}
    Formats = {"gguf"}
    HardLinks = TRUE
    Pruner = {p1}
    PinClient = {c1}
    Budgets = {1}
INVARIANT TornNeedsRace
PROPERTIES PinLossNeedsPull PruneTerminates
