\* One handler beside an import and a pull.
SPECIFICATION HandoffSpec
CONSTANTS
    d1 = d1
    d2 = d2
    Digest = {d1, d2}
    Importer = {i1}
    Puller = {q1}
    Writer = {i1, q1}
    SizeOf <- MCSizeOf
    None = None
    Torn = Torn
    Blank = Blank
    Shapes = {"absent", "pulled_gguf", "flat_st"}
    MaxAge = 0
    Tag = {t1}
    Formats = {"gguf"}
    HardLinks = TRUE
    Pruner = {}
    PinClient = {}
    Budgets = {1}
    Handler = {h1}
INVARIANTS HandoffWhole MissNeedsPull TagsResolve BlankTagHasWriter
PROPERTIES StaysAvailable
