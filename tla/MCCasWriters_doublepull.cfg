\* Two pulls of one digest.
SPECIFICATION WritingSpec
CONSTANTS
    Digest = {d1}
    Importer = {}
    Puller = {q1, q2}
    Writer = {q1, q2}
    SizeOf <- MCSizeOf
    None = None
    Torn = Torn
    Blank = Blank
    Shapes = {"absent", "imported", "pulled_gguf"}
    MaxAge = 0
    Tag = {t1}
    Formats = {"gguf", "safetensors"}
    HardLinks = TRUE
INVARIANTS SettledIntegrity
CHECK_DEADLOCK FALSE
