-------------------------- MODULE MCModelResolution --------------------------
(* Listings of up to three of fourteen entries, in every order, for every   *)
(* kind of spec, format and quantization.                                   *)
EXTENDS ModelResolution

CONSTANT none

X(s) == <<"X">> \o s \o <<".", "GGUF">>
Gguf(path) == [type |-> "file", ext |-> "gguf", path |-> path]
Weights(path) == [type |-> "file", ext |-> "safetensors", path |-> path]

(* Stems that tell the matching rules apart: strict with each delimiter,    *)
(* delimited inside, a run of letters, BF16 alone and beside F16, a shard   *)
(* and a file whose extension is in capitals.                               *)
McEntries ==
  { Gguf(X(<<"-", "Q4", "_", "K", "_", "M">>)), Gguf(X(<<"_", "Q4", "_", "0">>)),
    Gguf(X(<<".", "Q8", "_", "0">>)), Gguf(X(<<"-", "Q8", "_", "0", "-", "1", "-OF-", "2">>)),
    Gguf(X(<<"-", "I", "Q4", "_", "0">>)), Gguf(X(<<"-", "B", "F16">>)),
    Gguf(X(<<"-", "F16">>)), Gguf(X(<<"-", "B", "F16", "_", "F16">>)),
    Gguf(X(<<"-", "F16", "-", "B", "F16">>)),
    [type |-> "file", ext |-> "other", path |-> X(<<"-", "F16">>)],
    Weights(ModelSafetensors), Weights(<<"MODEL", "-", "1", "-OF-", "2">>),
    Weights(<<"ADAPTER">>),
    [type |-> "file", ext |-> "json", path |-> TokenizerJson] }

McTrees == UNION {{s \in [1 .. n -> McEntries] : IsInjective(s)} : n \in 0 .. 3}

McAliases ==
  [s \in {"alias"} |-> [repo |-> "o/alias", path |-> X(<<"-", "Q4", "_", "K", "_", "M">>),
                        name |-> "alias", tag |-> <<"LATEST">>]]
McRepoSpecs == {"o/repo"}
McRepoName == [r \in {"o/alias", "o/repo"} |-> IF r = "o/alias" THEN "alias" ELSE "repo"]
McQuants ==
  {none, <<"Q4", "_", "K">>, <<"Q4", "_", "0">>, <<"Q8", "_", "0">>, <<"F16">>,
   <<"B", "F16">>, <<"Q4">>}

McRequests ==
  [spec : {"alias", "o/repo", "word"}, format : {"gguf", "safetensors", "onnx"},
   quant : McQuants,
   override : {[name |-> none, tag |-> none], [name |-> "mine", tag |-> none]}]
==============================================================================
