--------------------------- MODULE MCKVConnector ---------------------------
(* Instances of KVConnector with two requests: prompts that share their     *)
(* first chunk and differ in the second, or the same prompt twice.          *)
EXTENDS KVConnector, TLC

CONSTANTS r1, r2

SharedFirstChunk == (r1 :> <<1, 2, 3, 4, 5>>) @@ (r2 :> <<1, 2, 6, 7>>)

SameTokens == (r1 :> <<1, 2, 3, 4, 5>>) @@ (r2 :> <<1, 2, 3, 4>>)

MCPromptLen == (r1 :> 4) @@ (r2 :> 4)

\* Blocks and files are interchangeable.
Symmetry == Permutations(Blocks) \union Permutations(Files)
=============================================================================
