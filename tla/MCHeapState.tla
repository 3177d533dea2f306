---------------------------- MODULE MCHeapState -----------------------------
(* Instances of HeapState and its refinement for TLC.                      *)
EXTENDS HeapRefinement, TLC

CONSTANTS t1, t2

\* Payloads of different lengths: a changed root moves the ones after it.
MCPayloads == {<<1>>, <<2, 3>>}
MCNull == <<1>>

\* Each byte of the longest payload is a payload too: what a stale locator
\* designates may decode.
MCDecodable == {<<1>>, <<2>>, <<1, 2>>}

Symmetry == Permutations({t1, t2})
=============================================================================
