---------------------------- MODULE MCLlamaStack ----------------------------
(* LlamaStack with layers of different quantization, and the cos and sin       *)
(* tables of models/generation.py, which have a row more than the caches.      *)
EXTENDS LlamaStack

MCBits == [l \in 1..Layers |-> IF l % 2 = 1 THEN 4 ELSE 8]
=============================================================================
