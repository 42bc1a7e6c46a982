--------------------------- MODULE MCPrefixReuse ---------------------------
(* Small instances of PrefixReuse for TLC.                                 *)
EXTENDS PrefixReuse

TwoTokensAndEos == 0..2
TwoModels == {1, 2}

(* Choices that depend on the model, on the length of the context and on   *)
(* both its ends; each token, EOS included, is chosen after some context.  *)
Chosen(m, s) == (m * Len(s) + s[1] + 2 * s[Len(s)]) % 3

OwnFingerprint == [m \in TwoModels |-> m]

(* Prompts that extend, share a prefix with and differ from each other.    *)
SomePrompts == {<<0>>, <<1>>, <<0, 1>>, <<1, 1>>, <<0, 1, 0>>, <<0, 1, 1>>, <<1, 0, 1>>}

NewTokens == {0, 2}
Sizes == {4, 5}
=============================================================================
