----------------------- MODULE MCSpeculativeDecoding -----------------------
(* Small instances of SpeculativeDecoding for TLC.                         *)
EXTENDS SpeculativeDecoding

TwoTokensAndEos == 0..2
TwoModels == {1, 2}

(* Choices that depend on the model, on the length of the context and on   *)
(* both its ends; each token, EOS included, is chosen after some context.  *)
Chosen(m, s) == (m * Len(s) + s[1] + 2 * s[Len(s)]) % 3

ShortPrompts == {<<0>>, <<1, 0>>}
UpToFour == {1, 4}
NoLists == {<<>>}
FixedLists == {<<>>, <<2>>, <<0, 1, 0, 1>>}
AllDrafters == {"self", "fixed", "random"}
BothVerifiers == {"sequential", "parallel"}
Parallel == {"parallel"}
Random == {"random"}
Exact == {TRUE}
=============================================================================
