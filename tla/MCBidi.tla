------------------------------- MODULE MCBidi -------------------------------
(***************************************************************************)
(* Paragraphs for BidiRules: every short one over alphabets that exercise  *)
(* the explicit levels, the weak types and the brackets, and longer ones   *)
(* of initiators, so that they overflow and are closed again.              *)
(***************************************************************************)
EXTENDS BidiRules

ExplicitAlphabet == {"L", "R", "ON", "RLE", "LRO", "RLI", "FSI", "PDI", "PDF", "BN"}
WeakAlphabet     == {"L", "AL", "EN", "AN", "ES", "CS", "ET", "NSM"}
NeutralAlphabet  == {"R", "L", "EN", "WS", "S", "RLI", "PDI"}
DeepAlphabet     == {"RLE", "LRI", "PDI", "PDF"}
RemovedAlphabet  == {"L", "R", "ON", "RLE", "PDF"}
IsolatedAlphabet == {"L", "R", "RLI", "PDI", "BN"}
BracketAlphabet  == {"(", ")", "[", "]", "L", "R", "NSM"}

MCTexts ==
    SeqOf(ExplicitAlphabet, 4) \cup SeqOf(WeakAlphabet, 4) \cup SeqOf(NeutralAlphabet, 4)
        \cup SeqOf(BracketAlphabet, 4) \cup SeqOf(DeepAlphabet, 6)
        \cup SeqOf(RemovedAlphabet, 5) \cup SeqOf(IsolatedAlphabet, 5)
=============================================================================
