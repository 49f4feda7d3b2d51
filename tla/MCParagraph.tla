----------------------------- MODULE MCParagraph -----------------------------
(***************************************************************************)
(* Texts for Paragraph: the ones that are broken into lines only exercise   *)
(* the rules of LineBreakRules, every pair of runes and longer texts over   *)
(* the runes of one group of rules; the ones that are laid out have words   *)
(* of two scripts and directions, white space and brackets.                 *)
(***************************************************************************)
EXTENDS Paragraph

Spaces  == {"SP", "ZW", "OP", "CL", "NS", "B2", "QU.Pi", "GL"}
Marks   == {"CM", "ZWJ", "AL", "SP", "BK", "CR", "LF", "ID"}
Numbers == {"NU", "SY", "IS", "CP", "PO", "OP", "SP"}
Quotes  == {"QU", "QU.Pi", "QU.Pf", "QU.wide", "ID", "AL", "SP", "EX"}
Hyphens == {"HL", "HY", "BA.2010", "BA.wide", "AL", "SP", "CB"}
Aksaras == {"AK", "AS", "AP", "VF", "VI", "AL.circle"}
Flags   == {"RI", "CM", "EB", "EM", "ID.pict"}
Words   == {"AL", "HL", "SP", "OP", "CP"}

MCLaid ==
  (SeqOf(Words, 3) \ {<<>>})
    \cup {<<"OP", "AL", "HL", "CP">>, <<"HL", "SP", "SP", "HL">>, <<"AL", "SP", "HL", "HL">>}

MCTexts ==
  (SeqOf(Runes, 2) \cup SeqOf(Spaces, 4) \cup SeqOf(Marks, 4)
    \cup SeqOf(Numbers, 4) \cup SeqOf(Quotes, 4) \cup SeqOf(Hyphens, 4)
    \cup SeqOf(Aksaras, 4) \cup SeqOf(Flags, 4) \cup MCLaid) \ {<<>>}

MCDefault == [run |-> "regular", fill |-> "black"]
MCStyles == {[run |-> "regular", fill |-> "red"], [run |-> "bold", fill |-> "black"]}
=============================================================================
