------------------------- MODULE MCCitationGeometry -------------------------
(* Small instances of CitationGeometry: two lines of up to four words, with  *)
(* a repeated word, a hyphenated break, an empty word and a box off the page,*)
(* read by either extractor.                                                 *)
EXTENDS CitationGeometry, TLC

At(l, t, r, b) == [left |-> l, top |-> t, right |-> r, bottom |-> b]
Cells == <<At(0, 0, 2, 1), At(2, 0, 4, 1), At(0, 2, 2, 3), At(2, 2, 4, 3)>>
Texts == {<<"con">>, <<"tract">>, <<"con", "-">>, <<"-">>, <<>>}

Rows(texts) == [i \in DOMAIN texts |-> [text |-> texts[i], box |-> Cells[i]]]
FirstPages ==
    {[by |-> "pdftotext", width |-> 4, height |-> 3, words |-> Rows(t)] : t \in [1..4 -> Texts]}
    \cup {[by |-> "tesseract", width |-> 4, height |-> 3, words |-> Rows(t)] : t \in [1..3 -> Texts]}
    \cup {[by |-> "tesseract", width |-> 6, height |-> 4, words |-> Rows(<<<<"con">>, <<"con">>>>)]}
    \cup {[by |-> "pdftotext", width |-> 3, height |-> 3, words |-> Rows(<<<<"con">>, <<"tract">>>>)]}
SecondPages == {[by |-> "tesseract", width |-> 4, height |-> 3, words |-> Rows(<<<<"tract">>, <<"con">>, <<"tract">>>>)]}
MCLayout == <<FirstPages, SecondPages>>
MCQuote == {<<>>, <<<<"con">>>>, <<<<"con", "tract">>>>, <<<<"con">>, <<"con">>>>, <<<<"con">>, <<"tract">>>>}
=============================================================================
