----------------------------- MODULE MCPayloadPath -----------------------------
(* Small instances of PayloadPath: the texts and memory of the configurations. *)
EXTENDS PayloadPath

Chars == {"t", "x", "]", "{", "}", "bad"}
Name == <<"t">>

\* Texts that fit, one that just fits, and one that is refused.
ExportTexts == {<<"t", "]", "]">>, <<"t", "x", "x", "]">>, <<"t", "x", "x", "x", "]">>}
JsonTexts == {<<"{", "t", "}">>, <<"{", "}", "t", "}">>}
WholeTexts == ExportTexts \cup JsonTexts
ASSUME TextsAreWhole == \A text \in WholeTexts : Export(text) \/ Json(text)
ListText == {<<"{", "t", "]", "}">>}

\* Nothing, or one or two characters that end a text, or not, or are no text.
Memory == {<<>>, <<"x">>, <<"]">>, <<"}">>, <<"bad">>, <<"x", "]">>, <<"x", "}">>}
NoMemory == {<<>>}
==============================================================================
