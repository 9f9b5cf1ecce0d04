----------------------------- MODULE MCPrinter ------------------------------
(* Two kinds of texts, for two settings of the whitespace characters.      *)
EXTENDS Printer

(* Newlines in the whitespace, with blank lines marked by empty tokens     *)
Lines ==
    [whitespace |-> {<< >>, <<"SP">>, <<"NL">>, <<"CR", "NL">>, <<"NL", "SP", "NL">>},
     tokens |-> {<<"W">>, << >>}]

(* Newlines that are part of words, or words of their own                  *)
Words ==
    [whitespace |-> {<< >>, <<"SP">>},
     tokens |-> {<<"W">>, <<"NL">>, <<"W", "CR", "NL", "W">>}]

MCTexts == {Lines, Words}

MCMarker == <<"W", "W">>

=============================================================================
