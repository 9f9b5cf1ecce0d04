----------------------------- MODULE MCTokenizer -----------------------------
(* Small instances of Tokenizer: a word character, a space, a newline and a *)
(* delimiter character.                                                     *)
EXTENDS Tokenizer

MCChar == {"w", "sp", "nl", "d"}
MCWhitespace == {"sp", "nl"}
MCDelimiters == {"d"}

=============================================================================
