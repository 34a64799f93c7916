------------------------------- MODULE Tokens -------------------------------
(***************************************************************************)
(* token.h and the keyword table of lexer.c.  A token kind is written as   *)
(* its spelling: "fn" is TOK_FN, "->" is TOK_ARROW.                        *)
(***************************************************************************)
EXTENDS Naturals, Sequences

Keywords ==
  {"package", "import", "pub", "fn", "let", "const", "return", "if", "else",
   "while", "loop", "for", "break", "continue", "struct", "enum", "union",
   "interface", "impl", "unsafe", "extern", "as", "match", "kernel", "native",
   "ui", "android", "driver", "app", "module", "defer", "comptime", "packed",
   "true", "false", "null", "Self", "_"}

(* The tokens of two characters that lexer_tokenize tries before all others *)
(* and "..", which it tries after literals.                                 *)
TwoChar ==
  LET rows == {<<"-", ">", "->">>, <<"=", ">", "=>">>, <<"=", "=", "==">>,
               <<"!", "=", "!=">>, <<"<", "=", "<=">>, <<">", "=", ">=">>,
               <<"&", "&", "&&">>, <<"|", "|", "||">>, <<"+", "+", "++">>,
               <<"-", "-", "--">>, <<"+", "=", "+=">>, <<"-", "=", "-=">>,
               <<"*", "=", "*=">>, <<"/", "=", "/=">>, <<"%", "=", "%=">>,
               <<"<", "<", "<<">>, <<">", ">", ">>">>, <<".", ".", "..">>}
  IN  [p \in {<<r[1], r[2]>> : r \in rows} |->
         (CHOOSE r \in rows : <<r[1], r[2]>> = p)[3]]

OneChar ==
  {"{", "}", "(", ")", "[", "]", ";", ":", ",", ".", "=", "+", "-", "*", "/",
   "%", "&", "|", "^", "~", "!", "<", ">", "?", "@"}

Literals == {"INT", "FLOAT", "STRING", "CHAR"}

Kinds == Keywords \cup {TwoChar[p] : p \in DOMAIN TwoChar} \cup OneChar
         \cup Literals \cup {"IDENT", "EOF"}
=============================================================================
