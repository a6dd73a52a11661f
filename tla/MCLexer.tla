------------------------------ MODULE MCLexer ------------------------------
(* Every source of a few characters from alphabets in which tokens run into   *)
(* each other: numbers, comments, strings and escapes, operators, words,      *)
(* characters of several bytes.                                               *)
EXTENDS Lexer

Over(alphabet, length) == BoundedSeq(alphabet, length)

MCSources ==
  Over({"1", ".", "e", "+"}, 6)
    \union Over({"/", "*", "=", "\n", "a"}, 5)
    \union Over({"\"", "\\", "\n", "'"}, 6)
    \union Over({"=", "!", ">", "&", "|", "?"}, 4)
    \union Over({"i", "f", "1", " "}, 5)
    \union Over({"é", "\"", "\n", "/", "\r"}, 5)
    \union Over({"(", "#", "2", " "}, 3)
=============================================================================
