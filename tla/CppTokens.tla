------------------------------ MODULE CppTokens ------------------------------
(***************************************************************************)
(* Pieces of C++ that FileMaker puts together: sequences of tokens.        *)
(***************************************************************************)
EXTENDS Sequences

\* kind: "op" for operators, parentheses and the names of functions; "name" for variables;
\* "number", "bool" and "cstring" for literals.
Token(kind, text) == <<[kind |-> kind, text |-> text]>>

Op(text) == Token("op", text)

Parenthesised(code) == Op("(") \o code \o Op(")")

Call(function, code) == Op(function) \o Parenthesised(code)
=============================================================================
