----------------------------- MODULE MCCountStrings -----------------------------
(***************************************************************************)
(* Tables of strings over two letters.                                     *)
(***************************************************************************)
EXTENDS CountStrings

CONSTANTS a, b

\* Strings that overlap themselves or each other, and a table of two.
MCTables == {<<s>> : s \in {<<a>>, <<a, a>>, <<a, b>>, <<a, b, a>>}} \cup {<<<<a, b>>, <<a>>>>}
================================================================================
