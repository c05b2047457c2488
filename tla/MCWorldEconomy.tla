--------------------------- MODULE MCWorldEconomy ---------------------------
EXTENDS WorldEconomy, TLC
\* Characters are interchangeable, and so are tokens.
Interchangeable == Permutations(Char) \union Permutations(Token)
=============================================================================
