------------------------------ MODULE MCSearch ------------------------------
(***************************************************************************)
(* Song 1 has any rows of two deltas, song 2 a prefix of the snippet.      *)
(***************************************************************************)
EXTENDS Search

Row(h, s, d) == [hash |-> h, song |-> s, delta |-> d]

MCCatalogs ==
    { {Row(h, 1, f[h]) : h \in {i \in DOMAIN f : f[i] < 2}} \cup {Row(h, 2, 0) : h \in 0 .. n - 1} :
        f \in [0 .. MaxHashes - 1 -> 0 .. 2], n \in 0 .. MaxHashes }
=============================================================================
