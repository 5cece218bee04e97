------------------------------- MODULE MCOta -------------------------------
(* Small instances of module Ota for TLC.                                  *)
EXTENDS Ota

Image(id, own, chip, digest, ver) ==
    [id |-> id, magic |-> TRUE, own |-> own, chip |-> chip, digest |-> digest, ver |-> ver]

\* Versions, written with their dots.
V020 == <<0, Dot, 2, Dot, 0>>
V021 == <<0, Dot, 2, Dot, 1>>

Shipped == Image(0, TRUE, TRUE, TRUE, V020)

\* A release, another project's image, and one for another chip.
Offers == {Image(1, TRUE, TRUE, TRUE, V021),
           Image(2, FALSE, TRUE, TRUE, V021),
           Image(3, TRUE, FALSE, TRUE, V021)}

\* Every text of up to five digits 0 and 2, dots and letters that begins with a
\* digit, and longer ones: numbers of two digits, a fourth part, a suffix, and
\* texts the buffer of eight bytes cuts in the third number or before it.
Short == UNION {[1..n -> {0, 2, Dot, Letter}] : n \in 1..5}
Announced ==
    {s \in Short : s[1] \in Digits}
    \cup {<<0, Dot, 1, 0, Dot, 0>>, <<0, Dot, 0, 2, Dot, 1>>, <<0, Dot, 1, Dot, 9, 9>>,
          <<0, Dot, 2, Dot, 0, Dot, 9>>, <<0, Dot, 2, Dot, 1, Letter>>,
          <<0, Dot, 2, Dot, 0, 0, 1, 2>>, <<0, Dot, 2, Dot, 0, 0, 0, 1>>,
          <<0, Dot, 0, 0, 0, 0, 2, Dot, 1>>, <<0, Dot, 3, 0, 0, 0, 0, 0, Dot, 0>>}
=============================================================================
