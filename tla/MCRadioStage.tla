---------------------------- MODULE MCRadioStage ----------------------------
(* Small instances of module RadioStage for TLC.                           *)
EXTENDS RadioStage

Image(id, chip, magic, desc, len) ==
    [id |-> id, chip |-> chip, magic |-> magic, desc |-> desc, len |-> len]

\* The shipped image is the longest one that fits.
Shipped == Image(0, 1, TRUE, TRUE, 6)

\* A shorter update, and uploads that must be refused: not an ESP image, no
\* descriptor, too short, too long.
Updates  == {Image(1, 1, TRUE, TRUE, 5), Shipped}
Refused  == {Image(2, 1, FALSE, TRUE, 5), Image(3, 1, TRUE, FALSE, 6),
             Image(4, 1, TRUE, TRUE, 3), Image(5, 1, TRUE, TRUE, 7)}
Uploads  == Updates \cup Refused

\* An image for another chip.
Foreign  == {Image(6, 2, TRUE, TRUE, 5)}
=============================================================================
