------------------------------ MODULE Versions ------------------------------
(***************************************************************************)
(* The comparison of version numbers in ota_check.c: parse_ver, cmp_ver    *)
(* and the buffer of VER_STR_MAX bytes the announced version is copied to. *)
(* A version is the text that stands in the manifest or in version.h: a    *)
(* sequence of digits, dots and other characters (letters, hyphens; no     *)
(* blanks and signs, which sscanf would take as part of a number).  Its    *)
(* numbers fit an int.                                                     *)
(***************************************************************************)
EXTENDS Integers, Sequences, FiniteSets

CONSTANT VER_STR_MAX

Digits == 0..9
Dot    == 10
Letter == 11
Texts  == Seq(Digits \cup {Dot, Letter})

ASSUME VersionsAssumption == VER_STR_MAX \in Nat \ {0}

NoVersion == <<>>   \* sscanf has not found three numbers

\* snprintf into a buffer of VER_STR_MAX bytes.
Copied(s) == IF Len(s) < VER_STR_MAX THEN s ELSE SubSeq(s, 1, VER_STR_MAX - 1)

\* Where the digits that begin at position i end.
RunEnd(s, i) ==
    CHOOSE j \in (i - 1)..Len(s) :
        /\ \A k \in i..j : s[k] \in Digits
        /\ j < Len(s) => s[j + 1] \notin Digits

\* "%d" applied to the digits from i to j.
Number(s, i, j) ==
    LET val[k \in (i - 1)..j] == IF k < i THEN 0 ELSE 10 * val[k - 1] + s[k]
    IN  val[j]

\* Mutant: two numbers are enough; the third one is what the stack held.
parse_ver_TwoAreEnough(s) ==
    LET e1 == RunEnd(s, 1)
        e2 == RunEnd(s, e1 + 2)
        e3 == RunEnd(s, e2 + 2)
    IN  IF /\ e1 >= 1 /\ e1 < Len(s) /\ s[e1 + 1] = Dot
           /\ e2 >= e1 + 2
        THEN <<Number(s, 1, e1), Number(s, e1 + 2, e2),
               IF e2 + 2 <= Len(s) THEN Number(s, e2 + 2, e3) ELSE 0>>
        ELSE NoVersion

\* sscanf(s, "%d.%d.%d") == 3: whatever follows the third number is ignored.
parse_ver(s) ==
    LET e1 == RunEnd(s, 1)
        e2 == RunEnd(s, e1 + 2)
        e3 == RunEnd(s, e2 + 2)
    IN  IF /\ e1 >= 1 /\ e1 < Len(s) /\ s[e1 + 1] = Dot
           /\ e2 >= e1 + 2 /\ e2 < Len(s) /\ s[e2 + 1] = Dot
           /\ e2 + 2 <= Len(s) /\ e3 >= e2 + 2
        THEN <<Number(s, 1, e1), Number(s, e1 + 2, e2), Number(s, e2 + 2, e3)>>
        ELSE NoVersion

\* cmp_ver(a, b) > 0: a is the later version; never so when one of the two
\* cannot be parsed.
Later(s, t) ==
    LET a == parse_ver(s)
        b == parse_ver(t)
    IN  /\ a # NoVersion /\ b # NoVersion
        /\ \/ a[1] > b[1]
           \/ a[1] = b[1] /\ a[2] > b[2]
           \/ a[1] = b[1] /\ a[2] = b[2] /\ a[3] > b[3]

\* The announced version s is compared as far as the buffer holds it with that
\* of the running firmware, t.
Offered(s, t) == Later(Copied(s), t)
-----------------------------------------------------------------------------
(***************************************************************************)
(* What "later" means, without numbers: a text is split at its dots, and   *)
(* of two runs of digits the longer one is larger, or the one with the     *)
(* larger digit at the first difference, leading zeros aside.              *)
(***************************************************************************)
Dots(s)     == {i \in 1..Len(s) : s[i] = Dot}
DotNo(s, n) == CHOOSE i \in Dots(s) : Cardinality({j \in Dots(s) : j <= i}) = n

Field(s, n) ==
    SubSeq(s, IF n = 1 THEN 1 ELSE DotNo(s, n - 1) + 1,
              IF n <= Cardinality(Dots(s)) THEN DotNo(s, n) - 1 ELSE Len(s))

\* The digits a field begins with, and those that count.
Leading(f)     == {i \in 1..Len(f) : \A k \in 1..i : f[k] \in Digits}
Significant(f) == {i \in Leading(f) : \E k \in 1..i : f[k] # 0}

IsNumber(f)  == f # <<>> /\ Leading(f) = 1..Len(f)
IsVersion(s) ==
    Cardinality(Dots(s)) >= 2 /\ IsNumber(Field(s, 1)) /\ IsNumber(Field(s, 2)) /\ Leading(Field(s, 3)) # {}

Larger(f, g) ==
    LET F == Significant(f)
        G == Significant(g)
        a(k) == f[CHOOSE i \in F : Cardinality({j \in F : j <= i}) = k]
        b(k) == g[CHOOSE i \in G : Cardinality({j \in G : j <= i}) = k]
    IN  \/ Cardinality(F) > Cardinality(G)
        \/ /\ Cardinality(F) = Cardinality(G)
           /\ \E k \in 1..Cardinality(F) : a(k) > b(k) /\ \A j \in 1..(k - 1) : a(j) = b(j)

IsLater(s, t) ==
    /\ IsVersion(s) /\ IsVersion(t)
    /\ \E n \in 1..3 : /\ Larger(Field(s, n), Field(t, n))
                       /\ \A m \in 1..(n - 1) : ~Larger(Field(t, m), Field(s, m))
=============================================================================
