---------------------------- MODULE MimeHistory ----------------------------
(***************************************************************************)
(* The places files of one mime type were pasted to (addToClipMimeHistory  *)
(* and getMimeHistory in src/Ferris/ClipAPI.cpp): one url on a line, kept  *)
(* in an extended attribute whose stream is written in place and saved as  *)
(* a whole when it is closed (src/Ferris/Attribute.cpp).  Urls are here    *)
(* sequences of characters, since their lengths matter.                    *)
(***************************************************************************)
EXTENDS Integers, FiniteSets, Sequences, SequencesExt

CONSTANTS
    NewLine,          \* the character that ends a line
    MimeHistorySize   \* lines that are kept

ASSUME MimeHistoryAssumption == MimeHistorySize \in Nat \ {0}

Smaller(a, b) == IF a < b THEN a ELSE b

\* The element of a set of numbers that has k - 1 smaller ones.
Nth(S, k) == CHOOSE i \in S : Cardinality({j \in S : j <= i}) = k

\* What getline() makes of the text: a line is between two breaks; the last one
\* need not end in a new line.
Breaks(t) ==
    {0} \cup {i \in DOMAIN t : t[i] = NewLine}
        \cup IF t = <<>> \/ t[Len(t)] = NewLine THEN {} ELSE {Len(t) + 1}
LineCount(t) == Cardinality(Breaks(t)) - 1
Line(t, k) == SubSeq(t, Nth(Breaks(t), k) + 1, Nth(Breaks(t), k + 1) - 1)
Lines(t) == [k \in 1 .. LineCount(t) |-> Line(t, k)]

\* The stream is written from its start; what it held beyond that stays.
Overwrite(t, s) == s \o SubSeq(t, Len(s) + 1, Len(t))

\* addToClipMimeHistory(): the place p goes before the lines of text t, of
\* which the first are written again, each with a new line at its end.
KeptCount(t) == Smaller(MimeHistorySize, LineCount(t))
KeptLines(t) == SubSeq(t \o <<NewLine>>, 1, Nth(Breaks(t), KeptCount(t) + 1))
Written_Mutant(p, lines) == lines \o p \o <<NewLine>>  \* mutant: the new place goes to the end
Written(p, lines) == p \o <<NewLine>> \o lines
AddToClipMimeHistory(t, p) == Overwrite(t, Written(p, KeptLines(t)))

\* getMimeHistory(): every line, once.
Once(s) ==
    LET firsts == {i \in DOMAIN s : \A j \in 1 .. i - 1 : s[j] # s[i]}
    IN [k \in 1 .. Cardinality(firsts) |-> s[Nth(firsts, k)]]
GetMimeHistory(t) == Once(Lines(t))
=============================================================================
