--------------------------- MODULE MCStreamRelay ----------------------------
(* Small instances of StreamRelay: every answer of at most MaxLines lines, *)
(* whole or cut off, with at most one line of junk.                        *)
EXTENDS StreamRelay

CONSTANT MaxLines

Numbered(n) == [i \in 1..n |-> i]

Bodies ==
    UNION {{Numbered(n)} \cup
           {InsertAt(Numbered(n), i, Junk) : i \in 1..(n + 1)} :
           n \in 0..MaxLines}

AllAnswers == Bodies \cup {Append(b, Done) : b \in Bodies}

=============================================================================
