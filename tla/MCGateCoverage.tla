--------------------------- MODULE MCGateCoverage ---------------------------
(* GateCoverage on a small file, with a few windows and edit shapes.        *)
EXTENDS GateCoverage, TLC

R(from, to, new, nl, fuzzy) ==
    [from |-> from, to |-> to, new |-> new, nl |-> nl, fuzzy |-> fuzzy]

W(start, end) == [start |-> start, end |-> end]

\* a window in the middle, past the end of a file of one line, and the whole file
SmallWindows == {W(2, 2), WholeFile}

DisjointWindows == {W(1, 1), W(2, 2)}

\* two lines into one; a deletion by newline-terminated anchor before a fuzzy
\* anchor that grows
SmallEdits == {
    {R(1, 2, 1, FALSE, FALSE)},
    {R(1, 1, 0, TRUE, FALSE), R(2, 2, 3, FALSE, TRUE)} }

PlainEdits == { {R(1, 1, 2, FALSE, FALSE)} }

CallSymmetry == Permutations(Calls)
=============================================================================
