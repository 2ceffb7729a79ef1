--------------------------- MODULE MCZenzFeedback ---------------------------
\* Two conversions of the reading that may be recorded, so that Mozc's and
\* Zenz's may agree or not, and one that is private.
EXTENDS ZenzFeedback, TLC

CONSTANTS a, b, c

\* Values are only compared with each other.
Symmetry == Permutations(Values \ Private)
=============================================================================
