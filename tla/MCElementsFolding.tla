-------------------------- MODULE MCElementsFolding --------------------------
EXTENDS ElementsFolding

\* A matrix, a matrix with an axis of size one between its axes, a row, an
\* empty matrix and a scalar.
MCShapes == {<<2, 3>>, <<2, 1, 2>>, <<3>>, <<2, 0>>, << >>}
=============================================================================
