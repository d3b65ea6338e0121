----------------------------- MODULE MCBarrier -----------------------------
\* Four processes as model values.
EXTENDS BarrierProperties

CONSTANTS p1, p2, p3, p4
=============================================================================
