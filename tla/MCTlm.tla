------------------------------- MODULE MCTlm -------------------------------
\* Callers, the slave and the scoreboard as model values; the first caller calls
\* twice.
EXTENDS TlmProperties

CONSTANTS c1, c2, c3

McMaxCalls == [c \in Callers |-> IF c = c1 THEN 2 ELSE 1]
=============================================================================
