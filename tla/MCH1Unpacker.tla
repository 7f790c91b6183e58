---------------------------- MODULE MCH1Unpacker ----------------------------
EXTENDS Integers, Sequences
VARIABLES bytes, pos, end, state, from, line_len, want, cur, refused, phase, packets, cut, dropped
B(r, k) == [req |-> r, kind |-> k]
Line(r, k) == <<B(r, k), B(r, k), B(r, "CR"), B(r, "LF")>>
EmptyLine(r) == <<B(r, "CR"), B(r, "LF")>>
Get(r) == Line(r, "first") \o EmptyLine(r)
Post(r) == Line(r, "first") \o Line(r, "length") \o EmptyLine(r) \o [i \in 1..3 |-> B(r, "body")]
MCInputs == {f \o g \o h : f \in {Get(1), Post(1)}, g \in {Get(2), Post(2)}, h \in {<<>>, Get(3)}}
INSTANCE H1Unpacker WITH Inputs <- MCInputs, MaxDataLen <- 2, MaxLineLen <- 4
=============================================================================
