---------------------------- MODULE MCBlockPages ----------------------------
\* Instances of BlockPages for TLC: a block whose transactions spend a
\* coinbase and one another, and a block of nothing but its coinbase.
EXTENDS BlockPages, TLC

CONSTANTS c1, c2, b1, b2, k1, k2, t1, t2, t3

Chain == (b1 :> <<k1, t1, t2, t3>>) @@ (b2 :> <<k2>>)
Spends == (k1 :> <<>>) @@ (k2 :> <<>>) @@ (t1 :> <<k2>>) @@ (t2 :> <<t1>>) @@ (t3 :> <<t2>>)

FirstPages == {<<b1, 0>>, <<b2, 0>>}
AllPages == {<<b1, 0>>, <<b1, 2>>, <<b2, 0>>}
=============================================================================
