-------------------------- MODULE MCStreamChannel ---------------------------
(* Enough to fill the ring and be refused, or to read while more arrives.  *)
EXTENDS StreamChannel

SomeLoads == {<<3, 0>>, <<1, 2>>, <<0, 3>>}
MoreReads == {<<1, 4>>}
=============================================================================
