--------------------------- MODULE MCServerProxy ---------------------------
(* ServerProxy on small instances: the answers that may come back. *)
EXTENDS ServerProxy

CONSTANTS c1, c2, k1, k2

OneReply == {<<<<c1, 1>>>>}
TwoReplies == {<<<<c1, 1>>, <<c1, 2>>>>, <<>>}
NoReplies == {}
=============================================================================
