--------------------------- MODULE MCProxyChain ----------------------------
(* ProxyChain on small instances: no datagram comes back but by the chain. *)
EXTENDS ProxyChain

AnyDatagram == UNION {[1..n -> ChainUnits] : n \in 0..BufSize}
=============================================================================
