-------------------------- MODULE MCProxyFailover --------------------------
(* An instance of ProxyFailover for TLC.                                   *)
EXTENDS ProxyFailover

ThreeProxies == {1, 2, 3}
============================================================================
