--------------------------- MODULE MCLoadBalancer ---------------------------
(***************************************************************************)
(* Instances of LoadBalancer for TLC: configuration files of two and of    *)
(* three servers, in the form of config/server_properties.txt.             *)
(***************************************************************************)
EXTENDS LoadBalancer

TwoServers   == <<<<"127.0.0.1", "127.0.0.1">>, <<8080, 8081>>>>
ThreeServers == <<<<"127.0.0.1", "127.0.0.1", "127.0.0.1">>, <<8080, 8081, 8082>>>>
=============================================================================
