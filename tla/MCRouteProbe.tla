---------------------------- MODULE MCRouteProbe ----------------------------
(* RouteProbe for TLC: the configurations name the routers and ping ids. *)
EXTENDS RouteProbe
=============================================================================
