-------------------------- MODULE MCPackumentFetch --------------------------
(* An instance of PackumentFetch for TLC: two calls and a prefetch task    *)
(* want k1, a call and a prefetch task k2, and k3 is not prefetchable.     *)
EXTENDS PackumentFetch, TLC

CONSTANTS c1, c2, c3, k1, k2, k3

MCKeyOf == c1 :> k1 @@ c2 :> k1 @@ c3 :> k2
MCFrontier == c1 :> {k1, k2} @@ c2 :> {k2, k3} @@ c3 :> {k1}

=============================================================================
