------------------------------ MODULE MCListen ------------------------------
(* Listen for TLC: two devices, one of which has a tunnel for the endpoint. *)
EXTENDS Listen, TLC

CONSTANTS s1, s2, d1, d2, t1, t2

Places == s1 :> d1 @@ s2 :> d2
First  == t1 :> d1
=============================================================================
