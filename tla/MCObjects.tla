----------------------------- MODULE MCObjects ------------------------------
(* Fields that share a chain of the smallest table and part when it grows. *)
EXTENDS Objects

MCHash == [f \in {"a", "b", "c", "d"} |->
             CASE f = "a" -> 1 [] f = "b" -> 3 [] f = "c" -> 5 [] f = "d" -> 2]
=============================================================================
