-------------------------- MODULE MCSfeListLinks --------------------------
(* Three connections whose matches share hash chains; the first two are    *)
(* translated to one address, so that their reply matches share a key.     *)
EXTENDS SfeListLinks

CONSTANTS c1, c2, c3

MCConns == {c1, c2, c3}
MCKeys  == 1 .. 5

MCKeyOf == [m \in MCConns \X {"original", "reply"} |->
              IF m[2] = "original"
              THEN CASE m[1] = c1 -> 1 [] m[1] = c2 -> 2 [] OTHER -> 3
              ELSE IF m[1] = c3 THEN 4 ELSE 5]

\* The shared key shares its bucket with another one.
MCBucketOf == [k \in MCKeys |-> CASE k \in {2, 5} -> 2 [] k = 4 -> 3 [] OTHER -> 1]

MCConnBucketOf == [c \in MCConns |-> 1]
=============================================================================
