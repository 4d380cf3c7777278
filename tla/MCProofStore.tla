---------------------------- MODULE MCProofStore ----------------------------
(***************************************************************************)
(* Small instances of ProofStore for TLC.                                  *)
(***************************************************************************)
EXTENDS ProofStore, TLC

CONSTANTS o1, o2, o3, c1, c2

\* Any upload can be read as anything for any order.
AnyReading(o, c) == Reading

Keys == CHOOSE k \in [{1, 2} -> Key] : k[1] # k[2]

\* The demo in small on c1: order_demo_1001 verifies, order_demo_1003 is shown
\* the same picture and its transaction is allocated.  c2 is a picture two
\* orders may both verify with, or one of them only with a doubt; the other
\* asks about it twice.
DemoRequests ==
    {q \in Request : <<q.order, q.content, q.key>> \in
       {<<o1, c1, Keys[1]>>, <<o2, c1, Keys[2]>>,
        <<o1, c2, Keys[1]>>, <<o1, c2, Keys[2]>>, <<o3, c2, Keys[2]>>}}

DemoReading(o, c) ==
    CASE c = c1 /\ o = o1 -> {"VERIFIED"}
      [] c = c1 /\ o = o2 -> {"ALLOCATED"}
      [] c = c2 /\ o = o1 -> {"VERIFIED"}
      [] OTHER -> {"VERIFIED", "NEEDS_REVIEW"}

\* Each order's check is asked for once, under a key of its own.
OnePerOrder ==
    {q \in Request : <<q.order, q.key>> \in {<<o1, Keys[1]>>, <<o2, Keys[2]>>}}

=============================================================================
