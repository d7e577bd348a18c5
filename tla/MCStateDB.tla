----------------------------- MODULE MCStateDB -----------------------------
(* Constants for checking StateDB: an origin, two contracts that call each *)
(* other, one with a slot that is set, and an address for a deployment of   *)
(* the origin and for one of contract a; the latter may have been sent a    *)
(* coin before.                                                             *)
EXTENDS StateDB

CONSTANTS o, p, a, b, childO, childA

MCChildren == [c \in {<<o, 0>>, <<a, 1>>} |-> IF c[1] = o THEN childO ELSE childA]

MCAccount(nonce, code) == [nonce |-> nonce, code |-> code]

MCStore(sent) ==
    [acct |-> [x \in Addrs |->
        CASE x = o -> MCAccount(1, FALSE)
          [] x \in {a, b} -> MCAccount(1, TRUE)
          [] x = childA /\ sent -> MCAccount(0, FALSE)
          [] OTHER -> NoAccount],
     bal |-> [x \in Addrs |->
        IF x \in {o, a} \/ (x = childA /\ sent) THEN 1 ELSE 0],
     slot |-> [x \in Addrs |-> [k \in Keys |-> IF x = a THEN 1 ELSE 0]],
     pool |-> 0, rewards |-> 1, unmirrored |-> 0]

MCGenesis == {MCStore(FALSE), MCStore(TRUE)}
=============================================================================
