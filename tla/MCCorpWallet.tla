----------------------------- MODULE MCCorpWallet -----------------------------
EXTENDS CorpWallet, TLC

CONSTANTS k1, k2, a1, a2, b1, x1, s1

MCAmbassadorsOf == (k1 :> {a1, a2}) @@ (k2 :> {b1})
(* A contract's price in the wallets of both sides. *)
MCEntries == {[corp |-> k1, div |-> 2, ctx |-> x1, kind |-> "price"],
              [corp |-> k2, div |-> 1, ctx |-> x1, kind |-> "price"]}
MCPayer == (s1 :> [corp |-> k1, div |-> 2])
=============================================================================
