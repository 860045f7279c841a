------------------------------ MODULE MCLedger ------------------------------
(* A small instance of Ledger for TLC: two purchases of one wallet, one of   *)
(* another, each with an earlier discovery, a new one, the same or none.     *)
EXTENDS Ledger, TLC

CONSTANTS h1, h2, h3, w1, w2, c1, c2, d1, d2, r1

MCPurchase == h1 :> [wallet |-> w1, company |-> c1, amount |-> 1]
           @@ h2 :> [wallet |-> w1, company |-> c1, amount |-> 2]
           @@ h3 :> [wallet |-> w2, company |-> c1, amount |-> 1]

MCDiscovery == Earlier \cup Request

Recording(hash, discovery) == [op |-> "record", hash |-> hash, discovery |-> discovery]

MCAsked ==
  {Recording(h1, d1), Recording(h1, None), Recording(h2, d2), Recording(h2, r1),
   Recording(h3, d1)}
  \cup [op : {"create"}, company : {c1, Unlisted, None}]
  \cup [op : {"submit"}, wallet : {w1}, company : {c2}]
  \cup [op : {"world"}, wallet : {w1}]
  \cup [op : {"history"}, wallet : {w1}, limit : Limit]

=============================================================================
