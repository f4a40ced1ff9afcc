------------------------------ MODULE MC_Inventory ------------------------------
(***************************************************************************)
(* Three requests in any order, about one item and a few about another one, *)
(* and one restart; the database is new, or has the catalog.                *)
(***************************************************************************)
EXTENDS Inventory, TLC

CONSTANTS w1, w2, p1, s1, k1

Get ==
  [op |-> "get_stock", role |-> "READ", item |-> <<w1, p1>>, named |-> TRUE, sku |-> s1, amount |-> 0,
   threshold |-> NoThreshold, alert |-> 1, key |-> None, storable |-> TRUE]

Ask(op)   == [Get EXCEPT !.op = op, !.role = "WRITE"]
Add(n)    == [Ask("add_stock") EXCEPT !.amount = n]
Adjust(n) == [Ask("adjust_stock") EXCEPT !.amount = n]
Keyed(n)  == [Adjust(n) EXCEPT !.key = k1]

MC_Requests ==
  {Ask("create_warehouse"), Ask("create_product"), [Ask("create_product") EXCEPT !.named = FALSE],
   Add(2), [Add(1) EXCEPT !.threshold = 2], Add(4), Add(0), [Add(1) EXCEPT !.item = <<w2, p1>>], [Add(1) EXCEPT !.role = "READ"],
   Adjust(-1), Adjust(1), Keyed(-1), Keyed(1), Adjust(0), Adjust(5), [Adjust(1) EXCEPT !.storable = FALSE],
   [Keyed(1) EXCEPT !.storable = FALSE],
   [Add(2) EXCEPT !.item = <<w2, p1>>, !.storable = FALSE],
   [Ask("set_threshold") EXCEPT !.threshold = 2], [Ask("set_threshold") EXCEPT !.threshold = -2],
   [Ask("set_default_threshold") EXCEPT !.amount = 1],
   Ask("resolve_alert"), Get, [Get EXCEPT !.op = "get_history", !.role = "ADMIN"]}

MC_Catalogs ==
  {[warehouses |-> {}, skus |-> Empty], [warehouses |-> {w1, w2}, skus |-> [p \in {p1} |-> s1]]}

AnyOrder == Permutations(Thread)
=============================================================================
