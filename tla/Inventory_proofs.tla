---------------------------- MODULE Inventory_proofs ----------------------------
(***************************************************************************)
(* The inventory service for any number of requests, threads, items and     *)
(* restarts: its history explains its stock, its alerts follow it, what it  *)
(* acknowledged is on disk, and a retry moves no stock again.               *)
(***************************************************************************)
EXTENDS Inventory, SequenceTheorems, FiniteSetTheorems, TLAPS

Entries == [item : Item, delta : Int, quantity : 0 .. MaxInt, key : Key \cup {None}]
Alerts  == [item : Item, active : BOOLEAN]

(* The properties of a copy of the tables: those in use, and the committed. *)
HistoryOK(tb, out) == \A item \in Item \ out : Explains(tb.history, tb.items, item)

ActiveIn(a, item) == {i \in DOMAIN a : a[i].item = item /\ a[i].active}
IsLow(row, def)   == LET threshold == IF row.threshold # NoThreshold THEN row.threshold ELSE def
                     IN threshold # NoThreshold /\ row.quantity < threshold
AlertsOK(tb, out) ==
  /\ \A item \in Item : \A i, j \in ActiveIn(tb.alerts, item) : i = j
  /\ \A item \in DOMAIN tb.items \ out :
       ActiveIn(tb.alerts, item) # {} <=> IsLow(tb.items[item], tb.default)

(* The tables in use are never older than the committed ones.              *)
Newer(it, old) ==
  \A item \in DOMAIN old : item \in DOMAIN it /\ it[item].version >= old[item].version

Good(tb) == TablesOK(tb) /\ HistoryOK(tb, torn) /\ AlertsOK(tb, torn \cup touched)

TablesInv ==
  /\ Good(Tables) /\ Good(disk)
  /\ Newer(items, disk.items) /\ keys = disk.keys
  /\ torn \subseteq Item /\ touched \subseteq Item

(* What a thread or a stored response tells of an item is on disk.         *)
Held(item, version) == item \in DOMAIN disk.items /\ disk.items[item].version >= version
KeysHeld == \A k \in DOMAIN keys : Held(keys[k].request.item, keys[k].response.version)

ThreadTypes ==
  /\ published \subseteq Nat /\ crashes \in Nat /\ raced \subseteq Key
  /\ req \in [Thread -> Requests]
  /\ pc \in [Thread -> {"idle", "lookup", "serve", "store", "answered", "lost"}]
  /\ response \in [Thread -> Response]
Silent == \A t \in Thread : pc[t] \in {"idle", "lookup", "serve"} => response[t] = NoResponse
Keyed  ==
  \A t \in Thread :
    /\ pc[t] \in {"lookup", "store"} => req[t].key # None /\ req[t].op = "adjust_stock"
    /\ pc[t] = "store" => response[t].status = 200

IInv == TablesInv /\ KeysHeld /\ ThreadTypes /\ Silent /\ Keyed /\ AnswersAreDurable

(* A written row: the others stay.                                         *)
LEMMA PutIsFunction ==
  ASSUME NEW S, NEW f, f \in [DOMAIN f -> S], NEW x, NEW y \in S
  PROVE  /\ DOMAIN Put(f, x, y) = DOMAIN f \cup {x}
         /\ Put(f, x, y) \in [DOMAIN Put(f, x, y) -> S]
         /\ Put(f, x, y)[x] = y
         /\ \A z \in DOMAIN f : z # x => Put(f, x, y)[z] = f[z]
  BY DEF Put

(* A row of the history of another item changes nothing for this one.      *)
LEMMA OthersHistory ==
  ASSUME NEW h \in Seq(Entries), NEW e \in Entries, NEW it, NEW it2, NEW item \in Item,
         e.item # item, Quantity(it2, item) = Quantity(it, item), Explains(h, it, item)
  PROVE  Explains(Append(h, e), it2, item)
<1> DEFINE g == Append(h, e)
<1>1. Rows(g, item) = Rows(h, item)
  BY AppendProperties DEF Rows
<1>2. \A i \in Rows(h, item) : g[i] = h[i]
  BY AppendProperties DEF Rows
<1> HIDE DEF g
<1>3. Explains(g, it2, item)
  BY <1>1, <1>2 DEF Explains
<1> QED
  BY <1>3 DEF g

(* The history goes on from the quantity there was.                        *)
LEMMA HistoryGoesOn ==
  ASSUME NEW h \in Seq(Entries), NEW e \in Entries, NEW it, NEW it2,
         Quantity(it, e.item) \in Int, e.quantity = Quantity(it, e.item) + e.delta,
         Quantity(it2, e.item) = e.quantity, Explains(h, it, e.item)
  PROVE  Explains(Append(h, e), it2, e.item)
<1> DEFINE item == e.item
           old  == Rows(h, item)
           n    == Len(h) + 1
           g    == Append(h, e)
<1>1. /\ g \in Seq(Entries) /\ Len(g) = n /\ g[n] = e /\ \A i \in 1 .. Len(h) : g[i] = h[i]
      /\ Len(h) \in Nat /\ DOMAIN h = 1 .. Len(h) /\ DOMAIN g = 1 .. n
  BY AppendProperties
<1>2. Rows(g, item) = old \cup {n}
  BY <1>1 DEF Rows
<1>3. \A i \in old : i \in Nat /\ i < n /\ g[i] = h[i] /\ h[i] \in Entries
  BY <1>1 DEF Rows
<1> HIDE DEF old, n, g, item
<1>4. n \in Nat
  BY <1>1
<1>5. ASSUME NEW i \in Rows(g, item), \A j \in Rows(g, item) : i <= j
      PROVE  g[i].quantity = g[i].delta
  <2>1. CASE i \in old
    BY <2>1, <1>2, <1>3, <1>5 DEF Explains, old, item
  <2>2. CASE i = n /\ i \notin old
    <3>1. old = {}
      BY <2>2, <1>2, <1>3, <1>4, <1>5
    <3>2. Quantity(it, item) = 0
      BY <3>1 DEF Explains, old, item
    <3>3. e.delta \in Int
      BY DEF Entries
    <3> QED
      BY <3>2, <3>3, <2>2, <1>1 DEF item
  <2> QED
    BY <2>1, <2>2, <1>2
<1>6. ASSUME NEW i \in Rows(g, item), \A j \in Rows(g, item) : j <= i
      PROVE  g[i].quantity = Quantity(it2, item)
  <2>1. i = n
    <3>1. n <= i
      BY <1>2, <1>6
    <3> QED
      BY <3>1, <1>2, <1>3, <1>4
  <2> QED
    BY <2>1, <1>1 DEF item
<1>7. ASSUME NEW i \in Rows(g, item), NEW j \in Rows(g, item), i < j,
             \A k \in Rows(g, item) : k <= i \/ j <= k
      PROVE  g[j].quantity = g[i].quantity + g[j].delta
  <2>1. i \in old
    BY <1>2, <1>3, <1>4, <1>7
  <2>2. CASE j \in old
    BY <2>1, <2>2, <1>2, <1>3, <1>7 DEF Explains, old, item
  <2>3. CASE j = n
    <3>1. ASSUME NEW k \in old PROVE k <= i
      <4>1. k <= i \/ n <= k
        BY <2>3, <1>2, <1>7
      <4> QED
        BY <4>1, <1>3, <1>4
    <3>2. h[i].quantity = Quantity(it, item)
      BY <3>1, <2>1 DEF Explains, old, item
    <3> QED
      BY <3>2, <2>1, <2>3, <1>1, <1>3 DEF item
  <2> QED
    BY <2>2, <2>3, <1>2
<1>8. n \in Rows(g, item)
  BY <1>2
<1>9. Explains(g, it2, item)
  BY <1>5, <1>6, <1>7, <1>8 DEF Explains
<1> QED
  BY <1>9 DEF g, item

(* _evaluate_alert leaves at most one active alert, and one exactly if the  *)
(* reading is low; the alerts of other items stay.                          *)
LEMMA EvaluateAgrees ==
  ASSUME alerts \in Seq(Alerts), NEW item \in Item, NEW quantity \in Int,
         NEW threshold \in Int, Evaluate(item, quantity, threshold),
         \A any \in Item : \A i, j \in ActiveIn(alerts, any) : i = j,
         published \subseteq Nat
  PROVE  /\ alerts' \in Seq(Alerts) /\ published' \subseteq Nat
         /\ \A any \in Item : any # item => ActiveIn(alerts', any) = ActiveIn(alerts, any)
         /\ \A i, j \in ActiveIn(alerts', item) : i = j
         /\ ActiveIn(alerts', item) # {} <=> threshold # NoThreshold /\ quantity < threshold
<1> DEFINE e == [item |-> item, active |-> TRUE]
<1>0. Active(item) = ActiveIn(alerts, item)
  BY DEF Active, ActiveIn
<1>1. CASE threshold = NoThreshold \/ quantity >= threshold
  <2>1. alerts' = Resolved(Active(item)) /\ UNCHANGED published
    BY <1>1 DEF Evaluate
  <2>2. DOMAIN alerts' = DOMAIN alerts /\ DOMAIN alerts = 1 .. Len(alerts) /\ Len(alerts) \in Nat
    BY <2>1 DEF Resolved
  <2>3. \A i \in DOMAIN alerts :
          alerts'[i] = IF i \in Active(item) THEN [alerts[i] EXCEPT !.active = FALSE] ELSE alerts[i]
    BY <2>1 DEF Resolved
  <2>4. \A i \in DOMAIN alerts : alerts'[i] \in Alerts /\ alerts'[i].item = alerts[i].item
          /\ alerts'[i].active = IF i \in Active(item) THEN FALSE ELSE alerts[i].active
    <3>1. \A a \in Alerts : /\ [a EXCEPT !.active = FALSE] \in Alerts
                            /\ [a EXCEPT !.active = FALSE].item = a.item
                            /\ [a EXCEPT !.active = FALSE].active = FALSE
      BY DEF Alerts
    <3>2. \A i \in DOMAIN alerts : alerts[i] \in Alerts
      OBVIOUS
    <3> QED
      BY <2>3, <3>1, <3>2
  <2>5. alerts' \in Seq(Alerts)
    <3>1. alerts' = [i \in 1 .. Len(alerts) |->
                      IF i \in Active(item) THEN [alerts[i] EXCEPT !.active = FALSE] ELSE alerts[i]]
      BY <2>1, <2>2 DEF Resolved
    <3>2. alerts' \in [1 .. Len(alerts) -> Alerts]
      BY <3>1, <2>2, <2>4
    <3> QED
      BY <3>2, <2>2
  <2>6. ActiveIn(alerts', item) = {}
    BY <2>2, <2>4, <1>0 DEF ActiveIn
  <2>7. ASSUME NEW any \in Item, any # item
        PROVE  ActiveIn(alerts', any) = ActiveIn(alerts, any)
    BY <2>2, <2>4, <2>7, <1>0 DEF ActiveIn
  <2> QED
    BY <2>1, <2>5, <2>6, <2>7, <1>1 DEF NoThreshold
<1>2. CASE threshold # NoThreshold /\ quantity < threshold /\ Active(item) # {}
  <2>1. alerts' = alerts /\ published' = published
    BY <1>2 DEF Evaluate
  <2> QED
    BY <2>1, <1>0, <1>2
<1>3. CASE threshold # NoThreshold /\ quantity < threshold /\ Active(item) = {}
  <2>1. alerts' = Append(alerts, e) /\ published' = published \cup {Len(alerts) + 1}
    BY <1>3 DEF Evaluate
  <2>2. e \in Alerts
    BY DEF Alerts
  <2>3. /\ alerts' \in Seq(Alerts) /\ Len(alerts') = Len(alerts) + 1
        /\ alerts'[Len(alerts) + 1] = e /\ \A i \in 1 .. Len(alerts) : alerts'[i] = alerts[i]
        /\ DOMAIN alerts = 1 .. Len(alerts) /\ DOMAIN alerts' = 1 .. Len(alerts) + 1
        /\ Len(alerts) \in Nat
    BY <2>1, <2>2, AppendProperties
  <2>4. ActiveIn(alerts', item) = {Len(alerts) + 1}
    BY <2>3, <1>0, <1>3 DEF ActiveIn
  <2>5. \A any \in Item : any # item => ActiveIn(alerts', any) = ActiveIn(alerts, any)
    BY <2>3 DEF ActiveIn
  <2>6. published' \subseteq Nat
    <3>1. Len(alerts) + 1 \in Nat
      BY <2>3
    <3> QED
      BY <3>1, <2>1
  <2>7. \A i, j \in ActiveIn(alerts', item) : i = j
    BY <2>4
  <2>8. ActiveIn(alerts', item) # {}
    BY <2>4
  <2> QED
    BY <2>3, <2>5, <2>6, <2>7, <2>8, <1>3
<1> QED
  BY <1>1, <1>2, <1>3 DEF NoThreshold

(* The parts of a copy of the tables.                                      *)
LEMMA Parts ==
  /\ Tables.warehouses = warehouses /\ Tables.skus = skus /\ Tables.items = items
  /\ Tables.default = default /\ Tables.history = history /\ Tables.alerts = alerts
  /\ Tables.keys = keys /\ Tables.moves = moves
  /\ Tables'.warehouses = warehouses' /\ Tables'.skus = skus' /\ Tables'.items = items'
  /\ Tables'.default = default' /\ Tables'.history = history' /\ Tables'.alerts = alerts'
  /\ Tables'.keys = keys' /\ Tables'.moves = moves'
  BY DEF Tables

(* A commit of good tables, in use and on disk.                            *)
LEMMA CommitStep ==
  ASSUME Commit, Good(Tables)', Newer(items', disk.items), torn' \subseteq Item, touched' \subseteq Item
  PROVE  TablesInv' /\ Newer(disk'.items, disk.items)
<1>1. disk' = Tables' /\ disk'.items = items' /\ disk'.keys = keys'
  BY Parts DEF Commit
<1>2. Good(disk)'
  BY <1>1 DEF Good, TablesOK, HistoryOK, AlertsOK
<1>3. Newer(items', items')
  <2>1. \A item \in DOMAIN items' : items'[item].version \in Nat
    BY Parts DEF Good, TablesOK, Row
  <2> QED
    BY <2>1 DEF Newer
<1> QED
  BY <1>1, <1>2, <1>3 DEF TablesInv

(* A movement of stock: committed with its history and its alert, or half   *)
(* written and remembered as torn.                                          *)
LEMMA MoveStep ==
  ASSUME TablesInv, published \subseteq Nat, NEW t \in Thread, req[t] \in Request, NEW row \in Row,
         row.quantity = Quantity(items, req[t].item) + req[t].amount,
         req[t].item \in DOMAIN items => row.version >= items[req[t].item].version,
         Move(t, row)
  PROVE  /\ TablesInv' /\ published' \subseteq Nat
         /\ Newer(disk'.items, disk.items) /\ keys' = keys
         /\ req[t].storable => /\ req[t].item \in DOMAIN disk'.items
                               /\ disk'.items[req[t].item] = row
<1> DEFINE item == req[t].item
           e    == Entry(t, row.quantity)
<1>1. items' = Put(items, item, row) /\ UNCHANGED <<warehouses, skus, default, keys, raced>>
  BY DEF Move, catalog
<1>2. item \in Item /\ req[t].amount \in Int /\ req[t].key \in Key \cup {None}
  BY DEF Request
<1>0. moves' \in [Key -> Nat]
  <2>1. moves \in [Key -> Nat]
    BY Parts DEF TablesInv, Good, TablesOK
  <2> QED
    BY <2>1 DEF Move
<1>3. /\ TablesOK(Tables) /\ TablesOK(disk) /\ HistoryOK(Tables, torn) /\ HistoryOK(disk, torn)
      /\ AlertsOK(Tables, torn \cup touched) /\ AlertsOK(disk, torn \cup touched)
      /\ Newer(items, disk.items) /\ keys = disk.keys /\ torn \subseteq Item /\ touched \subseteq Item
  BY DEF TablesInv, Good
<1>4. /\ items \in [DOMAIN items -> Row] /\ DOMAIN items \subseteq Item
      /\ history \in Seq(Entries) /\ alerts \in Seq(Alerts) /\ default \in Int
  BY <1>3, Parts DEF TablesOK, Entries, Alerts, NoThreshold
<1>5. /\ DOMAIN items' = DOMAIN items \cup {item} /\ items' \in [DOMAIN items' -> Row]
      /\ items'[item] = row /\ \A z \in DOMAIN items : z # item => items'[z] = items[z]
  <2> DEFINE p == Put(items, item, row)
  <2>1. /\ DOMAIN p = DOMAIN items \cup {item} /\ p \in [DOMAIN p -> Row]
        /\ p[item] = row /\ \A z \in DOMAIN items : z # item => p[z] = items[z]
    <3>1. items \in [DOMAIN items -> Row]
      BY <1>4
    <3> HIDE DEF item
    <3> QED
      BY <3>1 DEF Put
  <2>2. items' = p
    BY <1>1
  <2> HIDE DEF p
  <2> QED
    BY <2>1, <2>2
<1>6. Newer(items', disk.items)
  <2>1. ASSUME NEW z \in DOMAIN disk.items
        PROVE  z \in DOMAIN items' /\ items'[z].version >= disk.items[z].version
    <3>1. z \in DOMAIN items /\ items[z].version >= disk.items[z].version
      BY <1>3 DEF Newer
    <3>2. disk.items[z].version \in Nat /\ items[z].version \in Nat /\ row.version \in Nat
      BY <3>1, <1>3, <1>4 DEF TablesOK, Row
    <3>3. CASE z = item
      BY <3>1, <3>2, <3>3, <1>5
    <3>4. CASE z # item
      BY <3>1, <3>4, <1>5
    <3> QED
      BY <3>3, <3>4
  <2> QED
    BY <2>1 DEF Newer
<1>7. CASE req[t].storable
  <2>1. /\ history' = Append(history, e) /\ Evaluate(item, row.quantity, Effective(row.threshold))
        /\ touched' = touched \ {item} /\ Commit /\ torn' = torn
    BY <1>7 DEF Move
  <2>2. e \in Entries /\ e.item = item /\ e.quantity = row.quantity /\ e.delta = req[t].amount
    BY <1>2 DEF Entry, Entries, Row
  <2>3. history' \in Seq(Entries)
    BY <2>1, <2>2, <1>4, AppendProperties
  <2>4. Effective(row.threshold) \in Int /\ row.quantity \in Int
    BY <1>4 DEF Effective, Row, NoThreshold
  <2>5. \A any \in Item : \A i, j \in ActiveIn(alerts, any) : i = j
    BY <1>3, Parts DEF AlertsOK
  <2>6. /\ alerts' \in Seq(Alerts) /\ published' \subseteq Nat
        /\ \A any \in Item : any # item => ActiveIn(alerts', any) = ActiveIn(alerts, any)
        /\ \A i, j \in ActiveIn(alerts', item) : i = j
        /\ ActiveIn(alerts', item) # {} <=>
             Effective(row.threshold) # NoThreshold /\ row.quantity < Effective(row.threshold)
    BY <2>1, <2>4, <2>5, <1>2, <1>4, EvaluateAgrees
  <2>7. TablesOK(Tables)'
    <3>1. TablesOK(Tables')
      BY <1>0, <1>1, <1>2, <1>3, <1>4, <1>5, <2>3, <2>6, Parts DEF TablesOK, Entries, Alerts
    <3> QED
      BY <3>1 DEF TablesOK
  <2>8. HistoryOK(Tables, torn)'
    <3>1. ASSUME NEW any \in Item \ torn PROVE Explains(history', items', any)
      <4>1. Explains(history, items, any)
        BY <1>3, Parts DEF HistoryOK
      <4>2. CASE any = item
        <5>1. Quantity(items, item) \in Int /\ Quantity(items', item) = row.quantity
          BY <1>4, <1>5 DEF Quantity, Row
        <5> QED
          BY <4>1, <4>2, <5>1, <2>1, <2>2, <1>4, HistoryGoesOn
      <4>3. CASE any # item
        <5>1. Quantity(items', any) = Quantity(items, any)
          BY <4>3, <1>5 DEF Quantity
        <5> QED
          BY <4>1, <4>3, <5>1, <2>1, <2>2, <1>4, OthersHistory
      <4> QED
        BY <4>2, <4>3
    <3> QED
      BY <3>1, <2>1, Parts DEF HistoryOK
  <2>9. AlertsOK(Tables, torn \cup touched)'
    <3>1. \A any \in Item : \A i, j \in ActiveIn(alerts', any) : i = j
      BY <2>5, <2>6
    <3>2. ASSUME NEW any \in DOMAIN items' \ (torn' \cup touched')
          PROVE  ActiveIn(alerts', any) # {} <=> IsLow(items'[any], default')
      <4>1. CASE any = item
        BY <4>1, <2>6, <1>1, <1>5 DEF IsLow, Effective
      <4>2. CASE any # item
        <5>1. any \in DOMAIN items \ (torn \cup touched) /\ any \in Item
          BY <4>2, <2>1, <1>4, <1>5
        <5>2. ActiveIn(alerts, any) # {} <=> IsLow(items[any], default)
          BY <5>1, <1>3, Parts DEF AlertsOK
        <5> QED
          BY <4>2, <5>1, <5>2, <2>6, <1>1, <1>5
      <4> QED
        BY <4>1, <4>2
    <3> QED
      BY <3>1, <3>2, Parts DEF AlertsOK
  <2>10. TablesInv' /\ Newer(disk'.items, disk.items)
    <3>1. touched' \subseteq Item /\ torn' \subseteq Item
      BY <2>1, <1>3
    <3> QED
      BY <2>1, <2>7, <2>8, <2>9, <1>6, <3>1, CommitStep DEF Good
  <2>11. disk'.items = items'
    BY <2>1, Parts DEF Commit
  <2> QED
    BY <2>6, <2>10, <2>11, <1>1, <1>5
<1>8. CASE ~req[t].storable
  <2>1. UNCHANGED <<history, alerts, published, disk, touched>> /\ torn' = torn \cup {item}
    BY <1>8 DEF Move
  <2>2. TablesOK(Tables)'
    <3>1. TablesOK(Tables')
      BY <2>1, <1>0, <1>1, <1>2, <1>3, <1>4, <1>5, Parts DEF TablesOK
    <3> QED
      BY <3>1 DEF TablesOK
  <2>3. HistoryOK(Tables, torn)'
    <3>1. ASSUME NEW any \in Item \ torn' PROVE Explains(history', items', any)
      <4>1. Explains(history, items, any) /\ any # item
        BY <2>1, <1>3, Parts DEF HistoryOK
      <4>2. Quantity(items', any) = Quantity(items, any)
        BY <4>1, <1>5 DEF Quantity
      <4> QED
        BY <4>1, <4>2, <2>1 DEF Explains
    <3> QED
      BY <3>1, Parts DEF HistoryOK
  <2>4. AlertsOK(Tables, torn \cup touched)'
    <3>1. \A any \in Item : \A i, j \in ActiveIn(alerts', any) : i = j
      BY <2>1, <1>3, Parts DEF AlertsOK
    <3>2. ASSUME NEW any \in DOMAIN items' \ (torn' \cup touched')
          PROVE  ActiveIn(alerts', any) # {} <=> IsLow(items'[any], default')
      <4>1. any # item /\ any \in DOMAIN items \ (torn \cup touched)
        BY <2>1, <1>5
      <4>2. ActiveIn(alerts, any) # {} <=> IsLow(items[any], default)
        BY <4>1, <1>3, Parts DEF AlertsOK
      <4> QED
        BY <4>1, <4>2, <2>1, <1>1, <1>5
    <3> QED
      BY <3>1, <3>2, Parts DEF AlertsOK
  <2>5. Good(disk)'
    <3>1. TablesOK(disk)' /\ HistoryOK(disk, torn)' /\ AlertsOK(disk, torn \cup touched)'
      BY <2>1, <1>3 DEF TablesOK, HistoryOK, AlertsOK
    <3> QED
      BY <3>1 DEF Good
  <2>6. Newer(items', disk'.items) /\ Newer(disk'.items, disk.items)
    <3>1. \A z \in DOMAIN disk.items : disk.items[z].version \in Nat
      BY <1>3 DEF TablesOK, Row
    <3> QED
      BY <3>1, <2>1, <1>6 DEF Newer
  <2> QED
    BY <2>1, <2>2, <2>3, <2>4, <2>5, <2>6, <1>1, <1>2, <1>3, <1>8 DEF TablesInv, Good
<1> QED
  BY <1>7, <1>8

(* Steps that write no table.                                              *)
LEMMA QuietTables ==
  ASSUME TablesInv, UNCHANGED <<tables, disk, torn, touched>>
  PROVE  TablesInv' /\ Newer(disk'.items, disk.items) /\ keys' = keys
<1>1. UNCHANGED <<warehouses, skus, items, default, history, alerts, keys, moves, disk, torn, touched>>
  BY DEF tables
<1>2. Tables' = Tables
  BY <1>1 DEF Tables
<1>3. TablesInv'
  BY <1>1, <1>2 DEF TablesInv, Good, TablesOK, HistoryOK, AlertsOK, Newer
<1>4. \A z \in DOMAIN disk.items : disk.items[z].version \in Nat
  BY DEF TablesInv, Good, TablesOK, Row
<1> QED
  BY <1>1, <1>3, <1>4 DEF Newer

(* Steps that commit, and leave stock, history and alerts as they are.     *)
LEMMA CatalogStep ==
  ASSUME TablesInv, TablesOK(Tables)', Commit,
         UNCHANGED <<items, default, history, alerts, torn, touched>>
  PROVE  TablesInv' /\ Newer(disk'.items, disk.items)
<1>1. HistoryOK(Tables, torn)'
  BY Parts DEF TablesInv, Good, HistoryOK
<1>2. AlertsOK(Tables, torn \cup touched)'
  BY Parts DEF TablesInv, Good, AlertsOK
<1> QED
  BY <1>1, <1>2, CommitStep DEF TablesInv, Good

(* A thread that is answered, or goes on, keeps the invariant if what it is *)
(* told is on disk.                                                         *)
LEMMA ThreadStep ==
  ASSUME IInv, TablesInv', Newer(disk'.items, disk.items), keys' = keys, ThreadTypes',
         NEW t \in Thread,
         \A u \in Thread : u # t =>
           req'[u] = req[u] /\ pc'[u] = pc[u] /\ response'[u] = response[u],
         pc'[t] \in {"idle", "lookup", "serve"} => response'[t] = NoResponse,
         pc'[t] \in {"lookup", "store"} => req'[t].key # None /\ req'[t].op = "adjust_stock",
         pc'[t] = "store" => response'[t].status = 200,
         req'[t].op \in {"add_stock", "adjust_stock"} /\ response'[t].status \in {200, 201} =>
           /\ req'[t].item \in DOMAIN disk'.items
           /\ disk'.items[req'[t].item].version >= response'[t].version
  PROVE  IInv'
<1>1. \A z \in DOMAIN disk.items :
        /\ z \in DOMAIN disk'.items /\ disk'.items[z].version >= disk.items[z].version
        /\ disk.items[z].version \in Nat /\ disk'.items[z].version \in Nat
  BY DEF IInv, TablesInv, Good, TablesOK, Row, Newer
<1>2. KeysHeld'
  <2>1. ASSUME NEW k \in DOMAIN keys
        PROVE  /\ keys[k].request.item \in DOMAIN disk'.items
               /\ disk'.items[keys[k].request.item].version >= keys[k].response.version
    <3>1. keys[k].response.version \in Nat
      BY Parts DEF IInv, TablesInv, Good, TablesOK, Response
    <3>2. Held(keys[k].request.item, keys[k].response.version)
      BY DEF IInv, KeysHeld
    <3> QED
      BY <1>1, <3>1, <3>2 DEF Held
  <2> QED
    BY <2>1 DEF KeysHeld, Held
<1>3. Silent' /\ Keyed'
  BY DEF IInv, Silent, Keyed
<1>4. AnswersAreDurable'
  <2>1. ASSUME NEW u \in Thread, u # t, req[u].op \in {"add_stock", "adjust_stock"},
               response[u].status \in {200, 201}
        PROVE  /\ req[u].item \in DOMAIN disk'.items
               /\ disk'.items[req[u].item].version >= response[u].version
    <3>1. response[u].version \in Nat
      BY DEF IInv, ThreadTypes, Response
    <3>2. req[u].item \in DOMAIN disk.items /\ disk.items[req[u].item].version >= response[u].version
      BY <2>1 DEF IInv, AnswersAreDurable
    <3> QED
      BY <1>1, <3>1, <3>2
  <2> QED
    BY <2>1 DEF AnswersAreDurable
<1> QED
  BY <1>2, <1>3, <1>4 DEF IInv

(* An answer to a request that is being served.                            *)
LEMMA AnswerStep ==
  ASSUME IInv, TablesInv', Newer(disk'.items, disk.items), keys' = keys,
         published' \subseteq Nat, raced' \subseteq Key, crashes' \in Nat,
         NEW t \in Thread, NEW status \in Nat, NEW quantity \in 0 .. MaxInt, NEW version \in Nat,
         Answer(t, status, quantity, version),
         req[t].op \in {"add_stock", "adjust_stock"} /\ status \in {200, 201} =>
           /\ req[t].item \in DOMAIN disk'.items
           /\ disk'.items[req[t].item].version >= version
  PROVE  IInv'
<1> DEFINE r == [status |-> status, quantity |-> quantity, version |-> version]
<1>1. r \in Response
  BY DEF Response
<1>2. /\ pc \in [Thread -> {"idle", "lookup", "serve", "store", "answered", "lost"}]
      /\ response \in [Thread -> Response] /\ req \in [Thread -> Requests]
  BY DEF IInv, ThreadTypes
<1>3. /\ pc' = [pc EXCEPT ![t] = "answered"] /\ response' = [response EXCEPT ![t] = r]
      /\ req' = req
  BY DEF Answer
<1>4. ThreadTypes'
  BY <1>1, <1>2, <1>3 DEF ThreadTypes
<1> QED
  BY <1>2, <1>3, <1>4, ThreadStep

LEMMA Limits == 0 \in 0 .. MaxInt /\ MaxInt \in Nat /\ NoThreshold = -1
  BY LimitsAssumption DEF NoThreshold

LEMMA RefuseStep ==
  ASSUME IInv, NEW t \in Thread, NEW code \in Nat \ {200, 201}, Refuse(t, code), crashes' = crashes
  PROVE  IInv'
<1>1. TablesInv' /\ Newer(disk'.items, disk.items) /\ keys' = keys
  BY QuietTables DEF IInv, Refuse, ghosts
<1>2. Answer(t, code, 0, 0) /\ UNCHANGED <<published, raced>>
  BY DEF Refuse, ghosts
<1> QED
  BY <1>1, <1>2, AnswerStep, Limits DEF IInv, ThreadTypes

LEMMA RequestFacts ==
  ASSUME IInv, NEW t \in Thread
  PROVE  /\ req[t] \in Request /\ req[t].item \in Item /\ req[t].amount \in Int
         /\ req[t].threshold \in Int /\ req[t].key \in Key \cup {None}
         /\ req[t].storable \in BOOLEAN
<1>1. req[t] \in Requests
  BY DEF IInv, ThreadTypes
<1> QED
  BY <1>1, RequestsAssumption DEF Request

LEMMA ReceiveStep == ASSUME IInv, NEW t \in Thread, Receive(t) PROVE IInv'
<1>1. TablesInv' /\ Newer(disk'.items, disk.items) /\ keys' = keys
  BY QuietTables DEF IInv, Receive, ghosts
<1>2. /\ pc \in [Thread -> {"idle", "lookup", "serve", "store", "answered", "lost"}]
      /\ response \in [Thread -> Response] /\ req \in [Thread -> Requests]
      /\ UNCHANGED <<published, raced, crashes>>
  BY DEF IInv, ThreadTypes, Receive, ghosts
<1>3. response[t] = NoResponse
  BY DEF Receive, IInv, Silent
<1>4. PICK r \in Requests :
        /\ req' = [req EXCEPT ![t] = r]
        /\ IF Allowed(r.role, r.op)
           THEN /\ pc' = [pc EXCEPT ![t] =
                           IF r.op = "adjust_stock" /\ r.key # None THEN "lookup" ELSE "serve"]
                /\ UNCHANGED response
           ELSE /\ pc' = [pc EXCEPT ![t] = "answered"]
                /\ response' = [response EXCEPT ![t].status = IF r.role = None THEN 401 ELSE 403]
  BY DEF Receive
<1>5. CASE Allowed(r.role, r.op)
  <2>1. response' = response /\ req'[t] = r /\ response'[t].status = 0
        /\ pc'[t] = IF r.op = "adjust_stock" /\ r.key # None THEN "lookup" ELSE "serve"
    BY <1>2, <1>3, <1>4, <1>5 DEF NoResponse
  <2>2. ThreadTypes'
    BY <1>2, <1>4, <1>5 DEF ThreadTypes, IInv
  <2>3. \A u \in Thread : u # t =>
          req'[u] = req[u] /\ pc'[u] = pc[u] /\ response'[u] = response[u]
    BY <1>2, <1>4, <1>5
  <2> QED
    BY <1>1, <1>3, <2>1, <2>2, <2>3, ThreadStep
<1>6. CASE ~Allowed(r.role, r.op)
  <2> DEFINE status == IF r.role = None THEN 401 ELSE 403
  <2>1. response' = [response EXCEPT ![t] = [response[t] EXCEPT !.status = status]]
    BY <1>4, <1>6
  <2>2. [response[t] EXCEPT !.status = status] = [status |-> status, quantity |-> 0, version |-> 0]
    BY <1>3 DEF NoResponse
  <2>3. [status |-> status, quantity |-> 0, version |-> 0] \in Response
    BY Limits DEF Response
  <2>4. response' \in [Thread -> Response] /\ response'[t].status \notin {200, 201}
    BY <1>2, <2>1, <2>2, <2>3
  <2>5. ThreadTypes'
    BY <1>2, <1>4, <1>6, <2>4 DEF ThreadTypes, IInv
  <2>6. \A u \in Thread : u # t =>
          req'[u] = req[u] /\ pc'[u] = pc[u] /\ response'[u] = response[u]
    BY <1>2, <1>4, <1>6, <2>1
  <2>7. pc'[t] = "answered"
    BY <1>2, <1>4, <1>6
  <2> QED
    BY <1>1, <2>4, <2>5, <2>6, <2>7, ThreadStep
<1> QED
  BY <1>5, <1>6

LEMMA LookupStep == ASSUME IInv, NEW t \in Thread, Lookup(t) PROVE IInv'
<1> DEFINE k == req[t].key
<1>0. pc[t] = "lookup" /\ UNCHANGED <<tables, disk, published, crashes, torn, touched>>
  BY DEF Lookup, ghosts
<1>1. TablesInv' /\ Newer(disk'.items, disk.items) /\ keys' = keys
  BY <1>0, QuietTables DEF IInv
<1>2. /\ pc \in [Thread -> {"idle", "lookup", "serve", "store", "answered", "lost"}]
      /\ response \in [Thread -> Response] /\ req \in [Thread -> Requests]
      /\ published' \subseteq Nat /\ crashes' \in Nat /\ raced \subseteq Key
  BY <1>0 DEF IInv, ThreadTypes
<1>3. response[t] = NoResponse /\ k \in Key
  BY <1>0, RequestFacts DEF IInv, Silent, Keyed
<1>4. CASE k \notin DOMAIN keys
  <2>1. /\ pc' = [pc EXCEPT ![t] = "serve"] /\ req' = req /\ response' = response
        /\ raced' \in {raced, raced \cup {k}}
    BY <1>4 DEF Lookup
  <2>2. ThreadTypes'
    BY <1>2, <1>3, <2>1 DEF ThreadTypes
  <2>3. response'[t] = NoResponse /\ response'[t].status = 0
    BY <1>3, <2>1 DEF NoResponse
  <2> QED
    BY <1>1, <1>2, <2>1, <2>2, <2>3, ThreadStep
<1>5. CASE k \in DOMAIN keys /\ keys[k].request # Body(req[t])
  <2>1. Answer(t, 409, 0, 0) /\ raced' = raced
    BY <1>5 DEF Lookup, ghosts
  <2> QED
    BY <1>1, <1>2, <2>1, AnswerStep, Limits
<1>6. CASE k \in DOMAIN keys /\ keys[k].request = Body(req[t])
  <2>1. /\ pc' = [pc EXCEPT ![t] = "answered"] /\ req' = req /\ raced' = raced
        /\ response' = [response EXCEPT ![t] = keys[k].response]
    BY <1>6 DEF Lookup, ghosts
  <2>2. keys[k].response \in Response
    BY <1>6, Parts DEF IInv, TablesInv, Good, TablesOK
  <2>3. ThreadTypes'
    BY <1>2, <2>1, <2>2 DEF ThreadTypes
  <2>4. Held(req[t].item, keys[k].response.version) /\ disk' = disk
    BY <1>0, <1>6 DEF IInv, KeysHeld, Body
  <2>5. /\ req'[t] = req[t] /\ response'[t] = keys[k].response /\ pc'[t] = "answered"
        /\ \A u \in Thread : u # t =>
             req'[u] = req[u] /\ pc'[u] = pc[u] /\ response'[u] = response[u]
    BY <1>2, <2>1
  <2> QED
    BY <1>1, <2>3, <2>4, <2>5, ThreadStep DEF Held
<1> QED
  BY <1>4, <1>5, <1>6

LEMMA CatalogSteps ==
  ASSUME IInv, NEW t \in Thread, CreateWarehouse(t) \/ CreateProduct(t)
  PROVE  IInv'
<1>1. /\ TablesOK(Tables) /\ req[t].op \notin {"add_stock", "adjust_stock"} /\ crashes' = crashes
      /\ published \subseteq Nat /\ raced \subseteq Key /\ crashes \in Nat
  BY DEF CreateWarehouse, CreateProduct, Serving, IInv, TablesInv, Good, ThreadTypes
<1>2. ASSUME Commit, Answer(t, 201, 0, 0), UNCHANGED <<items, default, history, alerts, keys, moves>>,
             UNCHANGED <<published, ghosts>>,
             warehouses' \subseteq Warehouse, DOMAIN skus' \subseteq Product
      PROVE  IInv'
  <2>1. TablesOK(Tables')
    BY <1>1, <1>2, Parts DEF TablesOK
  <2>2. TablesOK(Tables)' /\ UNCHANGED <<torn, touched, raced>>
    BY <2>1, <1>2 DEF TablesOK, ghosts
  <2>3. TablesInv' /\ Newer(disk'.items, disk.items)
    BY <1>2, <2>2, CatalogStep DEF IInv
  <2> QED
    BY <1>1, <1>2, <2>2, <2>3, AnswerStep, Limits
<1>5. CASE Refuse(t, 400) \/ Refuse(t, 409) \/ Refuse(t, 500)
  BY <1>1, <1>5, RefuseStep
<1>3. CASE CreateWarehouse(t) /\ ~(Refuse(t, 400) \/ Refuse(t, 409) \/ Refuse(t, 500))
  <2>1. PICK w \in Warehouse : warehouses' = warehouses \cup {w} /\ skus' = skus
    BY <1>3 DEF CreateWarehouse
  <2>2. warehouses' \subseteq Warehouse /\ DOMAIN skus' \subseteq Product
    BY <2>1, <1>1, Parts DEF TablesOK
  <2> QED
    BY <1>2, <1>3, <2>2 DEF CreateWarehouse
<1>4. CASE CreateProduct(t) /\ ~(Refuse(t, 400) \/ Refuse(t, 409) \/ Refuse(t, 500))
  <2>1. PICK p \in Product : skus' = Put(skus, p, req[t].sku) /\ warehouses' = warehouses
    BY <1>4 DEF CreateProduct
  <2>2. warehouses' \subseteq Warehouse /\ DOMAIN skus' \subseteq Product
    BY <2>1, <1>1, Parts DEF TablesOK, Put
  <2> QED
    BY <1>2, <1>4, <2>2 DEF CreateProduct
<1> QED
  BY <1>5, <1>3, <1>4

LEMMA AddStockStep == ASSUME IInv, NEW t \in Thread, AddStock(t) PROVE IInv'
<1> DEFINE r   == req[t]
           old == r.item \in DOMAIN items
           row == [quantity  |-> r.amount + IF old THEN items[r.item].quantity ELSE 0,
                   version   |-> 1 + IF old THEN items[r.item].version ELSE 0,
                   threshold |-> IF r.threshold # NoThreshold \/ ~old THEN r.threshold
                                 ELSE items[r.item].threshold]
<1>1. pc[t] = "serve" /\ crashes' = crashes
  BY DEF AddStock, Serving
<1>2. CASE Refuse(t, 400) \/ Refuse(t, 404) \/ Refuse(t, 500)
  BY <1>1, <1>2, RefuseStep
<1>3. CASE ~(Refuse(t, 400) \/ Refuse(t, 404) \/ Refuse(t, 500))
  <2>1. /\ ~(r.amount <= 0 \/ r.threshold < NoThreshold)
        /\ ~(row.quantity > MaxInt \/ row.threshold > MaxInt) /\ Move(t, row)
        /\ IF r.storable THEN Answer(t, 201, row.quantity, row.version) ELSE Answer(t, 500, 0, 0)
    BY <1>3 DEF AddStock
  <2>2. old => items[r.item] \in Row
    BY Parts DEF IInv, TablesInv, Good, TablesOK
  <2>3. row \in Row
    BY <2>1, <2>2, RequestFacts, Limits DEF Row
  <2>4. /\ row.quantity = Quantity(items, r.item) + r.amount
        /\ old => row.version >= items[r.item].version
    BY <2>2, RequestFacts DEF Quantity, Row
  <2> HIDE DEF row
  <2>5. /\ TablesInv' /\ published' \subseteq Nat
        /\ Newer(disk'.items, disk.items) /\ keys' = keys
        /\ r.storable => r.item \in DOMAIN disk'.items /\ disk'.items[r.item] = row
    BY <2>1, <2>3, <2>4, RequestFacts, MoveStep DEF IInv, ThreadTypes
  <2>6. raced' \subseteq Key /\ crashes' \in Nat
    BY <1>1, <2>1 DEF Move, IInv, ThreadTypes
  <2>7. row.quantity \in 0 .. MaxInt /\ row.version \in Nat /\ row.version >= row.version
    BY <2>3 DEF Row
  <2>8. CASE r.storable
    <3>1. Answer(t, 201, row.quantity, row.version)
      BY <2>1, <2>8
    <3> QED
      BY <2>5, <2>6, <2>7, <2>8, <3>1, AnswerStep
  <2>9. CASE ~r.storable
    <3>1. Answer(t, 500, 0, 0)
      BY <2>1, <2>9
    <3> QED
      BY <2>5, <2>6, <3>1, AnswerStep, Limits
  <2> QED
    BY <2>8, <2>9
<1> QED
  BY <1>2, <1>3

LEMMA AdjustStockStep == ASSUME IInv, NEW t \in Thread, AdjustStock(t) PROVE IInv'
<1> DEFINE r   == req[t]
           row == [quantity  |-> items[r.item].quantity + r.amount,
                   version   |-> items[r.item].version + 1,
                   threshold |-> items[r.item].threshold]
<1>1. pc[t] = "serve" /\ crashes' = crashes /\ r.op = "adjust_stock"
  BY DEF AdjustStock, Serving
<1>2. CASE Refuse(t, 400) \/ Refuse(t, 404) \/ Refuse(t, 500)
  BY <1>1, <1>2, RefuseStep
<1>3. CASE ~(Refuse(t, 400) \/ Refuse(t, 404) \/ Refuse(t, 500))
  <2>1. /\ r.item \in DOMAIN items /\ ~(row.quantity < 0) /\ ~(row.quantity > MaxInt) /\ Move(t, row)
        /\ IF ~r.storable THEN Answer(t, 500, 0, 0)
           ELSE IF r.key = None THEN Answer(t, 200, row.quantity, row.version)
           ELSE /\ pc' = [pc EXCEPT ![t] = "store"]
                /\ response' = [response EXCEPT ![t] =
                     [status |-> 200, quantity |-> row.quantity, version |-> row.version]]
                /\ UNCHANGED req
    BY <1>3 DEF AdjustStock
  <2>2. items[r.item] \in Row
    BY <2>1, Parts DEF IInv, TablesInv, Good, TablesOK
  <2>3. /\ row.quantity = items[r.item].quantity + r.amount
        /\ row.version = items[r.item].version + 1 /\ row.threshold = items[r.item].threshold
    OBVIOUS
  <2>4. row \in Row
    BY <2>1, <2>2, <2>3, RequestFacts, Limits DEF Row
  <2>5. /\ row.quantity = Quantity(items, r.item) + r.amount
        /\ row.version >= items[r.item].version
    BY <2>1, <2>2, <2>3, RequestFacts DEF Quantity, Row
  <2> HIDE DEF row
  <2>6. /\ TablesInv' /\ published' \subseteq Nat
        /\ Newer(disk'.items, disk.items) /\ keys' = keys
        /\ r.storable => r.item \in DOMAIN disk'.items /\ disk'.items[r.item] = row
    BY <2>1, <2>4, <2>5, RequestFacts, MoveStep DEF IInv, ThreadTypes
  <2>7. raced' \subseteq Key /\ crashes' \in Nat
    BY <1>1, <2>1 DEF Move, IInv, ThreadTypes
  <2>8. row.quantity \in 0 .. MaxInt /\ row.version \in Nat /\ row.version >= row.version
    BY <2>4 DEF Row
  <2>9. CASE ~r.storable
    <3>1. Answer(t, 500, 0, 0)
      BY <2>1, <2>9
    <3> QED
      BY <2>6, <2>7, <3>1, AnswerStep, Limits
  <2>10. CASE r.storable /\ r.key = None
    <3>1. Answer(t, 200, row.quantity, row.version)
      BY <2>1, <2>10
    <3> QED
      BY <2>6, <2>7, <2>8, <2>10, <3>1, AnswerStep
  <2>11. CASE r.storable /\ r.key # None
    <3> DEFINE told == [status |-> 200, quantity |-> row.quantity, version |-> row.version]
    <3>1. /\ pc' = [pc EXCEPT ![t] = "store"] /\ response' = [response EXCEPT ![t] = told]
          /\ req' = req
      BY <2>1, <2>11
    <3>2. told \in Response
      BY <2>8 DEF Response
    <3>3. ThreadTypes'
      BY <2>6, <2>7, <3>1, <3>2 DEF IInv, ThreadTypes
    <3>4. /\ req'[t] = r /\ response'[t] = told /\ pc'[t] = "store"
          /\ \A u \in Thread : u # t =>
               req'[u] = req[u] /\ pc'[u] = pc[u] /\ response'[u] = response[u]
      BY <3>1 DEF IInv, ThreadTypes
    <3> QED
      BY <1>1, <2>6, <2>8, <2>11, <3>3, <3>4, ThreadStep
  <2> QED
    BY <2>9, <2>10, <2>11
<1> QED
  BY <1>2, <1>3

LEMMA SetThresholdStep == ASSUME IInv, NEW t \in Thread, SetThreshold(t) PROVE IInv'
<1> DEFINE r   == req[t]
           row == IF r.item \in DOMAIN items THEN [items[r.item] EXCEPT !.threshold = r.threshold]
                  ELSE [quantity |-> 0, version |-> 1, threshold |-> r.threshold]
<1>1. pc[t] = "serve" /\ crashes' = crashes /\ r.op = "set_threshold"
  BY DEF SetThreshold, Serving
<1>2. CASE Refuse(t, 400) \/ Refuse(t, 404) \/ Refuse(t, 500)
  BY <1>1, <1>2, RefuseStep
<1>3. CASE ~(Refuse(t, 400) \/ Refuse(t, 404) \/ Refuse(t, 500))
  <2>1. /\ ~(r.threshold < 0) /\ ~(r.threshold > MaxInt)
        /\ items' = Put(items, r.item, row) /\ touched' = touched \cup {r.item}
        /\ UNCHANGED <<warehouses, skus, default, history, alerts, keys, moves, published, torn, raced>>
        /\ Commit /\ Answer(t, 200, 0, 0)
    BY <1>3 DEF SetThreshold, Ok, catalog
  <2>2. /\ items \in [DOMAIN items -> Row] /\ DOMAIN items \subseteq Item /\ r.item \in Item
        /\ TablesOK(Tables) /\ HistoryOK(Tables, torn) /\ AlertsOK(Tables, torn \cup touched)
        /\ Newer(items, disk.items) /\ torn \subseteq Item /\ touched \subseteq Item
    BY RequestFacts, Parts DEF IInv, TablesInv, Good, TablesOK
  <2>3. /\ row \in Row /\ row.quantity = Quantity(items, r.item)
        /\ r.item \in DOMAIN items => row.version = items[r.item].version
    BY <2>1, <2>2, RequestFacts, Limits DEF Row, Quantity
  <2> HIDE DEF row
  <2>4. /\ DOMAIN items' = DOMAIN items \cup {r.item} /\ items' \in [DOMAIN items' -> Row]
        /\ items'[r.item] = row /\ \A z \in DOMAIN items : z # r.item => items'[z] = items[z]
    <3>1. items' = [z \in DOMAIN items \cup {r.item} |-> IF z = r.item THEN row ELSE items[z]]
      BY <2>1 DEF Put
    <3> HIDE DEF r
    <3> QED
      BY <2>2, <2>3, <3>1
  <2>5. TablesOK(Tables)'
    <3>1. TablesOK(Tables')
      BY <2>1, <2>2, <2>4, Parts DEF TablesOK
    <3> QED
      BY <3>1 DEF TablesOK
  <2>6. HistoryOK(Tables, torn)'
    <3>1. ASSUME NEW any \in Item \ torn PROVE Explains(history', items', any)
      <4>1. Explains(history, items, any)
        BY <2>2, Parts DEF HistoryOK
      <4>2. Quantity(items', any) = Quantity(items, any)
        <5>1. CASE any = r.item
          BY <5>1, <2>3, <2>4 DEF Quantity
        <5>2. CASE any # r.item
          BY <5>2, <2>4 DEF Quantity
        <5> QED
          BY <5>1, <5>2
      <4> QED
        BY <4>1, <4>2, <2>1 DEF Explains
    <3> QED
      BY <3>1, <2>1, Parts DEF HistoryOK
  <2>7. AlertsOK(Tables, torn \cup touched)'
    <3>1. \A any \in Item : \A i, j \in ActiveIn(alerts', any) : i = j
      BY <2>1, <2>2, Parts DEF AlertsOK
    <3>2. ASSUME NEW any \in DOMAIN items' \ (torn' \cup touched')
          PROVE  ActiveIn(alerts', any) # {} <=> IsLow(items'[any], default')
      <4>1. any # r.item /\ any \in DOMAIN items \ (torn \cup touched)
        BY <2>1, <2>4
      <4>2. ActiveIn(alerts, any) # {} <=> IsLow(items[any], default)
        BY <4>1, <2>2, Parts DEF AlertsOK
      <4> QED
        BY <4>1, <4>2, <2>1, <2>4
    <3> QED
      BY <3>1, <3>2, Parts DEF AlertsOK
  <2>8. Newer(items', disk.items)
    <3>1. ASSUME NEW z \in DOMAIN disk.items
          PROVE  z \in DOMAIN items' /\ items'[z].version = items[z].version
      <4>1. z \in DOMAIN items
        BY <2>2 DEF Newer
      <4>2. CASE z = r.item
        BY <4>1, <4>2, <2>3, <2>4
      <4>3. CASE z # r.item
        BY <4>1, <4>3, <2>4
      <4> QED
        BY <4>2, <4>3
    <3> QED
      BY <3>1, <2>2 DEF Newer
  <2>9. TablesInv' /\ Newer(disk'.items, disk.items)
    <3>1. touched' \subseteq Item /\ torn' \subseteq Item
      BY <2>1, <2>2
    <3> QED
      BY <2>1, <2>5, <2>6, <2>7, <2>8, <3>1, CommitStep DEF Good
  <2> QED
    BY <1>1, <2>1, <2>9, AnswerStep, Limits DEF IInv, ThreadTypes
<1> QED
  BY <1>2, <1>3

LEMMA SetDefaultStep == ASSUME IInv, NEW t \in Thread, SetDefault(t) PROVE IInv'
<1> DEFINE r == req[t]
<1>1. pc[t] = "serve" /\ crashes' = crashes /\ r.op = "set_default_threshold"
  BY DEF SetDefault, Serving
<1>2. CASE Refuse(t, 400) \/ Refuse(t, 500)
  BY <1>1, <1>2, RefuseStep
<1>3. CASE ~(Refuse(t, 400) \/ Refuse(t, 500))
  <2>1. /\ ~(r.amount < 0) /\ ~(r.amount > MaxInt) /\ default' = r.amount
        /\ touched' = touched \cup {i \in DOMAIN items : items[i].threshold = NoThreshold}
        /\ UNCHANGED <<warehouses, skus, items, history, alerts, keys, moves, published, torn, raced>>
        /\ Commit /\ Answer(t, 200, 0, 0)
    BY <1>3 DEF SetDefault, Ok, catalog
  <2>2. /\ TablesOK(Tables) /\ HistoryOK(Tables, torn) /\ AlertsOK(Tables, torn \cup touched)
        /\ Newer(items, disk.items) /\ torn \subseteq Item /\ touched \subseteq Item
    BY DEF IInv, TablesInv, Good
  <2>3. TablesOK(Tables)'
    <3>1. default' \in NoThreshold .. MaxInt
      BY <2>1, RequestFacts, Limits
    <3>2. TablesOK(Tables')
      BY <2>1, <2>2, <3>1, Parts DEF TablesOK
    <3> QED
      BY <3>2 DEF TablesOK
  <2>4. HistoryOK(Tables, torn)'
    BY <2>1, <2>2, Parts DEF HistoryOK
  <2>5. AlertsOK(Tables, torn \cup touched)'
    <3>1. \A any \in Item : \A i, j \in ActiveIn(alerts', any) : i = j
      BY <2>1, <2>2, Parts DEF AlertsOK
    <3>2. ASSUME NEW any \in DOMAIN items' \ (torn' \cup touched')
          PROVE  ActiveIn(alerts', any) # {} <=> IsLow(items'[any], default')
      <4>1. any \in DOMAIN items \ (torn \cup touched) /\ items[any].threshold # NoThreshold
        BY <2>1
      <4>2. ActiveIn(alerts, any) # {} <=> IsLow(items[any], default)
        BY <4>1, <2>2, Parts DEF AlertsOK
      <4> QED
        BY <4>1, <4>2, <2>1 DEF IsLow
    <3> QED
      BY <3>1, <3>2, Parts DEF AlertsOK
  <2>6. TablesInv' /\ Newer(disk'.items, disk.items)
    <3>1. touched' \subseteq Item /\ torn' \subseteq Item /\ Newer(items', disk.items)
      BY <2>1, <2>2, Parts DEF TablesOK
    <3> QED
      BY <2>1, <2>3, <2>4, <2>5, <3>1, CommitStep DEF Good
  <2> QED
    BY <1>1, <2>1, <2>6, AnswerStep, Limits DEF IInv, ThreadTypes
<1> QED
  BY <1>2, <1>3

(* An alert resolved by hand: no more alerts are active than before, and    *)
(* its item counts as touched.                                              *)
LEMMA ResolveAlertStep == ASSUME IInv, NEW t \in Thread, ResolveAlert(t) PROVE IInv'
<1> DEFINE n == req[t].alert
<1>1. pc[t] = "serve" /\ crashes' = crashes /\ req[t].op = "resolve_alert"
  BY DEF ResolveAlert, Serving
<1>2. CASE Refuse(t, 404)
  BY <1>1, <1>2, RefuseStep
<1>3. CASE ~Refuse(t, 404)
  <2>1. /\ n \in DOMAIN alerts /\ alerts' = Resolved({n}) /\ touched' = touched \cup {alerts[n].item}
        /\ UNCHANGED <<warehouses, skus, items, default, history, keys, moves, published, torn, raced>>
        /\ IF alerts[n].active THEN Commit ELSE UNCHANGED disk
        /\ Answer(t, 200, 0, 0)
    BY <1>3 DEF ResolveAlert, Ok, catalog
  <2>2. /\ TablesOK(Tables) /\ HistoryOK(Tables, torn) /\ AlertsOK(Tables, torn \cup touched)
        /\ Newer(items, disk.items) /\ torn \subseteq Item /\ touched \subseteq Item
        /\ alerts \in Seq(Alerts) /\ DOMAIN items \subseteq Item
    BY Parts DEF IInv, TablesInv, Good, TablesOK, Alerts
  <2>3. /\ DOMAIN alerts' = DOMAIN alerts
        /\ \A i \in DOMAIN alerts :
             alerts'[i] = IF i = n THEN [alerts[i] EXCEPT !.active = FALSE] ELSE alerts[i]
    BY <2>1 DEF Resolved
  <2>4. \A a \in Alerts : /\ [a EXCEPT !.active = FALSE] \in Alerts
                          /\ [a EXCEPT !.active = FALSE].item = a.item
                          /\ [a EXCEPT !.active = FALSE].active = FALSE
    BY DEF Alerts
  <2>5. \A i \in DOMAIN alerts : alerts[i] \in Alerts
    BY <2>2
  <2>6. alerts' \in Seq(Alerts)
    <3>1. DOMAIN alerts = 1 .. Len(alerts) /\ Len(alerts) \in Nat
      BY <2>2
    <3>2. \A i \in DOMAIN alerts : alerts'[i] \in Alerts
      BY <2>3, <2>4, <2>5
    <3>3. alerts' \in [1 .. Len(alerts) -> Alerts]
      BY <2>1, <2>3, <3>1, <3>2 DEF Resolved
    <3> QED
      BY <3>1, <3>3
  <2>7. /\ alerts[n].item \in Item
        /\ \A any \in Item : ActiveIn(alerts', any) \subseteq ActiveIn(alerts, any)
        /\ \A any \in Item : any # alerts[n].item => ActiveIn(alerts', any) = ActiveIn(alerts, any)
    <3>1. \A i \in DOMAIN alerts :
            /\ alerts'[i].item = alerts[i].item /\ alerts'[i].active => alerts[i].active
      BY <2>3, <2>4, <2>5
    <3>2. \A i \in DOMAIN alerts : i # n => alerts'[i] = alerts[i]
      BY <2>3
    <3>3. alerts[n].item \in Item
      BY <2>1, <2>5 DEF Alerts
    <3>4. \A i \in DOMAIN alerts : alerts'[i].item = alerts[i].item
      BY <2>3, <2>4, <2>5
    <3>5. ASSUME NEW any \in Item PROVE ActiveIn(alerts', any) \subseteq ActiveIn(alerts, any)
      BY <2>3, <2>4, <2>5, <3>4 DEF ActiveIn
    <3>6. ASSUME NEW any \in Item, any # alerts[n].item
          PROVE  ActiveIn(alerts', any) = ActiveIn(alerts, any)
      <4>1. \A i \in DOMAIN alerts :
              alerts'[i].item = any /\ alerts'[i].active <=> alerts[i].item = any /\ alerts[i].active
        <5>1. ASSUME NEW i \in DOMAIN alerts
              PROVE  alerts'[i].item = any /\ alerts'[i].active <=> alerts[i].item = any /\ alerts[i].active
          <6>1. CASE i = n
            BY <6>1, <2>1, <3>4, <3>6
          <6>2. CASE i # n
            BY <6>2, <3>2
          <6> QED
            BY <6>1, <6>2
        <5> QED
          BY <5>1
      <4> QED
        BY <4>1, <2>3 DEF ActiveIn
    <3> QED
      BY <3>3, <3>5, <3>6
  <2>8. TablesOK(Tables)'
    <3>1. TablesOK(Tables')
      BY <2>1, <2>2, <2>6, Parts DEF TablesOK, Alerts
    <3> QED
      BY <3>1 DEF TablesOK
  <2>9. HistoryOK(Tables, torn)'
    BY <2>1, <2>2, Parts DEF HistoryOK
  <2>10. AlertsOK(Tables, torn \cup touched)'
    <3>1. \A any \in Item : \A i, j \in ActiveIn(alerts', any) : i = j
      BY <2>2, <2>7, Parts DEF AlertsOK
    <3>2. ASSUME NEW any \in DOMAIN items' \ (torn' \cup touched')
          PROVE  ActiveIn(alerts', any) # {} <=> IsLow(items'[any], default')
      <4>1. any \in DOMAIN items \ (torn \cup touched) /\ any # alerts[n].item /\ any \in Item
        BY <2>1, <2>2
      <4>2. ActiveIn(alerts, any) # {} <=> IsLow(items[any], default)
        BY <4>1, <2>2, Parts DEF AlertsOK
      <4> QED
        BY <4>1, <4>2, <2>1, <2>7
    <3> QED
      BY <3>1, <3>2, Parts DEF AlertsOK
  <2>11. touched' \subseteq Item /\ torn' \subseteq Item /\ Newer(items', disk.items)
    BY <2>1, <2>2, <2>7
  <2>12. TablesInv' /\ Newer(disk'.items, disk.items)
    <3>1. CASE alerts[n].active
      BY <2>1, <2>8, <2>9, <2>10, <2>11, <3>1, CommitStep DEF Good
    <3>2. CASE ~alerts[n].active
      <4>1. disk' = disk
        BY <2>1, <3>2
      <4>2. TablesOK(disk)' /\ HistoryOK(disk, torn)'
        BY <4>1, <2>1 DEF IInv, TablesInv, Good, TablesOK, HistoryOK
      <4>3. AlertsOK(disk, torn \cup touched)'
        BY <4>1, <2>1 DEF IInv, TablesInv, Good, AlertsOK
      <4>4. \A z \in DOMAIN disk.items : disk.items[z].version \in Nat
        BY DEF IInv, TablesInv, Good, TablesOK, Row
      <4>5. Newer(disk'.items, disk.items) /\ keys' = disk'.keys /\ Newer(items', disk'.items)
        BY <4>1, <4>4, <2>1, <2>11 DEF Newer, IInv, TablesInv
      <4> QED
        BY <4>2, <4>3, <4>5, <2>8, <2>9, <2>10, <2>11 DEF TablesInv, Good
    <3> QED
      BY <3>1, <3>2
  <2> QED
    BY <1>1, <2>1, <2>12, AnswerStep, Limits DEF IInv, ThreadTypes
<1> QED
  BY <1>2, <1>3

LEMMA StoreResponseStep == ASSUME IInv, NEW t \in Thread, StoreResponse(t) PROVE IInv'
<1> DEFINE k   == req[t].key
           new == [request |-> Body(req[t]), response |-> response[t]]
<1>1. /\ pc[t] = "store" /\ keys' = Stored(t) /\ pc' = [pc EXCEPT ![t] = "answered"]
      /\ UNCHANGED <<warehouses, skus, items, default, history, alerts, moves>>
      /\ UNCHANGED <<req, response, published, crashes, torn, raced, touched>>
      /\ IF k \in DOMAIN keys THEN UNCHANGED disk ELSE Commit
  BY DEF StoreResponse, catalog, ghosts
<1>2. k \in Key /\ req[t].op = "adjust_stock" /\ response[t].status = 200
  BY <1>1, RequestFacts DEF IInv, Keyed
<1>3. /\ pc \in [Thread -> {"idle", "lookup", "serve", "store", "answered", "lost"}]
      /\ response \in [Thread -> Response]
  BY DEF IInv, ThreadTypes
<1>4. /\ pc'[t] = "answered" /\ \A u \in Thread : u # t => pc'[u] = pc[u]
      /\ req' = req /\ response' = response
  BY <1>1, <1>3
<1>5. ThreadTypes'
  BY <1>1, <1>3 DEF IInv, ThreadTypes
<1>6. CASE k \in DOMAIN keys
  <2>1. UNCHANGED <<tables, disk, torn, touched>>
    BY <1>1, <1>6 DEF Stored, tables
  <2>2. TablesInv' /\ Newer(disk'.items, disk.items) /\ keys' = keys
    BY <2>1, QuietTables DEF IInv
  <2>3. req'[t].op \in {"add_stock", "adjust_stock"} /\ response'[t].status \in {200, 201} =>
          /\ req'[t].item \in DOMAIN disk'.items
          /\ disk'.items[req'[t].item].version >= response'[t].version
    BY <1>4, <2>1 DEF IInv, AnswersAreDurable
  <2> QED
    BY <1>4, <1>5, <2>2, <2>3, ThreadStep
<1>7. CASE k \notin DOMAIN keys
  <2>1. keys' = Put(keys, k, new) /\ Commit
    BY <1>1, <1>7 DEF Stored
  <2>2. new \in [request : Payload, response : Response] /\ new.request.item = req[t].item
    BY <1>3, RequestFacts DEF Body, Payload
  <2>3. /\ TablesOK(Tables) /\ keys \in [DOMAIN keys -> [request : Payload, response : Response]]
        /\ DOMAIN keys \subseteq Key
    BY Parts DEF IInv, TablesInv, Good, TablesOK
  <2>4. /\ DOMAIN keys' = DOMAIN keys \cup {k}
        /\ keys' \in [DOMAIN keys' -> [request : Payload, response : Response]]
        /\ keys'[k] = new /\ \A z \in DOMAIN keys : z # k => keys'[z] = keys[z]
    <3>1. keys' = [z \in DOMAIN keys \cup {k} |-> IF z = k THEN new ELSE keys[z]]
      BY <2>1 DEF Put
    <3> HIDE DEF k, new
    <3> QED
      BY <2>2, <2>3, <3>1
  <2>5. TablesOK(Tables)'
    <3>1. TablesOK(Tables')
      BY <1>1, <1>2, <2>3, <2>4, Parts DEF TablesOK
    <3> QED
      BY <3>1 DEF TablesOK
  <2>6. TablesInv' /\ Newer(disk'.items, disk.items)
    BY <1>1, <2>1, <2>5, CatalogStep DEF IInv
  <2>7. \A z \in DOMAIN disk.items :
          /\ z \in DOMAIN disk'.items /\ disk'.items[z].version >= disk.items[z].version
          /\ disk.items[z].version \in Nat /\ disk'.items[z].version \in Nat
    BY <2>6 DEF IInv, TablesInv, Good, TablesOK, Row, Newer
  <2>8. \A item, v : Held(item, v) /\ v \in Nat =>
          item \in DOMAIN disk'.items /\ disk'.items[item].version >= v
    BY <2>7 DEF Held
  <2>9. \A u \in Thread : response[u].version \in Nat
    BY <1>3 DEF Response
  <2>10. AnswersAreDurable'
    BY <1>4, <2>8, <2>9 DEF IInv, AnswersAreDurable, Held
  <2>11. Held(req[t].item, response[t].version)
    BY <1>2 DEF IInv, AnswersAreDurable, Held
  <2>12. KeysHeld'
    <3>1. ASSUME NEW z \in DOMAIN keys'
          PROVE  /\ keys'[z].request.item \in DOMAIN disk'.items
                 /\ disk'.items[keys'[z].request.item].version >= keys'[z].response.version
      <4>1. CASE z = k
        BY <4>1, <2>2, <2>4, <2>8, <2>9, <2>11
      <4>2. CASE z # k
        <5>1. /\ z \in DOMAIN keys /\ keys'[z] = keys[z]
              /\ Held(keys[z].request.item, keys[z].response.version)
          BY <4>2, <2>4 DEF IInv, KeysHeld
        <5>2. keys[z].response.version \in Nat
          BY <5>1, <2>3 DEF Response
        <5> QED
          BY <5>1, <5>2, <2>8
      <4> QED
        BY <4>1, <4>2
    <3> QED
      BY <3>1 DEF KeysHeld, Held
  <2>13. Silent' /\ Keyed'
    BY <1>4 DEF IInv, Silent, Keyed
  <2> QED
    BY <1>5, <2>6, <2>10, <2>12, <2>13 DEF IInv
<1> QED
  BY <1>6, <1>7

LEMMA ReadStep == ASSUME IInv, NEW t \in Thread, Read(t) PROVE IInv'
<1>1. crashes' = crashes /\ req[t].op \in Reads
  BY DEF Read
<1>2. CASE Refuse(t, 404)
  BY <1>1, <1>2, RefuseStep
<1>3. CASE ~Refuse(t, 404)
  <2>1. /\ UNCHANGED <<tables, disk, published, torn, raced, touched>> /\ req[t].op # "add_stock"
        /\ req[t].op # "adjust_stock"
        /\ \/ Answer(t, 200, 0, 0)
           \/ /\ req[t].item \in DOMAIN items
              /\ Answer(t, 200, items[req[t].item].quantity, items[req[t].item].version)
    BY <1>1, <1>3 DEF Read, Ok, Exists, HasStock, ghosts, Reads
  <2>2. TablesInv' /\ Newer(disk'.items, disk.items) /\ keys' = keys
    BY <2>1, QuietTables DEF IInv
  <2>3. \A z \in DOMAIN items : items[z].quantity \in 0 .. MaxInt /\ items[z].version \in Nat
    BY Parts DEF IInv, TablesInv, Good, TablesOK, Row
  <2> QED
    BY <1>1, <2>1, <2>2, <2>3, AnswerStep, Limits DEF IInv, ThreadTypes
<1> QED
  BY <1>2, <1>3

(* A restart: the tables are the committed ones, and nobody is told more.   *)
LEMMA CrashStep == ASSUME IInv, Crash PROVE IInv'
<1>1. /\ warehouses' = disk.warehouses /\ skus' = disk.skus /\ items' = disk.items
      /\ default' = disk.default /\ history' = disk.history /\ alerts' = disk.alerts
      /\ keys' = disk.keys /\ moves' = disk.moves /\ published' = {} /\ crashes > 0 /\ crashes' = crashes - 1
      /\ pc' = [t \in Thread |-> IF pc[t] \in {"idle", "answered"} THEN pc[t] ELSE "lost"]
      /\ raced' = raced \cup {req[t].key : t \in {u \in Thread : pc[u] = "store"}}
      /\ UNCHANGED <<disk, req, response, torn, touched>>
  BY DEF Crash
<1>2. Good(disk) /\ torn \subseteq Item /\ touched \subseteq Item /\ keys = disk.keys
  BY DEF IInv, TablesInv
<1>3. Good(Tables)'
  <2>1. TablesOK(Tables')
    BY <1>1, <1>2, Parts DEF Good, TablesOK
  <2>2. TablesOK(Tables)'
    BY <2>1 DEF TablesOK
  <2>3. HistoryOK(Tables, torn)'
    BY <1>1, <1>2, Parts DEF Good, HistoryOK
  <2>4. AlertsOK(Tables, torn \cup touched)'
    BY <1>1, <1>2, Parts DEF Good, AlertsOK
  <2> QED
    BY <2>2, <2>3, <2>4 DEF Good
<1>4. Good(disk)'
  BY <1>1, <1>2 DEF Good, TablesOK, HistoryOK, AlertsOK
<1>5. Newer(items', disk'.items)
  <2>1. \A z \in DOMAIN disk.items : disk.items[z].version \in Nat
    BY <1>2 DEF Good, TablesOK, Row
  <2> QED
    BY <2>1, <1>1 DEF Newer
<1>6. TablesInv'
  BY <1>1, <1>2, <1>3, <1>4, <1>5 DEF TablesInv
<1>7. ThreadTypes'
  <2>1. \A t \in Thread : pc[t] = "store" => req[t].key \in Key
    BY RequestFacts DEF IInv, Keyed
  <2>2. raced' \subseteq Key
    BY <1>1, <2>1 DEF IInv, ThreadTypes
  <2>3. crashes' \in Nat
    BY <1>1 DEF IInv, ThreadTypes
  <2> QED
    BY <1>1, <2>2, <2>3 DEF IInv, ThreadTypes
<1>8. KeysHeld'
  BY <1>1, <1>2 DEF IInv, KeysHeld, Held
<1>9. Silent' /\ Keyed' /\ AnswersAreDurable'
  BY <1>1 DEF IInv, Silent, Keyed, AnswersAreDurable
<1> QED
  BY <1>6, <1>7, <1>8, <1>9 DEF IInv

LEMMA InitEstablishes == Init => IInv
<1> SUFFICES ASSUME Init PROVE IInv
  OBVIOUS
<1>1. PICK c \in Catalogs : warehouses = c.warehouses /\ skus = c.skus
  BY DEF Init
<1>2. warehouses \subseteq Warehouse /\ DOMAIN skus \subseteq Product
  BY <1>1, CatalogsAssumption
<1>3. /\ items = Empty /\ keys = Empty /\ DOMAIN Empty = {} /\ default = NoThreshold
      /\ moves = [k \in Key |-> 0]
      /\ history = <<>> /\ alerts = <<>> /\ disk = Tables
  BY DEF Init, Empty
<1>4. TablesOK(Tables)
  BY <1>2, <1>3, Parts, Limits DEF TablesOK
<1>5. HistoryOK(Tables, torn)
  BY <1>3, Parts DEF HistoryOK, Explains, Rows, Quantity
<1>6. AlertsOK(Tables, torn \cup touched)
  BY <1>3, Parts DEF AlertsOK, ActiveIn
<1>7. TablesInv
  <2>1. torn = {} /\ touched = {} /\ disk.items = items /\ disk.keys = keys
    BY <1>3, Parts DEF Init
  <2>2. Newer(items, disk.items)
    BY <1>3, <2>1 DEF Newer
  <2>3. Good(Tables)
    BY <1>4, <1>5, <1>6 DEF Good
  <2> QED
    BY <1>3, <2>1, <2>2, <2>3 DEF TablesInv
<1>8. NoResponse \in Response /\ NoResponse.status = 0
  BY Limits DEF NoResponse, Response
<1>9. ThreadTypes
  BY <1>8, RequestsAssumption, LimitsAssumption DEF Init, ThreadTypes
<1>10. KeysHeld /\ Silent /\ Keyed /\ AnswersAreDurable
  BY <1>3, <1>8 DEF Init, KeysHeld, Silent, Keyed, AnswersAreDurable
<1> QED
  BY <1>7, <1>9, <1>10 DEF IInv

LEMMA StepPreserves == IInv /\ [Next]_vars => IInv'
<1> SUFFICES ASSUME IInv, [Next]_vars PROVE IInv'
  OBVIOUS
<1>1. CASE Crash
  BY <1>1, CrashStep
<1>2. ASSUME NEW t \in Thread, Serve(t) PROVE IInv'
  BY <1>2, ReceiveStep, LookupStep, CatalogSteps, AddStockStep, AdjustStockStep,
     StoreResponseStep, SetThresholdStep, SetDefaultStep, ResolveAlertStep, ReadStep DEF Serve
<1>3. CASE UNCHANGED vars
  <2>1. UNCHANGED <<tables, disk, torn, touched>> /\ UNCHANGED <<published, req, pc, response, crashes, raced>>
    BY <1>3 DEF vars, ghosts, threads
  <2>2. TablesInv' /\ keys' = keys
    BY <2>1, QuietTables DEF IInv
  <2> QED
    BY <2>1, <2>2 DEF IInv, KeysHeld, Held, ThreadTypes, Silent, Keyed, AnswersAreDurable
<1> QED
  BY <1>1, <1>2, <1>3 DEF Next

(* The conjunction the other theorems follow from.                         *)
THEOREM Invariance == Spec => []IInv
  BY InitEstablishes, StepPreserves, PTL DEF Spec

(* Type correctness: no quantity, in use or committed, is ever negative or  *)
(* more than the database stores.                                           *)
THEOREM TypeCorrect == Spec => []TypeOK
<1>1. IInv => TypeOK
  BY DEF IInv, TablesInv, Good, ThreadTypes, TypeOK
<1> QED
  BY <1>1, Invariance, PTL

(* service.py 123-206: the history of an item explains its stock.          *)
THEOREM HistoryExplains == Spec => []HistoryExplainsStock
<1>1. IInv => HistoryExplainsStock
  BY Parts DEF IInv, TablesInv, Good, HistoryOK, HistoryExplainsStock
<1> QED
  BY <1>1, Invariance, PTL

(* service.py 283-314: the alerts of an item follow its stock.             *)
THEOREM AlertsFollow == Spec => []AlertsFollowStock
<1>1. IInv => AlertsFollowStock
  <2> SUFFICES ASSUME IInv PROVE AlertsFollowStock
    OBVIOUS
  <2>1. AlertsOK(Tables, torn \cup touched)
    BY DEF IInv, TablesInv, Good
  <2>2. \A item : Active(item) = ActiveIn(alerts, item)
    BY DEF Active, ActiveIn
  <2>3. ASSUME NEW item \in Item PROVE Cardinality(Active(item)) <= 1
    <3>1. CASE Active(item) = {}
      BY <3>1, FS_EmptySet
    <3>2. CASE Active(item) # {}
      <4>1. PICK i \in Active(item) : TRUE
        BY <3>2
      <4>2. Active(item) = {i}
        BY <4>1, <2>1, <2>2, Parts DEF AlertsOK
      <4>3. Cardinality({i}) = 1
        BY FS_Singleton
      <4> QED
        BY <4>2, <4>3
    <3> QED
      BY <3>1, <3>2
  <2>4. ASSUME NEW item \in DOMAIN items \ (torn \cup touched)
        PROVE  Active(item) # {} <=> Low(item)
    BY <2>1, <2>2, Parts DEF AlertsOK, IsLow, Low, Effective
  <2> QED
    BY <2>3, <2>4 DEF AlertsFollowStock
<1> QED
  BY <1>1, Invariance, PTL

(* An addition or adjustment that was acknowledged is on disk after every   *)
(* restart.                                                                 *)
THEOREM AnswersStay == Spec => []AnswersAreDurable
<1>1. IInv => AnswersAreDurable
  BY DEF IInv
<1> QED
  BY <1>1, Invariance, PTL

(* Retries.  For a key no two requests looked up at once, and no crash cut  *)
(* short: one request at a time is past the lookup, and none once a         *)
(* response is stored; ...                                                 *)
OneAttempt(k) ==
  /\ \A t, u \in Thread :
       Between(t) /\ Between(u) /\ req[t].key = k /\ req[u].key = k => t = u
  /\ k \in DOMAIN keys => \A t \in Thread : req[t].key = k => ~Between(t)

(* ... it has one row of the history at most, and if so its response is     *)
(* stored or about to be; it moved stock once for that row, and never       *)
(* without one unless a request under it could not be stored; ...           *)
KeyRows(h, k) == {i \in DOMAIN h : h[i].key = k}
OneEffect(k) ==
  /\ \A i, j \in KeyRows(history, k) : i = j
  /\ KeyRows(history, k) # {} =>
       k \in DOMAIN keys \/ \E t \in Thread : pc[t] = "store" /\ req[t].key = k
  /\ Clean(k) => moves[k] = IF KeyRows(history, k) = {} THEN 0 ELSE 1

(* ... and a success that was answered is the stored one.                  *)
OneAnswer(k) ==
  \A t \in Thread : req[t].key = k /\ response[t].status = 200 =>
    pc[t] = "store" \/ (k \in DOMAIN keys /\ keys[k].response = response[t])

(* What a key moved is committed, if its requests could be stored.          *)
MovesKept == \A k \in Key : Clean(k) => disk.moves[k] = moves[k]

RetryInv ==
  /\ history = disk.history /\ MovesKept
  /\ \A t \in Thread : pc[t] = "serve" /\ req[t].op # "adjust_stock" => req[t].key = None
  /\ \A k \in Key \ raced : OneAttempt(k) /\ OneEffect(k) /\ OneAnswer(k)

(* A request that ends without a word about its key.                       *)
LEMMA OtherRetries ==
  ASSUME IInv, RetryInv, NEW t \in Thread, pc[t] = "serve", UNCHANGED <<keys, raced, req>>,
         history' = disk'.history,
         \A k \in Key : KeyRows(history', k) = KeyRows(history, k),
         \A k \in Key : Clean(k) => moves'[k] = moves[k] /\ disk'.moves[k] = moves'[k],
         pc' = [pc EXCEPT ![t] = "answered"],
         NEW told, response' = [response EXCEPT ![t] = told],
         req[t].key = None \/ told.status # 200
  PROVE  RetryInv'
<1>1. /\ pc'[t] = "answered" /\ response'[t] = told
      /\ \A u \in Thread : u # t => pc'[u] = pc[u] /\ response'[u] = response[u]
  BY DEF IInv, ThreadTypes
<1>2. \A u \in Thread : Between(u)' => Between(u)
  BY <1>1 DEF Between
<1>3. \A u \in Thread : pc[u] = "store" => pc'[u] = "store"
  BY <1>1
<1>6. \A k \in Key : Clean(k)' => Clean(k)
  BY <1>1 DEF Clean
<1>7. MovesKept'
  BY <1>6 DEF MovesKept
<1>4. ASSUME NEW k \in Key \ raced PROVE OneAttempt(k)' /\ OneEffect(k)' /\ OneAnswer(k)'
  <2>1. OneAttempt(k) /\ OneEffect(k) /\ OneAnswer(k)
    BY <1>4 DEF RetryInv
  <2>2. OneAttempt(k)'
    BY <2>1, <1>2 DEF OneAttempt
  <2>3. OneEffect(k)'
    BY <2>1, <1>3, <1>6 DEF OneEffect
  <2>4. k # None
    BY RequestsAssumption
  <2>5. OneAnswer(k)'
    BY <2>1, <2>4, <1>1 DEF OneAnswer
  <2> QED
    BY <2>2, <2>3, <2>5
<1>5. \A u \in Thread : pc'[u] = "serve" /\ req'[u].op # "adjust_stock" => req'[u].key = None
  BY <1>1 DEF RetryInv
<1> QED
  BY <1>4, <1>5, <1>7 DEF RetryInv

(* A request that is answered and leaves the history alone.                *)
LEMMA AnsweredRetries ==
  ASSUME IInv, RetryInv, NEW t \in Thread, pc[t] = "serve", UNCHANGED <<history, keys, moves, raced>>,
         disk' = disk \/ Commit, NEW status, NEW quantity, NEW version,
         Answer(t, status, quantity, version),
         req[t].key = None \/ status # 200
  PROVE  RetryInv'
<1>1. history' = disk'.history
  BY Parts DEF RetryInv, Commit
<1>2. \A k \in Key : Clean(k) => disk'.moves[k] = moves'[k]
  BY Parts DEF RetryInv, MovesKept, Commit
<1> QED
  BY <1>1, <1>2, OtherRetries DEF Answer

LEMMA ReceiveRetries ==
  ASSUME IInv, RetryInv, NEW t \in Thread, Receive(t) PROVE RetryInv'
<1>1. pc[t] = "idle" /\ UNCHANGED <<history, keys, moves, disk, raced>>
  BY DEF Receive, tables, ghosts
<1>2. /\ pc \in [Thread -> {"idle", "lookup", "serve", "store", "answered", "lost"}]
      /\ response \in [Thread -> Response] /\ req \in [Thread -> Requests]
      /\ response[t] = NoResponse /\ NoResponse.status = 0
  BY <1>1 DEF IInv, ThreadTypes, Silent, NoResponse
<1>3. PICK r \in Requests :
        /\ req' = [req EXCEPT ![t] = r]
        /\ IF Allowed(r.role, r.op)
           THEN /\ pc' = [pc EXCEPT ![t] =
                           IF r.op = "adjust_stock" /\ r.key # None THEN "lookup" ELSE "serve"]
                /\ UNCHANGED response
           ELSE /\ pc' = [pc EXCEPT ![t] = "answered"]
                /\ response' = [response EXCEPT ![t].status = IF r.role = None THEN 401 ELSE 403]
  BY DEF Receive
<1>4. r.key # None => r.op = "adjust_stock"
  BY RequestsAssumption
<1>5. /\ req'[t] = r /\ response'[t].status # 200
      /\ pc'[t] = "serve" => r.key = None
      /\ pc'[t] # "store"
      /\ \A u \in Thread : u # t =>
           req'[u] = req[u] /\ pc'[u] = pc[u] /\ response'[u] = response[u]
  <2>1. req'[t] = r /\ \A u \in Thread : u # t => req'[u] = req[u]
    BY <1>2, <1>3
  <2>2. CASE Allowed(r.role, r.op)
    BY <2>1, <2>2, <1>2, <1>3, <1>4
  <2>3. CASE ~Allowed(r.role, r.op)
    <3>1. response' = [response EXCEPT ![t] =
                        [response[t] EXCEPT !.status = IF r.role = None THEN 401 ELSE 403]]
      BY <1>3, <2>3
    <3>2. [NoResponse EXCEPT !.status = IF r.role = None THEN 401 ELSE 403].status # 200
      BY DEF NoResponse
    <3> QED
      BY <2>1, <2>3, <3>1, <3>2, <1>2, <1>3
  <2> QED
    BY <2>2, <2>3
<1>8. \A k \in Key : Clean(k)' => Clean(k)
  BY <1>1, <1>5 DEF Clean
<1>9. MovesKept'
  BY <1>1, <1>8 DEF RetryInv, MovesKept
<1>6. ASSUME NEW k \in Key \ raced PROVE OneAttempt(k)' /\ OneEffect(k)' /\ OneAnswer(k)'
  <2>1. OneAttempt(k) /\ OneEffect(k) /\ OneAnswer(k) /\ k # None
    BY <1>6, RequestsAssumption DEF RetryInv
  <2>2. \A u \in Thread : Between(u)' /\ req'[u].key = k => Between(u) /\ req[u].key = k
    BY <1>5, <2>1 DEF Between
  <2>3. OneAttempt(k)'
    BY <2>1, <2>2, <1>1 DEF OneAttempt
  <2>4. OneEffect(k)'
    BY <2>1, <1>1, <1>5, <1>8 DEF OneEffect, KeyRows
  <2>5. OneAnswer(k)'
    BY <2>1, <1>1, <1>5 DEF OneAnswer
  <2> QED
    BY <2>3, <2>4, <2>5
<1>7. \A u \in Thread : pc'[u] = "serve" /\ req'[u].op # "adjust_stock" => req'[u].key = None
  BY <1>5 DEF RetryInv
<1> QED
  BY <1>1, <1>6, <1>7, <1>9 DEF RetryInv

LEMMA LookupRetries ==
  ASSUME IInv, RetryInv, NEW t \in Thread, Lookup(t) PROVE RetryInv'
<1> DEFINE key == req[t].key
<1>1. /\ pc[t] = "lookup" /\ UNCHANGED <<history, keys, moves, disk, req>>
      /\ req[t].op = "adjust_stock" /\ raced \subseteq raced'
  BY DEF Lookup, tables, ghosts, Answer, IInv, Keyed
<1>2. /\ pc \in [Thread -> {"idle", "lookup", "serve", "store", "answered", "lost"}]
      /\ response \in [Thread -> Response]
      /\ response[t] = NoResponse /\ NoResponse.status = 0
  BY <1>1 DEF IInv, ThreadTypes, Silent, NoResponse
<1>3. /\ \A u \in Thread : u # t => pc'[u] = pc[u] /\ response'[u] = response[u]
      /\ pc'[t] \in {"serve", "answered"}
  BY <1>2 DEF Lookup, Answer
<1>4. \A u \in Thread : pc'[u] = "serve" /\ req'[u].op # "adjust_stock" => req'[u].key = None
  BY <1>1, <1>3 DEF RetryInv
<1>6. \A k \in Key : Clean(k)' => Clean(k)
  BY <1>1, <1>3 DEF Clean
<1>7. MovesKept'
  BY <1>1, <1>6 DEF RetryInv, MovesKept
<1>5. ASSUME NEW k \in Key \ raced' PROVE OneAttempt(k)' /\ OneEffect(k)' /\ OneAnswer(k)'
  <2>1. OneAttempt(k) /\ OneEffect(k) /\ OneAnswer(k)
    BY <1>1, <1>5 DEF RetryInv
  <2>2. OneEffect(k)'
    BY <2>1, <1>1, <1>3, <1>6 DEF OneEffect, KeyRows
  <2>3. CASE key \notin DOMAIN keys
    <3>1. /\ pc' = [pc EXCEPT ![t] = "serve"] /\ response' = response
          /\ key = k => ~ \E u \in Thread : req[u].key = k /\ Between(u)
      BY <2>3, <1>5 DEF Lookup
    <3>2. OneAttempt(k)'
      BY <2>1, <2>3, <3>1, <1>1, <1>2, <1>3 DEF OneAttempt, Between
    <3>3. OneAnswer(k)'
      BY <2>1, <3>1, <1>1, <1>2, <1>3 DEF OneAnswer
    <3> QED
      BY <2>2, <3>2, <3>3
  <2>4. CASE key \in DOMAIN keys
    <3>1. pc'[t] = "answered" /\ (response'[t].status = 409 \/ response'[t] = keys[key].response)
      BY <2>4, <1>2 DEF Lookup, Answer
    <3>2. OneAttempt(k)'
      BY <2>1, <3>1, <1>1, <1>3 DEF OneAttempt, Between
    <3>3. OneAnswer(k)'
      BY <2>1, <2>4, <3>1, <1>1, <1>3 DEF OneAnswer
    <3> QED
      BY <2>2, <3>2, <3>3
  <2> QED
    BY <2>3, <2>4
<1> QED
  BY <1>1, <1>4, <1>5, <1>7 DEF RetryInv

(* A movement of stock adds one row, with the request's key, and is         *)
(* committed; or adds none, if the request cannot be stored.               *)
LEMMA MovedRows ==
  ASSUME IInv, RetryInv, NEW t \in Thread, pc[t] = "serve", NEW row, Move(t, row)
  PROVE  /\ history' = disk'.history /\ keys' = keys /\ raced' = raced
         /\ ~req[t].storable => history' = history
         /\ req[t].storable => \A k \in Key :
              KeyRows(history', k) =
                IF req[t].key = k THEN KeyRows(history, k) \cup {Len(history) + 1}
                ELSE KeyRows(history, k)
         /\ \A k \in Key : Clean(k) =>
              /\ disk'.moves[k] = moves'[k]
              /\ moves'[k] = IF req[t].key = k THEN moves[k] + 1 ELSE moves[k]
              /\ req[t].key = k => req[t].storable
<1>1. keys' = keys /\ raced' = raced
  BY DEF Move
<1>4. \A k \in Key : moves'[k] = IF req[t].key = k THEN moves[k] + 1 ELSE moves[k]
  <2>1. moves \in [Key -> Nat]
    BY Parts DEF IInv, TablesInv, Good, TablesOK
  <2> QED
    BY <2>1 DEF Move
<1>5. \A k \in Key : Clean(k) /\ req[t].key = k => req[t].storable
  BY DEF Clean
<1>2. CASE ~req[t].storable
  <2>1. disk' = disk /\ history' = history
    BY <1>2 DEF Move
  <2> QED
    BY <1>1, <1>2, <1>4, <1>5, <2>1 DEF RetryInv, MovesKept
<1>3. CASE req[t].storable
  <2> DEFINE e == Entry(t, row.quantity)
  <2>1. history' = Append(history, e) /\ Commit
    BY <1>3 DEF Move
  <2>2. history' = disk'.history /\ disk'.moves = moves'
    BY <2>1, Parts DEF Commit
  <2>3. history \in Seq(Entries)
    BY Parts DEF IInv, TablesInv, Good, TablesOK, Entries
  <2>4. e.key = req[t].key
    BY DEF Entry
  <2> HIDE DEF e
  <2>5. /\ Len(history) \in Nat /\ DOMAIN history = 1 .. Len(history)
        /\ DOMAIN history' = 1 .. Len(history) + 1 /\ history'[Len(history) + 1] = e
        /\ \A i \in 1 .. Len(history) : history'[i] = history[i]
    BY <2>1, <2>3
  <2>6. \A k \in Key :
          KeyRows(history', k) =
            IF req[t].key = k THEN KeyRows(history, k) \cup {Len(history) + 1}
            ELSE KeyRows(history, k)
    BY <2>4, <2>5 DEF KeyRows
  <2> QED
    BY <1>1, <1>3, <1>4, <1>5, <2>2, <2>6
<1> QED
  BY <1>2, <1>3

LEMMA AddStockRetries ==
  ASSUME IInv, RetryInv, NEW t \in Thread, AddStock(t) PROVE RetryInv'
<1>1. pc[t] = "serve" /\ req[t].key = None /\ None \notin Key
  BY RequestsAssumption DEF AddStock, Serving, RetryInv
<1>2. CASE \E code \in {400, 404, 500} : Refuse(t, code)
  BY <1>1, <1>2, AnsweredRetries DEF Refuse, tables, ghosts
<1>3. CASE ~ \E code \in {400, 404, 500} : Refuse(t, code)
  <2>1. \E row : Move(t, row) /\ \E status, quantity, version : Answer(t, status, quantity, version)
    BY <1>3 DEF AddStock
  <2>2. PICK row, status, quantity, version : Move(t, row) /\ Answer(t, status, quantity, version)
    BY <2>1
  <2>3. /\ history' = disk'.history /\ keys' = keys /\ raced' = raced
        /\ \A k \in Key : KeyRows(history', k) = KeyRows(history, k)
    BY <1>1, <2>2, MovedRows
  <2>4. \A k \in Key : Clean(k) => moves'[k] = moves[k] /\ disk'.moves[k] = moves'[k]
    BY <1>1, <2>2, MovedRows
  <2> QED
    BY <1>1, <2>2, <2>3, <2>4, OtherRetries DEF Answer
<1> QED
  BY <1>2, <1>3

LEMMA AdjustStockRetries ==
  ASSUME IInv, RetryInv, NEW t \in Thread, AdjustStock(t) PROVE RetryInv'
<1> DEFINE key == req[t].key
           n   == Len(history) + 1
<1>1. pc[t] = "serve" /\ Between(t)
  BY DEF AdjustStock, Serving, Between
<1>2. CASE \E code \in {400, 404, 500} : Refuse(t, code)
  BY <1>1, <1>2, AnsweredRetries DEF Refuse, tables, ghosts
<1>3. CASE ~ \E code \in {400, 404, 500} : Refuse(t, code)
  <2>1. PICK row :
          /\ Move(t, row)
          /\ IF ~req[t].storable THEN Answer(t, 500, 0, 0)
             ELSE IF key = None THEN Answer(t, 200, row.quantity, row.version)
             ELSE /\ pc' = [pc EXCEPT ![t] = "store"]
                  /\ response' = [response EXCEPT ![t] =
                       [status |-> 200, quantity |-> row.quantity, version |-> row.version]]
                  /\ UNCHANGED req
    BY <1>3 DEF AdjustStock
  <2>2. /\ history' = disk'.history /\ keys' = keys /\ raced' = raced
        /\ ~req[t].storable => history' = history
        /\ req[t].storable => \A k \in Key :
             KeyRows(history', k) = IF key = k THEN KeyRows(history, k) \cup {n} ELSE KeyRows(history, k)
        /\ \A k \in Key : Clean(k) =>
             /\ disk'.moves[k] = moves'[k]
             /\ moves'[k] = IF key = k THEN moves[k] + 1 ELSE moves[k]
             /\ key = k => req[t].storable
    BY <1>1, <2>1, MovedRows
  <2>3. CASE ~req[t].storable
    <3>1. Answer(t, 500, 0, 0) /\ \A k \in Key : KeyRows(history', k) = KeyRows(history, k)
      BY <2>1, <2>2, <2>3
    <3> DEFINE told == [status |-> 500, quantity |-> 0, version |-> 0]
    <3>2. /\ pc' = [pc EXCEPT ![t] = "answered"] /\ req' = req
          /\ response' = [response EXCEPT ![t] = told]
      BY <3>1 DEF Answer
    <3>3. told.status # 200
      OBVIOUS
    <3>4. \A k \in Key : Clean(k) => moves'[k] = moves[k] /\ disk'.moves[k] = moves'[k]
      BY <2>2, <2>3
    <3> HIDE DEF told
    <3> QED
      BY <1>1, <2>2, <3>1, <3>2, <3>3, <3>4, OtherRetries
  <2>4. CASE req[t].storable /\ key = None
    <3>1. Answer(t, 200, row.quantity, row.version)
      BY <2>1, <2>4
    <3>2. \A k \in Key : KeyRows(history', k) = KeyRows(history, k)
      BY <2>2, <2>4, RequestsAssumption
    <3>3. \A k \in Key : Clean(k) => moves'[k] = moves[k] /\ disk'.moves[k] = moves'[k]
      <4> HIDE DEF key
      <4> QED
        BY <2>2, <2>4, RequestsAssumption
    <3> QED
      BY <1>1, <2>2, <2>4, <3>1, <3>2, <3>3, OtherRetries DEF Answer
  <2>5. CASE req[t].storable /\ key # None
    <3>1. /\ pc' = [pc EXCEPT ![t] = "store"] /\ req' = req
          /\ \E told : response' = [response EXCEPT ![t] = told]
      BY <2>1, <2>5
    <3>2. /\ pc'[t] = "store"
          /\ \A u \in Thread : u # t => pc'[u] = pc[u] /\ response'[u] = response[u]
      BY <3>1 DEF IInv, ThreadTypes
    <3>3. \A u \in Thread : Between(u)' <=> Between(u)
      BY <1>1, <3>2 DEF Between
    <3>6. \A k \in Key : Clean(k)' => Clean(k)
      BY <1>1, <3>1, <3>2 DEF Clean
    <3>7. MovesKept'
      BY <2>2, <3>6 DEF MovesKept
    <3>4. ASSUME NEW k \in Key \ raced PROVE OneAttempt(k)' /\ OneEffect(k)' /\ OneAnswer(k)'
      <4>1. OneAttempt(k) /\ OneEffect(k) /\ OneAnswer(k)
        BY <3>4 DEF RetryInv
      <4>2. OneAttempt(k)'
        BY <4>1, <3>1, <3>3, <2>2 DEF OneAttempt
      <4>3. OneAnswer(k)'
        BY <4>1, <3>1, <3>2, <2>2 DEF OneAnswer
      <4>4. CASE key = k
        <5>1. k \notin DOMAIN keys /\ \A u \in Thread : ~(pc[u] = "store" /\ req[u].key = k)
          BY <4>1, <4>4, <1>1 DEF OneAttempt, Between
        <5>2. KeyRows(history, k) = {}
          BY <4>1, <5>1 DEF OneEffect
        <5>3. KeyRows(history', k) = {n}
          BY <5>2, <4>4, <2>2, <2>5
        <5>4. pc'[t] = "store" /\ req'[t].key = k
          BY <3>1, <3>2, <4>4
        <5>6. Clean(k)' => moves'[k] = 1
          BY <5>2, <4>1, <4>4, <3>6, <2>2 DEF OneEffect
        <5> HIDE DEF n, key
        <5>5. OneEffect(k)'
          BY <5>3, <5>4, <5>6 DEF OneEffect
        <5> QED
          BY <4>2, <4>3, <5>5
      <4>5. CASE key # k
        <5>1. KeyRows(history', k) = KeyRows(history, k)
          BY <4>5, <2>2, <2>5
        <5>2. \A u \in Thread : pc[u] = "store" => pc'[u] = "store"
          BY <3>2
        <5>3. OneEffect(k)'
          BY <5>1, <5>2, <4>1, <4>5, <3>1, <3>6, <2>2 DEF OneEffect
        <5> QED
          BY <4>2, <4>3, <5>3
      <4> QED
        BY <4>4, <4>5
    <3>5. \A u \in Thread : pc'[u] = "serve" /\ req'[u].op # "adjust_stock" => req'[u].key = None
      BY <3>1, <3>2 DEF RetryInv
    <3> QED
      BY <3>4, <3>5, <3>7, <2>2 DEF RetryInv
  <2> QED
    BY <2>3, <2>4, <2>5
<1> QED
  BY <1>2, <1>3

LEMMA StoreResponseRetries ==
  ASSUME IInv, RetryInv, NEW t \in Thread, StoreResponse(t) PROVE RetryInv'
<1> DEFINE key == req[t].key
           new == [request |-> Body(req[t]), response |-> response[t]]
<1>1. /\ pc[t] = "store" /\ Between(t) /\ UNCHANGED <<history, moves, req, response, raced>>
      /\ keys' = Stored(t) /\ pc' = [pc EXCEPT ![t] = "answered"]
      /\ disk' = disk \/ Commit
  BY DEF StoreResponse, ghosts, Between
<1>2. history' = disk'.history
  BY <1>1, Parts DEF RetryInv, Commit
<1>3. pc'[t] = "answered" /\ \A u \in Thread : u # t => pc'[u] = pc[u]
  BY <1>1 DEF IInv, ThreadTypes
<1>4. \A u \in Thread : Between(u)' <=> Between(u) /\ u # t
  BY <1>3 DEF Between
<1>7. \A k \in Key : Clean(k)' => Clean(k)
  BY <1>1, <1>3 DEF Clean
<1>8. MovesKept'
  BY <1>1, <1>7, Parts DEF RetryInv, MovesKept, Commit
<1>5. ASSUME NEW k \in Key \ raced' PROVE OneAttempt(k)' /\ OneEffect(k)' /\ OneAnswer(k)'
  <2>1. OneAttempt(k) /\ OneEffect(k) /\ OneAnswer(k)
    BY <1>1, <1>5 DEF RetryInv
  <2>2. CASE key = k
    <3>1. /\ k \notin DOMAIN keys
          /\ \A u \in Thread : u # t /\ req[u].key = k => ~Between(u)
      BY <2>1, <2>2, <1>1 DEF OneAttempt
    <3>2. keys' = Put(keys, k, new)
      BY <3>1, <2>2, <1>1 DEF Stored
    <3>3. k \in DOMAIN keys' /\ keys'[k] = new
      <4>1. keys' = [z \in DOMAIN keys \cup {k} |-> IF z = k THEN new ELSE keys[z]]
        BY <3>2 DEF Put
      <4> HIDE DEF new
      <4> QED
        BY <4>1
    <3>4. OneAttempt(k)'
      BY <3>1, <1>1, <1>4 DEF OneAttempt
    <3>5. OneEffect(k)'
      BY <2>1, <3>3, <1>1, <1>7 DEF OneEffect
    <3>6. \A u \in Thread : req[u].key = k /\ response[u].status = 200 => u = t
      BY <2>1, <3>1 DEF OneAnswer, Between
    <3>7. OneAnswer(k)'
      BY <3>3, <3>6, <1>1 DEF OneAnswer
    <3> QED
      BY <3>4, <3>5, <3>7
  <2>3. CASE key # k
    <3>1. /\ k \in DOMAIN keys' <=> k \in DOMAIN keys
          /\ k \in DOMAIN keys => keys'[k] = keys[k]
      <4> HIDE DEF new
      <4>1. keys' = keys \/ keys' = [z \in DOMAIN keys \cup {key} |-> IF z = key THEN new ELSE keys[z]]
        BY <1>1 DEF Stored, Put, new
      <4> HIDE DEF key
      <4> QED
        BY <4>1, <2>3
    <3>2. OneAttempt(k)'
      BY <2>1, <3>1, <1>1, <1>4 DEF OneAttempt
    <3>3. OneEffect(k)'
      BY <2>1, <2>3, <3>1, <1>1, <1>3, <1>7 DEF OneEffect
    <3>4. OneAnswer(k)'
      BY <2>1, <2>3, <3>1, <1>1, <1>3 DEF OneAnswer
    <3> QED
      BY <3>2, <3>3, <3>4
  <2> QED
    BY <2>2, <2>3
<1>6. \A u \in Thread : pc'[u] = "serve" /\ req'[u].op # "adjust_stock" => req'[u].key = None
  BY <1>1, <1>3 DEF RetryInv
<1> QED
  BY <1>2, <1>5, <1>6, <1>8 DEF RetryInv

(* The other requests never touch a key.                                   *)
LEMMA OtherRequestsRetries ==
  ASSUME IInv, RetryInv, NEW t \in Thread,
         \/ CreateWarehouse(t) \/ CreateProduct(t) \/ SetThreshold(t) \/ SetDefault(t)
         \/ ResolveAlert(t) \/ Read(t)
  PROVE  RetryInv'
<1>1. pc[t] = "serve" /\ req[t].op # "adjust_stock"
  BY DEF CreateWarehouse, CreateProduct, SetThreshold, SetDefault, ResolveAlert, Read, Serving, Reads
<1>2. req[t].key = None
  BY <1>1 DEF RetryInv
<1>3. /\ UNCHANGED <<history, keys, moves, raced>> /\ (disk' = disk \/ Commit)
      /\ \E status, quantity, version : Answer(t, status, quantity, version)
  BY DEF CreateWarehouse, CreateProduct, SetThreshold, SetDefault, ResolveAlert, Read, Refuse, Ok,
         tables, ghosts
<1> QED
  BY <1>1, <1>2, <1>3, AnsweredRetries

(* A restart loses no key, and a response that was about to be stored is    *)
(* one of those the property excuses.                                      *)
LEMMA CrashRetries == ASSUME IInv, RetryInv, Crash PROVE RetryInv'
<1>1. /\ history' = disk.history /\ keys' = disk.keys /\ moves' = disk.moves
      /\ pc' = [t \in Thread |-> IF pc[t] \in {"idle", "answered"} THEN pc[t] ELSE "lost"]
      /\ raced' = raced \cup {req[t].key : t \in {u \in Thread : pc[u] = "store"}}
      /\ UNCHANGED <<disk, req, response>>
  BY DEF Crash
<1>2. keys' = keys /\ history' = history /\ disk.history = history
  BY <1>1 DEF IInv, TablesInv, RetryInv
<1>3. \A u \in Thread : pc'[u] \notin {"serve", "store"}
  BY <1>1
<1>5. \A k \in Key : Clean(k)' => Clean(k)
  BY <1>1 DEF Clean
<1>6. MovesKept' /\ \A k \in Key : Clean(k) => moves'[k] = moves[k]
  BY <1>1, <1>5 DEF RetryInv, MovesKept
<1>4. ASSUME NEW k \in Key \ raced' PROVE OneAttempt(k)' /\ OneEffect(k)' /\ OneAnswer(k)'
  <2>1. k \notin raced /\ \A u \in Thread : req[u].key = k => pc[u] # "store"
    BY <1>1, <1>4
  <2>2. OneAttempt(k) /\ OneEffect(k) /\ OneAnswer(k)
    BY <2>1, <1>4 DEF RetryInv
  <2>3. OneAttempt(k)'
    BY <1>3 DEF OneAttempt, Between
  <2>4. OneEffect(k)'
    BY <1>2, <1>5, <1>6, <2>1, <2>2 DEF OneEffect
  <2>5. OneAnswer(k)'
    BY <1>1, <1>2, <2>1, <2>2 DEF OneAnswer
  <2> QED
    BY <2>3, <2>4, <2>5
<1> QED
  BY <1>1, <1>2, <1>3, <1>4, <1>6 DEF RetryInv

LEMMA RetriesInvariance == Spec => []RetryInv
<1>1. Init => RetryInv
  <2> SUFFICES ASSUME Init PROVE RetryInv
    OBVIOUS
  <2>1. /\ history = <<>> /\ keys = Empty /\ DOMAIN Empty = {} /\ disk.history = history
        /\ moves = [k \in Key |-> 0] /\ disk.moves = moves
        /\ pc = [t \in Thread |-> "idle"] /\ response = [t \in Thread |-> NoResponse]
    BY Parts DEF Init, Empty
  <2>2. \A k : KeyRows(history, k) = {}
    BY <2>1 DEF KeyRows
  <2> QED
    BY <2>1, <2>2 DEF RetryInv, MovesKept, OneAttempt, OneEffect, OneAnswer, NoResponse, Between
<1>2. IInv /\ RetryInv /\ [Next]_vars => RetryInv'
  <2> SUFFICES ASSUME IInv, RetryInv, [Next]_vars PROVE RetryInv'
    OBVIOUS
  <2>1. CASE Crash
    BY <2>1, CrashRetries
  <2>2. ASSUME NEW t \in Thread, Serve(t) PROVE RetryInv'
    BY <2>2, ReceiveRetries, LookupRetries, AddStockRetries, AdjustStockRetries,
       StoreResponseRetries, OtherRequestsRetries DEF Serve
  <2>3. CASE UNCHANGED vars
    BY <2>3 DEF vars, tables, threads, ghosts, RetryInv, MovesKept, OneAttempt, OneEffect,
       OneAnswer, KeyRows, Between, Clean
  <2> QED
    BY <2>1, <2>2, <2>3 DEF Next
<1> QED
  BY <1>1, <1>2, Invariance, PTL DEF Spec

(* api.py 149-168: a key that is retried, also after a restart, adds one    *)
(* row and is answered the same, and moves stock once if every request      *)
(* under it can be stored; unless the retries overlap or a crash cut one    *)
(* short.                                                                   *)
THEOREM RetriesAreSafe == Spec => []RetriesApplyOnce
<1>1. IInv /\ RetryInv => RetriesApplyOnce
  <2> SUFFICES ASSUME IInv, RetryInv, NEW k \in Key \ raced
               PROVE  /\ Cardinality(KeyRows(history, k)) <= 1
                      /\ \A t, u \in Thread :
                           req[t].key = k /\ req[u].key = k /\ response[t].status = 200
                             /\ response[u].status = 200 => response[t] = response[u]
                      /\ Clean(k) => moves[k] <= 1
    BY DEF RetriesApplyOnce, KeyRows
  <2>1. OneAttempt(k) /\ OneEffect(k) /\ OneAnswer(k)
    BY DEF RetryInv
  <2>2. Cardinality(KeyRows(history, k)) <= 1
    <3>1. CASE KeyRows(history, k) = {}
      BY <3>1, FS_EmptySet
    <3>2. CASE KeyRows(history, k) # {}
      <4>1. PICK i \in KeyRows(history, k) : TRUE
        BY <3>2
      <4>2. KeyRows(history, k) = {i}
        BY <4>1, <2>1 DEF OneEffect
      <4>3. Cardinality({i}) = 1
        BY FS_Singleton
      <4> QED
        BY <4>2, <4>3
    <3> QED
      BY <3>1, <3>2
  <2>3. ASSUME NEW t \in Thread, NEW u \in Thread, req[t].key = k, req[u].key = k,
               response[t].status = 200, response[u].status = 200
        PROVE  response[t] = response[u]
    BY <2>1, <2>3 DEF OneAttempt, OneAnswer, Between
  <2>4. Clean(k) => moves[k] <= 1
    BY <2>1 DEF OneEffect
  <2> QED
    BY <2>2, <2>3, <2>4
<1> QED
  BY <1>1, Invariance, RetriesInvariance, PTL
================================================================================
