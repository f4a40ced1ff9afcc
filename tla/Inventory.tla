------------------------------- MODULE Inventory -------------------------------
(***************************************************************************)
(* The inventory service the agent built (examples/llm-run-inventory): a    *)
(* thread per HTTP request, one SQLite connection they share, and one lock  *)
(* around each method of the service.  A section under the lock is a step;  *)
(* an adjustment with an Idempotency-Key is three of them.  The tables are  *)
(* what the connection sees, disk what was last committed.                  *)
(***************************************************************************)
EXTENDS Integers, Sequences, FiniteSets

CONSTANTS
  Thread,               \* requests that are served
  Warehouse, Product,   \* ids uuid4() may return
  Sku, Key,             \* stock keeping units, Idempotency-Keys
  Requests,             \* what clients may send
  Catalogs,             \* what the database may hold at the start
  MaxInt,               \* the largest integer SQLite stores
  MaxCrashes            \* bound: how often the process dies

None == "none"
NoThreshold == -1       \* NULL, or the field is missing

Item == Warehouse \X Product
Role == {"READ", "WRITE", "ADMIN", None}
Reads  == {"get_warehouse", "list_warehouses", "get_product", "list_products", "get_stock",
           "list_stock_by_product", "list_stock_by_warehouse", "list_alerts", "get_history"}
Writes == {"create_warehouse", "create_product", "add_stock", "adjust_stock",
           "set_threshold", "set_default_threshold", "resolve_alert"}

Request ==
  [op : Reads \cup Writes,
   role      : Role,          \* of the API key that came along
   item      : Item,          \* warehouse_id and product_id
   named     : BOOLEAN,       \* a name came along (and a sku, for a product)
   sku       : Sku,
   amount    : Int,           \* quantity or delta, value of a default threshold
   threshold : Int,
   alert     : Nat,           \* the alert to resolve, by number
   key       : Key \cup {None},   \* Idempotency-Key: only adjust_stock looks at it
   storable  : BOOLEAN]       \* its texts are scalars the driver can bind

ASSUME RequestsAssumption ==
  /\ Requests \subseteq {r \in Request : r.key # None => r.op = "adjust_stock"}
  /\ Requests # {} /\ None \notin Key
ASSUME CatalogsAssumption ==
  Catalogs \subseteq {c \in [warehouses : SUBSET Warehouse, skus : UNION {[P -> Sku] : P \in SUBSET Product}] :
                        \A p, q \in DOMAIN c.skus : c.skus[p] = c.skus[q] => p = q}
ASSUME LimitsAssumption   == MaxInt \in Nat /\ MaxCrashes \in Nat

VARIABLES
  warehouses, skus,     \* ids in use; product id -> sku
  items,                \* stock_items: item -> [quantity, version, threshold]
  default,              \* global_threshold
  history,              \* stock_adjustments, oldest first
  alerts,               \* alerts, oldest first
  keys,                 \* idempotency_keys: key -> [request, response]
  moves,                \* no table: how often each key moved stock, for the properties only
  disk,                 \* the tables as last committed
  published,            \* alerts on the event bus, gone with the process
  req, pc, response,    \* per thread: its request, where it is, its answer
  crashes,              \* how many are left
  torn, raced, touched  \* history variables, see the properties

tables  == <<warehouses, skus, items, default, history, alerts, keys, moves>>
Tables  == [warehouses |-> warehouses, skus |-> skus, items |-> items, default |-> default,
            history |-> history, alerts |-> alerts, keys |-> keys, moves |-> moves]
catalog == <<warehouses, skus>>
threads == <<req, pc, response>>
ghosts  == <<torn, raced, touched>>
vars    == <<tables, disk, published, threads, crashes, ghosts>>

NoResponse == [status |-> 0, quantity |-> 0, version |-> 0]
Empty == [x \in {} |-> 0]

Init ==
  /\ \E c \in Catalogs : warehouses = c.warehouses /\ skus = c.skus
  /\ items = Empty /\ default = NoThreshold
  /\ history = <<>> /\ alerts = <<>> /\ keys = Empty /\ moves = [k \in Key |-> 0]
  /\ disk = Tables
  /\ published = {}
  /\ req = [t \in Thread |-> CHOOSE r \in Requests : TRUE] /\ pc = [t \in Thread |-> "idle"]
  /\ response = [t \in Thread |-> NoResponse]
  /\ crashes = MaxCrashes
  /\ torn = {} /\ raced = {} /\ touched = {}

Put(f, x, y) == [z \in DOMAIN f \cup {x} |-> IF z = x THEN y ELSE f[z]]

(* The connection has no transaction of its own for a request: a commit     *)
(* takes along whatever an earlier request left uncommitted.                *)
(* mutant: nothing is committed before the connection is closed. *)
Commit_mutant == UNCHANGED disk
Commit ==
  disk' = Tables'

Answer(t, status, quantity, version) ==
  /\ pc' = [pc EXCEPT ![t] = "answered"]
  /\ response' = [response EXCEPT ![t] = [status |-> status, quantity |-> quantity,
                                          version |-> version]]
  /\ UNCHANGED req

Ok(t)           == Answer(t, 200, 0, 0)
Refuse(t, code) == Answer(t, code, 0, 0) /\ UNCHANGED <<tables, disk, published, ghosts>>
-----------------------------------------------------------------------------
Known(item) == item[1] \in warehouses /\ item[2] \in DOMAIN skus

Allowed(role, op) ==
  IF op \in Reads THEN role \in {"READ", "WRITE", "ADMIN"} ELSE role \in {"WRITE", "ADMIN"}

(* A request arrives; _dispatch: the role decides before the handler runs.  *)
Receive(t) ==
  /\ pc[t] = "idle"
  /\ \E r \in Requests :
       /\ req' = [req EXCEPT ![t] = r]
       /\ IF Allowed(r.role, r.op)
          THEN /\ pc' = [pc EXCEPT ![t] =
                          IF r.op = "adjust_stock" /\ r.key # None THEN "lookup" ELSE "serve"]
               /\ UNCHANGED response
          ELSE /\ pc' = [pc EXCEPT ![t] = "answered"]
               /\ response' = [response EXCEPT ![t].status = IF r.role = None THEN 401 ELSE 403]
  /\ UNCHANGED <<tables, disk, published, crashes, ghosts>>

Between(t) == pc[t] \in {"serve", "store"}   \* looked up, not stored yet

(* The payload request_hash is taken of.                                   *)
Body(r) == [item |-> r.item, amount |-> r.amount, storable |-> r.storable]

(* get_idempotent_response, and what h_adjust_stock makes of it.           *)
Lookup(t) ==
  /\ pc[t] = "lookup"
  /\ LET k == req[t].key IN
       IF k \notin DOMAIN keys
       THEN /\ pc' = [pc EXCEPT ![t] = "serve"]
            /\ raced' = IF \E u \in Thread : req[u].key = k /\ Between(u)
                        THEN raced \cup {k} ELSE raced
            /\ UNCHANGED <<req, response, torn, touched>>
       ELSE /\ IF keys[k].request # Body(req[t]) THEN Answer(t, 409, 0, 0)
               ELSE /\ pc' = [pc EXCEPT ![t] = "answered"]
                    /\ response' = [response EXCEPT ![t] = keys[k].response]
                    /\ UNCHANGED req
            /\ UNCHANGED ghosts
  /\ UNCHANGED <<tables, disk, published, crashes>>

Serving(t, op) == pc[t] = "serve" /\ req[t].op = op /\ UNCHANGED crashes

CreateWarehouse(t) ==
  /\ Serving(t, "create_warehouse")
  /\ IF ~req[t].named THEN Refuse(t, 400)
     ELSE IF ~req[t].storable THEN Refuse(t, 500)
     ELSE /\ \E w \in Warehouse \ warehouses :
               /\ warehouses' = warehouses \cup {w}
               /\ UNCHANGED <<skus, items, default, history, alerts, keys, moves>>
               /\ Commit /\ Answer(t, 201, 0, 0)
          /\ UNCHANGED <<published, ghosts>>

CreateProduct(t) ==
  /\ Serving(t, "create_product")
  /\ IF ~req[t].named THEN Refuse(t, 400)
     ELSE IF ~req[t].storable THEN Refuse(t, 500)
     ELSE IF \E p \in DOMAIN skus : skus[p] = req[t].sku THEN Refuse(t, 409)
     ELSE /\ \E p \in Product \ DOMAIN skus :
               /\ skus' = Put(skus, p, req[t].sku)
               /\ UNCHANGED <<warehouses, items, default, history, alerts, keys, moves>>
               /\ Commit /\ Answer(t, 201, 0, 0)
          /\ UNCHANGED <<published, ghosts>>

Effective(threshold) == IF threshold # NoThreshold THEN threshold ELSE default

Active(item) == {i \in DOMAIN alerts : alerts[i].item = item /\ alerts[i].active}
Resolved(which) ==
  [i \in DOMAIN alerts |-> IF i \in which THEN [alerts[i] EXCEPT !.active = FALSE] ELSE alerts[i]]

(* _evaluate_alert                                                         *)
(* mutant: every low reading raises an alert. *)
Evaluate_mutant(item, quantity, threshold) ==
  IF threshold = NoThreshold \/ quantity >= threshold
  THEN alerts' = Resolved(Active(item)) /\ UNCHANGED published
  ELSE /\ alerts' = Append(alerts, [item |-> item, active |-> TRUE])
       /\ published' = published \cup {Len(alerts) + 1}
Evaluate(item, quantity, threshold) ==
  IF threshold = NoThreshold \/ quantity >= threshold
  THEN alerts' = Resolved(Active(item)) /\ UNCHANGED published
  ELSE IF Active(item) # {} THEN UNCHANGED <<alerts, published>>
  ELSE /\ alerts' = Append(alerts, [item |-> item, active |-> TRUE])
       /\ published' = published \cup {Len(alerts) + 1}

(* One row of the history.  The key is in it for the properties only: the   *)
(* column idempotency_key is always NULL.                                   *)
(* mutant: the quantity before the adjustment. *)
Entry_mutant(t, quantity) ==
  [item |-> req[t].item, delta |-> req[t].amount, quantity |-> quantity - req[t].amount,
   key |-> req[t].key]
Entry(t, quantity) ==
  [item |-> req[t].item, delta |-> req[t].amount, quantity |-> quantity, key |-> req[t].key]

(* What add_stock and adjust_stock share: the item is written, then its     *)
(* history, then its alert, and all is committed.  An actor or reason that  *)
(* cannot be bound raises at the history; the item stays written and waits  *)
(* for the next commit.                                                     *)
Move(t, row) ==
  LET item == req[t].item IN
    /\ items' = Put(items, item, row)
    /\ moves' = [k \in Key |-> moves[k] + IF k = req[t].key THEN 1 ELSE 0]
    /\ UNCHANGED <<catalog, default, keys, raced>>
    /\ IF req[t].storable
       THEN /\ history' = Append(history, Entry(t, row.quantity))
            /\ Evaluate(item, row.quantity, Effective(row.threshold))
            /\ touched' = touched \ {item}
            /\ Commit /\ UNCHANGED torn
       ELSE /\ UNCHANGED <<history, alerts, published, disk, touched>>
            /\ torn' = torn \cup {item}

AddStock(t) ==
  /\ Serving(t, "add_stock")
  /\ LET r   == req[t]
         old == r.item \in DOMAIN items
         row == [quantity  |-> r.amount + IF old THEN items[r.item].quantity ELSE 0,
                 version   |-> 1 + IF old THEN items[r.item].version ELSE 0,
                 threshold |-> IF r.threshold # NoThreshold \/ ~old THEN r.threshold
                               ELSE items[r.item].threshold]
     IN IF r.amount <= 0 \/ r.threshold < NoThreshold THEN Refuse(t, 400)
        ELSE IF ~Known(r.item) THEN Refuse(t, 404)
        ELSE IF row.quantity > MaxInt \/ row.threshold > MaxInt THEN Refuse(t, 500)
        ELSE /\ Move(t, row)
             /\ IF r.storable THEN Answer(t, 201, row.quantity, row.version)
                ELSE Answer(t, 500, 0, 0)

AdjustStock(t) ==
  /\ Serving(t, "adjust_stock")
  /\ LET r   == req[t]
         row == [quantity  |-> items[r.item].quantity + r.amount,
                 version   |-> items[r.item].version + 1,
                 threshold |-> items[r.item].threshold]
     IN IF r.amount = 0 THEN Refuse(t, 400)
        ELSE IF ~Known(r.item) \/ r.item \notin DOMAIN items THEN Refuse(t, 404)
        ELSE IF row.quantity < 0 THEN Refuse(t, 400)
        ELSE IF row.quantity > MaxInt THEN Refuse(t, 500)
        ELSE /\ Move(t, row)
             /\ IF ~r.storable THEN Answer(t, 500, 0, 0)
                ELSE IF r.key = None THEN Answer(t, 200, row.quantity, row.version)
                ELSE /\ pc' = [pc EXCEPT ![t] = "store"]
                     /\ response' = [response EXCEPT ![t] =
                          [status |-> 200, quantity |-> row.quantity, version |-> row.version]]
                     /\ UNCHANGED req

(* store_idempotent_response: a key already there is left as it is.        *)
(* mutant: the response is not kept. *)
Stored_mutant(t) == keys
Stored(t) ==
  IF req[t].key \in DOMAIN keys THEN keys
  ELSE Put(keys, req[t].key, [request |-> Body(req[t]), response |-> response[t]])

StoreResponse(t) ==
  /\ pc[t] = "store"
  /\ keys' = Stored(t)
  /\ UNCHANGED <<catalog, items, default, history, alerts, moves>>
  /\ IF req[t].key \in DOMAIN keys THEN UNCHANGED disk ELSE Commit
  /\ pc' = [pc EXCEPT ![t] = "answered"]
  /\ UNCHANGED <<req, response, published, crashes, ghosts>>

(* Thresholds are written without a look at the alerts.                    *)
SetThreshold(t) ==
  /\ Serving(t, "set_threshold")
  /\ LET r == req[t] IN
       IF r.threshold < 0 THEN Refuse(t, 400)
       ELSE IF ~Known(r.item) THEN Refuse(t, 404)
       ELSE IF r.threshold > MaxInt THEN Refuse(t, 500)
       ELSE /\ items' = Put(items, r.item,
                 IF r.item \in DOMAIN items THEN [items[r.item] EXCEPT !.threshold = r.threshold]
                 ELSE [quantity |-> 0, version |-> 1, threshold |-> r.threshold])
            /\ touched' = touched \cup {r.item}
            /\ UNCHANGED <<catalog, default, history, alerts, keys, moves, published, torn, raced>>
            /\ Commit /\ Ok(t)

SetDefault(t) ==
  /\ Serving(t, "set_default_threshold")
  /\ LET r == req[t] IN
       IF r.amount < 0 THEN Refuse(t, 400)
       ELSE IF r.amount > MaxInt THEN Refuse(t, 500)
       ELSE /\ default' = r.amount
            /\ touched' = touched \cup {i \in DOMAIN items : items[i].threshold = NoThreshold}
            /\ UNCHANGED <<catalog, items, history, alerts, keys, moves, published, torn, raced>>
            /\ Commit /\ Ok(t)

ResolveAlert(t) ==
  /\ Serving(t, "resolve_alert")
  /\ LET i == req[t].alert IN
       IF i \notin DOMAIN alerts THEN Refuse(t, 404)
       ELSE /\ alerts' = Resolved({i})
            /\ touched' = touched \cup {alerts[i].item}
            /\ UNCHANGED <<catalog, items, default, history, keys, moves, published, torn, raced>>
            /\ IF alerts[i].active THEN Commit ELSE UNCHANGED disk
            /\ Ok(t)

(* The reads: what they ask for exists, or 404; the lists of all always do. *)
HasWarehouse(r) ==
  r.op \in {"get_warehouse", "list_stock_by_warehouse"} => r.item[1] \in warehouses
HasProduct(r) == r.op \in {"get_product", "list_stock_by_product"} => r.item[2] \in DOMAIN skus
HasStock(r)   == r.op = "get_stock" => Known(r.item) /\ r.item \in DOMAIN items
HasHistory(r) == r.op = "get_history" => Known(r.item)
Exists(r)     == HasWarehouse(r) /\ HasProduct(r) /\ HasStock(r) /\ HasHistory(r)

Read(t) ==
  /\ pc[t] = "serve" /\ req[t].op \in Reads /\ UNCHANGED crashes
  /\ IF ~Exists(req[t]) THEN Refuse(t, 404)
     ELSE /\ IF req[t].op = "get_stock"
             THEN Answer(t, 200, items[req[t].item].quantity, items[req[t].item].version)
             ELSE Ok(t)
          /\ UNCHANGED <<tables, disk, published, ghosts>>

(* The process dies and is started again: the tables are as committed, the  *)
(* event bus is empty and nobody is answered.                               *)
Crash ==
  /\ crashes > 0 /\ crashes' = crashes - 1
  /\ warehouses' = disk.warehouses /\ skus' = disk.skus /\ items' = disk.items
  /\ default' = disk.default /\ history' = disk.history /\ alerts' = disk.alerts
  /\ keys' = disk.keys /\ moves' = disk.moves
  /\ published' = {}
  /\ pc' = [t \in Thread |-> IF pc[t] \in {"idle", "answered"} THEN pc[t] ELSE "lost"]
  /\ raced' = raced \cup {req[t].key : t \in {u \in Thread : pc[u] = "store"}}
  /\ UNCHANGED <<disk, req, response, torn, touched>>

Serve(t) ==
  \/ Receive(t) \/ Lookup(t) \/ CreateWarehouse(t) \/ CreateProduct(t) \/ AddStock(t)
  \/ AdjustStock(t) \/ StoreResponse(t) \/ SetThreshold(t) \/ SetDefault(t)
  \/ ResolveAlert(t) \/ Read(t)

Next == Crash \/ \E t \in Thread : Serve(t)
Spec == Init /\ [][Next]_vars
-----------------------------------------------------------------------------
Row      == [quantity : 0 .. MaxInt, version : Nat, threshold : NoThreshold .. MaxInt]
Response == [status : Nat, quantity : 0 .. MaxInt, version : Nat]
Payload  == [item : Item, amount : Int, storable : BOOLEAN]

(* What each table may hold: no quantity is negative or beyond an integer   *)
(* of SQLite, in what is committed too.                                     *)
TablesOK(tb) ==
  /\ tb.warehouses \subseteq Warehouse /\ DOMAIN tb.skus \subseteq Product
  /\ DOMAIN tb.items \subseteq Item /\ tb.items \in [DOMAIN tb.items -> Row]
  /\ tb.default \in NoThreshold .. MaxInt
  /\ tb.history \in Seq([item : Item, delta : Int, quantity : 0 .. MaxInt, key : Key \cup {None}])
  /\ tb.alerts \in Seq([item : Item, active : BOOLEAN])
  /\ DOMAIN tb.keys \subseteq Key
  /\ tb.keys \in [DOMAIN tb.keys -> [request : Payload, response : Response]]
  /\ tb.moves \in [Key -> Nat]

(* The type invariant.                                                     *)
TypeOK ==
  /\ TablesOK(Tables) /\ TablesOK(disk)
  /\ published \subseteq Nat
  /\ req \in [Thread -> Requests]
  /\ pc \in [Thread -> {"idle", "lookup", "serve", "store", "answered", "lost"}]
  /\ response \in [Thread -> Response]
  /\ crashes \in Nat
  /\ torn \subseteq Item /\ touched \subseteq Item /\ raced \subseteq Key

(* Item's part of the history h, and its quantity in the table it.         *)
Rows(h, item)      == {i \in DOMAIN h : h[i].item = item}
Quantity(it, item) == IF item \in DOMAIN it THEN it[item].quantity ELSE 0

(* From the first row to the last, each row's quantity is the one before    *)
(* plus its delta, and the last row's is what is in stock.                  *)
Explains(h, it, item) ==
  /\ \A i \in Rows(h, item) :
       /\ (\A j \in Rows(h, item) : i <= j) => h[i].quantity = h[i].delta
       /\ (\A j \in Rows(h, item) : j <= i) => h[i].quantity = Quantity(it, item)
       /\ \A j \in Rows(h, item) :
            i < j /\ (\A k \in Rows(h, item) : k <= i \/ j <= k)
              => h[j].quantity = h[i].quantity + h[j].delta
  /\ Rows(h, item) = {} => Quantity(it, item) = 0

(* The history of an item alone tells how its quantity came about, row by   *)
(* row, also after a restart; except for an item a failed request half      *)
(* wrote.                                                                   *)
HistoryExplainsStock == \A item \in Item \ torn : Explains(history, items, item)

(* "Automatic low-stock alert creation/resolution" (README.md:18): an item  *)
(* has one active alert if its stock is low and none otherwise, unless its  *)
(* threshold or the alert was set by hand since its stock last moved, or a  *)
(* request half wrote it.                                                   *)
Low(item) == LET threshold == Effective(items[item].threshold)
             IN threshold # NoThreshold /\ items[item].quantity < threshold

AlertsFollowStock ==
  /\ \A item \in Item : Cardinality(Active(item)) <= 1
  /\ \A item \in DOMAIN items \ (torn \cup touched) : Active(item) # {} <=> Low(item)

(* A key adds one row to the history, every success it is answered with is  *)
(* the same, and it moves stock once; unless one request looked the key up  *)
(* before the other had stored its response, or the process died in         *)
(* between; and stock unless a request under the key could not be stored,   *)
(* which moves it without a row and without a response.                     *)
Clean(k) == \A t \in Thread : pc[t] # "idle" /\ req[t].key = k => req[t].storable

RetriesApplyOnce ==
  \A k \in Key \ raced :
    /\ Cardinality({i \in DOMAIN history : history[i].key = k}) <= 1
    /\ \A t, u \in Thread :
         req[t].key = k /\ req[u].key = k /\ response[t].status = 200 /\ response[u].status = 200
           => response[t] = response[u]
    /\ Clean(k) => moves[k] <= 1

(* "Idempotency-Key support on /stock/adjust for safe client retries"       *)
(* (README.md:21 of the example): a key moves stock once.  It may move it   *)
(* twice: see RetriesApplyOnce.                                             *)
KeysMoveStockOnce == \A k \in Key : moves[k] <= 1

(* "Immutable audit trail of every stock adjustment (who/when/why/delta)"   *)
(* (README.md:20): stock is what the committed history says.  It is not     *)
(* after the next commit took along what a failed request had written.      *)
AuditTrailIsComplete == \A item \in Item : Explains(disk.history, disk.items, item)

(* An addition or adjustment that was acknowledged is committed: its        *)
(* version, or a later one, is on disk whatever happens afterwards.  Reads  *)
(* promise no such thing: they see what a failed request left uncommitted.  *)
AnswersAreDurable ==
  \A t \in Thread :
    req[t].op \in {"add_stock", "adjust_stock"} /\ response[t].status \in {200, 201} =>
      /\ req[t].item \in DOMAIN disk.items
      /\ disk.items[req[t].item].version >= response[t].version
=============================================================================
