----------------------------- MODULE GoldBuild -----------------------------
(***************************************************************************)
(* The Silver to Gold job (src/transformation/silver_to_gold.py): one      *)
(* process refreshes dim_customer (SCD type 2), then dim_product (type 1), *)
(* then appends to fact_sales.  Each Delta statement is atomic; the type 2 *)
(* refresh takes two, and the process can be killed between any two.       *)
(* The Silver tables are external: other jobs write them.                  *)
(***************************************************************************)
EXTENDS Naturals, FiniteSets

CONSTANTS
  Customers,     \* natural keys of dim_customer
  Values,        \* what the tracked columns can say, NULL aside
  Null,          \* a tracked column without a value
  Absent,        \* no current row in silver.sales_customers
  Products,      \* natural keys of dim_product
  Orders,        \* order lines: silver order joined to its item
  CustomerOf, ProductOf,  \* what each order line refers to
  DateOf,        \* order_date of each order line
  MaxBuilds,     \* bound on builds, which also number the build times
  MaxCrashes     \* bound on killed builds

ASSUME OrderAssumption ==
  /\ CustomerOf \in [Orders -> Customers]
  /\ ProductOf \in [Orders -> Products]
  /\ DateOf \in [Orders -> Nat \ {0}]
ASSUME ValueAssumption == Null \notin Values /\ Absent \notin Values /\ Null # Absent
ASSUME BoundAssumption ==
  MaxBuilds \in Nat /\ MaxCrashes \in Nat

VARIABLES
  customers,  \* silver.sales_customers, current rows: customer -> value
  products,   \* silver.products
  orders,     \* order lines in silver.sales_orders and sales_order_items
  late,       \* lines that arrived with a date already loaded (history)
  moved,      \* customers that changed in Silver during this build (history)
  torn,       \* customers that changed between Expire and InsertVersions (history)
  dim,        \* gold.dim_customer
  dimProduct, \* gold.dim_product: product -> its surrogate key, 0 if none
  fact,       \* gold.fact_sales
  pc,         \* the next statement of the build
  build,      \* number of the last build, its `now`
  lastLoaded, \* MAX(order_date) the build has read
  crashes

silver == <<customers, products, orders, late, moved, torn>>
gold   == <<dim, dimProduct, fact>>
vars   == <<silver, gold, pc, build, lastLoaded, crashes>>

\* _valid_to is 0 for NULL; nth tells rows apart that one build inserts for
\* the same customer.
DimRow ==
  [customer : Customers, value : Values \cup {Null}, from : Nat, nth : Nat,
   to : Nat, current : BOOLEAN]
FactRow ==
  [order : Orders, customer_sk : (Customers \X Nat \X Nat) \cup {<<>>},
   product_sk : Nat, at : Nat]

(* A row's surrogate key, a uuid.                                          *)
Key(d) == <<d.customer, d.from, d.nth>>

-----------------------------------------------------------------------------
(* src.c <> tgt.c in SQL: not true when either side is NULL.               *)
Changed(a, b) == a # Null /\ b # Null /\ a # b

CurrentRows(c) == {d \in dim : d.customer = c /\ d.current}

Source == {c \in Customers : customers[c] # Absent}

(* Current rows whose customer has changed in Silver.                      *)
ToExpire ==
  {d \in dim : d.current /\ d.customer \in Source
                 /\ Changed(customers[d.customer], d.value)}

\* Variant: every version of the customer is joined.
JoinedAnyVersion(c) ==
  LET rows == {d \in dim : d.customer = c}
  IN  IF rows = {} THEN {1} ELSE 1..Cardinality({d \in rows : Changed(customers[c], d.value)})

\* Variant: only customers never seen before.
JoinedUnknown(c) == IF {d \in dim : d.customer = c} = {} THEN {1} ELSE {}

(* The LEFT JOIN of a Silver customer with its current rows: one row if    *)
(* there is none, else one for each that differs.                          *)
Joined(c) ==
  IF CurrentRows(c) = {} THEN {1}
  ELSE 1..Cardinality({d \in CurrentRows(c) : Changed(customers[c], d.value)})

LatestDate == {n \in {0} \cup {DateOf[f.order] : f \in fact} :
                 \A f \in fact : DateOf[f.order] <= n}

\* Variant: order_date >= last loaded.
FromLastLoaded == {o \in orders : DateOf[o] >= lastLoaded}

\* Variant: a day's load, not everything since the last one.
NewestDay == {o \in orders : DateOf[o] > lastLoaded /\ \A q \in orders : DateOf[q] <= DateOf[o]}

NewOrders == {o \in orders : DateOf[o] > lastLoaded}

(* The rows one order line becomes: left joins with the current customer   *)
(* rows and the product dimension.                                         *)
FactRows(o) ==
  LET keys == {Key(d) : d \in CurrentRows(CustomerOf[o])}
  IN  {[order |-> o, customer_sk |-> key,
        product_sk |-> dimProduct[ProductOf[o]], at |-> build] :
         key \in IF keys = {} THEN {<<>>} ELSE keys}

-----------------------------------------------------------------------------
Init ==
  /\ customers = [c \in Customers |-> Absent]
  /\ products = {}
  /\ orders = {}
  /\ late = {}
  /\ moved = {} /\ torn = {}
  /\ dim = {}
  /\ dimProduct = [p \in Products |-> 0]
  /\ fact = {}
  /\ pc = "idle"
  /\ build = 0
  /\ lastLoaded = 0
  /\ crashes = 0

(* Upstream jobs change Silver: a customer, a product, an order line.      *)
ChangeCustomer(c) ==
  /\ \E v \in (Values \cup {Null, Absent}) \ {customers[c]} :
       customers' = [customers EXCEPT ![c] = v]
  /\ moved' = IF pc = "idle" THEN moved ELSE moved \cup {c}
  /\ torn' = IF pc = "insert" THEN torn \cup {c} ELSE torn
  /\ UNCHANGED <<products, orders, late, gold, pc, build, lastLoaded, crashes>>

AddProduct(p) ==
  /\ products' = products \cup {p}
  /\ UNCHANGED <<customers, orders, late, moved, torn, gold, pc, build, lastLoaded, crashes>>

Arrive(o) ==
  /\ o \notin orders
  /\ orders' = orders \cup {o}
  /\ late' = IF \E n \in LatestDate : DateOf[o] <= n THEN late \cup {o} ELSE late
  /\ UNCHANGED <<customers, products, moved, torn, gold, pc, build, lastLoaded, crashes>>

StartBuild ==
  /\ pc = "idle"
  /\ build < MaxBuilds
  /\ build' = build + 1
  /\ pc' = "expire"
  /\ moved' = {}
  /\ UNCHANGED <<customers, products, orders, late, torn, gold, lastLoaded, crashes>>

(* apply_scd2, step 1: MERGE closes the rows that changed.                 *)
Expire ==
  /\ pc = "expire"
  /\ dim' = (dim \ ToExpire)
              \cup {[d EXCEPT !.to = build, !.current = FALSE] : d \in ToExpire}
  /\ pc' = "insert"
  /\ UNCHANGED <<silver, dimProduct, fact, build, lastLoaded, crashes>>

(* apply_scd2, step 2: Silver and the dimension are read again, and the    *)
(* new versions appended.                                                  *)
InsertVersions ==
  /\ pc = "insert"
  /\ dim' = dim \cup UNION
       {{[customer |-> c, value |-> customers[c], from |-> build, nth |-> n,
          to |-> 0, current |-> TRUE] : n \in Joined(c)} : c \in Source}
  /\ pc' = "product"
  /\ UNCHANGED <<silver, dimProduct, fact, build, lastLoaded, crashes>>

\* Variant: WHEN MATCHED UPDATE SET *.
MergeProductsAll ==
  /\ pc = "product"
  /\ dimProduct' = [p \in Products |-> IF p \in products THEN build ELSE dimProduct[p]]
  /\ pc' = "max"
  /\ UNCHANGED <<silver, dim, fact, build, lastLoaded, crashes>>

(* build_dim_product: a matched row keeps its surrogate key.               *)
MergeProducts ==
  /\ pc = "product"
  /\ dimProduct' = [p \in Products |-> IF p \in products /\ dimProduct[p] = 0
                                       THEN build ELSE dimProduct[p]]
  /\ pc' = "max"
  /\ UNCHANGED <<silver, dim, fact, build, lastLoaded, crashes>>

(* build_fact_sales: the last loaded date is collected by the driver, ...  *)
ReadMaxDate ==
  /\ pc = "max"
  /\ \E n \in LatestDate : lastLoaded' = n
  /\ pc' = "append"
  /\ UNCHANGED <<silver, gold, build, crashes>>

(* ... and the later order lines are joined and appended.                  *)
AppendFacts ==
  /\ pc = "append"
  /\ fact' = fact \cup UNION {FactRows(o) : o \in NewOrders}
  /\ pc' = "idle"
  /\ lastLoaded' = 0
  /\ UNCHANGED <<silver, dim, dimProduct, build, crashes>>

(* A statement fails, the task times out or the cluster is lost.           *)
Crash ==
  /\ crashes < MaxCrashes
  /\ pc # "idle"
  /\ crashes' = crashes + 1
  /\ pc' = "idle"
  /\ lastLoaded' = 0
  /\ UNCHANGED <<silver, gold, build>>

BuildStep ==
  StartBuild \/ Expire \/ InsertVersions \/ MergeProducts \/ ReadMaxDate \/ AppendFacts

Next ==
  \/ \E c \in Customers : ChangeCustomer(c)
  \/ \E p \in Products : AddProduct(p)
  \/ \E o \in Orders : Arrive(o)
  \/ BuildStep
  \/ Crash

Spec == Init /\ [][Next]_vars

-----------------------------------------------------------------------------
(* Type correctness of the Silver inputs and the three Gold tables.        *)
TypeOK ==
  /\ customers \in [Customers -> Values \cup {Null, Absent}]
  /\ products \subseteq Products
  /\ orders \subseteq Orders /\ late \subseteq orders
  /\ moved \subseteq Customers /\ torn \subseteq Customers
  /\ dim \subseteq DimRow
  /\ dimProduct \in [Products -> Nat]
  /\ fact \subseteq FactRow
  /\ pc \in {"idle", "expire", "insert", "product", "max", "append"}
  /\ build \in Nat /\ lastLoaded \in Nat /\ crashes \in Nat

(* The versions of a customer follow each other, although a change is     *)
(* made in two statements and a killed build leaves only the first: of two *)
(* versions one ended no later than the other began, and the current ones  *)
(* are those that have not ended, so that there is at most one             *)
(* (_is_current is documented as "TRUE = active version").  A customer     *)
(* that Silver changed between the two statements is excused.              *)
VersionsFollow ==
  \A d, e \in dim :
    /\ d.current <=> d.to = 0
    /\ d.customer = e.customer /\ d # e /\ d.customer \notin torn =>
         (d.to # 0 /\ d.to <= e.from) \/ (e.to # 0 /\ e.to <= d.from)

(* When facts are about to be appended, the dimension is up to date, also  *)
(* after builds killed half-way and after the race of VersionsFollow: each *)
(* Silver customer that did not change during this build has a current     *)
(* row, and every current row shows the Silver value, NULLs aside.         *)
DimensionIsReady ==
  pc \in {"max", "append"} =>
    \A c \in Source \ moved :
      /\ CurrentRows(c) # {}
      /\ \A d \in CurrentRows(c) : ~Changed(customers[c], d.value)

(* An order line has at most one fact row, although the watermark is only  *)
(* a date and the load can be killed and repeated: unless its customer had *)
(* two current rows, by the race of VersionsFollow.                        *)
OneFactPerOrder ==
  \A f, g \in fact : f.order = g.order /\ CustomerOf[f.order] \notin torn => f = g

(* A fact row's keys stay valid: they name a version of the order's own    *)
(* customer that was valid when the row was loaded, and its product's row. *)
FactKeysResolve ==
  \A f \in fact :
    /\ f.customer_sk # <<>> =>
         \E d \in dim : /\ f.customer_sk = Key(d)
                        /\ d.customer = CustomerOf[f.order]
                        /\ d.from <= f.at /\ (d.current \/ f.at <= d.to)
    /\ f.product_sk # 0 => f.product_sk = dimProduct[ProductOf[f.order]]

(* No order line is passed over: one at or below the newest loaded date is *)
(* in fact_sales, unless it arrived after a load had passed its date.      *)
NoOrderPassedOver ==
  \A o \in orders \ late :
    (\E n \in LatestDate : DateOf[o] <= n) => \E f \in fact : f.order = o

=============================================================================
