----------------------------- MODULE GoldProofs -----------------------------
(***************************************************************************)
(* What holds of the Silver to Gold job for any customers, products and    *)
(* order lines, whatever Silver does meanwhile and however often a build   *)
(* is killed.                                                              *)
(***************************************************************************)
EXTENDS GoldBuild, FiniteSetTheorems, TLAPS

(* The row an expired one becomes.                                         *)
Ended(d) == [d EXCEPT !.to = build, !.current = FALSE]

NewRow(c, n) ==
  [customer |-> c, value |-> customers[c], from |-> build, nth |-> n,
   to |-> 0, current |-> TRUE]

(* What InsertVersions appends.                                            *)
NewRowsOf(c) == {NewRow(c, n) : n \in Joined(c)}
Appended == UNION {NewRowsOf(c) : c \in Source}

LEMMA EndedRow ==
  ASSUME NEW d \in DimRow, build \in Nat
  PROVE  /\ Ended(d) \in DimRow
         /\ Ended(d).customer = d.customer /\ Ended(d).from = d.from /\ Ended(d).nth = d.nth
         /\ Ended(d).value = d.value /\ Ended(d).to = build /\ ~Ended(d).current
BY DEF Ended, DimRow

LEMMA NewRows ==
  ASSUME TypeOK, NEW e \in Appended
  PROVE  /\ e \in DimRow /\ e.customer \in Source /\ Joined(e.customer) # {}
         /\ e.from = build /\ e.value = customers[e.customer] /\ e.to = 0 /\ e.current
<1>1. PICK c \in Source : e \in NewRowsOf(c)
  BY DEF Appended
<1>2. PICK n \in Joined(c) : e = NewRow(c, n)
  BY <1>1 DEF NewRowsOf
<1>3. n \in Nat
  BY <1>2 DEF Joined
<1>4. c \in Customers /\ customers[c] \in Values \cup {Null} /\ build \in Nat
  BY DEF Source, TypeOK
<1> QED
  BY <1>2, <1>3, <1>4 DEF NewRow, DimRow

(* A customer whose current rows are up to date, if it has one, gets none; *)
(* one that has none gets one.                                             *)
LEMMA JoinedRows ==
  ASSUME NEW c
  PROVE  /\ CurrentRows(c) = {} => Joined(c) = {1}
         /\ CurrentRows(c) # {} /\ (\A d \in CurrentRows(c) : ~Changed(customers[c], d.value))
              => Joined(c) = {}
<1> DEFINE Differing == {d \in CurrentRows(c) : Changed(customers[c], d.value)}
<1>1. CurrentRows(c) = {} => Joined(c) = {1}
  BY DEF Joined
<1>2. ASSUME CurrentRows(c) # {}, \A d \in CurrentRows(c) : ~Changed(customers[c], d.value)
      PROVE  Joined(c) = {}
  <2>1. Differing = {}
    BY <1>2
  <2>2. Joined(c) = 1..Cardinality(Differing)
    BY <1>2 DEF Joined
  <2>3. Joined(c) = 1..0
    BY <2>1, <2>2, FS_EmptySet
  <2> QED
    BY <2>3
<1> QED
  BY <1>1, <1>2

LEMMA FactRowTypes ==
  ASSUME TypeOK, NEW o \in Orders
  PROVE  FactRows(o) \subseteq FactRow
<1>1. \A d \in CurrentRows(CustomerOf[o]) : Key(d) \in Customers \X Nat \X Nat
  BY DEF CurrentRows, TypeOK, DimRow, Key
<1>2. dimProduct[ProductOf[o]] \in Nat
  BY OrderAssumption DEF OrderAssumption, TypeOK
<1>3. build \in Nat
  BY DEF TypeOK
<1> QED
  BY <1>1, <1>2, <1>3 DEF FactRows, FactRow

LEMMA Inserts == InsertVersions => dim' = dim \cup Appended
BY DEF InsertVersions, Appended, NewRowsOf, NewRow

LEMMA TypeStep == TypeOK /\ [Next]_vars => TypeOK'
<1> SUFFICES ASSUME TypeOK, [Next]_vars PROVE TypeOK'
  OBVIOUS
<1>1. ASSUME NEW c \in Customers, ChangeCustomer(c) PROVE TypeOK'
  BY <1>1 DEF ChangeCustomer, TypeOK, gold
<1>2. ASSUME NEW p \in Products, AddProduct(p) PROVE TypeOK'
  BY <1>2 DEF AddProduct, TypeOK, gold
<1>3. ASSUME NEW o \in Orders, Arrive(o) PROVE TypeOK'
  BY <1>3 DEF Arrive, TypeOK, gold
<1>4. CASE StartBuild
  BY <1>4 DEF StartBuild, TypeOK, gold
<1>5. CASE Expire
  <2>1. dim' \subseteq DimRow
    <3>1. \A d \in ToExpire : Ended(d) \in DimRow
      BY EndedRow DEF ToExpire, TypeOK
    <3> QED
      BY <1>5, <3>1 DEF Expire, Ended, TypeOK
  <2> QED
    BY <1>5, <2>1 DEF Expire, TypeOK, silver
<1>6. CASE InsertVersions
  <2>1. dim' \subseteq DimRow
    <3>1. dim' = dim \cup Appended
      BY <1>6, Inserts
    <3> QED
      BY <3>1, NewRows DEF TypeOK
  <2> QED
    BY <1>6, <2>1 DEF InsertVersions, TypeOK, silver
<1>7. CASE MergeProducts
  BY <1>7 DEF MergeProducts, TypeOK, silver
<1>8. CASE ReadMaxDate
  <2>1. LatestDate \subseteq Nat
    BY OrderAssumption DEF OrderAssumption, LatestDate, TypeOK, FactRow
  <2> QED
    BY <1>8, <2>1 DEF ReadMaxDate, TypeOK, silver, gold
<1>9. CASE AppendFacts
  <2>1. fact' \subseteq FactRow
    BY <1>9, FactRowTypes DEF AppendFacts, NewOrders, TypeOK
  <2> QED
    BY <1>9, <2>1 DEF AppendFacts, TypeOK, silver
<1>10. CASE Crash
  BY <1>10 DEF Crash, TypeOK, silver, gold
<1>11. CASE UNCHANGED vars
  BY <1>11 DEF vars, TypeOK, silver, gold
<1> QED
  BY <1>1, <1>2, <1>3, <1>4, <1>5, <1>6, <1>7, <1>8, <1>9, <1>10, <1>11 DEF Next, BuildStep

(* Type correctness of the Gold tables and of the build.                   *)
THEOREM TypeCorrect == Spec => []TypeOK
<1>1. Init => TypeOK
  BY DEF Init, TypeOK
<1> QED
  BY <1>1, TypeStep, PTL DEF Spec
-----------------------------------------------------------------------------
(* A build's time is later than every time in the dimension until it       *)
(* writes there, and never earlier.                                        *)
Dated ==
  /\ pc # "idle" => build > 0
  /\ \A d \in dim : /\ d.from <= build /\ d.to <= build
                    /\ pc \in {"expire", "insert"} => d.from < build

(* Between the two statements no current row is out of date, but for the   *)
(* customers that changed there.                                           *)
AllExpired == pc = "insert" => \A d \in ToExpire : d.customer \in torn

HistoryInv == Dated /\ AllExpired /\ VersionsFollow

(* What a step that leaves the dimension and the build alone keeps.        *)
LEMMA HistoryKept ==
  ASSUME HistoryInv, UNCHANGED <<dim, build>>, torn \subseteq torn', AllExpired',
         pc' # "idle" => pc # "idle",
         pc' \in {"expire", "insert"} => pc \in {"expire", "insert"}
  PROVE  HistoryInv'
BY DEF HistoryInv, Dated, VersionsFollow

LEMMA HistoryStep == TypeOK /\ TypeOK' /\ HistoryInv /\ [Next]_vars => HistoryInv'
<1> SUFFICES ASSUME TypeOK, TypeOK', HistoryInv, [Next]_vars PROVE HistoryInv'
  OBVIOUS
<1>1. ASSUME NEW c \in Customers, ChangeCustomer(c) PROVE HistoryInv'
  <2>1. AllExpired'
    <3> SUFFICES ASSUME pc = "insert", NEW d \in ToExpire', d.customer # c
                 PROVE  d \in ToExpire
      BY <1>1 DEF ChangeCustomer, HistoryInv, AllExpired, gold
    <3> QED
      BY <1>1 DEF ChangeCustomer, ToExpire, Source, gold, TypeOK, DimRow
  <2> QED
    BY <1>1, <2>1, HistoryKept DEF ChangeCustomer, gold
<1>2. ASSUME NEW p \in Products, AddProduct(p) PROVE HistoryInv'
  BY <1>2, HistoryKept DEF AddProduct, gold, HistoryInv, AllExpired, ToExpire, Source
<1>3. ASSUME NEW o \in Orders, Arrive(o) PROVE HistoryInv'
  BY <1>3, HistoryKept DEF Arrive, gold, HistoryInv, AllExpired, ToExpire, Source
<1>4. CASE StartBuild
  <2>1. Dated'
    BY <1>4 DEF StartBuild, gold, HistoryInv, Dated, TypeOK, DimRow
  <2> QED
    BY <1>4, <2>1 DEF StartBuild, gold, HistoryInv, AllExpired, VersionsFollow
<1>5. CASE Expire
  <2>1. dim' = (dim \ ToExpire) \cup {Ended(d) : d \in ToExpire}
    BY <1>5 DEF Expire, Ended
  <2>2. build \in Nat /\ build > 0 /\ ToExpire \subseteq dim
    BY <1>5 DEF Expire, HistoryInv, Dated, TypeOK, ToExpire
  <2>3. \A d \in ToExpire :
          /\ Ended(d).customer = d.customer /\ Ended(d).from = d.from
          /\ Ended(d).to = build /\ ~Ended(d).current
    BY <2>2, EndedRow DEF TypeOK
  <2>4. \A d \in dim : d.from < build /\ d.to <= build /\ d.from \in Nat /\ d.to \in Nat
    BY <1>5 DEF Expire, HistoryInv, Dated, TypeOK, DimRow
  <2>5. Dated'
    <3>1. \A d \in dim' : d.from < build /\ d.to <= build
      BY <2>1, <2>2, <2>3, <2>4
    <3>2. \A d \in dim' : d.from \in Nat
      BY DEF TypeOK, DimRow
    <3>3. build' = build
      BY <1>5 DEF Expire
    <3> QED
      BY <2>2, <3>1, <3>2, <3>3 DEF Dated
  <2>6. AllExpired'
    BY <1>5, <2>1, <2>3 DEF Expire, silver, AllExpired, ToExpire, Source
  <2>7. VersionsFollow'
    <3>1. \A d \in dim' : d.current <=> d.to = 0
      BY <2>1, <2>2, <2>3 DEF HistoryInv, VersionsFollow
    <3>2. ASSUME NEW d \in dim, NEW e \in dim, d # e, d.customer = e.customer, d.customer \notin torn
          PROVE  (d.to # 0 /\ d.to <= e.from) \/ (e.to # 0 /\ e.to <= d.from)
      BY <3>2 DEF HistoryInv, VersionsFollow
    <3>3. \A d \in ToExpire : d.to = 0
      BY DEF ToExpire, HistoryInv, VersionsFollow
    <3>4. ASSUME NEW d \in dim', NEW e \in dim',
                 d # e, d.customer = e.customer, d.customer \notin torn
          PROVE  (d.to # 0 /\ d.to <= e.from) \/ (e.to # 0 /\ e.to <= d.from)
      <4>1. CASE d \in dim /\ e \in dim
        BY <3>2, <3>4, <4>1
      <4>2. ASSUME NEW c \in ToExpire, d = Ended(c), e \in dim \ ToExpire
            PROVE  e.to # 0 /\ e.to <= d.from
        <5>1. c # e /\ c \in dim /\ c.customer = e.customer /\ c.customer \notin torn
          BY <2>2, <2>3, <3>4, <4>2
        <5> QED
          BY <5>1, <3>2, <3>3, <4>2, <2>3
      <4>3. ASSUME NEW c \in ToExpire, e = Ended(c), d \in dim \ ToExpire
            PROVE  d.to # 0 /\ d.to <= e.from
        <5>1. c # d /\ c \in dim /\ c.customer = d.customer /\ c.customer \notin torn
          BY <2>2, <2>3, <3>4, <4>3
        <5> QED
          BY <5>1, <3>2, <3>3, <4>3, <2>3
      <4>4. ASSUME NEW b \in ToExpire, NEW c \in ToExpire, d = Ended(b), e = Ended(c)
            PROVE  FALSE
        <5>1. b # c /\ b \in dim /\ c \in dim /\ b.customer = c.customer /\ b.customer \notin torn
          BY <2>2, <2>3, <3>4, <4>4
        <5> QED
          BY <5>1, <3>2, <3>3, <4>4
      <4> QED
        BY <2>1, <4>1, <4>2, <4>3, <4>4
    <3> QED
      BY <1>5, <3>1, <3>4 DEF VersionsFollow, Expire, silver
  <2> QED
    BY <2>5, <2>6, <2>7 DEF HistoryInv
<1>6. CASE InsertVersions
  <2>1. dim' = dim \cup Appended
    BY <1>6, Inserts
  <2>2. build \in Nat /\ build > 0
    BY <1>6 DEF InsertVersions, HistoryInv, Dated, TypeOK
  <2>3. \A d \in dim : d.from < build /\ d.to <= build /\ d.from \in Nat /\ d.to \in Nat
    BY <1>6 DEF InsertVersions, HistoryInv, Dated, TypeOK, DimRow
  <2>4. \A e \in Appended : e.from = build /\ e.to = 0 /\ e.current /\ Joined(e.customer) # {}
                            /\ e.customer \in Source
    BY NewRows
  <2>5. Dated'
    BY <1>6, <2>1, <2>2, <2>3, <2>4 DEF InsertVersions, Dated
  <2>6. ASSUME NEW c \in Source, Joined(c) # {}, c \notin torn
        PROVE  CurrentRows(c) = {}
    <3>1. \A d \in CurrentRows(c) : ~Changed(customers[c], d.value)
      BY <1>6, <2>6 DEF InsertVersions, HistoryInv, AllExpired, ToExpire, CurrentRows
    <3> QED
      BY <2>6, <3>1, JoinedRows
  <2>7. VersionsFollow'
    <3>1. \A d \in dim' : d.current <=> d.to = 0
      BY <2>1, <2>4 DEF HistoryInv, VersionsFollow
    <3>2. ASSUME NEW d \in dim', NEW e \in dim',
                 d # e, d.customer = e.customer, d.customer \notin torn
          PROVE  (d.to # 0 /\ d.to <= e.from) \/ (e.to # 0 /\ e.to <= d.from)
      <4>1. CASE d \in dim /\ e \in dim
        BY <3>2, <4>1 DEF HistoryInv, VersionsFollow
      <4>2. ASSUME NEW g \in Appended, NEW h \in dim, g.customer = h.customer, g.customer \notin torn
            PROVE  h.to # 0 /\ h.to <= g.from
        <5>1. ~h.current
          BY <2>4, <2>6, <4>2 DEF CurrentRows
        <5> QED
          BY <2>3, <2>4, <5>1 DEF HistoryInv, VersionsFollow
      <4>3. ASSUME d \in Appended, e \in Appended PROVE FALSE
        <5>1. CurrentRows(d.customer) = {} /\ Joined(d.customer) = {1}
          BY <2>4, <2>6, <3>2, <4>3, JoinedRows
        <5>2. PICK b \in Source : d \in NewRowsOf(b)
          BY <4>3 DEF Appended
        <5>3. PICK c \in Source : e \in NewRowsOf(c)
          BY <4>3 DEF Appended
        <5>4. d.customer = b /\ e.customer = c
          BY <5>2, <5>3 DEF NewRowsOf, NewRow
        <5>5. d = NewRow(b, 1) /\ e = NewRow(b, 1)
          BY <3>2, <5>1, <5>2, <5>3, <5>4 DEF NewRowsOf
        <5> QED
          BY <3>2, <5>5
      <4> QED
        BY <2>1, <3>2, <4>1, <4>2, <4>3
    <3> QED
      BY <1>6, <3>1, <3>2 DEF VersionsFollow, InsertVersions, silver
  <2> QED
    BY <1>6, <2>5, <2>7 DEF HistoryInv, AllExpired, InsertVersions
<1>7. CASE MergeProducts
  BY <1>7, HistoryKept DEF MergeProducts, silver, AllExpired
<1>8. CASE ReadMaxDate
  BY <1>8, HistoryKept DEF ReadMaxDate, silver, gold, AllExpired
<1>9. CASE AppendFacts
  BY <1>9, HistoryKept DEF AppendFacts, silver, AllExpired
<1>10. CASE Crash
  BY <1>10, HistoryKept DEF Crash, silver, gold, AllExpired
<1>11. CASE UNCHANGED vars
  BY <1>11, HistoryKept DEF vars, silver, gold, HistoryInv, AllExpired, ToExpire, Source
<1> QED
  BY <1>1, <1>2, <1>3, <1>4, <1>5, <1>6, <1>7, <1>8, <1>9, <1>10, <1>11 DEF Next, BuildStep

LEMMA HistoryInvariant == Spec => [](TypeOK /\ HistoryInv)
<1>1. Init => TypeOK /\ HistoryInv
  BY DEF Init, TypeOK, HistoryInv, Dated, AllExpired, VersionsFollow
<1> QED
  BY <1>1, TypeStep, HistoryStep, PTL DEF Spec

(* The versions of a customer follow each other and only the last one is   *)
(* current, whatever Silver does, except between the two statements.       *)
THEOREM HistoriesFollow == Spec => []VersionsFollow
<1>1. HistoryInv => VersionsFollow
  BY DEF HistoryInv
<1> QED
  BY <1>1, HistoryInvariant, PTL
-----------------------------------------------------------------------------
UpToDate(c) == \A d \in CurrentRows(c) : ~Changed(customers[c], d.value)

(* Where the refresh has got to, but for the customers that moved.         *)
Refreshed ==
  \A c \in Source \ moved :
    /\ pc \in {"insert", "product", "max", "append"} => UpToDate(c)
    /\ pc \in {"product", "max", "append"} => CurrentRows(c) # {}

LEMMA RefreshedStep == TypeOK /\ Refreshed /\ [Next]_vars => Refreshed'
<1> SUFFICES ASSUME TypeOK, Refreshed, [Next]_vars PROVE Refreshed'
  OBVIOUS
<1>1. ASSUME NEW b \in Customers, ChangeCustomer(b) PROVE Refreshed'
  <2> SUFFICES ASSUME pc # "idle", NEW c \in (Source \ moved)'
               PROVE  /\ c \in Source \ moved /\ customers'[c] = customers[c]
                      /\ CurrentRows(c)' = CurrentRows(c) /\ pc' = pc
    BY <1>1 DEF Refreshed, UpToDate, ChangeCustomer
  <2>1. c # b /\ c \in Customers
    BY <1>1 DEF ChangeCustomer, Source
  <2> QED
    BY <1>1, <2>1 DEF ChangeCustomer, Source, gold, CurrentRows, TypeOK
<1>2. ASSUME UNCHANGED <<customers, moved, dim>>,
             pc' \in {"insert", "product", "max", "append"} => pc \in {"insert", "product", "max", "append"},
             pc' \in {"product", "max", "append"} => pc \in {"product", "max", "append"}
      PROVE  Refreshed'
  BY <1>2 DEF Refreshed, UpToDate, Source, CurrentRows
<1>3. ASSUME NEW p \in Products, AddProduct(p) PROVE Refreshed'
  BY <1>2, <1>3 DEF AddProduct, gold
<1>4. ASSUME NEW o \in Orders, Arrive(o) PROVE Refreshed'
  BY <1>2, <1>4 DEF Arrive, gold
<1>5. CASE StartBuild
  BY <1>5 DEF StartBuild, Refreshed
<1>6. CASE Expire
  <2>1. dim' = (dim \ ToExpire) \cup {Ended(d) : d \in ToExpire}
    BY <1>6 DEF Expire, Ended
  <2>2. \A d \in ToExpire : ~Ended(d).current
    BY EndedRow DEF TypeOK, ToExpire
  <2>3. customers' = customers /\ pc' = "insert"
    BY <1>6 DEF Expire, silver
  <2>4. \A d \in dim' : d.current => d \in dim \ ToExpire
    BY <2>1, <2>2
  <2>5. ASSUME NEW c \in Source, NEW d \in CurrentRows(c)' PROVE ~Changed(customers[c], d.value)
    BY <2>4, <2>5 DEF CurrentRows, ToExpire
  <2> QED
    BY <2>3, <2>5 DEF Refreshed, UpToDate, Source
<1>7. CASE InsertVersions
  <2>1. dim' = dim \cup Appended
    BY <1>7, Inserts
  <2>2. \A e \in Appended : e.current /\ e.value = customers[e.customer]
    BY NewRows
  <2>3. UNCHANGED <<customers, moved>> /\ pc' = "product"
    BY <1>7 DEF InsertVersions, silver
  <2> SUFFICES ASSUME NEW c \in Source \ moved
               PROVE  /\ CurrentRows(c)' # {}
                      /\ \A d \in CurrentRows(c)' : ~Changed(customers[c], d.value)
    BY <2>3 DEF Refreshed, UpToDate, Source
  <2>4. UpToDate(c)
    BY <1>7 DEF InsertVersions, Refreshed
  <2>5. \A d \in CurrentRows(c)' : d \in CurrentRows(c) \/ d.value = customers[c]
    BY <2>1, <2>2 DEF CurrentRows
  <2>6. CurrentRows(c)' # {}
    <3>1. CASE CurrentRows(c) = {}
      <4>1. NewRow(c, 1) \in Appended
        BY <3>1, JoinedRows DEF Appended, NewRowsOf
      <4>2. NewRow(c, 1) \in CurrentRows(c)'
        BY <2>1, <2>2, <4>1 DEF CurrentRows, NewRow
      <4> QED
        BY <4>2
    <3>2. CASE CurrentRows(c) # {}
      BY <2>1, <3>2 DEF CurrentRows
    <3> QED
      BY <3>1, <3>2
  <2> QED
    BY <2>4, <2>5, <2>6 DEF UpToDate, Changed
<1>8. CASE MergeProducts
  BY <1>2, <1>8 DEF MergeProducts, silver
<1>9. CASE ReadMaxDate
  BY <1>2, <1>9 DEF ReadMaxDate, silver, gold
<1>10. CASE AppendFacts
  BY <1>2, <1>10 DEF AppendFacts, silver
<1>11. CASE Crash
  BY <1>2, <1>11 DEF Crash, silver, gold
<1>12. CASE UNCHANGED vars
  BY <1>2, <1>12 DEF vars, silver, gold
<1> QED
  BY <1>1, <1>3, <1>4, <1>5, <1>6, <1>7, <1>8, <1>9, <1>10, <1>11, <1>12 DEF Next, BuildStep

(* Whatever was killed before or changed in between, the dimension is up   *)
(* to date when facts are appended, but for customers that just moved.     *)
THEOREM DimensionsAreReady == Spec => []DimensionIsReady
<1>1. Init => Refreshed
  BY DEF Init, Refreshed
<1>2. Refreshed => DimensionIsReady
  BY DEF Refreshed, DimensionIsReady, UpToDate
<1> QED
  BY <1>1, <1>2, RefreshedStep, HistoryInvariant, PTL DEF Spec
-----------------------------------------------------------------------------
(* Facts were loaded by a build up to now, and when more are about to be   *)
(* appended, up to the date that was read.                                 *)
Loaded ==
  /\ \A f \in fact : f.at <= build
  /\ pc = "append" => lastLoaded \in LatestDate

FactInv == Loaded /\ OneFactPerOrder /\ FactKeysResolve /\ NoOrderPassedOver

(* A step that appends no facts, and neither reads their latest date nor   *)
(* touches the dimensions.                                                 *)
LEMMA FactsKept ==
  ASSUME TypeOK, TypeOK', FactInv, UNCHANGED <<dim, dimProduct, fact>>, torn \subseteq torn',
         build' \in Nat, build' >= build, pc' = "append" => pc = "append" /\ lastLoaded' = lastLoaded,
         \A o \in orders' \ late' : o \in orders \ late \/ \A n \in LatestDate : DateOf[o] > n
  PROVE  FactInv'
<1>1. LatestDate' = LatestDate /\ LatestDate \subseteq Nat
  BY OrderAssumption DEF LatestDate, OrderAssumption, TypeOK, FactRow
<1>2. Loaded'
  BY <1>1 DEF FactInv, Loaded, TypeOK, FactRow
<1>3. OneFactPerOrder'
  BY DEF FactInv, OneFactPerOrder
<1>4. FactKeysResolve'
  BY DEF FactInv, FactKeysResolve
<1>5. NoOrderPassedOver'
  <2> SUFFICES ASSUME NEW o \in orders' \ late', NEW n \in LatestDate, DateOf[o] <= n
               PROVE  \E f \in fact : f.order = o
    BY <1>1 DEF NoOrderPassedOver
  <2>1. DateOf[o] \in Nat /\ n \in Nat
    BY <1>1, OrderAssumption DEF OrderAssumption, TypeOK
  <2> QED
    BY <2>1 DEF FactInv, NoOrderPassedOver
<1> QED
  BY <1>2, <1>3, <1>4, <1>5 DEF FactInv

(* The row a fact's key names.                                             *)
Names(d, f) ==
  /\ f.customer_sk = Key(d) /\ d.customer = CustomerOf[f.order]
  /\ d.from <= f.at /\ (d.current \/ f.at <= d.to)

LEMMA OneCurrentRow ==
  ASSUME VersionsFollow, NEW c, c \notin torn
  PROVE  \A d, e \in CurrentRows(c) : d = e
BY DEF VersionsFollow, CurrentRows

(* What an order line adds to fact_sales.                                  *)
LEMMA NewFacts ==
  ASSUME NEW o \in Orders
  PROVE  /\ FactRows(o) # {}
         /\ \A f \in FactRows(o) :
              /\ f.order = o /\ f.at = build /\ f.product_sk = dimProduct[ProductOf[o]]
              /\ \/ f.customer_sk = <<>>
                 \/ \E d \in CurrentRows(CustomerOf[o]) : f.customer_sk = Key(d)
         /\ (\A d, e \in CurrentRows(CustomerOf[o]) : d = e) =>
              \A f, g \in FactRows(o) : f = g
<1> DEFINE Current == CurrentRows(CustomerOf[o])
           Keys == {Key(d) : d \in Current}
           Chosen == IF Keys = {} THEN {<<>>} ELSE Keys
           Row(key) == [order |-> o, customer_sk |-> key,
                        product_sk |-> dimProduct[ProductOf[o]], at |-> build]
<1>1. FactRows(o) = {Row(key) : key \in Chosen}
  BY DEF FactRows
<1>2. Chosen # {} /\ \A key \in Chosen : key = <<>> \/ \E d \in Current : key = Key(d)
  OBVIOUS
<1>3. (\A d, e \in Current : d = e) => \A j, k \in Chosen : j = k
  <2>1. CASE Keys = {}
    BY <2>1
  <2>2. CASE Keys # {}
    BY <2>2
  <2> QED
    BY <2>1, <2>2
<1> HIDE DEF Current, Chosen
<1>4. FactRows(o) # {}
  BY <1>1, <1>2
<1>5. ASSUME NEW f \in FactRows(o)
      PROVE  /\ f.order = o /\ f.at = build /\ f.product_sk = dimProduct[ProductOf[o]]
             /\ f.customer_sk = <<>> \/ \E d \in Current : f.customer_sk = Key(d)
  <2>1. PICK key \in Chosen : f = Row(key)
    BY <1>1
  <2> QED
    BY <1>2, <2>1
<1>6. (\A d, e \in Current : d = e) => \A f, g \in FactRows(o) : f = g
  BY <1>1, <1>3
<1> QED
  BY <1>4, <1>5, <1>6 DEF Current

LEMMA FactStep ==
  TypeOK /\ TypeOK' /\ HistoryInv /\ FactInv /\ [Next]_vars => FactInv'
<1> SUFFICES ASSUME TypeOK, TypeOK', HistoryInv, FactInv, [Next]_vars PROVE FactInv'
  OBVIOUS
<1>0. build \in Nat /\ LatestDate \subseteq Nat
  BY OrderAssumption DEF LatestDate, OrderAssumption, TypeOK, FactRow
<1>1. ASSUME NEW c \in Customers, ChangeCustomer(c) PROVE FactInv'
  BY <1>0, <1>1, FactsKept DEF ChangeCustomer, gold
<1>2. ASSUME NEW p \in Products, AddProduct(p) PROVE FactInv'
  BY <1>0, <1>2, FactsKept DEF AddProduct, gold
<1>3. ASSUME NEW o \in Orders, Arrive(o) PROVE FactInv'
  <2>1. DateOf[o] \in Nat
    BY OrderAssumption DEF OrderAssumption
  <2>2. \A q \in orders' \ late' : q \in orders \ late \/ \A n \in LatestDate : DateOf[q] > n
    BY <1>0, <1>3, <2>1 DEF Arrive
  <2> QED
    BY <1>0, <1>3, <2>2, FactsKept DEF Arrive, gold
<1>4. CASE StartBuild
  BY <1>0, <1>4, FactsKept DEF StartBuild, gold
<1>5. CASE ReadMaxDate
  BY <1>5 DEF ReadMaxDate, silver, gold, FactInv, Loaded, LatestDate, OneFactPerOrder,
              FactKeysResolve, CurrentRows, NoOrderPassedOver
<1>6. CASE Crash
  BY <1>0, <1>6, FactsKept DEF Crash, silver, gold
<1>7. CASE UNCHANGED vars
  BY <1>0, <1>7, FactsKept DEF vars, silver, gold
<1>8. ASSUME UNCHANGED <<silver, dimProduct, fact, build, lastLoaded>>, pc' # "append",
             \A f \in fact, d \in dim : Names(d, f) => \E e \in dim' : Names(e, f)
      PROVE  FactInv'
  <2>1. FactKeysResolve'
    BY <1>8 DEF FactInv, FactKeysResolve, Names
  <2> QED
    BY <1>8, <2>1 DEF FactInv, Loaded, OneFactPerOrder, NoOrderPassedOver, LatestDate, silver
<1>9. CASE Expire
  <2>1. dim' = (dim \ ToExpire) \cup {Ended(d) : d \in ToExpire}
    BY <1>9 DEF Expire, Ended
  <2>2. \A d \in ToExpire : /\ Ended(d).customer = d.customer /\ Ended(d).from = d.from
                           /\ Ended(d).nth = d.nth /\ Ended(d).to = build
    BY <1>0, EndedRow DEF TypeOK, ToExpire
  <2>3. ASSUME NEW f \in fact, NEW d \in dim, Names(d, f) PROVE \E e \in dim' : Names(e, f)
    <3>1. CASE d \in ToExpire
      <4>1. Names(Ended(d), f)
        BY <2>2, <2>3, <3>1 DEF Names, Key, FactInv, Loaded
      <4> QED
        BY <2>1, <3>1, <4>1
    <3>2. CASE d \notin ToExpire
      BY <2>1, <2>3, <3>2
    <3> QED
      BY <3>1, <3>2
  <2>4. UNCHANGED <<silver, dimProduct, fact, build, lastLoaded>> /\ pc' # "append"
    BY <1>9 DEF Expire
  <2> QED
    BY <1>8, <2>3, <2>4
<1>10. CASE InsertVersions
  <2>1. dim \subseteq dim'
    BY <1>10 DEF InsertVersions
  <2> QED
    BY <1>8, <1>10, <2>1 DEF InsertVersions
<1>11. CASE MergeProducts
  <2>1. FactKeysResolve'
    <3>1. ASSUME NEW p \in Products, dimProduct[p] # 0 PROVE dimProduct'[p] = dimProduct[p]
      BY <1>11, <3>1 DEF MergeProducts, TypeOK
    <3>2. \A f \in fact : ProductOf[f.order] \in Products
      BY OrderAssumption DEF OrderAssumption, TypeOK, FactRow
    <3> QED
      BY <1>11, <3>1, <3>2 DEF MergeProducts, FactInv, FactKeysResolve
  <2> QED
    BY <1>11, <2>1 DEF MergeProducts, FactInv, Loaded, OneFactPerOrder, NoOrderPassedOver,
                       LatestDate, silver
<1>12. CASE AppendFacts
  <2> DEFINE Lines == UNION {FactRows(o) : o \in NewOrders}
  <2>1. /\ fact' = fact \cup Lines
        /\ UNCHANGED <<silver, dim, dimProduct, build>> /\ pc' = "idle" /\ pc = "append"
    BY <1>12 DEF AppendFacts
  <2>2. NewOrders \subseteq orders /\ orders \subseteq Orders
    BY DEF NewOrders, TypeOK
  <2>3. \A f \in Lines : f.order \in NewOrders /\ f \in FactRows(f.order)
    BY <2>2, NewFacts
  <2>4. lastLoaded \in LatestDate
    BY <2>1 DEF FactInv, Loaded
  <2>5. \A f \in fact : f.order \notin NewOrders
    BY <2>4, OrderAssumption DEF NewOrders, LatestDate, OrderAssumption, TypeOK, FactRow
  <2>6. Loaded'
    <3>1. \A f \in Lines : f.at = build
      BY <2>2, <2>3, NewFacts
    <3> QED
      BY <1>0, <2>1, <3>1 DEF FactInv, Loaded
  <2>7. OneFactPerOrder'
    <3>1. ASSUME NEW f \in Lines, NEW g \in Lines, f.order = g.order, CustomerOf[f.order] \notin torn
          PROVE  f = g
      <4>1. \A d, e \in CurrentRows(CustomerOf[f.order]) : d = e
        BY <3>1, OneCurrentRow DEF HistoryInv
      <4> QED
        BY <2>2, <2>3, <3>1, <4>1, NewFacts
    <3> QED
      BY <2>1, <2>3, <2>5, <3>1 DEF FactInv, OneFactPerOrder, silver
  <2>8. FactKeysResolve'
    <3>1. ASSUME NEW f \in Lines, f.customer_sk # <<>> PROVE \E d \in dim : Names(d, f)
      <4>1. PICK d \in CurrentRows(CustomerOf[f.order]) : f.customer_sk = Key(d)
        BY <2>2, <2>3, <3>1, NewFacts
      <4>2. d \in dim /\ d.current /\ d.customer = CustomerOf[f.order] /\ d.from <= build
        BY <4>1 DEF CurrentRows, HistoryInv, Dated
      <4>3. f.at = build
        BY <2>2, <2>3, NewFacts
      <4> QED
        BY <4>1, <4>2, <4>3 DEF Names
    <3>2. \A f \in Lines : f.product_sk = dimProduct[ProductOf[f.order]]
      BY <2>2, <2>3, NewFacts
    <3> QED
      BY <2>1, <3>1, <3>2 DEF FactInv, FactKeysResolve, Names
  <2>9. NoOrderPassedOver'
    <3> SUFFICES ASSUME NEW o \in orders \ late, NEW n \in LatestDate', DateOf[o] <= n
                 PROVE  \E f \in fact \cup Lines : f.order = o
      BY <2>1 DEF NoOrderPassedOver, silver
    <3>1. CASE o \in NewOrders
      <4>1. PICK f \in FactRows(o) : f.order = o
        BY <2>2, NewFacts
      <4> QED
        BY <3>1, <4>1
    <3>2. CASE o \notin NewOrders
      <4>1. DateOf[o] <= lastLoaded
        BY <1>0, <2>2, <2>4, <3>2, OrderAssumption DEF NewOrders, OrderAssumption
      <4> QED
        BY <2>4, <4>1 DEF FactInv, NoOrderPassedOver
    <3> QED
      BY <3>1, <3>2
  <2> QED
    BY <2>6, <2>7, <2>8, <2>9 DEF FactInv
<1> QED
  BY <1>1, <1>2, <1>3, <1>4, <1>5, <1>6, <1>7, <1>9, <1>10, <1>11, <1>12 DEF Next, BuildStep

LEMMA FactInvariant == Spec => []FactInv
<1>1. Init => FactInv
  BY DEF Init, FactInv, Loaded, OneFactPerOrder, FactKeysResolve, NoOrderPassedOver, LatestDate
<1> QED
  BY <1>1, FactStep, TypeStep, HistoryInvariant, PTL DEF Spec

(* One fact per order line, however loads are killed and repeated.         *)
THEOREM FactsAreOnce == Spec => []OneFactPerOrder
<1>1. FactInv => OneFactPerOrder
  BY DEF FactInv
<1> QED
  BY <1>1, FactInvariant, PTL

(* The keys of a fact keep naming the customer version of its load and its *)
(* product.                                                                *)
THEOREM KeysResolve == Spec => []FactKeysResolve
<1>1. FactInv => FactKeysResolve
  BY DEF FactInv
<1> QED
  BY <1>1, FactInvariant, PTL

(* Only an order line that arrives after its date was loaded is missed.    *)
THEOREM OrdersAreLoaded == Spec => []NoOrderPassedOver
<1>1. FactInv => NoOrderPassedOver
  BY DEF FactInv
<1> QED
  BY <1>1, FactInvariant, PTL
=============================================================================
