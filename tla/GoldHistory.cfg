SPECIFICATION Spec
CONSTANTS
  c1 = c1
  v1 = v1
  v2 = v2
  item = item
  o1 = o1
  o2 = o2
  o3 = o3
  Null = Null
  Absent = Absent
  Customers = {c1}
  Values = {v1, v2}
  Products = {item}
  Orders = {o1, o2, o3}
  CustomerOf <- BuyerOf
  ProductOf <- ItemOf
  DateOf <- SoldOn
  MaxBuilds = 3
  MaxCrashes = 1
INVARIANTS VersionsFollow DimensionIsReady OneFactPerOrder FactKeysResolve NoOrderPassedOver
SYMMETRY Alike
