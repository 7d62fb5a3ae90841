CONSTANTS
  Sides = 2
  MaxOrders = 2
  MinSlice = 1
  Want = 2
  Ttl = 2
  Margin = 1
  MaxBalance = 2
  MaxShocks = 2
SPECIFICATION Spec
INVARIANTS TypeOK SlotNonces Funded
PROPERTIES FreshNonces RefusedOnce
