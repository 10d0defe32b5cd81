--------------------------- MODULE CostAllocation ---------------------------
(***************************************************************************)
(* shared/src/accounting/costAllocation.js: whose cost a project's cost    *)
(* is.  Units are a sequence of [size, price, quantity], in the order of   *)
(* their ids.                                                              *)
(***************************************************************************)
EXTENDS Money

Bases == {"saleable_area", "sales_value"}

WeightOf(unit, basis) ==
  Greater(unit.quantity, 1) * Greater(IF basis = "sales_value" THEN unit.price ELSE unit.size, 0)

Weights(units, basis) == [u \in DOMAIN units |-> WeightOf(units[u], basis)]

(* allocate: the largest remainders take what the floors leave; where      *)
(* nothing weighs anything, nothing is allocated.                          *)
Shares(pool, units, basis) ==
  IF pool > 0 THEN AllocateByWeight(pool, Weights(units, basis)) ELSE [u \in DOMAIN units |-> 0]

(* outstandingRelease: negative when the pool has shrunk.                  *)
OutstandingRelease(allocated, released) == allocated - released
=============================================================================
