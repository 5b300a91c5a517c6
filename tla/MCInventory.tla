----------------------------- MODULE MCInventory -----------------------------
(* An instance of Inventory for TLC                                          *)
EXTENDS Inventory

CONSTANTS e1, e2, u1, u2,  \* two endpoints, and two setups for the first
          d2, k1

MCFields == {[endpoint |-> e1, setup |-> u1], [endpoint |-> e1, setup |-> u2],
             [endpoint |-> e2, setup |-> u1]}

\* Up to the names of the devices and of the keys
Init == InventoryInit /\ presents[e1] = k1 /\ device[d2] = None
Spec == Init /\ [][InventoryNext]_inventoryVars /\ InventoryFairness
=============================================================================
