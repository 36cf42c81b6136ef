--------------------------- MODULE StockInventoryMC ---------------------------
(* StockInventory with its constants given by the configurations. *)
EXTENDS StockInventory
===============================================================================
