---------------------------- MODULE MCCustomerApp ----------------------------
(* Values of the constants of CustomerApp for its TLC run: model values for *)
(* calls, fetches and the staff, and the bounds on the tables.             *)
EXTENDS CustomerApp
=============================================================================
