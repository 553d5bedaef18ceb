------------------------------ MODULE MCShop -----------------------------
EXTENDS Shop

(* The second version has another product, of another category. *)
MCCatalogue ==
  << {[id |-> 1, category |-> 1, price |-> 10]}, {[id |-> 2, category |-> 2, price |-> 20]} >>
=============================================================================
