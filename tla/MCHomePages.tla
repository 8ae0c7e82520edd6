------------------------------ MODULE MCHomePages ------------------------------
(* A document with one field. *)
EXTENDS HomePages

OneField == <<"name">>
===============================================================================
