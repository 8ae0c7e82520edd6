------------------------------ MODULE FieldTypes ------------------------------
(***************************************************************************)
(* The kinds of a form field and the two conversions through which a kind  *)
(* is stored in Core Data and in the Firebase tree (DocumentModel.swift).  *)
(* A kind travels as its Russian label; the labels are transliterated.     *)
(***************************************************************************)

\* enum FieldType: the seven kinds of a field.
FieldType == {"name", "surname", "namesurname", "address", "serial", "number", "custom"}

\* The label each kind is written as.
stringFromFieldType(t) ==
  CASE t = "name"        -> "Imya"
    [] t = "surname"     -> "Familiya"
    [] t = "namesurname" -> "FIO"
    [] t = "address"     -> "Adres"
    [] t = "serial"      -> "Seriya"
    [] t = "number"      -> "Nomer"
    [] OTHER             -> "Drugoe"

\* The kind a label is read as; every unknown label, the empty one that stands
\* for a missing value included, is read as .custom.
fieldTypeFromString(s) ==
  CASE s = "Imya"     -> "name"
    [] s = "Familiya" -> "surname"
    [] s = "FIO"      -> "namesurname"
    [] s = "Adres"    -> "address"
    [] s = "Seriya"   -> "serial"
    [] s = "Nomer"    -> "number"
    [] OTHER          -> "custom"
===============================================================================
