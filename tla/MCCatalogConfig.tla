--------------------------- MODULE MCCatalogConfig ---------------------------
(* One database in two spellings, one schema, two tables.                   *)
EXTENDS CatalogConfig

MCTyped ==
  { [db |-> "Sales", schema |-> "dbo", tables |-> {}],
    [db |-> "sales", schema |-> "dbo", tables |-> {"Bill"}],
    [db |-> "Sales", schema |-> "dbo", tables |-> {"log"}] }

MCFolded == [n \in {"Sales", "sales", "dbo", "Bill", "log"} |->
               CASE n = "Sales" -> "sales" [] n = "Bill" -> "bill" [] OTHER -> n]

MCServer == {[schema |-> "dbo", table |-> "Bill"], [schema |-> "dbo", table |-> "log"]}
=============================================================================
