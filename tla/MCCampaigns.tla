---------------------------- MODULE MCCampaigns -----------------------------
(* Two campaigns, one or two DBAs, three of the forms a DBA may fill in.   *)
EXTENDS Campaigns, TLC

\* All tables and every type; one table, one type whose numbers are tuned
\* and one input left empty; a form the page refuses.
MCEntries ==
  { [end |-> 1, tableMode |-> "all", selected |-> {}, types |-> Types,
     inputs |-> [t \in Types |-> "default"], ownWindow |-> FALSE],
    [end |-> LastDay, tableMode |-> "specific", selected |-> {CHOOSE t \in Tables : TRUE},
     types |-> {"index"}, inputs |-> [t \in Types |-> IF t = "index" THEN "tuned" ELSE ""],
     ownWindow |-> TRUE],
    [end |-> LastDay, tableMode |-> "specific", selected |-> {}, types |-> {"index"},
     inputs |-> [t \in Types |-> "default"], ownWindow |-> FALSE] }

UsersAndCampaignsAreAlike == Permutations(Users) \cup Permutations(Ids)

MCTypes == {"index", "statistic"}
=============================================================================
