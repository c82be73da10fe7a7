----------------------------- MODULE MCWebShop -----------------------------
(***************************************************************************)
(* Two products with the same option, one of them with a second option     *)
(* that shares a value with the first.  Two hits on pages of one product,  *)
(* so that a first, a last and an empty page of results are met, and a     *)
(* query with no hit.  One goal of each data set.                          *)
(***************************************************************************)
EXTENDS WebShop

MCItems == {"cup", "mug"}
MCNames == {"color", "trim"}
MCValues == {"red", "blue"}
MCOptions ==
  [i \in MCItems |->
     IF i = "cup" THEN << [name |-> "color", values |-> {"red", "blue"}] >>
                  ELSE << [name |-> "color", values |-> {"red", "blue"}],
                          [name |-> "trim", values |-> {"blue"}] >>]

MCQueries == {NoQuery, "crockery"}
MCHits == [q \in MCQueries |-> IF q = NoQuery THEN <<>> ELSE <<"cup", "mug">>]

MCGoals ==
  { [full |-> FALSE, asin |-> "mug", suits |-> {"mug"}, wanted |-> [n \in {"color"} |-> "red"]],
    [full |-> TRUE, asin |-> "mug", suits |-> {"cup", "mug"}, wanted |-> [n \in MCNames |->
       IF n = "color" THEN "red" ELSE "blue"]] }
=============================================================================
