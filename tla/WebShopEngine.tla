--------------------------- MODULE WebShopEngine ---------------------------
(***************************************************************************)
(* The page engine of the WebShop environment (recipe/webshop/env/         *)
(* engine.py).  It keeps nothing between two requests: a request brings    *)
(* the state of its episode and takes the next one away, so the engine is  *)
(* a set of operators on that state.                                       *)
(*                                                                         *)
(* Left out: the text of the pages, task_score (the graded reward that     *)
(* only the metrics read) and last_action, which nothing reads.            *)
(***************************************************************************)
EXTENDS Integers, Sequences, FiniteSetsExt, SequencesExt

CONSTANTS
  Items,     \* the products, by ASIN
  Names,     \* the names of options, such as color
  Values,    \* the values of options, such as red
  Options,   \* Items -> sequence of [name, values], in the order of the product's record
  Queries,   \* the queries the policy makes, NoQuery among them
  Hits,      \* Queries -> sequence of Items, ranked and cut at search_top_k
  Window     \* PRODUCT_WINDOW: products on one page of results

NoQuery == "no query"
NoItem == "no item"
NoValue == "not selected"
NoName == "no name"

Subpages == {"description", "features", "reviews"}
Buttons == {"buy now", "back to search", "back to item", "next >", "< prev"} \union Subpages

ASSUME WebShopAssumption ==
  /\ Window \in Nat \ {0}
  /\ NoQuery \in Queries /\ NoItem \notin Items /\ NoValue \notin Values /\ NoName \notin Names
  /\ Options \in [Items -> Seq([name : Names, values : SUBSET Values])]
  /\ Hits \in [Queries -> Seq(Items)] /\ Hits[NoQuery] = <<>>
  /\ Items \intersect Values = {} /\ Buttons \intersect (Items \union Values) = {}

-----------------------------------------------------------------------------
(* The state of an episode: schemas.EnvState. *)

Selections == [Names -> Values \union {NoValue}]

States == [page : {"home", "search_results", "item", "subpage", "done"},
           query : Queries, pageNum : Nat, asin : Items \union {NoItem},
           subpage : Subpages \union {"none"}, selected : Selections]

Fresh == [page |-> "home", query |-> NoQuery, pageNum |-> 0, asin |-> NoItem,
          subpage |-> "none", selected |-> [n \in Names |-> NoValue]]

\* A value that two options of a product share belongs to the last of them.
OptionName(item, value) ==
  LET having == {i \in DOMAIN Options[item] : value \in Options[item][i].values} IN
  IF having = {} THEN NoName ELSE Options[item][Max(having)].name

\* The products of one page of results.
PageResults(query, pageNum) ==
  SubSeq(Hits[query], pageNum * Window + 1, Min({(pageNum + 1) * Window, Len(Hits[query])}))

\* What a page shows of a state.
Render(s) ==
  CASE s.page = "search_results" ->
         [page |-> s.page, query |-> s.query, results |-> PageResults(s.query, s.pageNum)]
    [] s.page = "item" /\ s.asin \in Items ->
         [page |-> s.page, asin |-> s.asin,
          selected |-> [i \in DOMAIN Options[s.asin] |-> s.selected[Options[s.asin][i].name]]]
    [] s.page = "subpage" /\ s.asin \in Items ->
         [page |-> s.page, asin |-> s.asin, subpage |-> s.subpage]
    [] OTHER -> [page |-> "home"]

-----------------------------------------------------------------------------
(* What a page offers: targets of a click, beside a search. *)

\* Mutant: a next page is offered when the last one is just full.
AvailableClicks_EmptyNext(s) ==
  CASE s.page = "search_results" ->
         Range(PageResults(s.query, s.pageNum))
           \union {t \in {"< prev"} : s.pageNum > 0}
           \union {t \in {"next >"} : (s.pageNum + 1) * Window <= Len(Hits[s.query])}
    [] s.page = "item" /\ s.asin \in Items ->
         Subpages \union {"back to search", "buy now"}
           \union UNION {Options[s.asin][i].values : i \in DOMAIN Options[s.asin]}
    [] s.page = "subpage" /\ s.asin \in Items ->
         {"back to item", "back to search", "buy now"}
    [] OTHER -> {}

AvailableClicks(s) ==
  CASE s.page = "search_results" ->
         Range(PageResults(s.query, s.pageNum))
           \union {t \in {"< prev"} : s.pageNum > 0}
           \union {t \in {"next >"} : (s.pageNum + 1) * Window < Len(Hits[s.query])}
    [] s.page = "item" /\ s.asin \in Items ->
         Subpages \union {"back to search", "buy now"}
           \union UNION {Options[s.asin][i].values : i \in DOMAIN Options[s.asin]}
    [] s.page = "subpage" /\ s.asin \in Items ->
         {"back to item", "back to search", "buy now"}
    [] OTHER -> {}

-----------------------------------------------------------------------------
(* What a command does to the state. *)

\* The choices stay behind: no product is open for them until one is clicked.
Search(s, query) ==
  [s EXCEPT !.page = "search_results", !.query = query, !.pageNum = 0,
            !.asin = NoItem, !.subpage = "none"]

BackToSearch(s) ==
  [s EXCEPT !.page = IF s.query # NoQuery THEN "search_results" ELSE "home", !.subpage = "none"]

BackToItem(s) ==
  IF s.asin = NoItem THEN s ELSE [s EXCEPT !.page = "item", !.subpage = "none"]

\* Mutant: a product is opened with the choices made on the one before it.
Open_KeepsChoices(s, item) ==
  [s EXCEPT !.page = "item", !.asin = item, !.subpage = "none"]

Open(s, item) ==
  [s EXCEPT !.page = "item", !.asin = item, !.subpage = "none",
            !.selected = [n \in Names |-> NoValue]]

Choose(s, value) ==
  [s EXCEPT !.page = "item", !.subpage = "none", !.selected[OptionName(s.asin, value)] = value]

\* The targets that a click is refused for: nothing of the page is tested, so a
\* button or an option of the product last opened works from every page.
Refuses(s, target) ==
  \/ target \in {"next >", "< prev"} /\ s.page # "search_results"
  \/ target \in Subpages /\ s.asin = NoItem
  \/ target \notin Buttons \union Items
       /\ (s.asin = NoItem \/ OptionName(s.asin, target) = NoName)

Click(s, target) ==
  IF Refuses(s, target) THEN s ELSE
  CASE target = "buy now" -> [s EXCEPT !.page = "done"]
    [] target = "back to search" -> BackToSearch(s)
    [] target = "back to item" -> BackToItem(s)
    [] target = "next >" -> [s EXCEPT !.pageNum = @ + 1]
    [] target = "< prev" -> [s EXCEPT !.pageNum = Max({0, @ - 1})]
    [] target \in Items -> Open(s, target)
    [] target \in Subpages -> [s EXCEPT !.page = "subpage", !.subpage = target]
    [] OTHER -> Choose(s, target)

\* A purchase of score 1.  The products whose text, category and price satisfy
\* the goal are data (goal.suits).  The small data set compares the options by
\* name, the full one only asks that each wanted value is chosen somewhere.
Success(goal, s) ==
  /\ s.asin \in goal.suits
  /\ goal.full \/ s.asin = goal.asin
  /\ \A n \in DOMAIN goal.wanted :
       IF goal.full THEN \E m \in Names : s.selected[m] = goal.wanted[n]
                    ELSE s.selected[n] = goal.wanted[n]
=============================================================================
