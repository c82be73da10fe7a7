--------------------------- MODULE WebShop_proofs --------------------------
(***************************************************************************)
(* For every catalogue, ranking, set of goals and number of steps: the     *)
(* success reward is paid for what was clicked (PaidForItsClicks), and     *)
(* every prompt shows the current page (PromptIsCurrent).                  *)
(*                                                                         *)
(* The first speaks of the last purchase only.  What is inductive is       *)
(* that env_state says at every turn what the history says: the product    *)
(* that is open (LogOpened), and its choices (LogChosen).                  *)
(***************************************************************************)
EXTENDS WebShop, TLAPS, WellFoundedInduction

Entries == Commands \union {InvalidCall}

Observations == [page : {Shown(s) : s \in States}, notices : Nat]

TypeInv ==
  /\ goal \in Goals
  /\ env \in States
  /\ observation \in Observations
  /\ history \in Seq(Entries)
  /\ steps \in Seq([anchor : Observations, reward : Int])
  /\ done \in BOOLEAN

\* The state's product is the one last clicked since the last search.
LogOpened ==
  \A item \in Items : env.asin = item <=> \E i \in DOMAIN history : Opened(item, i)

\* Its choices are the last clicks on its options.
LogChosen ==
  \A item \in Items, i \in DOMAIN history : Opened(item, i) =>
    \A n \in Names, v \in Values : env.selected[n] = v <=> Chosen(item, i, n, v)

IInv == TypeInv /\ LogOpened /\ LogChosen /\ PaidForItsClicks

-----------------------------------------------------------------------------
(* What an answer does to the state. *)

LEMMA MaxZeroType == \A x \in Int : Max({0, x}) \in Nat
<1> SUFFICES ASSUME NEW x \in Int PROVE Max({0, x}) \in Nat
  OBVIOUS
<1>1. \E y \in {0, x} : \A z \in {0, x} : y >= z
  <2>1. CASE x <= 0  BY <2>1
  <2>2. CASE x > 0  BY <2>2
  <2> QED  BY <2>1, <2>2
<1>2. Max({0, x}) \in {0, x} /\ \A z \in {0, x} : Max({0, x}) >= z
  BY <1>1 DEF Max
<1> QED  BY <1>2

LEMMA ElementType ==
  ASSUME NEW S, NEW s \in Seq(S), NEW i \in DOMAIN s
  PROVE  s[i] \in S
  OBVIOUS

\* A value that no product has belongs to no option.
LEMMA JunkHasNoName ==
  ASSUME NEW item \in Items, NEW value, value \notin Values
  PROVE  OptionName(item, value) = NoName
<1>1. \A i \in DOMAIN Options[item] : Options[item][i].values \subseteq Values
  <2>1. Options[item] \in Seq([name : Names, values : SUBSET Values])
    BY WebShopAssumption
  <2> SUFFICES ASSUME NEW i \in DOMAIN Options[item]
               PROVE  Options[item][i].values \subseteq Values
    OBVIOUS
  <2>2. Options[item][i] \in [name : Names, values : SUBSET Values]
    BY <2>1, ElementType
  <2> QED  BY <2>2
<1> DEFINE having == {i \in DOMAIN Options[item] : value \in Options[item][i].values}
<1>2. having = {}
  <2> SUFFICES ASSUME NEW i \in having PROVE FALSE
    OBVIOUS
  <2>1. i \in DOMAIN Options[item] /\ value \in Options[item][i].values
    OBVIOUS
  <2> QED  BY <1>1, <2>1
<1>3. OptionName(item, value) =
        IF having = {} THEN NoName ELSE Options[item][Max(having)].name
  BY DEF OptionName
<1> QED  BY <1>2, <1>3

LEMMA FreshType == Fresh \in States
  BY WebShopAssumption DEF Fresh, States, Selections, Subpages

LEMMA SearchEffect ==
  ASSUME NEW s \in States, NEW q \in Queries
  PROVE  Search(s, q) \in States /\ Search(s, q).asin = NoItem
  BY DEF Search, States

LEMMA OpenEffect ==
  ASSUME NEW s \in States, NEW item \in Items
  PROVE  /\ Click(s, item) \in States
         /\ Click(s, item).asin = item
         /\ Click(s, item).selected = [n \in Names |-> NoValue]
<1>1. item \notin Buttons
  BY WebShopAssumption
<1>2. ~Refuses(s, item) /\ Click(s, item) = Open(s, item)
  BY <1>1 DEF Refuses, Click, Buttons, Subpages
<1>3. [n \in Names |-> NoValue] \in Selections
  BY DEF Selections
<1>4. Open(s, item) \in States
  BY <1>3 DEF Open, States
<1>5. Open(s, item).asin = item /\ Open(s, item).selected = [n \in Names |-> NoValue]
  BY DEF Open, States
<1> QED  BY <1>2, <1>4, <1>5

LEMMA ChooseEffect ==
  ASSUME NEW s \in States, NEW value \in Values
  PROVE  /\ Click(s, value) \in States
         /\ Click(s, value).asin = s.asin
         /\ \A n \in Names : Click(s, value).selected[n] =
              IF s.asin # NoItem /\ OptionName(s.asin, value) = n THEN value ELSE s.selected[n]
<1>1. value \notin Buttons \union Items
  BY WebShopAssumption
<1>2. CASE Refuses(s, value)
  <2>1. Click(s, value) = s  BY <1>2 DEF Click
  <2>2. s.asin = NoItem \/ OptionName(s.asin, value) = NoName
    BY <1>1, <1>2 DEF Refuses, Buttons
  <2> QED  BY <2>1, <2>2, WebShopAssumption
<1>3. CASE ~Refuses(s, value)
  <2>1. s.asin # NoItem  BY <1>1, <1>3 DEF Refuses
  <2>2. Click(s, value) = Choose(s, value)
    BY <1>1, <1>3 DEF Click, Buttons, Subpages
  <2>3. Choose(s, value) =
          [s EXCEPT !.page = "item", !.subpage = "none",
                    !.selected = [s.selected EXCEPT ![OptionName(s.asin, value)] = value]]
    BY DEF Choose, States
  <2>4. s.selected \in Selections  BY DEF States
  <2>5. [s.selected EXCEPT ![OptionName(s.asin, value)] = value] \in Selections
    BY <2>4 DEF Selections
  <2>6. \A n \in Names : [s.selected EXCEPT ![OptionName(s.asin, value)] = value][n] =
                           IF OptionName(s.asin, value) = n THEN value ELSE s.selected[n]
    BY <2>4 DEF Selections
  <2> DEFINE after == [s.selected EXCEPT ![OptionName(s.asin, value)] = value]
  <2> HIDE DEF after
  <2>7. after \in Selections
    BY <2>5 DEF after
  <2>8. Click(s, value) = [s EXCEPT !.page = "item", !.subpage = "none", !.selected = after]
    BY <2>2, <2>3 DEF after
  <2>9. Click(s, value) \in States
    BY <2>7, <2>8 DEF States
  <2>10. Click(s, value).asin = s.asin /\ Click(s, value).selected = after
    BY <2>8 DEF States
  <2>11. \A n \in Names : after[n] =
            IF OptionName(s.asin, value) = n THEN value ELSE s.selected[n]
    BY <2>6 DEF after
  <2> QED  BY <2>1, <2>9, <2>10, <2>11
<1> QED  BY <1>2, <1>3

LEMMA ButtonEffect ==
  ASSUME NEW s \in States, NEW target \in Buttons \union {Junk}
  PROVE  /\ Click(s, target) \in States
         /\ Click(s, target).asin = s.asin
         /\ Click(s, target).selected = s.selected
<1>1. CASE Refuses(s, target)
  BY <1>1 DEF Click
<1>2. CASE ~Refuses(s, target)
  <2>1. target # Junk
    <3> SUFFICES ASSUME target = Junk PROVE FALSE  OBVIOUS
    <3>1. s.asin # NoItem /\ OptionName(s.asin, target) # NoName
      BY <1>2, FlowAssumption DEF Refuses
    <3>2. s.asin \in Items  BY <3>1 DEF States
    <3> QED  BY <3>1, <3>2, JunkHasNoName, FlowAssumption
  <2>2. target \in Buttons /\ target \notin Items
    BY <2>1, WebShopAssumption
  <2>3. CASE target = "< prev"
    <3>1. s.pageNum - 1 \in Int  BY DEF States
    <3>2. Max({0, s.pageNum - 1}) \in Nat  BY <3>1, MaxZeroType
    <3> DEFINE before == Max({0, s.pageNum - 1})
    <3>3. Click(s, target) = [s EXCEPT !.pageNum = before]
      BY <1>2, <2>2, <2>3 DEF Click, Subpages
    <3> HIDE DEF before
    <3>4. before \in Nat  BY <3>2 DEF before
    <3> QED  BY <3>3, <3>4 DEF States
  <2>4. CASE target = "next >"
    <3>1. Click(s, target) = [s EXCEPT !.pageNum = s.pageNum + 1]
      BY <1>2, <2>2, <2>4 DEF Click, Subpages
    <3>2. s.pageNum + 1 \in Nat  BY DEF States
    <3> QED  BY <3>1, <3>2 DEF States
  <2>5. CASE target \in Subpages
    <3>1. Click(s, target) = [s EXCEPT !.page = "subpage", !.subpage = target]
      BY <1>2, <2>2, <2>5 DEF Click, Subpages
    <3> QED  BY <3>1, <2>5 DEF States
  <2>6. CASE target \in {"buy now", "back to search", "back to item"}
    <3>1. CASE target = "buy now"
      <4>1. Click(s, target) = [s EXCEPT !.page = "done"]
        BY <1>2, <2>2, <3>1 DEF Click, Subpages
      <4> QED  BY <4>1 DEF States
    <3>2. CASE target = "back to search"
      <4>1. Click(s, target) = BackToSearch(s)
        BY <1>2, <2>2, <3>2 DEF Click, Subpages
      <4> QED  BY <4>1 DEF BackToSearch, States
    <3>3. CASE target = "back to item"
      <4>1. Click(s, target) = BackToItem(s)
        BY <1>2, <2>2, <3>3 DEF Click, Subpages
      <4> QED  BY <4>1 DEF BackToItem, States
    <3> QED  BY <2>6, <3>1, <3>2, <3>3
  <2> QED  BY <2>2, <2>3, <2>4, <2>5, <2>6 DEF Buttons
<1> QED  BY <1>1, <1>2

LEMMA AnswerType ==
  ASSUME TypeInv, NEW command \in Commands
  PROVE  Answer(command) \in States
<1>1. CASE \E q \in Queries : command = [name |-> "search", value |-> q]
  BY <1>1, SearchEffect DEF Answer, TypeInv
<1>2. CASE \E t \in Clicks : command = [name |-> "click", value |-> t]
  <2>1. PICK t \in Clicks : command = [name |-> "click", value |-> t]  BY <1>2
  <2>2. Click(env, t) \in States
    BY OpenEffect, ChooseEffect, ButtonEffect DEF Clicks, TypeInv
  <2> QED  BY <2>1, <2>2 DEF Answer
<1>3. CASE command = [name |-> "malformed", value |-> Junk]
  BY <1>3 DEF Answer, TypeInv
<1> QED  BY <1>1, <1>2, <1>3 DEF Commands

-----------------------------------------------------------------------------
(* The initial state. *)

LEMMA InitIInv == Init => IInv
<1> SUFFICES ASSUME Init PROVE IInv
  OBVIOUS
<1>1. TypeInv
  <2>1. Shown(Fresh) = Render(Fresh)  BY DEF Shown, Fresh
  <2>2. Plain(Render(Fresh)) \in Observations
    BY <2>1, FreshType DEF Plain, Observations
  <2>3. <<>> \in Seq(Entries) /\ <<>> \in Seq([anchor : Observations, reward : Int])
    OBVIOUS
  <2> QED  BY <2>2, <2>3, FreshType DEF Init, TypeInv
<1>2. DOMAIN history = {} /\ DOMAIN steps = {}
  BY DEF Init
<1>3. LogOpened
  BY <1>2, WebShopAssumption DEF LogOpened, Init, Fresh
<1>4. LogChosen
  BY <1>2 DEF LogChosen
<1>5. PaidForItsClicks
  BY <1>2 DEF PaidForItsClicks
<1> QED  BY <1>1, <1>3, <1>4, <1>5 DEF IInv

-----------------------------------------------------------------------------
(* One more entry of the history. *)

LEMMA Appended ==
  ASSUME TypeInv, NEW entry \in Entries, history' = Append(history, entry)
  PROVE  /\ history' \in Seq(Entries)
         /\ Len(history) \in Nat
         /\ Len(history') = Len(history) + 1
         /\ DOMAIN history = 1..Len(history)
         /\ DOMAIN history' = 1..Len(history) + 1
         /\ \A j \in 1..Len(history) : history'[j] = history[j]
         /\ history'[Len(history) + 1] = entry
  BY DEF TypeInv

\* After a search no product is open.
LEMMA SearchCloses ==
  ASSUME TypeInv, NEW entry \in Entries, history' = Append(history, entry),
         entry.name = "search"
  PROVE  \A item \in Items, i \in DOMAIN history' : ~Opened(item, i)'
<1> DEFINE n == Len(history) + 1
<1>0. n \in Nat /\ Len(history') = n /\ DOMAIN history' = 1..n /\ history'[n] = entry
  BY Appended
<1> SUFFICES ASSUME NEW item \in Items, NEW i \in 1..n, Opened(item, i)' PROVE FALSE
  BY <1>0
<1>1. CASE i = n
  BY <1>0, <1>1 DEF Opened
<1>2. CASE i # n
  BY <1>0, <1>2 DEF Opened
<1> QED  BY <1>1, <1>2

\* After a click on a product it is the one that is open, with no choice yet.
LEMMA ClickOpens ==
  ASSUME TypeInv, NEW entry \in Entries, history' = Append(history, entry),
         entry.name = "click", entry.value \in Items
  PROVE  \A item \in Items, i \in DOMAIN history' :
           Opened(item, i)' <=> item = entry.value /\ i = Len(history')
<1> DEFINE n == Len(history) + 1
<1>0. n \in Nat /\ Len(history') = n /\ DOMAIN history' = 1..n /\ history'[n] = entry
  BY Appended
<1> SUFFICES ASSUME NEW item \in Items, NEW i \in 1..n
             PROVE  Opened(item, i)' <=> item = entry.value /\ i = n
  BY <1>0
<1>1. CASE i = n
  BY <1>0, <1>1 DEF Opened
<1>2. CASE i # n
  BY <1>0, <1>2 DEF Opened
<1> QED  BY <1>1, <1>2

\* Any other entry leaves the open product open.
LEMMA StaysOpen ==
  ASSUME TypeInv, NEW entry \in Entries, history' = Append(history, entry),
         entry.name # "search", ~(entry.name = "click" /\ entry.value \in Items)
  PROVE  /\ \A item \in Items, i \in DOMAIN history : Opened(item, i)' <=> Opened(item, i)
         /\ \A item \in Items, i \in DOMAIN history' :
              i \notin DOMAIN history => ~Opened(item, i)'
<1> DEFINE n == Len(history) + 1
<1>0. /\ n \in Nat /\ Len(history) = n - 1 /\ Len(history') = n
      /\ DOMAIN history = 1..n - 1 /\ DOMAIN history' = 1..n
      /\ history'[n] = entry /\ \A j \in 1..n - 1 : history'[j] = history[j]
  BY Appended
<1> HIDE DEF n
<1>1. ASSUME NEW item \in Items, NEW i \in DOMAIN history
      PROVE  Opened(item, i)' <=> Opened(item, i)
  <2>0. i \in 1..n - 1 /\ i \in Int
    BY <1>0
  <2>1. Opened(item, i)' <=>
          /\ history'[i].name = "click" /\ history'[i].value = item
          /\ \A j \in i + 1..n : history'[j].name # "search"
               /\ ~(history'[j].name = "click" /\ history'[j].value \in Items)
    BY <1>0 DEF Opened
  <2>2. Opened(item, i) <=>
          /\ history[i].name = "click" /\ history[i].value = item
          /\ \A j \in i + 1..n - 1 : history[j].name # "search"
               /\ ~(history[j].name = "click" /\ history[j].value \in Items)
    BY <1>0 DEF Opened
  <2>3. \A j \in i + 1..n - 1 : j \in 1..n - 1 /\ j \in i + 1..n
    BY <1>0, <2>0
  <2>4. \A j \in i + 1..n : j = n \/ j \in i + 1..n - 1
    BY <1>0, <2>0
  <2> QED  BY <1>0, <2>0, <2>1, <2>2, <2>3, <2>4
<1>2. ASSUME NEW item \in Items, NEW i \in DOMAIN history', i \notin DOMAIN history
      PROVE  ~Opened(item, i)'
  <2>0. i = n  BY <1>0, <1>2
  <2>1. Opened(item, i)' => history'[i].name = "click" /\ history'[i].value = item
    BY DEF Opened
  <2> QED  BY <1>0, <2>0, <2>1
<1> QED  BY <1>1, <1>2

\* A click on a product comes with no choice.
LEMMA NothingChosenYet ==
  ASSUME TypeInv, NEW entry \in Entries, history' = Append(history, entry),
         NEW item, NEW name, NEW value
  PROVE  \A i \in DOMAIN history' : i = Len(history') => ~Chosen(item, i, name, value)'
<1> SUFFICES ASSUME NEW i \in DOMAIN history', i = Len(history'), Chosen(item, i, name, value)'
             PROVE  FALSE
  OBVIOUS
<1>1. PICK k \in i + 1..Len(history') : TRUE
  BY DEF Chosen
<1> QED  BY <1>1, Appended

\* An entry that is no click on a value changes no choice.
LEMMA ChoicesStay ==
  ASSUME TypeInv, NEW entry \in Entries, history' = Append(history, entry),
         ~(entry.name = "click" /\ entry.value \in Values),
         NEW item, NEW i \in DOMAIN history, NEW name, NEW value \in Values
  PROVE  Chosen(item, i, name, value)' <=> Chosen(item, i, name, value)
<1> DEFINE n == Len(history) + 1
<1>0. /\ n \in Nat /\ Len(history) = n - 1 /\ Len(history') = n
      /\ i \in 1..n - 1 /\ history'[n] = entry /\ \A j \in 1..n - 1 : history'[j] = history[j]
  BY Appended
<1> HIDE DEF n
<1> DEFINE Latest(h, k, m) == \A j \in k + 1..m : h[j].name = "click" /\ h[j].value \in Values =>
                              OptionName(item, h[j].value) # name
           Says(h, k) == h[k].name = "click" /\ h[k].value = value /\ OptionName(item, value) = name
<1>1. /\ Chosen(item, i, name, value)' <=>
           \E k \in i + 1..n : Says(history', k) /\ Latest(history', k, n)
      /\ Chosen(item, i, name, value) <=>
           \E k \in i + 1..n - 1 : Says(history, k) /\ Latest(history, k, n - 1)
  BY <1>0 DEF Chosen
<1>2. ~Says(history', n)
  BY <1>0
<1>3. \A k \in i + 1..n - 1 : k \in 1..n - 1 /\ (Says(history', k) <=> Says(history, k))
  BY <1>0
<1>4. ASSUME NEW k \in i + 1..n - 1 PROVE Latest(history', k, n) <=> Latest(history, k, n - 1)
  <2>1. \A j \in k + 1..n - 1 : j \in 1..n - 1 /\ j \in k + 1..n
    BY <1>0
  <2>2. \A j \in k + 1..n : j = n \/ j \in k + 1..n - 1
    BY <1>0
  <2> QED  BY <1>0, <2>1, <2>2
<1>5. \A k \in i + 1..n : k = n \/ k \in i + 1..n - 1
  BY <1>0
<1>6. \A k \in i + 1..n - 1 : k \in i + 1..n
  BY <1>0
<1> HIDE DEF Latest, Says
<1> QED  BY <1>1, <1>2, <1>3, <1>4, <1>5, <1>6

\* A click on a value replaces the choice of its option and no other.
LEMMA ChoiceMade ==
  ASSUME TypeInv, NEW entry \in Entries, history' = Append(history, entry),
         entry.name = "click", entry.value \in Values,
         NEW item, NEW i \in DOMAIN history, NEW name, NEW value \in Values
  PROVE  Chosen(item, i, name, value)' <=>
           IF OptionName(item, entry.value) = name THEN value = entry.value
                                                   ELSE Chosen(item, i, name, value)
<1> DEFINE n == Len(history) + 1
<1>0. /\ n \in Nat /\ Len(history) = n - 1 /\ Len(history') = n
      /\ i \in 1..n - 1 /\ history'[n] = entry /\ \A j \in 1..n - 1 : history'[j] = history[j]
  BY Appended
<1> HIDE DEF n
<1> DEFINE Latest(h, k, m) == \A j \in k + 1..m : h[j].name = "click" /\ h[j].value \in Values =>
                              OptionName(item, h[j].value) # name
           Says(h, k) == h[k].name = "click" /\ h[k].value = value /\ OptionName(item, value) = name
           same == OptionName(item, entry.value) = name
<1>1. /\ Chosen(item, i, name, value)' <=>
           \E k \in i + 1..n : Says(history', k) /\ Latest(history', k, n)
      /\ Chosen(item, i, name, value) <=>
           \E k \in i + 1..n - 1 : Says(history, k) /\ Latest(history, k, n - 1)
  BY <1>0 DEF Chosen
<1>2. Says(history', n) <=> value = entry.value /\ same
  BY <1>0
<1>3. Latest(history', n, n)
  BY <1>0
<1>4. \A k \in i + 1..n - 1 : k \in 1..n - 1 /\ (Says(history', k) <=> Says(history, k))
  BY <1>0
<1>5. ASSUME NEW k \in i + 1..n - 1
      PROVE  Latest(history', k, n) <=> ~same /\ Latest(history, k, n - 1)
  <2>1. \A j \in k + 1..n - 1 : j \in 1..n - 1 /\ j \in k + 1..n
    BY <1>0
  <2>2. n \in k + 1..n /\ \A j \in k + 1..n : j = n \/ j \in k + 1..n - 1
    BY <1>0
  <2> QED  BY <1>0, <2>1, <2>2
<1>6. n \in i + 1..n /\ \A k \in i + 1..n : k = n \/ k \in i + 1..n - 1
  BY <1>0
<1>7. \A k \in i + 1..n - 1 : k \in i + 1..n
  BY <1>0
<1> HIDE DEF Latest, Says
<1> QED  BY <1>1, <1>2, <1>3, <1>4, <1>5, <1>6, <1>7

-----------------------------------------------------------------------------
(* The state keeps saying what the history says. *)

LEMMA LogAfterSearch ==
  ASSUME TypeInv, NEW entry \in Entries, history' = Append(history, entry),
         entry.name = "search", env'.asin = NoItem
  PROVE  LogOpened' /\ LogChosen'
<1>1. \A item \in Items, i \in DOMAIN history' : ~Opened(item, i)'
  BY SearchCloses
<1>2. LogOpened'
  BY <1>1, WebShopAssumption DEF LogOpened
<1>3. LogChosen'
  BY <1>1 DEF LogChosen
<1> QED  BY <1>2, <1>3

LEMMA LogAfterOpen ==
  ASSUME TypeInv, NEW entry \in Entries, history' = Append(history, entry),
         entry.name = "click", entry.value \in Items,
         env'.asin = entry.value, env'.selected = [n \in Names |-> NoValue]
  PROVE  LogOpened' /\ LogChosen'
<1>1. \A item \in Items, i \in DOMAIN history' :
        Opened(item, i)' <=> item = entry.value /\ i = Len(history')
  BY ClickOpens
<1>2. Len(history') \in DOMAIN history'
  BY Appended
<1>3. LogOpened'
  BY <1>1, <1>2 DEF LogOpened
<1>4. LogChosen'
  <2> SUFFICES ASSUME NEW item \in Items, NEW i \in DOMAIN history', Opened(item, i)',
                      NEW n \in Names, NEW v \in Values
               PROVE  env'.selected[n] = v <=> Chosen(item, i, n, v)'
    BY DEF LogChosen
  <2>1. ~Chosen(item, i, n, v)'
    BY <1>1, NothingChosenYet
  <2> QED  BY <2>1, WebShopAssumption
<1> QED  BY <1>3, <1>4

\* What holds after any entry that opens and closes no product.
LEMMA LogOpenedStays ==
  ASSUME TypeInv, LogOpened, NEW entry \in Entries, history' = Append(history, entry),
         entry.name # "search", ~(entry.name = "click" /\ entry.value \in Items),
         env'.asin = env.asin
  PROVE  LogOpened'
<1>1. /\ \A item \in Items, i \in DOMAIN history : Opened(item, i)' <=> Opened(item, i)
      /\ \A item \in Items, i \in DOMAIN history' :
           i \notin DOMAIN history => ~Opened(item, i)'
  BY StaysOpen
<1>2. DOMAIN history \subseteq DOMAIN history'
  BY Appended
<1>3. \A item \in Items :
        (\E i \in DOMAIN history' : Opened(item, i)') <=> \E i \in DOMAIN history : Opened(item, i)
  BY <1>1, <1>2
<1> QED  BY <1>3 DEF LogOpened

LEMMA LogAfterChoice ==
  ASSUME TypeInv, LogOpened, LogChosen, NEW entry \in Entries,
         history' = Append(history, entry), entry.name = "click", entry.value \in Values,
         env'.asin = env.asin,
         \A n \in Names : env'.selected[n] =
           IF env.asin # NoItem /\ OptionName(env.asin, entry.value) = n
           THEN entry.value ELSE env.selected[n]
  PROVE  LogOpened' /\ LogChosen'
<1>0. entry.value \notin Items
  BY WebShopAssumption
<1>1. LogOpened'
  BY <1>0, LogOpenedStays
<1>2. LogChosen'
  <2> SUFFICES ASSUME NEW item \in Items, NEW i \in DOMAIN history', Opened(item, i)',
                      NEW n \in Names, NEW v \in Values
               PROVE  env'.selected[n] = v <=> Chosen(item, i, n, v)'
    BY DEF LogChosen
  <2>1. i \in DOMAIN history /\ Opened(item, i)
    BY <1>0, StaysOpen
  <2>2. env.asin = item /\ item # NoItem
    BY <2>1, WebShopAssumption DEF LogOpened
  <2>3. env.selected[n] = v <=> Chosen(item, i, n, v)
    BY <2>1 DEF LogChosen
  <2>4. Chosen(item, i, n, v)' <=>
          IF OptionName(item, entry.value) = n THEN v = entry.value ELSE Chosen(item, i, n, v)
    BY <2>1, ChoiceMade
  <2> QED  BY <2>2, <2>3, <2>4
<1> QED  BY <1>1, <1>2

LEMMA LogAfterOther ==
  ASSUME TypeInv, LogOpened, LogChosen, NEW entry \in Entries,
         history' = Append(history, entry), entry.name # "search",
         ~(entry.name = "click" /\ entry.value \in Items \union Values),
         env'.asin = env.asin, env'.selected = env.selected
  PROVE  LogOpened' /\ LogChosen'
<1>1. LogOpened'
  BY LogOpenedStays
<1>2. LogChosen'
  <2> SUFFICES ASSUME NEW item \in Items, NEW i \in DOMAIN history', Opened(item, i)',
                      NEW n \in Names, NEW v \in Values
               PROVE  env'.selected[n] = v <=> Chosen(item, i, n, v)'
    BY DEF LogChosen
  <2>1. i \in DOMAIN history /\ Opened(item, i)
    BY StaysOpen
  <2>2. env.selected[n] = v <=> Chosen(item, i, n, v)
    BY <2>1 DEF LogChosen
  <2>3. Chosen(item, i, n, v)' <=> Chosen(item, i, n, v)
    BY <2>1, ChoicesStay
  <2> QED  BY <2>2, <2>3
<1> QED  BY <1>1, <1>2

-----------------------------------------------------------------------------
(* What is paid. *)

\* What the history must say for the success reward.
Earned ==
  \E item \in goal.suits, i \in DOMAIN history :
    /\ Opened(item, i)
    /\ goal.full \/ item = goal.asin
    /\ \A n \in DOMAIN goal.wanted :
         \E m \in IF goal.full THEN Names ELSE {n} : Chosen(item, i, m, goal.wanted[n])

LEMMA SuccessIsEarned ==
  TypeInv /\ LogOpened /\ LogChosen => (Success(goal, env) <=> Earned)
<1> SUFFICES ASSUME TypeInv, LogOpened, LogChosen
             PROVE  Success(goal, env) <=> Earned
  OBVIOUS
<1>0. /\ goal.suits \subseteq Items
      /\ \A n \in DOMAIN goal.wanted : n \in Names /\ goal.wanted[n] \in Values
  <2>1. goal \in Goals  BY DEF TypeInv
  <2>2. PICK N \in SUBSET Names : goal.wanted \in [N -> Values]
    BY <2>1, FlowAssumption
  <2> QED  BY <2>1, <2>2, FlowAssumption
<1>1. ASSUME NEW item \in goal.suits, NEW i \in DOMAIN history, Opened(item, i)
      PROVE  /\ env.asin = item
             /\ \A n \in DOMAIN goal.wanted, m \in Names :
                  env.selected[m] = goal.wanted[n] <=> Chosen(item, i, m, goal.wanted[n])
  BY <1>0, <1>1 DEF LogOpened, LogChosen
<1>2. ASSUME Success(goal, env) PROVE Earned
  <2>1. env.asin \in goal.suits  BY <1>2 DEF Success
  <2>2. PICK i \in DOMAIN history : Opened(env.asin, i)
    BY <1>0, <2>1 DEF LogOpened
  <2>3. \A n \in DOMAIN goal.wanted :
          \E m \in IF goal.full THEN Names ELSE {n} :
             m \in Names /\ env.selected[m] = goal.wanted[n]
    BY <1>0, <1>2 DEF Success
  <2>4. \A n \in DOMAIN goal.wanted :
          \E m \in IF goal.full THEN Names ELSE {n} : Chosen(env.asin, i, m, goal.wanted[n])
    BY <1>1, <2>1, <2>2, <2>3
  <2>5. goal.full \/ env.asin = goal.asin  BY <1>2 DEF Success
  <2> QED  BY <2>1, <2>2, <2>4, <2>5 DEF Earned
<1>3. ASSUME Earned PROVE Success(goal, env)
  <2>1. PICK item \in goal.suits, i \in DOMAIN history :
          /\ Opened(item, i)
          /\ goal.full \/ item = goal.asin
          /\ \A n \in DOMAIN goal.wanted :
               \E m \in IF goal.full THEN Names ELSE {n} : Chosen(item, i, m, goal.wanted[n])
    BY <1>3 DEF Earned
  <2>2. env.asin = item  BY <1>1, <2>1
  <2>3. \A n \in DOMAIN goal.wanted :
          \E m \in IF goal.full THEN Names ELSE {n} :
             m \in Names /\ env.selected[m] = goal.wanted[n]
    BY <1>0, <1>1, <2>1
  <2>4. \A n \in DOMAIN goal.wanted :
          IF goal.full THEN \E m \in Names : env.selected[m] = goal.wanted[n]
                       ELSE env.selected[n] = goal.wanted[n]
    BY <2>3
  <2> QED  BY <2>1, <2>2, <2>4 DEF Success
<1> QED  BY <1>2, <1>3

LEMMA PaidRestated ==
  PaidForItsClicks <=>
    \A k \in DOMAIN steps : steps[k].reward = SuccessReward <=> done /\ k = Len(steps) /\ Earned
  BY DEF PaidForItsClicks, Earned

\* A turn adds one step, paid if and only if it ends in an earned success.
LEMMA OneMoreStep ==
  ASSUME TypeInv, PaidForItsClicks, ~done, NEW reward \in Int, Keep(reward),
         reward = SuccessReward <=> done' /\ Earned'
  PROVE  PaidForItsClicks' /\ steps' \in Seq([anchor : Observations, reward : Int])
<1> DEFINE step == [anchor |-> observation, reward |-> reward]
           m == Len(steps)
<1>1. step \in [anchor : Observations, reward : Int] /\ steps' = Append(steps, step)
  BY DEF Keep, TypeInv
<1>2. /\ steps \in Seq([anchor : Observations, reward : Int])
      /\ m \in Nat /\ DOMAIN steps = 1..m
  BY DEF TypeInv
<1> HIDE DEF step
<1>3. /\ steps' \in Seq([anchor : Observations, reward : Int])
      /\ Len(steps') = m + 1 /\ DOMAIN steps' = 1..m + 1 /\ steps'[m + 1] = step
      /\ \A k \in 1..m : steps'[k] = steps[k]
  BY <1>1, <1>2
<1>4. step.reward = reward  BY DEF step
<1>5. \A k \in 1..m : steps[k].reward # SuccessReward
  BY <1>2, PaidRestated
<1>6. \A k \in DOMAIN steps' :
        steps'[k].reward = SuccessReward <=> done' /\ k = Len(steps') /\ Earned'
  BY <1>2, <1>3, <1>4, <1>5
<1>7. PaidForItsClicks' <=>
        \A k \in DOMAIN steps' :
          steps'[k].reward = SuccessReward <=> done' /\ k = Len(steps') /\ Earned'
  BY DEF PaidForItsClicks, Earned
<1> QED  BY <1>3, <1>6, <1>7

-----------------------------------------------------------------------------
(* One lemma for each action. *)

LEMMA ActInv ==
  ASSUME IInv, NEW command \in Commands, Act(command)
  PROVE  IInv'
<1> DEFINE after == Answer(command)
<1>0. /\ TypeInv /\ LogOpened /\ LogChosen /\ PaidForItsClicks /\ ~done
      /\ env' = after /\ goal' = goal /\ history' = Append(history, command)
      /\ command \in Entries
  BY DEF IInv, Act, Turning, Entries
<1>1. after \in States /\ env' \in States
  BY <1>0, AnswerType
<1>2. LogOpened' /\ LogChosen'
  <2>0. env \in States  BY <1>0 DEF TypeInv
  <2>1. CASE \E q \in Queries : command = [name |-> "search", value |-> q]
    <3>1. PICK q \in Queries : command = [name |-> "search", value |-> q]  BY <2>1
    <3>2. env' = Search(env, q)  BY <1>0, <3>1 DEF Answer
    <3> QED  BY <1>0, <2>0, <3>1, <3>2, SearchEffect, LogAfterSearch
  <2>2. CASE \E t \in Clicks : command = [name |-> "click", value |-> t]
    <3>1. PICK t \in Clicks : command = [name |-> "click", value |-> t]  BY <2>2
    <3>2. env' = Click(env, t) /\ command.name = "click" /\ command.value = t
      BY <1>0, <3>1 DEF Answer
    <3>3. CASE t \in Items
      BY <1>0, <2>0, <3>2, <3>3, OpenEffect, LogAfterOpen
    <3>4. CASE t \in Values
      BY <1>0, <2>0, <3>2, <3>4, ChooseEffect, LogAfterChoice
    <3>5. CASE t \in Buttons \union {Junk}
      <4>1. t \notin Items \union Values
        BY <3>5, WebShopAssumption, FlowAssumption
      <4> QED  BY <1>0, <2>0, <3>2, <3>5, <4>1, ButtonEffect, LogAfterOther
    <3> QED  BY <3>1, <3>3, <3>4, <3>5 DEF Clicks
  <2>3. CASE command = [name |-> "malformed", value |-> Junk]
    <3>1. env' = env /\ command.name = "malformed"  BY <1>0, <2>3 DEF Answer
    <3> QED  BY <1>0, <3>1, LogAfterOther
  <2> QED  BY <2>1, <2>2, <2>3 DEF Commands
<1> DEFINE reward == IF after.page = "done" /\ Success(goal, after) THEN SuccessReward ELSE 0
<1>3. done' = (after.page = "done") /\ Keep(reward) /\ observation' = Plain(Shown(after))
  BY DEF Act
<1>4. observation' \in Observations
  BY <1>1, <1>3 DEF Plain, Observations
<1>5. history' \in Seq(Entries)
  BY <1>0, Appended
<1> HIDE DEF after
<1>6. reward \in Int
  BY FlowAssumption
<1>7. TypeInv' /\ PaidForItsClicks'
  <2>1. (goal \in Goals)' /\ (done \in BOOLEAN)'
    BY <1>0, <1>3 DEF TypeInv
  <2>2. (TypeInv /\ LogOpened /\ LogChosen => (Success(goal, env) <=> Earned))'
    BY SuccessIsEarned, PTL
  <2>3. steps' \in Seq([anchor : Observations, reward : Int])
    <3>1. [anchor |-> observation, reward |-> reward] \in [anchor : Observations, reward : Int]
      BY <1>0, <1>6 DEF TypeInv
    <3> HIDE DEF reward
    <3> QED  BY <1>0, <1>3, <3>1 DEF Keep, TypeInv
  <2>4. TypeInv'
    BY <1>1, <1>4, <1>5, <2>1, <2>3 DEF TypeInv
  <2>5. Success(goal, after) <=> Earned'
    BY <1>0, <1>2, <2>2, <2>4
  <2>6. reward = SuccessReward <=> done' /\ Earned'
    BY <1>3, <2>5, FlowAssumption
  <2> HIDE DEF reward
  <2>7. PaidForItsClicks'
    BY <1>0, <1>3, <1>6, <2>6, OneMoreStep
  <2> QED  BY <2>4, <2>7
<1> QED  BY <1>2, <1>7 DEF IInv

LEMMA ActFailsInv ==
  ASSUME IInv, ActFails
  PROVE  IInv'
<1>0. /\ TypeInv /\ LogOpened /\ LogChosen /\ PaidForItsClicks /\ ~done /\ Keep(0)
      /\ UNCHANGED <<goal, env, observation, offers, history, done>>
  BY DEF IInv, ActFails, Turning
<1>1. LogOpened'
  BY <1>0 DEF LogOpened, Opened
<1>2. LogChosen'
  BY <1>0 DEF LogChosen, Opened, Chosen
<1>3. 0 \in Int /\ (0 = SuccessReward <=> done' /\ Earned')
  BY <1>0, FlowAssumption
<1>4. PaidForItsClicks' /\ steps' \in Seq([anchor : Observations, reward : Int])
  BY <1>0, <1>3, OneMoreStep
<1>5. TypeInv'
  BY <1>0, <1>4 DEF TypeInv
<1> QED  BY <1>1, <1>2, <1>4, <1>5 DEF IInv

LEMMA CallWronglyInv ==
  ASSUME IInv, CallWrongly
  PROVE  IInv'
<1>0. /\ TypeInv /\ LogOpened /\ LogChosen /\ PaidForItsClicks /\ ~done /\ Keep(-Penalty)
      /\ UNCHANGED <<goal, env, offers, done>>
      /\ history' = Append(history, InvalidCall)
      /\ observation' = [observation EXCEPT !.notices = @ + 1]
  BY DEF IInv, CallWrongly, Turning
<1>1. InvalidCall \in Entries /\ InvalidCall.name = "invalid tool call"
  BY DEF Entries, InvalidCall
<1>2. LogOpened' /\ LogChosen'
  BY <1>0, <1>1, LogAfterOther
<1>3. -Penalty \in Int /\ (-Penalty = SuccessReward <=> done' /\ Earned')
  BY <1>0, FlowAssumption
<1>4. PaidForItsClicks' /\ steps' \in Seq([anchor : Observations, reward : Int])
  BY <1>0, <1>3, OneMoreStep
<1>5. observation' \in Observations
  BY <1>0 DEF TypeInv, Observations
<1>6. history' \in Seq(Entries)
  BY <1>0, <1>1, Appended
<1>7. TypeInv'
  BY <1>0, <1>4, <1>5, <1>6 DEF TypeInv
<1> QED  BY <1>2, <1>4, <1>7 DEF IInv

LEMMA StutterInv ==
  ASSUME IInv, UNCHANGED vars
  PROVE  IInv'
<1>1. TypeInv'
  BY DEF IInv, TypeInv, vars
<1>2. LogOpened' /\ LogChosen'
  BY DEF IInv, LogOpened, LogChosen, Opened, Chosen, vars
<1>3. Earned' <=> Earned
  BY DEF Earned, Opened, Chosen, vars
<1>4. PaidForItsClicks' <=>
        \A k \in DOMAIN steps' :
          steps'[k].reward = SuccessReward <=> done' /\ k = Len(steps') /\ Earned'
  BY DEF PaidForItsClicks, Earned
<1>5. PaidForItsClicks'
  BY <1>3, <1>4, PaidRestated DEF IInv, vars
<1> QED  BY <1>1, <1>2, <1>5 DEF IInv

\* For every catalogue and goal, the success reward is paid for the last step of a
\* trajectory exactly when its clicks earned it: a suitable product opened since the
\* last search, every wanted option chosen since then, and bought.
THEOREM PaidWhenEarned == Spec => []PaidForItsClicks
<1>1. IInv /\ [Next]_vars => IInv'
  BY ActInv, ActFailsInv, CallWronglyInv, StutterInv DEF Next
<1>2. IInv => PaidForItsClicks
  BY DEF IInv
<1> QED  BY <1>1, <1>2, InitIInv, PTL DEF Spec

-----------------------------------------------------------------------------
(* The prompt. *)

\* The largest of some positions of a sequence is one of them: it is as far from
\* the end as a smallest natural number.
LEMMA MaxIsThere ==
  ASSUME NEW n \in Nat, NEW T \in SUBSET (1..n), T # {}
  PROVE  Max(T) \in T
<1> DEFINE U == {m \in Nat : n - m \in T}
<1>1. U \subseteq Nat /\ U # {}
  <2>1. PICK i \in T : TRUE  OBVIOUS
  <2>2. i \in 1..n /\ n - i \in Nat /\ n - (n - i) = i  BY <2>1
  <2>3. n - (n - i) \in T  BY <2>1, <2>2
  <2>4. n - i \in U  BY <2>2, <2>3, Zenon
  <2>5. U \subseteq Nat  OBVIOUS
  <2> HIDE DEF U
  <2> QED  BY <2>4, <2>5
<1>2. PICK m \in U : \A k \in U : ~(<<k, m>> \in OpToRel(<, Nat))
  BY <1>1, NatLessThanWellFounded, WFMin, Zenon
<1>3. \A k \in U : ~(k < m)
  BY <1>1, <1>2 DEF OpToRel
<1>4. n - m \in T /\ \A i \in T : n - m >= i
  <2>1. n - m \in T /\ m \in Nat  OBVIOUS
  <2> SUFFICES ASSUME NEW i \in T PROVE n - m >= i
    BY <2>1
  <2>2. i \in 1..n /\ n - i \in Nat /\ n - (n - i) = i  OBVIOUS
  <2>3. n - i \in U  BY <2>2
  <2> HIDE DEF U
  <2>4. ~(n - i < m)  BY <1>3, <2>3
  <2> QED  BY <2>1, <2>2, <2>4
<1> QED  BY <1>4 DEF Max

\* A value that a product has belongs to one of its options.
LEMMA OptionNameType ==
  ASSUME NEW item \in Items, NEW i \in DOMAIN Options[item],
         NEW value \in Options[item][i].values
  PROVE  OptionName(item, value) \in Names
<1> DEFINE having == {k \in DOMAIN Options[item] : value \in Options[item][k].values}
<1>0. Options[item] \in Seq([name : Names, values : SUBSET Values])
  BY WebShopAssumption
<1>1. Len(Options[item]) \in Nat /\ DOMAIN Options[item] = 1..Len(Options[item])
  BY <1>0
<1>2. having \in SUBSET (1..Len(Options[item])) /\ having # {}
  BY <1>1
<1>3. OptionName(item, value) =
        IF having = {} THEN NoName ELSE Options[item][Max(having)].name
  BY DEF OptionName
<1> HIDE DEF having
<1>4. Max(having) \in DOMAIN Options[item]
  BY <1>1, <1>2, MaxIsThere
<1>5. Options[item][Max(having)] \in [name : Names, values : SUBSET Values]
  BY <1>0, <1>4, ElementType
<1> QED  BY <1>2, <1>3, <1>5

LEMMA MinOfTwo ==
  ASSUME NEW a \in Int, NEW b \in Int
  PROVE  Min({a, b}) \in {a, b} /\ Min({a, b}) <= a /\ Min({a, b}) <= b
<1>1. \E y \in {a, b} : \A z \in {a, b} : y <= z
  <2>1. CASE a <= b  BY <2>1
  <2>2. CASE b <= a  BY <2>2
  <2> QED  BY <2>1, <2>2
<1>2. Min({a, b}) \in {a, b} /\ \A z \in {a, b} : Min({a, b}) <= z
  BY <1>1 DEF Min
<1> QED  BY <1>2

\* The products of a page are hits of the query, and a page that starts within the
\* hits is not empty.
LEMMA PageOfHits ==
  ASSUME NEW q \in Queries, NEW p \in Nat
  PROVE  /\ Range(PageResults(q, p)) \subseteq Items
         /\ p * Window < Len(Hits[q]) => PageResults(q, p) # <<>>
<1> DEFINE full == (p + 1) * Window
           hits == Len(Hits[q])
           first == p * Window + 1
           last == Min({full, hits})
<1>1. Hits[q] \in Seq(Items) /\ Len(Hits[q]) \in Nat /\ DOMAIN Hits[q] = 1..Len(Hits[q])
  BY WebShopAssumption
<1>2. Window \in Nat /\ Window > 0 /\ p * Window \in Nat /\ (p + 1) * Window = p * Window + Window
  BY WebShopAssumption
<1>8. full \in Int /\ hits \in Nat /\ full = p * Window + Window
  BY <1>1, <1>2
<1>9. last \in {full, hits} /\ last <= full /\ last <= hits
  <2>1. full \in Int /\ hits \in Int  BY <1>8
  <2> HIDE DEF full, hits
  <2> QED  BY <2>1, MinOfTwo
<1>10. last \in Int
  BY <1>8, <1>9
<1>3. last \in Int /\ last <= Len(Hits[q]) /\ first \in Nat /\ first > 0
  BY <1>1, <1>2, <1>9, <1>10
<1>4. p * Window < Len(Hits[q]) => first <= last
  BY <1>1, <1>2, <1>8, <1>9
<1>5. PageResults(q, p) = SubSeq(Hits[q], first, last)
  BY DEF PageResults
<1> HIDE DEF first, last
<1>6. ASSUME NEW h \in Seq(Items), NEW a \in Int, NEW b \in Int, a > 0, b <= Len(h)
      PROVE  /\ \A i \in DOMAIN SubSeq(h, a, b) : SubSeq(h, a, b)[i] \in Items
             /\ a <= b => 1 \in DOMAIN SubSeq(h, a, b)
  <2>1. \A i \in 1..b - a + 1 : a + i - 1 \in 1..Len(h)
    BY <1>6
  <2> QED  BY <1>6, <2>1
<1>7. /\ \A i \in DOMAIN PageResults(q, p) : PageResults(q, p)[i] \in Items
      /\ first <= last => 1 \in DOMAIN PageResults(q, p)
  BY <1>1, <1>3, <1>5, <1>6
<1> QED  BY <1>4, <1>7 DEF Range

\* available_actions and step agree, page by page.
LEMMA OffersAreAccepted ==
  ASSUME NEW s \in States
  PROVE  /\ \A target \in AvailableClicks(s) : ~Refuses(s, target)
         /\ "next >" \in AvailableClicks(s) => Render(Click(s, "next >")).results # <<>>
<1>0. s.query \in Queries /\ s.pageNum \in Nat /\ s.asin \in Items \union {NoItem}
  BY DEF States
<1>1. CASE s.page = "search_results"
  <2>1. AvailableClicks(s) =
          Range(PageResults(s.query, s.pageNum))
            \union {t \in {"< prev"} : s.pageNum > 0}
            \union {t \in {"next >"} : (s.pageNum + 1) * Window < Len(Hits[s.query])}
    BY <1>1 DEF AvailableClicks
  <2>2. Range(PageResults(s.query, s.pageNum)) \subseteq Items
    BY <1>0, PageOfHits
  <2>3. \A target \in AvailableClicks(s) : target \in Items \union {"< prev", "next >"}
    BY <2>1, <2>2
  <2>4. \A target \in Items : target \notin Buttons
    BY WebShopAssumption
  <2>5. \A target \in AvailableClicks(s) : ~Refuses(s, target)
    BY <1>1, <2>3, <2>4 DEF Refuses, Buttons, Subpages
  <2>6. ASSUME "next >" \in AvailableClicks(s)
        PROVE  Render(Click(s, "next >")).results # <<>>
    <3>1. "next >" \in Buttons /\ "next >" \notin Items
      BY WebShopAssumption DEF Buttons
    <3>2. (s.pageNum + 1) * Window < Len(Hits[s.query])
      BY <2>1, <2>2, <2>6, <3>1
    <3>3. ~Refuses(s, "next >")
      BY <2>5, <2>6
    <3> DEFINE p == s.pageNum + 1
    <3>4. p \in Nat  BY <1>0
    <3> HIDE DEF p
    <3>5. Click(s, "next >") = [s EXCEPT !.pageNum = p]
      BY <3>1, <3>3 DEF Click, Subpages, p
    <3> DEFINE next == Click(s, "next >")
    <3>6. next.page = "search_results" /\ next.query = s.query /\ next.pageNum = p
      BY <1>1, <3>5 DEF States
    <3> HIDE DEF next
    <3>7. Render(next).results = PageResults(s.query, p)
      BY <3>6 DEF Render
    <3>8. PageResults(s.query, p) # <<>>
      BY <1>0, <3>2, <3>4, PageOfHits DEF p
    <3> QED  BY <3>7, <3>8 DEF next
  <2> QED  BY <2>5, <2>6
<1>2. CASE s.page = "item" /\ s.asin \in Items
  <2>1. AvailableClicks(s) =
          Subpages \union {"back to search", "buy now"}
            \union UNION {Options[s.asin][i].values : i \in DOMAIN Options[s.asin]}
    BY <1>2 DEF AvailableClicks
  <2>2. s.asin # NoItem
    BY <1>2, WebShopAssumption
  <2>3. ASSUME NEW i \in DOMAIN Options[s.asin], NEW target \in Options[s.asin][i].values
        PROVE  ~Refuses(s, target) /\ target # "next >"
    <3>1. OptionName(s.asin, target) # NoName
      BY <1>2, OptionNameType, WebShopAssumption
    <3>2. target \in Values
      <4>1. Options[s.asin] \in Seq([name : Names, values : SUBSET Values])
        BY <1>2, WebShopAssumption
      <4>2. Options[s.asin][i] \in [name : Names, values : SUBSET Values]
        BY <4>1, ElementType
      <4> QED  BY <4>2
    <3>3. target \notin Buttons
      BY <3>2, WebShopAssumption
    <3> QED  BY <2>2, <3>1, <3>3 DEF Refuses, Buttons
  <2>4. ASSUME NEW target \in Subpages \union {"back to search", "buy now"}
        PROVE  ~Refuses(s, target) /\ target # "next >"
    BY <2>2 DEF Refuses, Buttons, Subpages
  <2> QED  BY <2>1, <2>3, <2>4
<1>3. CASE s.page = "subpage" /\ s.asin \in Items
  <2>1. AvailableClicks(s) = {"back to item", "back to search", "buy now"}
    BY <1>3 DEF AvailableClicks
  <2> QED  BY <2>1 DEF Refuses, Buttons, Subpages
<1>4. CASE /\ s.page # "search_results"
           /\ ~(s.page = "item" /\ s.asin \in Items) /\ ~(s.page = "subpage" /\ s.asin \in Items)
  <2>1. AvailableClicks(s) = {}
    BY <1>4 DEF AvailableClicks
  <2> QED  BY <2>1
<1> QED  BY <1>1, <1>2, <1>3, <1>4

\* What the prompt is made of belongs to the state that the next request carries.
PromptInv == observation.page = Shown(env) /\ offers = AvailableClicks(env)

\* Whatever happens to calls and requests, a prompt shows the page of the state that
\* the flow holds, and the engine takes every click that it offers.
THEOREM PromptStaysCurrent == Spec => []PromptIsCurrent
<1>1. Init => PromptInv
  BY DEF Init, PromptInv, Plain, Shown, Fresh
<1>2. IInv /\ PromptInv /\ [Next]_vars => PromptInv'
  <2> SUFFICES ASSUME IInv, PromptInv, [Next]_vars PROVE PromptInv'
    OBVIOUS
  <2>1. ASSUME NEW command \in Commands, Act(command) PROVE PromptInv'
    BY <2>1 DEF Act, PromptInv, Plain
  <2>2. CASE ActFails
    BY <2>2 DEF ActFails, PromptInv
  <2>3. CASE CallWrongly
    <3>1. observation \in Observations  BY DEF IInv, TypeInv
    <3>2. observation'.page = observation.page
      BY <2>3, <3>1 DEF CallWrongly, Observations
    <3> QED  BY <2>3, <3>2 DEF CallWrongly, PromptInv
  <2>4. CASE UNCHANGED vars
    BY <2>4 DEF vars, PromptInv
  <2> QED  BY <2>1, <2>2, <2>3, <2>4 DEF Next
<1>3. IInv /\ PromptInv => PromptIsCurrent
  BY OffersAreAccepted DEF IInv, TypeInv, PromptInv, PromptIsCurrent
<1>4. IInv /\ [Next]_vars => IInv'
  BY ActInv, ActFailsInv, CallWronglyInv, StutterInv DEF Next
<1> QED  BY <1>1, <1>2, <1>3, <1>4, InitIInv, PTL DEF Spec
=============================================================================
