---------------------------- MODULE PaperLedger ----------------------------
(***************************************************************************)
(* What the concurrent calls of a paper-search trajectory promise about    *)
(* the paper pool: a call settles once, in one step, taking for itself     *)
(* papers that nobody has taken; a taken paper never changes hands.        *)
(***************************************************************************)
CONSTANTS Papers, Claimants, Nobody

VARIABLES
  owner,    \* who took a paper, or Nobody
  settled   \* the calls that have returned

vars == <<owner, settled>>

Init ==
  /\ owner = [p \in Papers |-> Nobody]
  /\ settled = {}

Settle(c, claimed) ==
  /\ c \notin settled
  /\ \A p \in claimed : owner[p] = Nobody
  /\ owner' = [p \in Papers |-> IF p \in claimed THEN c ELSE owner[p]]
  /\ settled' = settled \union {c}

Next == \E c \in Claimants, claimed \in SUBSET Papers : Settle(c, claimed)

Spec == Init /\ [][Next]_vars
=============================================================================
