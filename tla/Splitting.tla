------------------------------ MODULE Splitting ------------------------------
(***************************************************************************)
(* splitInLists (core/lib/filetransfer/filetransfer.js): a list of entries *)
(* is cut into lists that a message can hold.  The list is the sequence of *)
(* the lengths of its entries, a part of it the set of the positions it    *)
(* holds.                                                                  *)
(***************************************************************************)
EXTENDS Naturals, Sequences, FiniteSets

CONSTANT Limit  \* the length a list may have

ASSUME LimitAssumption == Limit \in Nat \ {0}

\* Slip: the element that does not fit is not in the next list either.
SplitStepDrops(s, acc, i) ==
    IF s[i] > Limit THEN acc
    ELSE IF acc.count + s[i] >= Limit
      THEN [count |-> 0, from |-> i + 1, lists |-> Append(acc.lists, acc.from..(i - 1))]
    ELSE [acc EXCEPT !.count = @ + s[i]]
\* Slip: a list is cut only after it has grown too long.
SplitStepLate(s, acc, i) ==
    IF s[i] > Limit THEN acc
    ELSE IF acc.count + s[i] >= Limit
      THEN [count |-> 0, from |-> i + 1, lists |-> Append(acc.lists, acc.from..i)]
    ELSE [acc EXCEPT !.count = @ + s[i]]

\* One turn of the loop, with entry i.  count is the length so far, from is where
\* the list being filled begins.  A list is cut where the next entry does not fit;
\* an entry longer than the limit is skipped by the count but not by the cut.
SplitStep(s, acc, i) ==
    IF s[i] > Limit THEN acc
    ELSE IF acc.count + s[i] = Limit
      THEN [count |-> 0, from |-> i + 1, lists |-> Append(acc.lists, acc.from..i)]
    ELSE IF acc.count + s[i] > Limit
      THEN [count |-> s[i], from |-> i, lists |-> Append(acc.lists, acc.from..(i - 1))]
    ELSE [acc EXCEPT !.count = @ + s[i]]

SplitStart == [count |-> 0, from |-> 1, lists |-> <<>>]

\* The state of the loop after each of its turns.
Turns(s) ==
    LET turns[i \in 0..Len(s)] ==
          IF i = 0 THEN SplitStart ELSE SplitStep(s, turns[i - 1], i)
    IN  turns

SplitInLists(s) ==
    LET end == Turns(s)[Len(s)]
    IN  IF end.count # 0 THEN Append(end.lists, end.from..Len(s)) ELSE end.lists

(***************************************************************************)
(* What the splitting is for, without the loop.                            *)
(***************************************************************************)
Fits(s, i) == s[i] <= Limit
Fitting(s, l) == {i \in l : Fits(s, i)}

\* The length of the entries at the positions in l, of the first i entries of s.
Sums(s, l) ==
    LET sums[i \in 0..Len(s)] ==
          IF i = 0 THEN 0 ELSE sums[i - 1] + (IF i \in l THEN s[i] ELSE 0)
    IN  sums

Size(s, l) == Sums(s, l)[Len(s)]

\* An entry that fits is in exactly one of the lists.
ListedOnce(s, lists) ==
    \A i \in Fitting(s, DOMAIN s) : Cardinality({k \in DOMAIN lists : i \in lists[k]}) = 1

\* The entries of a list that fit a message fit one together.
ListsBounded(s, lists) ==
    \A k \in DOMAIN lists : Size(s, Fitting(s, lists[k])) <= Limit
==============================================================================
