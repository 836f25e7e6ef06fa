------------------------------ MODULE Arranged ------------------------------
(***************************************************************************)
(* What a loop over a map or a list makes: the elements of a set in an     *)
(* order, and the part of a sequence that is at some of its places.  The   *)
(* order is a set of pairs.                                                *)
(***************************************************************************)
EXTENDS Naturals, Sequences, FiniteSets

IsList(s) == s \in Seq({s[i] : i \in DOMAIN s})

InOrder(S, order) ==
  CHOOSE f \in [1..Cardinality(S) -> S] :
    /\ S = {f[i] : i \in DOMAIN f}
    /\ \A i, j \in DOMAIN f : i < j => <<f[i], f[j]>> \in order

Ascending(numbers) == {p \in numbers \X numbers : p[1] < p[2]}

AtPlaces(s, places) ==
  LET place == InOrder(places, Ascending(places))
  IN  [i \in DOMAIN place |-> s[place[i]]]

(* The n-th of some numbers. *)
Nth(numbers, n) ==
  CHOOSE p \in numbers : Cardinality({q \in numbers : q <= p}) = n

(* What is read of texts from a place on: the text of the place, and then  *)
(* what is read from the place that comes next.                            *)
Walk(texts, next) ==
  LET read[i \in 1..(Len(texts) + 1)] ==
        IF i > Len(texts) THEN <<>> ELSE texts[i] \o read[next[i]]
  IN  read

(* One text after another. *)
Joined(texts) == Walk(texts, [i \in 1..Len(texts) |-> i + 1])[1]
=============================================================================
