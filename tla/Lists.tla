------------------------------- MODULE Lists -------------------------------
(***************************************************************************)
(* linked_list.c as its callers see it: a ListHead is the sequence its     *)
(* items spell from first to last.  List_insert after the last item is     *)
(* Append, List_detach of the first one is Tail.                           *)
(***************************************************************************)
EXTENDS Integers, Sequences

Elements(s) == {s[i] : i \in 1..Len(s)}

(* The sequence s holds no value twice.                                    *)
NoRepeat(s) == \A i, j \in 1..Len(s) : s[i] = s[j] => i = j

(* List_insert of x after the item at position k, the front for 0.         *)
InsertAfter(s, k, x) == SubSeq(s, 1, k) \o <<x>> \o SubSeq(s, k + 1, Len(s))

(* List_detach of the item at position i.                                  *)
Detach(s, i) == SubSeq(s, 1, i - 1) \o SubSeq(s, i + 1, Len(s))

(***************************************************************************)
(* The two scans of a list, on the set of the positions that pass a test:  *)
(* the first one, 0 when there is none; and the length of the longest      *)
(* prefix that passes.                                                     *)
(***************************************************************************)
FirstOf(I) == IF I = {} THEN 0 ELSE CHOOSE i \in I : \A j \in I : i <= j

LongestPrefix(n, I) ==
  CHOOSE k \in 0..n : 1..k \subseteq I /\ (k < n => k + 1 \notin I)
=============================================================================
