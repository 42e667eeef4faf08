------------------------------- MODULE Lists -------------------------------
(***************************************************************************)
(* The intrusive lists of include/list.h as sequences: the head of the     *)
(* list is the first element, list_add_tail appends.  The operators are    *)
(* what the kernel's loops over such lists compute.                        *)
(***************************************************************************)
EXTENDS Naturals, Sequences

(* The nodes that are linked in the list s.                                *)
Members(s) == {s[i] : i \in 1..Len(s)}

(* kept[n]: what is left of the first n nodes of s when the nodes outside  *)
(* S are unlinked, in list order.                                          *)
Kept(s, S) ==
  LET kept[n \in 0..Len(s)] ==
        IF n = 0 THEN << >>
        ELSE IF s[n] \in S THEN Append(kept[n - 1], s[n])
        ELSE kept[n - 1]
  IN  kept

(* list_for_each_entry_safe over s, unlinking every node outside S.        *)
Keep(s, S) == Kept(s, S)[Len(s)]

(* list_del_init: unlink the node e.                                       *)
Unlink(s, e) == Keep(s, Members(s) \ {e})

(* No node is linked twice.                                                *)
IsLinkedOnce(s) == \A i, j \in 1..Len(s) : s[i] = s[j] => i = j
=============================================================================
