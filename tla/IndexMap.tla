------------------------------ MODULE IndexMap ------------------------------
(***************************************************************************)
(* The two containers of other crates the backends lean on.  An IndexMap   *)
(* is a sequence of entries in insertion order; inserting a key it already *)
(* has replaces the value and keeps the place.  A StringInterner is the    *)
(* sequence of its strings in the order of their ids.                      *)
(***************************************************************************)
LOCAL INSTANCE Naturals
LOCAL INSTANCE Sequences

Has(m, k) == \E i \in DOMAIN m : m[i].key = k
Place(m, k) == CHOOSE i \in DOMAIN m : m[i].key = k   \* get_full's index, from 1
Get(m, k) == m[Place(m, k)].val
Insert(m, k, v) ==
  IF Has(m, k) THEN [m EXCEPT ![Place(m, k)].val = v]
  ELSE Append(m, [key |-> k, val |-> v])

GetOrIntern(strs, s) ==
  IF \E i \in DOMAIN strs : strs[i] = s THEN strs ELSE Append(strs, s)

=============================================================================
