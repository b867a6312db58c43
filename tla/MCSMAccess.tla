------------------------------ MODULE MCSMAccess ------------------------------
(* An instance of SMAccess for TLC. *)
EXTENDS SMAccess, TLC

CONSTANTS t1, t2, i1, i2, o1, o2, p1, p2

\* A plan in each of two offerings, an id in each of two tenants.
MCTenantOf == i1 :> t1 @@ i2 :> t2
MCOfferingOf == p1 :> o1 @@ p2 :> o2

\* A plain string, one that JSON escapes, something that is no string, a number that
\* is too long; two names with the same key.
Word == Conversion!Value(TRUE, <<"c">>)
QuotedWord == Conversion!Value(TRUE, <<"q", "c", "q">>)
Number == Conversion!Value(FALSE, <<"c", "c">>)
LongNumber == Conversion!Value(FALSE, <<"c", "d">>)
MCCredentialSets ==
  {(<<"c">> :> v) @@ (<<"c", "blank", "c">> :> Word) : v \in {Word, QuotedWord, Number, LongNumber}}
  \cup {(<<"c", "blank", "c">> :> Word) @@ (<<"c", "_", "c">> :> Number)}
=============================================================================
