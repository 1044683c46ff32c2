------------------------------- MODULE MCTables -------------------------------
(***************************************************************************)
(* The table under Utils::unordered_map as a part of MCStructures: a       *)
(* behaviour of another part leaves it alone.                              *)
(***************************************************************************)
EXTENDS Integers, Parts

CONSTANTS Entry, Codes, Hint, Asked                            \* HashTable

VARIABLES hash_table, elemCount, nextResize, inserted, failed

hash_vars == <<hash_table, elemCount, nextResize, inserted, failed>>

hashed == INSTANCE HashTable WITH table <- hash_table

ASSUME TablesAssumption == hashed!HashTableAssumption

TablesInit == hashed!Init
TablesStep == part = "hashed" /\ hashed!Next
OtherTables(p) == p # "hashed" => UNCHANGED hash_vars

TablesNext == UNCHANGED part /\ TablesStep /\ OtherTables(part)

TablesSpec == TablesInit /\ [][TablesNext]_<<part, hash_vars>>

-----------------------------------------------------------------------------
\* Unordered maps (operator[], rehash, reserve, copies): both look-ups and the
\* iterators find the keys that were inserted, the load stays within the limit,
\* and no insertion meets the assertion on an empty table.
TableIsSet ==
  part = "hashed" => hashed!TableIsSet /\ hashed!LoadBounded /\ hashed!InsertionSafe
=============================================================================
