-------------------------- MODULE MCDatabaseCaches --------------------------
(* Five keys that compete for five of eight slots, so that entries displace *)
(* each other and d can displace the root, which has no other slot.         *)
EXTENDS DatabaseCaches, TLC

CONSTANTS root, a, b, c, d

MCSlots == root :> <<7, 7, 7, 7>> @@ a :> <<0, 1, 2, 3>> @@ b :> <<0, 0, 1, 1>>
           @@ c :> <<2, 1, 1, 2>> @@ d :> <<7, 0, 1, 0>>

MCRecordSize == 0 :> 2 @@ 1 :> 1 @@ 2 :> 3
=============================================================================
