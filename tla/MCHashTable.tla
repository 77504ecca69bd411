---------------------------- MODULE MCHashTable ----------------------------
(***************************************************************************)
(* Tables of four and five keys.  Hash values 0 and 1 have the same home   *)
(* in every table, 4 shares it in tables of up to eight buckets, and 63    *)
(* has the last bucket for home and so wraps around to the home of 0.      *)
(***************************************************************************)
EXTENDS HashTable

\* with no, one and several duplicates, in front of and behind other keys
MCContainers ==
    {<<>>, <<2, 2>>, <<3, 1, 3>>, <<4, 1, 4, 2>>, <<1, 1, 1, 3>>, <<2, 4, 3, 1>>}
=============================================================================
