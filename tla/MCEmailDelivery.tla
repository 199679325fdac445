-------------------------- MODULE MCEmailDelivery --------------------------
(***************************************************************************)
(* Instances of EmailDelivery for TLC.                                     *)
(***************************************************************************)
EXTENDS EmailDelivery, TLC

Contact(kind, key, collates) == [kind |-> kind, key |-> key, collates |-> collates]

(***************************************************************************)
(* Three addresses, one of them twice, a counterparty without an address,  *)
(* and before the last a bad address that the column's collation           *)
(* (utf8mb4_unicode_ci, blind to accents) takes for the first one.         *)
(***************************************************************************)
MCRows ==
  << Contact("valid", "a", "a"), Contact("none", "p", "p"),
     Contact("valid", "a", "a"), Contact("valid", "b", "b"),
     Contact("bad", "a-acute", "a"), Contact("valid", "c", "c") >>
=============================================================================
