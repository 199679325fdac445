----------------------------- MODULE MCSession -----------------------------
(***************************************************************************)
(* Instances of Session for TLC.                                           *)
(***************************************************************************)
EXTENDS Session

\* Two pages of one tab and another tab: what can be called while what is.
MCKinds == [c1 |-> {"data"}, c2 |-> {"logout", "password"}, c3 |-> {"login"}]
=============================================================================
