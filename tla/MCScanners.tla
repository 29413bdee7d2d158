----------------------------- MODULE MCScanners -----------------------------
(***************************************************************************)
(* Scanners for TLC: the name of the first scanner is part of the second's,*)
(* as "Office" is of "Office 2".                                           *)
(***************************************************************************)
EXTENDS Scanners

CONSTANTS s1, s2

MCNameWithin == {<<s1, s2>>}
=============================================================================
