------------------------------- MODULE MCIDrac -------------------------------
(* IDrac with two specs that share their common name. *)
EXTENDS IDrac

CONSTANTS cn, san1, san2, none

MCSubjects == {<<cn, san1>>, <<cn, san2>>}
MCUnset == <<none, none>>
=============================================================================
