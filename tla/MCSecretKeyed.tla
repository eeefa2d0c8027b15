---------------------------- MODULE MCSecretKeyed ----------------------------
(* SecretKeyed with a few specs and leaves. *)
EXTENDS SecretKeyed

\* Every way of installing.
EveryTarget == [mode : Modes, hooked : BOOLEAN]

\* Names are interchangeable, so that it does not matter which come first.
FirstSpecs == {s \in Specs : s.names = CHOOSE n \in Names : TRUE}

\* Those without optional fields: an edit may add one.
PlainSpecs == {s \in FirstSpecs : s.setting = Unset /\ s.group = Unset}
=============================================================================
