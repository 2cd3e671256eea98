----------------------------- MODULE MCJniGlue ------------------------------
(***************************************************************************)
(* JniGlue on small instances.                                             *)
(***************************************************************************)
EXTENDS JniGlue

CONSTANTS v0, v1, v2

MCValue == {v0, v1, v2}
MCModuleId == 0..MaxCalls

\* Every module registered from Java has the same callback.
Module1 == [properties |-> <<MakeProperty("TEXT", v0)>>, callback |-> TRUE]
MCDefinition == {Module1}

MCUpdates == {<<[id |-> 0, value |-> v1]>>, <<[id |-> 0, value |-> v2]>>}
OneUpdate == {<<[id |-> 0, value |-> v1]>>}
=============================================================================
