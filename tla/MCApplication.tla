--------------------------- MODULE MCApplication ----------------------------
(***************************************************************************)
(* Application on small instances.  v0 is the value modules start with.    *)
(***************************************************************************)
EXTENDS Application

CONSTANTS v0, v1, v2

MCValue == {v0, v1, v2, "", "0", "1"}
MCModuleId == 0..MaxCalls

\* A module with a field and a script, told through a callback, and the same
\* without, as examples/DynamicRegisterAndUnregister.cpp registers one.
Told   == [properties |-> <<MakeProperty("TEXT", v0), MakeProperty("SCRIPT", v0)>>, callback |-> TRUE]
Untold == [properties |-> <<MakeProperty("TEXT", v0), MakeProperty("SCRIPT", v0)>>, callback |-> FALSE]

WithCallback    == {Told}
WithoutCallback == {Untold}
BothKinds       == {Told, Untold}

\* An update of the first property, and one of both, with the first given twice.
MCUpdates ==
  {<<[id |-> 0, value |-> v1]>>,
   <<[id |-> 0, value |-> v1], [id |-> 1, value |-> v2], [id |-> 0, value |-> v2]>>}

ASSUME UpdatesFitHere == UpdatesFit

\* SavePropertiesList calls SetPropertyValue once per pair, in the order of the
\* list, also for ids the module does not have and for ids given twice.
ASSUME SavedPropertiesCorrect ==
  \A a, b \in {"TEXT", "SCRIPT"} :
    \A list \in UNION {[1..n -> [id : 0..2, value : {v0, v1, v2}]] : n \in 0..3} :
      LET properties == <<MakeProperty(a, v0), MakeProperty(b, v0)>>
      IN  SavedProperties(properties, list) = FoldLeft(SetPropertyValue, properties, list)
=============================================================================
