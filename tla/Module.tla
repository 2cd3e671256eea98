------------------------------- MODULE Module -------------------------------
(***************************************************************************)
(* A module: the list of properties an application shows under one name,   *)
(* and the callback it is told through (Module.h, Module.cpp).  The name   *)
(* of a property only matters to the layout of the page and is left out;   *)
(* the type is for the page, the library only passes it on.  The code      *)
(* numbers properties from 0: property k stands at index k + 1 of the      *)
(* sequence.                                                               *)
(***************************************************************************)
EXTENDS Integers, Sequences

CONSTANT Value   \* the values a property can take

\* ModuleProperty::Type
PropertyType ==
  {"BUTTON", "BUTTON_SW", "BUTTON_SW_IN", "TEXT", "TEXT_BT", "TEXT_RO",
   "TEXT_AREA", "TEXT_AREA_BT", "TEXT_AREA_RO", "LOG", "SCRIPT"}

\* Module::Property
Property == [type : PropertyType, value : Value, read_only : BOOLEAN]

\* SacsWrapper::IsPropertyTypeForReadOnly
IsPropertyTypeForReadOnly(type) == type = "SCRIPT"

\* A property the way the wrappers make it, for an application that gives its type
\* and value.
MakeProperty(type, value) ==
  [type |-> type, value |-> value, read_only |-> IsPropertyTypeForReadOnly(type)]

\* Module: `callback` says whether _callback is non-null.
ModuleType == [properties : Seq(Property), callback : BOOLEAN]

\* The property_id | property_value pairs an update carries.
Assignment == [id : Nat, value : Value]
PropertyList == Seq(Assignment)

\* Faulty variant of SetValue: the test is the wrong way round.
SetReadOnlyValue(property, value) ==
  IF property.read_only THEN [property EXCEPT !.value = value] ELSE property

\* Module::Property::SetValue
SetValue(property, value) ==
  IF property.read_only THEN property ELSE [property EXCEPT !.value = value]

\* Module::SetPropertyValue: an id past the end of the list is ignored.
SetPropertyValue(properties, assignment) ==
  IF assignment.id < Len(properties)
  THEN [properties EXCEPT ![assignment.id + 1] = SetValue(@, assignment.value)]
  ELSE properties

\* The place of the last assignment to property `id`, the one that stays; none
\* if there is no assignment to it.
LastTo(list, id) ==
  {i \in 1..Len(list) :
     list[i].id = id /\ \A j \in (i + 1)..Len(list) : list[j].id # id}

\* What SetPropertyValue, called for the whole list in order, leaves behind.
SavedProperties(properties, list) ==
  [k \in 1..Len(properties) |->
     IF LastTo(list, k - 1) = {} THEN properties[k]
     ELSE SetValue(properties[k], list[CHOOSE i \in LastTo(list, k - 1) : TRUE].value)]

\* The values alone, which is what a reader of the module sees.
Values(properties) == [k \in 1..Len(properties) |-> properties[k].value]
=============================================================================
