------------------------------ MODULE JsonMsg -------------------------------
(***************************************************************************)
(* The messages instances, the proxy server and the page exchange          *)
(* (JsonMsg.cpp).  A message is a record whose field `type` is the type    *)
(* string of the JSON object; the text of the object is left out.          *)
(***************************************************************************)
EXTENDS Module

\* The id JsonMsg::FindId and ValueToInt answer when there is none.
NoId == -1

ModuleEntry == [id : Int, properties : Seq(Property)]

AddedMsg   == [type : {"module_added"}, id : Int, properties : Seq(Property)]
RemovedMsg == [type : {"module_removed"}, id : Int]
UpdateMsg  == [type : {"property_update"}, id : Int, properties : PropertyList]
ApplyMsg   == [type : {"apply"}, id : Int, properties : PropertyList]
LoadMsg    == [type : {"load"}]
ListMsg    == [type : {"module_list"}, modules : SUBSET ModuleEntry]
EmptyMsg   == [type : {"empty"}]

\* A text JsonMsg::Parse rejects, and an object of no known type.
Malformed   == [type |-> "malformed"]
UnknownType == [type |-> "unknown"]

\* What ModuleManager pushes towards the pages, and what a page may ask for.
PushedMsg == AddedMsg \cup RemovedMsg \cup UpdateMsg
Request   == ApplyMsg \cup LoadMsg \cup {Malformed, UnknownType}
Response  == ListMsg \cup EmptyMsg

\* JsonMsg::CreateModuleAdded, CreateModuleRemoved, CreatePropertyUpdated
CreateModuleAdded(id, module) ==
  [type |-> "module_added", id |-> id, properties |-> module.properties]

CreateModuleRemoved(id) == [type |-> "module_removed", id |-> id]

CreatePropertyUpdated(id, list) ==
  [type |-> "property_update", id |-> id, properties |-> list]

\* JsonMsg::CreateModuleList: every registered module with its stored values.
CreateModuleList(modules) ==
  [type    |-> "module_list",
   modules |-> {[id |-> i, properties |-> modules[i].properties] :
                  i \in DOMAIN modules}]

\* JsonMsg::Empty
Empty == [type |-> "empty"]

\* What the page builds in message.builder.js.
CreateLoadModules == [type |-> "load"]
CreatePropertiesUpdated(id, list) ==
  [type |-> "apply", id |-> id, properties |-> list]

\* JsonMsg::FindId: a load request and an unknown message carry no id.
FindId(json) ==
  IF json.type \in {"module_added", "module_removed", "property_update", "apply"}
  THEN json.id ELSE NoId

\* JsonMsg::SetId
SetId(json, id) == [json EXCEPT !.id = id]

\* JsonMsg::GetPropertiesList
GetPropertiesList(json) ==
  IF json.type \in {"apply", "property_update"} THEN json.properties ELSE <<>>

\* JsonMsg::ToModule: a module built from a message has a null callback.
ToModule(json) == [properties |-> json.properties, callback |-> FALSE]
=============================================================================
