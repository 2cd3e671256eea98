------------------------------- MODULE WebApp -------------------------------
(***************************************************************************)
(* What the page makes of the messages it receives (web.app.js,            *)
(* module.manager.js, module.js, properties.js): a map from the ids of the *)
(* modules it shows to the fields it shows for their properties.  A field  *)
(* has the type of its property and a text, as a sequence of lines: a log  *)
(* has one per message, and any other field at most one.                   *)
(***************************************************************************)
EXTENDS JsonMsg, SequencesExt

\* The texts a checkbox and a button stand for are values.
ASSUME WebAppAssumption == {"", "0", "1"} \subseteq Value

Field == [type : PropertyType, text : Seq(Value)]

\* What the value of a property looks like: a checkbox is checked for "1" only, and
\* the value of a button is "1" whatever is stored.
Face(type, value) ==
  CASE type \in {"BUTTON_SW", "BUTTON_SW_IN"} -> <<IF value = "1" THEN "1" ELSE "0">>
    [] type = "BUTTON" -> <<"1">>
    [] OTHER -> IF value = "" THEN <<>> ELSE <<value>>

\* Module.addProperty, for each property in turn: the id of a property is its place on
\* the page.  A property of a type the page does not know would be left out; no wrapper
\* makes one.
AddProperties(properties) ==
  [k \in DOMAIN properties |->
     [type |-> properties[k].type, text |-> Face(properties[k].type, properties[k].value)]]

\* ModuleManager.crateModule: Map.set, so an id shown already is replaced.
CrateModule(tabs, entry) ==
  [i \in DOMAIN tabs \cup {entry.id} |->
     IF i = entry.id THEN AddProperties(entry.properties) ELSE tabs[i]]

\* ModuleManager.crateModule for each entry of a list, in which an id stands once.
CrateModules(tabs, entries) ==
  [i \in DOMAIN tabs \cup {entry.id : entry \in entries} |->
     IF \E entry \in entries : entry.id = i
     THEN AddProperties((CHOOSE entry \in entries : entry.id = i).properties)
     ELSE tabs[i]]

\* ModuleManager.deleteModule: an id not shown throws before anything changes.
DeleteModule(tabs, id) == Restrict(tabs, DOMAIN tabs \ {id})

\* Module.setPoropertyValue throws on a property the module does not have: the
\* assignments from that one on are lost.
Kept(fields, list) ==
  LET bad == SelectInSeq(list, LAMBDA a : a.id >= Len(fields))
  IN  IF bad = 0 THEN list ELSE SubSeq(list, 1, bad - 1)

\* setValue of a field: a LogProperty shows a new line above the former ones, and is
\* cleared by an empty value.
SetFieldValue(field, value) ==
  [field EXCEPT !.text =
     Face(field.type, value) \o IF field.type = "LOG" /\ value # "" THEN @ ELSE <<>>]

Shows(fields, assignment) ==
  [fields EXCEPT ![assignment.id + 1] = SetFieldValue(@, assignment.value)]

SetPoropertyValues(fields, list) == FoldLeft(Shows, fields, Kept(fields, list))

\* ModuleManager.setModulePoperties
SetModulePoperties(tabs, id, list) ==
  IF id \in DOMAIN tabs
  THEN [tabs EXCEPT ![id] = SetPoropertyValues(@, list)]
  ELSE tabs

\* WebApp.onMessage
OnMessage(tabs, json) ==
  CASE json.type = "property_update" ->
         SetModulePoperties(tabs, json.id, json.properties)
    [] json.type = "module_added" -> CrateModule(tabs, json)
    [] json.type = "module_removed" -> DeleteModule(tabs, json.id)
    [] json.type = "module_list" -> CrateModules(tabs, json.modules)
    [] OTHER -> tabs

OnMessages(tabs, msgs) == FoldLeft(OnMessage, tabs, msgs)

-----------------------------------------------------------------------------
(* What the fields send.                                                   *)

\* isIndependent
IsIndependent(type) == type \notin {"BUTTON_SW", "TEXT", "TEXT_AREA"}

\* getValue.  That of a script is up to the application: here the one of
\* examples/Script.cpp.
GetValue(field) ==
  IF field.type = "SCRIPT" THEN "1" ELSE IF field.text = <<>> THEN "" ELSE Head(field.text)

\* Faulty variant of AppliedProperties: every field is sent.
AllProperties(fields) ==
  [k \in DOMAIN fields |-> [id |-> k - 1, value |-> GetValue(fields[k])]]

\* MessageBuilder.createPropertiesUpdated: the fields that have no way of their own to
\* be sent, in the order they were declared.
AppliedProperties(fields) ==
  FoldLeft(LAMBDA list, k : IF IsIndependent(fields[k].type) THEN list
                            ELSE Append(list, [id |-> k - 1, value |-> GetValue(fields[k])]),
           <<>>, [k \in DOMAIN fields |-> k])

\* Module.needsApplyButton
NeedsApplyButton(fields) == \E k \in DOMAIN fields : ~IsIndependent(fields[k].type)

\* The fields with a control that sends them alone: Property.createSendButton,
\* ButtonProperty.onClicked, and what a script makes.
HasOwnControl(type) ==
  type \in {"BUTTON", "BUTTON_SW_IN", "TEXT_BT", "TEXT_AREA_BT", "SCRIPT"}

\* What a user can make of the text of a field: the inputs of read only properties and
\* of logs take text too, style.css only colours them.
Edited(field) ==
  CASE field.type \in {"BUTTON_SW", "BUTTON_SW_IN"} ->
         {<<IF field.text = <<"1">> THEN "0" ELSE "1">>}
    [] field.type \in {"BUTTON", "SCRIPT"} -> {}
    [] OTHER -> {<<"typed">>}

\* A field shows a property: the look of its value, or the value as the last line.
ShowsValue(field, property) ==
  IF field.type = "LOG" THEN GetValue(field) = property.value
  ELSE field.text = Face(field.type, property.value)
=============================================================================
