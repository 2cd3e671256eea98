------------------------------ MODULE WebPage -------------------------------
(***************************************************************************)
(* A page of the browser with its web sockets (messenger.js, web.app.js,   *)
(* reconnect.info.js, module.selector.js, module.container.js) and its     *)
(* user, on the web server of a host.                                      *)
(* The page makes a socket when it opens, when the countdown after a       *)
(* disconnection ends, and at each click on the countdown; nothing keeps   *)
(* it from having several.  All of them change the same tabs, and what the *)
(* page sends goes to the one it made last.                                *)
(*                                                                         *)
(* crateModule makes a new module object under an id it may hold already.  *)
(* The one it holds is <<id, "held">>; one it has replaced, which keeps its *)
(* button and its fields, is <<id, "old">>.                                *)
(***************************************************************************)
EXTENDS WebServer, WebApp

CONSTANTS
  MaxCalls,    \* bound on the calls of the application
  MaxActs,     \* bound on what the user of the page writes, and on what it sends
  MaxConnects  \* bound on the sockets made

ASSUME WebPageAssumption ==
  /\ {MaxCalls, MaxActs, MaxConnects} \subseteq Nat
  /\ "typed" \in Value

\* Only the user of the page writes this text: what a property holds tells whether it
\* came from there.
ASSUME TypedAssumption ==
  /\ \A module \in Definition : \A k \in DOMAIN module.properties : module.properties[k].value # "typed"
  /\ \A list \in UpdateList : \A i \in DOMAIN list : list[i].value # "typed"

VARIABLES
  websocket, \* the socket made last, in a set
  info,      \* is ReconnectInfo shown
  timer,     \* does its countdown run
  tabs,      \* the modules the page shows (WebApp)
  selector,  \* the buttons and the selection of the selector, and what the container shows
  calls, acts, connects,  \* made so far
  listed,    \* history: the sockets whose module list is made
  cut,       \* history: the sockets that were live when another one cleared the page
  loaded,    \* history: a list was read, from no such socket, since it was cleared
  overtaken, \* history: per socket, the modules changed while its list was on its way
  early,     \* history: per socket, the modules added before its list was made
  several,   \* history: there were two sockets at once since the page opened
  written,   \* history: <<id, property>>, the fields the user wrote in since it was cleared
  applied    \* history: <<id, property>>, the fields the page has sent

browser == <<websocket, info, timer, tabs, selector>>
bounds  == <<calls, acts, connects>>
past    == <<listed, cut, loaded, overtaken, early, several, written, applied>>
webVars == <<vars, net, browser, bounds, past>>

NoIds == [r \in Requester |-> {}]

\* The buttons, as a bag of the ids of their modules; currentModule and the module in
\* the container, in sets.
NoSelection(container) ==
  [buttons |-> EmptyBag, current |-> {}, container |-> container]

PageInit ==
  /\ WebInit
  /\ websocket = {} /\ info = FALSE /\ timer = FALSE
  /\ tabs = <<>> /\ selector = NoSelection({})
  /\ calls = 0 /\ acts = [kind \in {"write", "send"} |-> 0] /\ connects = 0
  /\ listed = {} /\ cut = {} /\ loaded = FALSE /\ overtaken = NoIds /\ early = NoIds
  /\ several = FALSE /\ written = {} /\ applied = {}

-----------------------------------------------------------------------------
(* What the server does, and what of it is remembered.                     *)

Ids(msgs, types) == {msg.id : msg \in {m \in Range(msgs) : m.type \in types}}

\* The list for `r` is made, and not sent.
Listing(r) == \E response \in answer[r] : response.type = "module_list"

\* What is pushed while a list is on its way, and before it is made.
Remembers(msgs) ==
  /\ overtaken' = [r \in Requester |->
       IF Listing(r) /\ Reaches(r)
       THEN overtaken[r] \cup Ids(msgs, {"module_removed", "property_update"})
       ELSE overtaken[r]]
  /\ early' = [r \in Requester |->
       IF r \in listeners \ listed /\ Reaches(r)
       THEN early[r] \cup Ids(msgs, {"module_added"}) ELSE early[r]]
  /\ listed' = listed \cup {r \in Requester : Listing(r)' /\ Reaches(r)}

Runs ==
  /\ RunTask
  /\ PushMsgForJS(out'.pushed) /\ UNCHANGED <<listeners, socket, sent>>
  /\ Remembers(out'.pushed)
  /\ UNCHANGED <<browser, bounds, cut, loaded, several, written, applied>>

Serves(r) ==
  /\ OnWsClientConnected(r) \/ OnWsClientMessage(r) \/ Responds(r) \/ OnWsClientClosed(r)
  /\ UNCHANGED <<browser, bounds, past>>

-----------------------------------------------------------------------------
(* The connection of the page.                                             *)

\* The sockets the page has not seen closed.
Live == {r \in Requester : socket[r] \in {"opening", "connecting", "open"}}

\* Messenger.createWs
CreateWs(r) ==
  /\ connects < MaxConnects /\ connects' = connects + 1
  /\ running # Crashed
  /\ socket[r] = "none"
  /\ socket' = [socket EXCEPT ![r] = "opening"]
  /\ websocket' = {r}
  /\ several' = (several \/ Live # {})
  /\ UNCHANGED <<vars, listeners, sent, inbox, tabs, selector, calls, acts,
                 listed, cut, loaded, overtaken, early, written, applied>>

\* WebApp.init: the page was served by this host.
Opens(r) ==
  /\ websocket = {} /\ serverImpl
  /\ CreateWs(r)
  /\ UNCHANGED <<info, timer>>

\* ReconnectInfo.updateReconnectionCounter at zero, its countdown left out.
CountdownEnds(r) == timer /\ timer' = FALSE /\ CreateWs(r) /\ UNCHANGED info

\* ReconnectInfo.onClicked: the countdown goes on.
OnClicked(r) == info /\ CreateWs(r) /\ UNCHANGED <<info, timer>>

\* Messenger.send: the socket made last throws what it is given before it is open,
\* and drops what it is given once it is closed.
Send(msg) ==
  sent' = [r \in Requester |->
    IF r \in websocket /\ socket'[r] = "open" THEN Append(sent[r], msg) ELSE sent[r]]

\* Faulty variant of OnConnected: a page that comes back does not ask for the list.
OnConnectedFirst(r) ==
  /\ socket[r] = "connecting"
  /\ socket' = [socket EXCEPT ![r] = "open"]
  /\ info' = FALSE /\ timer' = FALSE
  /\ IF info THEN UNCHANGED sent ELSE Send(CreateLoadModules)
  /\ UNCHANGED <<vars, listeners, inbox, websocket, tabs, selector, bounds, past>>

\* WebApp.onConnected, called by any socket that opens.
OnConnected(r) ==
  /\ socket[r] = "connecting"
  /\ socket' = [socket EXCEPT ![r] = "open"]
  /\ info' = FALSE /\ timer' = FALSE
  /\ Send(CreateLoadModules)
  /\ UNCHANGED <<vars, listeners, inbox, websocket, tabs, selector, bounds, past>>

\* Faulty variant of Enable: nothing is done while the info is shown.
EnableOnce == info' = TRUE /\ timer' = (timer \/ ~info)

\* ReconnectInfo.enable
Enable == info' = TRUE /\ timer' = TRUE

\* What a socket the page is done with leaves behind: what it has sent.
Forgets(S) ==
  /\ socket' = [r \in Requester |->
       IF r \notin S \/ socket[r] = "none" THEN socket[r]
       ELSE IF socket[r] = "opening" THEN "none" ELSE "closed"]
  /\ inbox' = [r \in Requester |-> IF r \in S THEN <<>> ELSE inbox[r]]
  /\ listed' = listed \ S
  /\ overtaken' = [r \in Requester |-> IF r \in S THEN {} ELSE overtaken[r]]
  /\ early' = [r \in Requester |-> IF r \in S THEN {} ELSE early[r]]
  /\ UNCHANGED sent

\* WebApp.clear: the elements of the modules held leave the container.
Clear ==
  /\ tabs' = <<>> /\ loaded' = FALSE /\ written' = {}
  /\ selector' = NoSelection({module \in selector.container : module[2] = "old"})

\* WebApp.onDisconnected, called by any socket that closes or cannot connect.
OnDisconnected(r) ==
  /\ r \in Live
  /\ Forgets({r}) /\ Clear /\ Enable
  /\ cut' = (cut \cup Live) \ {r}
  /\ UNCHANGED <<vars, listeners, websocket, bounds, several, applied>>

\* The user leaves the page, and may open it again.
Leaves ==
  /\ websocket # {}
  /\ Forgets(Requester)
  /\ tabs' = <<>> /\ loaded' = FALSE /\ written' = {} /\ selector' = NoSelection({})
  /\ websocket' = {} /\ info' = FALSE /\ timer' = FALSE /\ several' = FALSE
  /\ cut' = {}
  /\ UNCHANGED <<vars, listeners, bounds, applied>>

-----------------------------------------------------------------------------
(* The modules of the page.                                                *)

\* ModuleSelector.onModuleAdded, for each of the modules of a message, by their ids:
\* each module object has a button of its own, and the first is selected if none is.
OnModulesAdded(s, ids) ==
  LET Replaced(m) == IF m[1] \in ids THEN <<m[1], "old">> ELSE m
      selects     == s.current = {} /\ ids # {}
      selected    == IF selects THEN {<<Min(ids), "held">>} ELSE {Replaced(m) : m \in s.current}
  IN  [buttons   |-> s.buttons (+) SetToBag(ids),
       current   |-> selected,
       container |-> IF selects THEN selected ELSE {Replaced(m) : m \in s.container}]

\* Faulty variants of OnModuleRemoved: the button stays; the selection stays.
OnModuleRemovedFromMap(s, ids, id) == [s EXCEPT !.current = {}, !.container = {}]
OnModuleRemovedSelected(s, ids, id) ==
  IF id \in ids THEN [s EXCEPT !.buttons = @ (-) SetToBag({id})] ELSE s

\* ModuleSelector.onModuleRemoved, called with the object the manager holds.  With none
\* it is undefined, which equals the currentModule of a page without a selection: the
\* container is cleared before the button that is not there throws.
OnModuleRemoved(s, ids, id) ==
  IF id \notin ids THEN [s EXCEPT !.container = IF s.current = {} THEN {} ELSE @]
  ELSE [buttons   |-> s.buttons (-) SetToBag({id}),
        current   |-> s.current \ {<<id, "held">>},
        container |-> IF <<id, "held">> \in s.current THEN {} ELSE s.container]

Select(json) ==
  CASE json.type = "module_added" -> OnModulesAdded(selector, {json.id})
    [] json.type = "module_list" -> OnModulesAdded(selector, {entry.id : entry \in json.modules})
    [] json.type = "module_removed" -> OnModuleRemoved(selector, DOMAIN tabs, json.id)
    [] OTHER -> selector

OnWsMessage(r) ==
  /\ socket[r] = "open" /\ inbox[r] # <<>>
  /\ LET json == Head(inbox[r])
     IN  /\ tabs' = OnMessage(tabs, json)
         /\ selector' = Select(json)
         /\ loaded' = (loaded \/ (json.type = "module_list" /\ r \notin cut))
  /\ inbox' = [inbox EXCEPT ![r] = Tail(@)]
  /\ UNCHANGED <<vars, listeners, socket, sent, websocket, info, timer, bounds,
                 listed, cut, overtaken, early, several, written, applied>>

-----------------------------------------------------------------------------
(* The user of the page.                                                   *)

\* The number of buttons of a module, and the module objects that have one.
ButtonsOf(id) == IF BagIn(id, selector.buttons) THEN selector.buttons[id] ELSE 0
Buttons ==
  {<<id, "held">> : id \in DOMAIN tabs \cap BagToSet(selector.buttons)}
    \cup {<<id, "old">> : id \in {i \in BagToSet(selector.buttons) :
            ButtonsOf(i) > IF i \in DOMAIN tabs THEN 1 ELSE 0}}

\* ModuleButton.onClicked
SelectModule(module) ==
  /\ module \in Buttons \ selector.current
  /\ selector' = [selector EXCEPT !.current = {module}, !.container = {module}]
  /\ UNCHANGED <<vars, net, websocket, info, timer, tabs, bounds, past>>

\* The user does something with the fields of the module in the container, which is not
\* one the page has replaced.
Acts(id, kind) ==
  /\ running # Crashed
  /\ <<id, "held">> \in selector.container /\ id \in DOMAIN tabs
  /\ acts[kind] < MaxActs /\ acts' = [acts EXCEPT ![kind] = @ + 1]
  /\ UNCHANGED <<vars, listeners, socket, inbox, websocket, info, timer, selector, calls,
                 connects, listed, cut, loaded, overtaken, early, several>>

Sends(id, list) ==
  /\ Send(CreatePropertiesUpdated(id, list))
  /\ applied' = applied \cup {<<id, list[i].id>> : i \in DOMAIN list}
  /\ UNCHANGED written

\* The user writes in a field, or turns a switch.  Bound: on the first socket the page
\* makes; when it closes the page forgets what was written.
Writes(id, k) ==
  /\ connects = 1
  /\ Acts(id, "write")
  /\ tabs[id][k].type # "BUTTON_SW_IN"
  /\ \E text \in Edited(tabs[id][k]) : tabs' = [tabs EXCEPT ![id][k].text = text]
  /\ written' = written \cup {<<id, k - 1>>}
  /\ UNCHANGED <<sent, applied>>

\* Module.onPropertiesActivated, from the Apply button.
OnPropertiesActivated(id) ==
  /\ Acts(id, "send")
  /\ NeedsApplyButton(tabs[id])
  /\ Sends(id, AppliedProperties(tabs[id]))
  /\ UNCHANGED tabs

\* Module.onPropertyActivated, from the control of a field: a switch turns first.
OnPropertyActivated(id, k) ==
  /\ Acts(id, "send")
  /\ HasOwnControl(tabs[id][k].type)
  /\ \E text \in IF tabs[id][k].type = "BUTTON_SW_IN" THEN Edited(tabs[id][k]) ELSE {tabs[id][k].text} :
       tabs' = [tabs EXCEPT ![id][k].text = text]
  /\ Sends(id, <<[id |-> k - 1, value |-> GetValue(tabs'[id][k])]>>)

-----------------------------------------------------------------------------
(* The application: it uses the ids of modules it has not unregistered.    *)

Still == UNCHANGED <<net, browser, bounds, past>>
Calls ==
  /\ calls < MaxCalls /\ calls' = calls + 1
  /\ UNCHANGED <<net, browser, acts, connects, past>>

WebNext ==
  \/ ProxyInitialized(TRUE) /\ Still
  \/ Runs
  \/ CallbackReturns /\ Still
  \/ \E t \in Thread :
       \/ \E module \in Definition : RegisterModule(t, module) /\ Calls
       \/ RegisterReturns(t) /\ Still
       \/ \E id \in DOMAIN modules : CallUnregisterModule(t, id) /\ Calls
       \/ \E id \in DOMAIN modules, list \in UpdateList : UpdateProperties(t, id, list) /\ Calls
       \/ UpdatePropertiesReturns(t) /\ Still
  \/ \E r \in Requester :
       \/ Serves(r)
       \/ Opens(r) \/ CountdownEnds(r) \/ OnClicked(r)
       \/ OnConnected(r) \/ OnDisconnected(r)
       \/ OnWsMessage(r)
  \/ Leaves
  \/ \E module \in Buttons : SelectModule(module)
  \/ \E id \in DOMAIN tabs :
       \/ OnPropertiesActivated(id)
       \/ \E k \in DOMAIN tabs[id] : Writes(id, k) \/ OnPropertyActivated(id, k)

WebSpec == PageInit /\ [][WebNext]_webVars

-----------------------------------------------------------------------------
(* Properties.                                                             *)

\* Nothing is on its way, to the page or in the instance.
Quiet ==
  /\ \A r \in Requester : inbox[r] = <<>> /\ sent[r] = <<>> /\ request[r] = "idle"
  /\ loop = <<>> /\ running = Idle /\ \A t \in Thread : app[t].at # "updating"

\* ... and the page has read its list and does not say that it is disconnected.
Settled == Quiet /\ loaded /\ ~info

Agrees(id) ==
  \A k \in 1..Len(modules[id].properties) :
    modules[id].properties[k].read_only \/ <<id, k - 1>> \in written \cup applied
      \/ ShowsValue(tabs[id][k], modules[id].properties[k])

\* The page is never left without a socket and without a countdown that makes one
\* (reconnect.info.js:46-59): whichever of its sockets closes, and whatever the user
\* clicks, it tries again.
TriesAgain == websocket # {} => Live # {} \/ timer

\* A page whose socket is open has read its list once nothing is on its way, unless
\* it had two sockets at once (web.app.js:28-31): then the one that opens may not be
\* the one the request is sent to.
ConnectedPageLoads ==
  Quiet /\ ~several => \A r \in Live : socket[r] = "open" => loaded

\* No module is missing from a page: a socket listens before its load request is
\* read (ServerImpl.cpp:54-72), so a module is in the list or pushed after it.
AllModulesShown == Settled => DOMAIN modules \subseteq DOMAIN tabs

\* What the page shows is what the instance holds, also when it has read it from two
\* sockets, but for the modules changed while a list was on its way
\* (ServerImpl.cpp:68-70) and the fields the user wrote in or the page sent; as long as
\* one thread changes modules.
ShownIsStored ==
  Settled =>
    \A id \in DOMAIN tabs \ UNION {overtaken[r] : r \in Requester} :
      id \in DOMAIN modules /\ Agrees(id)

\* A module shown has one button and a module gone has none, but for the modules
\* added between the connection and the list (module.selector.js:45-62), and unless
\* there were two sockets at once.
OneButtonEach ==
  ~several =>
    \A id \in (DOMAIN tabs \cup BagToSet(selector.buttons)) \ UNION {early[r] : r \in Requester} :
      ButtonsOf(id) = IF id \in DOMAIN tabs THEN 1 ELSE 0

\* The module selected has a button and its fields are in the container; and the page
\* has no fields of a module that is gone or not selected, but for one it has replaced
\* (module.selector.js:45-98, web.app.js:23-26): whatever is added, removed, clicked or
\* cleared, and in whatever order.
SelectedShown ==
  /\ selector.current \subseteq Buttons \cap selector.container
  /\ \A module \in selector.container \ selector.current : module[2] = "old"

\* README.md:96-98: the value of a read only text or log is modified by the application
\* only.  A user can write in the field, but it is independent and has no control of
\* its own, so what was written is never sent (properties.js:207-218,281-297).
ReadOnlyKept ==
  \A id \in DOMAIN modules : \A k \in DOMAIN modules[id].properties :
    modules[id].properties[k].type \in {"TEXT_RO", "TEXT_AREA_RO", "LOG"} =>
      modules[id].properties[k].value # "typed"

\* README.md:32: a module is visible as a single tab; README.md:52: a module no longer
\* needed is removed.  A module registered after the socket is in _event_listeners and
\* before the list is made is pushed and listed, and the page makes two of it; a module
\* unregistered after the list is made and before it is sent comes back with the list.
OneTabPerModule ==
  Settled =>
    \A id \in DOMAIN modules \cup BagToSet(selector.buttons) :
      ButtonsOf(id) = IF id \in DOMAIN modules THEN 1 ELSE 0
=============================================================================
