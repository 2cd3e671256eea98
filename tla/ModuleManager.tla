--------------------------- MODULE ModuleManager ----------------------------
(***************************************************************************)
(* One instance of the library (ModuleManager.cpp) with its link to the    *)
(* other instances (Proxy.cpp).  A call from an application thread, from a *)
(* web socket or from the network posts a task to the module thread, which *)
(* runs the tasks one at a time; a callback of the application runs on the *)
(* module thread too, and the calls it makes run inline.                   *)
(*                                                                         *)
(* The specification is open: any thread may call any operation with any   *)
(* id at any time.  The modules that extend it say who calls what.         *)
(***************************************************************************)
EXTENDS JsonMsg, FiniteSets, Functions

CONSTANTS
  Thread,       \* threads that call RegisterModule, UnregisterModule, UpdateProperties
  Requester,    \* sockets whose thread calls ProcessJSRequest
  Definition,   \* the modules the application may register
  UpdateList,   \* the property lists calls and requests carry
  ModuleId      \* the ids calls and requests carry

ASSUME ConstantsAssumption ==
  /\ Definition \subseteq ModuleType
  /\ UpdateList \subseteq PropertyList
  /\ ModuleId \subseteq Int

\* The updates name properties every module has: the page drops the rest of a list that
\* names another, the store does not (module.js:65-67, Module.cpp:47-51).
UpdatesFit ==
  \A module \in Definition, list \in UpdateList :
    \A i \in DOMAIN list : list[i].id < Len(module.properties)

VARIABLES
  loop,         \* the tasks posted to _thread_loop and not yet run
  running,      \* what the module thread is in the middle of
  modules,      \* _modules
  idCounter,    \* _id_counter
  initialized,  \* _initialized
  serverImpl,   \* _server_impl is not null
  msgQueue,     \* _msg_queue
  proxy,        \* Proxy: "connecting", "client" (_client) or "server" (_server)
  app,          \* per thread: the call it is inside
  idPromise,    \* per thread: the promise DoRegisterModule fulfils
  request,      \* per socket: is it waiting inside ProcessJSRequest
  answer,       \* per socket: the response ProcessJSRequest is about to return
  out           \* what the last step gave to PushMsgForJS and to ProxyServer

started  == <<idCounter, initialized, serverImpl>>
instance == <<modules, msgQueue, started>>
callers  == <<app, request>>
promises == <<idPromise, answer>>
vars == <<loop, running, modules, idCounter, initialized, serverImpl, msgQueue,
          proxy, app, idPromise, request, answer, out>>

-----------------------------------------------------------------------------
(* Tasks, and the states of the threads.                                   *)

Task ==
  [op : {"OnProxyInitialized"}, host : BOOLEAN]
    \cup [op : {"DoRegisterModule"}, module : ModuleType, to : SUBSET Thread]
    \cup [op : {"UnregisterModule"}, id : Int]
    \cup [op : {"SavePropertiesList"}, id : Int, properties : PropertyList]
    \cup [op : {"HandleMessage"}, msg : UpdateMsg]
    \cup [op : {"DoProcessJSRequest"}, json : Request, to : Requester]
    \cup [op : {"PassPropertyUpdateToModule"}, json : ApplyMsg]

Idle    == [at |-> "idle"]
Crashed == [at |-> "crashed"]

\* The module thread: inside the callback of module `id`, on behalf of the
\* request of `to` (nobody when the update came from another instance), or
\* blocked inside a RegisterModule that callback called.
Running == {Idle, Crashed}
  \cup [at : {"callback", "registering"}, id : Int, to : SUBSET Requester]

\* A thread: blocked in RegisterModule, or between the two posts of
\* UpdateProperties.
Call == {Idle, [at |-> "registering"]}
  \cup [at : {"updating"}, id : Int, properties : PropertyList]

\* What a step hands over; ThreadLoop::Post, which adds to the end.
Pushes(msgs) == [pushed |-> msgs, relayed |-> <<>>]
Relays(json) == [pushed |-> <<>>, relayed |-> <<json>>]
Silent == Pushes(<<>>)
Post(task) == loop' = Append(loop, task)

-----------------------------------------------------------------------------
(* Parts of the handlers.                                                  *)

\* HandleMessage on the module thread: the message waits for OnProxyInitialized
\* or goes out, to ServerImpl or to the host instance.
HandleMessage(msg) ==
  IF initialized
  THEN out' = Pushes(<<msg>>) /\ UNCHANGED msgQueue
  ELSE msgQueue' = Append(msgQueue, msg) /\ out' = Silent

\* Faulty variant of SavePropertiesList: it returns after the first property.
SaveFirstProperty(id, list) ==
  modules' = [i \in DOMAIN modules |->
    IF i = id
    THEN [modules[i] EXCEPT !.properties = SetPropertyValue(@, list[1])]
    ELSE modules[i]]

\* SavePropertiesList on the module thread: an unknown id is ignored.
SavePropertiesList(id, list) ==
  modules' = [i \in DOMAIN modules |->
    IF i = id
    THEN [modules[i] EXCEPT !.properties = SavedProperties(@, list)]
    ELSE modules[i]]

\* std::map::insert and erase
Insert(id, module) ==
  modules' = [i \in DOMAIN modules \cup {id} |->
                IF i \in DOMAIN modules THEN modules[i] ELSE module]
Erase(id) == modules' = Restrict(modules, DOMAIN modules \ {id})

\* Faulty variant of Promise: an early return, before the connection is up, skips
\* set_value.
PromiseOnceInitialized(to, id) ==
  idPromise' = [t \in Thread |-> IF t \in to /\ initialized THEN {id} ELSE idPromise[t]]

\* promise->set_value of DoRegisterModule and of DoProcessJSRequest
Promise(to, id) ==
  idPromise' = [t \in Thread |-> IF t \in to THEN {id} ELSE idPromise[t]]
Answer(to, response) ==
  answer' = [r \in Requester |-> IF r \in to THEN {response} ELSE answer[r]]

\* PassPropertyUpdateToModule on the module thread.  The update of a module
\* another instance owns (its callback is null) goes to ProxyServer; an instance
\* that is not the host has no _server to give it to.
PassPropertyUpdateToModule(json, to) ==
  LET id     == FindId(json)
      list   == GetPropertiesList(json)
      passes == id \in DOMAIN modules /\ list # <<>>
  IN  \/ /\ ~passes
         /\ Answer(to, Empty) /\ out' = Silent /\ UNCHANGED <<running, modules>>
      \/ /\ passes /\ modules[id].callback
         /\ SavePropertiesList(id, list)
         /\ running' = [at |-> "callback", id |-> id, to |-> to]
         /\ out' = Silent /\ UNCHANGED answer
      \/ /\ passes /\ ~modules[id].callback /\ proxy = "server"
         /\ SavePropertiesList(id, list)
         /\ out' = Relays(json)
         /\ Answer(to, Empty) /\ UNCHANGED running
      \/ /\ passes /\ ~modules[id].callback /\ proxy # "server"
         /\ SavePropertiesList(id, list)
         /\ running' = Crashed
         /\ out' = Silent /\ UNCHANGED answer

-----------------------------------------------------------------------------
(* The tasks, as the module thread runs them.                              *)

\* The module thread takes the first task, an `op`.
Takes(op) ==
  /\ running = Idle
  /\ loop # <<>> /\ Head(loop).op = op
  /\ loop' = Tail(loop)
  /\ UNCHANGED <<proxy, callers>>

\* Faulty variant of OnProxyInitialized: the queue is cleared, not sent.
OnProxyInitializedUnsent ==
  /\ Takes("OnProxyInitialized")
  /\ serverImpl' = Head(loop).host
  /\ initialized' = TRUE
  /\ out' = Silent
  /\ msgQueue' = <<>>
  /\ UNCHANGED <<running, modules, idCounter, promises>>

OnProxyInitialized ==
  /\ Takes("OnProxyInitialized")
  /\ serverImpl' = Head(loop).host
  /\ initialized' = TRUE
  /\ out' = Pushes(msgQueue)
  /\ msgQueue' = <<>>
  /\ UNCHANGED <<running, modules, idCounter, promises>>

\* Faulty variants of DoRegisterModule: the counter is incremented before the id
\* is taken for the map and after it is taken for the message; the number of
\* modules is the id.
DoRegisterModulePreIncrement ==
  /\ Takes("DoRegisterModule")
  /\ idCounter' = idCounter + 1
  /\ Insert(idCounter + 1, Head(loop).module)
  /\ HandleMessage(CreateModuleAdded(idCounter, Head(loop).module))
  /\ Promise(Head(loop).to, idCounter)
  /\ UNCHANGED <<running, initialized, serverImpl, answer>>
DoRegisterModuleBySize ==
  /\ Takes("DoRegisterModule")
  /\ idCounter' = idCounter + 1
  /\ LET id == Cardinality(DOMAIN modules)
     IN  /\ Insert(id, Head(loop).module)
         /\ HandleMessage(CreateModuleAdded(id, Head(loop).module))
         /\ Promise(Head(loop).to, id)
  /\ UNCHANGED <<running, initialized, serverImpl, answer>>

DoRegisterModule ==
  /\ Takes("DoRegisterModule")
  /\ idCounter' = idCounter + 1
  /\ Insert(idCounter, Head(loop).module)
  /\ HandleMessage(CreateModuleAdded(idCounter, Head(loop).module))
  /\ Promise(Head(loop).to, idCounter)
  /\ UNCHANGED <<running, initialized, serverImpl, answer>>

\* Faulty variant of UnregisterModule: the pages are told, the module stays.
UnregisterModuleOnPages ==
  /\ Takes("UnregisterModule")
  /\ HandleMessage(CreateModuleRemoved(Head(loop).id))
  /\ UNCHANGED <<running, modules, started, promises>>

UnregisterModule ==
  /\ Takes("UnregisterModule")
  /\ Erase(Head(loop).id)
  /\ HandleMessage(CreateModuleRemoved(Head(loop).id))
  /\ UNCHANGED <<running, started, promises>>

SaveUpdate ==
  /\ Takes("SavePropertiesList")
  /\ SavePropertiesList(Head(loop).id, Head(loop).properties)
  /\ out' = Silent
  /\ UNCHANGED <<running, msgQueue, started, promises>>

PushUpdate ==
  /\ Takes("HandleMessage")
  /\ HandleMessage(Head(loop).msg)
  /\ UNCHANGED <<running, modules, started, promises>>

\* Faulty variant of DoProcessJSRequest: a request of an unknown type returns
\* before set_value.
DoProcessJSRequestKnown ==
  /\ Takes("DoProcessJSRequest")
  /\ \/ /\ Head(loop).json.type = "apply"
        /\ PassPropertyUpdateToModule(Head(loop).json, {Head(loop).to})
     \/ /\ Head(loop).json.type = "load"
        /\ Answer({Head(loop).to}, CreateModuleList(modules))
        /\ out' = Silent /\ UNCHANGED <<running, modules>>
     \/ /\ Head(loop).json = UnknownType
        /\ out' = Silent /\ UNCHANGED <<running, modules, answer>>
  /\ UNCHANGED <<msgQueue, started, idPromise>>

\* A load request falls through to PassPropertyUpdateToModule, where FindId
\* answers NoId and nothing is passed.
DoProcessJSRequest ==
  /\ Takes("DoProcessJSRequest")
  /\ \/ /\ Head(loop).json.type = "apply"
        /\ PassPropertyUpdateToModule(Head(loop).json, {Head(loop).to})
     \/ /\ Head(loop).json.type # "apply"
        /\ Answer({Head(loop).to},
             IF Head(loop).json.type = "load" THEN CreateModuleList(modules) ELSE Empty)
        /\ out' = Silent /\ UNCHANGED <<running, modules>>
  /\ UNCHANGED <<msgQueue, started, idPromise>>

PassPeerUpdate ==
  /\ Takes("PassPropertyUpdateToModule")
  /\ PassPropertyUpdateToModule(Head(loop).json, {})
  /\ UNCHANGED <<msgQueue, started, idPromise>>

RunTask ==
  \/ OnProxyInitialized
  \/ DoRegisterModule
  \/ UnregisterModule
  \/ SaveUpdate
  \/ PushUpdate
  \/ DoProcessJSRequest
  \/ PassPeerUpdate

-----------------------------------------------------------------------------
(* Inside a callback the calls of the application run at once, except      *)
(* RegisterModule: it posts, and waits for the thread it runs on.          *)

InCallback ==
  /\ running.at = "callback"
  /\ UNCHANGED <<started, proxy, callers, idPromise>>

\* Faulty variant of CallbackUpdates: the page is told and nothing is stored.
CallbackUpdatesPage(id, list) ==
  /\ InCallback
  /\ HandleMessage(CreatePropertyUpdated(id, list))
  /\ UNCHANGED <<loop, running, modules, answer>>

CallbackUpdates(id, list) ==
  /\ InCallback
  /\ SavePropertiesList(id, list)
  /\ HandleMessage(CreatePropertyUpdated(id, list))
  /\ UNCHANGED <<loop, running, answer>>

CallbackUnregisters(id) ==
  /\ InCallback
  /\ Erase(id)
  /\ HandleMessage(CreateModuleRemoved(id))
  /\ UNCHANGED <<loop, running, answer>>

CallbackRegisters(module) ==
  /\ InCallback
  /\ running' = [running EXCEPT !.at = "registering"]
  /\ Post([op |-> "DoRegisterModule", module |-> module, to |-> {}])
  /\ out' = Silent
  /\ UNCHANGED <<modules, msgQueue, answer>>

\* Faulty variant of CallbackReturns: the request is not answered.
CallbackReturnsUnanswered ==
  /\ InCallback
  /\ running' = Idle
  /\ out' = Silent
  /\ UNCHANGED <<loop, modules, msgQueue, answer>>

CallbackReturns ==
  /\ InCallback
  /\ running' = Idle
  /\ Answer(running.to, Empty)
  /\ out' = Silent
  /\ UNCHANGED <<loop, modules, msgQueue>>

-----------------------------------------------------------------------------
(* The other threads: they stop when the process does, and only post.      *)

Outside ==
  /\ running # Crashed
  /\ out' = Silent
  /\ UNCHANGED <<running, instance>>

\* Proxy::OnClientConnecting, the first time: the link to the host is up, or
\* nobody listens and this instance becomes the host.
ProxyInitialized(host) ==
  /\ Outside
  /\ proxy = "connecting"
  /\ proxy' = IF host THEN "server" ELSE "client"
  /\ Post([op |-> "OnProxyInitialized", host |-> host])
  /\ UNCHANGED <<callers, promises>>

\* Proxy::OnClientRead: the host relays what a page changed.
ProxyReads(json) ==
  /\ Outside
  /\ proxy = "client"
  /\ Post([op |-> "PassPropertyUpdateToModule", json |-> json])
  /\ UNCHANGED <<callers, proxy, promises>>

\* RegisterModule: RegisterModuleAsync posts, the caller waits for the promise.
RegisterModule(t, module) ==
  /\ Outside
  /\ app[t] = Idle
  /\ app' = [app EXCEPT ![t] = [at |-> "registering"]]
  /\ Post([op |-> "DoRegisterModule", module |-> module, to |-> {t}])
  /\ UNCHANGED <<proxy, request, promises>>

RegisterReturns(t) ==
  /\ Outside
  /\ app[t].at = "registering" /\ idPromise[t] # {}
  /\ app' = [app EXCEPT ![t] = Idle]
  /\ idPromise' = [idPromise EXCEPT ![t] = {}]
  /\ UNCHANGED <<loop, proxy, request, answer>>

CallUnregisterModule(t, id) ==
  /\ Outside
  /\ app[t] = Idle
  /\ Post([op |-> "UnregisterModule", id |-> id])
  /\ UNCHANGED <<proxy, callers, promises>>

\* UpdateProperties off the module thread: two posts, and any other thread may
\* post between them.
UpdateProperties(t, id, list) ==
  /\ Outside
  /\ app[t] = Idle
  /\ app' = [app EXCEPT ![t] = [at |-> "updating", id |-> id, properties |-> list]]
  /\ Post([op |-> "SavePropertiesList", id |-> id, properties |-> list])
  /\ UNCHANGED <<proxy, request, promises>>

UpdatePropertiesReturns(t) ==
  /\ Outside
  /\ app[t].at = "updating"
  /\ app' = [app EXCEPT ![t] = Idle]
  /\ Post([op  |-> "HandleMessage",
           msg |-> CreatePropertyUpdated(app[t].id, app[t].properties)])
  /\ UNCHANGED <<proxy, request, promises>>

\* ProcessJSRequest, called for a web socket: only the host has any.  A text that
\* does not parse is answered at once.
ProcessJSRequest(r, json) ==
  /\ Outside
  /\ serverImpl
  /\ request[r] = "idle"
  /\ request' = [request EXCEPT ![r] = "waiting"]
  /\ \/ json = Malformed /\ Answer({r}, Empty) /\ UNCHANGED loop
     \/ /\ json # Malformed
        /\ Post([op |-> "DoProcessJSRequest", json |-> json, to |-> r])
        /\ UNCHANGED answer
  /\ UNCHANGED <<proxy, app, idPromise>>

RequestReturns(r) ==
  /\ Outside
  /\ request[r] = "waiting" /\ answer[r] # {}
  /\ request' = [request EXCEPT ![r] = "idle"]
  /\ answer' = [answer EXCEPT ![r] = {}]
  /\ UNCHANGED <<loop, proxy, app, idPromise>>

-----------------------------------------------------------------------------
(* The specification.                                                      *)

Init ==
  /\ loop = <<>> /\ running = Idle
  /\ modules = <<>> /\ idCounter = 0
  /\ initialized = FALSE /\ serverImpl = FALSE /\ msgQueue = <<>>
  /\ proxy = "connecting"
  /\ app = [t \in Thread |-> Idle] /\ idPromise = [t \in Thread |-> {}]
  /\ request = [r \in Requester |-> "idle"] /\ answer = [r \in Requester |-> {}]
  /\ out = Silent

\* What a socket may send, and what the host may relay.
Applies  == {CreatePropertiesUpdated(id, list) : id \in ModuleId, list \in UpdateList}
Requests == Applies \cup {CreateLoadModules, Malformed, UnknownType}

Next ==
  \/ RunTask
  \/ \E id \in ModuleId, list \in UpdateList : CallbackUpdates(id, list)
  \/ \E id \in ModuleId : CallbackUnregisters(id)
  \/ \E module \in Definition : CallbackRegisters(module)
  \/ CallbackReturns
  \/ \E host \in BOOLEAN : ProxyInitialized(host)
  \/ \E json \in Applies : ProxyReads(json)
  \/ \E t \in Thread :
       \/ \E module \in Definition : RegisterModule(t, module)
       \/ RegisterReturns(t)
       \/ \E id \in ModuleId : CallUnregisterModule(t, id)
       \/ \E id \in ModuleId, list \in UpdateList : UpdateProperties(t, id, list)
       \/ UpdatePropertiesReturns(t)
  \/ \E r \in Requester :
       \/ \E json \in Requests : ProcessJSRequest(r, json)
       \/ RequestReturns(r)

Spec == Init /\ [][Next]_vars

-----------------------------------------------------------------------------
(* What holds of every instance, whoever calls it.                         *)

\* The types, part by part; and a registered module has an id the counter has passed.
ModulesTypeOK ==
  /\ idCounter \in Nat
  /\ DOMAIN modules \subseteq 0..(idCounter - 1)
  /\ modules \in [DOMAIN modules -> ModuleType]
FlagsTypeOK ==
  /\ initialized \in BOOLEAN
  /\ serverImpl \in BOOLEAN
  /\ proxy \in {"connecting", "client", "server"}
CallersTypeOK ==
  /\ app \in [Thread -> Call] /\ idPromise \in [Thread -> SUBSET Nat]
  /\ request \in [Requester -> {"idle", "waiting"}]
  /\ answer \in [Requester -> SUBSET Response]
OutTypeOK ==
  /\ msgQueue \in Seq(PushedMsg)
  /\ out \in [pushed : Seq(PushedMsg), relayed : Seq(ApplyMsg)]
TypeOK ==
  /\ loop \in Seq(Task) /\ running \in Running
  /\ ModulesTypeOK
  /\ FlagsTypeOK
  /\ CallersTypeOK
  /\ OutTypeOK

\* The places in the queue of the tasks that will fulfil a caller's promise.
RegistrationsOf(t) ==
  {i \in 1..Len(loop) : loop[i].op = "DoRegisterModule" /\ t \in loop[i].to}
RequestsOf(r) ==
  {i \in 1..Len(loop) : loop[i].op = "DoProcessJSRequest" /\ loop[i].to = r}

\* RegisterModule and its promise (ModuleManager.cpp:109-130): while a thread is
\* blocked there is exactly one thing that will wake it, its queued task or the
\* promise already fulfilled, and nothing is left behind once it has returned.
\* A second set_value would throw; a missing one would block the thread for ever.
RegistrationsAccounted ==
  \A t \in Thread :
    /\ \A i, j \in RegistrationsOf(t) : i = j
    /\ idPromise[t] # {} => RegistrationsOf(t) = {}
    /\ app[t].at = "registering" <=> idPromise[t] # {} \/ RegistrationsOf(t) # {}

\* The requests whose callback the module thread is inside.
Answering == IF running.at \in {"callback", "registering"} THEN running.to ELSE {}

\* The same for ProcessJSRequest (ModuleManager.cpp:182-210), whose promise may
\* also wait for the callback the request has started, until the process crashes.
RequestsAccounted ==
  running # Crashed =>
  \A r \in Requester :
    /\ \A i, j \in RequestsOf(r) : i = j
    /\ answer[r] # {} => RequestsOf(r) = {} /\ r \notin Answering
    /\ r \in Answering => RequestsOf(r) = {}
    /\ request[r] = "waiting" <=>
         answer[r] # {} \/ RequestsOf(r) # {} \/ r \in Answering
=============================================================================
