----------------------------- MODULE Application ----------------------------
(***************************************************************************)
(* An application on one instance, and one page that has been open since   *)
(* the instance started.  The application's threads and its callbacks use  *)
(* the ids RegisterModule returned; the page changes properties of the     *)
(* modules it shows.  The page is brought up to date as the instance       *)
(* pushes: what a socket adds is left to the modules on the web server.    *)
(***************************************************************************)
EXTENDS ModuleManager, WebApp

CONSTANTS
  Hosts,         \* the outcomes of the first connection: TRUE for the host
  CallbackCalls, \* the operations the callbacks use
  MaxCalls,      \* bound on the calls of the application
  MaxRequests    \* bound on the requests of the page and of the host instance

ASSUME ApplicationAssumption ==
  /\ Hosts \subseteq BOOLEAN
  /\ CallbackCalls \subseteq {"RegisterModule", "UnregisterModule", "UpdateProperties"}
  /\ MaxCalls \in Nat /\ MaxRequests \in Nat
  /\ 0..(MaxCalls - 1) \subseteq ModuleId  \* an id for each call

\* The names in `writers` are different.
ASSUME WritersAssumption == Thread \cap {"callback", "page"} = {}

VARIABLES
  returned,  \* the ids RegisterModule has returned
  released,  \* the ids passed to UnregisterModule
  calls,     \* calls made
  requests,  \* requests made
  page,      \* what the page shows (WebApp)
  writers,   \* history: who has changed properties of each module
  late       \* history: the ids released before the socket's request was posted

history == <<writers, late>>
appVars == <<returned, released, calls, requests, page, history>>
allVars == <<vars, appVars>>

AppInit ==
  /\ Init
  /\ returned = {} /\ released = {}
  /\ calls = 0 /\ requests = 0
  /\ page = <<>>
  /\ writers = [id \in ModuleId |-> {}]
  /\ late = [r \in Requester |-> {}]

-----------------------------------------------------------------------------
Calls    == calls < MaxCalls /\ calls' = calls + 1 /\ UNCHANGED requests
Asks     == requests < MaxRequests /\ requests' = requests + 1 /\ UNCHANGED calls
Returns  == UNCHANGED <<calls, requests>>
Writes(id, who) == writers' = [writers EXCEPT ![id] = @ \cup {who}]
Releases(id) == released' = released \cup {id} /\ UNCHANGED returned
Keeps    == UNCHANGED <<returned, released>>
Receives == page' = OnMessages(page, out'.pushed)

\* The ids the application holds; a callback gets its own as an argument.
Handles     == returned \ released
CallbackIds == Handles \cup {running.id}

ThreadRegisters(t, module) ==
  RegisterModule(t, module) /\ Calls /\ Keeps /\ UNCHANGED <<page, history>>
ThreadRegistered(t) ==
  /\ RegisterReturns(t)
  /\ returned' = returned \cup idPromise[t]
  /\ Returns /\ UNCHANGED <<released, page, history>>
ThreadUnregisters(t, id) ==
  CallUnregisterModule(t, id) /\ Calls /\ Releases(id) /\ UNCHANGED <<page, history>>
ThreadUpdates(t, id, list) ==
  UpdateProperties(t, id, list) /\ Calls /\ Keeps /\ Writes(id, t) /\ UNCHANGED <<page, late>>
ThreadUpdated(t) ==
  UpdatePropertiesReturns(t) /\ Returns /\ Keeps /\ UNCHANGED <<page, history>>

AppUpdates(id, list) ==
  /\ "UpdateProperties" \in CallbackCalls
  /\ CallbackUpdates(id, list) /\ Calls /\ Keeps /\ Receives
  /\ Writes(id, "callback") /\ UNCHANGED late
AppUnregisters(id) ==
  /\ "UnregisterModule" \in CallbackCalls
  /\ CallbackUnregisters(id) /\ Calls /\ Releases(id) /\ Receives /\ UNCHANGED history
AppRegisters(module) ==
  /\ "RegisterModule" \in CallbackCalls
  /\ CallbackRegisters(module) /\ Calls /\ Keeps /\ UNCHANGED <<page, history>>
AppReturns ==
  CallbackReturns /\ Returns /\ Keeps /\ UNCHANGED <<page, history>>

\* The page sends what the user has put in its fields, which it shows already.
PageApplies(r, id, list) ==
  /\ ProcessJSRequest(r, CreatePropertiesUpdated(id, list))
  /\ Asks /\ Keeps /\ Writes(id, "page")
  /\ page' = SetModulePoperties(page, id, list)
  /\ late' = [late EXCEPT ![r] = released]
PageAsks(r, json) ==
  ProcessJSRequest(r, json) /\ Asks /\ Keeps /\ UNCHANGED <<page, history>>
PageAnswered(r) ==
  RequestReturns(r) /\ Returns /\ Keeps /\ UNCHANGED <<page, history>>

\* The same, sent by the host instance that shows this instance's modules.
HostApplies(id, list) ==
  /\ ProxyReads(CreatePropertiesUpdated(id, list))
  /\ Asks /\ Keeps /\ Writes(id, "page") /\ UNCHANGED late
  /\ page' = SetModulePoperties(page, id, list)

Starts(host) ==
  ProxyInitialized(host) /\ Returns /\ Keeps /\ UNCHANGED <<page, history>>
Runs == RunTask /\ Returns /\ Keeps /\ Receives /\ UNCHANGED history

AppNext ==
  \/ \E host \in Hosts : Starts(host)
  \/ Runs
  \/ \E t \in Thread :
       \/ \E module \in Definition : ThreadRegisters(t, module)
       \/ ThreadRegistered(t)
       \/ \E id \in Handles : ThreadUnregisters(t, id)
       \/ \E id \in Handles, list \in UpdateList : ThreadUpdates(t, id, list)
       \/ ThreadUpdated(t)
  \/ running.at = "callback" /\ \E id \in CallbackIds, list \in UpdateList : AppUpdates(id, list)
  \/ running.at = "callback" /\ \E id \in CallbackIds : AppUnregisters(id)
  \/ \E module \in Definition : AppRegisters(module)
  \/ AppReturns
  \/ \E r \in Requester :
       \/ \E id \in DOMAIN page \cap ModuleId, list \in UpdateList : PageApplies(r, id, list)
       \/ \E json \in {CreateLoadModules, Malformed, UnknownType} : PageAsks(r, json)
       \/ PageAnswered(r)
  \/ \E id \in DOMAIN page \cap ModuleId, list \in UpdateList : HostApplies(id, list)

AppSpec == AppInit /\ [][AppNext]_allVars

\* The module thread goes on while it has a task, a callback returns, a thread
\* that can leave a call leaves it, and the first connection has an outcome.
Fairness ==
  /\ WF_allVars(\E host \in Hosts : Starts(host))
  /\ WF_allVars(Runs) /\ WF_allVars(AppReturns)
  /\ \A t \in Thread : WF_allVars(ThreadRegistered(t)) /\ WF_allVars(ThreadUpdated(t))
  /\ \A r \in Requester : WF_allVars(PageAnswered(r))

FairSpec == AppSpec /\ Fairness

-----------------------------------------------------------------------------
(* Properties.                                                             *)

\* The types; and the ids the application has are ids the counter has passed.
AppTypeOK ==
  /\ TypeOK
  /\ returned \cup released \subseteq 0..(idCounter - 1)
  /\ page \in [DOMAIN page -> Seq(Field)]
  /\ writers \in [ModuleId -> SUBSET (Thread \cup {"callback", "page"})]
  /\ late \in [Requester -> SUBSET released]

\* What the page shows once it has the messages that wait for the connection.
PageAfterQueue == OnMessages(page, msgQueue)

\* Every change of _modules is pushed in the order it is made, before the
\* connection is up (HandleMessage queues), while OnProxyInitialized flushes the
\* queue, and from inside callbacks: the page shows the registered modules and
\* no other (ModuleManager.cpp:57-100,121-140).
PageShowsRegistry == DOMAIN PageAfterQueue = DOMAIN modules

\* No task waits, no callback runs, no thread is between two posts.
Quiet == loop = <<>> /\ running = Idle /\ \A t \in Thread : app[t].at # "updating"

\* A read_only property is shown but never stored (Module.cpp:62-65).
Agrees(id) ==
  \A k \in 1..Len(modules[id].properties) :
    ~modules[id].properties[k].read_only =>
      ShowsValue(PageAfterQueue[id][k], modules[id].properties[k])

\* Once everything is quiet, the page shows the stored values of every module
\* that one thread, the callbacks or the page alone have written: each writer's
\* updates are stored and shown in the same order (ModuleManager.cpp:142-180).
SingleWriterAgrees ==
  Quiet => \A id \in DOMAIN modules : Cardinality(writers[id]) <= 1 => Agrees(id)

\* README.md:62-64 and 162: a property shares a state between the application and
\* the page, and the methods are thread-safe: the page and the store agree
\* whoever wrote.  Two threads in UpdateProperties (ModuleManager.cpp:142-145)
\* break it: one's save and the other's push may come last.
PageAgrees == Quiet => \A id \in DOMAIN modules : Agrees(id)

\* What is left to do in the instance (Registry): what each task will do, and the
\* second post of a thread between the two posts of UpdateProperties.
Does(task) ==
  CASE task.op = "SavePropertiesList" -> {<<"store", task.id, task.properties>>}
    [] task.op = "HandleMessage" -> {<<"show", task.msg.id, task.msg.properties>>}
    [] task.op = "UnregisterModule" -> {<<"remove", task.id>>}
    [] task.op \in {"DoProcessJSRequest", "PassPropertyUpdateToModule"} ->
         IF task.json.type = "apply" THEN {<<"store", task.json.id, task.json.properties>>} ELSE {}
    [] OTHER -> {}
WillPost(call) ==
  IF call.at = "updating" THEN {<<"show", call.id, call.properties>>} ELSE {}
LeftIn(queue, threads) ==
  [change \in UNION ({Does(queue[i]) : i \in DOMAIN queue} \cup {WillPost(threads[t]) : t \in Thread}) |->
     Cardinality({i \in DOMAIN queue : change \in Does(queue[i])})
       + Cardinality({t \in Thread : change \in WillPost(threads[t])})]
Left == LeftIn(loop, app)

\* Who waits for what (Registry): the modules to be registered, the sockets whose request
\* for the modules is queued, and the lists made for them.
Wanted  == [t \in Thread |-> {loop[i].module : i \in RegistrationsOf(t)}]
Listing == {r \in Requester : \E i \in RequestsOf(r) : loop[i].json = CreateLoadModules}
Lists   == [r \in Requester |-> {a \in answer[r] : a.type = "module_list"}]

Promised == INSTANCE Registry WITH
  stored  <- modules,
  shown   <- PageAfterQueue,
  used    <- 0..(idCounter - 1),
  wanted  <- Wanted,
  given   <- idPromise,
  todo    <- Left,
  listing <- Listing,
  lists   <- Lists

\* The instance does what Registry promises, whatever the order in which threads,
\* callbacks, page and module thread take their steps: no change is lost or made
\* twice, no module is in one copy alone, each list is what was stored at one moment
\* (ModuleManager.cpp:57-272).
ImplementsRegistry == Promised!RegistrySpec

\* RegisterModule returns an id no other call has returned or will return, also
\* after its module is gone (ModuleManager.cpp:123-125).
NoIdTwice ==
  \A t \in Thread :
    /\ idPromise[t] \cap returned = {}
    /\ \A u \in Thread \ {t} : idPromise[t] \cap idPromise[u] = {}

\* A request made after UnregisterModule has returned does not reach the callback
\* of that module: both go through the queue (ModuleManager.cpp:133-140,192-210).
NoLateCallback ==
  running.at = "callback" =>
    \A r \in running.to : running.id \notin late[r]

\* An instance never calls the ProxyServer it does not have (Proxy.h:84-85).
NoNullServer == running # Crashed

\* A callback may call RegisterModule, as examples/DynamicRegisterAndUnregister.cpp
\* does: the callback, and the call that waits for it, end.
CallbacksEnd == running.at \in {"callback", "registering"} ~> running.at = "idle"
=============================================================================
