-------------------------- MODULE ApplicationProof ---------------------------
(***************************************************************************)
(* An application is never given the same id twice, no request made after  *)
(* UnregisterModule has returned reaches the callback of the module, and   *)
(* what the page shows is what is registered: NoIdTwice, NoLateCallback,   *)
(* PageShowsRegistry and the types, for every set of threads, pages,       *)
(* modules and updates, and whatever calls the callbacks make.             *)
(***************************************************************************)
EXTENDS Application, ModuleManagerProof, WebAppProof

-----------------------------------------------------------------------------
(* The inductive invariant.                                                *)

\* The ids the application has, and those on their way to it, are of modules that
\* DoRegisterModule has made; a task fulfils one promise.
Ids == 0..(idCounter - 1)
OwnPromise(task) == task.op = "DoRegisterModule" => \A t, u \in task.to : t = u
IdsInv ==
  /\ returned \subseteq Ids /\ released \subseteq Ids
  /\ \A t \in Thread : idPromise[t] \subseteq Ids
  /\ \A task \in Tasks : OwnPromise(task)
  /\ running.at \in {"callback", "registering"} => running.id \in Ids

\* The removal of a module is queued before a given place.
QueuedBefore(i, id) == \E j \in 1..(i - 1) : loop[j] = Removal(id)

\* A module that was unregistered is gone or its removal is queued; and when a page
\* asked for it afterwards, it is gone before the request is run.
LateInv ==
  /\ late \in [Requester -> SUBSET released]
  /\ \A id \in released : id \notin DOMAIN modules \/ Queued(id)
  /\ \A r \in Requester : \A i \in RequestsOf(r), id \in late[r] :
       id \notin DOMAIN modules \/ QueuedBefore(i, id)

AppInv ==
  /\ TypeOK /\ RegistrationsAccounted /\ RequestsAccounted
  /\ IdsInv /\ NoIdTwice
  /\ LateInv /\ NoLateCallback

-----------------------------------------------------------------------------
(* The instance underneath.                                                *)

LEMMA AppStepIsOpen ==
  ASSUME TypeOK, IdsInv, [AppNext]_allVars
  PROVE  [OpenNext]_vars
<1>1. Handles \subseteq Int
  BY DEF TypeOK, ModulesTypeOK, IdsInv, Ids, Handles
<1>2. running.at = "callback" => CallbackIds \subseteq Int
  BY <1>1 DEF TypeOK, ModulesTypeOK, IdsInv, Ids, CallbackIds
<1>3. \A id \in ModuleId, list \in UpdateList :
        CreatePropertiesUpdated(id, list) \in ApplyMsg
  BY ConstantsAssumption, MessageTypes
<1>4. ApplyMsg \cup {CreateLoadModules, Malformed, UnknownType} \subseteq Request
  BY DEF Request, CreateLoadModules, LoadMsg
<1>5. CASE (\E host \in Hosts : Starts(host)) \/ Runs
  BY <1>5, ApplicationAssumption DEF OpenNext, Starts, Runs
<1>6. ASSUME NEW t \in Thread,
             \/ \E module \in Definition : ThreadRegisters(t, module)
             \/ ThreadRegistered(t)
             \/ \E id \in Handles : ThreadUnregisters(t, id)
             \/ \E id \in Handles, list \in UpdateList : ThreadUpdates(t, id, list)
             \/ ThreadUpdated(t)
      PROVE  OpenNext
  BY <1>1, <1>6, ConstantsAssumption DEF OpenNext, ThreadRegisters, ThreadRegistered,
     ThreadUnregisters, ThreadUpdates, ThreadUpdated
<1>7. ASSUME \/ /\ running.at = "callback"
                /\ \E id \in CallbackIds, list \in UpdateList : AppUpdates(id, list)
             \/ running.at = "callback" /\ \E id \in CallbackIds : AppUnregisters(id)
             \/ \E module \in Definition : AppRegisters(module)
             \/ AppReturns
      PROVE  OpenNext
  BY <1>2, <1>7, ConstantsAssumption DEF OpenNext, AppUpdates, AppUnregisters,
     AppRegisters, AppReturns
<1>8. ASSUME NEW r \in Requester,
             \/ \E id \in DOMAIN page \cap ModuleId, list \in UpdateList : PageApplies(r, id, list)
             \/ \E json \in {CreateLoadModules, Malformed, UnknownType} : PageAsks(r, json)
             \/ PageAnswered(r)
      PROVE  OpenNext
  BY <1>3, <1>4, <1>8 DEF OpenNext, PageApplies, PageAsks, PageAnswered
<1>9. CASE \E id \in DOMAIN page \cap ModuleId, list \in UpdateList : HostApplies(id, list)
  BY <1>3, <1>9 DEF OpenNext, HostApplies
<1>10. CASE UNCHANGED allVars
  BY <1>10 DEF allVars
<1> QED BY <1>5, <1>6, <1>7, <1>8, <1>9, <1>10 DEF AppNext

\* What a task leaves the module thread in: a callback of a registered module, for the
\* request that was the task, or for none.
LEMMA TaskCalls ==
  ASSUME TypeOK, RunTask
  PROVE  /\ loop # <<>> /\ loop' = Tail(loop) /\ running = Idle
         /\ \/ running'.at \in {"idle", "crashed"}
            \/ /\ running'.at = "callback" /\ running'.id \in DOMAIN modules
               /\ \A r \in running'.to : Head(loop) \in RequestTasks(r)
<1>1. ASSUME NEW json, NEW to, PassPropertyUpdateToModule(json, to), running = Idle
      PROVE  \/ running'.at \in {"idle", "crashed"}
             \/ running'.at = "callback" /\ running'.id \in DOMAIN modules /\ running'.to = to
  BY <1>1 DEF PassPropertyUpdateToModule, Idle, Crashed
<1>2. /\ loop # <<>> /\ loop' = Tail(loop) /\ running = Idle /\ Head(loop) \in Task
  BY TakesType DEF RunTask, OnProxyInitialized, DoRegisterModule, UnregisterModule, SaveUpdate,
     PushUpdate, DoProcessJSRequest, PassPeerUpdate, Takes
<1>3. CASE DoProcessJSRequest
  <2>1. \A r \in {Head(loop).to} : Head(loop) \in RequestTasks(r)
    BY <1>2, <1>3 DEF DoProcessJSRequest, Takes, RequestTasks
  <2>2. \/ PassPropertyUpdateToModule(Head(loop).json, {Head(loop).to})
        \/ UNCHANGED running
    BY <1>3 DEF DoProcessJSRequest
  <2> QED BY <1>1, <1>2, <2>1, <2>2 DEF Idle
<1>4. CASE PassPeerUpdate
  <2>1. PassPropertyUpdateToModule(Head(loop).json, {})
    BY <1>4 DEF PassPeerUpdate
  <2> QED BY <1>1, <1>2, <2>1
<1>5. CASE OnProxyInitialized \/ DoRegisterModule \/ UnregisterModule \/ SaveUpdate \/ PushUpdate
  BY <1>2, <1>5 DEF OnProxyInitialized, DoRegisterModule, UnregisterModule, SaveUpdate,
     PushUpdate, Idle
<1> QED BY <1>3, <1>4, <1>5 DEF RunTask

-----------------------------------------------------------------------------
(* The steps other than the module thread's tasks.                         *)

\* They post at most one task, register nothing, remove at most modules the
\* application has released, and return an id to the one thread it was promised.
Posts == UNCHANGED loop \/ \E task \in Task : Post(task) /\ OwnPromise(task)
Frees ==
  /\ released \subseteq released' /\ released' \subseteq Ids
  /\ \A id \in released' \ released : id \notin DOMAIN modules' \/ Queued(id)'
Marks ==
  \/ UNCHANGED late
  \/ \E r \in Requester : /\ running # Crashed /\ request[r] = "idle"
                         /\ late' = [late EXCEPT ![r] = released]
Gives ==
  \/ UNCHANGED <<returned, idPromise>>
  \/ \E t \in Thread : /\ returned' = returned \cup idPromise[t]
                      /\ idPromise' = [idPromise EXCEPT ![t] = {}]
Leads ==
  \/ UNCHANGED running \/ running' = Idle
  \/ running.at = "callback" /\ running' = [running EXCEPT !.at = "registering"]
Beside ==
  /\ DOMAIN modules' \subseteq DOMAIN modules /\ idCounter' = idCounter
  /\ Posts /\ Frees /\ Marks /\ Gives /\ Leads

LEMMA TasksBeside ==
  ASSUME TypeOK, Posts
  PROVE  Tasks \subseteq Tasks' /\ \A task \in Tasks' : task \in Tasks \/ OwnPromise(task)
<1>1. CASE UNCHANGED loop
  BY <1>1 DEF Tasks
<1>2. ASSUME NEW task \in Task, Post(task), OwnPromise(task)
      PROVE  Tasks \subseteq Tasks' /\ \A x \in Tasks' : x \in Tasks \/ OwnPromise(x)
  <2>1. Tasks' = Tasks \cup {task}
    BY <1>2, TasksOf
  <2> QED BY ONLY <1>2, <2>1
<1> QED BY <1>1, <1>2 DEF Posts

\* The ids stay apart.
LEMMA IdsBeside ==
  ASSUME TypeOK, IdsInv, NoIdTwice, Beside
  PROVE  IdsInv' /\ NoIdTwice'
<1>0. idPromise \in [Thread -> SUBSET Nat] /\ Ids' = Ids
  BY DEF TypeOK, CallersTypeOK, Ids, Beside
<1>1. \A task \in Tasks' : OwnPromise(task)
  BY TasksBeside DEF Beside, IdsInv
<1>2. running'.at \in {"callback", "registering"} => running'.id \in Ids
  <2>1. running \in Running
    BY DEF TypeOK
  <2>2. CASE running' = running \/ running' = Idle
    BY <2>2 DEF IdsInv, Idle
  <2>3. CASE running.at = "callback" /\ running' = [running EXCEPT !.at = "registering"]
    <3>1. running.id \in Ids
      BY <2>3 DEF IdsInv
    <3>2. running'.id = running.id
      BY <2>1, <2>3 DEF Running, Idle, Crashed
    <3> QED BY <3>1, <3>2
  <2> QED BY <2>2, <2>3 DEF Beside, Leads
<1>3. CASE UNCHANGED <<returned, idPromise>>
  BY <1>0, <1>1, <1>2, <1>3 DEF Beside, Frees, IdsInv, NoIdTwice
<1>4. ASSUME NEW t \in Thread, returned' = returned \cup idPromise[t],
             idPromise' = [idPromise EXCEPT ![t] = {}]
      PROVE  IdsInv' /\ NoIdTwice'
  <2>1. \A u \in Thread : idPromise'[u] = IF u = t THEN {} ELSE idPromise[u]
    BY <1>0, <1>4
  <2>2. IdsInv'
    BY <1>0, <1>1, <1>2, <1>4, <2>1 DEF Beside, Frees, IdsInv
  <2>3. NoIdTwice'
    BY <1>4, <2>1 DEF NoIdTwice
  <2> QED BY <2>2, <2>3
<1> QED BY <1>3, <1>4 DEF Beside, Gives

\* A place in the queue keeps what stands before it, and a task that is added stands
\* behind every removal.
LEMMA PlacesBeside ==
  ASSUME TypeOK, Posts, NEW r, NEW n, n = Len(loop) + 1
  PROVE  /\ \A i \in RequestsOf(r)' : i \in RequestsOf(r) \/ i = n
         /\ \A id : \A i \in 1..(n - 1) : QueuedBefore(i, id) => QueuedBefore(i, id)'
         /\ \A id : Queued(id) => QueuedBefore(n, id)'
<1>1. loop \in Seq(Task) /\ n - 1 = Len(loop) /\ n \in Nat
  BY LenProperties DEF TypeOK
<1>2. /\ Len(loop') \in {n - 1, n}
      /\ \A i \in 1..(n - 1) : loop'[i] = loop[i]
  <2>1. CASE UNCHANGED loop
    BY <1>1, <2>1
  <2>2. ASSUME NEW task \in Task, Post(task)
        PROVE  Len(loop') = n /\ \A i \in 1..(n - 1) : loop'[i] = loop[i]
    BY <1>1, <2>2, AppendProperties DEF Post
  <2> QED BY <2>1, <2>2 DEF Posts
<1>3. \A i \in RequestsOf(r)' : i \in RequestsOf(r) \/ i = n
  BY <1>1, <1>2 DEF RequestsOf
<1>4. \A id : \A i \in 1..(n - 1) : QueuedBefore(i, id) => QueuedBefore(i, id)'
  BY <1>1, <1>2 DEF QueuedBefore
<1>5. ASSUME NEW id, Queued(id)
      PROVE  QueuedBefore(n, id)'
  <2>1. PICK j \in 1..(n - 1) : loop[j] = Removal(id)
    BY <1>1, <1>5, MembersOf DEF Queued, Tasks
  <2>2. loop'[j] = Removal(id)
    BY <1>2, <2>1
  <2> QED BY <1>1, <2>1, <2>2 DEF QueuedBefore
<1> QED BY <1>3, <1>4, <1>5

LEMMA LateBeside ==
  ASSUME TypeOK, RequestsAccounted, LateInv, NoLateCallback, Beside
  PROVE  LateInv' /\ NoLateCallback'
<1> USE DEF Beside
<1>1. ASSUME NEW r \in Requester
      PROVE  /\ late[r] \subseteq released
             /\ late'[r] = late[r] \/ (/\ late'[r] = released /\ RequestsOf(r) = {}
                                       /\ r \notin Answering)
  <2>1. late \in [Requester -> SUBSET released]
    BY DEF LateInv
  <2>2. ASSUME NEW q \in Requester, running # Crashed, request[q] = "idle",
               late' = [late EXCEPT ![q] = released]
        PROVE  late'[r] = late[r] \/ (late'[r] = released /\ RequestsOf(r) = {} /\ r \notin Answering)
    BY <2>1, <2>2 DEF RequestsAccounted
  <2> QED BY <2>1, <2>2 DEF Marks
<1>2. late' \in [Requester -> SUBSET released']
  <2>1. released \subseteq released' /\ late \in [Requester -> SUBSET released]
    BY DEF LateInv, Frees
  <2> QED BY <2>1 DEF Marks
<1>3. \A id \in released' : id \notin DOMAIN modules' \/ Queued(id)'
  BY TasksBeside DEF LateInv, Frees, Queued
<1>4. ASSUME NEW r \in Requester, NEW i \in RequestsOf(r)', NEW id \in late'[r]
      PROVE  id \notin DOMAIN modules' \/ QueuedBefore(i, id)'
  <2>0. PICK n : n = Len(loop) + 1
    OBVIOUS
  <2>1. CASE i \in RequestsOf(r)
    <3>1. id \in late[r] /\ i \in 1..(n - 1)
      <4>1. Len(loop) \in Nat
        BY LenProperties DEF TypeOK
      <4> QED BY <1>1, <1>4, <2>0, <2>1, <4>1 DEF RequestsOf
    <3>2. id \notin DOMAIN modules \/ QueuedBefore(i, id)
      BY <2>1, <3>1 DEF LateInv
    <3> QED BY <2>0, <3>1, <3>2, PlacesBeside
  <2>2. CASE i = n
    <3>1. id \notin DOMAIN modules \/ Queued(id)
      <4>1. id \in released'
        BY <1>2
      <4>2. id \in released
        BY <1>1
      <4> QED BY <4>2 DEF LateInv
    <3> QED BY <2>0, <2>2, <3>1, PlacesBeside
  <2> QED BY <2>0, <2>1, <2>2, PlacesBeside
<1>5. LateInv'
  BY <1>2, <1>3, <1>4 DEF LateInv
<1>6. NoLateCallback'
  <2> SUFFICES ASSUME running'.at = "callback", NEW r \in running'.to
               PROVE  running'.id \notin late'[r]
    BY DEF NoLateCallback
  <2>1. running' = running
    <3>1. CASE running' = Idle
      BY <3>1 DEF Idle
    <3>2. ASSUME running.at = "callback", running' = [running EXCEPT !.at = "registering"]
          PROVE  running'.at = "registering"
      BY <3>2 DEF TypeOK, Running, Idle, Crashed
    <3> QED BY <3>1, <3>2 DEF Leads
  <2>2. r \in Answering /\ r \in Requester
    BY <2>1 DEF Answering, TypeOK, Running, Idle, Crashed
  <2> QED BY <1>1, <2>1, <2>2 DEF NoLateCallback
<1> QED BY <1>5, <1>6

\* What a post outside the module thread leaves alone.
LEMMA OutsideBeside ==
  ASSUME TypeOK, IdsInv, Outside, Posts, Frees, Marks, Gives
  PROVE  Beside
BY DEF Outside, instance, started, Beside, Leads

LEMMA ThreadBeside ==
  ASSUME TypeOK, IdsInv, NEW t \in Thread,
         \/ \E module \in Definition : ThreadRegisters(t, module)
         \/ ThreadRegistered(t)
         \/ \E id \in Handles : ThreadUnregisters(t, id)
         \/ \E id \in Handles, list \in UpdateList : ThreadUpdates(t, id, list)
         \/ ThreadUpdated(t)
  PROVE  Beside
<1> USE DEF history
<1>1. released \subseteq Ids /\ Handles \subseteq Ids /\ Handles \subseteq Int
  BY DEF IdsInv, Handles, TypeOK, ModulesTypeOK, Ids
<1>2. ASSUME NEW module \in Definition, ThreadRegisters(t, module)
      PROVE  Beside
  <2>1. [op |-> "DoRegisterModule", module |-> module, to |-> {t}] \in Task
    BY ConstantsAssumption DEF Task
  <2>2. Outside /\ Posts
    BY <1>2, <2>1 DEF ThreadRegisters, RegisterModule, Posts, OwnPromise
  <2>3. Frees /\ Marks /\ Gives
    BY <1>1, <1>2 DEF ThreadRegisters, RegisterModule, Keeps, promises, Frees, Marks, Gives
  <2> QED BY <2>2, <2>3, OutsideBeside
<1>3. ASSUME ThreadRegistered(t)
      PROVE  Beside
  <2>1. Outside /\ Posts /\ Frees /\ Marks
    BY <1>1, <1>3 DEF ThreadRegistered, RegisterReturns, Posts, Frees, Marks
  <2>2. Gives
    BY <1>3 DEF ThreadRegistered, RegisterReturns, Gives
  <2> QED BY <2>1, <2>2, OutsideBeside
<1>4. ASSUME NEW id \in Handles, ThreadUnregisters(t, id)
      PROVE  Beside
  <2>1. Removal(id) \in Task /\ Post(Removal(id)) /\ OwnPromise(Removal(id))
    BY <1>1, <1>4 DEF ThreadUnregisters, CallUnregisterModule, Task, Removal, OwnPromise
  <2>2. Queued(id)'
    BY <2>1, TasksOf DEF Queued, Removal
  <2>3. Frees
    BY <1>1, <1>4, <2>2 DEF ThreadUnregisters, Releases, Frees
  <2>4. Outside /\ Marks /\ Gives
    BY <1>4 DEF ThreadUnregisters, CallUnregisterModule, Releases, promises, Marks, Gives
  <2> QED BY <2>1, <2>3, <2>4, OutsideBeside DEF Posts
<1>5. ASSUME NEW id \in Handles, NEW list \in UpdateList, ThreadUpdates(t, id, list)
      PROVE  Beside
  <2>1. [op |-> "SavePropertiesList", id |-> id, properties |-> list] \in Task
    BY <1>1, ConstantsAssumption DEF Task
  <2>2. Outside /\ Posts
    BY <1>5, <2>1 DEF ThreadUpdates, UpdateProperties, Posts, OwnPromise
  <2>3. Frees /\ Marks /\ Gives
    BY <1>1, <1>5 DEF ThreadUpdates, UpdateProperties, Keeps, promises, Frees, Marks, Gives
  <2> QED BY <2>2, <2>3, OutsideBeside
<1>6. ASSUME ThreadUpdated(t)
      PROVE  Beside
  <2>1. /\ app[t].id \in Int /\ app[t].properties \in PropertyList
    BY <1>6 DEF ThreadUpdated, UpdatePropertiesReturns, TypeOK, CallersTypeOK, Call, Idle
  <2>2. [op |-> "HandleMessage", msg |-> CreatePropertyUpdated(app[t].id, app[t].properties)] \in Task
    BY <2>1 DEF Task, CreatePropertyUpdated, UpdateMsg
  <2>3. Outside /\ Posts
    BY <1>6, <2>2 DEF ThreadUpdated, UpdatePropertiesReturns, Posts, OwnPromise
  <2>4. Frees /\ Marks /\ Gives
    BY <1>1, <1>6 DEF ThreadUpdated, UpdatePropertiesReturns, Keeps, promises, Frees, Marks, Gives
  <2> QED BY <2>3, <2>4, OutsideBeside
<1> QED BY <1>2, <1>3, <1>4, <1>5, <1>6

LEMMA CallbackBeside ==
  ASSUME TypeOK, IdsInv,
         \/ /\ running.at = "callback"
            /\ \E id \in CallbackIds, list \in UpdateList : AppUpdates(id, list)
         \/ running.at = "callback" /\ \E id \in CallbackIds : AppUnregisters(id)
         \/ \E module \in Definition : AppRegisters(module)
         \/ AppReturns
  PROVE  Beside
<1> USE DEF history, InCallback, started, Keeps
<1>1. released \subseteq Ids /\ (running.at = "callback" => CallbackIds \subseteq Ids)
  BY DEF IdsInv, CallbackIds, Handles
<1>2. ASSUME NEW id \in CallbackIds, NEW list \in UpdateList, AppUpdates(id, list)
      PROVE  Beside
  <2>1. DOMAIN modules' = DOMAIN modules
    BY <1>2 DEF AppUpdates, CallbackUpdates, SavePropertiesList
  <2>2. Posts /\ Frees /\ Marks /\ Gives /\ Leads
    BY <1>1, <1>2 DEF AppUpdates, CallbackUpdates, Posts, Frees, Marks, Gives, Leads
  <2> QED BY <1>2, <2>1, <2>2 DEF AppUpdates, CallbackUpdates, Beside
<1>3. ASSUME running.at = "callback", NEW id \in CallbackIds, AppUnregisters(id)
      PROVE  Beside
  <2>1. DOMAIN modules' = DOMAIN modules \ {id}
    BY <1>3 DEF AppUnregisters, CallbackUnregisters, Erase, Restrict
  <2>2. Frees
    BY <1>1, <1>3, <2>1 DEF AppUnregisters, Releases, Frees
  <2>3. Posts /\ Marks /\ Gives /\ Leads
    BY <1>3 DEF AppUnregisters, CallbackUnregisters, Releases, Posts, Marks, Gives, Leads
  <2> QED BY <1>3, <2>1, <2>2, <2>3 DEF AppUnregisters, CallbackUnregisters, Beside
<1>4. ASSUME NEW module \in Definition, AppRegisters(module)
      PROVE  Beside
  <2>1. [op |-> "DoRegisterModule", module |-> module, to |-> {}] \in Task
    BY ConstantsAssumption DEF Task
  <2>2. Posts
    BY <1>4, <2>1 DEF AppRegisters, CallbackRegisters, Posts, OwnPromise
  <2>3. Frees /\ Marks /\ Gives /\ Leads
    BY <1>1, <1>4 DEF AppRegisters, CallbackRegisters, Frees, Marks, Gives, Leads
  <2> QED BY <1>4, <2>2, <2>3 DEF AppRegisters, CallbackRegisters, Beside
<1>5. ASSUME AppReturns
      PROVE  Beside
  BY <1>1, <1>5 DEF AppReturns, CallbackReturns, Beside, Posts, Frees, Marks, Gives, Leads
<1> QED BY <1>2, <1>3, <1>4, <1>5

LEMMA PageBeside ==
  ASSUME TypeOK, IdsInv, NEW r \in Requester,
         \/ \E id \in DOMAIN page \cap ModuleId, list \in UpdateList : PageApplies(r, id, list)
         \/ \E json \in {CreateLoadModules, Malformed, UnknownType} : PageAsks(r, json)
         \/ PageAnswered(r)
  PROVE  Beside
<1> USE DEF history, Keeps
<1>1. released \subseteq Ids
  BY DEF IdsInv
<1>2. ASSUME NEW json \in Request, ProcessJSRequest(r, json)
      PROVE  Outside /\ Posts /\ request[r] = "idle" /\ UNCHANGED idPromise
  <2>1. [op |-> "DoProcessJSRequest", json |-> json, to |-> r] \in Task
    BY DEF Task
  <2> QED BY <1>2, <2>1 DEF ProcessJSRequest, Posts, OwnPromise
<1>3. ASSUME NEW id \in DOMAIN page \cap ModuleId, NEW list \in UpdateList, PageApplies(r, id, list)
      PROVE  Beside
  <2>1. CreatePropertiesUpdated(id, list) \in Request
    BY ConstantsAssumption, MessageTypes DEF Request
  <2>2. Outside /\ Posts /\ request[r] = "idle" /\ Gives
    BY <1>2, <1>3, <2>1 DEF PageApplies, Gives
  <2>3. Frees /\ Marks
    BY <1>1, <1>3, <2>2 DEF PageApplies, Frees, Marks, Outside
  <2> QED BY <2>2, <2>3, OutsideBeside
<1>4. ASSUME NEW json \in {CreateLoadModules, Malformed, UnknownType}, PageAsks(r, json)
      PROVE  Beside
  <2>1. json \in Request
    BY DEF Request, CreateLoadModules, LoadMsg
  <2>2. Outside /\ Posts /\ Gives
    BY <1>2, <1>4, <2>1 DEF PageAsks, Gives
  <2>3. Frees /\ Marks
    BY <1>1, <1>4 DEF PageAsks, Frees, Marks
  <2> QED BY <2>2, <2>3, OutsideBeside
<1>5. ASSUME PageAnswered(r)
      PROVE  Beside
  <2>1. Outside /\ Posts /\ Frees /\ Marks /\ Gives
    BY <1>1, <1>5 DEF PageAnswered, RequestReturns, Posts, Frees, Marks, Gives
  <2> QED BY <2>1, OutsideBeside
<1> QED BY <1>3, <1>4, <1>5

LEMMA NetBeside ==
  ASSUME TypeOK, IdsInv,
         \/ \E host \in Hosts : Starts(host)
         \/ \E id \in DOMAIN page \cap ModuleId, list \in UpdateList : HostApplies(id, list)
  PROVE  Beside
<1> USE DEF history, Keeps, promises
<1>1. released \subseteq Ids
  BY DEF IdsInv
<1>2. ASSUME NEW host \in Hosts, Starts(host)
      PROVE  Beside
  <2>1. [op |-> "OnProxyInitialized", host |-> host] \in Task
    BY ApplicationAssumption DEF Task
  <2>2. Outside /\ Posts
    BY <1>2, <2>1 DEF Starts, ProxyInitialized, Posts, OwnPromise
  <2>3. Frees /\ Marks /\ Gives
    BY <1>1, <1>2 DEF Starts, ProxyInitialized, Frees, Marks, Gives
  <2> QED BY <2>2, <2>3, OutsideBeside
<1>3. ASSUME NEW id \in DOMAIN page \cap ModuleId, NEW list \in UpdateList, HostApplies(id, list)
      PROVE  Beside
  <2>1. CreatePropertiesUpdated(id, list) \in ApplyMsg
    BY ConstantsAssumption, MessageTypes
  <2>2. [op |-> "PassPropertyUpdateToModule", json |-> CreatePropertiesUpdated(id, list)] \in Task
    BY <2>1 DEF Task
  <2>3. Outside /\ Posts
    BY <1>3, <2>2 DEF HostApplies, ProxyReads, Posts, OwnPromise
  <2>4. Frees /\ Marks /\ Gives
    BY <1>1, <1>3 DEF HostApplies, ProxyReads, Frees, Marks, Gives
  <2> QED BY <2>3, <2>4, OutsideBeside
<1> QED BY <1>2, <1>3

-----------------------------------------------------------------------------
(* The tasks of the module thread.                                         *)

\* A new module has an id of its own, which one thread at most is promised.
LEMMA RunsIds ==
  ASSUME TypeOK, IdsInv, NoIdTwice, Runs
  PROVE  /\ IdsInv' /\ NoIdTwice'
         /\ \A id \in released : id \in DOMAIN modules' =>
              id \in DOMAIN modules /\ Head(loop) # Removal(id)
<1> USE DEF Keeps
<1>1. /\ idCounter \in Nat /\ DOMAIN modules \subseteq Ids
      /\ Ids \subseteq 0..idCounter /\ idCounter \notin Ids
  BY DEF TypeOK, ModulesTypeOK, Ids
<1>2. /\ \A id \in DOMAIN modules' :
           id \in DOMAIN modules \/ (DoRegisterModule /\ id = idCounter)
      /\ \A id \in DOMAIN modules : id \in DOMAIN modules' <=> Head(loop) # Removal(id)
  BY TaskModules DEF Runs
<1>3. \A task \in Tasks' : OwnPromise(task)
  BY TaskCalls, TasksOf DEF Runs, IdsInv
<1>4. running'.at \in {"callback", "registering"} => running'.id \in Ids
  BY <1>1, TaskCalls DEF Runs, Idle, Crashed
<1>5. \A id \in released : id \in DOMAIN modules' =>
        id \in DOMAIN modules /\ Head(loop) # Removal(id)
  BY <1>1, <1>2 DEF IdsInv
<1>6. CASE DoRegisterModule
  <2>1. /\ idCounter' = idCounter + 1
        /\ \A t \in Thread :
             idPromise'[t] = IF t \in Head(loop).to THEN {idCounter} ELSE idPromise[t]
    BY <1>6, TaskModules DEF Runs
  <2>2. Ids' = Ids \cup {idCounter}
    BY <1>1, <2>1 DEF Ids
  <2>3. \A t, u \in Head(loop).to : t = u
    <3>1. Head(loop) \in Tasks /\ Head(loop).op = "DoRegisterModule"
      BY <1>6, TaskCalls, TasksOf DEF Runs, DoRegisterModule, Takes
    <3> QED BY <3>1 DEF IdsInv, OwnPromise
  <2>4. IdsInv'
    BY <1>3, <1>4, <2>1, <2>2 DEF IdsInv, Runs
  <2>5. NoIdTwice'
    BY <1>1, <2>1, <2>3 DEF IdsInv, NoIdTwice, Runs
  <2> QED BY <1>5, <2>4, <2>5
<1>7. CASE ~DoRegisterModule
  <2>1. idCounter' = idCounter /\ idPromise' = idPromise
    BY <1>7, TaskModules DEF Runs
  <2>2. Ids' = Ids
    BY <2>1 DEF Ids
  <2>3. IdsInv'
    BY <1>3, <1>4, <2>1, <2>2 DEF IdsInv, Runs
  <2>4. NoIdTwice'
    BY <2>1 DEF NoIdTwice, Runs
  <2> QED BY <1>5, <2>3, <2>4
<1> QED BY <1>6, <1>7

\* The removal that stands before a request has been run when the request is.
LEMMA RunsLate ==
  ASSUME TypeOK, IdsInv, NoIdTwice, LateInv, Runs
  PROVE  LateInv' /\ NoLateCallback'
<1> USE DEF Keeps, history
<1>1. \A id \in released : id \in DOMAIN modules' =>
        id \in DOMAIN modules /\ Head(loop) # Removal(id)
  BY RunsIds
<1>2. UNCHANGED <<released, late>> /\ late \in [Requester -> SUBSET released]
  BY DEF Runs, LateInv
<1>3. /\ loop # <<>> /\ loop \in Seq(Task) /\ loop' \in Seq(Task) /\ Head(loop) = loop[1]
      /\ Len(loop) \in Nat \ {0} /\ Len(loop') = Len(loop) - 1
      /\ \A i \in 1..Len(loop') : loop'[i] = loop[i + 1]
  BY TaskCalls, HeadTailProperties, LenProperties, EmptySeq DEF Runs, TypeOK
<1>4. ASSUME NEW id \in released, id \in DOMAIN modules'
      PROVE  Queued(id)'
  <2>1. Removal(id) \in Tasks /\ Head(loop) # Removal(id)
    BY <1>1, <1>4 DEF LateInv, Queued
  <2>2. Tasks = {Head(loop)} \cup Tasks'
    BY TaskCalls, TasksOf DEF Runs
  <2> QED BY <2>1, <2>2 DEF Queued, Removal
<1>5. ASSUME NEW r \in Requester, NEW i \in RequestsOf(r)', NEW id \in late[r],
             id \in DOMAIN modules'
      PROVE  QueuedBefore(i, id)'
  <2>1. i + 1 \in RequestsOf(r) /\ i \in 1..Len(loop')
    BY <1>3 DEF RequestsOf
  <2>2. id \in DOMAIN modules /\ loop[1] # Removal(id)
    BY <1>1, <1>2, <1>3, <1>5
  <2>3. QueuedBefore(i + 1, id)
    BY <2>1, <2>2 DEF LateInv
  <2>4. PICK j \in 1..i : loop[j] = Removal(id)
    BY <2>1, <2>3 DEF QueuedBefore
  <2>5. j # 1
    BY <2>2, <2>4
  <2>6. j - 1 \in 1..(i - 1) /\ loop'[j - 1] = loop[j]
    BY <1>3, <2>1, <2>5
  <2>7. loop'[j - 1] = Removal(id)
    BY <2>4, <2>6
  <2> QED BY <2>6, <2>7 DEF QueuedBefore, Removal
<1>6. LateInv'
  BY <1>2, <1>4, <1>5 DEF LateInv
<1>7. NoLateCallback'
  <2> SUFFICES ASSUME running'.at = "callback", NEW r \in running'.to
               PROVE  running'.id \notin late[r]
    BY <1>2 DEF NoLateCallback
  <2>1. running'.id \in DOMAIN modules /\ Head(loop) \in RequestTasks(r)
    BY TaskCalls DEF Runs
  <2>2. r \in Requester /\ 1 \in RequestsOf(r)
    <3>1. Head(loop) \in Task /\ Head(loop).op = "DoProcessJSRequest" /\ Head(loop).to = r
      BY <1>3, <2>1 DEF RequestTasks
    <3> QED BY <1>3, <3>1 DEF RequestsOf, Task
  <2>3. ~QueuedBefore(1, running'.id)
    BY DEF QueuedBefore
  <2> QED BY <2>1, <2>2, <2>3 DEF LateInv
<1> QED BY <1>6, <1>7

-----------------------------------------------------------------------------
(* What the page shows.                                                    *)

\* Nothing is shown before the connection is up, and nothing waits for it afterwards.
PageInv ==
  /\ page \in Tabs
  /\ IF initialized THEN msgQueue = <<>> ELSE page = <<>>
  /\ PageShowsRegistry

WritersInv == writers \in [ModuleId -> SUBSET (Thread \cup {"callback", "page"})]

\* A message is shown, now or when the queue is sent.
LEMMA Handled ==
  ASSUME TypeOK, PageInv, NEW msg \in PushedMsg, HandleMessage(msg), Receives,
         UNCHANGED initialized
  PROVE  /\ page' \in Tabs
         /\ IF initialized' THEN msgQueue' = <<>> ELSE page' = <<>>
         /\ PageAfterQueue' = OnMessage(PageAfterQueue, msg)
<1>1. page \in Tabs /\ msgQueue \in Seq(PushedMsg)
  BY DEF PageInv, TypeOK, OutTypeOK
<1>2. CASE initialized
  <2>1. page' = OnMessages(page, <<msg>>) /\ msgQueue = <<>> /\ msgQueue' = <<>>
    BY <1>2 DEF HandleMessage, Pushes, Receives, PageInv
  <2>2. page' = OnMessage(page, msg) /\ page' \in Tabs
    BY <1>1, <2>1, OnOneMessage, OnMessageType
  <2>3. OnMessages(page, msgQueue) = page /\ OnMessages(page', msgQueue') = page'
    BY <1>1, <2>1, <2>2, OnMessagesType
  <2> QED BY <1>2, <2>1, <2>2, <2>3 DEF PageAfterQueue
<1>3. CASE ~initialized
  <2>1. page' = OnMessages(page, <<>>) /\ msgQueue' = Append(msgQueue, msg) /\ page = <<>>
    BY <1>3 DEF HandleMessage, Pushes, Silent, Receives, PageInv
  <2>2. page' = page
    BY <1>1, <2>1, OnMessagesType
  <2>3. OnMessages(page', msgQueue') = OnMessage(OnMessages(page, msgQueue), msg)
    BY <1>1, <2>1, <2>2, OnMessagesType
  <2> QED BY <1>1, <1>3, <2>1, <2>2, <2>3 DEF PageAfterQueue
<1> QED BY <1>2, <1>3

\* Nothing is shown of a step that pushes nothing.
LEMMA NothingPushed ==
  ASSUME TypeOK, PageInv, out'.pushed = <<>>, Receives, UNCHANGED <<msgQueue, initialized>>
  PROVE  /\ page' \in Tabs
         /\ IF initialized' THEN msgQueue' = <<>> ELSE page' = <<>>
         /\ PageAfterQueue' = PageAfterQueue
<1>1. page \in Tabs /\ msgQueue \in Seq(PushedMsg)
  BY DEF PageInv, TypeOK, OutTypeOK
<1>2. page' = page
  BY <1>1, OnMessagesType DEF Receives
<1> QED BY <1>1, <1>2 DEF PageInv, PageAfterQueue

\* What a task of the module thread makes the page show.
LEMMA TaskShown ==
  ASSUME TypeOK, PageInv, Runs
  PROVE  /\ page' \in Tabs
         /\ IF initialized' THEN msgQueue' = <<>> ELSE page' = <<>>
         /\ DoRegisterModule => /\ Head(loop).module \in ModuleType
                                /\ PageAfterQueue' = OnMessage(PageAfterQueue,
                                     CreateModuleAdded(idCounter, Head(loop).module))
         /\ UnregisterModule => /\ Head(loop).id \in Int
                                /\ PageAfterQueue' = OnMessage(PageAfterQueue,
                                     CreateModuleRemoved(Head(loop).id))
         /\ PushUpdate => /\ Head(loop).msg \in UpdateMsg
                          /\ PageAfterQueue' = OnMessage(PageAfterQueue, Head(loop).msg)
         /\ ~(DoRegisterModule \/ UnregisterModule \/ PushUpdate) =>
              PageAfterQueue' = PageAfterQueue
<1>0. /\ page \in Tabs /\ msgQueue \in Seq(PushedMsg) /\ idCounter \in Int
      /\ Head(loop) \in Task /\ RunTask /\ Receives
  BY TaskCalls, TasksOf DEF PageInv, TypeOK, OutTypeOK, ModulesTypeOK, Runs
<1>a. Head(loop).op = "DoRegisterModule" => Head(loop).module \in ModuleType
  BY <1>0 DEF Task
<1>b. Head(loop).op = "UnregisterModule" => Head(loop).id \in Int
  BY <1>0 DEF Task
<1>c. Head(loop).op = "HandleMessage" => Head(loop).msg \in UpdateMsg
  BY <1>0 DEF Task
<1>d. /\ DoRegisterModule => Head(loop).op = "DoRegisterModule"
      /\ UnregisterModule => Head(loop).op = "UnregisterModule"
      /\ PushUpdate => Head(loop).op = "HandleMessage"
  BY DEF DoRegisterModule, UnregisterModule, PushUpdate, Takes
<1>1. CASE OnProxyInitialized
  <2>1. Head(loop).op = "OnProxyInitialized" /\ initialized' = TRUE /\ msgQueue' = <<>>
        /\ page' = OnMessages(page, msgQueue)
    BY <1>0, <1>1 DEF OnProxyInitialized, Takes, Pushes, Receives
  <2>2. page' \in Tabs /\ OnMessages(page', <<>>) = page'
    BY <1>0, <2>1, OnMessagesType
  <2>3. PageAfterQueue' = PageAfterQueue
    BY <2>1, <2>2 DEF PageAfterQueue
  <2> QED BY <1>d, <2>1, <2>2, <2>3
<1>2. CASE DoRegisterModule
  <2>1. Head(loop).op = "DoRegisterModule" /\ UNCHANGED initialized
        /\ HandleMessage(CreateModuleAdded(idCounter, Head(loop).module))
    BY <1>2 DEF DoRegisterModule, Takes
  <2>2. CreateModuleAdded(idCounter, Head(loop).module) \in PushedMsg
    BY <1>0, <1>a, <2>1, MessageTypes
  <2> QED BY <1>0, <1>2, <1>a, <1>d, <2>1, <2>2, Handled
<1>3. CASE UnregisterModule
  <2>1. Head(loop).op = "UnregisterModule" /\ UNCHANGED initialized
        /\ HandleMessage(CreateModuleRemoved(Head(loop).id))
    BY <1>3 DEF UnregisterModule, Takes, started
  <2>2. CreateModuleRemoved(Head(loop).id) \in PushedMsg
    BY <1>b, <2>1, MessageTypes
  <2> QED BY <1>0, <1>3, <1>b, <1>d, <2>1, <2>2, Handled
<1>4. CASE PushUpdate
  <2>1. Head(loop).op = "HandleMessage" /\ UNCHANGED initialized /\ HandleMessage(Head(loop).msg)
    BY <1>4 DEF PushUpdate, Takes, started
  <2>2. Head(loop).msg \in PushedMsg
    BY <1>c, <2>1 DEF PushedMsg
  <2> QED BY <1>0, <1>4, <1>c, <1>d, <2>1, <2>2, Handled
<1>5. CASE SaveUpdate \/ DoProcessJSRequest \/ PassPeerUpdate
  <2>1. Head(loop).op \in {"SavePropertiesList", "DoProcessJSRequest", "PassPropertyUpdateToModule"}
    BY <1>5 DEF SaveUpdate, DoProcessJSRequest, PassPeerUpdate, Takes
  <2>2. out'.pushed = <<>> /\ UNCHANGED <<msgQueue, initialized>>
    BY <1>5 DEF SaveUpdate, DoProcessJSRequest, PassPeerUpdate, PassPropertyUpdateToModule,
       Silent, Pushes, Relays, started
  <2> QED BY <1>0, <1>d, <2>1, <2>2, NothingPushed
<1> QED BY <1>0, <1>1, <1>2, <1>3, <1>4, <1>5 DEF RunTask

\* The messages of the registry.
LEMMA RemovedType ==
  ASSUME NEW id \in Int
  PROVE  /\ CreateModuleRemoved(id) \in RemovedMsg /\ CreateModuleRemoved(id) \in PushedMsg
         /\ CreateModuleRemoved(id).id = id
BY DEF CreateModuleRemoved, RemovedMsg, PushedMsg

LEMMA AddedType ==
  ASSUME NEW id \in Int, NEW module \in ModuleType
  PROVE  /\ CreateModuleAdded(id, module) \in AddedMsg /\ CreateModuleAdded(id, module) \in PushedMsg
         /\ CreateModuleAdded(id, module).id = id
BY DEF CreateModuleAdded, AddedMsg, PushedMsg, ModuleType

\* What a call from a callback, and a change the page or the host sends, makes it show.
LEMMA CallShown ==
  ASSUME TypeOK, PageInv, NEW id \in Int, NEW list \in PropertyList
  PROVE  /\ AppUpdates(id, list) =>
              /\ page' \in Tabs
              /\ IF initialized' THEN msgQueue' = <<>> ELSE page' = <<>>
              /\ PageAfterQueue' = SetModulePoperties(PageAfterQueue, id, list)
         /\ AppUnregisters(id) =>
              /\ page' \in Tabs
              /\ IF initialized' THEN msgQueue' = <<>> ELSE page' = <<>>
              /\ PageAfterQueue' = DeleteModule(PageAfterQueue, id)
         /\ id \in DOMAIN page /\ Outside /\ page' = SetModulePoperties(page, id, list) =>
              /\ page' \in Tabs
              /\ IF initialized' THEN msgQueue' = <<>> ELSE page' = <<>>
              /\ PageAfterQueue' = SetModulePoperties(PageAfterQueue, id, list)
<1>0. page \in Tabs /\ msgQueue \in Seq(PushedMsg) /\ PageAfterQueue \in Tabs
  BY OnMessagesType DEF PageInv, TypeOK, OutTypeOK, PageAfterQueue
<1>1. ASSUME AppUpdates(id, list)
      PROVE  /\ page' \in Tabs
             /\ IF initialized' THEN msgQueue' = <<>> ELSE page' = <<>>
             /\ PageAfterQueue' = SetModulePoperties(PageAfterQueue, id, list)
  <2>1. HandleMessage(CreatePropertyUpdated(id, list)) /\ Receives /\ UNCHANGED initialized
    BY <1>1 DEF AppUpdates, CallbackUpdates, InCallback, started
  <2>2. PICK msg \in UpdateMsg : msg = CreatePropertyUpdated(id, list) /\ msg \in PushedMsg
    BY MessageTypes
  <2>3. msg.id = id /\ msg.properties = list
    BY <2>2 DEF CreatePropertyUpdated
  <2> QED BY <1>0, <2>1, <2>2, <2>3, Handled, OnMessageType
<1>2. ASSUME AppUnregisters(id)
      PROVE  /\ page' \in Tabs
             /\ IF initialized' THEN msgQueue' = <<>> ELSE page' = <<>>
             /\ PageAfterQueue' = DeleteModule(PageAfterQueue, id)
  <2>1. HandleMessage(CreateModuleRemoved(id)) /\ Receives /\ UNCHANGED initialized
    BY <1>2 DEF AppUnregisters, CallbackUnregisters, InCallback, started
  <2>2. /\ CreateModuleRemoved(id) \in RemovedMsg /\ CreateModuleRemoved(id) \in PushedMsg
        /\ CreateModuleRemoved(id).id = id
    BY RemovedType
  <2> QED BY <1>0, <2>1, <2>2, Handled, OnMessageType
<1>3. ASSUME id \in DOMAIN page, Outside, page' = SetModulePoperties(page, id, list)
      PROVE  /\ page' \in Tabs
             /\ IF initialized' THEN msgQueue' = <<>> ELSE page' = <<>>
             /\ PageAfterQueue' = SetModulePoperties(PageAfterQueue, id, list)
  <2>1. initialized /\ msgQueue = <<>> /\ UNCHANGED <<initialized, msgQueue>>
    BY <1>3 DEF PageInv, Outside, instance, started
  <2>2. page' \in Tabs
    BY <1>0, <1>3, SetModulePopertiesType
  <2>3. PageAfterQueue = page /\ PageAfterQueue' = page'
    BY <1>0, <2>1, <2>2, OnMessagesType DEF PageAfterQueue
  <2> QED BY <1>3, <2>1, <2>2, <2>3
<1> QED BY <1>1, <1>2, <1>3

\* The other steps change neither the registry nor what the page shows.
StillShown == UNCHANGED <<page, msgQueue, initialized, modules>>

LEMMA OthersShown ==
  ASSUME AppNext
  PROVE  \/ Runs \/ StillShown
         \/ /\ running.at = "callback"
            /\ \E id \in CallbackIds, list \in UpdateList : AppUpdates(id, list)
         \/ running.at = "callback" /\ \E id \in CallbackIds : AppUnregisters(id)
         \/ \E id \in DOMAIN page \cap ModuleId, list \in UpdateList :
              \/ \E r \in Requester : PageApplies(r, id, list)
              \/ HostApplies(id, list)
<1> USE DEF StillShown, Outside, InCallback, instance, started
<1>1. ASSUME NEW host \in Hosts, Starts(host) PROVE StillShown
  BY <1>1 DEF Starts, ProxyInitialized
<1>2. ASSUME NEW t \in Thread,
             \/ \E module \in Definition : ThreadRegisters(t, module)
             \/ ThreadRegistered(t)
             \/ \E id \in Handles : ThreadUnregisters(t, id)
             \/ \E id \in Handles, list \in UpdateList : ThreadUpdates(t, id, list)
             \/ ThreadUpdated(t)
      PROVE  StillShown
  BY <1>2 DEF ThreadRegisters, RegisterModule, ThreadRegistered, RegisterReturns,
     ThreadUnregisters, CallUnregisterModule, ThreadUpdates, UpdateProperties, ThreadUpdated,
     UpdatePropertiesReturns
<1>3. ASSUME AppReturns \/ \E module \in Definition : AppRegisters(module) PROVE StillShown
  BY <1>3 DEF AppReturns, CallbackReturns, AppRegisters, CallbackRegisters
<1>4. ASSUME NEW r \in Requester,
             \/ \E json \in {CreateLoadModules, Malformed, UnknownType} : PageAsks(r, json)
             \/ PageAnswered(r)
      PROVE  StillShown
  BY <1>4 DEF PageAsks, ProcessJSRequest, PageAnswered, RequestReturns
<1> QED BY <1>1, <1>2, <1>3, <1>4 DEF AppNext

LEMMA PageInvStep ==
  ASSUME TypeOK, IdsInv, PageInv, [AppNext]_allVars
  PROVE  PageInv'
<1>0. /\ page \in Tabs /\ PageAfterQueue \in Tabs /\ DOMAIN PageAfterQueue = DOMAIN modules
      /\ idCounter \in Int
  BY OnMessagesType DEF PageInv, TypeOK, OutTypeOK, ModulesTypeOK, PageAfterQueue, PageShowsRegistry
<1>1. CASE Runs
  <2>0. RunTask
    BY <1>1 DEF Runs
  <2> USE DEF PageInv
  <2>1. CASE DoRegisterModule
    <3>1. /\ page' \in Tabs /\ (IF initialized' THEN msgQueue' = <<>> ELSE page' = <<>>)
          /\ Head(loop).module \in ModuleType
          /\ PageAfterQueue'
               = OnMessage(PageAfterQueue, CreateModuleAdded(idCounter, Head(loop).module))
      BY <1>1, <2>1, TaskShown
    <3>2. \A tabs \in Tabs, id \in Int, module \in ModuleType :
            DOMAIN OnMessage(tabs, CreateModuleAdded(id, module)) = DOMAIN tabs \cup {id}
      <4> SUFFICES ASSUME NEW tabs \in Tabs, NEW id \in Int, NEW module \in ModuleType
                   PROVE  DOMAIN OnMessage(tabs, CreateModuleAdded(id, module)) = DOMAIN tabs \cup {id}
        OBVIOUS
      <4> QED BY AddedType, OnMessageType
    <3>a. PICK module \in ModuleType : module = Head(loop).module
      BY <3>1
    <3>b. PageAfterQueue' = OnMessage(PageAfterQueue, CreateModuleAdded(idCounter, module))
      BY <3>1, <3>a
    <3>c. DOMAIN OnMessage(PageAfterQueue, CreateModuleAdded(idCounter, module))
            = DOMAIN PageAfterQueue \cup {idCounter}
      BY <1>0, <3>2
    <3>3. DOMAIN PageAfterQueue' = DOMAIN modules \cup {idCounter}
      BY <1>0, <3>b, <3>c
    <3>4. DOMAIN modules' = DOMAIN modules \cup {idCounter}
      BY <2>1 DEF DoRegisterModule, Insert
    <3> QED BY <3>1, <3>3, <3>4 DEF PageShowsRegistry
  <2>2. CASE UnregisterModule
    <3>1. /\ page' \in Tabs /\ (IF initialized' THEN msgQueue' = <<>> ELSE page' = <<>>)
          /\ Head(loop).id \in Int
          /\ PageAfterQueue' = OnMessage(PageAfterQueue, CreateModuleRemoved(Head(loop).id))
      BY <1>1, <2>2, TaskShown
    <3>2. \A tabs \in Tabs, id \in Int :
            DOMAIN OnMessage(tabs, CreateModuleRemoved(id)) = DOMAIN tabs \ {id}
      BY RemovedType, OnMessageType
    <3>3. DOMAIN PageAfterQueue' = DOMAIN modules \ {Head(loop).id}
      BY <1>0, <3>1, <3>2
    <3>4. DOMAIN modules' = DOMAIN modules \ {Head(loop).id}
      BY <2>2 DEF UnregisterModule, Erase, Restrict
    <3> QED BY <3>1, <3>3, <3>4 DEF PageShowsRegistry
  <2>3. CASE ~DoRegisterModule /\ ~UnregisterModule
    <3>1. DOMAIN modules' = DOMAIN modules
      <4>1. \A id \in DOMAIN modules : Head(loop) # Removal(id)
        <5>1. \A id : Head(loop) = Removal(id) => Head(loop).op = "UnregisterModule"
          BY DEF Removal
        <5>2. Head(loop).op # "UnregisterModule"
          BY <2>0, <2>3 DEF RunTask, OnProxyInitialized, SaveUpdate, PushUpdate,
             DoProcessJSRequest, PassPeerUpdate, Takes
        <5> QED BY <5>1, <5>2
      <4> QED BY <2>0, <2>3, <4>1, TaskModules
    <3>2. PushUpdate => Head(loop).msg \in UpdateMsg /\ Head(loop).msg \in PushedMsg
      BY <1>1, TaskShown DEF PushedMsg
    <3>a. PushUpdate => PageAfterQueue' = OnMessage(PageAfterQueue, Head(loop).msg)
      BY <1>1, TaskShown
    <3>b. \A msg \in UpdateMsg : msg \in PushedMsg
      BY DEF PushedMsg
    <3>c. \A tabs \in Tabs, msg \in UpdateMsg : DOMAIN OnMessage(tabs, msg) = DOMAIN tabs
      BY <3>b, OnMessageType
    <3>d. ~PushUpdate => PageAfterQueue' = PageAfterQueue
      BY <1>1, <2>3, TaskShown
    <3>3. DOMAIN PageAfterQueue' = DOMAIN PageAfterQueue
      BY <1>0, <3>2, <3>a, <3>c, <3>d
    <3> QED BY <1>0, <1>1, <3>1, <3>3, TaskShown DEF PageShowsRegistry
  <2> QED BY <2>1, <2>2, <2>3
<1>2. ASSUME running.at = "callback", NEW id \in CallbackIds, NEW list \in UpdateList,
             AppUpdates(id, list)
      PROVE  PageInv'
  <2>1. id \in Int /\ list \in PropertyList
    BY <1>2, ConstantsAssumption DEF TypeOK, ModulesTypeOK, IdsInv, Ids, CallbackIds, Handles
  <2>2. DOMAIN PageAfterQueue' = DOMAIN modules
    BY <1>0, <1>2, <2>1, CallShown, SetModulePopertiesType
  <2>3. DOMAIN modules' = DOMAIN modules
    BY <1>2 DEF AppUpdates, CallbackUpdates, SavePropertiesList
  <2> QED BY <1>2, <2>1, <2>2, <2>3, CallShown DEF PageInv, PageShowsRegistry
<1>3. ASSUME running.at = "callback", NEW id \in CallbackIds, AppUnregisters(id)
      PROVE  PageInv'
  <2>1. id \in Int /\ <<>> \in PropertyList
    BY <1>3 DEF TypeOK, ModulesTypeOK, IdsInv, Ids, CallbackIds, Handles, PropertyList
  <2>2. DOMAIN PageAfterQueue' = DOMAIN modules \ {id}
    <3>1. \A tabs : DOMAIN DeleteModule(tabs, id) = DOMAIN tabs \ {id}
      BY DEF DeleteModule, Restrict
    <3> QED BY <1>0, <1>3, <2>1, <3>1, CallShown
  <2>3. DOMAIN modules' = DOMAIN modules \ {id}
    BY <1>3 DEF AppUnregisters, CallbackUnregisters, Erase, Restrict
  <2> QED BY <1>3, <2>1, <2>2, <2>3, CallShown DEF PageInv, PageShowsRegistry
<1>4. ASSUME NEW id \in DOMAIN page \cap ModuleId, NEW list \in UpdateList,
             (\E r \in Requester : PageApplies(r, id, list)) \/ HostApplies(id, list)
      PROVE  PageInv'
  <2>1. id \in Int /\ list \in PropertyList
    BY ConstantsAssumption
  <2>2. Outside /\ page' = SetModulePoperties(page, id, list)
    BY <1>4 DEF PageApplies, ProcessJSRequest, HostApplies, ProxyReads
  <2>3. DOMAIN PageAfterQueue' = DOMAIN modules /\ modules' = modules
    BY <1>0, <2>1, <2>2, CallShown, SetModulePopertiesType DEF Outside, instance
  <2> QED BY <1>4, <2>1, <2>2, <2>3, CallShown DEF PageInv, PageShowsRegistry
<1>5. CASE StillShown \/ UNCHANGED allVars
  <2>1. UNCHANGED <<page, msgQueue, initialized, modules>>
    BY <1>5 DEF StillShown, allVars, appVars, vars
  <2> QED BY <2>1 DEF PageInv, PageShowsRegistry, PageAfterQueue
<1> QED BY <1>1, <1>2, <1>3, <1>4, <1>5, OthersShown

\* Each step that writes a property notes who has written it.
LEMMA WritersStep ==
  ASSUME WritersInv, [AppNext]_allVars
  PROVE  WritersInv'
<1>1. ASSUME NEW id, NEW who \in Thread \cup {"callback", "page"}, Writes(id, who)
      PROVE  WritersInv'
  BY <1>1 DEF WritersInv, Writes
<1>2. ASSUME UNCHANGED writers PROVE WritersInv'
  BY <1>2 DEF WritersInv
<1>3. ASSUME NEW t \in Thread,
             \/ \E module \in Definition : ThreadRegisters(t, module)
             \/ ThreadRegistered(t)
             \/ \E id \in Handles : ThreadUnregisters(t, id)
             \/ \E id \in Handles, list \in UpdateList : ThreadUpdates(t, id, list)
             \/ ThreadUpdated(t)
      PROVE  WritersInv'
  BY <1>1, <1>2, <1>3 DEF ThreadRegisters, ThreadRegistered, ThreadUnregisters, ThreadUpdates,
     ThreadUpdated, history
<1>4. ASSUME NEW r \in Requester,
             \/ \E id \in DOMAIN page \cap ModuleId, list \in UpdateList : PageApplies(r, id, list)
             \/ \E json \in {CreateLoadModules, Malformed, UnknownType} : PageAsks(r, json)
             \/ PageAnswered(r)
      PROVE  WritersInv'
  BY <1>1, <1>2, <1>4 DEF PageApplies, PageAsks, PageAnswered, history
<1>5. ASSUME NEW id, NEW list, HostApplies(id, list) \/ AppUpdates(id, list) \/ AppUnregisters(id)
      PROVE  WritersInv'
  BY <1>1, <1>2, <1>5 DEF HostApplies, AppUpdates, AppUnregisters, history
<1>6. ASSUME \/ \E host \in Hosts : Starts(host)
             \/ Runs \/ AppReturns
             \/ \E module \in Definition : AppRegisters(module)
             \/ UNCHANGED allVars
      PROVE  WritersInv'
  BY <1>2, <1>6 DEF Starts, Runs, AppReturns, AppRegisters, history, allVars, appVars
<1> QED BY <1>3, <1>4, <1>5, <1>6 DEF AppNext

LEMMA PageInvInit == AppInit => PageInv /\ WritersInv
<1> SUFFICES ASSUME AppInit PROVE PageInv /\ WritersInv
  OBVIOUS
<1>1. page = <<>> /\ msgQueue = <<>> /\ initialized = FALSE /\ DOMAIN modules = {}
  BY DEF AppInit, Init
<1>2. <<>> \in Tabs /\ DOMAIN <<>> = {}
  <2>1. DOMAIN <<>> = {}
    OBVIOUS
  <2>2. <<>> \in [DOMAIN <<>> -> Seq(Field)]
    BY <2>1
  <2> QED BY <2>1, <2>2, TabsType
<1>3. PageAfterQueue = <<>>
  <2>1. OnMessages(<<>>, <<>>) = <<>>
    <3>1. <<>> \in Seq(PushedMsg)
      OBVIOUS
    <3> QED BY ONLY <3>1, <1>2, OnMessagesType
  <2> QED BY <1>1, <2>1 DEF PageAfterQueue
<1> QED BY <1>1, <1>2, <1>3 DEF AppInit, PageInv, PageShowsRegistry, WritersInv

-----------------------------------------------------------------------------
(* The theorems.                                                           *)

LEMMA AppInvInit == AppInit => AppInv
<1> SUFFICES ASSUME AppInit PROVE AppInv
  OBVIOUS
<1>1. TypeOK /\ RegistrationsAccounted /\ RequestsAccounted
  BY TypeInit DEF AppInit, Init, RegistrationsAccounted, RegistrationsOf, RequestsAccounted,
     RequestsOf, Answering, Idle
<1>2. IdsInv
  BY NoTasks DEF AppInit, Init, IdsInv, Idle
<1>3. NoIdTwice /\ NoLateCallback
  BY DEF AppInit, Init, Idle, NoIdTwice, NoLateCallback
<1>4. LateInv
  BY DEF AppInit, LateInv
<1> QED BY <1>1, <1>2, <1>3, <1>4 DEF AppInv

LEMMA AppInvStep == AppInv /\ [AppNext]_allVars => AppInv'
<1> SUFFICES ASSUME AppInv, [AppNext]_allVars PROVE AppInv'
  OBVIOUS
<1> USE DEF AppInv
<1>1. TypeOK' /\ RegistrationsAccounted' /\ RequestsAccounted'
  BY AppStepIsOpen, TypeStep, RegistrationsStep, RequestsStep
<1>2. CASE Runs
  BY <1>1, <1>2, RunsIds, RunsLate
<1>3. CASE Beside
  BY <1>1, <1>3, IdsBeside, LateBeside
<1>4. CASE UNCHANGED allVars
  <2>1. Beside
    BY <1>4 DEF allVars, appVars, history, vars, Beside, Posts, Frees, Marks, Gives, Leads, IdsInv
  <2> QED BY <1>3, <2>1
<1> QED BY <1>2, <1>3, <1>4, ThreadBeside, CallbackBeside, PageBeside, NetBeside DEF AppNext

\* AppInv is an invariant of the application, its threads, its callbacks and its page.
LEMMA AppInvariant == AppSpec => []AppInv
<1>1. AppInit => AppInv
  BY AppInvInit
<1>2. AppInv /\ [AppNext]_allVars => AppInv'
  BY AppInvStep
<1> QED BY <1>1, <1>2, PTL DEF AppSpec

\* PageInv and WritersInv are invariants of it too; PageInv needs the types of AppInv.
LEMMA PageInvariant == AppSpec => [](PageInv /\ WritersInv)
<1>1. AppInv /\ PageInv /\ WritersInv /\ [AppNext]_allVars => (PageInv /\ WritersInv)'
  BY PageInvStep, WritersStep DEF AppInv
<1> QED BY <1>1, PageInvInit, AppInvariant, PTL DEF AppSpec

\* The types of the instance, of its registry, queue, promises and threads, and of the
\* page; and every id the application was given or has released is one the counter has
\* passed (ModuleManager.cpp:57-272, module.js:18-63).
THEOREM AppTypeCorrect == AppSpec => []AppTypeOK
<1>1. AppInv /\ PageInv /\ WritersInv => AppTypeOK
  <2> SUFFICES ASSUME AppInv, PageInv, WritersInv PROVE AppTypeOK
    OBVIOUS
  <2>1. returned \cup released \subseteq 0..(idCounter - 1)
    BY DEF AppInv, IdsInv, Ids
  <2>2. page \in [DOMAIN page -> Seq(Field)]
    BY TabsType DEF PageInv
  <2> QED BY <2>1, <2>2 DEF AppInv, LateInv, WritersInv, AppTypeOK
<1> QED BY <1>1, AppInvariant, PageInvariant, PTL

\* What the page shows, with what waits for the connection, is what is registered: every
\* insertion and removal of _modules is pushed in the order it is made, from the module
\* thread and from inside a callback, and the queue is sent whole and in order when the
\* connection is up (ModuleManager.cpp:57-100,121-140; web.app.js:42-70).
THEOREM PageShowsWhatIsRegistered == AppSpec => []PageShowsRegistry
<1>1. PageInv => PageShowsRegistry
  BY DEF PageInv
<1> QED BY <1>1, PageInvariant, PTL

\* No thread is given an id that another call of RegisterModule has returned or will
\* return, whatever is unregistered in between: the counter of DoRegisterModule only
\* grows, and one thread waits for each task (ModuleManager.cpp:109-130).
THEOREM NoIdIsGivenTwice == AppSpec => []NoIdTwice
<1>1. AppInv => NoIdTwice
  BY DEF AppInv
<1> QED BY <1>1, AppInvariant, PTL

\* What a page asks for after UnregisterModule has returned does not reach the callback
\* of the module: the removal stands before the request in the queue of the module
\* thread, or was made in a callback and is done (ModuleManager.cpp:133-140,192-272).
THEOREM NoCallbackIsLate == AppSpec => []NoLateCallback
<1>1. AppInv => NoLateCallback
  BY DEF AppInv
<1> QED BY <1>1, AppInvariant, PTL
=============================================================================
