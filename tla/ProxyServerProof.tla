-------------------------- MODULE ProxyServerProof ---------------------------
(***************************************************************************)
(* A change made on the host goes to the peer and the module it belongs    *)
(* to, no module of a peer that has gone stays, and those that stay come   *)
(* to be as their owners have them: RightOwner, NoOrphans and              *)
(* HostFollowsOwner, for every set of peers, threads, pages, modules and   *)
(* updates.                                                                *)
(***************************************************************************)
EXTENDS ProxyServer, ModuleManagerProof, WebAppProof, WellFoundedInduction, FiniteSetTheorems

-----------------------------------------------------------------------------
(* The inductive invariant.                                                *)

\* A task the network thread waits for.
Registers(task) == task.op = "DoRegisterModule" /\ Net \in task.to

ServerTypeOK ==
  /\ DOMAIN remoteModules \subseteq 0..(idCounter - 1)
  /\ \A id \in DOMAIN remoteModules : remoteModules[id] \in [remote : Int, client : Peer]
  /\ reading \in {Idle} \cup [at : {"adding"}, remote : Int, client : Peer]
                        \cup [at : {"closing"}, client : Peer]
PeersTypeOK ==
  /\ link \in [Peer -> {"open", "lost", "closed"}]
  /\ up \in [Peer -> Seq(PushedMsg)]
  /\ counter \in [Peer -> Nat]
  /\ messages \in 0..MaxMessages
  /\ \A p \in Peer : counter[p] <= messages

\* A message that announces a module carries the module the peer registered.
Announced ==
  \A p \in Peer : \A i \in 1..Len(up[p]) :
    up[p][i].type = "module_added" =>
      /\ up[p][i].id \in 0..MaxMessages
      /\ up[p][i].properties = Remote(p, up[p][i].id).properties

\* A module is the one the network thread has read of last.
IsRead(module) ==
  /\ reading.remote \in 0..MaxMessages
  /\ Fixed(module.properties, Remote(reading.client, reading.remote))

\* While the network thread is inside RegisterModule, the task it has queued and the
\* module its promise names are those of the message it has read.
Adding ==
  /\ app[Net].at = "registering" <=> reading.at = "adding"
  /\ \A task \in Tasks : Registers(task) => IsRead(task.module)
  /\ \A id \in idPromise[Net] :
       /\ idPromise[Net] = {id} /\ id < idCounter
       /\ id \in DOMAIN modules => IsRead(modules[id])

\* A module of a peer is in _remote_modules, or about to be added to it, or its removal
\* is queued, and only one of these.
Found ==
  /\ \A task \in Tasks : task.op = "UnregisterModule" => task.id < idCounter
  /\ foreign \subseteq DOMAIN modules
  /\ \A id \in DOMAIN remoteModules : id \in foreign /\ ~Queued(id)
  /\ \A id \in foreign :
       id \in DOMAIN remoteModules \/ Queued(id) \/ id \in idPromise[Net]
  /\ \A id \in idPromise[Net] :
       id \in foreign /\ ~Queued(id) /\ id \notin DOMAIN remoteModules

\* The modules of a peer that has closed are being removed, and none is added.
Closing ==
  /\ \A id \in DOMAIN remoteModules :
       link[remoteModules[id].client] = "closed" =>
         reading = [at |-> "closing", client |-> remoteModules[id].client]
  /\ reading.at = "adding" => link[reading.client] # "closed"

\* The entries are those of the modules as they were announced.
Owners ==
  \A id \in DOMAIN remoteModules :
    /\ remoteModules[id].remote \in 0..MaxMessages
    /\ Fixed(modules[id].properties, Remote(remoteModules[id].client, remoteModules[id].remote))

ProxyInv ==
  /\ TypeOK /\ RegistrationsAccounted
  /\ ServerTypeOK /\ PeersTypeOK
  /\ Announced /\ Adding /\ Found /\ Closing /\ Owners

-----------------------------------------------------------------------------
(* The map and the queue.                                                  *)

LEMMA LessThan ==
  \E R : IsWellFoundedOn(R, Nat) /\ \A x, y \in Nat : x < y => <<x, y>> \in R
<1>1. \A x, y \in Nat : x < y => <<x, y>> \in OpToRel(<, Nat)
  BY DEF OpToRel
<1> QED BY <1>1, NatLessThanWellFounded, Zenon

\* A loop over the map finds an id if there is one.
LEMMA LeastIsOne ==
  ASSUME NEW ids \in SUBSET Nat, ids # {}
  PROVE  Least(ids) \in ids
<1>1. PICK R : IsWellFoundedOn(R, Nat) /\ \A x, y \in Nat : x < y => <<x, y>> \in R
  BY LessThan
<1>2. \E x \in ids : \A y \in ids : ~(<<y, x>> \in R)
  <2>1. IsWellFoundedOn(R, Nat) /\ ids \subseteq Nat /\ ids # {}
    BY <1>1
  <2> QED BY ONLY <2>1, WFMin, Zenon
<1>3. PICK x \in ids : \A y \in ids : ~(<<y, x>> \in R)
  BY <1>2
<1>4. \A y \in ids : x <= y
  <2> TAKE y \in ids
  <2>1. ~(y < x)
    BY <1>1, <1>3
  <2> QED BY <2>1
<1> QED BY <1>4 DEF Least

\* A thread that waits for the promise has its task in the queue.
LEMMA RegistrationsQueued ==
  ASSUME TypeOK
  PROVE  RegistrationsOf(Net) = {} <=> \A task \in Tasks : ~Registers(task)
<1>1. Tasks = {loop[i] : i \in 1..Len(loop)}
  BY MembersOf DEF TypeOK, Tasks
<1> QED BY <1>1 DEF RegistrationsOf, Registers

-----------------------------------------------------------------------------
(* Modules.                                                                *)

\* Only the values that may be set change: what SetValue leaves alone, an update does
\* (Module.cpp:36-65).
LEMMA SavedFixed ==
  ASSUME NEW module \in ModuleType, NEW properties \in Seq(Property),
         NEW list \in PropertyList, Fixed(properties, module)
  PROVE  Fixed(SavedProperties(properties, list), module)
<1> DEFINE saved == SavedProperties(properties, list)
<1>1. saved \in Seq(Property) /\ Len(saved) = Len(properties)
  <2>1. saved \in Seq(Property) /\ DOMAIN saved = 1..Len(properties)
    BY SavedPropertiesType DEF SavedProperties
  <2> HIDE DEF saved
  <2> QED BY <2>1, LenProperties
<1>2. ASSUME NEW k \in 1..Len(properties)
      PROVE  saved[k] = IF module.properties[k].read_only THEN module.properties[k]
                        ELSE [module.properties[k] EXCEPT !.value = saved[k].value]
  <2>1. properties[k] \in Property /\ module.properties[k] \in Property
    <3>1. module.properties \in Seq(Property) /\ k \in 1..Len(module.properties)
      BY DEF Fixed, ModuleType
    <3> QED BY <3>1, ElementOfSeq
  <2>2. \E v : saved[k] = properties[k] \/ saved[k] = SetValue(properties[k], v)
    BY DEF SavedProperties
  <2>3. properties[k] = IF module.properties[k].read_only THEN module.properties[k]
          ELSE [module.properties[k] EXCEPT !.value = properties[k].value]
    BY DEF Fixed
  <2> HIDE DEF saved
  <2> QED BY <2>1, <2>2, <2>3 DEF SetValue, Property
<1> QED BY <1>1, <1>2 DEF Fixed

-----------------------------------------------------------------------------
(* The instance underneath.                                                *)

\* An id the network thread looks up is one of the map, or none.
LEMMA LookedUp ==
  ASSUME TypeOK, ServerTypeOK
  PROVE  /\ DOMAIN remoteModules \subseteq Nat
         /\ \A remote_id, p : LocalIdFromRemote(remote_id, p) \in DOMAIN remoteModules \cup {NoId}
         /\ \A p : ModulesOf(p) # {} => Least(ModulesOf(p)) \in ModulesOf(p)
<1>1. DOMAIN remoteModules \subseteq Nat
  BY DEF TypeOK, ModulesTypeOK, ServerTypeOK
<1>2. ASSUME NEW remote_id, NEW p
      PROVE  LocalIdFromRemote(remote_id, p) \in DOMAIN remoteModules \cup {NoId}
  <2> DEFINE ids == {i \in DOMAIN remoteModules : remoteModules[i] = Entry(remote_id, p)}
  <2>1. ids # {} => Least(ids) \in ids
    BY <1>1, LeastIsOne
  <2> QED BY <2>1 DEF LocalIdFromRemote
<1>3. \A p : ModulesOf(p) \in SUBSET Nat
  BY <1>1 DEF ModulesOf
<1> QED BY <1>1, <1>2, <1>3, LeastIsOne

\* What the network thread is given to read.
LEMMA ReadTypes ==
  ASSUME PeersTypeOK, NEW p \in Peer, up[p] # <<>>
  PROVE  /\ Head(up[p]) \in PushedMsg /\ Head(up[p]).id \in Int
         /\ Head(up[p]).type = "module_added" => ToModule(Head(up[p])) \in ModuleType
         /\ Head(up[p]).type = "property_update" => Head(up[p]).properties \in PropertyList
<1>1. Head(up[p]) \in PushedMsg
  BY HeadTailProperties DEF PeersTypeOK
<1> QED BY <1>1 DEF PushedMsg, AddedMsg, RemovedMsg, UpdateMsg, ToModule, ModuleType

\* What the threads, the page and the peers do to the instance, any caller may do.
LEMMA ProxyStepIsOpen ==
  ASSUME TypeOK, ServerTypeOK, PeersTypeOK, [ProxyNext]_proxyVars
  PROVE  [OpenNext]_vars
<1>0. Net \in Thread /\ NoId \in Int
  BY ProxyServerAssumption DEF NoId
<1>1. CASE ProxyInitialized(TRUE) \/ Runs \/ CallbackReturns
  BY <1>1 DEF OpenNext, Runs
<1>2. CASE OnModuleAdded \/ OnPropertyUpdated
  BY <1>0, <1>2 DEF OpenNext, OnModuleAdded, OnPropertyUpdated
<1>3. CASE RemoveClientsModules
  <2>1. ModulesOf(reading.client) # {} => Least(ModulesOf(reading.client)) \in Int
    BY LookedUp DEF ModulesOf
  <2> QED BY <1>0, <1>3, <2>1 DEF OpenNext, RemoveClientsModules
<1>4. ASSUME NEW p \in Peer, OnClientRead(p)
      PROVE  OpenNext
  <2>1. LocalIdFromRemote(Head(up[p]).id, p) \in Int
    BY <1>0, LookedUp
  <2>2. up[p] # <<>>
    BY <1>4 DEF OnClientRead
  <2>3. \/ Head(up[p]).type = "module_added" /\ RegisterModule(Net, ToModule(Head(up[p])))
        \/ CallUnregisterModule(Net, LocalIdFromRemote(Head(up[p]).id, p))
        \/ /\ Head(up[p]).type = "property_update"
           /\ UpdateProperties(Net, LocalIdFromRemote(Head(up[p]).id, p), Head(up[p]).properties)
    BY <1>4 DEF OnClientRead
  <2> QED BY <1>0, <2>1, <2>2, <2>3, ReadTypes DEF OpenNext
<1>5. ASSUME NEW p \in Peer,
             \/ OnClientClosed(p) \/ PeerRegisters(p)
             \/ \E id \in 0..(counter[p] - 1) : PeerUnregisters(p, id)
             \/ \E id \in 0..(counter[p] - 1), list \in UpdateList : PeerUpdates(p, id, list)
             \/ PeerReads(p) \/ PeerEnds(p)
      PROVE  UNCHANGED vars
  BY <1>5 DEF OnClientClosed, PeerRegisters, PeerUnregisters, PeerUpdates, PeerReads,
       PeerEnds, Sends
<1>6. ASSUME NEW r \in Requester,
             \/ \E id \in DOMAIN tabs \cap ModuleId, list \in UpdateList : PageApplies(r, id, list)
             \/ RequestReturns(r)
      PROVE  OpenNext
  <2>1. \A id \in ModuleId, list \in UpdateList : CreatePropertiesUpdated(id, list) \in Request
    BY ConstantsAssumption, MessageTypes DEF Request
  <2> QED BY <1>6, <2>1 DEF OpenNext, PageApplies
<1>7. ASSUME NEW t \in Thread,
             \/ \E module \in Definition : HostRegisters(t, module)
             \/ RegisterReturns(t)
      PROVE  OpenNext
  BY <1>7, ConstantsAssumption DEF OpenNext, HostRegisters
<1>8. CASE UNCHANGED proxyVars
  BY <1>8 DEF proxyVars
<1> QED BY <1>1, <1>2, <1>3, <1>4, <1>5, <1>6, <1>7, <1>8 DEF ProxyNext

-----------------------------------------------------------------------------
(* Steps that concern neither the registry nor the map.                    *)

\* A task that removes no module, and that the network thread does not wait for.
Ordinary(task) == task.op # "UnregisterModule" /\ ~Registers(task)

\* What the other threads, the page and the peers do, as far as the server can tell.
Aside ==
  /\ UNCHANGED <<modules, idCounter, server, foreign>>
  /\ app'[Net].at = "registering" <=> app[Net].at = "registering"
  /\ idPromise'[Net] = idPromise[Net]
  /\ \A p \in Peer : link'[p] = "closed" <=> link[p] = "closed"
  /\ UNCHANGED loop \/ \E task \in Task : Post(task) /\ Ordinary(task)

ServerInv == ServerTypeOK /\ Adding /\ Found /\ Closing /\ Owners

LEMMA AsideKeeps ==
  ASSUME TypeOK, ServerInv, Aside
  PROVE  ServerInv'
<1> USE DEF Aside, server
<1>1. Tasks \subseteq Tasks' /\ \A task \in Tasks' : task \in Tasks \/ Ordinary(task)
  BY TasksOf
<1>2. \A id : Queued(id)' <=> Queued(id)
  BY <1>1 DEF Queued, Ordinary, Removal
<1>3. ServerTypeOK' /\ Owners'
  BY DEF ServerInv, ServerTypeOK, Owners
<1>4. Adding'
  BY <1>1 DEF ServerInv, Adding, IsRead, Ordinary, Registers
<1>5. Found'
  BY <1>1, <1>2 DEF ServerInv, Found, Ordinary
<1>6. Closing'
  <2>1. \A id \in DOMAIN remoteModules : remoteModules[id].client \in Peer
    BY DEF ServerInv, ServerTypeOK
  <2>2. reading.at = "adding" => reading.client \in Peer
    BY DEF ServerInv, ServerTypeOK, Idle
  <2> QED BY <2>1, <2>2 DEF ServerInv, Closing
<1> QED BY <1>3, <1>4, <1>5, <1>6 DEF ServerInv

\* A step that reads and sends nothing.
LEMMA PeersKept ==
  ASSUME PeersTypeOK, Announced, UNCHANGED <<link, up, counter, messages>>
  PROVE  PeersTypeOK' /\ Announced'
BY DEF PeersTypeOK, Announced

\* The host's own threads and its page.
LEMMA HostKeeps ==
  ASSUME TypeOK, ServerInv, PeersTypeOK, Announced
  PROVE  /\ ProxyInitialized(TRUE) /\ Still => Aside
         /\ CallbackReturns /\ Still => Aside
         /\ OnPropertyUpdated => Aside
         /\ \A r \in Requester, id \in ModuleId, list \in UpdateList : PageApplies(r, id, list) => Aside
         /\ \A r \in Requester : RequestReturns(r) /\ Still => Aside
         /\ \A t \in Thread \ {Net}, module \in Definition : HostRegisters(t, module) => Aside
         /\ \A t \in Thread \ {Net} : RegisterReturns(t) /\ Still => Aside
<1> USE DEF Aside, Still, peers, server, rest, callers, promises, started, instance, Outside
<1>0. /\ app \in [Thread -> Call] /\ idPromise \in [Thread -> SUBSET Nat]
      /\ Net \in Thread
  BY ProxyServerAssumption DEF TypeOK, CallersTypeOK
<1>1. ASSUME ProxyInitialized(TRUE), Still PROVE Aside
  <2> DEFINE task == [op |-> "OnProxyInitialized", host |-> TRUE]
  <2>1. task \in Task /\ Ordinary(task)
    BY DEF Task, Ordinary, Registers
  <2> QED BY <1>1, <2>1 DEF ProxyInitialized
<1>2. ASSUME CallbackReturns, Still PROVE Aside
  BY <1>2 DEF CallbackReturns, InCallback
<1>3. ASSUME OnPropertyUpdated PROVE Aside
  <2> DEFINE task == [op  |-> "HandleMessage",
                      msg |-> CreatePropertyUpdated(app[Net].id, app[Net].properties)]
  <2>1. UpdatePropertiesReturns(Net)
    BY <1>3 DEF OnPropertyUpdated
  <2>2. app[Net].id \in Int /\ app[Net].properties \in PropertyList
    BY <1>0, <2>1 DEF UpdatePropertiesReturns, Call, Idle
  <2>3. task \in Task /\ Ordinary(task)
    BY <2>2, MessageTypes DEF Task, Ordinary, Registers
  <2>4. app'[Net].at # "registering" /\ app[Net].at # "registering"
    BY <1>0, <2>1 DEF UpdatePropertiesReturns, Idle
  <2> QED BY <1>3, <2>1, <2>3, <2>4 DEF OnPropertyUpdated, UpdatePropertiesReturns
<1>4. ASSUME NEW r \in Requester, NEW id \in ModuleId, NEW list \in UpdateList, PageApplies(r, id, list)
      PROVE  Aside
  <2> DEFINE json == CreatePropertiesUpdated(id, list)
             task == [op |-> "DoProcessJSRequest", json |-> json, to |-> r]
  <2>1. json \in Request
    BY ConstantsAssumption, MessageTypes DEF Request
  <2>2. task \in Task /\ Ordinary(task)
    BY <2>1 DEF Task, Ordinary, Registers
  <2>3. ProcessJSRequest(r, json)
    BY <1>4 DEF PageApplies
  <2>4. UNCHANGED loop \/ Post(task)
    BY <2>3 DEF ProcessJSRequest
  <2>5. UNCHANGED <<modules, idCounter, app, idPromise>>
    BY <2>3 DEF ProcessJSRequest
  <2>6. UNCHANGED <<server, foreign, link>>
    BY <1>4 DEF PageApplies
  <2> HIDE DEF json, task
  <2> QED BY <2>2, <2>4, <2>5, <2>6
<1>5. ASSUME NEW r \in Requester, RequestReturns(r), Still PROVE Aside
  BY <1>5 DEF RequestReturns
<1>6. ASSUME NEW t \in Thread \ {Net}, NEW module \in Definition, HostRegisters(t, module)
      PROVE  Aside
  <2> DEFINE task == [op |-> "DoRegisterModule", module |-> module, to |-> {t}]
  <2>1. task \in Task /\ Ordinary(task)
    BY ConstantsAssumption DEF Task, Ordinary, Registers
  <2>2. RegisterModule(t, module) /\ UNCHANGED <<server, peers, foreign>>
    BY <1>6 DEF HostRegisters
  <2>3. Post(task) /\ UNCHANGED <<modules, idCounter, idPromise>> /\ app'[Net] = app[Net]
    BY <1>0, <2>2 DEF RegisterModule
  <2> HIDE DEF task
  <2> QED BY <2>1, <2>2, <2>3
<1>7. ASSUME NEW t \in Thread \ {Net}, RegisterReturns(t), Still PROVE Aside
  BY <1>0, <1>7 DEF RegisterReturns
<1> QED BY <1>1, <1>2, <1>3, <1>4, <1>5, <1>6, <1>7

\* The peers only change their links.
LEMMA PeersAside ==
  ASSUME PeersTypeOK, NEW p \in Peer
  PROVE  /\ PeerRegisters(p) => Aside
         /\ \A id : PeerUnregisters(p, id) => Aside
         /\ \A id, list : PeerUpdates(p, id, list) => Aside
         /\ PeerReads(p) => Aside
         /\ PeerEnds(p) => Aside
<1> USE DEF Aside, vars, server, rest, PeersTypeOK
<1>1. \A msg : Sends(p, msg) => Aside
  BY DEF Sends
<1>2. PeerEnds(p) => Aside
  BY DEF PeerEnds
<1> QED BY <1>1, <1>2 DEF PeerRegisters, PeerUnregisters, PeerUpdates, PeerReads

-----------------------------------------------------------------------------
(* The messages on their way.                                              *)

\* A message in the queue of a peer is right.
IsAnnounced(p, msg) ==
  msg.type = "module_added" =>
    msg.id \in 0..MaxMessages /\ msg.properties = Remote(p, msg.id).properties

\* What was sent is on its way, or the rest of it is, or less of it after a loss.
LEMMA MessagesKept ==
  ASSUME PeersTypeOK, Announced, NEW p \in Peer, NEW q \in Peer
  PROVE  /\ UNCHANGED up =>
              /\ up'[q] \in Seq(PushedMsg)
              /\ \A i \in 1..Len(up'[q]) : IsAnnounced(q, up'[q][i])
         /\ up[p] # <<>> /\ up' = [up EXCEPT ![p] = Tail(@)] =>
              /\ up'[q] \in Seq(PushedMsg)
              /\ \A i \in 1..Len(up'[q]) : IsAnnounced(q, up'[q][i])
         /\ \A n \in 0..Len(up[p]) : up' = [up EXCEPT ![p] = SubSeq(@, 1, n)] =>
              /\ up'[q] \in Seq(PushedMsg)
              /\ \A i \in 1..Len(up'[q]) : IsAnnounced(q, up'[q][i])
         /\ \A msg \in PushedMsg :
              IsAnnounced(p, msg) /\ up' = [up EXCEPT ![p] = Append(@, msg)] =>
                /\ up'[q] \in Seq(PushedMsg)
                /\ \A i \in 1..Len(up'[q]) : IsAnnounced(q, up'[q][i])
<1>0. up \in [Peer -> Seq(PushedMsg)] /\ up[q] \in Seq(PushedMsg) /\ Len(up[q]) \in Nat
  BY LenProperties DEF PeersTypeOK
<1>1. \A i \in 1..Len(up[q]) : IsAnnounced(q, up[q][i])
  BY DEF Announced, IsAnnounced
<1>2. ASSUME up[p] # <<>>, up' = [up EXCEPT ![p] = Tail(@)], p = q
      PROVE  /\ up'[q] \in Seq(PushedMsg)
             /\ \A i \in 1..Len(up'[q]) : IsAnnounced(q, up'[q][i])
  <2>1. up'[q] = Tail(up[q])
    BY <1>0, <1>2
  <2>2. /\ Tail(up[q]) \in Seq(PushedMsg) /\ Len(Tail(up[q])) = Len(up[q]) - 1
        /\ \A i \in 1..Len(Tail(up[q])) : Tail(up[q])[i] = up[q][i + 1]
    BY <1>0, <1>2, HeadTailProperties
  <2> QED BY <1>0, <1>1, <2>1, <2>2
<1>3. ASSUME NEW n \in 0..Len(up[p]), up' = [up EXCEPT ![p] = SubSeq(@, 1, n)], p = q
      PROVE  /\ up'[q] \in Seq(PushedMsg)
             /\ \A i \in 1..Len(up'[q]) : IsAnnounced(q, up'[q][i])
  <2>1. up'[q] = SubSeq(up[q], 1, n) /\ n \in 0..Len(up[q])
    BY <1>0, <1>3
  <2>2. \A i \in 1..n : up[q][i] \in PushedMsg
    BY <1>0, <2>1, ElementOfSeq
  <2>3. /\ SubSeq(up[q], 1, n) \in Seq(PushedMsg) /\ Len(SubSeq(up[q], 1, n)) = n
        /\ \A i \in 1..n : SubSeq(up[q], 1, n)[i] = up[q][i]
    BY <1>0, <2>1, <2>2, SubSeqProperties
  <2> QED BY <1>0, <1>1, <2>1, <2>3
<1>4. ASSUME NEW msg \in PushedMsg, IsAnnounced(p, msg),
             up' = [up EXCEPT ![p] = Append(@, msg)], p = q
      PROVE  /\ up'[q] \in Seq(PushedMsg)
             /\ \A i \in 1..Len(up'[q]) : IsAnnounced(q, up'[q][i])
  <2>1. up'[q] = Append(up[q], msg)
    BY <1>0, <1>4
  <2>2. /\ Append(up[q], msg) \in Seq(PushedMsg) /\ Len(Append(up[q], msg)) = Len(up[q]) + 1
        /\ \A i \in 1..Len(up[q]) : Append(up[q], msg)[i] = up[q][i]
        /\ Append(up[q], msg)[Len(up[q]) + 1] = msg
    BY <1>0, AppendProperties
  <2> QED BY <1>0, <1>1, <1>4, <2>1, <2>2
<1>5. CASE p # q
  <2>1. (\E x : up' = [up EXCEPT ![p] = x]) => up'[q] = up[q]
    BY <1>0, <1>5
  <2> QED BY <1>0, <1>1, <2>1
<1>6. CASE p = q
  BY <1>0, <1>1, <1>2, <1>3, <1>4, <1>6
<1> QED BY <1>5, <1>6

\* The queues have their types and say what was registered.
LEMMA MessagesForAll ==
  ASSUME DOMAIN up' = Peer, up' = [p \in Peer |-> up'[p]],
         \A q \in Peer : /\ up'[q] \in Seq(PushedMsg)
                        /\ \A i \in 1..Len(up'[q]) : IsAnnounced(q, up'[q][i])
  PROVE  up' \in [Peer -> Seq(PushedMsg)] /\ Announced'
BY DEF Announced, IsAnnounced

\* Each step of a peer, and each of the network thread, keeps them.
LEMMA PeersStep ==
  ASSUME PeersTypeOK, Announced, NEW p \in Peer
  PROVE  /\ PeerRegisters(p) => PeersTypeOK' /\ Announced'
         /\ \A id \in 0..(counter[p] - 1) : PeerUnregisters(p, id) => PeersTypeOK' /\ Announced'
         /\ \A id \in 0..(counter[p] - 1), list \in UpdateList :
              PeerUpdates(p, id, list) => PeersTypeOK' /\ Announced'
         /\ PeerReads(p) => PeersTypeOK' /\ Announced'
         /\ PeerEnds(p) => PeersTypeOK' /\ Announced'
         /\ OnClientRead(p) => PeersTypeOK' /\ Announced'
         /\ OnClientClosed(p) => PeersTypeOK' /\ Announced'
<1>0. /\ link \in [Peer -> {"open", "lost", "closed"}] /\ up \in [Peer -> Seq(PushedMsg)]
      /\ counter \in [Peer -> Nat] /\ messages \in 0..MaxMessages /\ MaxMessages \in Nat
      /\ \A q \in Peer : counter[q] <= messages
  BY ProxyServerAssumption DEF PeersTypeOK
<1> DEFINE HostKept == up' \in [Peer -> Seq(PushedMsg)] /\ Announced'
<1>1. ASSUME NEW msg \in PushedMsg, IsAnnounced(p, msg), Sends(p, msg)
      PROVE  HostKept /\ UNCHANGED link /\ messages' = messages + 1 /\ messages' \in 0..MaxMessages
  <2>1. /\ up' = [up EXCEPT ![p] = Append(@, msg)] /\ UNCHANGED link
        /\ messages' = messages + 1 /\ messages < MaxMessages
    BY <1>1 DEF Sends
  <2>2. DOMAIN up' = Peer /\ up' = [q \in Peer |-> up'[q]]
    BY <1>0, <2>1
  <2>3. HostKept
    BY <1>1, <2>1, <2>2, MessagesKept, MessagesForAll
  <2> QED BY <1>0, <2>1, <2>3
<1>2. ASSUME \/ up[p] # <<>> /\ up' = [up EXCEPT ![p] = Tail(@)]
             \/ \E n \in 0..Len(up[p]) : up' = [up EXCEPT ![p] = SubSeq(@, 1, n)]
      PROVE  HostKept
  <2>1. DOMAIN up' = Peer /\ up' = [q \in Peer |-> up'[q]]
    BY <1>0, <1>2
  <2> QED BY <1>2, <2>1, MessagesKept, MessagesForAll
<1>3. HostKept /\ UNCHANGED <<link, counter, messages>> => PeersTypeOK'
  BY <1>0 DEF PeersTypeOK
<1>4. HostKept /\ link' \in [Peer -> {"open", "lost", "closed"}] /\ UNCHANGED <<counter, messages>>
        => PeersTypeOK'
  BY <1>0 DEF PeersTypeOK
<1>5. ASSUME PeerRegisters(p)
      PROVE  HostKept /\ PeersTypeOK'
  <2> DEFINE module == Remote(p, counter[p])
             msg == CreateModuleAdded(counter[p], module)
  <2>1. messages < MaxMessages
    BY <1>5 DEF PeerRegisters, Sends
  <2>2. counter[p] \in 0..MaxMessages /\ counter[p] \in Int
    BY <1>0, <2>1
  <2>3. module \in ModuleType
    BY <2>2, ProxyServerAssumption
  <2>4. msg \in PushedMsg /\ IsAnnounced(p, msg)
    BY <2>2, <2>3, MessageTypes DEF CreateModuleAdded, IsAnnounced
  <2>5. Sends(p, msg) /\ counter' = [counter EXCEPT ![p] = @ + 1]
    BY <1>5 DEF PeerRegisters
  <2> HIDE DEF msg
  <2>6. HostKept /\ UNCHANGED link /\ messages' = messages + 1 /\ messages' \in 0..MaxMessages
    BY <1>1, <2>4, <2>5
  <2>7. /\ counter' \in [Peer -> Nat]
        /\ \A q \in Peer : counter'[q] <= messages'
    BY <1>0, <2>5, <2>6
  <2> HIDE DEF HostKept
  <2>8. up' \in [Peer -> Seq(PushedMsg)]
    BY <2>6 DEF HostKept
  <2> QED BY <1>0, <2>6, <2>7, <2>8 DEF PeersTypeOK
<1>6. ASSUME NEW msg \in PushedMsg, IsAnnounced(p, msg), Sends(p, msg), UNCHANGED counter
      PROVE  HostKept /\ PeersTypeOK'
  <2>1. HostKept /\ UNCHANGED link /\ messages' = messages + 1 /\ messages' \in 0..MaxMessages
    BY <1>1, <1>6
  <2>2. \A q \in Peer : counter'[q] <= messages'
    BY <1>0, <1>6, <2>1
  <2>3. up' \in [Peer -> Seq(PushedMsg)]
    BY <2>1
  <2> HIDE DEF HostKept
  <2> QED BY <1>0, <1>6, <2>1, <2>2, <2>3 DEF PeersTypeOK
<1>7. ASSUME NEW id \in 0..(counter[p] - 1), PeerUnregisters(p, id)
      PROVE  HostKept /\ PeersTypeOK'
  <2>1. CreateModuleRemoved(id) \in PushedMsg /\ IsAnnounced(p, CreateModuleRemoved(id))
    BY MessageTypes DEF IsAnnounced, CreateModuleRemoved
  <2> QED BY <1>6, <1>7, <2>1 DEF PeerUnregisters
<1>8. ASSUME NEW id \in 0..(counter[p] - 1), NEW list \in UpdateList, PeerUpdates(p, id, list)
      PROVE  HostKept /\ PeersTypeOK'
  <2>1. /\ CreatePropertyUpdated(id, list) \in PushedMsg
        /\ IsAnnounced(p, CreatePropertyUpdated(id, list))
    BY ConstantsAssumption, MessageTypes DEF IsAnnounced, CreatePropertyUpdated
  <2> QED BY <1>6, <1>8, <2>1 DEF PeerUpdates
<1>9. ASSUME PeerReads(p) \/ OnClientClosed(p)
      PROVE  HostKept /\ PeersTypeOK'
  <2>1. UNCHANGED up /\ DOMAIN up' = Peer /\ up' = [q \in Peer |-> up'[q]]
    BY <1>0, <1>9 DEF PeerReads, OnClientClosed
  <2>2. HostKept
    BY <2>1, MessagesKept, MessagesForAll
  <2>3. /\ link' \in [Peer -> {"open", "lost", "closed"}]
        /\ UNCHANGED <<counter, messages>>
    BY <1>0, <1>9 DEF PeerReads, OnClientClosed
  <2> QED BY <1>4, <2>2, <2>3
<1>10. ASSUME PeerEnds(p)
       PROVE  HostKept /\ PeersTypeOK'
  <2>1. /\ link' \in [Peer -> {"open", "lost", "closed"}]
        /\ UNCHANGED <<counter, messages>>
        /\ \E n \in 0..Len(up[p]) : up' = [up EXCEPT ![p] = SubSeq(@, 1, n)]
    BY <1>0, <1>10 DEF PeerEnds
  <2> HIDE DEF HostKept
  <2> QED BY <1>2, <1>4, <2>1
<1>11. ASSUME OnClientRead(p)
       PROVE  HostKept /\ PeersTypeOK'
  <2>1. up[p] # <<>> /\ up' = [up EXCEPT ![p] = Tail(@)] /\ UNCHANGED <<link, counter, messages>>
    BY <1>11 DEF OnClientRead
  <2> HIDE DEF HostKept
  <2> QED BY <1>2, <1>3, <2>1
<1> HIDE DEF HostKept
<1>12. HostKept => Announced'
  BY DEF HostKept
<1> QED BY <1>5, <1>7, <1>8, <1>9, <1>10, <1>11, <1>12

-----------------------------------------------------------------------------
(* The module thread.                                                      *)

\* A module is fixed as long as it is registered.
LEMMA FixedKept ==
  ASSUME TypeOK, RunTask, NEW id \in DOMAIN modules \cap DOMAIN modules',
         NEW module \in ModuleType, Fixed(modules[id].properties, module)
  PROVE  Fixed(modules'[id].properties, module)
<1>1. id # idCounter /\ modules[id].properties \in Seq(Property)
  BY DEF TypeOK, ModulesTypeOK, ModuleType
<1>2. \/ modules'[id] = modules[id]
      \/ \E list \in PropertyList :
           modules'[id].properties = SavedProperties(modules[id].properties, list)
  BY <1>1, TaskModules
<1> QED BY <1>1, <1>2, SavedFixed

\* A network thread that is not inside RegisterModule awaits nothing; one that is
\* awaits its task or holds the promise, and knows whose module it adds.
LEMMA NetAwaits ==
  ASSUME TypeOK, RegistrationsAccounted, ServerInv
  PROVE  /\ reading.at # "adding" =>
              idPromise[Net] = {} /\ \A task \in Tasks : ~Registers(task)
         /\ idPromise[Net] # {} => \A task \in Tasks : ~Registers(task)
         /\ reading.at = "adding" => reading.client \in Peer
<1>1. Accounted(Net)
  BY ProxyServerAssumption, AccountedForAll
<1>2. app[Net].at = "registering" <=> reading.at = "adding"
  BY DEF ServerInv, Adding
<1>3. reading.at = "adding" => reading.client \in Peer
  BY DEF ServerInv, ServerTypeOK, Idle
<1> QED BY <1>1, <1>2, <1>3, RegistrationsQueued DEF Accounted

LEMMA RunsKeeps ==
  ASSUME TypeOK, RegistrationsAccounted, ServerInv, Runs
  PROVE  ServerInv'
<1>0. /\ RunTask /\ UNCHANGED <<server, link>> /\ Net \in Thread
      /\ foreign' = (foreign \cup idPromise'[Net]) \cap DOMAIN modules'
  BY ProxyServerAssumption DEF Runs
<1> USE DEF server
<1>1. loop # <<>> /\ loop' = Tail(loop) /\ app' = app
  BY <1>0 DEF RunTask, OnProxyInitialized, DoRegisterModule, UnregisterModule, SaveUpdate,
       PushUpdate, DoProcessJSRequest, PassPeerUpdate, Takes, callers
<1>2. Tasks = {Head(loop)} \cup Tasks' /\ Head(loop) \in Task
  BY <1>1, TasksOf
<1>3. \A id : Queued(id)' => Queued(id)
  BY <1>2 DEF Queued
<1>4. /\ idCounter \in Nat /\ DOMAIN modules \subseteq 0..(idCounter - 1)
      /\ idCounter' \in Nat /\ idCounter <= idCounter'
  BY <1>0, TaskModules DEF TypeOK, ModulesTypeOK
<1>5. DOMAIN remoteModules \subseteq 0..(idCounter - 1)
  BY DEF ServerInv, ServerTypeOK
<1>6. ServerTypeOK'
  BY <1>0, <1>4, <1>5 DEF ServerInv, ServerTypeOK
<1>7. \A id \in DOMAIN modules : ~Queued(id) => id \in DOMAIN modules'
  BY <1>0, <1>2, TaskModules DEF Queued
<1>8. \A id \in DOMAIN remoteModules :
        id \in foreign /\ id \in DOMAIN modules /\ id \in DOMAIN modules' /\ ~Queued(id)
  BY <1>7 DEF ServerInv, Found
<1>9. Owners'
  <2> SUFFICES ASSUME NEW id \in DOMAIN remoteModules
               PROVE  /\ remoteModules[id].remote \in 0..MaxMessages
                      /\ Fixed(modules'[id].properties,
                               Remote(remoteModules[id].client, remoteModules[id].remote))
    BY <1>0 DEF Owners
  <2>1. /\ remoteModules[id].remote \in 0..MaxMessages /\ remoteModules[id].client \in Peer
        /\ Fixed(modules[id].properties,
                 Remote(remoteModules[id].client, remoteModules[id].remote))
    BY DEF ServerInv, ServerTypeOK, Owners
  <2>2. Remote(remoteModules[id].client, remoteModules[id].remote) \in ModuleType
    BY <2>1, ProxyServerAssumption
  <2> QED BY <1>0, <1>8, <2>1, <2>2, FixedKept
<1>10. ASSUME NEW id \in idPromise'[Net]
       PROVE  \/ /\ DoRegisterModule /\ Registers(Head(loop)) /\ id = idCounter
                 /\ idPromise'[Net] = {id} /\ idCounter' = idCounter + 1
                 /\ idPromise[Net] = {} /\ id \in DOMAIN modules'
                 /\ modules'[id] = Head(loop).module
              \/ idPromise'[Net] = idPromise[Net] /\ id \in idPromise[Net]
  <2>1. CASE DoRegisterModule /\ Net \in Head(loop).to
    <3>1. Registers(Head(loop)) /\ Head(loop) \in Tasks
      BY <1>2, <2>1 DEF Registers, DoRegisterModule, Takes
    <3>2. idPromise[Net] = {}
      BY <3>1, NetAwaits
    <3>3. /\ idPromise'[Net] = {idCounter} /\ idCounter' = idCounter + 1
          /\ idCounter \in DOMAIN modules' /\ idCounter \notin DOMAIN modules
      BY <1>0, <1>4, <2>1, TaskModules
    <3>4. modules'[idCounter] = Head(loop).module
      BY <1>0, <3>3, TaskModules
    <3> QED BY <2>1, <3>1, <3>2, <3>3, <3>4
  <2>2. CASE ~(DoRegisterModule /\ Net \in Head(loop).to)
    BY <1>0, <2>2, TaskModules
  <2> QED BY <2>1, <2>2
<1>11. Adding'
  <2>1. app'[Net].at = "registering" <=> reading'.at = "adding"
    BY <1>0, <1>1 DEF ServerInv, Adding
  <2>2. \A task \in Tasks' : Registers(task) => IsRead(task.module)'
    BY <1>0, <1>2 DEF ServerInv, Adding, IsRead
  <2>3. ASSUME NEW id \in idPromise'[Net]
        PROVE  /\ idPromise'[Net] = {id} /\ id < idCounter'
               /\ id \in DOMAIN modules' => IsRead(modules[id])'
    <3>1. CASE DoRegisterModule /\ Registers(Head(loop)) /\ id = idCounter
               /\ idPromise'[Net] = {id} /\ idCounter' = idCounter + 1
               /\ modules'[id] = Head(loop).module
      <4>1. IsRead(Head(loop).module)
        BY <1>2, <3>1 DEF ServerInv, Adding
      <4> QED BY <1>0, <1>4, <3>1, <4>1 DEF IsRead
    <3>2. CASE idPromise'[Net] = idPromise[Net] /\ id \in idPromise[Net]
      <4>1. idPromise'[Net] = {id} /\ id < idCounter
        BY <3>2 DEF ServerInv, Adding
      <4>2. id \in DOMAIN modules /\ IsRead(modules[id])
        BY <3>2 DEF ServerInv, Adding, Found
      <4>3. reading.client \in Peer
        BY <3>2, NetAwaits
      <4>4. Remote(reading.client, reading.remote) \in ModuleType
        BY <4>2, <4>3, ProxyServerAssumption DEF IsRead
      <4>5. id \in DOMAIN modules' => IsRead(modules[id])'
        BY <1>0, <4>2, <4>4, FixedKept DEF IsRead
      <4>6. id < idCounter'
        BY <1>4, <4>1, <4>2
      <4> QED BY <4>1, <4>5, <4>6
    <3> QED BY <1>10, <3>1, <3>2
  <2> QED BY <2>1, <2>2, <2>3 DEF Adding
<1>12. \A task \in Tasks' : task.op = "UnregisterModule" => task.id < idCounter'
  <2>1. \A task \in Tasks : task.op = "UnregisterModule" => task.id < idCounter /\ task.id \in Int
    BY TasksOf DEF ServerInv, Found, Task
  <2> QED BY <1>2, <1>4, <2>1
<1>13. \A id \in idPromise'[Net] :
         /\ id \in DOMAIN modules' /\ ~Queued(id)' /\ id \notin DOMAIN remoteModules
  <2> TAKE id \in idPromise'[Net]
  <2>1. CASE id = idCounter /\ id \in DOMAIN modules'
    <3>1. ~Queued(idCounter)
      BY <1>4 DEF ServerInv, Found, Queued, Removal
    <3> QED BY <1>3, <1>4, <1>5, <2>1, <3>1
  <2>2. CASE id \in idPromise[Net]
    BY <1>3, <1>7, <2>2 DEF ServerInv, Found
  <2> QED BY <1>10, <2>1, <2>2
<1>14. \A id \in foreign' :
         id \in DOMAIN remoteModules \/ Queued(id)' \/ id \in idPromise'[Net]
  <2> SUFFICES ASSUME NEW id \in foreign, id \in DOMAIN modules'
               PROVE  id \in DOMAIN remoteModules \/ Queued(id)' \/ id \in idPromise'[Net]
    BY <1>0
  <2>0. id \in DOMAIN modules
    BY DEF ServerInv, Found
  <2>1. CASE Queued(id)
    <3>1. Head(loop) # Removal(id)
      BY <1>0, <2>0, TaskModules
    <3> QED BY <1>2, <2>1, <3>1 DEF Queued
  <2>2. CASE id \in idPromise[Net]
    <3>1. ~Registers(Head(loop))
      BY <1>2, <2>2, NetAwaits
    <3>2. DoRegisterModule => Net \notin Head(loop).to
      BY <3>1 DEF Registers, DoRegisterModule, Takes
    <3> QED BY <1>0, <2>2, <3>2, TaskModules
  <2> QED BY <2>1, <2>2 DEF ServerInv, Found
<1>15. Found'
  BY <1>0, <1>3, <1>8, <1>12, <1>13, <1>14 DEF Found
<1>16. Closing'
  BY <1>0 DEF ServerInv, Closing
<1> QED BY <1>6, <1>9, <1>11, <1>15, <1>16 DEF ServerInv

-----------------------------------------------------------------------------
(* The network thread.                                                     *)

\* AddModule: the module the promise names enters the map (ProxyServer.cpp:100-101).
LEMMA OnModuleAddedKeeps ==
  ASSUME TypeOK, RegistrationsAccounted, ServerInv, OnModuleAdded
  PROVE  ServerInv'
<1>0. /\ reading.at = "adding" /\ reading' = Idle /\ app'[Net] = Idle /\ idPromise'[Net] = {}
      /\ UNCHANGED <<loop, modules, idCounter, foreign, link>>
  BY ProxyServerAssumption DEF OnModuleAdded, RegisterReturns, Outside, instance, started,
     peers, rest, TypeOK, CallersTypeOK
<1>1. PICK id \in idPromise[Net] : AddModule(id, reading.remote, reading.client)
  BY DEF OnModuleAdded
<1>2. /\ idPromise[Net] = {id} /\ id < idCounter
      /\ id \in foreign /\ id \in DOMAIN modules /\ IsRead(modules[id])
      /\ ~Queued(id) /\ id \notin DOMAIN remoteModules
  BY <1>1 DEF ServerInv, Adding, Found
<1>3. /\ DOMAIN remoteModules' = DOMAIN remoteModules \cup {id}
      /\ remoteModules'[id] = Entry(reading.remote, reading.client)
      /\ \A i \in DOMAIN remoteModules : remoteModules'[i] = remoteModules[i]
  BY <1>1, <1>2 DEF AddModule
<1>4. UNCHANGED Tasks /\ \A i : Queued(i)' <=> Queued(i)
  BY <1>0, TasksOf DEF Queued
<1>5. reading.client \in Peer /\ \A task \in Tasks : ~Registers(task)
  BY <1>0, <1>2, NetAwaits
<1>6. ServerTypeOK'
  <2>1. id \in 0..(idCounter - 1)
    BY <1>2 DEF TypeOK, ModulesTypeOK
  <2>2. Entry(reading.remote, reading.client) \in [remote : Int, client : Peer]
    BY <1>0, <1>5 DEF ServerInv, ServerTypeOK, Entry, Idle
  <2> QED BY <1>0, <1>3, <2>1, <2>2 DEF ServerInv, ServerTypeOK
<1>7. Adding'
  BY <1>0, <1>4, <1>5 DEF Adding, Idle
<1>8. Found'
  BY <1>0, <1>2, <1>3, <1>4 DEF ServerInv, Found
<1>9. Closing'
  <2>1. \A i \in DOMAIN remoteModules : link[remoteModules[i].client] # "closed"
    BY <1>0 DEF ServerInv, Closing
  <2>2. link[reading.client] # "closed"
    BY <1>0 DEF ServerInv, Closing
  <2> QED BY <1>0, <1>3, <2>1, <2>2 DEF Closing, Entry, Idle
<1>10. Owners'
  BY <1>0, <1>2, <1>3 DEF ServerInv, Owners, Entry, IsRead
<1> QED BY <1>6, <1>7, <1>8, <1>9, <1>10 DEF ServerInv

\* The network thread removes a module: UnregisterModule is queued and the entry leaves
\* the map; nothing for an id the map does not have (ProxyServer.cpp:55-57,104-108).
LEMMA RemovalKeeps ==
  ASSUME TypeOK, RegistrationsAccounted, ServerInv,
         NEW id \in DOMAIN remoteModules \cup {NoId},
         CallUnregisterModule(Net, id), RemoveModule(id),
         UNCHANGED <<reading, foreign, link>>
  PROVE  ServerInv'
<1>0. /\ app[Net] = Idle /\ UNCHANGED <<modules, idCounter, app, idPromise>>
      /\ Post(Removal(id))
  BY DEF CallUnregisterModule, Outside, instance, started, callers, promises, Removal
<1>1. /\ DOMAIN remoteModules' = DOMAIN remoteModules \ {id}
      /\ \A i \in DOMAIN remoteModules' : remoteModules'[i] = remoteModules[i]
  BY DEF RemoveModule, Restrict
<1>2. idCounter \in Nat /\ id \in Int /\ id < idCounter
  BY DEF TypeOK, ModulesTypeOK, ServerInv, ServerTypeOK, NoId
<1>3. Removal(id) \in Task
  BY <1>2 DEF Task, Removal
<1>4. Tasks' = Tasks \cup {Removal(id)}
  BY <1>0, <1>3, TasksOf
<1>5. \A i : Queued(i)' <=> Queued(i) \/ i = id
  BY <1>4 DEF Queued, Removal
<1>6. reading.at # "adding"
  BY <1>0 DEF ServerInv, Adding, Idle
<1>7. idPromise[Net] = {} /\ \A task \in Tasks' : ~Registers(task)
  BY <1>4, <1>6, NetAwaits DEF Registers, Removal
<1>8. ServerTypeOK'
  BY <1>0, <1>1 DEF ServerInv, ServerTypeOK
<1>9. Adding'
  BY <1>0, <1>7 DEF ServerInv, Adding
<1>10. Found'
  <2>1. \A task \in Tasks' : task.op = "UnregisterModule" => task.id < idCounter
    BY <1>2, <1>4 DEF ServerInv, Found, Removal
  <2> QED BY <1>0, <1>1, <1>5, <1>7, <2>1 DEF ServerInv, Found
<1>11. Closing' /\ Owners'
  BY <1>0, <1>1 DEF ServerInv, Closing, Owners
<1> QED BY <1>8, <1>9, <1>10, <1>11 DEF ServerInv

LEMMA RemoveClientsModulesKeeps ==
  ASSUME TypeOK, RegistrationsAccounted, ServerInv, RemoveClientsModules
  PROVE  ServerInv'
<1> DEFINE p == reading.client
           ids == ModulesOf(p)
<1>0. UNCHANGED <<foreign, link>> /\ reading.at = "closing"
  BY DEF RemoveClientsModules, peers, rest
<1>1. CASE ids # {}
  <2>1. Least(ids) \in DOMAIN remoteModules
    BY <1>1, LookedUp DEF ServerInv, ModulesOf
  <2>2. /\ CallUnregisterModule(Net, Least(ids)) /\ RemoveModule(Least(ids))
        /\ UNCHANGED reading
    BY <1>1 DEF RemoveClientsModules
  <2> QED BY <1>0, <2>1, <2>2, RemovalKeeps
<1>2. CASE ids = {}
  <2>1. reading' = Idle /\ UNCHANGED <<vars, remoteModules>>
    BY <1>2 DEF RemoveClientsModules
  <2>2. UNCHANGED Tasks /\ UNCHANGED <<modules, idCounter, app, idPromise>>
    BY <2>1, TasksOf DEF vars
  <2>3. idPromise[Net] = {} /\ \A task \in Tasks : ~Registers(task)
    BY <1>0, NetAwaits
  <2>4. \A id \in DOMAIN remoteModules : link[remoteModules[id].client] # "closed"
    BY <1>2 DEF ServerInv, Closing, ModulesOf
  <2>5. ServerTypeOK' /\ Owners'
    BY <2>1, <2>2 DEF ServerInv, ServerTypeOK, Owners
  <2>6. Adding'
    BY <1>0, <2>1, <2>2, <2>3 DEF ServerInv, Adding, Idle
  <2>7. Found'
    BY <1>0, <2>1, <2>2 DEF ServerInv, Found, Queued
  <2>8. Closing'
    BY <1>0, <2>1, <2>4 DEF Closing, Idle
  <2> QED BY <2>5, <2>6, <2>7, <2>8 DEF ServerInv
<1> QED BY <1>1, <1>2

\* The peer a message comes from is not closed: neither is any with a module here.
LEMMA NoneClosed ==
  ASSUME ServerInv, reading = Idle
  PROVE  \A id \in DOMAIN remoteModules : link[remoteModules[id].client] # "closed"
BY DEF ServerInv, Closing, Idle

\* A module is the one it was registered as.
LEMMA FixedAtFirst ==
  ASSUME NEW module \in ModuleType, NEW properties, properties = module.properties
  PROVE  Fixed(properties, module)
<1>1. \A k \in 1..Len(module.properties) : module.properties[k] \in Property
  BY ElementOfSeq DEF ModuleType
<1> QED BY <1>1 DEF Fixed, Property

LEMMA OnClientReadKeeps ==
  ASSUME TypeOK, RegistrationsAccounted, ServerInv, PeersTypeOK, Announced,
         NEW p \in Peer, OnClientRead(p)
  PROVE  ServerInv'
<1>a. PICK json : json = Head(up[p])
  OBVIOUS
<1>b. PICK id : id = LocalIdFromRemote(json.id, p)
  OBVIOUS
<1>0. /\ reading = Idle /\ link[p] # "closed" /\ up[p] # <<>> /\ UNCHANGED link
  BY DEF OnClientRead
<1>1. id \in DOMAIN remoteModules \cup {NoId} /\ id \in Int
  <2>1. id \in DOMAIN remoteModules \cup {NoId}
    BY <1>b, LookedUp DEF ServerInv
  <2>2. DOMAIN remoteModules \subseteq Nat
    BY LookedUp DEF ServerInv
  <2> QED BY <2>1, <2>2 DEF NoId
<1>2. /\ json.id \in Int
      /\ json.type = "module_added" => ToModule(json) \in ModuleType
      /\ json.type = "property_update" => json.properties \in PropertyList
  BY <1>0, <1>a, ReadTypes
<1>3. json.type = "module_added" =>
        json.id \in 0..MaxMessages /\ json.properties = Remote(p, json.id).properties
  <2>1. json = up[p][1] /\ 1 \in 1..Len(up[p])
    BY <1>0, <1>a, HeadTailProperties, EmptySeq, LenProperties DEF PeersTypeOK
  <2> QED BY <2>1 DEF Announced
<1>4. \/ /\ json.type = "module_added" /\ RegisterModule(Net, ToModule(json))
         /\ reading' = [at |-> "adding", remote |-> json.id, client |-> p]
         /\ UNCHANGED <<remoteModules, foreign>>
      \/ /\ CallUnregisterModule(Net, id) /\ RemoveModule(id)
         /\ UNCHANGED <<reading, foreign>>
      \/ /\ json.type = "property_update" /\ UpdateProperties(Net, id, json.properties)
         /\ UNCHANGED <<server, foreign>>
  BY <1>a, <1>b DEF OnClientRead, rest
<1>5. ASSUME json.type = "module_added", RegisterModule(Net, ToModule(json)),
             reading' = [at |-> "adding", remote |-> json.id, client |-> p],
             UNCHANGED <<remoteModules, foreign>>
      PROVE  ServerInv'
  <2> DEFINE module == ToModule(json)
             task == [op |-> "DoRegisterModule", module |-> module, to |-> {Net}]
  <2>1. /\ UNCHANGED <<modules, idCounter, idPromise>>
        /\ app'[Net] = [at |-> "registering"] /\ Post(task)
    BY <1>5, ProxyServerAssumption DEF RegisterModule, Outside, instance, started, promises,
       TypeOK, CallersTypeOK
  <2>2. task \in Task
    BY <1>2, <1>5, ProxyServerAssumption DEF Task
  <2>3. Tasks' = Tasks \cup {task}
    BY <2>1, <2>2, TasksOf
  <2>4. idPromise[Net] = {} /\ \A k \in Tasks : ~Registers(k)
    BY <1>0, NetAwaits DEF Idle
  <2>5. IsRead(task.module)'
    <3>1. Remote(p, json.id) \in ModuleType
      BY <1>3, <1>5, ProxyServerAssumption
    <3>2. module.properties = Remote(p, json.id).properties
      BY <1>3, <1>5 DEF ToModule
    <3>3. Fixed(module.properties, Remote(p, json.id))
      BY <3>1, <3>2, FixedAtFirst
    <3>4. task.module = module
      OBVIOUS
    <3> HIDE DEF module, task
    <3>5. /\ reading'.remote = json.id /\ reading'.client = p
          /\ Fixed(task.module.properties, Remote(p, json.id))
      BY <1>5, <3>3, <3>4
    <3> QED BY <1>3, <1>5, <3>5 DEF IsRead
  <2>6. task.op = "DoRegisterModule"
    OBVIOUS
  <2> HIDE DEF task
  <2>7. \A i : Queued(i)' <=> Queued(i)
    BY <2>3, <2>6 DEF Queued, Removal
  <2>8. ServerTypeOK' /\ Owners'
    BY <1>2, <1>5, <2>1 DEF ServerInv, ServerTypeOK, Owners
  <2>9. Adding'
    <3>1. app'[Net].at = "registering" <=> reading'.at = "adding"
      BY <1>5, <2>1
    <3>2. \A k \in Tasks' : Registers(k) => IsRead(k.module)'
      BY <2>3, <2>4, <2>5
    <3>3. idPromise'[Net] = {}
      BY <2>1, <2>4
    <3> QED BY <3>1, <3>2, <3>3 DEF Adding
  <2>10. Found'
    BY <1>5, <2>1, <2>3, <2>6, <2>7 DEF ServerInv, Found
  <2>11. Closing'
    BY <1>0, <1>5, NoneClosed DEF Closing
  <2> QED BY <2>8, <2>9, <2>10, <2>11 DEF ServerInv
<1>6. ASSUME CallUnregisterModule(Net, id), RemoveModule(id), UNCHANGED <<reading, foreign>>
      PROVE  ServerInv'
  BY <1>0, <1>1, <1>6, RemovalKeeps
<1>7. ASSUME json.type = "property_update", UpdateProperties(Net, id, json.properties),
             UNCHANGED <<server, foreign>>
      PROVE  ServerInv'
  <2> DEFINE task == [op |-> "SavePropertiesList", id |-> id, properties |-> json.properties]
  <2>1. task \in Task /\ Ordinary(task)
    BY <1>1, <1>2, <1>7 DEF Task, Ordinary, Registers
  <2>2. /\ UNCHANGED <<modules, idCounter, idPromise>> /\ Post(task)
        /\ app[Net].at # "registering" /\ app'[Net].at # "registering"
    BY <1>7, ProxyServerAssumption DEF UpdateProperties, Outside, instance, started, promises,
       TypeOK, CallersTypeOK, Idle
  <2> HIDE DEF task
  <2> QED BY <1>0, <1>7, <2>1, <2>2, AsideKeeps DEF Aside
<1> QED BY <1>4, <1>5, <1>6, <1>7

LEMMA OnClientClosedKeeps ==
  ASSUME TypeOK, RegistrationsAccounted, ServerInv, PeersTypeOK, NEW p \in Peer,
         OnClientClosed(p)
  PROVE  ServerInv'
<1>0. /\ reading = Idle /\ link' = [link EXCEPT ![p] = "closed"]
      /\ reading' = [at |-> "closing", client |-> p]
      /\ UNCHANGED <<vars, remoteModules, foreign>>
  BY DEF OnClientClosed, rest
<1>1. UNCHANGED Tasks /\ UNCHANGED <<modules, idCounter, app, idPromise>>
  BY <1>0, TasksOf DEF vars
<1>2. idPromise[Net] = {} /\ \A task \in Tasks : ~Registers(task)
  BY <1>0, NetAwaits DEF Idle
<1>3. ServerTypeOK' /\ Owners'
  BY <1>0, <1>1 DEF ServerInv, ServerTypeOK, Owners
<1>4. Adding'
  BY <1>0, <1>1, <1>2 DEF ServerInv, Adding, Idle
<1>5. Found'
  BY <1>0, <1>1 DEF ServerInv, Found, Queued
<1>6. Closing'
  <2>1. \A id \in DOMAIN remoteModules :
          link[remoteModules[id].client] # "closed" /\ remoteModules[id].client \in Peer
    BY <1>0, NoneClosed DEF ServerInv, ServerTypeOK
  <2>2. \A q \in Peer : link'[q] = "closed" => q = p \/ link[q] = "closed"
    BY <1>0 DEF PeersTypeOK
  <2> QED BY <1>0, <2>1, <2>2 DEF Closing
<1> QED BY <1>3, <1>4, <1>5, <1>6 DEF ServerInv

-----------------------------------------------------------------------------
(* The theorems.                                                           *)

LEMMA ProxyInvInit == ProxyInit => ProxyInv
<1> SUFFICES ASSUME ProxyInit PROVE ProxyInv
  OBVIOUS
<1> USE DEF ProxyInit
<1>1. TypeOK
  BY TypeInit
<1>2. RegistrationsAccounted
  BY DEF Init, RegistrationsAccounted, RegistrationsOf, Idle
<1>3. DOMAIN remoteModules = {}
  <2>1. <<>> \in Seq(Int) /\ Len(<<>>) = 0
    BY EmptySeq
  <2>2. DOMAIN <<>> = 1..0
    BY <2>1, LenProperties
  <2> QED BY <2>2
<1>4. Tasks = {}
  BY NoTasks DEF Init
<1>5. app[Net] = Idle /\ idPromise[Net] = {}
  BY ProxyServerAssumption DEF Init
<1>6. ServerTypeOK
  BY <1>3 DEF ServerTypeOK
<1>7. PeersTypeOK
  BY ProxyServerAssumption, EmptySeq DEF PeersTypeOK
<1>8. Announced
  BY EmptySeq DEF Announced
<1>9. Adding /\ Found /\ Closing /\ Owners
  BY <1>3, <1>4, <1>5 DEF Adding, Found, Closing, Owners, Idle
<1> QED BY <1>1, <1>2, <1>6, <1>7, <1>8, <1>9 DEF ProxyInv

LEMMA ProxyInvStep == ProxyInv /\ [ProxyNext]_proxyVars => ProxyInv'
<1> SUFFICES ASSUME ProxyInv, [ProxyNext]_proxyVars PROVE ProxyInv'
  OBVIOUS
<1>0. TypeOK /\ RegistrationsAccounted /\ ServerInv /\ PeersTypeOK /\ Announced
  BY DEF ProxyInv, ServerInv
<1>1. TypeOK' /\ RegistrationsAccounted'
  BY <1>0, ProxyStepIsOpen, TypeStep, RegistrationsStep DEF ServerInv
<1> DEFINE HostKept == ServerInv' /\ PeersTypeOK' /\ Announced'
<1>2. Aside /\ UNCHANGED <<link, up, counter, messages>> => HostKept
  BY <1>0, AsideKeeps, PeersKept
<1>3. ASSUME \/ ProxyInitialized(TRUE) /\ Still
             \/ CallbackReturns /\ Still
             \/ OnPropertyUpdated
      PROVE  HostKept
  <2>1. Aside
    BY <1>0, <1>3, HostKeeps
  <2>2. UNCHANGED <<link, up, counter, messages>>
    BY <1>3 DEF Still, OnPropertyUpdated, peers
  <2> QED BY <1>2, <2>1, <2>2
<1>4. ASSUME Runs PROVE HostKept
  <2>1. UNCHANGED <<link, up, counter, messages>>
    BY <1>4 DEF Runs
  <2> QED BY <1>0, <1>4, <2>1, RunsKeeps, PeersKept
<1>5. ASSUME OnModuleAdded \/ RemoveClientsModules PROVE HostKept
  <2>1. UNCHANGED <<link, up, counter, messages>>
    BY <1>5 DEF OnModuleAdded, RemoveClientsModules, peers
  <2> QED BY <1>0, <1>5, <2>1, OnModuleAddedKeeps, RemoveClientsModulesKeeps, PeersKept
<1>6. ASSUME NEW p \in Peer, OnClientRead(p) \/ OnClientClosed(p)
      PROVE  HostKept
  BY <1>0, <1>6, OnClientReadKeeps, OnClientClosedKeeps, PeersStep
<1>7. ASSUME NEW p \in Peer,
             \/ PeerRegisters(p)
             \/ \E id \in 0..(counter[p] - 1) : PeerUnregisters(p, id)
             \/ \E id \in 0..(counter[p] - 1), list \in UpdateList : PeerUpdates(p, id, list)
             \/ PeerReads(p) \/ PeerEnds(p)
      PROVE  HostKept
  <2>1. Aside
    BY <1>0, <1>7, PeersAside
  <2>2. PeersTypeOK' /\ Announced'
    BY <1>0, <1>7, PeersStep
  <2> QED BY <1>0, <2>1, <2>2, AsideKeeps
<1>8. ASSUME NEW r \in Requester,
             \/ \E id \in DOMAIN tabs \cap ModuleId, list \in UpdateList : PageApplies(r, id, list)
             \/ RequestReturns(r) /\ Still
      PROVE  HostKept
  <2>1. Aside
    BY <1>0, <1>8, HostKeeps
  <2>2. UNCHANGED <<link, up, counter, messages>>
    BY <1>8 DEF Still, PageApplies, peers
  <2> QED BY <1>2, <2>1, <2>2
<1>9. ASSUME NEW t \in Thread \ {Net},
             \/ \E module \in Definition : HostRegisters(t, module)
             \/ RegisterReturns(t) /\ Still
      PROVE  HostKept
  <2>1. Aside
    BY <1>0, <1>9, HostKeeps
  <2>2. UNCHANGED <<link, up, counter, messages>>
    BY <1>9 DEF Still, HostRegisters, peers
  <2> QED BY <1>2, <2>1, <2>2
<1>10. ASSUME UNCHANGED proxyVars PROVE HostKept
  <2>1. Aside /\ UNCHANGED <<link, up, counter, messages>>
    BY <1>10 DEF Aside, proxyVars, vars, server, peers, rest
  <2> QED BY <1>2, <2>1
<1> HIDE DEF HostKept
<1>11. HostKept
  BY <1>3, <1>4, <1>5, <1>6, <1>7, <1>8, <1>9, <1>10 DEF ProxyNext
<1> QED BY <1>1, <1>11 DEF HostKept, ProxyInv, ServerInv

\* The host and its peers keep the inductive invariant: the one the network thread waits
\* for, the ids it has found and has yet to remove, and the entries of _remote_modules fit
\* the modules that are registered (ProxyServer.cpp:41-125).
THEOREM ProxyInvariant == ProxySpec => []ProxyInv
BY ProxyInvInit, ProxyInvStep, PTL DEF ProxySpec

\* The entry of _remote_modules for an id names the peer and the id of the module that
\* is registered under it (ProxyServer.cpp:41-43,69-74,96-102): what a page of the host
\* changes reaches the module it was made to, however the registrations, removals and
\* closings of the peers mix with those of the host.
THEOREM OwnersAreRight == ProxySpec => []RightOwner
<1>1. ProxyInv => RightOwner
  BY DEF ProxyInv, Owners, RightOwner
<1> QED BY <1>1, ProxyInvariant, PTL

\* When the host has nothing left to do it holds the modules of the peers that are
\* connected and no other of a peer (ProxyServer.cpp:49-59,96-109): a peer that ends,
\* even while the network thread adds a module of its, leaves none behind.
THEOREM NoneIsLeft == ProxySpec => []NoOrphans
<1>1. ProxyInv => NoOrphans
  <2> SUFFICES ASSUME ProxyInv, HostQuiet
               PROVE  /\ DOMAIN remoteModules = foreign
                      /\ \A id \in foreign : link[remoteModules[id].client] = "open"
    BY DEF NoOrphans
  <2>1. loop \in Seq(Task) /\ loop = <<>> /\ reading = Idle /\ \A p \in Peer : link[p] # "lost"
    BY DEF HostQuiet, ProxyInv, TypeOK
  <2>2. ServerInv /\ TypeOK /\ RegistrationsAccounted /\ PeersTypeOK
    BY DEF ProxyInv, ServerInv
  <2>3. idPromise[Net] = {}
    BY <2>1, <2>2, NetAwaits DEF Idle
  <2>4. \A id : ~Queued(id)
    BY <2>1, NoTasks DEF Queued
  <2>5. DOMAIN remoteModules = foreign
    BY <2>2, <2>3, <2>4 DEF ServerInv, Found
  <2>6. \A id \in DOMAIN remoteModules : link[remoteModules[id].client] # "closed"
    BY <2>1, <2>2, NoneClosed
  <2>7. \A id \in DOMAIN remoteModules : remoteModules[id].client \in Peer
    BY <2>2 DEF ServerInv, ServerTypeOK
  <2> QED BY <2>1, <2>2, <2>5, <2>6, <2>7 DEF PeersTypeOK
<1> QED BY <1>1, ProxyInvariant, PTL

-----------------------------------------------------------------------------
(* What a property comes to.                                               *)

\* An update leaves one sequence for the other.
LEMMA EndsThrough ==
  ASSUME NEW S, NEW s \in Seq(S), NEW x \in S, NEW given,
         NEW R, NEW r \in Seq(R), r # <<>>, NEW gives, NEW base, NEW w \in Value, NEW v,
         EndsIn(s, given, base, w), EndsIn(r, gives, w, v), given[x] = gives[Head(r)],
         given[x] \subseteq Value, AtMostOne(given[x])
  PROVE  \E u \in Value : EndsIn(Append(s, x), given, base, u) /\ EndsIn(Tail(r), gives, u, v)
<1>1. CASE given[x] = {}
  BY <1>1, EndsAppend, EndsTail
<1>2. CASE given[x] # {}
  <2>1. PICK u \in Value : u \in given[x] /\ \A y \in given[x] : u = y
    BY <1>2 DEF AtMostOne
  <2>2. EndsIn(Append(s, x), given, base, u)
    BY <2>1, EndsAppend
  <2>3. EndsIn(Tail(r), gives, u, v)
    BY <1>2, <2>1, EndsTail
  <2> QED BY <2>2, <2>3
<1> QED BY <1>1, <1>2

\* A list gives a property one value, if any.
LEMMA GivenByOne ==
  ASSUME NEW list \in PropertyList, NEW k
  PROVE  GivenBy(list, k) \subseteq Value /\ AtMostOne(GivenBy(list, k))
BY GivenOnce DEF AtMostOne

-----------------------------------------------------------------------------
(* What the host knows of a peer, and what the peer has.                   *)

\* Where a module of a peer is: announced, between RegisterModule and AddModule, or
\* entered in _remote_modules; and whether its removal is on its way.
Announces(msg, n) == msg.type = "module_added" /\ msg.id = n
Coming(p, n)  == \E msg \in Range(up[p]) : Announces(msg, n)
IsAdded(p, n) == reading = [at |-> "adding", remote |-> n, client |-> p]
Here(p, n)    == {id \in DOMAIN remoteModules : remoteModules[id] = Entry(n, p)}
Known(p, n)   == Coming(p, n) \/ IsAdded(p, n) \/ Here(p, n) # {}
Leaving(p, n) == \E msg \in Range(up[p]) : msg.type = "module_removed" /\ msg.id = n

\* It is in one of these places, as long as the peer has it; later its removal follows.
Present(p, n) ==
  /\ ~(Coming(p, n) /\ IsAdded(p, n))
  /\ Coming(p, n) \/ IsAdded(p, n) => Here(p, n) = {}
  /\ \A i, j \in Here(p, n) : i = j
  /\ Known(p, n) => n < counter[p]
  /\ n \in DOMAIN own[p] => Known(p, n) /\ ~Leaving(p, n)
  /\ n \notin DOMAIN own[p] /\ Known(p, n) => Leaving(p, n)

\* A module is announced once, and before any other message is about it.
Ordered(p) ==
  /\ \A msg \in Range(up[p]) : msg.id < counter[p]
  /\ \A i, j \in 1..Len(up[p]) : Announces(up[p][i], up[p][j].id) => i <= j

\* The page has sent a change of the module.
PageWrote(id) == id \in ModuleId /\ "page" \in writers[id]

\* A change sent to a peer is one of the page.
Told(p) ==
  \A msg \in Range(down[p]) :
    /\ msg.id < counter[p] /\ ~Coming(p, msg.id) /\ ~IsAdded(p, msg.id)
    /\ \A id \in Here(p, msg.id) : PageWrote(id)

\* What an update gives property k of a module, in the queue here and on the link.
SaveGives(id, k) ==
  [task \in Task |-> IF task.op = "SavePropertiesList" /\ task.id = id
                     THEN GivenBy(task.properties, k) ELSE {}]
UpdateGives(n, k) ==
  [msg \in PushedMsg |-> IF msg.type = "property_update" /\ msg.id = n
                         THEN GivenBy(msg.properties, k) ELSE {}]

\* What the peer has is what the updates on the link, after those in the queue, make of
\* what was announced, of what is being added, or of what is stored.
Becomes(p, n, k, base) ==
  EndsIn(up[p], UpdateGives(n, k), base, own[p][n].properties[k].value)
Reaches(p, n, k, id) ==
  \E w \in Value : /\ EndsIn(loop, SaveGives(id, k), modules[id].properties[k].value, w)
                   /\ Becomes(p, n, k, w)
Follows(p, n, k) ==
  /\ Coming(p, n) => Becomes(p, n, k, Remote(p, n).properties[k].value)
  /\ IsAdded(p, n) => \A task \in Tasks :
       Registers(task) => Becomes(p, n, k, task.module.properties[k].value)
  /\ IsAdded(p, n) => \A id \in idPromise[Net] :
       PageWrote(id) \/ Becomes(p, n, k, modules[id].properties[k].value)
  /\ \A id \in Here(p, n) : PageWrote(id) \/ Reaches(p, n, k, id)
FollowsAll(p, n) ==
  \A k \in 1..Len(own[p][n].properties) :
    ~own[p][n].properties[k].read_only => Follows(p, n, k)

PeerFollows(p) ==
  /\ Ordered(p) /\ \A n \in Nat : Present(p, n)
  /\ Told(p)
  /\ \A n \in DOMAIN own[p] : FollowsAll(p, n)

\* A peer's modules are those it has registered, none when it has ended, and the messages
\* to it are updates.
OwnTypeOK(p) ==
  /\ DOMAIN own[p] \subseteq 0..(counter[p] - 1)
  /\ \A n \in DOMAIN own[p] :
       own[p][n] \in ModuleType /\ Fixed(own[p][n].properties, Remote(p, n))
  /\ link[p] # "open" => DOMAIN own[p] = {}
  /\ down[p] \in Seq(ApplyMsg)
OwnsTypeOK ==
  /\ DOMAIN own = Peer /\ DOMAIN down = Peer
  /\ \A p \in Peer : OwnTypeOK(p)
  /\ writers \in [ModuleId -> SUBSET {"owner", "page"}]

\* A task that stores is that of an entry, or the page's.
TaskFollows(task) ==
  /\ task.op # "PassPropertyUpdateToModule"
  /\ task.op = "SavePropertiesList" => task.id < idCounter /\ task.id \notin idPromise[Net]
  /\ task.op = "DoProcessJSRequest" => task.json.type = "apply" /\ PageWrote(task.json.id)
TasksFollow ==
  /\ \A task \in Tasks : TaskFollows(task)
  /\ reading.at = "closing" => link[reading.client] = "closed"

FollowInv ==
  /\ OwnsTypeOK /\ TasksFollow
  /\ \A p \in Peer : link[p] = "open" => PeerFollows(p)

-----------------------------------------------------------------------------
(* Steps that concern a peer in nothing, or only in the queue.             *)

KeptFor(p) ==
  /\ up'[p] = up[p] /\ own'[p] = own[p] /\ counter'[p] = counter[p] /\ down'[p] = down[p]
  /\ \A n : Here(p, n)' = Here(p, n) /\ (IsAdded(p, n)' <=> IsAdded(p, n))
  /\ \A id : PageWrote(id) => PageWrote(id)'
  /\ UNCHANGED modules
  /\ (\E n : IsAdded(p, n)) =>
       idPromise'[Net] = idPromise[Net] /\ \A task \in Tasks' : Registers(task) => task \in Tasks
  /\ \/ UNCHANGED loop
     \/ \E task \in Task :
          /\ Post(task)
          /\ \A n : \A id \in Here(p, n) : ~(task.op = "SavePropertiesList" /\ task.id = id)

LEMMA KeptFollows ==
  ASSUME TypeOK, NEW p \in Peer, PeerFollows(p), KeptFor(p)
  PROVE  PeerFollows(p)'
<1>1. /\ up'[p] = up[p] /\ own'[p] = own[p] /\ counter'[p] = counter[p] /\ down'[p] = down[p]
      /\ \A n : Here(p, n)' = Here(p, n) /\ (IsAdded(p, n)' <=> IsAdded(p, n))
      /\ \A id : PageWrote(id) => PageWrote(id)'
      /\ UNCHANGED modules
      /\ (\E n : IsAdded(p, n)) =>
           idPromise'[Net] = idPromise[Net] /\ \A task \in Tasks' : Registers(task) => task \in Tasks
  BY DEF KeptFor
<1>2. \A n : (Coming(p, n)' <=> Coming(p, n)) /\ (Leaving(p, n)' <=> Leaving(p, n))
  BY <1>1 DEF Coming, Leaving
<1>3. \A n : Known(p, n)' <=> Known(p, n)
  BY <1>1, <1>2 DEF Known
<1>4. ASSUME NEW n \in Nat PROVE Present(p, n)'
  <2>1. Present(p, n)
    BY DEF PeerFollows
  <2> QED BY <1>1, <1>2, <1>3, <2>1 DEF Present
<1>5. Ordered(p)'
  BY <1>1 DEF PeerFollows, Ordered
<1>6. Told(p)'
  <2>1. Told(p)
    BY DEF PeerFollows
  <2> QED BY <1>1, <1>2, <2>1 DEF Told
<1>7. ASSUME NEW n \in DOMAIN own[p], NEW k, Follows(p, n, k)
      PROVE  Follows(p, n, k)'
  <2>1. \A base : Becomes(p, n, k, base) => Becomes(p, n, k, base)'
    BY <1>1 DEF Becomes
  <2>2. Coming(p, n)' => Becomes(p, n, k, Remote(p, n).properties[k].value)'
    BY <1>2, <1>7, <2>1 DEF Follows
  <2>3. IsAdded(p, n)' => \A task \in Tasks' :
          Registers(task) => Becomes(p, n, k, task.module.properties[k].value)'
    BY <1>1, <1>7, <2>1 DEF Follows
  <2>4. IsAdded(p, n)' => \A id \in idPromise'[Net] :
          PageWrote(id)' \/ Becomes(p, n, k, modules[id].properties[k].value)'
    BY <1>1, <1>7, <2>1 DEF Follows
  <2>5. ASSUME NEW id \in Here(p, n), Reaches(p, n, k, id)
        PROVE  Reaches(p, n, k, id)'
    <3>1. PICK w \in Value : /\ EndsIn(loop, SaveGives(id, k), modules[id].properties[k].value, w)
                             /\ Becomes(p, n, k, w)
      BY <2>5 DEF Reaches
    <3>2. EndsIn(loop', SaveGives(id, k), modules[id].properties[k].value, w)
      <4>1. CASE UNCHANGED loop
        BY <3>1, <4>1
      <4>2. ASSUME NEW task \in Task, Post(task),
                   ~(task.op = "SavePropertiesList" /\ task.id = id)
            PROVE  EndsIn(loop', SaveGives(id, k), modules[id].properties[k].value, w)
        <5>1. SaveGives(id, k)[task] = {} /\ loop \in Seq(Task) /\ loop' = Append(loop, task)
          BY <4>2 DEF SaveGives, Post, TypeOK
        <5> QED BY <3>1, <5>1, EndsAppend
      <4> QED BY <4>1, <4>2 DEF KeptFor
    <3> QED BY <1>1, <2>1, <3>1, <3>2 DEF Reaches
  <2>6. \A id \in Here(p, n)' : PageWrote(id)' \/ Reaches(p, n, k, id)'
    BY <1>1, <1>7, <2>5 DEF Follows
  <2> QED BY <2>2, <2>3, <2>4, <2>6 DEF Follows
<1>8. \A n \in DOMAIN own'[p] : FollowsAll(p, n)'
  BY <1>1, <1>7 DEF PeerFollows, FollowsAll
<1> QED BY <1>4, <1>5, <1>6, <1>8 DEF PeerFollows

-----------------------------------------------------------------------------
(* The host's own threads and its page.                                    *)

\* A task that stores nothing of a peer.
Harmless(task) ==
  ~Registers(task) /\ task.op # "SavePropertiesList" /\ task.op # "PassPropertyUpdateToModule"

HostStep ==
  /\ UNCHANGED <<peers, server, modules, idCounter>> /\ idPromise'[Net] = idPromise[Net]
  /\ writers' \in [ModuleId -> SUBSET {"owner", "page"}]
  /\ \A id : PageWrote(id) => PageWrote(id)'
  /\ \/ UNCHANGED loop
     \/ \E task \in Task : Post(task) /\ Harmless(task) /\ TaskFollows(task)'

LEMMA HostStepFollows ==
  ASSUME TypeOK, FollowInv, HostStep
  PROVE  FollowInv'
<1> USE DEF peers, server
<1>1. /\ UNCHANGED <<remoteModules, reading, link, up, down, own, counter, modules, idCounter>>
      /\ idPromise'[Net] = idPromise[Net]
      /\ writers' \in [ModuleId -> SUBSET {"owner", "page"}]
      /\ \A id : PageWrote(id) => PageWrote(id)'
  BY DEF HostStep
<1>2. OwnsTypeOK'
  BY <1>1 DEF FollowInv, OwnsTypeOK, OwnTypeOK
<1>3. \A task \in Tasks' :
        task \in Tasks \/ (~Registers(task) /\ TaskFollows(task)')
  BY TasksOf DEF HostStep, Harmless
<1>4. TasksFollow'
  <2>1. \A task \in Tasks : TaskFollows(task)'
    BY <1>1 DEF FollowInv, TasksFollow, TaskFollows
  <2> QED BY <1>1, <1>3, <2>1 DEF FollowInv, TasksFollow
<1>5. ASSUME NEW p \in Peer, link'[p] = "open" PROVE PeerFollows(p)'
  <2>1. KeptFor(p)
    <3>1. \A n : Here(p, n)' = Here(p, n) /\ (IsAdded(p, n)' <=> IsAdded(p, n))
      BY <1>1 DEF Here, IsAdded
    <3>2. \/ UNCHANGED loop
          \/ \E task \in Task : Post(task) /\ task.op # "SavePropertiesList"
      BY DEF HostStep, Harmless
    <3>3. \/ UNCHANGED loop
          \/ \E task \in Task :
               /\ Post(task)
               /\ \A n : \A id \in Here(p, n) : ~(task.op = "SavePropertiesList" /\ task.id = id)
      BY <3>2
    <3>4. \A task \in Tasks' : Registers(task) => task \in Tasks
      BY <1>3
    <3> QED BY <1>1, <3>1, <3>3, <3>4 DEF KeptFor
  <2>2. PeerFollows(p)
    BY <1>1, <1>5 DEF FollowInv
  <2> QED BY <2>1, <2>2, KeptFollows
<1> QED BY <1>2, <1>4, <1>5 DEF FollowInv

LEMMA HostSteps ==
  ASSUME TypeOK, FollowInv
  PROVE  /\ ProxyInitialized(TRUE) /\ Still => HostStep
         /\ CallbackReturns /\ Still => HostStep
         /\ OnPropertyUpdated => HostStep
         /\ \A r \in Requester, id \in ModuleId, list \in UpdateList : PageApplies(r, id, list) => HostStep
         /\ \A r \in Requester : RequestReturns(r) /\ Still => HostStep
         /\ \A t \in Thread \ {Net}, module \in Definition : HostRegisters(t, module) => HostStep
         /\ \A t \in Thread \ {Net} : RegisterReturns(t) /\ Still => HostStep
         /\ UNCHANGED proxyVars => HostStep
<1> USE DEF Still, rest, callers, promises, started, instance, Outside
<1>0. /\ app \in [Thread -> Call] /\ idPromise \in [Thread -> SUBSET Nat]
      /\ Net \in Thread /\ writers \in [ModuleId -> SUBSET {"owner", "page"}]
  BY ProxyServerAssumption DEF TypeOK, CallersTypeOK, FollowInv, OwnsTypeOK
<1>a. UNCHANGED writers => \A id : PageWrote(id) => PageWrote(id)'
  BY DEF PageWrote
<1>1. ASSUME ProxyInitialized(TRUE), Still PROVE HostStep
  <2> DEFINE task == [op |-> "OnProxyInitialized", host |-> TRUE]
  <2>1. task \in Task /\ Harmless(task) /\ TaskFollows(task)'
    BY DEF Task, Harmless, Registers, TaskFollows
  <2> QED BY <1>0, <1>1, <1>a, <2>1 DEF ProxyInitialized, HostStep
<1>2. ASSUME CallbackReturns, Still PROVE HostStep
  BY <1>0, <1>2, <1>a DEF CallbackReturns, InCallback, HostStep
<1>3. ASSUME OnPropertyUpdated PROVE HostStep
  <2>1. UpdatePropertiesReturns(Net) /\ UNCHANGED <<server, peers, writers>>
    BY <1>3 DEF OnPropertyUpdated
  <2>2. app[Net].id \in Int /\ app[Net].properties \in PropertyList
    BY <1>0, <2>1 DEF UpdatePropertiesReturns, Call, Idle
  <2>3. PICK task : task = [op  |-> "HandleMessage",
                            msg |-> CreatePropertyUpdated(app[Net].id, app[Net].properties)]
    OBVIOUS
  <2>4. task \in Task /\ Harmless(task) /\ TaskFollows(task)'
    BY <2>2, <2>3, MessageTypes DEF Task, Harmless, Registers, TaskFollows
  <2>5. Post(task) /\ UNCHANGED <<modules, idCounter, idPromise>>
    BY <2>1, <2>3 DEF UpdatePropertiesReturns
  <2> QED BY ONLY <1>0, <1>a, <2>1, <2>4, <2>5 DEF HostStep
<1>4. ASSUME NEW r \in Requester, NEW id \in ModuleId, NEW list \in UpdateList, PageApplies(r, id, list)
      PROVE  HostStep
  <2> DEFINE json == CreatePropertiesUpdated(id, list)
             task == [op |-> "DoProcessJSRequest", json |-> json, to |-> r]
  <2>1. json \in Request
    BY ConstantsAssumption, MessageTypes DEF Request
  <2>2. /\ ProcessJSRequest(r, json) /\ UNCHANGED <<server, peers>>
        /\ writers' = [writers EXCEPT ![id] = @ \cup {"page"}]
    BY <1>4 DEF PageApplies
  <2>3. /\ writers' \in [ModuleId -> SUBSET {"owner", "page"}]
        /\ \A i : PageWrote(i) => PageWrote(i)'
        /\ PageWrote(id)'
    BY <1>0, <2>2 DEF PageWrote
  <2>4. task \in Task /\ Harmless(task) /\ TaskFollows(task)'
    BY <2>1, <2>3 DEF Task, Harmless, Registers, TaskFollows, CreatePropertiesUpdated
  <2>5. UNCHANGED loop \/ Post(task)
    BY <2>2 DEF ProcessJSRequest
  <2>6. UNCHANGED <<modules, idCounter, app, idPromise>>
    BY <2>2 DEF ProcessJSRequest
  <2> HIDE DEF json, task
  <2> QED BY <2>2, <2>3, <2>4, <2>5, <2>6 DEF HostStep
<1>5. ASSUME NEW r \in Requester, RequestReturns(r), Still PROVE HostStep
  BY <1>0, <1>5, <1>a DEF RequestReturns, HostStep
<1>6. ASSUME NEW t \in Thread \ {Net}, NEW module \in Definition, HostRegisters(t, module)
      PROVE  HostStep
  <2> DEFINE task == [op |-> "DoRegisterModule", module |-> module, to |-> {t}]
  <2>1. task \in Task /\ Harmless(task) /\ TaskFollows(task)'
    BY ConstantsAssumption DEF Task, Harmless, Registers, TaskFollows
  <2>2. RegisterModule(t, module) /\ UNCHANGED <<server, peers, writers>>
    BY <1>6 DEF HostRegisters
  <2>3. Post(task) /\ UNCHANGED <<modules, idCounter, idPromise>>
    BY <2>2 DEF RegisterModule
  <2> HIDE DEF task
  <2> QED BY <1>0, <1>a, <2>1, <2>2, <2>3 DEF HostStep
<1>7. ASSUME NEW t \in Thread \ {Net}, RegisterReturns(t), Still PROVE HostStep
  BY <1>0, <1>7, <1>a DEF RegisterReturns, HostStep
<1>8. ASSUME UNCHANGED proxyVars PROVE HostStep
  BY <1>0, <1>8, <1>a DEF proxyVars, vars, HostStep
<1> QED BY <1>1, <1>2, <1>3, <1>4, <1>5, <1>6, <1>7, <1>8

-----------------------------------------------------------------------------
(* The peers.                                                              *)

\* What a peer does to a module of its by an update.
LEMMA StoresOwn ==
  ASSUME PeersTypeOK, OwnsTypeOK, NEW p \in Peer, NEW id, NEW list \in PropertyList,
         Stores(p, id, list)
  PROVE  /\ DOMAIN own' = Peer /\ DOMAIN own'[p] = DOMAIN own[p]
         /\ \A q \in Peer \ {p} : own'[q] = own[q]
         /\ \A n \in DOMAIN own[p] : n # id => own'[p][n] = own[p][n]
         /\ \A n \in DOMAIN own[p] :
              /\ own'[p][n] \in ModuleType
              /\ Len(own'[p][n].properties) = Len(own[p][n].properties)
              /\ Fixed(own'[p][n].properties, Remote(p, n))
              /\ \A k \in 1..Len(own[p][n].properties) :
                   own'[p][n].properties[k].read_only = own[p][n].properties[k].read_only
         /\ id \in DOMAIN own[p] =>
              \A k \in 1..Len(own[p][id].properties) : ~own[p][id].properties[k].read_only =>
                IF GivenBy(list, k) = {}
                THEN own'[p][id].properties[k].value = own[p][id].properties[k].value
                ELSE \A v \in GivenBy(list, k) : own'[p][id].properties[k].value = v
<1>0. /\ DOMAIN own = Peer
      /\ \A n \in DOMAIN own[p] : own[p][n] \in ModuleType /\ Fixed(own[p][n].properties, Remote(p, n))
  BY DEF OwnsTypeOK, OwnTypeOK
<1>1. CASE id \notin DOMAIN own[p]
  BY <1>0, <1>1 DEF Stores
<1>2. CASE id \in DOMAIN own[p]
  <2>1. PICK saved : saved = SavedProperties(own[p][id].properties, list)
    OBVIOUS
  <2>2. PICK module : module = [own[p][id] EXCEPT !.properties = saved]
    OBVIOUS
  <2>3. /\ own[p][id].properties \in Seq(Property)
        /\ module.properties = SavedProperties(own[p][id].properties, list)
        /\ module.properties \in Seq(Property) => module \in ModuleType
    BY <1>0, <1>2, <2>1, <2>2 DEF ModuleType
  <2>4. /\ DOMAIN own' = Peer /\ DOMAIN own'[p] = DOMAIN own[p]
        /\ \A q \in Peer \ {p} : own'[q] = own[q]
        /\ \A n \in DOMAIN own[p] : own'[p][n] = IF n = id THEN module ELSE own[p][n]
    <3>1. own' = [own EXCEPT ![p][id].properties = saved]
      BY <1>2, <2>1 DEF Stores
    <3>2. own' = [own EXCEPT ![p] = [own[p] EXCEPT ![id] = module]]
      BY <2>2, <3>1
    <3> QED BY <1>0, <1>2, <3>2
  <2>5. Remote(p, id) \in ModuleType
    <3>1. id \in 0..(counter[p] - 1) /\ counter[p] \in Nat /\ counter[p] <= messages /\ messages \in 0..MaxMessages
      BY <1>2 DEF OwnsTypeOK, OwnTypeOK, PeersTypeOK
    <3>2. id \in 0..MaxMessages
      BY <3>1, ProxyServerAssumption
    <3> QED BY <3>2, ProxyServerAssumption
  <2>6. module \in ModuleType /\ Fixed(module.properties, Remote(p, id))
    BY <1>0, <1>2, <2>3, <2>5, SavedFixed, SavedPropertiesType
  <2>7. Len(module.properties) = Len(own[p][id].properties)
    BY <1>0, <1>2, <2>6 DEF Fixed
  <2>8. ASSUME NEW k \in 1..Len(own[p][id].properties)
        PROVE  /\ module.properties[k].read_only = own[p][id].properties[k].read_only
               /\ ~own[p][id].properties[k].read_only =>
                    IF GivenBy(list, k) = {}
                    THEN module.properties[k].value = own[p][id].properties[k].value
                    ELSE \A v \in GivenBy(list, k) : module.properties[k].value = v
    BY <2>3, SavedPropertiesGiven
  <2>9. \A n \in DOMAIN own[p] :
              /\ own'[p][n] \in ModuleType
              /\ Len(own'[p][n].properties) = Len(own[p][n].properties)
              /\ Fixed(own'[p][n].properties, Remote(p, n))
              /\ \A k \in 1..Len(own[p][n].properties) :
                   own'[p][n].properties[k].read_only = own[p][n].properties[k].read_only
    BY <1>0, <2>4, <2>6, <2>7, <2>8
  <2> QED BY <1>2, <2>4, <2>8, <2>9
<1> QED BY <1>1, <1>2

\* A message sent comes after the others.
LEMMA Sent ==
  ASSUME PeersTypeOK, NEW p \in Peer, Ordered(p), NEW msg \in PushedMsg,
         up'[p] = Append(up[p], msg), counter'[p] \in Nat, counter[p] <= counter'[p],
         msg.id < counter'[p], msg.type = "module_added" => msg.id = counter[p]
  PROVE  /\ Ordered(p)'
         /\ \A n : /\ Coming(p, n)' <=> Coming(p, n) \/ Announces(msg, n)
                   /\ Leaving(p, n)' <=> Leaving(p, n) \/ (msg.type = "module_removed" /\ msg.id = n)
         /\ \A n, k, base :
              /\ \/ /\ UpdateGives(n, k)[msg] = {}
                    /\ own'[p][n].properties[k].value = own[p][n].properties[k].value
                 \/ own'[p][n].properties[k].value \in UpdateGives(n, k)[msg]
              /\ Becomes(p, n, k, base)
              => Becomes(p, n, k, base)'
<1>0. up[p] \in Seq(PushedMsg) /\ counter[p] \in Nat /\ Len(up[p]) \in Nat
  BY LenProperties DEF PeersTypeOK
<1>1. Range(up'[p]) = Range(up[p]) \cup {msg}
  BY <1>0, MembersOf
<1>2. Range(up[p]) \subseteq PushedMsg /\ \A m \in PushedMsg : m.id \in Int
  BY <1>0, MembersOf, ElementOfSeq DEF PushedMsg, AddedMsg, RemovedMsg, UpdateMsg
<1>3. Ordered(p)'
  <2>1. \A m \in Range(up'[p]) : m.id < counter'[p]
    BY <1>0, <1>1, <1>2 DEF Ordered
  <2>2. /\ Len(up'[p]) = Len(up[p]) + 1 /\ up'[p][Len(up[p]) + 1] = msg
        /\ \A i \in 1..Len(up[p]) : up'[p][i] = up[p][i] /\ up[p][i] \in Range(up[p])
    BY <1>0, AppendProperties, MembersOf
  <2>3. ASSUME NEW i \in 1..Len(up'[p]), NEW j \in 1..Len(up'[p]),
               Announces(up'[p][i], up'[p][j].id)
        PROVE  i <= j
    <3>1. CASE i \in 1..Len(up[p]) /\ j \in 1..Len(up[p])
      BY <2>2, <2>3, <3>1 DEF Ordered
    <3>2. CASE j = Len(up[p]) + 1
      BY <1>0, <2>2, <3>2
    <3>3. CASE i = Len(up[p]) + 1 /\ j \in 1..Len(up[p])
      <4>1. msg.id = counter[p] /\ up[p][j].id = msg.id
        BY <2>2, <2>3, <3>3 DEF Announces
      <4>2. up[p][j].id < counter[p]
        BY <2>2, <3>3 DEF Ordered
      <4> QED BY <1>0, <4>1, <4>2
    <3> QED BY <1>0, <2>2, <3>1, <3>2, <3>3
  <2> QED BY <2>1, <2>3 DEF Ordered
<1>4. ASSUME NEW n
      PROVE  /\ Coming(p, n)' <=> Coming(p, n) \/ Announces(msg, n)
             /\ Leaving(p, n)' <=> Leaving(p, n) \/ (msg.type = "module_removed" /\ msg.id = n)
  BY <1>1 DEF Coming, Leaving
<1>5. ASSUME NEW n, NEW k, NEW base,
             \/ /\ UpdateGives(n, k)[msg] = {}
                /\ own'[p][n].properties[k].value = own[p][n].properties[k].value
             \/ own'[p][n].properties[k].value \in UpdateGives(n, k)[msg],
             Becomes(p, n, k, base)
      PROVE  Becomes(p, n, k, base)'
  BY <1>0, <1>5, EndsAppend DEF Becomes
<1> QED BY <1>3, <1>4, <1>5

\* What a message gives.
LEMMA Gives ==
  ASSUME NEW msg \in PushedMsg, NEW n, NEW k
  PROVE  UpdateGives(n, k)[msg] = IF msg.type = "property_update" /\ msg.id = n
                                  THEN GivenBy(msg.properties, k) ELSE {}
BY DEF UpdateGives

\* The step of a peer, as far as the others and the host go.
PeerStep(p) ==
  /\ link[p] = "open" /\ UNCHANGED <<vars, server, writers>>
  /\ DOMAIN own' = Peer /\ DOMAIN down' = Peer
  /\ \A q \in Peer \ {p} : /\ up'[q] = up[q] /\ own'[q] = own[q] /\ down'[q] = down[q]
                           /\ counter'[q] = counter[q] /\ link'[q] = link[q]

LEMMA PeerStepFollows ==
  ASSUME TypeOK, ServerTypeOK, FollowInv, NEW p \in Peer, PeerStep(p), OwnTypeOK(p)',
         link'[p] = "open" => PeerFollows(p)'
  PROVE  FollowInv'
<1>0. /\ link[p] = "open" /\ UNCHANGED <<vars, server, writers>>
      /\ DOMAIN own' = Peer /\ DOMAIN down' = Peer
      /\ \A q \in Peer \ {p} : /\ up'[q] = up[q] /\ own'[q] = own[q] /\ down'[q] = down[q]
                               /\ counter'[q] = counter[q] /\ link'[q] = link[q]
  BY DEF PeerStep
<1>1. OwnsTypeOK'
  <2>1. \A q \in Peer \ {p} : OwnTypeOK(q)'
    BY <1>0 DEF FollowInv, OwnsTypeOK, OwnTypeOK
  <2> QED BY <1>0, <2>1 DEF FollowInv, OwnsTypeOK
<1>2. TasksFollow'
  <2>1. UNCHANGED Tasks /\ UNCHANGED <<idCounter, idPromise>> /\ UNCHANGED reading
    BY <1>0, TasksOf DEF vars, server
  <2>2. \A task \in Tasks : TaskFollows(task)'
    BY <1>0, <2>1 DEF FollowInv, TasksFollow, TaskFollows, PageWrote
  <2>3. reading.at = "closing" => reading.client \in Peer
    BY DEF ServerTypeOK, Idle
  <2>4. reading.at = "closing" => link'[reading.client] = "closed"
    BY <1>0, <2>3 DEF FollowInv, TasksFollow
  <2> QED BY <2>1, <2>2, <2>4 DEF TasksFollow
<1>3. ASSUME NEW q \in Peer \ {p}, link'[q] = "open" PROVE PeerFollows(q)'
  <2>1. KeptFor(q)
    <3>1. UNCHANGED Tasks /\ UNCHANGED <<loop, modules, idPromise, remoteModules, reading>>
      BY <1>0, TasksOf DEF vars, server
    <3>2. \A n : Here(q, n)' = Here(q, n) /\ (IsAdded(q, n)' <=> IsAdded(q, n))
      BY <3>1 DEF Here, IsAdded
    <3>3. \A id : PageWrote(id) => PageWrote(id)'
      BY <1>0 DEF PageWrote
    <3> QED BY <1>0, <3>1, <3>2, <3>3 DEF KeptFor
  <2>2. PeerFollows(q)
    BY <1>0, <1>3 DEF FollowInv
  <2> QED BY <2>1, <2>2, KeptFollows
<1> QED BY <1>1, <1>2, <1>3 DEF FollowInv

\* What concerns the host stays as it is.
LEMMA HostStays ==
  ASSUME NEW p \in Peer, UNCHANGED <<vars, server, writers>>
  PROVE  /\ UNCHANGED <<loop, modules, idPromise, idCounter, remoteModules, reading>>
         /\ \A n : Here(p, n)' = Here(p, n) /\ (IsAdded(p, n)' <=> IsAdded(p, n))
         /\ \A id : PageWrote(id)' <=> PageWrote(id)
         /\ \A n, k, id : (\A base : Becomes(p, n, k, base) => Becomes(p, n, k, base)')
              => (Reaches(p, n, k, id) => Reaches(p, n, k, id)')
<1>1. UNCHANGED <<loop, modules, idPromise, idCounter, remoteModules, reading>>
  BY DEF vars, server
<1>2. \A n : Here(p, n)' = Here(p, n) /\ (IsAdded(p, n)' <=> IsAdded(p, n))
  BY <1>1 DEF Here, IsAdded
<1>3. \A id : PageWrote(id)' <=> PageWrote(id)
  BY DEF PageWrote
<1>4. ASSUME NEW n, NEW k, NEW id, \A base : Becomes(p, n, k, base) => Becomes(p, n, k, base)',
             Reaches(p, n, k, id)
      PROVE  Reaches(p, n, k, id)'
  <2>1. PICK w \in Value : /\ EndsIn(loop, SaveGives(id, k), modules[id].properties[k].value, w)
                           /\ Becomes(p, n, k, w)
    BY <1>4 DEF Reaches
  <2>2. EndsIn(loop', SaveGives(id, k), modules'[id].properties[k].value, w) /\ Becomes(p, n, k, w)'
    BY <1>1, <1>4, <2>1
  <2> QED BY <2>2 DEF Reaches
<1> QED BY <1>1, <1>2, <1>3, <1>4

\* What holds of a property still holds where nothing about it is sent.
LEMMA FollowsStill ==
  ASSUME TypeOK, NEW p \in Peer, NEW n, NEW k, UNCHANGED <<vars, server, writers>>,
         Coming(p, n)' => Coming(p, n), Follows(p, n, k),
         \A base : Becomes(p, n, k, base) => Becomes(p, n, k, base)'
  PROVE  Follows(p, n, k)'
<1>1. /\ UNCHANGED <<loop, modules, idPromise, idCounter, remoteModules, reading>>
      /\ \A i : Here(p, i)' = Here(p, i) /\ (IsAdded(p, i)' <=> IsAdded(p, i))
      /\ \A id : PageWrote(id)' <=> PageWrote(id)
      /\ \A id : Reaches(p, n, k, id) => Reaches(p, n, k, id)'
  BY HostStays
<1>2. UNCHANGED Tasks
  BY <1>1, TasksOf
<1>3. Coming(p, n)' => Becomes(p, n, k, Remote(p, n).properties[k].value)'
  BY DEF Follows
<1>4. IsAdded(p, n)' => \A task \in Tasks' :
        Registers(task) => Becomes(p, n, k, task.module.properties[k].value)'
  BY <1>1, <1>2 DEF Follows
<1>5. IsAdded(p, n)' => \A id \in idPromise'[Net] :
        PageWrote(id)' \/ Becomes(p, n, k, modules[id].properties[k].value)'
  <2>1. IsAdded(p, n) => \A id \in idPromise[Net] :
          PageWrote(id) \/ Becomes(p, n, k, modules[id].properties[k].value)
    BY DEF Follows
  <2> QED BY <1>1, <2>1
<1>6. \A id \in Here(p, n)' : PageWrote(id)' \/ Reaches(p, n, k, id)'
  BY <1>1 DEF Follows
<1> QED BY <1>3, <1>4, <1>5, <1>6 DEF Follows

\* A peer registers a module, that is new to it and to the host.
LEMMA PeerRegistersFollows ==
  ASSUME TypeOK, ServerTypeOK, PeersTypeOK, FollowInv, NEW p \in Peer, PeerRegisters(p)
  PROVE  FollowInv'
<1>a. PICK c : c = counter[p]
  OBVIOUS
<1>b. PICK module : module = Remote(p, c)
  OBVIOUS
<1>c. PICK msg : msg = CreateModuleAdded(c, module)
  OBVIOUS
<1>0. /\ link[p] = "open" /\ UNCHANGED <<vars, server, link, down, rest>>
      /\ messages < MaxMessages
      /\ up' = [up EXCEPT ![p] = Append(@, msg)]
      /\ own' = [own EXCEPT ![p] = [i \in DOMAIN @ \cup {c} |-> IF i = c THEN module ELSE @[i]]]
      /\ counter' = [counter EXCEPT ![p] = @ + 1]
  BY <1>a, <1>b, <1>c DEF PeerRegisters, Sends
<1>1. /\ OwnsTypeOK /\ OwnTypeOK(p) /\ PeerFollows(p)
      /\ DOMAIN own = Peer /\ DOMAIN down = Peer /\ DOMAIN own[p] \subseteq 0..(c - 1)
  BY <1>0, <1>a DEF FollowInv, OwnsTypeOK, OwnTypeOK
<1>2. /\ c \in Nat /\ c \in 0..MaxMessages /\ counter \in [Peer -> Nat]
      /\ up \in [Peer -> Seq(PushedMsg)]
  BY <1>0, <1>a, ProxyServerAssumption DEF PeersTypeOK
<1>3. module \in ModuleType /\ Fixed(module.properties, Remote(p, c))
  BY <1>2, <1>b, ProxyServerAssumption, FixedAtFirst
<1>4. /\ msg \in PushedMsg /\ msg.type = "module_added" /\ msg.id = c
  BY <1>2, <1>3, <1>c, MessageTypes DEF CreateModuleAdded
<1>5. /\ up'[p] = Append(up[p], msg) /\ counter'[p] = c + 1
      /\ DOMAIN own' = Peer /\ DOMAIN own'[p] = DOMAIN own[p] \cup {c} /\ c \notin DOMAIN own[p]
      /\ own'[p][c] = module /\ \A n \in DOMAIN own[p] : own'[p][n] = own[p][n]
      /\ UNCHANGED <<down, link>>
  BY <1>0, <1>1, <1>2, <1>a
<1>6. PeerStep(p)
  BY <1>0, <1>1, <1>2, <1>5 DEF PeerStep, rest
<1>7. OwnTypeOK(p)'
  <2>1. DOMAIN own'[p] \subseteq 0..(counter'[p] - 1)
    BY <1>1, <1>2, <1>5
  <2>2. \A n \in DOMAIN own'[p] :
          own'[p][n] \in ModuleType /\ Fixed(own'[p][n].properties, Remote(p, n))
    BY <1>1, <1>3, <1>5 DEF OwnTypeOK
  <2>3. down'[p] \in Seq(ApplyMsg)
    BY <1>1, <1>5 DEF OwnTypeOK
  <2> QED BY <1>0, <2>1, <2>2, <2>3 DEF OwnTypeOK
<1>8. /\ Ordered(p)'
      /\ \A n : /\ Coming(p, n)' <=> Coming(p, n) \/ n = c
                /\ Leaving(p, n)' <=> Leaving(p, n)
      /\ \A n, k, base :
           /\ UpdateGives(n, k)[msg] = {}
           /\ own'[p][n].properties[k].value = own[p][n].properties[k].value
           /\ Becomes(p, n, k, base)
           => Becomes(p, n, k, base)'
  <2>1. Ordered(p) /\ counter[p] <= counter'[p] /\ msg.id < counter'[p] /\ counter'[p] \in Nat
    BY <1>1, <1>2, <1>4, <1>5, <1>a DEF PeerFollows
  <2>2. \A n : Announces(msg, n) <=> n = c
    BY <1>4 DEF Announces
  <2> QED BY <1>4, <1>5, <1>a, <2>1, <2>2, Sent
<1>9. \A n, k : UpdateGives(n, k)[msg] = {}
  BY <1>4, Gives
<1>10. /\ \A n : Here(p, n)' = Here(p, n) /\ (IsAdded(p, n)' <=> IsAdded(p, n))
       /\ \A id : PageWrote(id)' <=> PageWrote(id)
  BY <1>6, HostStays DEF PeerStep
<1>11. ASSUME NEW n \in Nat PROVE Present(p, n)'
  <2>1. Present(p, n)
    BY <1>1 DEF PeerFollows
  <2>2. CASE n = c
    <3>1. ~Known(p, n)
      BY <1>a, <2>1, <2>2 DEF Present
    <3>2. ~Leaving(p, n)
      <4>1. \A m \in Range(up[p]) : m.id < c
        BY <1>1, <1>a DEF PeerFollows, Ordered
      <4> QED BY <1>2, <2>2, <4>1 DEF Leaving
    <3> QED BY <1>2, <1>5, <1>8, <1>10, <2>2, <3>1, <3>2 DEF Present, Known
  <2>3. CASE n # c
    <3>1. Known(p, n)' <=> Known(p, n)
      BY <1>8, <1>10, <2>3 DEF Known
    <3>2. n \in DOMAIN own'[p] <=> n \in DOMAIN own[p]
      BY <1>5, <2>3
    <3>3. n < counter[p] => n < counter'[p]
      BY <1>2, <1>5, <1>a
    <3> QED BY <1>8, <1>10, <2>1, <2>3, <3>1, <3>2, <3>3 DEF Present
  <2> QED BY <2>2, <2>3
<1>12. Told(p)'
  <2> SUFFICES ASSUME NEW m \in Range(down[p])
               PROVE  /\ m.id < counter'[p] /\ ~Coming(p, m.id)' /\ ~IsAdded(p, m.id)'
                      /\ \A id \in Here(p, m.id)' : PageWrote(id)'
    BY <1>5 DEF Told
  <2>1. /\ m.id < c /\ ~Coming(p, m.id) /\ ~IsAdded(p, m.id)
        /\ \A id \in Here(p, m.id) : PageWrote(id)
    BY <1>1, <1>a DEF PeerFollows, Told
  <2>2. m.id \in Int
    <3>1. m \in ApplyMsg
      BY <1>1, MembersOf, ElementOfSeq DEF OwnTypeOK
    <3> QED BY <3>1 DEF ApplyMsg
  <2> QED BY <1>2, <1>5, <1>8, <1>10, <2>1, <2>2
<1>13. ASSUME NEW n \in DOMAIN own'[p] PROVE FollowsAll(p, n)'
  <2>1. CASE n # c
    <3>1. n \in DOMAIN own[p] /\ own'[p][n] = own[p][n]
      BY <1>5, <2>1
    <3>2. FollowsAll(p, n)
      BY <1>1, <3>1 DEF PeerFollows
    <3>3. ASSUME NEW k, Follows(p, n, k) PROVE Follows(p, n, k)'
      <4>1. \A base : Becomes(p, n, k, base) => Becomes(p, n, k, base)'
        BY <1>8, <1>9, <3>1
      <4> QED BY <1>6, <1>8, <2>1, <3>3, <4>1, FollowsStill DEF PeerStep
    <3> QED BY <3>1, <3>2, <3>3 DEF FollowsAll
  <2>2. CASE n = c
    <3>1. ASSUME NEW k PROVE Follows(p, c, k)'
      <4>1. Present(p, c) /\ ~Known(p, c)
        BY <1>1, <1>2, <1>a DEF PeerFollows, Present
      <4>2. ~IsAdded(p, c)' /\ Here(p, c)' = {}
        BY <1>10, <4>1 DEF Known
      <4>3. PICK v : v = module.properties[k].value
        OBVIOUS
      <4>4. EndsIn(up[p], UpdateGives(c, k), v, v)
        <5>1. \A i \in 1..Len(up[p]) : up[p][i] \in PushedMsg /\ up[p][i].id # c
          <6>1. \A m \in Range(up[p]) : m.id < c
            BY <1>1, <1>a DEF PeerFollows, Ordered
          <6>2. \A i \in 1..Len(up[p]) : up[p][i] \in Range(up[p]) /\ up[p][i] \in PushedMsg
            BY <1>2, MembersOf, ElementOfSeq
          <6> QED BY <1>2, <6>1, <6>2
        <5>2. \A i \in 1..Len(up[p]) : UpdateGives(c, k)[up[p][i]] = {}
          BY <5>1, Gives
        <5> QED BY <5>2 DEF EndsIn
      <4>5. EndsIn(up'[p], UpdateGives(c, k), v, v)
        <5>1. up[p] \in Seq(PushedMsg) /\ msg \in PushedMsg
          BY <1>2, <1>4
        <5>2. PICK given : given = UpdateGives(c, k)
          OBVIOUS
        <5>3. given[msg] = {} /\ EndsIn(up[p], given, v, v)
          BY <1>9, <4>4, <5>2
        <5>4. EndsIn(Append(up[p], msg), given, v, v)
          BY ONLY <5>1, <5>3, EndsAppend
        <5> QED BY <1>5, <5>2, <5>4
      <4>6. Becomes(p, c, k, Remote(p, c).properties[k].value)'
        BY <1>5, <1>b, <4>3, <4>5 DEF Becomes
      <4> QED BY <4>2, <4>6 DEF Follows
    <3> QED BY <2>2, <3>1 DEF FollowsAll
  <2> QED BY <2>1, <2>2
<1>14. PeerFollows(p)'
  BY <1>8, <1>11, <1>12, <1>13 DEF PeerFollows
<1> QED BY <1>6, <1>7, <1>14, PeerStepFollows

\* A peer sends what it has done to one of its modules.
LEMMA PeerSends ==
  ASSUME TypeOK, PeersTypeOK, NEW p \in Peer, PeerFollows(p), OwnTypeOK(p), PeerStep(p),
         NEW msg \in PushedMsg, msg.type # "module_added", msg.id < counter[p],
         up'[p] = Append(up[p], msg), counter'[p] = counter[p], down'[p] = down[p],
         DOMAIN own'[p] = DOMAIN own[p] \ (IF msg.type = "module_removed" THEN {msg.id} ELSE {}),
         \A n \in DOMAIN own'[p] :
           /\ Len(own'[p][n].properties) = Len(own[p][n].properties)
           /\ \A k \in 1..Len(own[p][n].properties) :
                /\ own'[p][n].properties[k].read_only = own[p][n].properties[k].read_only
                /\ ~own[p][n].properties[k].read_only =>
                     \/ /\ UpdateGives(n, k)[msg] = {}
                        /\ own'[p][n].properties[k].value = own[p][n].properties[k].value
                     \/ own'[p][n].properties[k].value \in UpdateGives(n, k)[msg]
  PROVE  PeerFollows(p)'
<1>1. /\ Ordered(p)'
      /\ \A n : /\ Coming(p, n)' <=> Coming(p, n)
                /\ Leaving(p, n)' <=> Leaving(p, n) \/ (msg.type = "module_removed" /\ msg.id = n)
      /\ \A n, k, base :
           /\ \/ /\ UpdateGives(n, k)[msg] = {}
                 /\ own'[p][n].properties[k].value = own[p][n].properties[k].value
              \/ own'[p][n].properties[k].value \in UpdateGives(n, k)[msg]
           /\ Becomes(p, n, k, base)
           => Becomes(p, n, k, base)'
  <2>1. Ordered(p) /\ counter[p] <= counter'[p] /\ msg.id < counter'[p] /\ counter'[p] \in Nat
    BY DEF PeerFollows, PeersTypeOK
  <2>2. \A n : ~Announces(msg, n)
    BY DEF Announces
  <2> QED BY <2>1, <2>2, Sent
<1>2. /\ \A n : Here(p, n)' = Here(p, n) /\ (IsAdded(p, n)' <=> IsAdded(p, n))
      /\ \A id : PageWrote(id)' <=> PageWrote(id)
  BY HostStays DEF PeerStep
<1>3. ASSUME NEW n \in Nat PROVE Present(p, n)'
  <2>1. Present(p, n)
    BY DEF PeerFollows
  <2>2. Known(p, n)' <=> Known(p, n)
    BY <1>1, <1>2 DEF Known
  <2>3. n \in DOMAIN own'[p] <=> n \in DOMAIN own[p] /\ ~(msg.type = "module_removed" /\ msg.id = n)
    OBVIOUS
  <2> QED BY <1>1, <1>2, <2>1, <2>2, <2>3 DEF Present
<1>4. Told(p)'
  <2>1. Told(p)
    BY DEF PeerFollows
  <2> QED BY <1>1, <1>2, <2>1 DEF Told
<1>5. ASSUME NEW n \in DOMAIN own'[p] PROVE FollowsAll(p, n)'
  <2>1. n \in DOMAIN own[p] /\ FollowsAll(p, n)
    BY DEF PeerFollows
  <2>2. ASSUME NEW k \in 1..Len(own[p][n].properties), ~own[p][n].properties[k].read_only
        PROVE  Follows(p, n, k)'
    <3>1. Follows(p, n, k)
      BY <2>1, <2>2 DEF FollowsAll
    <3>2. \A base : Becomes(p, n, k, base) => Becomes(p, n, k, base)'
      BY <1>1, <2>2
    <3> QED BY <1>1, <3>1, <3>2, FollowsStill DEF PeerStep
  <2>3. /\ Len(own'[p][n].properties) = Len(own[p][n].properties)
        /\ \A k \in 1..Len(own[p][n].properties) :
             own'[p][n].properties[k].read_only = own[p][n].properties[k].read_only
    OBVIOUS
  <2> QED BY ONLY <2>2, <2>3 DEF FollowsAll
<1> QED BY <1>1, <1>3, <1>4, <1>5 DEF PeerFollows

LEMMA PeerUnregistersFollows ==
  ASSUME TypeOK, ServerTypeOK, PeersTypeOK, FollowInv, NEW p \in Peer,
         NEW id \in 0..(counter[p] - 1), PeerUnregisters(p, id)
  PROVE  FollowInv'
<1>a. PICK msg : msg = CreateModuleRemoved(id)
  OBVIOUS
<1>0. /\ link[p] = "open" /\ UNCHANGED <<vars, server, link, down, rest, counter>>
      /\ up' = [up EXCEPT ![p] = Append(@, msg)]
      /\ own' = [own EXCEPT ![p] = Restrict(@, DOMAIN @ \ {id})]
  BY <1>a DEF PeerUnregisters, Sends
<1>1. /\ OwnsTypeOK /\ OwnTypeOK(p) /\ PeerFollows(p) /\ DOMAIN own = Peer /\ DOMAIN down = Peer
  BY <1>0 DEF FollowInv, OwnsTypeOK
<1>2. up \in [Peer -> Seq(PushedMsg)] /\ counter[p] \in Nat
  BY DEF PeersTypeOK
<1>3. msg \in PushedMsg /\ msg.type = "module_removed" /\ msg.id = id
  BY <1>a, MessageTypes DEF CreateModuleRemoved
<1>4. /\ up'[p] = Append(up[p], msg) /\ counter'[p] = counter[p] /\ down'[p] = down[p]
      /\ DOMAIN own' = Peer /\ DOMAIN own'[p] = DOMAIN own[p] \ {id}
      /\ \A n \in DOMAIN own'[p] : own'[p][n] = own[p][n]
      /\ UNCHANGED <<down, link>>
  BY <1>0, <1>1, <1>2 DEF Restrict
<1>5. PeerStep(p)
  BY <1>0, <1>1, <1>2, <1>4 DEF PeerStep, rest
<1>6. OwnTypeOK(p)'
  <2>1. DOMAIN own'[p] \subseteq 0..(counter'[p] - 1)
    BY <1>1, <1>4 DEF OwnTypeOK
  <2>2. \A n \in DOMAIN own'[p] :
          own'[p][n] \in ModuleType /\ Fixed(own'[p][n].properties, Remote(p, n))
    BY <1>1, <1>4 DEF OwnTypeOK
  <2> QED BY <1>1, <1>4, <2>1, <2>2 DEF OwnTypeOK
<1>7. \A n, k : UpdateGives(n, k)[msg] = {}
  BY <1>3, Gives
<1>8. PeerFollows(p)'
  <2>1. id < counter[p]
    BY <1>2
  <2> QED BY <1>1, <1>3, <1>4, <1>5, <1>7, <2>1, PeerSends
<1> QED BY <1>5, <1>6, <1>8, PeerStepFollows

LEMMA PeerUpdatesFollows ==
  ASSUME TypeOK, ServerTypeOK, PeersTypeOK, FollowInv, NEW p \in Peer,
         NEW id \in 0..(counter[p] - 1), NEW list \in UpdateList, PeerUpdates(p, id, list)
  PROVE  FollowInv'
<1>a. PICK msg : msg = CreatePropertyUpdated(id, list)
  OBVIOUS
<1>0. /\ link[p] = "open" /\ UNCHANGED <<vars, server, link, down, rest, counter>>
      /\ up' = [up EXCEPT ![p] = Append(@, msg)]
      /\ Stores(p, id, list)
  BY <1>a DEF PeerUpdates, Sends
<1>1. /\ OwnsTypeOK /\ OwnTypeOK(p) /\ PeerFollows(p) /\ DOMAIN own = Peer /\ DOMAIN down = Peer
  BY <1>0 DEF FollowInv, OwnsTypeOK
<1>2. up \in [Peer -> Seq(PushedMsg)] /\ counter[p] \in Nat /\ list \in PropertyList
  BY ConstantsAssumption DEF PeersTypeOK
<1>3. msg \in PushedMsg /\ msg.type = "property_update" /\ msg.id = id /\ msg.properties = list
  BY <1>2, <1>a, MessageTypes DEF CreatePropertyUpdated
<1>4. /\ up'[p] = Append(up[p], msg) /\ counter'[p] = counter[p] /\ down'[p] = down[p]
      /\ UNCHANGED <<down, link>> /\ \A q \in Peer \ {p} : up'[q] = up[q]
  BY <1>0, <1>1, <1>2
<1>5. /\ DOMAIN own' = Peer /\ DOMAIN own'[p] = DOMAIN own[p]
      /\ \A q \in Peer \ {p} : own'[q] = own[q]
      /\ \A n \in DOMAIN own[p] : n # id => own'[p][n] = own[p][n]
      /\ \A n \in DOMAIN own[p] :
           /\ own'[p][n] \in ModuleType
           /\ Len(own'[p][n].properties) = Len(own[p][n].properties)
           /\ Fixed(own'[p][n].properties, Remote(p, n))
           /\ \A k \in 1..Len(own[p][n].properties) :
                own'[p][n].properties[k].read_only = own[p][n].properties[k].read_only
      /\ id \in DOMAIN own[p] =>
           \A k \in 1..Len(own[p][id].properties) : ~own[p][id].properties[k].read_only =>
             IF GivenBy(list, k) = {}
             THEN own'[p][id].properties[k].value = own[p][id].properties[k].value
             ELSE \A v \in GivenBy(list, k) : own'[p][id].properties[k].value = v
  BY <1>0, <1>1, <1>2, StoresOwn
<1>6. PeerStep(p)
  BY <1>0, <1>1, <1>4, <1>5 DEF PeerStep, rest
<1>7. OwnTypeOK(p)'
  BY <1>1, <1>4, <1>5 DEF OwnTypeOK
<1>8. \A n, k : UpdateGives(n, k)[msg] = IF n = id THEN GivenBy(list, k) ELSE {}
  BY <1>3, Gives
<1>9. \A n \in DOMAIN own'[p] :
           /\ Len(own'[p][n].properties) = Len(own[p][n].properties)
           /\ \A k \in 1..Len(own[p][n].properties) :
                /\ own'[p][n].properties[k].read_only = own[p][n].properties[k].read_only
                /\ ~own[p][n].properties[k].read_only =>
                     \/ /\ UpdateGives(n, k)[msg] = {}
                        /\ own'[p][n].properties[k].value = own[p][n].properties[k].value
                     \/ own'[p][n].properties[k].value \in UpdateGives(n, k)[msg]
  BY <1>5, <1>8
<1>10. PeerFollows(p)'
  <2>1. id < counter[p]
    BY <1>2
  <2>2. DOMAIN own'[p] = DOMAIN own[p] \ (IF msg.type = "module_removed" THEN {msg.id} ELSE {})
    BY <1>3, <1>5
  <2> QED BY <1>1, <1>3, <1>4, <1>6, <1>9, <2>1, <2>2, PeerSends
<1> QED BY <1>6, <1>7, <1>10, PeerStepFollows

\* A peer that reads what a page changed may differ from the host as to that module.
LEMMA PeerReadsFollows ==
  ASSUME TypeOK, ServerTypeOK, PeersTypeOK, FollowInv, NEW p \in Peer, PeerReads(p)
  PROVE  FollowInv'
<1>a. PICK json : json = Head(down[p])
  OBVIOUS
<1>0. /\ link[p] = "open" /\ UNCHANGED <<vars, server, link, up, rest, counter>>
      /\ down[p] # <<>> /\ down' = [down EXCEPT ![p] = Tail(@)]
      /\ Stores(p, json.id, json.properties)
  BY <1>a DEF PeerReads
<1>1. /\ OwnsTypeOK /\ OwnTypeOK(p) /\ PeerFollows(p) /\ DOMAIN own = Peer /\ DOMAIN down = Peer
      /\ down[p] \in Seq(ApplyMsg)
  BY <1>0 DEF FollowInv, OwnsTypeOK, OwnTypeOK
<1>2. /\ DOMAIN down' = Peer /\ down'[p] = Tail(down[p]) /\ \A q \in Peer \ {p} : down'[q] = down[q]
      /\ down'[p] \in Seq(ApplyMsg)
      /\ Range(down[p]) = {json} \cup Range(down'[p]) /\ json \in ApplyMsg
  <2>1. DOMAIN down' = Peer /\ down'[p] = Tail(down[p]) /\ \A q \in Peer \ {p} : down'[q] = down[q]
    BY <1>0, <1>1
  <2> QED BY <1>0, <1>1, <1>a, <2>1, MembersOf
<1>3. json.properties \in PropertyList
  BY <1>2 DEF ApplyMsg
<1>4. /\ DOMAIN own' = Peer /\ DOMAIN own'[p] = DOMAIN own[p]
      /\ \A q \in Peer \ {p} : own'[q] = own[q]
      /\ \A n \in DOMAIN own[p] : n # json.id => own'[p][n] = own[p][n]
      /\ \A n \in DOMAIN own[p] :
           own'[p][n] \in ModuleType /\ Fixed(own'[p][n].properties, Remote(p, n))
  BY <1>0, <1>1, <1>3, StoresOwn
<1>5. PeerStep(p)
  BY <1>0, <1>1, <1>2, <1>4 DEF PeerStep, rest
<1>6. OwnTypeOK(p)'
  BY <1>0, <1>1, <1>2, <1>4 DEF OwnTypeOK
<1>7. /\ \A n : Here(p, n)' = Here(p, n) /\ (IsAdded(p, n)' <=> IsAdded(p, n))
      /\ \A n : (Coming(p, n)' <=> Coming(p, n)) /\ (Leaving(p, n)' <=> Leaving(p, n))
      /\ \A n : Known(p, n)' <=> Known(p, n)
      /\ \A id : PageWrote(id)' <=> PageWrote(id)
  <2>1. /\ \A n : Here(p, n)' = Here(p, n) /\ (IsAdded(p, n)' <=> IsAdded(p, n))
        /\ \A id : PageWrote(id)' <=> PageWrote(id)
    BY <1>5, HostStays DEF PeerStep
  <2>2. \A n : (Coming(p, n)' <=> Coming(p, n)) /\ (Leaving(p, n)' <=> Leaving(p, n))
    BY <1>0 DEF Coming, Leaving
  <2> QED BY <2>1, <2>2 DEF Known
<1>8. ASSUME NEW n \in Nat PROVE Present(p, n)'
  <2>1. Present(p, n)
    BY <1>1 DEF PeerFollows
  <2> QED BY <1>0, <1>4, <1>7, <2>1 DEF Present
<1>9. Ordered(p)'
  BY <1>0, <1>1 DEF PeerFollows, Ordered
<1>10. Told(p)'
  <2>1. Told(p)
    BY <1>1 DEF PeerFollows
  <2> QED BY <1>0, <1>2, <1>7, <2>1 DEF Told
<1>11. ASSUME NEW n \in DOMAIN own'[p] PROVE FollowsAll(p, n)'
  <2>1. CASE n # json.id
    <3>1. own'[p][n] = own[p][n] /\ FollowsAll(p, n)
      BY <1>1, <1>4, <2>1 DEF PeerFollows
    <3>2. \A k, base : Becomes(p, n, k, base) => Becomes(p, n, k, base)'
      BY <1>0, <3>1 DEF Becomes
    <3>3. \A k : Follows(p, n, k) => Follows(p, n, k)'
      BY <1>5, <1>7, <3>2, FollowsStill DEF PeerStep
    <3> QED BY <3>1, <3>3 DEF FollowsAll
  <2>2. CASE n = json.id
    <3>1. ~Coming(p, n) /\ ~IsAdded(p, n) /\ \A id \in Here(p, n) : PageWrote(id)
      BY <1>1, <1>2, <2>2 DEF PeerFollows, Told
    <3>2. \A k : Follows(p, n, k)'
      BY <1>7, <3>1 DEF Follows
    <3> QED BY <3>2 DEF FollowsAll
  <2> QED BY <2>1, <2>2
<1>12. PeerFollows(p)'
  BY <1>8, <1>9, <1>10, <1>11 DEF PeerFollows
<1> QED BY <1>5, <1>6, <1>12, PeerStepFollows

LEMMA PeerEndsFollows ==
  ASSUME TypeOK, ServerTypeOK, PeersTypeOK, FollowInv, NEW p \in Peer, PeerEnds(p)
  PROVE  FollowInv'
<1>0. /\ link[p] = "open" /\ UNCHANGED <<vars, server, rest, counter>>
      /\ link' = [link EXCEPT ![p] = "lost"]
      /\ down' = [down EXCEPT ![p] = <<>>] /\ own' = [own EXCEPT ![p] = <<>>]
      /\ \E n \in 0..Len(up[p]) : up' = [up EXCEPT ![p] = SubSeq(@, 1, n)]
  BY DEF PeerEnds
<1>1. /\ DOMAIN own = Peer /\ DOMAIN down = Peer
      /\ link \in [Peer -> {"open", "lost", "closed"}] /\ up \in [Peer -> Seq(PushedMsg)]
  BY DEF FollowInv, OwnsTypeOK, PeersTypeOK
<1>2. PeerStep(p) /\ link'[p] = "lost" /\ own'[p] = <<>> /\ down'[p] = <<>>
  <2>1. \A q \in Peer \ {p} : up'[q] = up[q]
    BY <1>0, <1>1
  <2> QED BY <1>0, <1>1, <2>1 DEF PeerStep, rest
<1>3. OwnTypeOK(p)'
  <2>1. DOMAIN <<>> = {}
    <3>1. <<>> \in Seq(Int) /\ Len(<<>>) = 0
      BY EmptySeq
    <3>2. DOMAIN <<>> = 1..0
      BY <3>1, LenProperties
    <3> QED BY <3>2
  <2>2. <<>> \in Seq(ApplyMsg)
    BY EmptySeq
  <2> QED BY <1>2, <2>1, <2>2 DEF OwnTypeOK
<1> QED BY <1>2, <1>3, PeerStepFollows

-----------------------------------------------------------------------------
(* The module thread.                                                      *)

\* Modules that were registered as one differ in the values that may be set.
LEMMA FixedAlike ==
  ASSUME NEW module \in ModuleType, NEW a, NEW b, Fixed(a, module), Fixed(b, module)
  PROVE  /\ Len(a) = Len(b)
         /\ \A k \in 1..Len(a) :
              /\ a[k].read_only = b[k].read_only
              /\ a[k].read_only \/ a[k].value = b[k].value => a[k] = b[k]
<1>1. \A k \in 1..Len(module.properties) : module.properties[k] \in Property
  BY ElementOfSeq DEF ModuleType
<1>2. Len(a) = Len(module.properties) /\ Len(b) = Len(module.properties)
  BY DEF Fixed
<1>3. ASSUME NEW k \in 1..Len(module.properties)
      PROVE  /\ a[k].read_only = b[k].read_only
             /\ a[k].read_only \/ a[k].value = b[k].value => a[k] = b[k]
  <2>1. PICK theirs \in Property : theirs = module.properties[k]
    BY <1>1
  <2>2. /\ a[k] = IF theirs.read_only THEN theirs ELSE [theirs EXCEPT !.value = a[k].value]
        /\ b[k] = IF theirs.read_only THEN theirs ELSE [theirs EXCEPT !.value = b[k].value]
    BY <1>2, <2>1 DEF Fixed
  <2>3. \A v : [theirs EXCEPT !.value = v].read_only = theirs.read_only
    BY DEF Property
  <2> QED BY <2>2, <2>3
<1> QED BY <1>2, <1>3

\* What a task stores, and what it relays, where it is the page's or that of an entry.
LEMMA TaskStores ==
  ASSUME TypeOK, RunTask, TaskFollows(Head(loop))
  PROVE  /\ \A id \in DOMAIN modules \cap DOMAIN modules' :
              IF Head(loop).op = "SavePropertiesList" /\ Head(loop).id = id
              THEN modules'[id].properties
                     = SavedProperties(modules[id].properties, Head(loop).properties)
              ELSE modules'[id] = modules[id] \/ PageWrote(id)
         /\ \/ out'.relayed = <<>>
            \/ \E json \in ApplyMsg : out'.relayed = <<json>> /\ PageWrote(json.id)
<1>0. loop # <<>> /\ loop' = Tail(loop)
  BY DEF RunTask, OnProxyInitialized, DoRegisterModule, UnregisterModule, SaveUpdate,
       PushUpdate, DoProcessJSRequest, PassPeerUpdate, Takes
<1>1. Head(loop) \in Task /\ modules \in [DOMAIN modules -> ModuleType] /\ idCounter \notin DOMAIN modules
  BY <1>0, TasksOf DEF TypeOK, ModulesTypeOK
<1> DEFINE Stored(id) ==
      IF Head(loop).op = "SavePropertiesList" /\ Head(loop).id = id
      THEN modules'[id].properties
             = SavedProperties(modules[id].properties, Head(loop).properties)
      ELSE modules'[id] = modules[id] \/ PageWrote(id)
    Relayed == \/ out'.relayed = <<>>
               \/ \E json \in ApplyMsg : out'.relayed = <<json>> /\ PageWrote(json.id)
<1>2. \A msg : HandleMessage(msg) => out'.relayed = <<>>
  BY DEF HandleMessage, Pushes, Silent
<1>3. CASE OnProxyInitialized \/ DoRegisterModule \/ UnregisterModule \/ PushUpdate
  <2>1. Head(loop).op # "SavePropertiesList"
    BY <1>3 DEF OnProxyInitialized, DoRegisterModule, UnregisterModule, PushUpdate, Takes
  <2>2. out'.relayed = <<>>
    BY <1>2, <1>3 DEF OnProxyInitialized, DoRegisterModule, UnregisterModule, PushUpdate, Pushes
  <2>3. \A id \in DOMAIN modules \cap DOMAIN modules' : modules'[id] = modules[id]
    BY <1>1, <1>3 DEF OnProxyInitialized, DoRegisterModule, UnregisterModule, PushUpdate,
       Insert, Erase, Restrict
  <2> QED BY <2>1, <2>2, <2>3
<1>4. CASE SaveUpdate
  <2>1. /\ SavePropertiesList(Head(loop).id, Head(loop).properties) /\ out'.relayed = <<>>
        /\ Head(loop).op = "SavePropertiesList"
    BY <1>4 DEF SaveUpdate, Takes, Silent, Pushes
  <2>2. ASSUME NEW id \in DOMAIN modules PROVE Stored(id)
    <3>1. modules'[id] = IF id = Head(loop).id
                         THEN [modules[id] EXCEPT !.properties = SavedProperties(@, Head(loop).properties)]
                         ELSE modules[id]
      BY <2>1 DEF SavePropertiesList
    <3> QED BY <1>1, <2>1, <3>1 DEF ModuleType
  <2> QED BY <2>1, <2>2
<1>5. CASE DoProcessJSRequest
  <2>1. PICK json : json = Head(loop).json
    OBVIOUS
  <2>2. /\ Head(loop).op = "DoProcessJSRequest" /\ json.type = "apply" /\ PageWrote(json.id)
        /\ json \in ApplyMsg
    <3>1. Head(loop).op = "DoProcessJSRequest"
      BY <1>5 DEF DoProcessJSRequest, Takes
    <3>2. json \in Request
      BY <1>1, <2>1, <3>1 DEF Task
    <3> QED BY <2>1, <3>1, <3>2 DEF TaskFollows, Request, LoadMsg, Malformed, UnknownType
  <2>3. \E to : PassPropertyUpdateToModule(json, to)
    BY <1>5, <2>1, <2>2 DEF DoProcessJSRequest
  <2>4. FindId(json) = json.id
    BY <2>2 DEF FindId
  <2>5. Relayed
    BY <2>2, <2>3 DEF PassPropertyUpdateToModule, Silent, Pushes, Relays
  <2>6. UNCHANGED modules \/ \E list : SavePropertiesList(json.id, list)
    BY <2>3, <2>4 DEF PassPropertyUpdateToModule
  <2>7. \A id \in DOMAIN modules : modules'[id] = modules[id] \/ id = json.id
    BY <2>6 DEF SavePropertiesList
  <2> QED BY <2>2, <2>5, <2>7
<1>6. CASE PassPeerUpdate
  BY <1>6 DEF PassPeerUpdate, Takes, TaskFollows
<1> QED BY <1>3, <1>4, <1>5, <1>6 DEF RunTask

\* What the module thread relays to a peer.
LEMMA Relayed ==
  ASSUME ServerInv, NEW jsons, HandlePropertyUpdate(jsons), NEW p \in Peer,
         jsons = <<>> \/ \E json \in ApplyMsg : jsons = <<json>> /\ PageWrote(json.id)
  PROVE  \/ down'[p] = down[p]
         \/ \E json \in ApplyMsg, id \in DOMAIN remoteModules :
              /\ down'[p] = Append(down[p], json)
              /\ remoteModules[id] = Entry(json.id, p) /\ json.id \in Nat /\ PageWrote(id)
<1>1. CASE down'[p] = down[p]
  BY <1>1
<1>2. CASE down'[p] # down[p]
  <2>1. /\ jsons # <<>> /\ Head(jsons).id \in ModulesOf(p)
        /\ down'[p] = Append(down[p], SetId(Head(jsons), remoteModules[Head(jsons).id].remote))
    BY <1>2 DEF HandlePropertyUpdate
  <2>2. PICK json \in ApplyMsg : jsons = <<json>> /\ PageWrote(json.id)
    BY <2>1
  <2>3. Head(jsons) = json
    BY <2>2
  <2>4. PICK id : id = json.id
    OBVIOUS
  <2>5. id \in DOMAIN remoteModules /\ remoteModules[id].client = p /\ PageWrote(id)
    BY <2>1, <2>2, <2>3, <2>4 DEF ModulesOf
  <2>6. PICK n : n = remoteModules[id].remote
    OBVIOUS
  <2>7. n \in 0..MaxMessages
    BY <2>5, <2>6 DEF ServerInv, Owners
  <2>8. remoteModules[id] = Entry(n, p)
    <3>1. remoteModules[id] \in [remote : Int, client : Peer]
      BY <2>5 DEF ServerInv, ServerTypeOK
    <3> QED BY <2>5, <2>6, <3>1 DEF Entry
  <2>9. SetId(json, n) \in ApplyMsg /\ SetId(json, n).id = n
    BY <2>7 DEF SetId, ApplyMsg
  <2>10. PICK msg : msg = SetId(json, n)
    OBVIOUS
  <2>11. down'[p] = Append(down[p], msg) /\ msg \in ApplyMsg /\ msg.id = n /\ n \in Nat
    BY <2>1, <2>3, <2>4, <2>6, <2>7, <2>9, <2>10
  <2> QED BY ONLY <2>5, <2>8, <2>11
<1> QED BY <1>1, <1>2

\* What the tasks are, once one is run.
LEMMA RunsTasks ==
  ASSUME TypeOK, RegistrationsAccounted, ServerInv, FollowInv, Runs
  PROVE  /\ loop # <<>> /\ loop' = Tail(loop) /\ Tasks = {Head(loop)} \cup Tasks'
         /\ Head(loop) \in Task /\ TaskFollows(Head(loop))
         /\ \A id \in idPromise'[Net] :
              \/ id \in idPromise[Net]
              \/ id = idCounter /\ Registers(Head(loop)) /\ modules'[id] = Head(loop).module
         /\ \A task \in Tasks' : TaskFollows(task)'
<1>0. RunTask /\ UNCHANGED writers /\ Net \in Thread
  BY ProxyServerAssumption DEF Runs
<1>1. loop # <<>> /\ loop' = Tail(loop)
  BY <1>0 DEF RunTask, OnProxyInitialized, DoRegisterModule, UnregisterModule, SaveUpdate,
       PushUpdate, DoProcessJSRequest, PassPeerUpdate, Takes
<1>2. Tasks = {Head(loop)} \cup Tasks' /\ Head(loop) \in Task /\ Tasks \subseteq Task
  BY <1>1, TasksOf
<1>3. \A task \in Tasks : TaskFollows(task)
  BY DEF FollowInv, TasksFollow
<1>4. idCounter \in Nat /\ idCounter' \in Nat /\ idCounter <= idCounter'
  BY <1>0, TaskModules DEF TypeOK, ModulesTypeOK
<1>5. idCounter \notin DOMAIN modules
  BY <1>4 DEF TypeOK, ModulesTypeOK
<1>6. ASSUME NEW id \in idPromise'[Net]
      PROVE  \/ id \in idPromise[Net]
             \/ id = idCounter /\ Registers(Head(loop)) /\ modules'[id] = Head(loop).module
  <2>1. CASE DoRegisterModule /\ Net \in Head(loop).to
    <3>1. Registers(Head(loop))
      BY <2>1 DEF Registers, DoRegisterModule, Takes
    <3>2. idPromise'[Net] = {idCounter} /\ idCounter \in DOMAIN modules'
      BY <1>0, <2>1, TaskModules
    <3>3. modules'[idCounter] = Head(loop).module
      BY <1>0, <1>5, <3>2, TaskModules
    <3> QED BY <3>1, <3>2, <3>3
  <2>2. CASE ~(DoRegisterModule /\ Net \in Head(loop).to)
    BY <1>0, <2>2, TaskModules
  <2> QED BY <2>1, <2>2
<1>7. ASSUME NEW task \in Tasks' PROVE TaskFollows(task)'
  <2>1. TaskFollows(task) /\ task \in Task
    BY <1>2, <1>3
  <2>2. task.op = "SavePropertiesList" => task.id < idCounter' /\ task.id \notin idPromise'[Net]
    <3>1. task.op = "SavePropertiesList" => task.id \in Int
      BY <2>1 DEF Task
    <3> QED BY <1>4, <1>6, <2>1, <3>1 DEF TaskFollows
  <2>3. \A id : PageWrote(id)' <=> PageWrote(id)
    BY <1>0 DEF PageWrote
  <2> QED BY <2>1, <2>2, <2>3 DEF TaskFollows
<1> QED BY <1>1, <1>2, <1>3, <1>6, <1>7

\* A task keeps what holds of a property of a module of a peer.
LEMMA RunsFollowsOne ==
  ASSUME TypeOK, RegistrationsAccounted, ServerInv, PeersTypeOK, FollowInv, Runs,
         NEW p \in Peer, NEW n \in DOMAIN own[p], NEW k \in 1..Len(own[p][n].properties),
         ~own[p][n].properties[k].read_only, Follows(p, n, k)
  PROVE  Follows(p, n, k)'
<1>0. /\ RunTask /\ UNCHANGED <<server, up, own, writers>>
  BY DEF Runs
<1>1. /\ loop # <<>> /\ loop' = Tail(loop) /\ Tasks = {Head(loop)} \cup Tasks'
      /\ Head(loop) \in Task /\ TaskFollows(Head(loop))
      /\ \A id \in idPromise'[Net] :
           \/ id \in idPromise[Net]
           \/ id = idCounter /\ Registers(Head(loop)) /\ modules'[id] = Head(loop).module
  BY RunsTasks
<1>2. \A id \in DOMAIN modules \cap DOMAIN modules' :
        IF Head(loop).op = "SavePropertiesList" /\ Head(loop).id = id
        THEN modules'[id].properties
               = SavedProperties(modules[id].properties, Head(loop).properties)
        ELSE modules'[id] = modules[id] \/ PageWrote(id)
  BY <1>0, <1>1, TaskStores
<1>3. ServerInv'
  BY RunsKeeps
<1>4. /\ \A id \in DOMAIN remoteModules : id \in DOMAIN modules /\ id \in DOMAIN modules'
      /\ \A id \in idPromise[Net] : id \in DOMAIN modules
      /\ \A id \in idPromise'[Net] : id \in DOMAIN modules'
  BY <1>0, <1>3 DEF ServerInv, Found, server
<1>5. /\ \A i : Here(p, i)' = Here(p, i) /\ (IsAdded(p, i)' <=> IsAdded(p, i))
      /\ \A i : Coming(p, i)' <=> Coming(p, i)
      /\ \A id : PageWrote(id)' <=> PageWrote(id)
      /\ \A base : Becomes(p, n, k, base)' <=> Becomes(p, n, k, base)
  BY <1>0 DEF Here, IsAdded, Coming, PageWrote, Becomes, server
<1>6. Coming(p, n)' => Becomes(p, n, k, Remote(p, n).properties[k].value)'
  BY <1>5 DEF Follows
<1>7. IsAdded(p, n)' => \A task \in Tasks' :
        Registers(task) => Becomes(p, n, k, task.module.properties[k].value)'
  <2>1. IsAdded(p, n) => \A task \in Tasks :
          Registers(task) => Becomes(p, n, k, task.module.properties[k].value)
    BY DEF Follows
  <2> QED BY <1>1, <1>5, <2>1
<1>8. ASSUME IsAdded(p, n)', NEW id \in idPromise'[Net]
      PROVE  PageWrote(id)' \/ Becomes(p, n, k, modules[id].properties[k].value)'
  <2>0. IsAdded(p, n)
    BY <1>5, <1>8
  <2>1. CASE id \in idPromise[Net]
    <3>1. PageWrote(id) \/ Becomes(p, n, k, modules[id].properties[k].value)
      BY <2>0, <2>1 DEF Follows
    <3>2. ~(Head(loop).op = "SavePropertiesList" /\ Head(loop).id = id)
      BY <1>1, <2>1 DEF TaskFollows
    <3>3. modules'[id] = modules[id] \/ PageWrote(id)
      BY <1>2, <1>4, <1>8, <2>1, <3>2
    <3> QED BY <1>5, <3>1, <3>3
  <2>2. CASE Registers(Head(loop)) /\ modules'[id] = Head(loop).module
    <3>1. Becomes(p, n, k, Head(loop).module.properties[k].value)
      BY <1>1, <2>0, <2>2 DEF Follows
    <3> QED BY <1>5, <2>2, <3>1
  <2> QED BY <1>1, <1>8, <2>1, <2>2
<1>9. ASSUME NEW id \in Here(p, n), ~PageWrote(id)
      PROVE  Reaches(p, n, k, id)'
  <2>1. id \in DOMAIN remoteModules /\ remoteModules[id] = Entry(n, p)
    BY DEF Here
  <2>2. PICK w \in Value : /\ EndsIn(loop, SaveGives(id, k), modules[id].properties[k].value, w)
                           /\ Becomes(p, n, k, w)
    BY <1>9 DEF Follows, Reaches
  <2>3. /\ k \in 1..Len(modules[id].properties) /\ ~modules[id].properties[k].read_only
        /\ modules[id].properties \in Seq(Property)
    <3>1. n \in 0..MaxMessages /\ Fixed(modules[id].properties, Remote(p, n))
      BY <2>1 DEF ServerInv, Owners, Entry
    <3>2. Remote(p, n) \in ModuleType /\ Fixed(own[p][n].properties, Remote(p, n))
      BY <3>1, ProxyServerAssumption DEF FollowInv, OwnsTypeOK, OwnTypeOK
    <3>3. modules[id].properties \in Seq(Property)
      BY <1>4, <2>1 DEF TypeOK, ModulesTypeOK, ModuleType
    <3> QED BY <3>1, <3>2, <3>3, FixedAlike
  <2>4. SaveGives(id, k)[Head(loop)] = IF Head(loop).op = "SavePropertiesList" /\ Head(loop).id = id
                                       THEN GivenBy(Head(loop).properties, k) ELSE {}
    BY <1>1 DEF SaveGives
  <2>5. IF SaveGives(id, k)[Head(loop)] = {}
        THEN modules'[id].properties[k].value = modules[id].properties[k].value
        ELSE \A x \in SaveGives(id, k)[Head(loop)] : modules'[id].properties[k].value = x
    <3>1. CASE Head(loop).op = "SavePropertiesList" /\ Head(loop).id = id
      <4>1. Head(loop).properties \in PropertyList
        BY <1>1, <3>1 DEF Task
      <4>2. modules'[id].properties = SavedProperties(modules[id].properties, Head(loop).properties)
        BY <1>2, <1>4, <2>1, <3>1
      <4> QED BY <2>3, <2>4, <3>1, <4>1, <4>2, SavedPropertiesGiven
    <3>2. CASE ~(Head(loop).op = "SavePropertiesList" /\ Head(loop).id = id)
      <4>1. modules'[id] = modules[id]
        BY <1>2, <1>4, <1>9, <2>1, <3>2
      <4> QED BY <2>4, <3>2, <4>1
    <3> QED BY <3>1, <3>2
  <2>6. EndsIn(loop', SaveGives(id, k), modules'[id].properties[k].value, w)
    <3>1. loop \in Seq(Task) /\ loop # <<>>
      BY <1>1 DEF TypeOK
    <3>2. PICK given, after : given = SaveGives(id, k) /\ after = modules'[id].properties[k].value
      OBVIOUS
    <3>3. EndsIn(Tail(loop), given, after, w)
      BY <2>2, <2>5, <3>1, <3>2, EndsTail
    <3> QED BY <1>1, <3>2, <3>3
  <2> QED BY <1>5, <2>2, <2>6 DEF Reaches
<1>10. \A id \in Here(p, n)' : PageWrote(id)' \/ Reaches(p, n, k, id)'
  BY <1>5, <1>9
<1> QED BY <1>6, <1>7, <1>8, <1>10 DEF Follows

LEMMA RunsFollows ==
  ASSUME TypeOK, RegistrationsAccounted, ServerInv, PeersTypeOK, FollowInv, Runs
  PROVE  FollowInv'
<1>0. /\ RunTask /\ UNCHANGED <<server, link, up, own, counter, writers>>
      /\ HandlePropertyUpdate(out'.relayed)
  BY DEF Runs
<1>1. TaskFollows(Head(loop)) /\ \A task \in Tasks' : TaskFollows(task)'
  BY RunsTasks
<1>2. out'.relayed = <<>> \/ \E json \in ApplyMsg : out'.relayed = <<json>> /\ PageWrote(json.id)
  BY <1>0, <1>1, TaskStores
<1>3. ASSUME NEW p \in Peer
      PROVE  \/ down'[p] = down[p]
             \/ \E json \in ApplyMsg, id \in DOMAIN remoteModules :
                  /\ down'[p] = Append(down[p], json)
                  /\ remoteModules[id] = Entry(json.id, p) /\ json.id \in Nat /\ PageWrote(id)
  <2>1. PICK jsons : jsons = out'.relayed
    OBVIOUS
  <2> QED BY ONLY ServerInv, <1>0, <1>2, <1>3, <2>1, Relayed
<1>4. OwnsTypeOK'
  <2>1. DOMAIN down' = Peer
    BY <1>0 DEF HandlePropertyUpdate
  <2>2. \A p \in Peer : down'[p] \in Seq(ApplyMsg)
    <3>1. \A p \in Peer : down[p] \in Seq(ApplyMsg)
      BY DEF FollowInv, OwnsTypeOK, OwnTypeOK
    <3> QED BY <1>3, <3>1, AppendProperties
  <2> QED BY <1>0, <2>1, <2>2 DEF FollowInv, OwnsTypeOK, OwnTypeOK
<1>5. TasksFollow'
  BY <1>0, <1>1 DEF FollowInv, TasksFollow, server
<1>6. ASSUME NEW p \in Peer, link'[p] = "open" PROVE PeerFollows(p)'
  <2>0. PeerFollows(p)
    BY <1>0, <1>6 DEF FollowInv
  <2>1. /\ \A n : Here(p, n)' = Here(p, n) /\ (IsAdded(p, n)' <=> IsAdded(p, n))
        /\ \A n : (Coming(p, n)' <=> Coming(p, n)) /\ (Leaving(p, n)' <=> Leaving(p, n))
        /\ \A id : PageWrote(id)' <=> PageWrote(id)
    BY <1>0 DEF Here, IsAdded, Coming, Leaving, PageWrote, server
  <2>2. \A n : Known(p, n)' <=> Known(p, n)
    BY <2>1 DEF Known
  <2>3. ASSUME NEW n \in Nat PROVE Present(p, n)'
    <3>1. Present(p, n)
      BY <2>0 DEF PeerFollows
    <3> QED BY <1>0, <2>1, <2>2, <3>1 DEF Present
  <2>4. Ordered(p)'
    BY <1>0, <2>0 DEF PeerFollows, Ordered
  <2>5. Told(p)'
    <3>1. Told(p) /\ down[p] \in Seq(ApplyMsg)
      BY <2>0 DEF PeerFollows, FollowInv, OwnsTypeOK, OwnTypeOK
    <3>2. CASE down'[p] = down[p]
      BY <1>0, <2>1, <3>1, <3>2 DEF Told
    <3>3. ASSUME NEW json \in ApplyMsg, NEW id \in DOMAIN remoteModules,
                 down'[p] = Append(down[p], json), remoteModules[id] = Entry(json.id, p),
                 json.id \in Nat, PageWrote(id)
          PROVE  Told(p)'
      <4>1. id \in Here(p, json.id)
        BY <3>3 DEF Here
      <4>2. Present(p, json.id) /\ Known(p, json.id)
        BY <2>0, <3>3, <4>1 DEF PeerFollows, Known
      <4>3. /\ json.id < counter[p] /\ ~Coming(p, json.id) /\ ~IsAdded(p, json.id)
            /\ \A i \in Here(p, json.id) : PageWrote(i)
        BY <3>3, <4>1, <4>2 DEF Present
      <4>4. Range(down'[p]) = Range(down[p]) \cup {json}
        BY <3>1, <3>3, MembersOf
      <4> QED BY <1>0, <2>1, <3>1, <4>3, <4>4 DEF Told
    <3> QED BY <1>3, <3>2, <3>3
  <2>6. ASSUME NEW n \in DOMAIN own'[p] PROVE FollowsAll(p, n)'
    <3>1. n \in DOMAIN own[p] /\ FollowsAll(p, n)
      BY <1>0, <2>0 DEF PeerFollows
    <3>2. \A k \in 1..Len(own[p][n].properties) :
            ~own[p][n].properties[k].read_only => Follows(p, n, k)'
      BY <3>1, RunsFollowsOne DEF FollowsAll
    <3> QED BY <1>0, <3>2 DEF FollowsAll
  <2> QED BY <2>3, <2>4, <2>5, <2>6 DEF PeerFollows
<1> QED BY <1>4, <1>5, <1>6 DEF FollowInv

-----------------------------------------------------------------------------
(* The network thread.                                                     *)

\* The step of the network thread, as far as the instances and the queue go.
NetStep ==
  /\ UNCHANGED <<own, down, counter, modules, idCounter>>
  /\ \A p \in Peer : link[p] = "open" => link'[p] = "open"
  /\ \A id \in idPromise'[Net] : id \in idPromise[Net]
  /\ writers' \in [ModuleId -> SUBSET {"owner", "page"}]
  /\ \A id : PageWrote(id)' <=> PageWrote(id)
  /\ UNCHANGED loop \/ \E task \in Task : Post(task) /\ TaskFollows(task)'
  /\ reading'.at = "closing" => link'[reading'.client] = "closed"

LEMMA NetStepFollows ==
  ASSUME TypeOK, FollowInv, NetStep, \A p \in Peer : link'[p] = "open" => PeerFollows(p)'
  PROVE  FollowInv'
<1>1. OwnsTypeOK'
  BY DEF NetStep, FollowInv, OwnsTypeOK, OwnTypeOK
<1>2. TasksFollow'
  <2>1. \A task \in Tasks : TaskFollows(task)'
    BY DEF NetStep, FollowInv, TasksFollow, TaskFollows
  <2>2. \A task \in Tasks' : task \in Tasks \/ TaskFollows(task)'
    BY TasksOf DEF NetStep
  <2> QED BY <2>1, <2>2 DEF NetStep, TasksFollow
<1> QED BY <1>1, <1>2 DEF FollowInv

\* What is posted about other modules leaves what is to come of one.
LEMMA ReachesStill ==
  ASSUME TypeOK, NEW p, NEW n, NEW k, NEW id, Reaches(p, n, k, id), UNCHANGED modules,
         \A base : Becomes(p, n, k, base) => Becomes(p, n, k, base)',
         \/ UNCHANGED loop
         \/ \E task \in Task :
              Post(task) /\ ~(task.op = "SavePropertiesList" /\ task.id = id)
  PROVE  Reaches(p, n, k, id)'
<1>1. PICK w \in Value : /\ EndsIn(loop, SaveGives(id, k), modules[id].properties[k].value, w)
                         /\ Becomes(p, n, k, w)
  BY DEF Reaches
<1>2. EndsIn(loop', SaveGives(id, k), modules[id].properties[k].value, w)
  <2>1. CASE UNCHANGED loop
    BY <1>1, <2>1
  <2>2. ASSUME NEW task \in Task, Post(task),
               ~(task.op = "SavePropertiesList" /\ task.id = id)
        PROVE  EndsIn(loop', SaveGives(id, k), modules[id].properties[k].value, w)
    <3>1. SaveGives(id, k)[task] = {} /\ loop \in Seq(Task) /\ loop' = Append(loop, task)
      BY <2>2 DEF SaveGives, Post, TypeOK
    <3> QED BY <1>1, <3>1, EndsAppend
  <2> QED BY <2>1, <2>2
<1> QED BY <1>1, <1>2 DEF Reaches

\* The entry a message is looked up by.
LEMMA LookedUpHere ==
  ASSUME TypeOK, ServerInv, NEW p \in Peer, NEW n
  PROVE  \/ LocalIdFromRemote(n, p) = NoId /\ Here(p, n) = {}
         \/ LocalIdFromRemote(n, p) \in Here(p, n)
<1>1. Here(p, n) \in SUBSET Nat
  BY LookedUp DEF ServerInv, Here
<1>2. Here(p, n) # {} => Least(Here(p, n)) \in Here(p, n)
  BY <1>1, LeastIsOne
<1> QED BY <1>2 DEF LocalIdFromRemote, Here

\* RegisterModule returns: the module is entered under the id of the promise.
LEMMA OnModuleAddedFollows ==
  ASSUME TypeOK, RegistrationsAccounted, ServerInv, PeersTypeOK, FollowInv, OnModuleAdded
  PROVE  FollowInv'
<1>a. PICK q : q = reading.client
  OBVIOUS
<1>b. PICK m : m = reading.remote
  OBVIOUS
<1>0. /\ reading.at = "adding" /\ reading' = Idle /\ idPromise'[Net] = {}
      /\ UNCHANGED <<loop, modules, idCounter, peers, writers>>
  BY ProxyServerAssumption DEF OnModuleAdded, RegisterReturns, Outside, instance, started,
     rest, TypeOK, CallersTypeOK
<1>1. PICK new \in idPromise[Net] : AddModule(new, m, q)
  BY <1>a, <1>b DEF OnModuleAdded
<1>2. /\ idPromise[Net] = {new} /\ new \notin DOMAIN remoteModules /\ new \in DOMAIN modules
      /\ IsRead(modules[new])
  BY DEF ServerInv, Adding, Found
<1>3. /\ DOMAIN remoteModules' = DOMAIN remoteModules \cup {new}
      /\ remoteModules'[new] = Entry(m, q)
      /\ \A i \in DOMAIN remoteModules : remoteModules'[i] = remoteModules[i]
  BY <1>1, <1>2 DEF AddModule
<1>4. reading = [at |-> "adding", remote |-> m, client |-> q] /\ q \in Peer
  BY <1>0, <1>a, <1>b DEF ServerInv, ServerTypeOK, Idle
<1>5. /\ \A p, n : IsAdded(p, n) <=> p = q /\ n = m
      /\ \A p, n : ~IsAdded(p, n)'
      /\ \A p, n : ~(p = q /\ n = m) => Here(p, n)' = Here(p, n)
      /\ Here(q, m)' = Here(q, m) \cup {new}
  <2>1. \A p, n : IsAdded(p, n) <=> p = q /\ n = m
    BY <1>4 DEF IsAdded
  <2>2. \A p, n : ~IsAdded(p, n)'
    BY <1>0 DEF IsAdded, Idle
  <2>3. \A p, n : Entry(n, p) = Entry(m, q) <=> p = q /\ n = m
    BY DEF Entry
  <2> QED BY <1>2, <1>3, <2>1, <2>2, <2>3 DEF Here
<1>6. /\ UNCHANGED <<up, own, counter, down, link>>
      /\ \A id : PageWrote(id)' <=> PageWrote(id)
      /\ \A p, n : (Coming(p, n)' <=> Coming(p, n)) /\ (Leaving(p, n)' <=> Leaving(p, n))
      /\ \A p, n, k, base : Becomes(p, n, k, base)' <=> Becomes(p, n, k, base)
      /\ UNCHANGED Tasks
  BY <1>0, TasksOf DEF PageWrote, peers, Coming, Leaving, Becomes
<1>7. NetStep
  BY <1>0, <1>6 DEF NetStep, Idle, FollowInv, OwnsTypeOK
<1>8. ASSUME NEW p \in Peer \ {q}, link'[p] = "open" PROVE PeerFollows(p)'
  <2>1. KeptFor(p)
    BY <1>0, <1>5, <1>6 DEF KeptFor
  <2>2. PeerFollows(p)
    BY <1>6, <1>8 DEF FollowInv
  <2> QED BY <2>1, <2>2, KeptFollows
<1>9. ASSUME link'[q] = "open" PROVE PeerFollows(q)'
  <2>0. PeerFollows(q) /\ m \in 0..MaxMessages
    BY <1>2, <1>4, <1>6, <1>9, <1>b DEF FollowInv, IsRead
  <2>1. Present(q, m) /\ IsAdded(q, m) /\ ~Coming(q, m) /\ Here(q, m) = {} /\ Here(q, m)' = {new}
    BY <1>5, <2>0 DEF PeerFollows, Present
  <2>2. ASSUME NEW n \in Nat PROVE Present(q, n)'
    <3>1. Present(q, n)
      BY <2>0 DEF PeerFollows
    <3>2. CASE n = m
      BY <1>5, <1>6, <2>1, <3>1, <3>2 DEF Present, Known
    <3>3. CASE n # m
      BY <1>5, <1>6, <3>1, <3>3 DEF Present, Known
    <3> QED BY <3>2, <3>3
  <2>3. Ordered(q)'
    BY <1>6, <2>0 DEF PeerFollows, Ordered
  <2>4. Told(q)'
    <3>1. Told(q)
      BY <2>0 DEF PeerFollows
    <3> QED BY <1>5, <1>6, <3>1 DEF Told
  <2>5. ASSUME NEW n \in DOMAIN own[q], NEW k \in 1..Len(own[q][n].properties), Follows(q, n, k)
        PROVE  Follows(q, n, k)'
    <3>1. Coming(q, n)' => Becomes(q, n, k, Remote(q, n).properties[k].value)'
      BY <1>6, <2>5 DEF Follows
    <3>2. ASSUME NEW id \in Here(q, n)', ~PageWrote(id)
          PROVE  Reaches(q, n, k, id)'
      <4>1. CASE n = m
        <5>1. id = new /\ Becomes(q, n, k, modules[new].properties[k].value)
          BY <2>1, <2>5, <3>2, <4>1 DEF Follows
        <5>2. modules[new].properties[k].value \in Value
          <6>1. Fixed(modules[new].properties, Remote(q, m)) /\ Remote(q, m) \in ModuleType
            BY <1>2, <1>4, <2>0, ProxyServerAssumption DEF IsRead
          <6>2. Fixed(own[q][n].properties, Remote(q, m))
            BY <1>4, <4>1 DEF FollowInv, OwnsTypeOK, OwnTypeOK
          <6>3. k \in 1..Len(modules[new].properties)
            BY <6>1, <6>2, FixedAlike
          <6>4. modules[new].properties \in Seq(Property)
            BY <1>2 DEF TypeOK, ModulesTypeOK, ModuleType
          <6>5. modules[new].properties[k] \in Property
            BY <6>3, <6>4, ElementOfSeq
          <6> QED BY <6>5 DEF Property
        <5>3. EndsIn(loop, SaveGives(new, k), modules[new].properties[k].value,
                     modules[new].properties[k].value)
          <6>1. \A task \in Tasks : ~(task.op = "SavePropertiesList" /\ task.id = new)
            BY DEF FollowInv, TasksFollow, TaskFollows
          <6>2. \A i \in 1..Len(loop) : loop[i] \in Tasks /\ loop[i] \in Task
            BY MembersOf, ElementOfSeq DEF TypeOK, Tasks
          <6>3. \A i \in 1..Len(loop) : SaveGives(new, k)[loop[i]] = {}
            BY <6>1, <6>2 DEF SaveGives
          <6> QED BY <6>3 DEF EndsIn
        <5> QED BY <1>0, <1>6, <5>1, <5>2, <5>3 DEF Reaches
      <4>2. CASE n # m
        <5>1. Reaches(q, n, k, id)
          BY <1>5, <2>5, <3>2, <4>2 DEF Follows
        <5> QED BY <1>0, <1>6, <5>1, ReachesStill
      <4> QED BY <4>1, <4>2
    <3> QED BY <1>5, <1>6, <3>1, <3>2 DEF Follows
  <2>6. ASSUME NEW n \in DOMAIN own'[q] PROVE FollowsAll(q, n)'
    <3>1. n \in DOMAIN own[q] /\ FollowsAll(q, n)
      BY <1>6, <2>0 DEF PeerFollows
    <3> QED BY <1>6, <2>5, <3>1 DEF FollowsAll
  <2> QED BY <2>2, <2>3, <2>4, <2>6 DEF PeerFollows
<1>10. \A p \in Peer : link'[p] = "open" => PeerFollows(p)'
  BY <1>8, <1>9
<1> QED BY <1>7, <1>10, NetStepFollows

\* The modules of a peer that is gone are none of those that are connected.
LEMMA RemoveClientsModulesFollows ==
  ASSUME TypeOK, ServerInv, FollowInv, RemoveClientsModules
  PROVE  FollowInv'
<1> DEFINE q == reading.client
           ids == ModulesOf(q)
<1>0. reading.at = "closing" /\ UNCHANGED <<peers, writers>> /\ link[q] = "closed"
  BY DEF RemoveClientsModules, rest, FollowInv, TasksFollow
<1>1. \/ /\ ids # {} /\ CallUnregisterModule(Net, Least(ids)) /\ RemoveModule(Least(ids))
         /\ UNCHANGED reading
      \/ reading' = Idle /\ UNCHANGED <<vars, remoteModules>>
  BY DEF RemoveClientsModules
<1>2. ids # {} => Least(ids) \in ids
  BY LookedUp DEF ServerInv
<1>3. /\ UNCHANGED <<modules, idCounter, idPromise>>
      /\ \/ UNCHANGED loop
         \/ \E id \in Int : Post(Removal(id))
  BY <1>1, <1>2 DEF vars, CallUnregisterModule, Outside, instance, started, promises, Removal,
     ModulesOf, ServerInv, ServerTypeOK
<1>4. \A id \in Int : /\ Removal(id) \in Task /\ Removal(id).op = "UnregisterModule"
                      /\ TaskFollows(Removal(id))'
  BY DEF Removal, Task, TaskFollows
<1>5. /\ UNCHANGED <<up, own, counter, down, link>>
      /\ \A id : PageWrote(id)' <=> PageWrote(id)
  BY <1>0 DEF PageWrote, peers
<1>6. reading' = reading \/ reading' = Idle
  BY <1>1
<1>7. NetStep
  BY <1>0, <1>3, <1>4, <1>5, <1>6 DEF NetStep, FollowInv, OwnsTypeOK, Idle
<1>8. ASSUME NEW p \in Peer, link'[p] = "open" PROVE PeerFollows(p)'
  <2>1. PeerFollows(p) /\ p # q
    BY <1>0, <1>5, <1>8 DEF FollowInv
  <2>2. \A n : Here(p, n)' = Here(p, n)
    <3>1. CASE UNCHANGED remoteModules
      BY <3>1 DEF Here
    <3>2. CASE ids # {} /\ RemoveModule(Least(ids))
      <4>1. remoteModules[Least(ids)].client = q
        BY <1>2, <3>2 DEF ModulesOf
      <4>2. \A n : remoteModules[Least(ids)] # Entry(n, p)
        BY <2>1, <4>1 DEF Entry
      <4> QED BY <3>2, <4>2 DEF RemoveModule, Restrict, Here
    <3> QED BY <1>1, <3>1, <3>2
  <2>3. \A n : ~IsAdded(p, n) /\ ~IsAdded(p, n)'
    BY <1>0, <1>6 DEF IsAdded, Idle
  <2>4. KeptFor(p)
    BY <1>3, <1>4, <1>5, <2>2, <2>3 DEF KeptFor
  <2> QED BY <2>1, <2>4, KeptFollows
<1> QED BY <1>7, <1>8, NetStepFollows

LEMMA OnClientClosedFollows ==
  ASSUME TypeOK, ServerInv, PeersTypeOK, FollowInv, NEW q \in Peer, OnClientClosed(q)
  PROVE  FollowInv'
<1>0. /\ reading = Idle /\ link[q] = "lost" /\ link' = [link EXCEPT ![q] = "closed"]
      /\ reading' = [at |-> "closing", client |-> q]
      /\ UNCHANGED <<vars, remoteModules, up, down, own, counter, writers>>
  BY DEF OnClientClosed, rest
<1>1. UNCHANGED <<loop, modules, idCounter, idPromise>>
  BY <1>0 DEF vars
<1>2. /\ \A id : PageWrote(id)' <=> PageWrote(id)
      /\ link'[q] = "closed" /\ \A p \in Peer \ {q} : link'[p] = link[p]
  BY <1>0 DEF PageWrote, PeersTypeOK
<1>3. NetStep
  BY <1>0, <1>1, <1>2 DEF NetStep, FollowInv, OwnsTypeOK
<1>4. ASSUME NEW p \in Peer, link'[p] = "open" PROVE PeerFollows(p)'
  <2>1. PeerFollows(p)
    BY <1>2, <1>4 DEF FollowInv
  <2>2. \A n : Here(p, n)' = Here(p, n) /\ ~IsAdded(p, n) /\ ~IsAdded(p, n)'
    BY <1>0 DEF Here, IsAdded, Idle
  <2>3. KeptFor(p)
    BY <1>0, <1>1, <1>2, <2>2 DEF KeptFor
  <2> QED BY <2>1, <2>3, KeptFollows
<1> QED BY <1>3, <1>4, NetStepFollows

\* The first message of a peer, and the others.
LEMMA Received ==
  ASSUME PeersTypeOK, NEW p \in Peer, Ordered(p), up[p] # <<>>,
         up'[p] = Tail(up[p]), counter'[p] = counter[p], own'[p] = own[p]
  PROVE  /\ Ordered(p)'
         /\ Head(up[p]) \in PushedMsg
         /\ \A n : Announces(Head(up[p]), n) => ~Coming(p, n)'
         /\ \A n : Coming(p, n) <=> Coming(p, n)' \/ Announces(Head(up[p]), n)
         /\ Head(up[p]).type # "module_added" => ~Coming(p, Head(up[p]).id)
         /\ \A n : Leaving(p, n) <=> \/ Leaving(p, n)'
                                     \/ Head(up[p]).type = "module_removed" /\ Head(up[p]).id = n
         /\ \A n, k, base : UpdateGives(n, k)[Head(up[p])] = {} =>
              (Becomes(p, n, k, base) => Becomes(p, n, k, base)')
<1>0. up[p] \in Seq(PushedMsg) /\ Len(up[p]) \in Nat /\ Len(up[p]) >= 1
  BY EmptySeq, LenProperties DEF PeersTypeOK
<1>1. PICK json : json = Head(up[p])
  OBVIOUS
<1>2. /\ json \in PushedMsg /\ json = up[p][1] /\ Range(up[p]) = {json} \cup Range(up'[p])
      /\ Len(up'[p]) = Len(up[p]) - 1 /\ \A i \in 1..Len(up'[p]) : up'[p][i] = up[p][i + 1]
      /\ up'[p] \in Seq(PushedMsg)
  BY <1>0, <1>1, HeadTailProperties, MembersOf
<1>3. /\ Range(up[p]) = {up[p][i] : i \in 1..Len(up[p])}
      /\ Range(up'[p]) = {up'[p][i] : i \in 1..Len(up'[p])}
  <2>1. \A s \in Seq(PushedMsg) : Range(s) = {s[i] : i \in 1..Len(s)}
    BY MembersOf
  <2> QED BY <1>0, <1>2, <2>1
<1>4. \A i, j \in 1..Len(up[p]) : Announces(up[p][i], up[p][j].id) => i <= j
  BY DEF Ordered
<1>5. Ordered(p)'
  <2>1. \A msg \in Range(up'[p]) : msg.id < counter'[p]
    BY <1>2 DEF Ordered
  <2>2. ASSUME NEW i \in 1..Len(up'[p]), NEW j \in 1..Len(up'[p]),
               Announces(up'[p][i], up'[p][j].id)
        PROVE  i <= j
    <3>1. i + 1 \in 1..Len(up[p]) /\ j + 1 \in 1..Len(up[p])
      BY <1>0, <1>2
    <3>2. i + 1 <= j + 1
      BY <1>2, <1>4, <2>2, <3>1
    <3> QED BY <3>2
  <2> QED BY <2>1, <2>2 DEF Ordered
<1>6. ASSUME NEW n, Announces(json, n), Coming(p, n)' PROVE FALSE
  <2>1. PICK i \in 1..Len(up'[p]) : Announces(up'[p][i], n)
    BY <1>3, <1>6 DEF Coming
  <2>2. json.id = n
    BY <1>6 DEF Announces
  <2>3. 1 \in 1..Len(up[p]) /\ i + 1 \in 1..Len(up[p]) /\ up[p][i + 1] = up'[p][i]
    BY <1>0, <1>2
  <2>4. Announces(up[p][i + 1], up[p][1].id)
    BY <1>2, <2>1, <2>2, <2>3
  <2>5. i + 1 <= 1
    BY <1>4, <2>3, <2>4
  <2> QED BY <2>5
<1>7. \A n : Coming(p, n) <=> Coming(p, n)' \/ Announces(json, n)
  BY <1>2 DEF Coming
<1>8. ASSUME json.type # "module_added", Coming(p, json.id) PROVE FALSE
  <2>1. PICK i \in 1..Len(up[p]) : Announces(up[p][i], json.id)
    BY <1>3, <1>8 DEF Coming
  <2>2. 1 \in 1..Len(up[p])
    BY <1>0
  <2>3. i <= 1
    BY <1>2, <1>4, <2>1, <2>2
  <2> QED BY <1>2, <1>8, <2>1, <2>3 DEF Announces
<1>9. \A n : Leaving(p, n) <=> Leaving(p, n)' \/ (json.type = "module_removed" /\ json.id = n)
  BY <1>2 DEF Leaving
<1>10. ASSUME NEW n, NEW k, NEW base, UpdateGives(n, k)[json] = {}, Becomes(p, n, k, base)
       PROVE  Becomes(p, n, k, base)'
  <2>1. PICK given, v : given = UpdateGives(n, k) /\ v = own[p][n].properties[k].value
    OBVIOUS
  <2>2. EndsIn(up[p], given, base, v) /\ given[Head(up[p])] = {}
    BY <1>1, <1>10, <2>1 DEF Becomes
  <2>3. EndsIn(Tail(up[p]), given, base, v)
    BY ONLY <1>0, <2>2, up[p] # <<>>, EndsTail
  <2> QED BY <2>1, <2>3 DEF Becomes
<1> QED BY <1>1, <1>2, <1>5, <1>6, <1>7, <1>8, <1>9, <1>10

\* A module is announced: RegisterModule is called, and waits.
LEMMA ReadsAdded ==
  ASSUME TypeOK, RegistrationsAccounted, ServerInv, PeersTypeOK, Announced, FollowInv,
         NEW p \in Peer, PeerFollows(p), reading = Idle, up[p] # <<>>,
         NEW json, json = Head(up[p]), json.type = "module_added",
         up'[p] = Tail(up[p]), UNCHANGED <<counter, own, down, modules, remoteModules>>,
         \A id : PageWrote(id)' <=> PageWrote(id),
         reading' = [at |-> "adding", remote |-> json.id, client |-> p],
         idPromise'[Net] = {},
         NEW task \in Task, Post(task),
         task = [op |-> "DoRegisterModule", module |-> ToModule(json), to |-> {Net}]
  PROVE  PeerFollows(p)'
<1>1. /\ Ordered(p)' /\ json \in PushedMsg
      /\ \A n : Announces(json, n) => ~Coming(p, n)'
      /\ \A n : Coming(p, n) <=> Coming(p, n)' \/ Announces(json, n)
      /\ \A n : Leaving(p, n) <=> Leaving(p, n)'
      /\ \A n, k, base : UpdateGives(n, k)[json] = {} =>
           (Becomes(p, n, k, base) => Becomes(p, n, k, base)')
  BY Received DEF PeerFollows
<1>2. PICK m : m = json.id
  OBVIOUS
<1>3. m \in 0..MaxMessages /\ json.properties = Remote(p, m).properties
  <2>1. json = up[p][1] /\ 1 \in 1..Len(up[p])
    BY HeadTailProperties, EmptySeq, LenProperties DEF PeersTypeOK
  <2> QED BY <1>2, <2>1 DEF Announced
<1>4. \A n : Announces(json, n) <=> n = m
  BY <1>2 DEF Announces
<1>5. /\ \A n : Here(p, n)' = Here(p, n)
      /\ \A n : ~IsAdded(p, n) /\ (IsAdded(p, n)' <=> n = m)
  BY <1>2 DEF Here, IsAdded, Idle
<1>6. \A n, k, base : Becomes(p, n, k, base) => Becomes(p, n, k, base)'
  BY <1>1, Gives
<1>7. Here(p, m) = {}
  BY <1>1, <1>3, <1>4 DEF PeerFollows, Present
<1>8. ASSUME NEW n \in Nat PROVE Present(p, n)'
  <2>1. Present(p, n)
    BY DEF PeerFollows
  <2>2. Known(p, n)' <=> Known(p, n)
    BY <1>1, <1>4, <1>5 DEF Known
  <2> QED BY <1>1, <1>4, <1>5, <1>7, <2>1, <2>2 DEF Present
<1>9. Told(p)'
  <2>1. Told(p)
    BY DEF PeerFollows
  <2> QED BY <1>1, <1>4, <1>5, <2>1 DEF Told
<1>10. \A t \in Tasks' : Registers(t) => t.module.properties = Remote(p, m).properties
  <2>1. \A t \in Tasks : ~Registers(t)
    BY NetAwaits DEF Idle
  <2>2. Tasks' = Tasks \cup {task}
    BY TasksOf
  <2>3. task.module.properties = Remote(p, m).properties
    BY <1>3 DEF ToModule
  <2> QED BY <2>1, <2>2, <2>3
<1>11. ASSUME NEW n \in DOMAIN own[p], NEW k, Follows(p, n, k) PROVE Follows(p, n, k)'
  <2>1. CASE n = m
    <3>1. Becomes(p, n, k, Remote(p, m).properties[k].value)'
      BY <1>1, <1>4, <1>6, <1>11, <2>1 DEF Follows
    <3>2. \A t \in Tasks' : Registers(t) => Becomes(p, n, k, t.module.properties[k].value)'
      BY <1>10, <3>1
    <3>3. ~Coming(p, n)' /\ Here(p, n)' = {}
      BY <1>1, <1>4, <1>5, <1>7, <2>1
    <3> QED BY <3>2, <3>3 DEF Follows
  <2>2. CASE n # m
    <3>1. Coming(p, n)' => Becomes(p, n, k, Remote(p, n).properties[k].value)'
      BY <1>1, <1>6, <1>11 DEF Follows
    <3>2. \A id \in Here(p, n) : Reaches(p, n, k, id) => Reaches(p, n, k, id)'
      <4>1. task.op # "SavePropertiesList"
        OBVIOUS
      <4> QED BY ONLY TypeOK, <1>6, <4>1, task \in Task, Post(task), UNCHANGED modules, ReachesStill
    <3>3. \A id \in Here(p, n)' : PageWrote(id)' \/ Reaches(p, n, k, id)'
      BY <1>5, <1>11, <3>2 DEF Follows
    <3> QED BY <1>5, <2>2, <3>1, <3>3 DEF Follows
  <2> QED BY <2>1, <2>2
<1>12. ASSUME NEW n \in DOMAIN own'[p] PROVE FollowsAll(p, n)'
  <2>1. n \in DOMAIN own[p] /\ FollowsAll(p, n)
    BY DEF PeerFollows
  <2> QED BY <1>11, <2>1 DEF FollowsAll
<1> QED BY <1>1, <1>8, <1>9, <1>12 DEF PeerFollows

\* A module is removed: its entry, if it has one, goes.
LEMMA ReadsRemoved ==
  ASSUME TypeOK, ServerInv, PeersTypeOK, FollowInv,
         NEW p \in Peer, PeerFollows(p), reading = Idle, up[p] # <<>>,
         NEW json, json = Head(up[p]), json.type = "module_removed",
         up'[p] = Tail(up[p]), UNCHANGED <<counter, own, down, modules, reading>>,
         \A id : PageWrote(id)' <=> PageWrote(id),
         RemoveModule(LocalIdFromRemote(json.id, p)),
         NEW task \in Task, Post(task), task.op = "UnregisterModule"
  PROVE  PeerFollows(p)'
<1>1. /\ Ordered(p)' /\ json \in PushedMsg
      /\ \A n : Coming(p, n) <=> Coming(p, n)' \/ Announces(json, n)
      /\ ~Coming(p, json.id)
      /\ \A n : Leaving(p, n) <=> Leaving(p, n)' \/ json.id = n
      /\ \A n, k, base : UpdateGives(n, k)[json] = {} =>
           (Becomes(p, n, k, base) => Becomes(p, n, k, base)')
  BY Received DEF PeerFollows
<1>2. PICK m, gone : m = json.id /\ gone = LocalIdFromRemote(m, p)
  OBVIOUS
<1>3. \A n : Coming(p, n)' <=> Coming(p, n)
  BY <1>1 DEF Announces
<1>4. \A n : ~IsAdded(p, n) /\ ~IsAdded(p, n)'
  BY DEF IsAdded, Idle
<1>5. \A n, k, base : Becomes(p, n, k, base) => Becomes(p, n, k, base)'
  BY <1>1, Gives
<1>6. gone \in Here(p, m) \/ (gone = NoId /\ Here(p, m) = {})
  BY <1>2, LookedUpHere
<1>7. /\ DOMAIN remoteModules' = DOMAIN remoteModules \ {gone}
      /\ \A i \in DOMAIN remoteModules' : remoteModules'[i] = remoteModules[i]
  BY <1>2 DEF RemoveModule, Restrict
<1>8. /\ \A n : n # m => Here(p, n)' = Here(p, n)
      /\ Here(p, m)' = {}
  <2>1. NoId \notin DOMAIN remoteModules
    BY LookedUp DEF ServerInv, NoId
  <2>2. \A n : n # m => Entry(n, p) # Entry(m, p)
    BY DEF Entry
  <2>3. \A n : n # m => Here(p, n)' = Here(p, n)
    BY <1>6, <1>7, <2>1, <2>2 DEF Here
  <2>4. Here(p, m)' = {}
    <3>1. Here(p, m)' = Here(p, m) \ {gone}
      BY <1>7 DEF Here
    <3>2. Here(p, m) # {} => m \in Nat
      <4>1. \A id \in Here(p, m) : remoteModules[id].remote = m /\ id \in DOMAIN remoteModules
        BY DEF Here, Entry
      <4> QED BY <4>1, ProxyServerAssumption DEF ServerInv, Owners
    <3>3. \A i, j \in Here(p, m) : i = j
      BY <3>2 DEF PeerFollows, Present
    <3> QED BY <1>6, <3>1, <3>3
  <2> QED BY <2>3, <2>4
<1>9. ASSUME NEW n \in Nat PROVE Present(p, n)'
  <2>1. Present(p, n)
    BY DEF PeerFollows
  <2>2. CASE n = m
    <3>1. ~Known(p, n)'
      BY <1>1, <1>2, <1>3, <1>4, <1>8, <2>2 DEF Known
    <3>2. n \notin DOMAIN own[p]
      BY <1>1, <1>2, <2>1, <2>2 DEF Present
    <3> QED BY <1>3, <1>4, <1>8, <2>2, <3>1, <3>2 DEF Present, Known
  <2>3. CASE n # m
    <3>1. Known(p, n)' <=> Known(p, n)
      BY <1>3, <1>4, <1>8, <2>3 DEF Known
    <3>2. Leaving(p, n)' <=> Leaving(p, n)
      BY <1>1, <1>2, <2>3
    <3> QED BY <1>3, <1>4, <1>8, <2>1, <2>3, <3>1, <3>2 DEF Present
  <2> QED BY <2>2, <2>3
<1>10. Told(p)'
  <2>1. Told(p)
    BY DEF PeerFollows
  <2>2. \A n : Here(p, n)' \subseteq Here(p, n)
    BY <1>8
  <2> QED BY <1>3, <1>4, <2>1, <2>2 DEF Told
<1>11. ASSUME NEW n \in DOMAIN own[p], NEW k, Follows(p, n, k) PROVE Follows(p, n, k)'
  <2>1. Coming(p, n)' => Becomes(p, n, k, Remote(p, n).properties[k].value)'
    BY <1>3, <1>5, <1>11 DEF Follows
  <2>2. \A id : Reaches(p, n, k, id) => Reaches(p, n, k, id)'
    BY ONLY TypeOK, <1>5, task.op = "UnregisterModule", task \in Task, Post(task), UNCHANGED modules,
       ReachesStill
  <2>3. Here(p, n)' \subseteq Here(p, n)
    BY <1>8
  <2>4. \A id \in Here(p, n)' : PageWrote(id)' \/ Reaches(p, n, k, id)'
    BY <1>11, <2>2, <2>3 DEF Follows
  <2> QED BY <1>4, <2>1, <2>4 DEF Follows
<1>12. ASSUME NEW n \in DOMAIN own'[p] PROVE FollowsAll(p, n)'
  <2>1. n \in DOMAIN own[p] /\ FollowsAll(p, n)
    BY DEF PeerFollows
  <2> QED BY <1>11, <2>1 DEF FollowsAll
<1> QED BY <1>1, <1>9, <1>10, <1>12 DEF PeerFollows

\* A module is updated: the update goes from the link to the queue.
LEMMA ReadsUpdate ==
  ASSUME TypeOK, ServerInv, PeersTypeOK, FollowInv,
         NEW p \in Peer, PeerFollows(p), reading = Idle, up[p] # <<>>,
         NEW json, json = Head(up[p]), json.type = "property_update",
         up'[p] = Tail(up[p]), UNCHANGED <<counter, own, down, modules, remoteModules, reading>>,
         \A id : PageWrote(id)' <=> PageWrote(id),
         NEW task \in Task, Post(task), task.op = "SavePropertiesList",
         task.id = LocalIdFromRemote(json.id, p), task.properties = json.properties
  PROVE  PeerFollows(p)'
<1>1. /\ Ordered(p)' /\ json \in PushedMsg
      /\ \A n : Coming(p, n) <=> Coming(p, n)' \/ Announces(json, n)
      /\ ~Coming(p, json.id)
      /\ \A n : Leaving(p, n) <=> Leaving(p, n)'
      /\ \A n, k, base : UpdateGives(n, k)[json] = {} =>
           (Becomes(p, n, k, base) => Becomes(p, n, k, base)')
  BY Received DEF PeerFollows
<1>2. \A n : Coming(p, n)' <=> Coming(p, n)
  BY <1>1 DEF Announces
<1>3. /\ \A n : Here(p, n)' = Here(p, n)
      /\ \A n : ~IsAdded(p, n) /\ ~IsAdded(p, n)'
  BY DEF Here, IsAdded, Idle
<1>4. \A n : Known(p, n)' <=> Known(p, n)
  BY <1>2, <1>3 DEF Known
<1>5. ASSUME NEW n \in Nat PROVE Present(p, n)'
  <2>1. Present(p, n)
    BY DEF PeerFollows
  <2> QED BY <1>1, <1>2, <1>3, <1>4, <2>1 DEF Present
<1>6. Told(p)'
  <2>1. Told(p)
    BY DEF PeerFollows
  <2> QED BY <1>2, <1>3, <2>1 DEF Told
<1>7. PICK m : m = json.id
  OBVIOUS
<1>8. task.id \in Here(p, m) \/ (task.id = NoId /\ Here(p, m) = {})
  BY <1>7, LookedUpHere
<1>9. \A n, k : UpdateGives(n, k)[json] = IF n = m THEN GivenBy(json.properties, k) ELSE {}
  BY <1>1, <1>7, Gives
<1>10. ASSUME NEW n \in DOMAIN own[p], NEW k, NEW id \in Here(p, n), Reaches(p, n, k, id)
       PROVE  Reaches(p, n, k, id)'
  <2>1. n \in Nat
    BY DEF FollowInv, OwnsTypeOK, OwnTypeOK
  <2>2. task.id = id <=> n = m
    <3>1. \A i \in Here(p, m) : i = id => n = m
      BY DEF Here, Entry
    <3>2. id # NoId
      BY LookedUp DEF ServerInv, Here, NoId
    <3>3. \A i, j \in Here(p, n) : i = j
      BY <2>1 DEF PeerFollows, Present
    <3> QED BY <1>8, <3>1, <3>2, <3>3
  <2>3. PICK given, gives, base, v :
          /\ given = SaveGives(id, k) /\ gives = UpdateGives(n, k)
          /\ base = modules[id].properties[k].value /\ v = own[p][n].properties[k].value
    OBVIOUS
  <2>4. PICK w \in Value : EndsIn(loop, given, base, w) /\ EndsIn(up[p], gives, w, v)
    BY <1>10, <2>3 DEF Reaches, Becomes
  <2>5. given[task] = gives[json]
    <3>1. given[task] = IF task.id = id THEN GivenBy(json.properties, k) ELSE {}
      BY <2>3 DEF SaveGives
    <3> QED BY <1>9, <2>2, <2>3, <3>1
  <2>6. given[task] \subseteq Value /\ AtMostOne(given[task])
    <3>1. json.properties \in PropertyList
      BY ReadTypes
    <3>2. GivenBy(json.properties, k) \subseteq Value /\ AtMostOne(GivenBy(json.properties, k))
      BY <3>1, GivenByOne
    <3>3. AtMostOne({})
      BY DEF AtMostOne
    <3> QED BY <1>9, <2>3, <2>5, <3>2, <3>3
  <2>7. loop \in Seq(Task) /\ up[p] \in Seq(PushedMsg) /\ up[p] # <<>>
    BY DEF TypeOK, PeersTypeOK
  <2>8. PICK u \in Value : EndsIn(Append(loop, task), given, base, u) /\ EndsIn(Tail(up[p]), gives, u, v)
    BY <2>4, <2>5, <2>6, <2>7, EndsThrough
  <2>9. loop' = Append(loop, task)
    BY DEF Post
  <2> QED BY <2>3, <2>8, <2>9 DEF Reaches, Becomes
<1>11. ASSUME NEW n \in DOMAIN own[p], NEW k, Follows(p, n, k) PROVE Follows(p, n, k)'
  <2>1. Coming(p, n)' => Becomes(p, n, k, Remote(p, n).properties[k].value)'
    <3>1. Coming(p, n) => n # m
      BY <1>1, <1>7
    <3> QED BY <1>1, <1>2, <1>9, <1>11, <3>1 DEF Follows
  <2>2. \A id \in Here(p, n)' : PageWrote(id)' \/ Reaches(p, n, k, id)'
    BY <1>3, <1>10, <1>11 DEF Follows
  <2> QED BY <1>3, <2>1, <2>2 DEF Follows
<1>12. ASSUME NEW n \in DOMAIN own'[p] PROVE FollowsAll(p, n)'
  <2>1. n \in DOMAIN own[p] /\ FollowsAll(p, n)
    BY DEF PeerFollows
  <2> QED BY <1>11, <2>1 DEF FollowsAll
<1> QED BY <1>1, <1>5, <1>6, <1>12 DEF PeerFollows

LEMMA OnClientReadFollows ==
  ASSUME TypeOK, RegistrationsAccounted, ServerInv, PeersTypeOK, Announced, FollowInv,
         NEW p \in Peer, OnClientRead(p)
  PROVE  FollowInv'
<1>a. PICK json : json = Head(up[p])
  OBVIOUS
<1>b. PICK id : id = LocalIdFromRemote(json.id, p)
  OBVIOUS
<1>0. /\ reading = Idle /\ up[p] # <<>> /\ up' = [up EXCEPT ![p] = Tail(@)]
      /\ UNCHANGED <<link, down, own, counter>>
  BY DEF OnClientRead
<1>1. /\ up'[p] = Tail(up[p]) /\ \A q \in Peer \ {p} : up'[q] = up[q]
      /\ reading.at = "idle" /\ writers \in [ModuleId -> SUBSET {"owner", "page"}]
  BY <1>0 DEF PeersTypeOK, Idle, FollowInv, OwnsTypeOK
<1>2. /\ json.id \in Int
      /\ json.type = "module_added" => ToModule(json) \in ModuleType
      /\ json.type = "property_update" => json.properties \in PropertyList
  BY <1>0, <1>a, ReadTypes
<1>3. /\ id \in Int /\ id < idCounter
      /\ \A q \in Peer \ {p} : \A n : id \notin Here(q, n)
  <2>1. id \in DOMAIN remoteModules \cup {NoId}
    BY <1>b, LookedUp DEF ServerInv
  <2>2. DOMAIN remoteModules \subseteq 0..(idCounter - 1) /\ idCounter \in Nat
    BY DEF ServerInv, ServerTypeOK, TypeOK, ModulesTypeOK
  <2>3. id # NoId => remoteModules[id] = Entry(json.id, p)
    BY <1>b, LookedUpHere DEF Here
  <2>4. \A q \in Peer \ {p} : \A n : Entry(n, q) # Entry(json.id, p)
    BY DEF Entry
  <2> QED BY <2>1, <2>2, <2>3, <2>4 DEF Here, NoId
<1>4. idPromise[Net] = {} /\ Net \in Thread
  BY <1>0, NetAwaits, ProxyServerAssumption DEF Idle
<1>5. \/ /\ json.type = "module_added" /\ RegisterModule(Net, ToModule(json))
         /\ reading' = [at |-> "adding", remote |-> json.id, client |-> p]
         /\ UNCHANGED <<remoteModules, writers>>
      \/ /\ json.type = "module_removed" /\ CallUnregisterModule(Net, id) /\ RemoveModule(id)
         /\ UNCHANGED <<reading, writers>>
      \/ /\ json.type = "property_update" /\ UpdateProperties(Net, id, json.properties)
         /\ UNCHANGED <<remoteModules, reading>>
         /\ writers' = [i \in ModuleId |-> IF i = id THEN writers[i] \cup {"owner"} ELSE writers[i]]
  BY <1>a, <1>b DEF OnClientRead, rest, server
<1>6. /\ writers' \in [ModuleId -> SUBSET {"owner", "page"}]
      /\ \A i : PageWrote(i)' <=> PageWrote(i)
  BY <1>1, <1>5 DEF PageWrote
<1>7. UNCHANGED <<modules, idCounter, idPromise>>
  BY <1>5 DEF RegisterModule, CallUnregisterModule, UpdateProperties, Outside, instance, started,
     promises
<1>8. ASSUME NEW task \in Task, Post(task), TaskFollows(task)',
             ~(task.op = "SavePropertiesList" /\ task.id # id),
             reading' = reading \/ reading' = [at |-> "adding", remote |-> json.id, client |-> p],
             UNCHANGED remoteModules \/ RemoveModule(id),
             link[p] = "open" => PeerFollows(p)'
      PROVE  FollowInv'
  <2>1. NetStep
    BY <1>0, <1>1, <1>6, <1>7, <1>8 DEF NetStep
  <2>2. ASSUME NEW q \in Peer \ {p}, link'[q] = "open" PROVE PeerFollows(q)'
    <3>1. \A n : Here(q, n)' = Here(q, n)
      BY <1>3, <1>8 DEF Here, RemoveModule, Restrict
    <3>2. \A n : ~IsAdded(q, n) /\ ~IsAdded(q, n)'
      BY <1>0, <1>8 DEF IsAdded, Idle
    <3>3. \A n : \A i \in Here(q, n) : ~(task.op = "SavePropertiesList" /\ task.id = i)
      BY <1>3, <1>8
    <3>4. KeptFor(q)
      BY <1>0, <1>1, <1>6, <1>7, <1>8, <3>1, <3>2, <3>3 DEF KeptFor
    <3>5. PeerFollows(q)
      BY <1>0, <2>2 DEF FollowInv
    <3> QED BY <3>4, <3>5, KeptFollows
  <2>3. \A q \in Peer : link'[q] = "open" => PeerFollows(q)'
    BY <1>0, <1>8, <2>2
  <2> QED BY <2>1, <2>3, NetStepFollows
<1>9. CASE /\ json.type = "module_added" /\ RegisterModule(Net, ToModule(json))
           /\ reading' = [at |-> "adding", remote |-> json.id, client |-> p]
           /\ UNCHANGED <<remoteModules, writers>>
  <2>1. PICK task : task = [op |-> "DoRegisterModule", module |-> ToModule(json), to |-> {Net}]
    OBVIOUS
  <2>2. task \in Task /\ TaskFollows(task)' /\ task.op = "DoRegisterModule"
    BY <1>2, <1>4, <1>9, <2>1 DEF Task, TaskFollows
  <2>3. Post(task)
    BY <1>9, <2>1 DEF RegisterModule
  <2>4. link[p] = "open" => PeerFollows(p)'
    <3>1. SUFFICES ASSUME PeerFollows(p) PROVE PeerFollows(p)'
      BY DEF FollowInv
    <3>2. idPromise'[Net] = {} /\ UNCHANGED <<counter, own, down, modules, remoteModules>>
      BY <1>0, <1>4, <1>7, <1>9
    <3> QED BY <1>0, <1>1, <1>6, <1>9, <1>a, <2>1, <2>2, <2>3, <3>1, <3>2, ReadsAdded
  <2> QED BY <1>8, <1>9, <2>2, <2>3, <2>4
<1>10. CASE /\ json.type = "module_removed" /\ CallUnregisterModule(Net, id) /\ RemoveModule(id)
            /\ UNCHANGED <<reading, writers>>
  <2>1. PICK task : task = [op |-> "UnregisterModule", id |-> id]
    OBVIOUS
  <2>2. task \in Task /\ TaskFollows(task)' /\ task.op = "UnregisterModule"
    BY <1>3, <2>1 DEF Task, TaskFollows
  <2>3. Post(task)
    BY <1>10, <2>1 DEF CallUnregisterModule
  <2>4. link[p] = "open" => PeerFollows(p)'
    <3>1. SUFFICES ASSUME PeerFollows(p) PROVE PeerFollows(p)'
      BY DEF FollowInv
    <3>2. UNCHANGED <<counter, own, down, modules, reading>>
      BY <1>0, <1>7, <1>10
    <3> QED BY <1>0, <1>1, <1>6, <1>10, <1>a, <1>b, <2>2, <2>3, <3>1, <3>2, ReadsRemoved
  <2> QED BY <1>8, <1>10, <2>2, <2>3, <2>4
<1>11. CASE /\ json.type = "property_update" /\ UpdateProperties(Net, id, json.properties)
            /\ UNCHANGED <<remoteModules, reading>>
  <2>1. PICK task : task = [op |-> "SavePropertiesList", id |-> id, properties |-> json.properties]
    OBVIOUS
  <2>2. /\ task \in Task /\ task.op = "SavePropertiesList" /\ task.id = id
        /\ task.properties = json.properties
    BY <1>2, <1>3, <1>11, <2>1 DEF Task
  <2>3. TaskFollows(task)'
    BY <1>3, <1>4, <1>7, <2>2 DEF TaskFollows
  <2>4. Post(task)
    BY <1>11, <2>1 DEF UpdateProperties
  <2>5. link[p] = "open" => PeerFollows(p)'
    <3>1. SUFFICES ASSUME PeerFollows(p) PROVE PeerFollows(p)'
      BY DEF FollowInv
    <3>2. UNCHANGED <<counter, own, down, modules, remoteModules, reading>>
      BY <1>0, <1>7, <1>11
    <3> QED BY <1>0, <1>1, <1>6, <1>11, <1>a, <1>b, <2>2, <2>4, <3>1, <3>2, ReadsUpdate
  <2> QED BY <1>8, <1>11, <2>2, <2>3, <2>4, <2>5
<1> QED BY <1>5, <1>9, <1>10, <1>11

-----------------------------------------------------------------------------
(* The theorem.                                                            *)

LEMMA NoMessages == Len(<<>>) = 0 /\ Range(<<>>) = {}
<1>1. <<>> \in Seq(Int) /\ Len(<<>>) = 0
  BY EmptySeq
<1>2. DOMAIN <<>> = 1..0
  BY <1>1, LenProperties
<1>3. \A x : x \notin Range(<<>>)
  BY <1>2 DEF Range
<1> QED BY <1>1, <1>3

LEMMA FollowInit == ProxyInit => FollowInv
<1> SUFFICES ASSUME ProxyInit PROVE FollowInv
  OBVIOUS
<1> USE DEF ProxyInit
<1>0. DOMAIN remoteModules = {} /\ \A p \in Peer : DOMAIN own[p] = {}
  <2>1. <<>> \in Seq(Int) /\ Len(<<>>) = 0
    BY EmptySeq
  <2>2. DOMAIN <<>> = 1..0
    BY <2>1, LenProperties
  <2> QED BY <2>2
<1>1. Tasks = {} /\ reading = Idle
  BY NoTasks DEF Init
<1>2. \A p \in Peer : up[p] = <<>> /\ Range(up[p]) = {} /\ down[p] = <<>> /\ Range(down[p]) = {}
  BY NoMessages
<1>3. OwnsTypeOK
  <2>1. <<>> \in Seq(ApplyMsg)
    BY EmptySeq
  <2> QED BY <1>0, <2>1 DEF OwnsTypeOK, OwnTypeOK
<1>4. TasksFollow
  BY <1>1 DEF TasksFollow, Idle
<1>5. ASSUME NEW p \in Peer PROVE PeerFollows(p)
  <2>1. \A n : ~Coming(p, n) /\ ~Leaving(p, n) /\ ~IsAdded(p, n) /\ Here(p, n) = {}
    BY <1>0, <1>1, <1>2 DEF Coming, Leaving, IsAdded, Here, Idle
  <2>2. \A n \in Nat : Present(p, n)
    BY <1>0, <2>1 DEF Present, Known
  <2>3. Ordered(p)
    <3>1. Len(up[p]) = 0
      BY <1>2, EmptySeq
    <3> QED BY <1>2, <3>1 DEF Ordered
  <2>4. Told(p)
    BY <1>2 DEF Told
  <2> QED BY <1>0, <2>2, <2>3, <2>4 DEF PeerFollows
<1> QED BY <1>3, <1>4, <1>5 DEF FollowInv

LEMMA FollowStep == ProxyInv /\ FollowInv /\ [ProxyNext]_proxyVars => FollowInv'
<1> SUFFICES ASSUME ProxyInv, FollowInv, [ProxyNext]_proxyVars PROVE FollowInv'
  OBVIOUS
<1>0. /\ TypeOK /\ RegistrationsAccounted /\ ServerInv /\ PeersTypeOK /\ Announced
      /\ ServerTypeOK
  BY DEF ProxyInv, ServerInv
<1>1. ASSUME \/ ProxyInitialized(TRUE) /\ Still
             \/ CallbackReturns /\ Still
             \/ OnPropertyUpdated
             \/ \E r \in Requester :
                  \/ \E id \in DOMAIN tabs \cap ModuleId, list \in UpdateList : PageApplies(r, id, list)
                  \/ RequestReturns(r) /\ Still
             \/ \E t \in Thread \ {Net} :
                  \/ \E module \in Definition : HostRegisters(t, module)
                  \/ RegisterReturns(t) /\ Still
             \/ UNCHANGED proxyVars
      PROVE  FollowInv'
  <2>1. HostStep
    BY <1>0, <1>1, HostSteps
  <2> QED BY <1>0, <2>1, HostStepFollows
<1>2. ASSUME Runs \/ OnModuleAdded \/ RemoveClientsModules PROVE FollowInv'
  BY <1>0, <1>2, RunsFollows, OnModuleAddedFollows, RemoveClientsModulesFollows
<1>3. ASSUME NEW p \in Peer, OnClientRead(p) \/ OnClientClosed(p) PROVE FollowInv'
  BY <1>0, <1>3, OnClientReadFollows, OnClientClosedFollows
<1>4. ASSUME NEW p \in Peer,
             \/ PeerRegisters(p)
             \/ \E id \in 0..(counter[p] - 1) : PeerUnregisters(p, id)
             \/ \E id \in 0..(counter[p] - 1), list \in UpdateList : PeerUpdates(p, id, list)
             \/ PeerReads(p) \/ PeerEnds(p)
      PROVE  FollowInv'
  BY <1>0, <1>4, PeerRegistersFollows, PeerUnregistersFollows, PeerUpdatesFollows,
     PeerReadsFollows, PeerEndsFollows
<1> QED BY <1>1, <1>2, <1>3, <1>4 DEF ProxyNext

\* What is under way once everything is settled.
LEMMA NothingUnderWay ==
  ASSUME Settled, NEW p \in Peer
  PROVE  /\ \A n : ~Coming(p, n) /\ ~Leaving(p, n) /\ ~IsAdded(p, n)
         /\ \A n, k, id : Reaches(p, n, k, id) =>
              modules[id].properties[k].value = own[p][n].properties[k].value
<1>1. loop = <<>> /\ up[p] = <<>> /\ reading = Idle
  BY DEF Settled, HostQuiet
<1>2. Len(<<>>) = 0 /\ Range(<<>>) = {}
  BY NoMessages
<1>3. \A n : ~Coming(p, n) /\ ~Leaving(p, n) /\ ~IsAdded(p, n)
  BY <1>1, <1>2 DEF Coming, Leaving, IsAdded, Idle
<1>4. \A given, base, v : EndsIn(<<>>, given, base, v) => v = base
  BY <1>2 DEF EndsIn
<1> QED BY <1>1, <1>3, <1>4 DEF Reaches, Becomes

\* Then a peer has the modules the host has of it, and as they are.
LEMMA SettledFollows ==
  ASSUME ProxyInv, FollowInv, Settled, NEW p \in Peer
  PROVE  /\ {remoteModules[id].remote : id \in ModulesOf(p)} = DOMAIN own[p]
         /\ Cardinality(ModulesOf(p)) = Cardinality(DOMAIN own[p])
         /\ \A id \in ModulesOf(p) : "page" \notin writers[id] =>
              modules[id].properties = own[p][remoteModules[id].remote].properties
<1>0. TypeOK /\ ServerInv /\ PeersTypeOK /\ ServerTypeOK
  BY DEF ProxyInv, ServerInv
<1>1. /\ \A n : ~Coming(p, n) /\ ~Leaving(p, n) /\ ~IsAdded(p, n)
      /\ \A n, k, id : Reaches(p, n, k, id) =>
           modules[id].properties[k].value = own[p][n].properties[k].value
  BY NothingUnderWay
<1>2. /\ OwnTypeOK(p) /\ counter[p] \in Nat /\ link[p] \in {"open", "closed"}
  BY <1>0 DEF FollowInv, OwnsTypeOK, PeersTypeOK, Settled, HostQuiet
<1>3. \A id \in ModulesOf(p) :
        /\ id \in DOMAIN remoteModules /\ remoteModules[id].remote \in 0..MaxMessages
        /\ id \in Here(p, remoteModules[id].remote)
        /\ link[p] = "open"
  <2> TAKE id \in ModulesOf(p)
  <2>1. id \in DOMAIN remoteModules /\ remoteModules[id].client = p
    BY DEF ModulesOf
  <2>2. remoteModules[id] \in [remote : Int, client : Peer]
    BY <1>0, <2>1 DEF ServerTypeOK
  <2>3. remoteModules[id] = Entry(remoteModules[id].remote, p)
    BY <2>1, <2>2 DEF Entry
  <2>4. link[p] # "closed"
    BY <1>0, <2>1, NoneClosed DEF Settled, HostQuiet
  <2> QED BY <1>0, <1>2, <2>1, <2>3, <2>4 DEF ServerInv, Owners, Here
<1>4. \A n : \A id \in Here(p, n) : id \in ModulesOf(p) /\ remoteModules[id].remote = n
  BY DEF Here, ModulesOf, Entry
<1>5. link[p] = "open" => PeerFollows(p)
  BY DEF FollowInv
<1>6. \A n \in Nat : link[p] = "open" =>
        /\ \A i, j \in Here(p, n) : i = j
        /\ n \in DOMAIN own[p] <=> Here(p, n) # {}
  BY <1>1, <1>5 DEF PeerFollows, Present, Known
<1>7. DOMAIN own[p] \subseteq Nat /\ (link[p] # "open" => DOMAIN own[p] = {})
  BY <1>2 DEF OwnTypeOK
<1>8. \A id \in ModulesOf(p) : remoteModules[id].remote \in DOMAIN own[p]
  BY <1>3, <1>6, ProxyServerAssumption
<1>9. \A n \in DOMAIN own[p] : \E id \in ModulesOf(p) : remoteModules[id].remote = n
  BY <1>4, <1>6, <1>7
<1>10. {remoteModules[id].remote : id \in ModulesOf(p)} = DOMAIN own[p]
  BY <1>8, <1>9
<1>11. Cardinality(ModulesOf(p)) = Cardinality(DOMAIN own[p])
  <2>1. PICK F : F = [id \in ModulesOf(p) |-> remoteModules[id].remote]
    OBVIOUS
  <2>2. F \in [ModulesOf(p) -> DOMAIN own[p]] /\ \A n \in DOMAIN own[p] : \E id \in ModulesOf(p) : F[id] = n
    BY <1>8, <1>9, <2>1
  <2>3. \A i, j \in ModulesOf(p) : F[i] = F[j] => i = j
    BY <1>3, <1>6, <1>7, <1>8, <2>1
  <2>4. F \in Injection(ModulesOf(p), DOMAIN own[p])
    BY <2>2, <2>3 DEF Injection, IsInjective
  <2>5. F \in Surjection(ModulesOf(p), DOMAIN own[p])
    BY <2>2 DEF Surjection
  <2>6. IsFiniteSet(DOMAIN own[p])
    <3>1. DOMAIN own[p] \in SUBSET (0..(counter[p] - 1))
      BY <1>2 DEF OwnTypeOK
    <3>2. IsFiniteSet(0..(counter[p] - 1))
      BY <1>2, FS_Interval
    <3> QED BY <3>1, <3>2, FS_Subset
  <2> QED BY <2>4, <2>5, <2>6, FS_Injection
<1>12. ASSUME NEW id \in ModulesOf(p), "page" \notin writers[id]
       PROVE  modules[id].properties = own[p][remoteModules[id].remote].properties
  <2>1. PICK n : n = remoteModules[id].remote
    OBVIOUS
  <2>2. /\ n \in DOMAIN own[p] /\ n \in 0..MaxMessages /\ id \in Here(p, n) /\ id \in DOMAIN remoteModules
        /\ remoteModules[id].client = p /\ PeerFollows(p) /\ ~PageWrote(id)
    BY <1>3, <1>5, <1>8, <1>12, <2>1 DEF PageWrote, ModulesOf
  <2>3. PICK a, b : a = modules[id].properties /\ b = own[p][n].properties
    OBVIOUS
  <2>4. a \in Seq(Property) /\ b \in Seq(Property)
    <3>1. id \in DOMAIN modules
      BY <1>0, <2>2 DEF ServerInv, Found
    <3> QED BY <1>0, <1>2, <2>2, <2>3, <3>1 DEF TypeOK, ModulesTypeOK, OwnTypeOK, ModuleType
  <2>5. Remote(p, n) \in ModuleType /\ Fixed(a, Remote(p, n)) /\ Fixed(b, Remote(p, n))
    BY <1>0, <1>2, <2>1, <2>2, <2>3, ProxyServerAssumption DEF ServerInv, Owners, OwnTypeOK
  <2>6. /\ Len(a) = Len(b)
        /\ \A k \in 1..Len(a) : /\ a[k].read_only = b[k].read_only
                                /\ a[k].read_only \/ a[k].value = b[k].value => a[k] = b[k]
    BY <2>5, FixedAlike
  <2>7. \A k \in 1..Len(b) : ~b[k].read_only => a[k].value = b[k].value
    BY <1>1, <2>2, <2>3 DEF PeerFollows, FollowsAll, Follows
  <2>8. \A k \in 1..Len(a) : a[k] = b[k]
    BY <2>6, <2>7
  <2>9. a = b
    BY <2>4, <2>6, <2>8, SeqEqual
  <2> QED BY <2>1, <2>3, <2>9
<1> QED BY <1>10, <1>11, <1>12

\* Once everything is settled the host has each module of each peer once, with the values
\* the peer has, where only the peer has changed them (ProxyServer.cpp:95-117): the
\* updates that are on the link, and then those in the queue of the module thread, end
\* where the peer is, whatever the other peers, the application and the page do.
THEOREM HostFollows == ProxySpec => []HostFollowsOwner
<1>1. ProxyInv /\ FollowInv => HostFollowsOwner
  BY SettledFollows DEF HostFollowsOwner
<1>2. ProxyInv /\ FollowInv /\ [ProxyNext]_proxyVars => ProxyInv' /\ FollowInv'
  BY ProxyInvStep, FollowStep
<1> QED BY <1>1, <1>2, ProxyInvInit, FollowInit, PTL DEF ProxySpec
=============================================================================
