---------------------------- MODULE ProxyServer -----------------------------
(***************************************************************************)
(* The host instance and the other instances connected to it               *)
(* (ProxyServer.cpp).  The modules of another instance, a Peer, are        *)
(* registered on the host under an id of the host; _remote_modules tells   *)
(* which id of which peer it stands for.  A peer is what ModuleManager     *)
(* makes of one application thread: it changes its modules and pushes the  *)
(* change in one step.  The network thread reads one message at a time, in *)
(* the order a peer sent them, and blocks in RegisterModule.               *)
(***************************************************************************)
EXTENDS ModuleManager, WebApp

CONSTANTS
  Peer,            \* the other instances
  Net,             \* the network thread of the host
  Remote(_, _),    \* the module a peer registers under an id
  MaxMessages,     \* bound on the messages of the peers
  MaxCloses,       \* bound on the peers that end
  MaxCalls         \* bound on the calls and requests of the host's thread and page

ASSUME ProxyServerAssumption ==
  /\ Net \in Thread
  /\ {MaxMessages, MaxCloses, MaxCalls} \subseteq Nat
  /\ \A p \in Peer, id \in 0..MaxMessages : Remote(p, id) \in ModuleType

VARIABLES
  remoteModules, \* _remote_modules: the id of a peer and the peer, per id here
  reading,       \* what the network thread is in the middle of
  link,          \* per peer: "open", "lost" (not noticed here) or "closed"
  up, down,      \* per peer: the messages on their way, from it and to it
  own,           \* per peer: its _modules
  counter,       \* per peer: its _id_counter
  tabs,          \* what a page of the host shows
  messages, closes, calls,  \* made so far
  writers,       \* history: who has changed each module, by its id here
  foreign        \* history: the ids here of the modules that stand for one of a peer

peers  == <<link, up, down, own, counter, messages, closes>>
server == <<remoteModules, reading>>
rest   == <<tabs, calls, writers, foreign>>
proxyVars == <<vars, server, peers, rest>>

ProxyInit ==
  /\ Init
  /\ remoteModules = <<>> /\ reading = Idle
  /\ link = [p \in Peer |-> "open"]
  /\ up = [p \in Peer |-> <<>>] /\ down = [p \in Peer |-> <<>>]
  /\ own = [p \in Peer |-> <<>>] /\ counter = [p \in Peer |-> 0]
  /\ tabs = <<>>
  /\ messages = 0 /\ closes = 0 /\ calls = 0
  /\ writers = [id \in ModuleId |-> {}] /\ foreign = {}

-----------------------------------------------------------------------------
(* ProxyServer, on the network thread.                                     *)

\* An entry of _remote_modules.
Entry(remote_id, p) == [remote |-> remote_id, client |-> p]

\* Faulty variant of AddModule: the arguments in the order the header names them.
AddModuleSwapped(local_id, remote_id, p) ==
  remoteModules' = [i \in DOMAIN remoteModules \cup {remote_id} |->
    IF i \in DOMAIN remoteModules THEN remoteModules[i] ELSE Entry(local_id, p)]

\* ProxyServer::AddModule, RemoveModule
AddModule(local_id, remote_id, p) ==
  remoteModules' = [i \in DOMAIN remoteModules \cup {local_id} |->
    IF i \in DOMAIN remoteModules THEN remoteModules[i] ELSE Entry(remote_id, p)]

RemoveModule(local_id) ==
  remoteModules' = Restrict(remoteModules, DOMAIN remoteModules \ {local_id})

\* The first of the ids here that satisfy a test, in the order of the map.
Least(ids) == CHOOSE i \in ids : \A j \in ids : i <= j

\* Faulty variant of LocalIdFromRemote: the peer is not compared.
LocalIdFromRemoteId(remote_id, p) ==
  LET ids == {i \in DOMAIN remoteModules : remoteModules[i].remote = remote_id}
  IN  IF ids = {} THEN NoId ELSE Least(ids)

\* ProxyServer::LocalIdFromRemote
LocalIdFromRemote(remote_id, p) ==
  LET ids == {i \in DOMAIN remoteModules : remoteModules[i] = Entry(remote_id, p)}
  IN  IF ids = {} THEN NoId ELSE Least(ids)

\* ProxyServer::OnClientRead, up to the first wait.
OnClientRead(p) ==
  /\ reading = Idle
  /\ link[p] # "closed" /\ up[p] # <<>>
  /\ up' = [up EXCEPT ![p] = Tail(@)]
  /\ LET json == Head(up[p])
         id   == LocalIdFromRemote(json.id, p)
     IN  \/ /\ json.type = "module_added"
            /\ RegisterModule(Net, ToModule(json))
            /\ reading' = [at |-> "adding", remote |-> json.id, client |-> p]
            /\ UNCHANGED <<remoteModules, rest>>
         \/ /\ json.type = "module_removed"
            /\ CallUnregisterModule(Net, id)
            /\ RemoveModule(id)
            /\ UNCHANGED <<reading, rest>>
         \/ /\ json.type = "property_update"
            /\ UpdateProperties(Net, id, json.properties)
            /\ UNCHANGED <<server, tabs, calls, foreign>>
            /\ writers' = [i \in ModuleId |->
                 IF i = id THEN writers[i] \cup {"owner"} ELSE writers[i]]
  /\ UNCHANGED <<link, down, own, counter, messages, closes>>

\* The rest of OnClientRead for a module_added: RegisterModule returns, AddModule.
OnModuleAdded ==
  /\ reading.at = "adding"
  /\ RegisterReturns(Net)
  /\ \E local_id \in idPromise[Net] : AddModule(local_id, reading.remote, reading.client)
  /\ reading' = Idle
  /\ UNCHANGED <<peers, rest>>

\* ... and for a property_update: the second post.
OnPropertyUpdated ==
  UpdatePropertiesReturns(Net) /\ UNCHANGED <<server, peers, rest>>

\* Faulty variant of OnClientClosed: the modules of the peer are forgotten.
OnClientClosedForgets(p) ==
  /\ reading = Idle /\ app[Net] = Idle /\ running # Crashed
  /\ link[p] = "lost" /\ up[p] = <<>>
  /\ link' = [link EXCEPT ![p] = "closed"]
  /\ UNCHANGED <<vars, server, up, down, own, counter, messages, closes, rest>>

\* ProxyServer::OnClientClosed, once what the peer sent is read.
OnClientClosed(p) ==
  /\ reading = Idle /\ app[Net] = Idle /\ running # Crashed
  /\ link[p] = "lost" /\ up[p] = <<>>
  /\ link' = [link EXCEPT ![p] = "closed"]
  /\ reading' = [at |-> "closing", client |-> p]
  /\ UNCHANGED <<vars, remoteModules, up, down, own, counter, messages, closes, rest>>

ModulesOf(p) == {i \in DOMAIN remoteModules : remoteModules[i].client = p}

\* Faulty variant of RemoveClientsModules: it stops after the first module.
RemoveClientsModule ==
  /\ reading.at = "closing"
  /\ reading' = Idle
  /\ LET ids == ModulesOf(reading.client)
     IN  \/ /\ ids # {}
            /\ CallUnregisterModule(Net, Least(ids))
            /\ RemoveModule(Least(ids))
         \/ ids = {} /\ UNCHANGED <<vars, remoteModules>>
  /\ UNCHANGED <<peers, rest>>

\* ProxyServer::RemoveClientsModules, one turn of its loop.
RemoveClientsModules ==
  /\ reading.at = "closing"
  /\ LET ids == ModulesOf(reading.client)
     IN  \/ /\ ids # {}
            /\ CallUnregisterModule(Net, Least(ids))
            /\ RemoveModule(Least(ids))
            /\ UNCHANGED reading
         \/ /\ ids = {}
            /\ reading' = Idle
            /\ UNCHANGED <<vars, remoteModules>>
  /\ UNCHANGED <<peers, rest>>

-----------------------------------------------------------------------------
(* ProxyServer, on the module thread.                                      *)

\* ProxyServer::HandlePropertyUpdate, for what a task relays, one message at most:
\* GetClient finds no peer that has closed, and none under the client id
\* RemoteIdFromLocal answers for an unknown module.
HandlePropertyUpdate(jsons) ==
  down' = [p \in Peer |->
    IF jsons # <<>> /\ Head(jsons).id \in ModulesOf(p) /\ link[p] = "open"
    THEN Append(down[p], SetId(Head(jsons), remoteModules[Head(jsons).id].remote))
    ELSE down[p]]

Runs ==
  /\ RunTask
  /\ tabs' = OnMessages(tabs, out'.pushed)
  /\ HandlePropertyUpdate(out'.relayed)
  /\ foreign' = (foreign \cup idPromise'[Net]) \cap DOMAIN modules'
  /\ UNCHANGED <<server, link, up, own, counter, messages, closes, calls, writers>>

-----------------------------------------------------------------------------
(* The peers.                                                              *)

Sends(p, msg) ==
  /\ proxy = "server" /\ link[p] = "open"
  /\ messages < MaxMessages /\ messages' = messages + 1
  /\ up' = [up EXCEPT ![p] = Append(@, msg)]
  /\ UNCHANGED <<vars, server, link, down, closes, rest>>

PeerRegisters(p) ==
  LET module == Remote(p, counter[p])
  IN  /\ Sends(p, CreateModuleAdded(counter[p], module))
      /\ own' = [own EXCEPT ![p] = [i \in DOMAIN @ \cup {counter[p]} |->
                   IF i = counter[p] THEN module ELSE @[i]]]
      /\ counter' = [counter EXCEPT ![p] = @ + 1]

\* Also for an id that is no longer registered: the host then looks in vain, and
\* pushes a message about the id -1.
PeerUnregisters(p, id) ==
  /\ Sends(p, CreateModuleRemoved(id))
  /\ own' = [own EXCEPT ![p] = Restrict(@, DOMAIN @ \ {id})]
  /\ UNCHANGED counter

Stores(p, id, list) ==
  own' = IF id \in DOMAIN own[p]
         THEN [own EXCEPT ![p][id].properties = SavedProperties(@, list)] ELSE own

PeerUpdates(p, id, list) ==
  Sends(p, CreatePropertyUpdated(id, list)) /\ Stores(p, id, list) /\ UNCHANGED counter

\* Proxy::OnClientRead of the peer: what a page of the host changed.
PeerReads(p) ==
  /\ link[p] = "open" /\ down[p] # <<>>
  /\ down' = [down EXCEPT ![p] = Tail(@)]
  /\ Stores(p, Head(down[p]).id, Head(down[p]).properties)
  /\ UNCHANGED <<vars, server, link, up, counter, messages, closes, rest>>

\* The process of the peer ends: what it had not yet sent is lost.
PeerEnds(p) ==
  /\ link[p] = "open" /\ closes < MaxCloses /\ closes' = closes + 1
  /\ link' = [link EXCEPT ![p] = "lost"]
  /\ \E n \in 0..Len(up[p]) : up' = [up EXCEPT ![p] = SubSeq(@, 1, n)]
  /\ down' = [down EXCEPT ![p] = <<>>] /\ own' = [own EXCEPT ![p] = <<>>]
  /\ UNCHANGED <<vars, server, counter, messages, rest>>

-----------------------------------------------------------------------------
(* The page and the application of the host.                               *)

PageApplies(r, id, list) ==
  /\ calls < MaxCalls /\ calls' = calls + 1
  /\ ProcessJSRequest(r, CreatePropertiesUpdated(id, list))
  /\ tabs' = SetModulePoperties(tabs, id, list)
  /\ writers' = [writers EXCEPT ![id] = @ \cup {"page"}]
  /\ UNCHANGED <<server, peers, foreign>>

Still == UNCHANGED <<server, peers, rest>>

\* Bound: the application of the host registers before the peers send anything.
HostRegisters(t, module) ==
  /\ messages = 0
  /\ calls < MaxCalls /\ calls' = calls + 1
  /\ RegisterModule(t, module)
  /\ UNCHANGED <<server, peers, tabs, writers, foreign>>

ProxyNext ==
  \/ ProxyInitialized(TRUE) /\ Still
  \/ Runs
  \/ CallbackReturns /\ Still
  \/ OnModuleAdded
  \/ OnPropertyUpdated
  \/ RemoveClientsModules
  \/ \E p \in Peer :
       \/ OnClientRead(p)
       \/ OnClientClosed(p)
       \/ PeerRegisters(p)
       \/ \E id \in 0..(counter[p] - 1) : PeerUnregisters(p, id)
       \/ \E id \in 0..(counter[p] - 1), list \in UpdateList : PeerUpdates(p, id, list)
       \/ PeerReads(p)
       \/ PeerEnds(p)
  \/ \E r \in Requester :
       \/ \E id \in DOMAIN tabs \cap ModuleId, list \in UpdateList : PageApplies(r, id, list)
       \/ RequestReturns(r) /\ Still
  \/ \E t \in Thread \ {Net} :
       \/ \E module \in Definition : HostRegisters(t, module)
       \/ RegisterReturns(t) /\ Still

ProxySpec == ProxyInit /\ [][ProxyNext]_proxyVars

\* The module thread and the network thread go on while they have something to do,
\* and callbacks return.
ProxyFairness ==
  /\ WF_proxyVars(ProxyInitialized(TRUE) /\ Still)
  /\ WF_proxyVars(Runs) /\ WF_proxyVars(CallbackReturns /\ Still)
  /\ WF_proxyVars(OnModuleAdded) /\ WF_proxyVars(OnPropertyUpdated)
  /\ WF_proxyVars(RemoveClientsModules)
  /\ \A p \in Peer : WF_proxyVars(OnClientRead(p)) /\ WF_proxyVars(OnClientClosed(p))

FairProxySpec == ProxySpec /\ ProxyFairness

-----------------------------------------------------------------------------
(* Properties.                                                             *)

\* Nothing is left to do on the threads of the host, or on the links.
HostQuiet ==
  /\ loop = <<>> /\ running = Idle /\ reading = Idle /\ app[Net] = Idle
  /\ \A p \in Peer : link[p] # "lost"
Settled == HostQuiet /\ \A p \in Peer : up[p] = <<>> /\ down[p] = <<>>

\* The properties are those of a module, but for the values that may be set.
Fixed(properties, module) ==
  /\ Len(properties) = Len(module.properties)
  /\ \A k \in 1..Len(properties) :
       LET theirs == module.properties[k]
       IN  properties[k] = IF theirs.read_only THEN theirs
                           ELSE [theirs EXCEPT !.value = properties[k].value]

\* The peer and the id under which a change of a module is sent to its owner are those
\* it was registered under: the module here is the one registered there, as far as no
\* update may change it (ProxyServer.cpp:41-43,69-74,96-102).
RightOwner ==
  \A id \in DOMAIN remoteModules \cap DOMAIN modules :
    Fixed(modules[id].properties, Remote(remoteModules[id].client, remoteModules[id].remote))

\* The host holds no module of a peer that is gone, and none it could not remove
\* when its peer goes (ProxyServer.cpp:49-59,96-109).
NoOrphans ==
  HostQuiet =>
    /\ DOMAIN remoteModules = foreign
    /\ \A id \in foreign : link[remoteModules[id].client] = "open"

\* Once everything is settled the host has each module of each peer once, with the
\* values the peer has, where only the peer has changed them (ProxyServer.cpp:95-117).
HostFollowsOwner ==
  Settled =>
    \A p \in Peer :
      /\ {remoteModules[id].remote : id \in ModulesOf(p)} = DOMAIN own[p]
      /\ Cardinality(ModulesOf(p)) = Cardinality(DOMAIN own[p])
      /\ \A id \in ModulesOf(p) : "page" \notin writers[id] =>
           modules[id].properties = own[p][remoteModules[id].remote].properties

\* README.md:63: changes made in the web interface are reported.  A change the
\* page makes between DoRegisterModule and AddModule (ProxyServer.cpp:100-101) is
\* stored here and never sent to the owner.
OwnerIsTold ==
  Settled =>
    \A p \in Peer : \A id \in ModulesOf(p) : writers[id] = {"page"} =>
      modules[id].properties = own[p][remoteModules[id].remote].properties

\* The modules of a peer that ends leave the host (ProxyServer.cpp:123-125).
LostPeersLeave ==
  \A p \in Peer :
    link[p] = "lost" ~> \A id \in foreign :
      Values(modules[id].properties)[2] \notin
        {Values(Remote(p, i).properties)[2] : i \in ModuleId}
=============================================================================
