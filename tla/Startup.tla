------------------------------- MODULE Startup --------------------------------
(***************************************************************************)
(* Several processes that use the library on one machine: how they find    *)
(* out which of them is the host (Proxy.cpp, ProxyServer::Init,            *)
(* ModuleManager::OnProxyInitialized), and whose modules the page shows.   *)
(* A process has two threads here: the network thread tries to connect to  *)
(* port - 1, and listens there when nobody does; the module thread then    *)
(* listens at the port of the web server.  Neither notices a failure.      *)
(*                                                                         *)
(* A call of the application and the task it posts are one step: the       *)
(* module ModuleManager has them apart.  A module is <<p, n>>, the n-th of *)
(* process p; which id it has on the host is left to ProxyServer.          *)
(***************************************************************************)
EXTENDS Integers, Sequences

CONSTANTS
  Process,     \* the processes
  MaxModules,  \* bound on the modules a process registers
  MaxEnds      \* bound on the processes that end

ASSUME StartupAssumption == {MaxModules, MaxEnds} \subseteq Nat

VARIABLES
  stage,     \* per process: how far its start has come
  server,    \* per process: Proxy has a _server, not a _client
  link,      \* per process: the host its _client is connected to, in a set
  proxyPort, \* the process that listens at port - 1, in a set
  httpPort,  \* the process that listens at the port, in a set
  modules,   \* per process: _modules
  queue,     \* per process: _msg_queue
  wire,      \* per process: what it has sent to its host and the host not yet read
  counter,   \* per process: modules registered
  ends,      \* processes that have ended
  raced      \* history: two processes were between the refusal and listening

ports == <<proxyPort, httpPort>>
startupVars == <<stage, server, link, ports, modules, queue, wire, counter, ends, raced>>

\* Not started; without a library; waiting for the outcome of the connection; with
\* the outcome; with OnProxyInitialized posted; with it run; and gone.
Stage == {"off", "invalid", "connecting", "accepted", "refused", "posted", "ready", "ended"}

StartupInit ==
  /\ stage = [p \in Process |-> "off"] /\ server = [p \in Process |-> FALSE]
  /\ link = [p \in Process |-> {}]
  /\ proxyPort = {} /\ httpPort = {}
  /\ modules = [p \in Process |-> {}] /\ queue = [p \in Process |-> <<>>]
  /\ wire = [p \in Process |-> <<>>]
  /\ counter = [p \in Process |-> 0] /\ ends = 0 /\ raced = FALSE

Goes(p, from, to) == stage[p] = from /\ stage' = [stage EXCEPT ![p] = to]

\* The processes whose wrapper is valid.
Running == {p \in Process : stage[p] \notin {"off", "invalid", "ended"}}

\* Binding a port: it fails if another process has it.
Bind(port, p) == IF port = {} THEN {p} ELSE port

-----------------------------------------------------------------------------
(* The start.                                                              *)

\* SacsWrapper::Instance, the first time: the library is there or is not.
Instance(p) ==
  /\ Goes(p, "off", "connecting") \/ Goes(p, "off", "invalid")
  /\ UNCHANGED <<server, link, ports, modules, queue, wire, counter, ends, raced>>

\* Proxy::Init: CreateClient finds somebody listening at port - 1, or nobody.
CreateClient(p) ==
  /\ \/ /\ proxyPort # {}
        /\ Goes(p, "connecting", "accepted")
        /\ UNCHANGED raced
     \/ /\ proxyPort = {}
        /\ Goes(p, "connecting", "refused")
        /\ raced' = (raced \/ \E q \in Process : stage[q] = "refused")
  /\ link' = [link EXCEPT ![p] = proxyPort]
  /\ UNCHANGED <<server, ports, modules, queue, wire, counter, ends>>

\* Proxy::OnClientConnecting with ProxyServer::Init, the first time.
OnClientConnecting(p) ==
  /\ \/ Goes(p, "accepted", "posted") /\ UNCHANGED <<server, proxyPort>>
     \/ /\ Goes(p, "refused", "posted")
        /\ server' = [server EXCEPT ![p] = TRUE]
        /\ proxyPort' = Bind(proxyPort, p)
  /\ UNCHANGED <<link, httpPort, modules, queue, wire, counter, ends, raced>>

\* Faulty variants of OnProxyInitialized: the web server is made before the mode is
\* looked at; the queue is cleared unsent.
OnProxyInitializedServes(p) ==
  /\ Goes(p, "posted", "ready")
  /\ httpPort' = Bind(httpPort, p)
  /\ wire' = IF link[p] # {} THEN [wire EXCEPT ![p] = @ \o queue[p]] ELSE wire
  /\ queue' = [queue EXCEPT ![p] = <<>>]
  /\ UNCHANGED <<server, link, proxyPort, modules, counter, ends, raced>>
OnProxyInitializedUnsent(p) ==
  /\ Goes(p, "posted", "ready")
  /\ httpPort' = IF server[p] THEN Bind(httpPort, p) ELSE httpPort
  /\ queue' = [queue EXCEPT ![p] = <<>>]
  /\ UNCHANGED <<server, link, proxyPort, modules, wire, counter, ends, raced>>

\* ModuleManager::OnProxyInitialized: what a host has queued goes to its pages,
\* which read the list when they load.
OnProxyInitialized(p) ==
  /\ Goes(p, "posted", "ready")
  /\ httpPort' = IF server[p] THEN Bind(httpPort, p) ELSE httpPort
  /\ wire' = IF link[p] # {} THEN [wire EXCEPT ![p] = @ \o queue[p]] ELSE wire
  /\ queue' = [queue EXCEPT ![p] = <<>>]
  /\ UNCHANGED <<server, link, proxyPort, modules, counter, ends, raced>>

-----------------------------------------------------------------------------
(* Modules.                                                                *)

\* ModuleManager::HandleMessage: Client::Send on a closed link is lost.
HandleMessage(p, msg) ==
  /\ queue' = IF stage[p] # "ready" THEN [queue EXCEPT ![p] = Append(@, msg)] ELSE queue
  /\ wire' = IF stage[p] = "ready" /\ link[p] # {}
             THEN [wire EXCEPT ![p] = Append(@, msg)] ELSE wire

RegisterModule(p) ==
  /\ p \in Running
  /\ counter[p] < MaxModules
  /\ counter' = [counter EXCEPT ![p] = @ + 1]
  /\ modules' = [modules EXCEPT ![p] = @ \cup {<<p, counter[p]>>}]
  /\ HandleMessage(p, [type |-> "module_added", module |-> <<p, counter[p]>>])
  /\ UNCHANGED <<stage, server, link, ports, ends, raced>>

UnregisterModule(p, module) ==
  /\ p \in Running
  /\ modules' = [modules EXCEPT ![p] = @ \ {module}]
  /\ HandleMessage(p, [type |-> "module_removed", module |-> module])
  /\ UNCHANGED <<stage, server, link, ports, counter, ends, raced>>

\* ProxyServer::OnClientRead on the host `h`: what it pushes goes to its pages.
OnClientRead(h, p) ==
  /\ link[p] = {h} /\ wire[p] # <<>>
  /\ wire' = [wire EXCEPT ![p] = Tail(@)]
  /\ LET msg == Head(wire[p])
     IN  modules' = [modules EXCEPT ![h] =
           IF msg.type = "module_added" THEN @ \cup {msg.module} ELSE @ \ {msg.module}]
  /\ UNCHANGED <<stage, server, link, ports, queue, counter, ends, raced>>

\* Faulty variant of OnClientClosed: the modules stay.
OnClientClosedKeeps(h, p) ==
  /\ link[p] = {h} /\ stage[p] = "ended" /\ wire[p] = <<>>
  /\ link' = [link EXCEPT ![p] = {}]
  /\ UNCHANGED <<stage, server, ports, modules, queue, wire, counter, ends, raced>>

\* ProxyServer::OnClientClosed
OnClientClosed(h, p) ==
  /\ link[p] = {h} /\ stage[p] = "ended" /\ wire[p] = <<>>
  /\ link' = [link EXCEPT ![p] = {}]
  /\ modules' = [modules EXCEPT ![h] = {module \in @ : module[1] # p}]
  /\ UNCHANGED <<stage, server, ports, queue, wire, counter, ends, raced>>

\* The process ends, at any moment: its ports are free again, the links to it break,
\* and any end of what it has sent may be lost.
Ends(p) ==
  /\ p \in Running
  /\ ends < MaxEnds /\ ends' = ends + 1
  /\ stage' = [stage EXCEPT ![p] = "ended"]
  /\ proxyPort' = proxyPort \ {p} /\ httpPort' = httpPort \ {p}
  /\ modules' = [modules EXCEPT ![p] = {}] /\ queue' = [queue EXCEPT ![p] = <<>>]
  /\ link' = [q \in Process |-> link[q] \ {p}]
  /\ \E n \in 0..Len(wire[p]) :
       wire' = [q \in Process |->
         IF q = p THEN SubSeq(wire[p], 1, n) ELSE IF link[q] = {p} THEN <<>> ELSE wire[q]]
  /\ UNCHANGED <<server, counter, raced>>

StartupNext ==
  \/ \E p \in Process :
       \/ Instance(p) \/ CreateClient(p) \/ OnClientConnecting(p) \/ OnProxyInitialized(p)
       \/ RegisterModule(p)
       \/ \E n \in 0..(MaxModules - 1) : <<p, n>> \in modules[p] /\ UnregisterModule(p, <<p, n>>)
       \/ Ends(p)
  \/ \E h, p \in Process : OnClientRead(h, p) \/ OnClientClosed(h, p)

StartupSpec == StartupInit /\ [][StartupNext]_startupVars

\* A connection has an outcome, the threads go on, a host reads what it is sent.
StartupFairness ==
  /\ \A p \in Process :
       /\ WF_startupVars(CreateClient(p)) /\ WF_startupVars(OnClientConnecting(p))
       /\ WF_startupVars(OnProxyInitialized(p))
       /\ WF_startupVars(\E h \in Process : OnClientRead(h, p) \/ OnClientClosed(h, p))

FairStartupSpec == StartupSpec /\ StartupFairness

-----------------------------------------------------------------------------
(* Properties.                                                             *)

\* Nobody is in the middle of its start, and nothing is on a link.
Settled ==
  /\ \A p \in Running : stage[p] = "ready"
  /\ \A p \in Process : wire[p] = <<>> /\ (stage[p] = "ended" => link[p] = {})

\* What a page shows: the list of the process whose web server it has reached.
OnPage == UNION {modules[h] : h \in httpPort}

Own(p) == {module \in modules[p] : module[1] = p}

\* A process that had a host and has outlived it.
Stranded(p) == stage[p] \in {"accepted", "posted", "ready"} /\ ~server[p] /\ link[p] = {}

\* A host holds its own modules and those of the processes connected to it, and
\* nothing else, whatever they registered before they knew the host, removed, or left
\* behind when they ended (ModuleManager.cpp:73-83, ProxyServer.cpp:85-125).
HostHoldsAll ==
  Settled =>
    \A h \in Running : server[h] =>
      modules[h] = UNION {Own(p) : p \in {h} \cup {q \in Running : link[q] = {h}}}

\* If no two processes found the port free at once, every process is the web server's
\* or is connected to it, or has outlived its host (Proxy.cpp:55-74,
\* ModuleManager.cpp:65-71): also a process that starts after a host has ended.
OneHost ==
  Settled /\ ~raced =>
    \A p \in Running : {p} = httpPort \/ (link[p] # {} /\ link[p] = httpPort) \/ Stranded(p)

\* Every module gets to the page, if its owner keeps it, stays and is not stranded, and
\* no two processes found the port free at once (ModuleManager.cpp:92-99, 73-83).
ModulesGetToPage ==
  \A p \in Process, n \in 0..(MaxModules - 1) :
    <<p, n>> \in modules[p] ~>
      <<p, n>> \in OnPage \/ <<p, n>> \notin modules[p] \/ Stranded(p) \/ raced

\* README.md:151: all modules of all instances are on the same page.  Two processes
\* that start together break it: each of them finds nobody listening (Proxy.cpp:66),
\* and who gets port - 1 need not be who gets the port (ModuleManager.cpp:69).
AllOnOnePage == Settled /\ ends = 0 => \A p \in Running : modules[p] \subseteq OnPage
=============================================================================
