---------------------------- MODULE StartupProof -----------------------------
(***************************************************************************)
(* Of the processes on a machine, one is the host of all the others unless *)
(* two of them found the port free at once (OneHost), and a host holds     *)
(* what is registered in the processes linked to it and nothing else       *)
(* (HostHoldsAll): for every set of processes, every number of modules and *)
(* every number of processes that end.                                     *)
(***************************************************************************)
EXTENDS Startup, SequenceTheorems, TLAPS

-----------------------------------------------------------------------------
(* The types.                                                              *)

\* The message that announces a module, and the one that takes it back.
Added(module)   == [type |-> "module_added", module |-> module]
Removed(module) == [type |-> "module_removed", module |-> module]
Message == [type : {"module_added", "module_removed"}, module : Process \X Nat]

StartupTypeOK ==
  /\ stage \in [Process -> Stage] /\ server \in [Process -> BOOLEAN]
  /\ link \in [Process -> SUBSET Process]
  /\ proxyPort \subseteq Process /\ httpPort \subseteq Process
  /\ modules \in [Process -> SUBSET (Process \X Nat)]
  /\ queue \in [Process -> Seq(Message)] /\ wire \in [Process -> Seq(Message)]
  /\ counter \in [Process -> Nat] /\ raced \in BOOLEAN

\* A port has at most one listener, which has come that far as a host.
PortsHeld ==
  /\ \A p \in proxyPort : proxyPort = {p} /\ server[p] /\ stage[p] \in {"posted", "ready"}
  /\ \A p \in httpPort : httpPort = {p} /\ server[p] /\ stage[p] = "ready"

\* A process is a host or is connected to one, and the link of a host that ends breaks.
LinksHeld ==
  /\ \A p \in Process : server[p] => stage[p] \in {"posted", "ready", "ended"} /\ link[p] = {}
  /\ \A p \in Process, h \in Process : h \in link[p] =>
       /\ link[p] = {h}
       /\ stage[p] \in {"accepted", "posted", "ready", "ended"}
       /\ server[h] /\ stage[h] \in {"posted", "ready"}

\* While no two processes have found the port free at once, the one that finds it free
\* is alone in doing so, and a host has both ports.
OneFindsItFree ==
  ~raced =>
    /\ \A p, q \in Process : stage[p] = "refused" /\ stage[q] = "refused" => p = q
    /\ \A p \in Process : stage[p] = "refused" => proxyPort = {}
    /\ \A p \in Process : server[p] /\ stage[p] \in {"posted", "ready"} => proxyPort = {p}
    /\ \A p \in Process : server[p] /\ stage[p] = "ready" => httpPort = {p}

PortsInv == StartupTypeOK /\ PortsHeld /\ LinksHeld /\ OneFindsItFree

\* What a step posts or sends is a message, at the end of what was there.
LEMMA HandleMessageTypes ==
  ASSUME StartupTypeOK, NEW p \in Process, NEW msg \in Message, HandleMessage(p, msg)
  PROVE  queue' \in [Process -> Seq(Message)] /\ wire' \in [Process -> Seq(Message)]
<1>1. /\ queue \in [Process -> Seq(Message)] /\ wire \in [Process -> Seq(Message)]
      /\ Append(queue[p], msg) \in Seq(Message) /\ Append(wire[p], msg) \in Seq(Message)
  BY AppendProperties DEF StartupTypeOK
<1> QED BY <1>1 DEF HandleMessage

LEMMA StartupTypeStep == StartupTypeOK /\ [StartupNext]_startupVars => StartupTypeOK'
<1> SUFFICES ASSUME StartupTypeOK, [StartupNext]_startupVars PROVE StartupTypeOK'
  OBVIOUS
<1>0. /\ stage \in [Process -> Stage] /\ server \in [Process -> BOOLEAN]
      /\ link \in [Process -> SUBSET Process]
      /\ proxyPort \subseteq Process /\ httpPort \subseteq Process
      /\ modules \in [Process -> SUBSET (Process \X Nat)]
      /\ queue \in [Process -> Seq(Message)] /\ wire \in [Process -> Seq(Message)]
      /\ counter \in [Process -> Nat] /\ raced \in BOOLEAN
      /\ <<>> \in Seq(Message)
  BY EmptySeq DEF StartupTypeOK
<1>1. ASSUME NEW p \in Process, Instance(p) PROVE StartupTypeOK'
  BY <1>0, <1>1 DEF Instance, Goes, Stage, ports, StartupTypeOK
<1>2. ASSUME NEW p \in Process, CreateClient(p) PROVE StartupTypeOK'
  BY <1>0, <1>2 DEF CreateClient, Goes, Stage, ports, StartupTypeOK
<1>3. ASSUME NEW p \in Process, OnClientConnecting(p) PROVE StartupTypeOK'
  BY <1>0, <1>3 DEF OnClientConnecting, Goes, Stage, Bind, ports, StartupTypeOK
<1>4. ASSUME NEW p \in Process, OnProxyInitialized(p) PROVE StartupTypeOK'
  <2>1. wire[p] \o queue[p] \in Seq(Message)
    BY <1>0, ConcatProperties
  <2>2. queue' \in [Process -> Seq(Message)] /\ wire' \in [Process -> Seq(Message)]
    BY <1>0, <1>4, <2>1 DEF OnProxyInitialized
  <2> QED BY <1>0, <1>4, <2>2 DEF OnProxyInitialized, Goes, Stage, Bind, StartupTypeOK
<1>5. ASSUME NEW p \in Process, RegisterModule(p) PROVE StartupTypeOK'
  <2>1. <<p, counter[p]>> \in Process \X Nat
    BY <1>0
  <2>2. [type |-> "module_added", module |-> <<p, counter[p]>>] \in Message
    BY <2>1 DEF Message
  <2>3. queue' \in [Process -> Seq(Message)] /\ wire' \in [Process -> Seq(Message)]
    BY <1>5, <2>2, HandleMessageTypes DEF RegisterModule
  <2>4. modules' \in [Process -> SUBSET (Process \X Nat)]
    <3>1. modules[p] \cup {<<p, counter[p]>>} \in SUBSET (Process \X Nat)
      BY <1>0, <2>1
    <3> QED BY <1>0, <1>5, <3>1 DEF RegisterModule
  <2>5. counter' \in [Process -> Nat]
    BY <1>0, <1>5 DEF RegisterModule
  <2> QED BY <1>0, <1>5, <2>3, <2>4, <2>5 DEF RegisterModule, ports, StartupTypeOK
<1>6. ASSUME NEW p \in Process, NEW n \in 0..(MaxModules - 1), UnregisterModule(p, <<p, n>>)
      PROVE  StartupTypeOK'
  <2>1. [type |-> "module_removed", module |-> <<p, n>>] \in Message
    BY StartupAssumption DEF Message
  <2>2. queue' \in [Process -> Seq(Message)] /\ wire' \in [Process -> Seq(Message)]
    BY <1>6, <2>1, HandleMessageTypes DEF UnregisterModule
  <2> QED BY <1>0, <1>6, <2>2 DEF UnregisterModule, ports, StartupTypeOK
<1>7. ASSUME NEW h \in Process, NEW p \in Process, OnClientRead(h, p) PROVE StartupTypeOK'
  <2>1. Head(wire[p]) \in Message /\ Tail(wire[p]) \in Seq(Message)
    BY <1>0, <1>7, HeadTailProperties DEF OnClientRead
  <2>2. Head(wire[p]).module \in Process \X Nat
    BY <2>1 DEF Message
  <2> QED BY <1>0, <1>7, <2>1, <2>2 DEF OnClientRead, ports, StartupTypeOK
<1>8. ASSUME NEW h \in Process, NEW p \in Process, OnClientClosed(h, p) PROVE StartupTypeOK'
  BY <1>0, <1>8 DEF OnClientClosed, ports, StartupTypeOK
<1>9. ASSUME NEW p \in Process, Ends(p) PROVE StartupTypeOK'
  <2>1. PICK n \in 0..Len(wire[p]) :
          wire' = [q \in Process |->
            IF q = p THEN SubSeq(wire[p], 1, n) ELSE IF link[q] = {p} THEN <<>> ELSE wire[q]]
    BY <1>9 DEF Ends
  <2>2. SubSeq(wire[p], 1, n) \in Seq(Message)
    <3>1. Len(wire[p]) \in Nat /\ \A i \in 1..n : wire[p][i] \in Message
      BY <1>0, LenProperties, ElementOfSeq
    <3>2. n \in Int
      BY <3>1
    <3> QED BY <3>1, <3>2, SubSeqProperties
  <2> QED BY <1>0, <1>9, <2>1, <2>2 DEF Ends, Goes, Stage, StartupTypeOK
<1>10. CASE UNCHANGED startupVars
  BY <1>0, <1>10 DEF startupVars, ports, StartupTypeOK
<1> QED BY <1>1, <1>2, <1>3, <1>4, <1>5, <1>6, <1>7, <1>8, <1>9, <1>10 DEF StartupNext

-----------------------------------------------------------------------------
(* The ports and the links.                                                *)

\* The steps of a start (Proxy.cpp:41-74, ModuleManager.cpp:65-83).
LEMMA StartKeepsPorts ==
  ASSUME PortsInv, NEW p \in Process
  PROVE  /\ Instance(p) => PortsHeld' /\ LinksHeld' /\ OneFindsItFree'
         /\ CreateClient(p) => PortsHeld' /\ LinksHeld' /\ OneFindsItFree'
         /\ OnClientConnecting(p) => PortsHeld' /\ LinksHeld' /\ OneFindsItFree'
         /\ OnProxyInitialized(p) => PortsHeld' /\ LinksHeld' /\ OneFindsItFree'
<1>0. /\ stage \in [Process -> Stage] /\ server \in [Process -> BOOLEAN]
      /\ link \in [Process -> SUBSET Process]
      /\ proxyPort \subseteq Process /\ httpPort \subseteq Process
      /\ PortsHeld /\ LinksHeld /\ OneFindsItFree /\ raced \in BOOLEAN
  BY DEF PortsInv, StartupTypeOK
<1> USE DEF Goes, ports
<1>1. ASSUME Instance(p) PROVE PortsHeld' /\ LinksHeld' /\ OneFindsItFree'
  <2>1. PortsHeld'
    BY <1>0, <1>1 DEF Instance, PortsHeld
  <2>2. LinksHeld'
    BY <1>0, <1>1 DEF Instance, LinksHeld
  <2>3. OneFindsItFree'
    BY <1>0, <1>1 DEF Instance, OneFindsItFree
  <2> QED BY <2>1, <2>2, <2>3
<1>2. ASSUME CreateClient(p) PROVE PortsHeld' /\ LinksHeld' /\ OneFindsItFree'
  <2>1. PortsHeld'
    BY <1>0, <1>2 DEF CreateClient, PortsHeld
  <2>2. LinksHeld'
    BY <1>0, <1>2 DEF CreateClient, PortsHeld, LinksHeld
  <2>3. OneFindsItFree'
    BY <1>0, <1>2 DEF CreateClient, OneFindsItFree
  <2> QED BY <2>1, <2>2, <2>3
<1>3. ASSUME OnClientConnecting(p) PROVE PortsHeld' /\ LinksHeld' /\ OneFindsItFree'
  <2>1. PortsHeld'
    BY <1>0, <1>3 DEF OnClientConnecting, Bind, PortsHeld
  <2>2. LinksHeld'
    BY <1>0, <1>3 DEF OnClientConnecting, LinksHeld
  <2>3. OneFindsItFree'
    BY <1>0, <1>3 DEF OnClientConnecting, Bind, OneFindsItFree, LinksHeld
  <2> QED BY <2>1, <2>2, <2>3
<1>4. ASSUME OnProxyInitialized(p) PROVE PortsHeld' /\ LinksHeld' /\ OneFindsItFree'
  <2>1. PortsHeld'
    BY <1>0, <1>4 DEF OnProxyInitialized, Bind, PortsHeld
  <2>2. LinksHeld'
    BY <1>0, <1>4 DEF OnProxyInitialized, LinksHeld
  <2>3. OneFindsItFree'
    \* a process that already had the port of the web server would have the other too
    <3>1. ~raced /\ server[p] => \A q \in httpPort : q = p
      BY <1>0, <1>4 DEF OnProxyInitialized, PortsHeld, OneFindsItFree
    <3> QED BY <1>0, <1>4, <3>1 DEF OnProxyInitialized, Bind, OneFindsItFree
  <2> QED BY <2>1, <2>2, <2>3
<1> QED BY <1>1, <1>2, <1>3, <1>4

\* The end of a process, and the host that notices.
LEMMA EndKeepsPorts ==
  ASSUME PortsInv, NEW h \in Process, NEW p \in Process, OnClientClosed(h, p) \/ Ends(p)
  PROVE  PortsHeld' /\ LinksHeld' /\ OneFindsItFree'
<1>0. /\ stage \in [Process -> Stage] /\ server \in [Process -> BOOLEAN]
      /\ link \in [Process -> SUBSET Process]
      /\ proxyPort \subseteq Process /\ httpPort \subseteq Process
      /\ PortsHeld /\ LinksHeld /\ OneFindsItFree
  BY DEF PortsInv, StartupTypeOK
<1>1. CASE OnClientClosed(h, p)
  BY <1>0, <1>1 DEF OnClientClosed, PortsHeld, LinksHeld, OneFindsItFree, ports
<1>2. CASE Ends(p)
  <2>1. /\ stage' = [stage EXCEPT ![p] = "ended"] /\ UNCHANGED <<server, raced>>
        /\ proxyPort' = proxyPort \ {p} /\ httpPort' = httpPort \ {p}
        /\ link' = [q \in Process |-> link[q] \ {p}]
        /\ stage[p] \notin {"off", "invalid", "ended"}
    BY <1>2 DEF Ends, Running
  <2>2. PortsHeld'
    BY <1>0, <2>1 DEF PortsHeld
  <2>3. LinksHeld'
    BY <1>0, <2>1 DEF LinksHeld
  <2>4. OneFindsItFree'
    BY <1>0, <2>1 DEF OneFindsItFree
  <2> QED BY <2>2, <2>3, <2>4
<1> QED BY <1>1, <1>2

LEMMA PortsInvStep == PortsInv /\ [StartupNext]_startupVars => PortsInv'
<1> SUFFICES ASSUME PortsInv, [StartupNext]_startupVars PROVE PortsInv'
  OBVIOUS
<1>0. StartupTypeOK'
  BY StartupTypeStep DEF PortsInv
<1>1. CASE \E p \in Process : \/ Instance(p) \/ CreateClient(p) \/ OnClientConnecting(p)
                              \/ OnProxyInitialized(p)
  BY <1>0, <1>1, StartKeepsPorts DEF PortsInv
<1>2. CASE \E h, p \in Process : OnClientClosed(h, p) \/ Ends(p)
  BY <1>0, <1>2, EndKeepsPorts DEF PortsInv
<1>3. CASE UNCHANGED <<stage, server, link, ports, raced>>
  BY <1>0, <1>3 DEF PortsInv, PortsHeld, LinksHeld, OneFindsItFree, ports
<1> QED BY <1>1, <1>2, <1>3
      DEF StartupNext, RegisterModule, UnregisterModule, OnClientRead, startupVars

LEMMA PortsInvInit == StartupInit => PortsInv
<1> SUFFICES ASSUME StartupInit PROVE PortsInv
  OBVIOUS
<1>1. StartupTypeOK
  BY EmptySeq DEF StartupInit, StartupTypeOK, Stage
<1> QED BY <1>1 DEF StartupInit, PortsInv, PortsHeld, LinksHeld, OneFindsItFree

\* If no two processes found the port free at once, every process is the web server's,
\* is connected to it, or has outlived its host (Proxy.cpp:41-74,
\* ModuleManager.cpp:65-71).
THEOREM OneHostForAll == StartupSpec => []OneHost
<1>1. PortsInv => OneHost
  <2> SUFFICES ASSUME PortsInv, Settled, ~raced, NEW p \in Running
               PROVE  \/ {p} = httpPort
                      \/ link[p] # {} /\ link[p] = httpPort
                      \/ Stranded(p)
    BY DEF OneHost
  <2>1. /\ LinksHeld /\ OneFindsItFree /\ p \in Process /\ stage[p] = "ready"
        /\ link \in [Process -> SUBSET Process] /\ server \in [Process -> BOOLEAN]
        /\ \A h \in Process : stage[h] \in {"posted", "ready"} => stage[h] = "ready"
    BY DEF PortsInv, StartupTypeOK, Settled, Running
  <2>2. CASE server[p]
    BY <2>1, <2>2 DEF OneFindsItFree
  <2>3. CASE ~server[p] /\ link[p] = {}
    BY <2>1, <2>3 DEF Stranded
  <2>4. CASE link[p] # {}
    <3>1. PICK h \in Process : link[p] = {h} /\ server[h] /\ stage[h] = "ready"
      BY <2>1, <2>4 DEF LinksHeld
    <3> QED BY <2>1, <3>1 DEF OneFindsItFree
  <2> QED BY <2>2, <2>3, <2>4
<1> QED BY <1>1, PortsInvInit, PortsInvStep, PTL DEF StartupSpec

-----------------------------------------------------------------------------
(* What a host holds.                                                      *)

\* What a process has announced and its host has not read, or will be sent.
Outgoing(p) == IF stage[p] \in {"ready", "ended"} THEN wire[p] ELSE queue[p]
Has(s, x) == \E i \in 1..Len(s) : s[i] = x

Ordered(s, module) ==
  \A i, j \in 1..Len(s) : s[i] = Removed(module) /\ s[j] = Added(module) => j < i

\* A queue is empty once sent, a wire until then and without a link.
Emptied(p) ==
  /\ stage[p] \in {"ready", "ended"} => queue[p] = <<>>
  /\ stage[p] \notin {"ready", "ended"} \/ link[p] = {} => wire[p] = <<>>
  /\ stage[p] = "off" => modules[p] = {} /\ queue[p] = <<>>

\* A process announces its own modules, each with a number of its own, and takes
\* one back only after it has announced it.
OwnModules(p) ==
  /\ \A module \in Process \X Nat :
       /\ Has(Outgoing(p), Added(module)) \/ Has(Outgoing(p), Removed(module)) =>
            module[1] = p /\ module[2] < counter[p]
       /\ Ordered(Outgoing(p), module)
  /\ \A module \in modules[p] : module[1] = p => module[2] < counter[p]

\* A process holds its modules and those of the processes linked to it.
NobodyElses(h) == \A module \in modules[h] : module[1] = h \/ link[module[1]] = {h}

\* The host of a process that looks for one or has one holds its modules, once it has
\* read what is on its way.
HostWillHold(p) ==
  stage[p] = "connecting" \/ (stage[p] # "ended" /\ link[p] # {}) =>
    \A module \in Process \X Nat : module[1] = p =>
      (module \in modules[p] <=>
         /\ (\E h \in link[p] : module \in modules[h]) \/ Has(Outgoing(p), Added(module))
         /\ ~Has(Outgoing(p), Removed(module)))

HoldsInv ==
  \A p \in Process : Emptied(p) /\ OwnModules(p) /\ NobodyElses(p) /\ HostWillHold(p)
StartupInv == PortsInv /\ HoldsInv

\* Two messages say the same only if they are about one module.
LEMMA MessagesDiffer ==
  /\ \A m, n : Added(m) # Removed(n)
  /\ \A m, n : Added(m) = Added(n) => m = n
  /\ \A m, n : Removed(m) = Removed(n) => m = n
BY DEF Added, Removed

\* A message at the end of what is on its way.
LEMMA Announced ==
  ASSUME NEW s \in Seq(Message), NEW msg \in Message
  PROVE  /\ Append(s, msg) \in Seq(Message)
         /\ \A x : Has(Append(s, msg), x) <=> Has(s, x) \/ x = msg
         /\ \A module : Ordered(s, module) /\ (msg = Added(module) => ~Has(s, Removed(module)))
                        => Ordered(Append(s, msg), module)
<1>1. /\ Append(s, msg) \in Seq(Message) /\ Len(Append(s, msg)) = Len(s) + 1
      /\ \A i \in 1..Len(s) : Append(s, msg)[i] = s[i]
      /\ Append(s, msg)[Len(s) + 1] = msg
      /\ Len(s) \in Nat
  BY AppendProperties, LenProperties
<1> DEFINE u == Append(s, msg)
<1> HIDE DEF u
<1>2. /\ Len(u) = Len(s) + 1 /\ u[Len(s) + 1] = msg /\ Len(s) \in Nat
      /\ \A i \in 1..Len(s) : u[i] = s[i]
  BY <1>1 DEF u
<1>3. \A i \in 1..Len(u) : i \in 1..Len(s) \/ i = Len(s) + 1
  BY <1>2
<1>4. 1..Len(s) \subseteq 1..Len(u) /\ Len(s) + 1 \in 1..Len(u)
  BY <1>2
<1>5. ASSUME NEW x PROVE Has(u, x) <=> Has(s, x) \/ x = msg
  BY <1>2, <1>3, <1>4 DEF Has
<1>6. ASSUME NEW module, Ordered(s, module), msg = Added(module) => ~Has(s, Removed(module))
      PROVE  Ordered(u, module)
  <2> SUFFICES ASSUME NEW i \in 1..Len(u), NEW j \in 1..Len(u),
                      u[i] = Removed(module), u[j] = Added(module)
               PROVE  j < i
    BY DEF Ordered
  <2>1. CASE i \in 1..Len(s) /\ j \in 1..Len(s)
    BY <1>2, <1>6, <2>1 DEF Ordered
  <2>2. CASE j = Len(s) + 1
    <3>1. msg = Added(module) /\ i # Len(s) + 1
      BY <1>2, <2>2, MessagesDiffer
    <3>2. Has(s, Removed(module))
      BY <1>2, <1>3, <3>1 DEF Has
    <3> QED BY <1>6, <3>1, <3>2
  <2>3. CASE i = Len(s) + 1 /\ j \in 1..Len(s)
    BY <1>2, <2>3
  <2> QED BY <1>3, <2>1, <2>2, <2>3
<1> QED BY <1>1, <1>5, <1>6 DEF u

\* The first message that is read.
LEMMA FirstRead ==
  ASSUME NEW s \in Seq(Message), s # <<>>
  PROVE  /\ Head(s) \in Message /\ Tail(s) \in Seq(Message)
         /\ \A x : Has(s, x) <=> Has(Tail(s), x) \/ x = Head(s)
         /\ \A module : Ordered(s, module) => Ordered(Tail(s), module)
         /\ \A module : Ordered(s, module) /\ Head(s) = Removed(module) =>
              ~Has(Tail(s), Added(module))
<1> DEFINE u == Tail(s)
<1>1. /\ Head(s) \in Message /\ u \in Seq(Message) /\ Len(u) = Len(s) - 1
      /\ \A i \in 1..Len(u) : u[i] = s[i + 1]
      /\ Head(s) = s[1] /\ Len(s) \in Nat \ {0}
  BY HeadTailProperties, EmptySeq, LenProperties
<1> HIDE DEF u
<1>2. \A i \in 1..Len(s) : i = 1 \/ i - 1 \in 1..Len(u)
  BY <1>1
<1>3. \A i \in 1..Len(u) : i + 1 \in 1..Len(s) /\ i + 1 # 1 /\ i \in Int
  BY <1>1
<1>4. 1 \in 1..Len(s)
  BY <1>1
<1>5. ASSUME NEW x PROVE Has(s, x) <=> Has(u, x) \/ x = Head(s)
  <2>1. ASSUME NEW i \in 1..Len(s), s[i] = x, i # 1 PROVE Has(u, x)
    <3>1. i - 1 \in 1..Len(u) /\ u[i - 1] = s[(i - 1) + 1] /\ (i - 1) + 1 = i
      BY <1>1, <1>2, <2>1
    <3> QED BY <2>1, <3>1 DEF Has
  <2>2. ASSUME NEW i \in 1..Len(u), u[i] = x PROVE Has(s, x)
    BY <1>1, <1>3, <2>2 DEF Has
  <2> QED BY <1>1, <1>4, <2>1, <2>2 DEF Has
<1>6. ASSUME NEW module, Ordered(s, module) PROVE Ordered(u, module)
  <2> SUFFICES ASSUME NEW i \in 1..Len(u), NEW j \in 1..Len(u),
                      u[i] = Removed(module), u[j] = Added(module)
               PROVE  j < i
    BY DEF Ordered
  <2>1. j + 1 < i + 1
    BY <1>1, <1>3, <1>6 DEF Ordered
  <2> QED BY <1>3, <2>1
<1>7. ASSUME NEW module, Ordered(s, module), Head(s) = Removed(module)
      PROVE  ~Has(u, Added(module))
  <2> SUFFICES ASSUME NEW j \in 1..Len(u), u[j] = Added(module) PROVE FALSE
    BY DEF Has
  <2>1. j + 1 < 1
    BY <1>1, <1>3, <1>4, <1>7 DEF Ordered
  <2> QED BY <1>3, <2>1
<1> QED BY <1>1, <1>5, <1>6, <1>7 DEF u

\* What every step uses of the types and of the links.
LEMMA Known ==
  ASSUME PortsInv
  PROVE  /\ stage \in [Process -> Stage] /\ link \in [Process -> SUBSET Process]
         /\ modules \in [Process -> SUBSET (Process \X Nat)]
         /\ queue \in [Process -> Seq(Message)] /\ wire \in [Process -> Seq(Message)]
         /\ counter \in [Process -> Nat] /\ server \in [Process -> BOOLEAN]
         /\ \A p \in Process, h \in Process : h \in link[p] =>
              /\ link[p] = {h} /\ h # p /\ link[h] = {}
              /\ stage[p] \in {"accepted", "posted", "ready", "ended"}
              /\ stage[h] \in {"posted", "ready"}
         /\ \A p \in Process : Outgoing(p) \in Seq(Message)
         /\ \A x : ~Has(<<>>, x)
<1>1. \A x : ~Has(<<>>, x)
  <2>1. Len(<<>>) = 0
    BY EmptySeq
  <2> QED BY <2>1 DEF Has
<1> QED BY <1>1 DEF PortsInv, StartupTypeOK, LinksHeld, Outgoing

\* A process that nothing happens to, whatever happens to the modules of others.
LEMMA Aside ==
  ASSUME PortsInv, HoldsInv, NEW q \in Process,
         stage'[q] = stage[q], queue'[q] = queue[q], wire'[q] = wire[q],
         counter'[q] = counter[q], link'[q] = link[q],
         stage[q] = "off" => modules'[q] = modules[q],
         \A module \in Process \X Nat, h \in {q} \cup link[q] :
           module[1] = q => (module \in modules'[h] <=> module \in modules[h]),
         modules'[q] \subseteq Process \X Nat
  PROVE  Emptied(q)' /\ OwnModules(q)' /\ HostWillHold(q)'
<1>1. Emptied(q) /\ OwnModules(q) /\ HostWillHold(q)
  BY DEF HoldsInv
<1>2. Outgoing(q)' = Outgoing(q)
  BY DEF Outgoing
<1>3. Emptied(q)'
  BY <1>1 DEF Emptied
<1>4. OwnModules(q)'
  BY <1>1, <1>2 DEF OwnModules
<1>5. HostWillHold(q)'
  <2> SUFFICES ASSUME stage[q] = "connecting" \/ (stage[q] # "ended" /\ link[q] # {}),
                      NEW module \in Process \X Nat, module[1] = q
               PROVE  module \in modules'[q] <=>
                        /\ \/ \E h \in link[q] : module \in modules'[h]
                           \/ Has(Outgoing(q), Added(module))
                        /\ ~Has(Outgoing(q), Removed(module))
    BY <1>2 DEF HostWillHold
  <2>1. module \in modules[q] <=>
          /\ (\E h \in link[q] : module \in modules[h]) \/ Has(Outgoing(q), Added(module))
          /\ ~Has(Outgoing(q), Removed(module))
    BY <1>1 DEF HostWillHold
  <2> QED BY <2>1
<1> QED BY <1>3, <1>4, <1>5

\* The steps of a start: what has been announced waits for the host, and goes to it in
\* the order of the announcements (ModuleManager.cpp:73-83).
LEMMA StartKeepsHeld ==
  ASSUME PortsInv, HoldsInv, NEW p \in Process,
         Instance(p) \/ CreateClient(p) \/ OnClientConnecting(p) \/ OnProxyInitialized(p)
  PROVE  HoldsInv'
<1>0. /\ UNCHANGED <<modules, counter>>
      /\ \A q \in Process \ {p} :
           /\ stage'[q] = stage[q] /\ link'[q] = link[q]
           /\ queue'[q] = queue[q] /\ wire'[q] = wire[q]
  BY Known DEF Instance, CreateClient, OnClientConnecting, OnProxyInitialized, Goes
<1>1. Emptied(p) /\ OwnModules(p) /\ HostWillHold(p)
  BY DEF HoldsInv
<1>2. \A q \in Process \ {p} : Emptied(q)' /\ OwnModules(q)' /\ HostWillHold(q)'
  <2> TAKE q \in Process \ {p}
  <2>1. modules'[q] = modules[q] /\ modules'[q] \subseteq Process \X Nat
    BY <1>0, Known
  <2>2. \A module \in Process \X Nat, h \in {q} \cup link[q] :
          module[1] = q => (module \in modules'[h] <=> module \in modules[h])
    BY <1>0
  <2> QED BY <1>0, <2>1, <2>2, Aside
<1>3. link'[p] = link[p] \/ (CreateClient(p) /\ link[p] = {})
  BY Known DEF Instance, CreateClient, OnClientConnecting, OnProxyInitialized, Goes
<1>4. \A h \in Process : NobodyElses(h)'
  <2> SUFFICES ASSUME NEW h \in Process, NEW module \in modules[h]
               PROVE  module[1] = h \/ link'[module[1]] = {h}
    BY <1>0 DEF NobodyElses
  <2>1. module[1] = h \/ link[module[1]] = {h}
    BY DEF HoldsInv, NobodyElses
  <2>2. module[1] \in Process
    BY Known
  <2> QED BY <1>0, <1>3, <2>1, <2>2
<1>5. CASE Instance(p)
  <2>1. /\ stage[p] = "off" /\ stage'[p] \in {"connecting", "invalid"}
        /\ UNCHANGED <<queue, wire, link>>
    BY <1>5, Known DEF Instance, Goes
  <2>2. Outgoing(p)' = Outgoing(p) /\ Outgoing(p) = queue[p]
    BY <2>1 DEF Outgoing
  <2>3. modules[p] = {} /\ queue[p] = <<>> /\ link[p] = {}
    BY <1>1, <2>1, Known DEF Emptied
  <2>4. Emptied(p)' /\ OwnModules(p)'
    BY <1>0, <1>1, <2>1, <2>2 DEF Emptied, OwnModules
  <2>5. HostWillHold(p)'
    BY <1>0, <2>1, <2>2, <2>3, Known DEF HostWillHold
  <2> QED BY <1>2, <1>4, <2>4, <2>5 DEF HoldsInv
<1>6. CASE CreateClient(p)
  <2>1. /\ stage[p] = "connecting" /\ stage'[p] \in {"accepted", "refused"}
        /\ link'[p] = proxyPort /\ UNCHANGED <<queue, wire>>
        /\ stage'[p] = "refused" => proxyPort = {}
    BY <1>6, Known DEF CreateClient, Goes
  <2>2. Outgoing(p)' = Outgoing(p)
    BY <2>1 DEF Outgoing
  <2>3. link[p] = {} /\ p \notin proxyPort
    BY <2>1, Known DEF PortsInv, PortsHeld
  <2>4. Emptied(p)' /\ OwnModules(p)'
    BY <1>0, <1>1, <2>1, <2>2 DEF Emptied, OwnModules
  \* nobody can have had a module of it before
  <2>5. \A h \in proxyPort : \A module \in modules[h] : module[1] # p
    <3>1. proxyPort \subseteq Process
      BY DEF PortsInv, StartupTypeOK
    <3> QED BY <2>3, <3>1 DEF HoldsInv, NobodyElses
  <2>6. HostWillHold(p)'
    <3> SUFFICES ASSUME NEW module \in Process \X Nat, module[1] = p
                 PROVE  module \in modules[p] <=>
                          /\ \/ \E h \in proxyPort : module \in modules[h]
                             \/ Has(Outgoing(p), Added(module))
                          /\ ~Has(Outgoing(p), Removed(module))
      BY <1>0, <2>1, <2>2 DEF HostWillHold
    <3>1. module \in modules[p] <=>
            Has(Outgoing(p), Added(module)) /\ ~Has(Outgoing(p), Removed(module))
      BY <1>1, <2>1, <2>3 DEF HostWillHold
    <3> QED BY <2>5, <3>1
  <2> QED BY <1>2, <1>4, <2>4, <2>6 DEF HoldsInv
<1>7. CASE OnClientConnecting(p)
  <2>1. /\ stage[p] \in {"accepted", "refused"} /\ stage'[p] = "posted"
        /\ UNCHANGED <<link, queue, wire>>
    BY <1>7, Known DEF OnClientConnecting, Goes
  <2>2. Outgoing(p)' = Outgoing(p)
    BY <2>1 DEF Outgoing
  <2>3. Emptied(p)' /\ OwnModules(p)' /\ HostWillHold(p)'
    BY <1>0, <1>1, <2>1, <2>2 DEF Emptied, OwnModules, HostWillHold
  <2> QED BY <1>2, <1>4, <2>3 DEF HoldsInv
<1>8. CASE OnProxyInitialized(p)
  <2>1. /\ stage[p] = "posted" /\ stage'[p] = "ready" /\ UNCHANGED link
        /\ queue'[p] = <<>>
        /\ wire'[p] = IF link[p] # {} THEN wire[p] \o queue[p] ELSE wire[p]
    BY <1>8, Known DEF OnProxyInitialized, Goes
  <2>2. wire[p] = <<>> /\ wire[p] \o queue[p] = queue[p]
    BY <1>1, <2>1, Known, ConcatEmptySeq DEF Emptied
  <2>3. Outgoing(p)' = IF link[p] # {} THEN Outgoing(p) ELSE <<>>
    BY <2>1, <2>2 DEF Outgoing
  <2>4. Emptied(p)'
    BY <1>0, <1>1, <2>1, <2>2 DEF Emptied
  <2>5. OwnModules(p)'
    <3>1. \A module : Ordered(<<>>, module)
      BY EmptySeq DEF Ordered
    <3> QED BY <1>0, <1>1, <2>3, <3>1, Known DEF OwnModules
  <2>6. HostWillHold(p)'
    BY <1>0, <1>1, <2>1, <2>3 DEF HostWillHold
  <2> QED BY <1>2, <1>4, <2>4, <2>5, <2>6 DEF HoldsInv
<1> QED BY <1>5, <1>6, <1>7, <1>8

\* A message goes to the end of what is on its way, if there is anybody to send it to.
LEMMA Announces ==
  ASSUME PortsInv, HoldsInv, NEW p \in Process, stage[p] \notin {"off", "ended"},
         NEW msg \in Message, HandleMessage(p, msg), UNCHANGED <<stage, link>>
  PROVE  /\ \A q \in Process \ {p} : queue'[q] = queue[q] /\ wire'[q] = wire[q]
         /\ Outgoing(p)' = (IF stage[p] = "ready" /\ link[p] = {} THEN <<>>
                            ELSE Append(Outgoing(p), msg))
         /\ Emptied(p)'
<1>1. Emptied(p)
  BY DEF HoldsInv
<1>2. CASE stage[p] = "ready"
  <2>1. /\ queue' = queue
        /\ wire' = IF link[p] # {} THEN [wire EXCEPT ![p] = Append(@, msg)] ELSE wire
    BY <1>2 DEF HandleMessage
  <2> QED BY <1>1, <1>2, <2>1, Known DEF Emptied, Outgoing
<1>3. CASE stage[p] # "ready"
  <2>1. wire' = wire /\ queue' = [queue EXCEPT ![p] = Append(@, msg)]
    BY <1>3 DEF HandleMessage
  <2> QED BY <1>1, <1>3, <2>1, Known DEF Emptied, Outgoing
<1> QED BY <1>2, <1>3

\* A module that is registered has a new number (ModuleManager.cpp:109-130).
LEMMA RegisterKeepsHeld ==
  ASSUME PortsInv, HoldsInv, NEW p \in Process, RegisterModule(p)
  PROVE  HoldsInv'
<1> DEFINE new == <<p, counter[p]>>
<1>0. /\ stage[p] \notin {"off", "ended"} /\ UNCHANGED <<stage, server, link>>
      /\ modules' = [modules EXCEPT ![p] = @ \cup {new}]
      /\ counter' = [counter EXCEPT ![p] = @ + 1]
      /\ HandleMessage(p, Added(new))
  BY DEF RegisterModule, Running, Added
<1>1. new \in Process \X Nat /\ new[1] = p /\ new[2] = counter[p] /\ counter[p] \in Nat
  BY Known
<1>2. Added(new) \in Message
  BY <1>1 DEF Added, Message
<1> HIDE DEF new
<1>3. Emptied(p) /\ OwnModules(p) /\ NobodyElses(p) /\ HostWillHold(p)
  BY DEF HoldsInv
<1>4. /\ \A q \in Process \ {p} : queue'[q] = queue[q] /\ wire'[q] = wire[q]
      /\ Outgoing(p)' = (IF stage[p] = "ready" /\ link[p] = {} THEN <<>>
                         ELSE Append(Outgoing(p), Added(new)))
      /\ Emptied(p)'
  BY <1>0, <1>2, Announces
<1>5. /\ modules'[p] = modules[p] \cup {new} /\ counter'[p] = counter[p] + 1
      /\ \A q \in Process \ {p} : modules'[q] = modules[q] /\ counter'[q] = counter[q]
  BY <1>0, Known
<1>6. ~Has(Outgoing(p), Removed(new))
  BY <1>1, <1>3 DEF OwnModules
<1>7. /\ \A x : Has(Append(Outgoing(p), Added(new)), x) <=> Has(Outgoing(p), x) \/ x = Added(new)
      /\ \A module : Ordered(Outgoing(p), module) =>
           Ordered(Append(Outgoing(p), Added(new)), module)
  BY <1>2, <1>6, Known, Announced, MessagesDiffer
<1>8. \A q \in Process : NobodyElses(q)'
  BY <1>0, <1>1, <1>5 DEF HoldsInv, NobodyElses
<1>9. OwnModules(p)'
  <2>1. ASSUME NEW module \in Process \X Nat
        PROVE  /\ Has(Outgoing(p)', Added(module)) \/ Has(Outgoing(p)', Removed(module)) =>
                    module[1] = p /\ module[2] < counter'[p]
               /\ Ordered(Outgoing(p)', module)
    <3>0. module[2] \in Nat
      BY <2>1
    <3>1. CASE stage[p] = "ready" /\ link[p] = {}
      BY <1>4, <3>1, Known, EmptySeq DEF Ordered
    <3>2. CASE ~(stage[p] = "ready" /\ link[p] = {})
      <4>1. Has(Outgoing(p)', Added(module)) => Has(Outgoing(p), Added(module)) \/ module = new
        BY <1>4, <1>7, <3>2, MessagesDiffer
      <4>2. Has(Outgoing(p)', Removed(module)) => Has(Outgoing(p), Removed(module))
        BY <1>4, <1>7, <3>2, MessagesDiffer
      <4>3. Ordered(Outgoing(p)', module)
        BY <1>3, <1>4, <1>7, <3>2 DEF OwnModules
      <4> QED BY <1>1, <1>3, <1>5, <3>0, <4>1, <4>2, <4>3 DEF OwnModules
    <3> QED BY <3>1, <3>2
  <2>2. ASSUME NEW module \in modules'[p], module[1] = p PROVE module[2] < counter'[p]
    <3>1. module \in Process \X Nat
      BY <1>1, <1>5, Known
    <3>2. module[2] \in Nat
      BY <3>1
    <3> QED BY <1>1, <1>3, <1>5, <2>2, <3>2 DEF OwnModules
  <2> QED BY <2>1, <2>2 DEF OwnModules
<1>10. HostWillHold(p)'
  <2> SUFFICES ASSUME stage[p] = "connecting" \/ (stage[p] # "ended" /\ link[p] # {}),
                      NEW module \in Process \X Nat, module[1] = p
               PROVE  module \in modules'[p] <=>
                        /\ \/ \E h \in link[p] : module \in modules'[h]
                           \/ Has(Outgoing(p)', Added(module))
                        /\ ~Has(Outgoing(p)', Removed(module))
    BY <1>0 DEF HostWillHold
  <2>1. \A h \in link[p] : modules'[h] = modules[h]
    BY <1>5, Known
  <2>2. Has(Outgoing(p)', Added(module)) <=> Has(Outgoing(p), Added(module)) \/ module = new
    BY <1>4, <1>7, MessagesDiffer
  <2>3. Has(Outgoing(p)', Removed(module)) <=> Has(Outgoing(p), Removed(module))
    BY <1>4, <1>7, MessagesDiffer
  <2>4. module \in modules[p] <=>
          /\ (\E h \in link[p] : module \in modules[h]) \/ Has(Outgoing(p), Added(module))
          /\ ~Has(Outgoing(p), Removed(module))
    BY <1>3 DEF HostWillHold
  <2> QED BY <1>5, <1>6, <2>1, <2>2, <2>3, <2>4
<1>11. \A q \in Process \ {p} : Emptied(q)' /\ OwnModules(q)' /\ HostWillHold(q)'
  <2> TAKE q \in Process \ {p}
  <2>1. \A module \in Process \X Nat, h \in {q} \cup link[q] :
          module[1] = q => (module \in modules'[h] <=> module \in modules[h])
    BY <1>0, <1>1, Known
  <2>2. modules'[q] = modules[q] /\ modules'[q] \subseteq Process \X Nat
    BY <1>5, Known
  <2> QED BY <1>0, <1>4, <1>5, <2>1, <2>2, Aside
<1> QED BY <1>4, <1>8, <1>9, <1>10, <1>11 DEF HoldsInv

\* A module that is taken back is never announced again (ModuleManager.cpp:132-146).
LEMMA UnregisterKeepsHeld ==
  ASSUME PortsInv, HoldsInv, NEW p \in Process, NEW n \in Nat, <<p, n>> \in modules[p],
         UnregisterModule(p, <<p, n>>)
  PROVE  HoldsInv'
<1> DEFINE old == <<p, n>>
<1>0. /\ stage[p] \notin {"off", "ended"} /\ UNCHANGED <<stage, server, link, counter>>
      /\ modules' = [modules EXCEPT ![p] = @ \ {old}]
      /\ HandleMessage(p, Removed(old))
  BY DEF UnregisterModule, Running, Removed
<1>1. old \in Process \X Nat /\ old[1] = p /\ old[2] = n /\ old \in modules[p]
  OBVIOUS
<1>2. Removed(old) \in Message
  BY <1>1 DEF Removed, Message
<1> HIDE DEF old
<1>3. Emptied(p) /\ OwnModules(p) /\ NobodyElses(p) /\ HostWillHold(p)
  BY DEF HoldsInv
<1>4. /\ \A q \in Process \ {p} : queue'[q] = queue[q] /\ wire'[q] = wire[q]
      /\ Outgoing(p)' = (IF stage[p] = "ready" /\ link[p] = {} THEN <<>>
                         ELSE Append(Outgoing(p), Removed(old)))
      /\ Emptied(p)'
  BY <1>0, <1>2, Announces
<1>5. /\ modules'[p] = modules[p] \ {old} /\ counter' = counter
      /\ \A q \in Process \ {p} : modules'[q] = modules[q]
  BY <1>0, Known
<1>7. /\ \A x : Has(Append(Outgoing(p), Removed(old)), x) <=> Has(Outgoing(p), x) \/ x = Removed(old)
      /\ \A module : Ordered(Outgoing(p), module) =>
           Ordered(Append(Outgoing(p), Removed(old)), module)
  BY <1>2, Known, Announced, MessagesDiffer
<1>8. \A q \in Process : NobodyElses(q)'
  BY <1>0, <1>1, <1>5 DEF HoldsInv, NobodyElses
<1>9. OwnModules(p)'
  <2>1. ASSUME NEW module \in Process \X Nat
        PROVE  /\ Has(Outgoing(p)', Added(module)) \/ Has(Outgoing(p)', Removed(module)) =>
                    module[1] = p /\ module[2] < counter'[p]
               /\ Ordered(Outgoing(p)', module)
    <3>1. CASE stage[p] = "ready" /\ link[p] = {}
      BY <1>4, <3>1, Known, EmptySeq DEF Ordered
    <3>2. CASE ~(stage[p] = "ready" /\ link[p] = {})
      <4>1. Has(Outgoing(p)', Added(module)) => Has(Outgoing(p), Added(module))
        BY <1>4, <1>7, <3>2, MessagesDiffer
      <4>2. Has(Outgoing(p)', Removed(module)) => Has(Outgoing(p), Removed(module)) \/ module = old
        BY <1>4, <1>7, <3>2, MessagesDiffer
      <4>3. Ordered(Outgoing(p)', module)
        BY <1>3, <1>4, <1>7, <3>2 DEF OwnModules
      <4> QED BY <1>1, <1>3, <1>5, <4>1, <4>2, <4>3 DEF OwnModules
    <3> QED BY <3>1, <3>2
  <2> QED BY <1>3, <1>5, <2>1 DEF OwnModules
<1>10. HostWillHold(p)'
  <2> SUFFICES ASSUME stage[p] = "connecting" \/ (stage[p] # "ended" /\ link[p] # {}),
                      NEW module \in Process \X Nat, module[1] = p
               PROVE  module \in modules'[p] <=>
                        /\ \/ \E h \in link[p] : module \in modules'[h]
                           \/ Has(Outgoing(p)', Added(module))
                        /\ ~Has(Outgoing(p)', Removed(module))
    BY <1>0 DEF HostWillHold
  <2>1. \A h \in link[p] : modules'[h] = modules[h]
    BY <1>5, Known
  <2>2. Has(Outgoing(p)', Added(module)) <=> Has(Outgoing(p), Added(module))
    BY <1>4, <1>7, MessagesDiffer
  <2>3. Has(Outgoing(p)', Removed(module)) <=> Has(Outgoing(p), Removed(module)) \/ module = old
    BY <1>4, <1>7, MessagesDiffer
  <2>4. module \in modules[p] <=>
          /\ (\E h \in link[p] : module \in modules[h]) \/ Has(Outgoing(p), Added(module))
          /\ ~Has(Outgoing(p), Removed(module))
    BY <1>3 DEF HostWillHold
  <2> QED BY <1>5, <2>1, <2>2, <2>3, <2>4
<1>11. \A q \in Process \ {p} : Emptied(q)' /\ OwnModules(q)' /\ HostWillHold(q)'
  <2> TAKE q \in Process \ {p}
  <2>1. \A module \in Process \X Nat, h \in {q} \cup link[q] :
          module[1] = q => (module \in modules'[h] <=> module \in modules[h])
    BY <1>0, <1>1, Known
  <2>2. modules'[q] = modules[q] /\ modules'[q] \subseteq Process \X Nat
    BY <1>5, Known
  <2> QED BY <1>0, <1>4, <2>1, <2>2, Aside
<1> QED BY <1>4, <1>8, <1>9, <1>10, <1>11 DEF HoldsInv

\* The host reads what was announced, in order (ProxyServer.cpp:85-117).
LEMMA ReadKeepsHeld ==
  ASSUME PortsInv, HoldsInv, NEW h \in Process, NEW p \in Process, OnClientRead(h, p)
  PROVE  HoldsInv'
<1> DEFINE msg == Head(wire[p])
<1>0. /\ link[p] = {h} /\ wire[p] # <<>>
      /\ wire' = [wire EXCEPT ![p] = Tail(@)]
      /\ modules' = [modules EXCEPT ![h] =
           IF msg.type = "module_added" THEN @ \cup {msg.module} ELSE @ \ {msg.module}]
      /\ UNCHANGED <<stage, server, link, queue, counter>>
  BY DEF OnClientRead
<1>1. Emptied(p) /\ OwnModules(p) /\ HostWillHold(p) /\ NobodyElses(h)
  BY DEF HoldsInv
<1>2. /\ stage[p] \in {"ready", "ended"} /\ h # p /\ h \in link[p]
      /\ stage[h] \in {"posted", "ready"} /\ link[h] = {}
  BY <1>0, <1>1, Known DEF Emptied
<1>3. Outgoing(p) = wire[p] /\ Outgoing(p)' = Tail(Outgoing(p)) /\ Outgoing(p) \in Seq(Message)
  BY <1>0, <1>2, Known DEF Outgoing
<1>4. /\ msg \in Message
      /\ \A x : Has(Outgoing(p), x) <=> Has(Outgoing(p)', x) \/ x = msg
      /\ \A module : Ordered(Outgoing(p), module) => Ordered(Outgoing(p)', module)
      /\ \A module : Ordered(Outgoing(p), module) /\ msg = Removed(module) =>
           ~Has(Outgoing(p)', Added(module))
  BY <1>0, <1>3, FirstRead
<1>5. PICK said \in Process \X Nat : msg = Added(said) \/ msg = Removed(said)
  BY <1>4 DEF Message, Added, Removed
<1>6. /\ msg = Added(said) => modules'[h] = modules[h] \cup {said}
      /\ msg = Removed(said) => modules'[h] = modules[h] \ {said}
      /\ \A q \in Process \ {h} : modules'[q] = modules[q]
  BY <1>0, Known DEF Added, Removed
<1> HIDE DEF msg
<1>7. said[1] = p
  BY <1>1, <1>4, <1>5 DEF OwnModules
<1>8. \A q \in Process : NobodyElses(q)'
  BY <1>0, <1>5, <1>6, <1>7 DEF HoldsInv, NobodyElses
<1>9. Emptied(p)'
  BY <1>0, <1>1, <1>2, <1>6 DEF Emptied
<1>10. OwnModules(p)'
  <2>1. modules'[p] = modules[p]
    BY <1>2, <1>6
  <2> QED BY <1>0, <1>1, <1>4, <2>1 DEF OwnModules
<1>11. HostWillHold(p)'
  <2> SUFFICES ASSUME stage[p] # "ended", NEW module \in Process \X Nat, module[1] = p
               PROVE  module \in modules[p] <=>
                        /\ module \in modules'[h] \/ Has(Outgoing(p)', Added(module))
                        /\ ~Has(Outgoing(p)', Removed(module))
    BY <1>0, <1>2, <1>6 DEF HostWillHold
  <2>1. module \in modules[p] <=>
          /\ module \in modules[h] \/ Has(Outgoing(p), Added(module))
          /\ ~Has(Outgoing(p), Removed(module))
    BY <1>0, <1>1, <1>2 DEF HostWillHold
  <2>2. Ordered(Outgoing(p), module)
    BY <1>1 DEF OwnModules
  <2>3. CASE module # said
    <3>1. module \in modules'[h] <=> module \in modules[h]
      BY <1>5, <1>6, <2>3
    <3>2. /\ Has(Outgoing(p)', Added(module)) <=> Has(Outgoing(p), Added(module))
          /\ Has(Outgoing(p)', Removed(module)) <=> Has(Outgoing(p), Removed(module))
      BY <1>4, <1>5, <2>3, MessagesDiffer
    <3> QED BY <2>1, <3>1, <3>2
  <2>4. CASE module = said /\ msg = Added(said)
    <3>1. Has(Outgoing(p)', Removed(module)) <=> Has(Outgoing(p), Removed(module))
      BY <1>4, <2>4, MessagesDiffer
    <3> QED BY <1>4, <1>6, <2>1, <2>4, <3>1
  <2>5. CASE module = said /\ msg = Removed(said)
    BY <1>4, <1>6, <2>1, <2>2, <2>5
  <2> QED BY <1>5, <2>3, <2>4, <2>5
<1>12. \A q \in Process \ {p} : Emptied(q)' /\ OwnModules(q)' /\ HostWillHold(q)'
  <2> TAKE q \in Process \ {p}
  <2>1. \A module \in Process \X Nat, g \in {q} \cup link[q] :
          module[1] = q => (module \in modules'[g] <=> module \in modules[g])
    <3> SUFFICES ASSUME NEW module \in Process \X Nat, module[1] = q
                 PROVE  \A g \in Process : module \in modules'[g] <=> module \in modules[g]
      <4>1. {q} \cup link[q] \subseteq Process
        BY Known
      <4> QED BY <4>1
    <3> QED BY <1>5, <1>6, <1>7
  <2>2. modules'[q] \subseteq Process \X Nat
    <3>1. modules[q] \subseteq Process \X Nat
      BY Known
    <3> QED BY <1>5, <1>6, <3>1
  <2>3. stage[q] = "off" => modules'[q] = modules[q]
    BY <1>2, <1>6
  <2>4. wire'[q] = wire[q]
    BY <1>0, Known
  <2> QED BY <1>0, <2>1, <2>2, <2>3, <2>4, Aside
<1> QED BY <1>8, <1>9, <1>10, <1>11, <1>12 DEF HoldsInv

\* The host drops what a process that ended has left behind (ProxyServer.cpp:119-125).
LEMMA ClosedKeepsHeld ==
  ASSUME PortsInv, HoldsInv, NEW h \in Process, NEW p \in Process, OnClientClosed(h, p)
  PROVE  HoldsInv'
<1>0. /\ link[p] = {h} /\ stage[p] = "ended" /\ wire[p] = <<>>
      /\ link' = [link EXCEPT ![p] = {}]
      /\ modules' = [modules EXCEPT ![h] = {module \in @ : module[1] # p}]
      /\ UNCHANGED <<stage, server, queue, wire, counter>>
  BY DEF OnClientClosed
<1>1. Emptied(p) /\ OwnModules(p) /\ HostWillHold(p) /\ NobodyElses(h)
  BY DEF HoldsInv
<1>2. h # p /\ stage[h] \in {"posted", "ready"}
  BY <1>0, Known
<1>3. /\ modules'[h] = {module \in modules[h] : module[1] # p}
      /\ \A q \in Process \ {h} : modules'[q] = modules[q]
      /\ link'[p] = {} /\ \A q \in Process \ {p} : link'[q] = link[q]
  BY <1>0, Known
<1>4. \A q \in Process : NobodyElses(q)'
  <2> SUFFICES ASSUME NEW q \in Process, NEW module \in modules'[q]
               PROVE  module[1] = q \/ link'[module[1]] = {q}
    BY DEF NobodyElses
  <2>1. module \in modules[q] /\ (module[1] = q \/ link[module[1]] = {q})
    BY <1>3 DEF HoldsInv, NobodyElses
  <2>2. module[1] \in Process
    BY <2>1, Known
  <2>3. CASE module[1] = p
    BY <1>0, <1>3, <2>1, <2>3
  <2> QED BY <1>3, <2>1, <2>2, <2>3
<1>5. Outgoing(p)' = Outgoing(p)
  BY <1>0 DEF Outgoing
<1>6. Emptied(p)' /\ OwnModules(p)' /\ HostWillHold(p)'
  BY <1>0, <1>1, <1>2, <1>3, <1>5 DEF Emptied, OwnModules, HostWillHold
<1>7. \A q \in Process \ {p} : Emptied(q)' /\ OwnModules(q)' /\ HostWillHold(q)'
  <2> TAKE q \in Process \ {p}
  <2>1. \A module \in Process \X Nat, g \in {q} \cup link[q] :
          module[1] = q => (module \in modules'[g] <=> module \in modules[g])
    <3>1. {q} \cup link[q] \subseteq Process
      BY Known
    <3> QED BY <1>3, <3>1
  <2>2. modules'[q] \subseteq Process \X Nat
    BY <1>3, Known
  <2>3. stage[q] = "off" => modules'[q] = modules[q]
    BY <1>2, <1>3
  <2> QED BY <1>0, <1>3, <2>1, <2>2, <2>3, Aside
<1> QED BY <1>4, <1>6, <1>7 DEF HoldsInv

\* A process that ends takes its modules with it, and what was on its way to it.
LEMMA EndKeepsHeld ==
  ASSUME PortsInv, HoldsInv, NEW p \in Process, Ends(p)
  PROVE  HoldsInv'
<1>0. /\ stage' = [stage EXCEPT ![p] = "ended"]
      /\ modules' = [modules EXCEPT ![p] = {}] /\ queue' = [queue EXCEPT ![p] = <<>>]
      /\ link' = [q \in Process |-> link[q] \ {p}]
      /\ UNCHANGED <<server, counter>>
      /\ stage[p] \notin {"off", "invalid", "ended"}
  BY DEF Ends, Running
<1>1. PICK n \in 0..Len(wire[p]) :
        wire' = [q \in Process |->
          IF q = p THEN SubSeq(wire[p], 1, n) ELSE IF link[q] = {p} THEN <<>> ELSE wire[q]]
  BY DEF Ends
<1>2. Emptied(p) /\ OwnModules(p)
  BY DEF HoldsInv
<1>3. /\ Len(wire[p]) \in Nat /\ n \in Nat /\ n <= Len(wire[p])
      /\ wire'[p] = SubSeq(wire[p], 1, n)
      /\ Len(wire'[p]) = n /\ \A i \in 1..n : wire'[p][i] = wire[p][i]
  <2>1. Len(wire[p]) \in Nat /\ \A i \in 1..Len(wire[p]) : wire[p][i] \in Message
    BY Known, LenProperties, ElementOfSeq
  <2>2. n \in Int /\ n >= 0 /\ n <= Len(wire[p]) /\ \A i \in 1..n : wire[p][i] \in Message
    BY <2>1
  <2>3. /\ Len(SubSeq(wire[p], 1, n)) = IF 1 <= n THEN n - 1 + 1 ELSE 0
        /\ \A i \in 1..(n - 1 + 1) : SubSeq(wire[p], 1, n)[i] = wire[p][1 + i - 1]
    BY <2>2, SubSeqProperties
  <2>4. wire'[p] = SubSeq(wire[p], 1, n)
    BY <1>1
  <2> QED BY <2>1, <2>2, <2>3, <2>4
<1>4. \A q \in Process : NobodyElses(q)'
  <2> SUFFICES ASSUME NEW q \in Process \ {p}, NEW module \in modules[q]
               PROVE  module[1] = q \/ link'[module[1]] = {q}
    BY <1>0, Known DEF NobodyElses
  <2>1. module[1] = q \/ link[module[1]] = {q}
    BY DEF HoldsInv, NobodyElses
  <2>2. module[1] \in Process
    BY Known
  <2> QED BY <1>0, <2>1, <2>2
<1>5. Outgoing(p)' = wire'[p] /\ stage'[p] = "ended" /\ modules'[p] = {} /\ queue'[p] = <<>>
  BY <1>0, Known DEF Outgoing
<1>6. Emptied(p)'
  \* without a link there was nothing on its wire
  <2>1. ASSUME link'[p] = {} PROVE wire'[p] = <<>>
    <3>1. link[p] = {}
      BY <1>0, <2>1, Known
    <3>2. wire[p] = <<>> /\ Len(wire[p]) = 0
      BY <1>2, <3>1, EmptySeq DEF Emptied
    <3>3. n < 1
      BY <1>3, <3>2
    <3> QED BY <1>3, <3>3, SubSeqEmpty
  <2> QED BY <1>5, <2>1 DEF Emptied
<1>7. OwnModules(p)'
  <2>1. CASE stage[p] = "ready"
    <3>1. Outgoing(p) = wire[p]
      BY <2>1 DEF Outgoing
    <3>2. \A x : Has(wire'[p], x) => Has(wire[p], x)
      BY <1>3 DEF Has
    <3>3. \A module : Ordered(wire[p], module) => Ordered(wire'[p], module)
      BY <1>3 DEF Ordered
    <3> QED BY <1>0, <1>2, <1>5, <3>1, <3>2, <3>3 DEF OwnModules
  <2>2. CASE stage[p] # "ready"
    <3>1. Len(wire[p]) = 0
      BY <1>0, <1>2, <2>2, EmptySeq DEF Emptied
    <3>2. Len(wire'[p]) = 0
      BY <1>3, <3>1
    <3> QED BY <1>5, <3>2 DEF OwnModules, Has, Ordered
  <2> QED BY <2>1, <2>2
<1>8. HostWillHold(p)'
  BY <1>5 DEF HostWillHold
<1>9. \A q \in Process \ {p} : Emptied(q)' /\ OwnModules(q)' /\ HostWillHold(q)'
  <2> TAKE q \in Process \ {p}
  <2>1. /\ stage'[q] = stage[q] /\ queue'[q] = queue[q] /\ counter'[q] = counter[q]
        /\ modules'[q] = modules[q]
    BY <1>0, Known
  <2>2. CASE p \in link[q]
    \* it has lost its host
    <3>1. link[q] = {p} /\ link'[q] = {} /\ wire'[q] = <<>>
          /\ stage[q] \in {"accepted", "posted", "ready", "ended"}
      BY <1>0, <1>1, <2>2, Known
    <3>2. Emptied(q) /\ OwnModules(q)
      BY DEF HoldsInv
    <3>3. Outgoing(q)' = Outgoing(q) \/ Outgoing(q)' = <<>>
      BY <2>1, <3>1 DEF Outgoing
    <3>4. \A module : Ordered(<<>>, module)
      BY EmptySeq DEF Ordered
    <3>5. OwnModules(q)'
      BY <2>1, <3>2, <3>3, <3>4, Known DEF OwnModules
    <3>6. Emptied(q)' /\ HostWillHold(q)'
      BY <2>1, <3>1, <3>2 DEF Emptied, HostWillHold
    <3> QED BY <3>5, <3>6
  <2>3. CASE p \notin link[q]
    <3>1. link'[q] = link[q] /\ wire'[q] = wire[q]
      BY <1>0, <1>1, <2>3, Known
    <3>2. \A module \in Process \X Nat, h \in {q} \cup link[q] :
            module[1] = q => (module \in modules'[h] <=> module \in modules[h])
      BY <1>0, <2>3, Known
    <3>3. modules'[q] \subseteq Process \X Nat
      BY <2>1, Known
    <3> QED BY <2>1, <3>1, <3>2, <3>3, Aside
  <2> QED BY <2>2, <2>3
<1> QED BY <1>4, <1>6, <1>7, <1>8, <1>9 DEF HoldsInv

LEMMA StartupInvStep == StartupInv /\ [StartupNext]_startupVars => StartupInv'
<1> SUFFICES ASSUME PortsInv, HoldsInv, [StartupNext]_startupVars PROVE HoldsInv'
  BY PortsInvStep DEF StartupInv
<1>1. CASE \E p \in Process : \/ Instance(p) \/ CreateClient(p) \/ OnClientConnecting(p)
                              \/ OnProxyInitialized(p)
  BY <1>1, StartKeepsHeld
<1>2. CASE \E p \in Process : RegisterModule(p)
  BY <1>2, RegisterKeepsHeld
<1>3. CASE \E p \in Process : \E n \in 0..(MaxModules - 1) :
             <<p, n>> \in modules[p] /\ UnregisterModule(p, <<p, n>>)
  <2>1. 0..(MaxModules - 1) \subseteq Nat
    BY StartupAssumption
  <2> QED BY <1>3, <2>1, UnregisterKeepsHeld
<1>4. CASE \E h, p \in Process : OnClientRead(h, p) \/ OnClientClosed(h, p)
  BY <1>4, ReadKeepsHeld, ClosedKeepsHeld
<1>5. CASE \E p \in Process : Ends(p)
  BY <1>5, EndKeepsHeld
<1>6. CASE UNCHANGED startupVars
  BY <1>6 DEF startupVars, HoldsInv, Emptied, OwnModules, NobodyElses, HostWillHold, Outgoing
<1> QED BY <1>1, <1>2, <1>3, <1>4, <1>5, <1>6 DEF StartupNext

LEMMA StartupInvInit == StartupInit => StartupInv
<1> SUFFICES ASSUME StartupInit PROVE HoldsInv
  BY PortsInvInit DEF StartupInv
<1>1. /\ \A x : ~Has(<<>>, x)
      /\ \A module : Ordered(<<>>, module)
  BY PortsInvInit, Known, EmptySeq DEF Ordered
<1>2. ASSUME NEW p \in Process
      PROVE  Emptied(p) /\ OwnModules(p) /\ NobodyElses(p) /\ HostWillHold(p)
  <2>1. /\ Outgoing(p) = <<>> /\ modules[p] = {} /\ stage[p] = "off"
        /\ link[p] = {} /\ wire[p] = <<>> /\ queue[p] = <<>>
    BY DEF StartupInit, Outgoing
  <2> QED BY <1>1, <2>1 DEF Emptied, OwnModules, NobodyElses, HostWillHold
<1> QED BY <1>2 DEF HoldsInv

LEMMA StartupInvariant == StartupSpec => []StartupInv
BY StartupInvInit, StartupInvStep, PTL DEF StartupSpec

\* A host holds its own modules and those of the processes linked to it, and nothing
\* else, whatever they registered before they knew the host, took back, or left behind
\* when they ended (ModuleManager.cpp:73-83, ProxyServer.cpp:85-125).
THEOREM HostHoldsAllOf == StartupSpec => []HostHoldsAll
<1>1. StartupInv => HostHoldsAll
  <2> SUFFICES ASSUME StartupInv, Settled, NEW h \in Running, server[h]
               PROVE  modules[h] =
                        UNION {Own(p) : p \in {h} \cup {q \in Running : link[q] = {h}}}
    BY DEF HostHoldsAll
  <2>0. PortsInv /\ HoldsInv /\ h \in Process
    BY DEF StartupInv, Running
  \* what a process linked to it has, it has too
  <2>1. ASSUME NEW p \in Process, link[p] = {h}, NEW module \in Process \X Nat, module[1] = p
        PROVE  p \in Running /\ (module \in modules[p] <=> module \in modules[h])
    <3>1. stage[p] = "ready" /\ p \in Running /\ wire[p] = <<>>
      BY <2>0, <2>1, Known DEF Settled, Running
    <3>2. Outgoing(p) = <<>>
      BY <3>1 DEF Outgoing
    <3>3. HostWillHold(p) /\ ~Has(<<>>, Added(module)) /\ ~Has(<<>>, Removed(module))
      BY <2>0, Known DEF HoldsInv
    <3> QED BY <2>1, <3>1, <3>2, <3>3 DEF HostWillHold
  <2>2. ASSUME NEW module \in modules[h]
        PROVE  \E p \in {h} \cup {q \in Running : link[q] = {h}} : module \in Own(p)
    <3>1. module \in Process \X Nat /\ module[1] \in Process
      BY <2>0, Known
    <3>2. module[1] = h \/ link[module[1]] = {h}
      BY <2>0 DEF HoldsInv, NobodyElses
    <3> QED BY <2>1, <3>1, <3>2 DEF Own
  <2>3. ASSUME NEW p \in {h} \cup {q \in Running : link[q] = {h}}, NEW module \in Own(p)
        PROVE  module \in modules[h]
    <3>1. p \in Process /\ module \in modules[p] /\ module[1] = p
      BY <2>0, <2>3 DEF Own, Running
    <3>2. module \in Process \X Nat
      BY <2>0, <3>1, Known
    <3> QED BY <2>1, <2>3, <3>1, <3>2
  <2> QED BY <2>2, <2>3
<1> QED BY <1>1, StartupInvariant, PTL

AllOnThePage ==
  Settled /\ ~raced => \A p \in Running : ~Stranded(p) => Own(p) \subseteq OnPage

\* README.md:151, without the race that breaks it: the modules of all processes are on
\* the one page, but for the processes that have outlived their host.
THEOREM PageShowsAll == StartupSpec => []AllOnThePage
<1>1. StartupInv /\ OneHost /\ HostHoldsAll => AllOnThePage
  <2> SUFFICES ASSUME StartupInv, OneHost, HostHoldsAll, Settled, ~raced,
                      NEW p \in Running, ~Stranded(p), NEW module \in Own(p)
               PROVE  module \in OnPage
    BY DEF AllOnThePage
  <2>1. CASE {p} = httpPort
    BY <2>1 DEF Own, OnPage
  <2>2. CASE link[p] # {} /\ link[p] = httpPort
    <3>1. PICK h \in Process : link[p] = {h} /\ server[h] /\ stage[h] \in {"posted", "ready"}
      BY <2>2 DEF StartupInv, PortsInv, StartupTypeOK, LinksHeld, Running
    <3>2. h \in Running
      BY <3>1 DEF Running
    <3>3. module \in modules[h]
      BY <3>1, <3>2 DEF HostHoldsAll
    <3> QED BY <2>2, <3>1, <3>3 DEF OnPage
  <2> QED BY <2>1, <2>2 DEF OneHost
<1> QED BY <1>1, StartupInvariant, OneHostForAll, HostHoldsAllOf, PTL
=============================================================================
