---------------------------- MODULE WebPageProof ----------------------------
(***************************************************************************)
(* A page always tries again, reads its list once it is connected, and     *)
(* misses no module: TriesAgain, ConnectedPageLoads and AllModulesShown.   *)
(* What it selects is shown, and a module has one button: SelectedShown    *)
(* and OneButtonEach.  It changes no read only value, and the host goes    *)
(* on: ReadOnlyKept.  What it shows is what is stored: ShownIsStored.  For *)
(* every set of threads, sockets, modules and updates, and however many    *)
(* sockets the page makes; the last for one thread.                        *)
(***************************************************************************)
EXTENDS WebPage, ModuleManagerProof, WebAppProof, FiniteSetTheorems

-----------------------------------------------------------------------------
(* The sockets.                                                            *)

SocketsInv ==
  /\ socket \in [Requester -> SocketState]
  /\ listeners \subseteq Requester /\ websocket \subseteq Requester /\ cut \subseteq Requester

\* The steps of the instance: those of the application's threads, and of the module
\* thread, of which the page has seen nothing yet.
InstanceStep ==
  \/ ProxyInitialized(TRUE) \/ CallbackReturns
  \/ \E t \in Thread :
       \/ \E module \in Definition : RegisterModule(t, module)
       \/ RegisterReturns(t)
       \/ \E id \in DOMAIN modules : CallUnregisterModule(t, id)
       \/ \E id \in DOMAIN modules, list \in UpdateList : UpdateProperties(t, id, list)
       \/ UpdatePropertiesReturns(t)
PageKept == UNCHANGED <<net, browser, past>>

\* The user clicks on a button, or does something with a field.
UserStep ==
  \/ \E module \in Buttons : SelectModule(module)
  \/ \E id \in DOMAIN tabs :
       \/ OnPropertiesActivated(id)
       \/ \E k \in DOMAIN tabs[id] : Writes(id, k) \/ OnPropertyActivated(id, k)

Makes(r) == Opens(r) \/ CountdownEnds(r) \/ OnClicked(r)

LEMMA WebSteps ==
  ASSUME [WebNext]_webVars
  PROVE  \/ InstanceStep /\ PageKept
         \/ Runs
         \/ \E r \in Requester :
              \/ Serves(r) \/ Makes(r) \/ OnConnected(r) \/ OnDisconnected(r) \/ OnWsMessage(r)
         \/ Leaves
         \/ UserStep
         \/ UNCHANGED webVars
BY DEF WebNext, InstanceStep, PageKept, UserStep, Makes, Calls, Still

\* A step of the user changes no socket.
LEMMA UserKeeps ==
  ASSUME UserStep
  PROVE  /\ UNCHANGED <<vars, listeners, socket, inbox, websocket, info, timer>>
         /\ UNCHANGED <<listed, cut, loaded, overtaken, early, several>>
<1>1. ASSUME NEW id, NEW kind, Acts(id, kind), UNCHANGED vars
      PROVE  /\ UNCHANGED <<vars, listeners, socket, inbox, websocket, info, timer>>
             /\ UNCHANGED <<listed, cut, loaded, overtaken, early, several>>
  BY <1>1 DEF Acts
<1>2. \A id, kind : Acts(id, kind) => UNCHANGED vars
  BY DEF Acts
<1>3. ASSUME NEW module, SelectModule(module)
      PROVE  /\ UNCHANGED <<vars, listeners, socket, inbox, websocket, info, timer>>
             /\ UNCHANGED <<listed, cut, loaded, overtaken, early, several>>
  BY <1>3 DEF SelectModule, net, past
<1> QED BY <1>1, <1>2, <1>3 DEF UserStep, Writes, OnPropertiesActivated, OnPropertyActivated

LEMMA SocketsStep ==
  ASSUME SocketsInv, [WebNext]_webVars
  PROVE  SocketsInv'
<1> USE DEF SocketsInv, SocketState
<1>1. CASE (InstanceStep /\ PageKept) \/ Runs \/ UNCHANGED webVars
  BY <1>1 DEF PageKept, Runs, net, browser, past, webVars
<1>2. CASE UserStep
  BY <1>2, UserKeeps
<1>3. ASSUME NEW r \in Requester, Serves(r)
      PROVE  SocketsInv'
  BY <1>3 DEF Serves, OnWsClientConnected, OnWsClientMessage, Responds, OnWsClientClosed,
     AddEventListener, RemoveEventListener, browser, past
<1>4. ASSUME NEW r \in Requester, Makes(r)
      PROVE  SocketsInv'
  BY <1>4 DEF Makes, Opens, CountdownEnds, OnClicked, CreateWs
<1>5. ASSUME NEW r \in Requester, OnConnected(r) \/ OnWsMessage(r)
      PROVE  SocketsInv'
  BY <1>5 DEF OnConnected, OnWsMessage, past
<1>6. ASSUME NEW r \in Requester, OnDisconnected(r)
      PROVE  SocketsInv'
  <2>1. socket' \in [Requester -> SocketState]
    BY <1>6 DEF OnDisconnected, Forgets
  <2> QED BY <1>6, <2>1 DEF OnDisconnected, Live
<1>7. CASE Leaves
  <2>1. socket' \in [Requester -> SocketState]
    BY <1>7 DEF Leaves, Forgets
  <2> QED BY <1>7, <2>1 DEF Leaves
<1> QED BY <1>1, <1>2, <1>3, <1>4, <1>5, <1>6, <1>7, WebSteps

LEMMA TriesStep ==
  ASSUME SocketsInv, TriesAgain, [WebNext]_webVars
  PROVE  TriesAgain'
<1> USE DEF SocketsInv, TriesAgain
<1>1. CASE (InstanceStep /\ PageKept) \/ Runs \/ UNCHANGED webVars
  BY <1>1 DEF PageKept, Runs, net, browser, webVars, Live
<1>2. CASE UserStep
  BY <1>2, UserKeeps DEF Live
<1>3. ASSUME NEW r \in Requester, Serves(r)
      PROVE  TriesAgain'
  <2>1. Live' = Live /\ UNCHANGED <<websocket, timer>>
    BY <1>3 DEF Serves, OnWsClientConnected, OnWsClientMessage, Responds, OnWsClientClosed,
       browser, Live
  <2> QED BY <2>1
<1>4. ASSUME NEW r \in Requester, Makes(r)
      PROVE  TriesAgain'
  <2>1. r \in Live'
    BY <1>4 DEF Makes, Opens, CountdownEnds, OnClicked, CreateWs, Live
  <2> QED BY <2>1
<1>5. ASSUME NEW r \in Requester, OnConnected(r)
      PROVE  TriesAgain'
  <2>1. r \in Live'
    BY <1>5 DEF OnConnected, Live
  <2> QED BY <2>1
<1>6. ASSUME NEW r \in Requester, OnWsMessage(r) \/ OnDisconnected(r)
      PROVE  TriesAgain'
  BY <1>6 DEF OnWsMessage, OnDisconnected, Enable, Live
<1>7. CASE Leaves
  BY <1>7 DEF Leaves
<1> QED BY <1>1, <1>2, <1>3, <1>4, <1>5, <1>6, <1>7, WebSteps

\* A page that is open has a socket, or a countdown that makes one: the countdown is
\* shown whenever a socket is lost, and ends when one opens or is made
\* (reconnect.info.js:29-63, messenger.js:6-32).
THEOREM AlwaysTriesAgain == WebSpec => []TriesAgain
<1>1. PageInit => SocketsInv /\ TriesAgain
  BY DEF PageInit, WebInit, SocketsInv, SocketState, TriesAgain
<1>2. SocketsInv /\ TriesAgain /\ [WebNext]_webVars => (SocketsInv /\ TriesAgain)'
  BY SocketsStep, TriesStep
<1> QED BY <1>1, <1>2, PTL DEF WebSpec

-----------------------------------------------------------------------------
(* The messages and the fields.                                            *)

PageType ==
  /\ tabs \in Tabs
  /\ sent \in [Requester -> Seq(Request)]
  /\ inbox \in [Requester -> Seq(Message)]

\* What the user makes of a field is a field.
LEMMA EditedType ==
  ASSUME NEW field \in Field, NEW text \in Edited(field)
  PROVE  text \in Seq(Value)
<1>1. "0" \in Value /\ "1" \in Value /\ "typed" \in Value
  BY WebAppAssumption, WebPageAssumption
<1>2. \A x \in Value : <<x>> \in Seq(Value)
  OBVIOUS
<1>3. text \in {<<"0">>, <<"1">>, <<"typed">>}
  BY DEF Edited
<1> QED BY <1>1, <1>2, <1>3

LEMMA EditType ==
  ASSUME tabs \in Tabs, NEW id \in DOMAIN tabs, NEW k \in DOMAIN tabs[id],
         NEW text \in Seq(Value), tabs' = [tabs EXCEPT ![id][k].text = text]
  PROVE  tabs' \in Tabs /\ tabs'[id][k] \in Field /\ k - 1 \in Nat
<1>1. tabs \in [DOMAIN tabs -> Seq(Field)] /\ DOMAIN tabs \subseteq Int
  BY TabsType
<1>2. PICK n \in Nat : n = Len(tabs[id]) /\ DOMAIN tabs[id] = 1..n /\ \A i \in 1..n : tabs[id][i] \in Field
  BY <1>1, LenProperties, ElementOfSeq
<1>3. [tabs[id][k] EXCEPT !.text = text] \in Field
  BY <1>2 DEF Field
<1>4. [tabs[id] EXCEPT ![k].text = text] \in [1..n -> Field]
  BY <1>2, <1>3
<1>5. [tabs[id] EXCEPT ![k].text = text] \in Seq(Field)
  BY <1>2, <1>4, IsASeq
<1>6. tabs' = [tabs EXCEPT ![id] = [tabs[id] EXCEPT ![k].text = text]]
  OBVIOUS
<1>7. tabs' \in [DOMAIN tabs -> Seq(Field)] /\ DOMAIN tabs' = DOMAIN tabs
  BY <1>1, <1>5, <1>6
<1>8. tabs'[id][k] = [tabs[id][k] EXCEPT !.text = text]
  BY <1>1, <1>2, <1>6
<1>9. tabs' \in Tabs
  <2>1. DOMAIN tabs' \subseteq Int /\ tabs' \in [DOMAIN tabs' -> Seq(Field)]
    BY <1>1, <1>7
  <2> QED BY ONLY <2>1, TabsType
<1>10. tabs'[id][k] \in Field
  BY <1>3, <1>8
<1>11. k - 1 \in Nat
  BY <1>2
<1> QED BY <1>9, <1>10, <1>11

\* What the page gives to Send is a request.
LEMMA SendType ==
  ASSUME sent \in [Requester -> Seq(Request)], NEW msg \in Request, Send(msg)
  PROVE  sent' \in [Requester -> Seq(Request)]
<1>1. \A r \in Requester : Append(sent[r], msg) \in Seq(Request)
  BY AppendProperties
<1> QED BY <1>1 DEF Send

\* The user sends what the fields hold, for a module the page shows: of the fields that
\* are sent together or have a control of their own.
AreSent(fields, list) ==
  \A i \in DOMAIN list :
    /\ list[i].id + 1 \in DOMAIN fields
    /\ LET type == fields[list[i].id + 1].type IN ~IsIndependent(type) \/ HasOwnControl(type)

LEMMA UserSends ==
  ASSUME tabs \in Tabs, UserStep
  PROVE  \/ sent' = sent
         \/ \E id \in DOMAIN tabs, list \in PropertyList :
              Sends(id, list) /\ AreSent(tabs[id], list)
<1>1. tabs \in Tabs /\ tabs \in [DOMAIN tabs -> Seq(Field)] /\ DOMAIN tabs \subseteq Int
  BY TabsType
<1>2. ASSUME NEW id \in DOMAIN tabs, OnPropertiesActivated(id)
      PROVE  \E list \in PropertyList :
               Sends(id, list) /\ AreSent(tabs[id], list)
  <2>1. PICK A : /\ A = {a \in Assignment : /\ a.id + 1 \in 1..Len(tabs[id])
                                           /\ ~IsIndependent(tabs[id][a.id + 1].type)}
                 /\ AppliedProperties(tabs[id]) \in Seq(A)
    BY <1>1, AppliedPropertiesType
  <2>2. AppliedProperties(tabs[id]) \in PropertyList
    BY <2>1 DEF PropertyList
  <2>3. AreSent(tabs[id], AppliedProperties(tabs[id]))
    <3>1. DOMAIN tabs[id] = 1..Len(tabs[id])
      BY <1>1, LenProperties
    <3>2. \A i \in DOMAIN AppliedProperties(tabs[id]) : AppliedProperties(tabs[id])[i] \in A
      BY <2>1, ElementOfSeq, LenProperties
    <3> QED BY <2>1, <3>1, <3>2 DEF AreSent
  <2> QED BY <1>2, <2>2, <2>3 DEF OnPropertiesActivated
<1>3. ASSUME NEW id \in DOMAIN tabs, NEW k \in DOMAIN tabs[id], OnPropertyActivated(id, k)
      PROVE  \E list \in PropertyList :
               Sends(id, list) /\ AreSent(tabs[id], list)
  <2>1. PICK text : /\ text \in Edited(tabs[id][k]) \/ text = tabs[id][k].text
                    /\ tabs' = [tabs EXCEPT ![id][k].text = text]
    BY <1>3 DEF OnPropertyActivated
  <2>2. tabs[id][k] \in Field
    BY <1>1, ElementOfSeq, LenProperties
  <2>3. text \in Seq(Value)
    BY <2>1, <2>2, EditedType DEF Field
  <2>4. tabs'[id][k] \in Field /\ k - 1 \in Nat
    BY <1>1, <2>1, <2>3, EditType
  <2>5. PICK list : list = <<[id |-> k - 1, value |-> GetValue(tabs'[id][k])]>>
    OBVIOUS
  <2>6. list \in PropertyList
    <3>1. [id |-> k - 1, value |-> GetValue(tabs'[id][k])] \in Assignment
      BY <2>4, GetValueType DEF Assignment
    <3> QED BY <2>5, <3>1 DEF PropertyList
  <2>7. AreSent(tabs[id], list)
    <3>1. DOMAIN list = {1} /\ list[1].id = k - 1
      <4>1. \A x : DOMAIN <<x>> = {1} /\ <<x>>[1] = x
        OBVIOUS
      <4>2. [id |-> k - 1, value |-> GetValue(tabs'[id][k])].id = k - 1
        OBVIOUS
      <4> QED BY ONLY <2>5, <4>1, <4>2
    <3>2. (k - 1) + 1 = k
      <4>1. k \in Int
        BY <1>1, LenProperties
      <4> QED BY <4>1
    <3>3. HasOwnControl(tabs[id][k].type)
      BY <1>3 DEF OnPropertyActivated
    <3> QED BY <3>1, <3>2, <3>3 DEF AreSent
  <2>8. Sends(id, list)
    BY <1>3, <2>5 DEF OnPropertyActivated
  <2> QED BY <2>6, <2>7, <2>8
<1>4. ASSUME \/ \E module \in Buttons : SelectModule(module)
             \/ \E id \in DOMAIN tabs : \E k \in DOMAIN tabs[id] : Writes(id, k)
      PROVE  sent' = sent
  BY <1>4 DEF SelectModule, Writes, net
<1> QED BY <1>2, <1>3, <1>4 DEF UserStep

LEMMA UserSendsApplies ==
  ASSUME tabs \in Tabs, UserStep
  PROVE  sent' = sent \/ \E msg \in ApplyMsg : Send(msg)
<1>1. \A id \in DOMAIN tabs : id \in Int
  BY TabsType
<1> QED BY <1>1, UserSends, MessageTypes DEF Sends

LEMMA UserType ==
  ASSUME PageType, UserStep
  PROVE  PageType'
<1>0. tabs \in [DOMAIN tabs -> Seq(Field)] /\ DOMAIN tabs \subseteq Int
  BY TabsType DEF PageType
<1>1. inbox' = inbox
  BY UserKeeps
<1>2. sent' \in [Requester -> Seq(Request)]
  BY UserSendsApplies, SendType DEF PageType, Request
<1>3. ASSUME NEW id \in DOMAIN tabs, NEW k \in DOMAIN tabs[id], NEW text,
             text \in Edited(tabs[id][k]) \/ text = tabs[id][k].text,
             tabs' = [tabs EXCEPT ![id][k].text = text]
      PROVE  tabs' \in Tabs
  <2>1. tabs[id][k] \in Field
    BY <1>0, ElementOfSeq, LenProperties
  <2>2. text \in Seq(Value)
    BY <1>3, <2>1, EditedType DEF Field
  <2> QED BY <1>3, <2>2, EditType DEF PageType
<1>4. tabs' \in Tabs
  BY <1>3 DEF UserStep, SelectModule, OnPropertiesActivated, OnPropertyActivated, Writes, PageType
<1> QED BY <1>1, <1>2, <1>4 DEF PageType

-----------------------------------------------------------------------------
(* The instance under the page.                                            *)

\* Each step of the page is one any caller of the instance may make, or leaves it alone.
LEMMA WebIsOpen ==
  ASSUME TypeOK, PageType, [WebNext]_webVars
  PROVE  [OpenNext]_vars
<1>1. CASE InstanceStep
  <2>1. DOMAIN modules \subseteq Int
    BY DEF TypeOK, ModulesTypeOK
  <2> QED BY <1>1, <2>1, ConstantsAssumption DEF InstanceStep, OpenNext
<1>2. CASE Runs
  BY <1>2 DEF Runs, OpenNext
<1>3. ASSUME NEW r \in Requester, Serves(r)
      PROVE  [OpenNext]_vars
  <2>1. CASE OnWsClientConnected(r) \/ OnWsClientClosed(r)
    BY <2>1 DEF OnWsClientConnected, OnWsClientClosed
  <2>2. CASE OnWsClientMessage(r)
    <3>1. Head(sent[r]) \in Request /\ ProcessJSRequest(r, Head(sent[r]))
      BY <2>2, HeadTailProperties DEF OnWsClientMessage, PageType
    <3> QED BY <3>1 DEF OpenNext
  <2>3. CASE Responds(r)
    BY <2>3 DEF Responds, OpenNext
  <2> QED BY <1>3, <2>1, <2>2, <2>3 DEF Serves
<1>4. ASSUME NEW r \in Requester,
             Makes(r) \/ OnConnected(r) \/ OnDisconnected(r) \/ OnWsMessage(r)
      PROVE  UNCHANGED vars
  BY <1>4 DEF Makes, Opens, CountdownEnds, OnClicked, CreateWs, OnConnected, OnDisconnected,
     OnWsMessage
<1>5. CASE Leaves
  BY <1>5 DEF Leaves
<1>6. CASE UserStep
  BY <1>6, UserKeeps
<1>7. CASE UNCHANGED webVars
  BY <1>7 DEF webVars
<1> QED BY <1>1, <1>2, <1>3, <1>4, <1>5, <1>6, <1>7, WebSteps

\* The task a load request becomes.
LoadTask(r) == [op |-> "DoProcessJSRequest", json |-> CreateLoadModules, to |-> r]

\* A promise is fulfilled once, and its answer stays until it is sent: the only one that
\* is not empty is the list a load request asks for (ModuleManager.cpp:182-230).
LEMMA AnswerSteps ==
  ASSUME TypeOK, RequestsAccounted, [OpenNext]_vars, NEW r \in Requester
  PROVE  \/ answer'[r] = answer[r]
         \/ answer'[r] = {} /\ RequestReturns(r)
         \/ answer[r] = {} /\ answer'[r] = {Empty}
         \/ /\ answer[r] = {} /\ answer'[r] = {CreateModuleList(modules)}
            /\ modules' = modules /\ out' = Silent
<1>0. answer \in [Requester -> SUBSET Response] /\ loop \in Seq(Task) /\ running \in Running
  BY DEF TypeOK, CallersTypeOK
<1>1. CASE running = Crashed
  BY <1>1, CrashedStays DEF vars
<1> SUFFICES ASSUME running # Crashed
             PROVE  \/ answer'[r] = answer[r]
                    \/ answer'[r] = {} /\ RequestReturns(r)
                    \/ answer[r] = {} /\ answer'[r] = {Empty}
                    \/ /\ answer[r] = {} /\ answer'[r] = {CreateModuleList(modules)}
                       /\ modules' = modules /\ out' = Silent
  BY <1>1
<1>2. Answered(r)
  BY AnsweredForAll
<1>3. ASSUME NEW op, Takes(op)
      PROVE  /\ Head(loop) = loop[1] /\ 1 \in 1..Len(loop) /\ Head(loop) \in Task
             /\ Head(loop).op = op
  BY <1>0, <1>3, TakesType, HeadTailProperties, EmptySeq, LenProperties DEF Takes
<1>4. CASE DoProcessJSRequest
  <2>1. Takes("DoProcessJSRequest")
    BY <1>4 DEF DoProcessJSRequest
  <2>2. Head(loop).to = r => answer[r] = {}
    <3>1. Head(loop).to = r => 1 \in RequestsOf(r)
      BY <1>3, <2>1 DEF RequestsOf
    <3> QED BY <1>2, <3>1 DEF Answered
  <2>3. CASE Head(loop).json.type = "apply"
    <3>1. answer'[r] = answer[r] \/ (r = Head(loop).to /\ answer'[r] = {Empty})
      BY <1>0, <1>4, <2>3 DEF DoProcessJSRequest, PassPropertyUpdateToModule, Answer
    <3> QED BY <2>2, <3>1
  <2>4. CASE Head(loop).json.type # "apply"
    <3>1. /\ modules' = modules /\ out' = Silent
          /\ Answer({Head(loop).to},
               IF Head(loop).json.type = "load" THEN CreateModuleList(modules) ELSE Empty)
      BY <1>4, <2>4 DEF DoProcessJSRequest
    <3>2. \/ answer'[r] = answer[r]
          \/ r = Head(loop).to /\ answer'[r] \in {{CreateModuleList(modules)}, {Empty}}
      BY <1>0, <3>1 DEF Answer
    <3> QED BY <2>2, <3>1, <3>2
  <2> QED BY <2>3, <2>4
<1>5. CASE PassPeerUpdate
  <2>1. answer'[r] = answer[r]
    BY <1>0, <1>5 DEF PassPeerUpdate, PassPropertyUpdateToModule, Answer
  <2> QED BY <2>1
<1>6. CASE OnProxyInitialized \/ DoRegisterModule \/ UnregisterModule \/ SaveUpdate \/ PushUpdate
  BY <1>6 DEF OnProxyInitialized, DoRegisterModule, UnregisterModule, SaveUpdate, PushUpdate, promises
<1>7. CASE CallbackReturns
  <2>1. running.at = "callback" /\ (r \in running.to => answer[r] = {})
    BY <1>2, <1>7 DEF CallbackReturns, InCallback, Answering, Answered
  <2>2. answer'[r] = answer[r] \/ (r \in running.to /\ answer'[r] = {Empty})
    BY <1>0, <1>7 DEF CallbackReturns, Answer
  <2> QED BY <2>1, <2>2
<1>8. CASE \/ \E id \in Int, list \in PropertyList : CallbackUpdates(id, list)
           \/ \E id \in Int : CallbackUnregisters(id)
           \/ \E module \in ModuleType : CallbackRegisters(module)
  BY <1>8 DEF CallbackUpdates, CallbackUnregisters, CallbackRegisters
<1>9. ASSUME NEW q \in Requester, NEW json \in Request, ProcessJSRequest(q, json)
      PROVE  answer'[r] = answer[r] \/ (answer[r] = {} /\ answer'[r] = {Empty})
  <2>1. q = r => answer[r] = {}
    BY <1>2, <1>9 DEF ProcessJSRequest, Answered
  <2> QED BY <1>0, <1>9, <2>1 DEF ProcessJSRequest, Answer
<1>10. ASSUME NEW q \in Requester, RequestReturns(q)
       PROVE  answer'[r] = answer[r] \/ (answer'[r] = {} /\ RequestReturns(r))
  BY <1>0, <1>10 DEF RequestReturns
<1>11. CASE \/ \E host \in BOOLEAN : ProxyInitialized(host)
            \/ \E json \in ApplyMsg : ProxyReads(json)
            \/ \E t \in Thread :
                 \/ \E module \in ModuleType : RegisterModule(t, module)
                 \/ RegisterReturns(t)
                 \/ \E id \in Int : CallUnregisterModule(t, id)
                 \/ \E id \in Int, list \in PropertyList : UpdateProperties(t, id, list)
                 \/ UpdatePropertiesReturns(t)
            \/ UNCHANGED vars
  BY <1>11 DEF ProxyInitialized, ProxyReads, RegisterModule, RegisterReturns, CallUnregisterModule,
     UpdateProperties, UpdatePropertiesReturns, promises, vars
<1> QED BY <1>4, <1>5, <1>6, <1>7, <1>8, <1>9, <1>10, <1>11 DEF OpenNext, RunTask

-----------------------------------------------------------------------------
(* Sequences of messages.                                                  *)

LEMMA RangesOf == Range(<<>>) = {} /\ \A x : Range(<<x>>) = {x}
<1>1. DOMAIN <<>> = {} /\ \A x : DOMAIN <<x>> = {1} /\ <<x>>[1] = x
  <2>1. <<>> \in Seq({}) /\ Len(<<>>) = 0 /\ 1..0 = {}
    BY EmptySeq
  <2>2. DOMAIN <<>> = {}
    BY <2>1, LenProperties
  <2>3. \A x : DOMAIN <<x>> = {1} /\ <<x>>[1] = x
    OBVIOUS
  <2> QED BY <2>2, <2>3
<1> QED BY <1>1 DEF Range

LEMMA JoinedOf ==
  ASSUME NEW S, NEW s \in Seq(S), NEW t \in Seq(S)
  PROVE  s \o t \in Seq(S) /\ Range(s \o t) = Range(s) \cup Range(t)
<1>1. /\ s \o t \in Seq(S) /\ Len(s \o t) = Len(s) + Len(t)
      /\ \A i \in 1..(Len(s) + Len(t)) : (s \o t)[i] = IF i <= Len(s) THEN s[i] ELSE t[i - Len(s)]
      /\ Len(s) \in Nat /\ Len(t) \in Nat
  BY ConcatProperties, LenProperties
<1>2. /\ Range(s \o t) = {(s \o t)[i] : i \in 1..(Len(s) + Len(t))}
      /\ Range(s) = {s[i] : i \in 1..Len(s)} /\ Range(t) = {t[i] : i \in 1..Len(t)}
  <2>1. \A u \in Seq(S) : Range(u) = {u[i] : i \in 1..Len(u)}
    BY MembersOf
  <2>2. Range(s \o t) = {(s \o t)[i] : i \in 1..Len(s \o t)}
    BY <1>1, <2>1
  <2> QED BY <1>1, <2>1, <2>2
<1>3. \A x \in Range(s \o t) : x \in Range(s) \cup Range(t)
  <2>1. \A i \in 1..(Len(s) + Len(t)) : i \in 1..Len(s) \/ (~(i <= Len(s)) /\ i - Len(s) \in 1..Len(t))
    BY <1>1
  <2>2. \A i \in 1..Len(s) : i <= Len(s)
    OBVIOUS
  <2> QED BY ONLY <1>1, <1>2, <2>1, <2>2
<1>4. \A x \in Range(s) : x \in Range(s \o t)
  <2>1. \A i \in 1..Len(s) : i <= Len(s) /\ i \in 1..(Len(s) + Len(t))
    BY <1>1
  <2> QED BY ONLY <1>1, <1>2, <2>1
<1>5. \A x \in Range(t) : x \in Range(s \o t)
  <2>1. \A i \in 1..Len(t) : /\ ~(i + Len(s) <= Len(s)) /\ (i + Len(s)) - Len(s) = i
                             /\ i + Len(s) \in 1..(Len(s) + Len(t))
    BY <1>1
  <2> QED BY ONLY <1>1, <1>2, <2>1
<1> QED BY <1>1, <1>3, <1>4, <1>5

LEMMA OneMoreOf ==
  ASSUME NEW S, NEW s \in Seq(S), NEW x \in S
  PROVE  s \o <<x>> = Append(s, x) /\ x \in Range(s \o <<x>>)
<1>1. s \o <<x>> = Append(s, x)
  BY AppendIsConcat
<1>2. Range(Append(s, x)) = Range(s) \cup {x}
  BY MembersOf
<1> QED BY <1>1, <1>2

LEMMA SetToSeqOf == SetToSeq({}) = <<>> /\ \A x : SetToSeq({x}) = <<x>>
<1>1. SetToSeq({}) = <<>>
  <2>1. PICK base \in Seq({}) : base = <<>>
    BY EmptySeq
  <2>2. Len(base) = 0 /\ base \in [1..0 -> {}]
    BY <2>1, EmptySeq, LenProperties
  <2>3. ASSUME NEW f \in [1..0 -> {}]
        PROVE  f = base
    <3>1. f \in Seq({}) /\ Len(f) = 0
      BY IsASeq, LenProperties
    <3> QED BY <2>1, <3>1, EmptySeq
  <2>4. IsInjective(base)
    <3>1. DOMAIN base = {}
      BY <2>2
    <3> QED BY <3>1 DEF IsInjective
  <2>5. Cardinality({}) = 0
    BY FS_EmptySet
  <2>6. SetToSeq({}) = CHOOSE f \in [1..0 -> {}] : IsInjective(f)
    BY <2>5 DEF SetToSeq
  <2>7. SetToSeq({}) \in [1..0 -> {}]
    BY <2>2, <2>4, <2>6
  <2> QED BY <2>1, <2>3, <2>7
<1>2. ASSUME NEW x
      PROVE  SetToSeq({x}) = <<x>>
  <2>1. \A f : f \in [1..1 -> {x}] <=> f = <<x>>
    OBVIOUS
  <2>2. IsInjective(<<x>>)
    BY DEF IsInjective
  <2>3. Cardinality({x}) = 1
    BY FS_Singleton
  <2> QED BY <2>1, <2>2, <2>3 DEF SetToSeq
<1> QED BY <1>1, <1>2

-----------------------------------------------------------------------------
(* The server under the page.                                              *)

\* A socket of the page that is connected listens, and nothing is on its way on any
\* other; a socket that is not yet open has asked for nothing (ServerImpl.cpp:54-72,
\* 105-119).
Listening ==
  /\ initialized => msgQueue = <<>>
  /\ serverImpl \/ listeners # {} => initialized
  /\ \A r \in Requester :
       /\ Reaches(r) => r \in listeners
       /\ ~Reaches(r) => inbox[r] = <<>>
       /\ socket[r] \in {"none", "opening", "connecting"} => request[r] = "idle"

OneAnswer == \A r \in Requester : answer[r] = {} \/ \E x \in Response : answer[r] = {x}

\* Outside the module thread nothing of the instance changes but the queue.
LEMMA InstanceKeeps ==
  ASSUME InstanceStep
  PROVE  UNCHANGED <<instance, request>>
BY DEF InstanceStep, ProxyInitialized, CallbackReturns, InCallback, RegisterModule, RegisterReturns,
       CallUnregisterModule, UpdateProperties, UpdatePropertiesReturns, Outside, instance, callers

\* What is waiting goes out when the connection is up, and from then on nothing waits.
LEMMA RunKeeps ==
  ASSUME RunTask
  PROVE  /\ request' = request
         /\ initialized /\ msgQueue = <<>> => initialized' /\ msgQueue' = <<>>
         /\ initialized' /\ ~initialized => msgQueue' = <<>>
         /\ serverImpl' => serverImpl \/ initialized'
<1>1. CASE OnProxyInitialized
  BY <1>1 DEF OnProxyInitialized, Takes, callers
<1>2. CASE DoRegisterModule \/ UnregisterModule \/ PushUpdate
  BY <1>2 DEF DoRegisterModule, UnregisterModule, PushUpdate, HandleMessage, Takes, callers, started
<1>3. CASE SaveUpdate \/ DoProcessJSRequest \/ PassPeerUpdate
  BY <1>3 DEF SaveUpdate, DoProcessJSRequest, PassPeerUpdate, Takes, callers, started
<1> QED BY <1>1, <1>2, <1>3 DEF RunTask

\* The steps that change what is on its way to the page.
LEMMA InboxSteps ==
  ASSUME SocketsInv, inbox \in [Requester -> Seq(Message)], OneAnswer, OutTypeOK',
         [WebNext]_webVars, NEW r \in Requester
  PROVE  \/ inbox'[r] = inbox[r]
         \/ inbox'[r] = <<>> /\ (OnDisconnected(r) \/ Leaves)
         \/ /\ Runs /\ r \in listeners /\ Reaches(r)
            /\ inbox'[r] = inbox[r] \o out'.pushed
         \/ /\ Responds(r) /\ Reaches(r)
            /\ \E x \in Response : answer[r] = {x} /\ inbox'[r] = Append(inbox[r], x)
         \/ OnWsMessage(r) /\ inbox[r] # <<>> /\ inbox'[r] = Tail(inbox[r])
<1>1. CASE (InstanceStep /\ PageKept) \/ UNCHANGED webVars
  BY <1>1 DEF PageKept, net, webVars
<1>2. CASE UserStep
  BY <1>2, UserKeeps
<1>3. CASE Runs
  BY <1>3 DEF Runs, PushMsgForJS
<1>4. ASSUME NEW q \in Requester, Serves(q)
      PROVE  \/ inbox'[r] = inbox[r]
             \/ /\ Responds(r) /\ Reaches(r)
                /\ \E x \in Response : answer[r] = {x} /\ inbox'[r] = Append(inbox[r], x)
  <2>1. CASE OnWsClientConnected(q) \/ OnWsClientMessage(q) \/ OnWsClientClosed(q)
    BY <2>1 DEF OnWsClientConnected, OnWsClientMessage, OnWsClientClosed
  <2>2. CASE Responds(q)
    <3>1. CASE q # r \/ ~Reaches(r)
      BY <2>2, <3>1 DEF Responds
    <3>2. CASE q = r /\ Reaches(r)
      <4>1. inbox'[r] = inbox[r] \o SetToSeq(answer[r]) /\ answer[r] # {}
        BY <2>2, <3>2 DEF Responds, RequestReturns
      <4>2. PICK x \in Response : answer[r] = {x}
        BY <4>1 DEF OneAnswer
      <4>3. inbox'[r] = inbox[r] \o <<x>>
        BY <4>1, <4>2, SetToSeqOf
      <4>4. inbox[r] \o <<x>> = Append(inbox[r], x)
        BY <4>2, AppendIsConcat DEF Message
      <4> QED BY <2>2, <3>2, <4>2, <4>3, <4>4
    <3> QED BY <3>1, <3>2
  <2> QED BY <1>4, <2>1, <2>2 DEF Serves
<1>5. ASSUME NEW q \in Requester, Makes(q) \/ OnConnected(q)
      PROVE  inbox'[r] = inbox[r]
  BY <1>5 DEF Makes, Opens, CountdownEnds, OnClicked, CreateWs, OnConnected
<1>6. ASSUME NEW q \in Requester, OnDisconnected(q)
      PROVE  inbox'[r] = inbox[r] \/ (inbox'[r] = <<>> /\ OnDisconnected(r))
  BY <1>6 DEF OnDisconnected, Forgets
<1>7. ASSUME NEW q \in Requester, OnWsMessage(q)
      PROVE  inbox'[r] = inbox[r] \/ (OnWsMessage(r) /\ inbox[r] # <<>> /\ inbox'[r] = Tail(inbox[r]))
  BY <1>7 DEF OnWsMessage
<1>8. CASE Leaves
  BY <1>8 DEF Leaves, Forgets
<1> QED BY <1>1, <1>2, <1>3, <1>4, <1>5, <1>6, <1>7, <1>8, WebSteps

LEMMA PageTypeStep ==
  ASSUME SocketsInv, TypeOK, PageType, OneAnswer, [WebNext]_webVars
  PROVE  PageType'
<1>0. TypeOK'
  BY WebIsOpen, TypeStep
<1>1. inbox' \in [Requester -> Seq(Message)]
  <2>1. ASSUME NEW r \in Requester
        PROVE  inbox'[r] \in Seq(Message)
    <3>1. inbox[r] \in Seq(Message) /\ <<>> \in Seq(Message)
      BY EmptySeq DEF PageType
    <3>2. out'.pushed \in Seq(Message)
      <4>1. out'.pushed \in Seq(PushedMsg)
        BY <1>0 DEF TypeOK, OutTypeOK
      <4> QED BY <4>1 DEF Message
    <3>3. inbox[r] \o out'.pushed \in Seq(Message)
      BY <3>1, <3>2, JoinedOf
    <3>4. \A x \in Response : Append(inbox[r], x) \in Seq(Message)
      BY <3>1, AppendProperties DEF Message
    <3>5. inbox[r] # <<>> => Tail(inbox[r]) \in Seq(Message)
      BY <3>1, HeadTailProperties
    <3> QED BY <1>0, <3>1, <3>3, <3>4, <3>5, InboxSteps DEF PageType, TypeOK
  <2>2. inbox' = [r \in Requester |-> inbox'[r]]
    <3>1. inbox = [r \in Requester |-> inbox[r]]
      BY DEF PageType
    <3>2. CASE UNCHANGED inbox
      BY <3>1, <3>2
    <3>3. CASE Runs
      BY <3>3 DEF Runs, PushMsgForJS
    <3>4. ASSUME NEW q \in Requester, Responds(q) \/ OnDisconnected(q) \/ OnWsMessage(q)
          PROVE  inbox' = [r \in Requester |-> inbox'[r]]
      BY <3>1, <3>4 DEF Responds, OnDisconnected, Forgets, OnWsMessage
    <3>5. CASE Leaves
      BY <3>5 DEF Leaves, Forgets
    <3>6. ASSUME NEW q \in Requester,
                 \/ OnWsClientConnected(q) \/ OnWsClientMessage(q) \/ OnWsClientClosed(q)
                 \/ Makes(q) \/ OnConnected(q)
          PROVE  UNCHANGED inbox
      BY <3>6 DEF OnWsClientConnected, OnWsClientMessage, OnWsClientClosed, Makes, Opens,
         CountdownEnds, OnClicked, CreateWs, OnConnected
    <3>7. CASE UserStep
      BY <3>2, <3>7, UserKeeps
    <3>8. CASE (InstanceStep /\ PageKept) \/ UNCHANGED webVars
      <4>1. UNCHANGED inbox
        BY <3>8 DEF PageKept, net, webVars
      <4> QED BY <3>2, <4>1
    <3> QED BY <3>2, <3>3, <3>4, <3>5, <3>6, <3>7, <3>8, WebSteps DEF Serves
  <2> QED BY <2>1, <2>2
<1>2. CASE (InstanceStep /\ PageKept) \/ Runs \/ UNCHANGED webVars
  BY <1>1, <1>2 DEF PageType, PageKept, Runs, net, browser, webVars
<1>3. CASE UserStep
  BY <1>3, UserType
<1>4. ASSUME NEW r \in Requester, Serves(r)
      PROVE  PageType'
  <2>1. tabs' = tabs
    BY <1>4 DEF Serves, browser
  <2>2. \/ sent' = sent \/ sent' = [sent EXCEPT ![r] = <<>>]
        \/ sent[r] # <<>> /\ sent' = [sent EXCEPT ![r] = Tail(@)]
    BY <1>4 DEF Serves, OnWsClientConnected, OnWsClientMessage, Responds, OnWsClientClosed
  <2>3. sent' \in [Requester -> Seq(Request)]
    <3>1. sent[r] # <<>> => Tail(sent[r]) \in Seq(Request)
      BY HeadTailProperties DEF PageType
    <3>2. <<>> \in Seq(Request)
      BY EmptySeq
    <3> QED BY <2>2, <3>1, <3>2 DEF PageType
  <2> QED BY <1>1, <2>1, <2>3 DEF PageType
<1>5. ASSUME NEW r \in Requester, Makes(r)
      PROVE  PageType'
  BY <1>1, <1>5 DEF PageType, Makes, Opens, CountdownEnds, OnClicked, CreateWs
<1>6. ASSUME NEW r \in Requester, OnConnected(r)
      PROVE  PageType'
  <2>1. CreateLoadModules \in Request
    BY DEF CreateLoadModules, Request, LoadMsg
  <2>2. sent' \in [Requester -> Seq(Request)] /\ tabs' = tabs
    BY <1>6, <2>1, SendType DEF OnConnected, PageType
  <2> QED BY <1>1, <2>2 DEF PageType
<1>7. ASSUME tabs' = <<>>
      PROVE  tabs' \in Tabs
  <2>1. PICK base \in Seq(Seq(Field)) : base = <<>>
    BY EmptySeq
  <2>2. DOMAIN base = {} /\ base \in [{} -> Seq(Field)]
    BY <2>1, EmptySeq, LenProperties
  <2>3. base \in Tabs
    BY <2>2, TabsType
  <2> QED BY <1>7, <2>1, <2>3
<1>8. ASSUME \A r \in Requester : sent'[r] = <<>> \/ sent'[r] = sent[r],
             sent' = [r \in Requester |-> sent'[r]]
      PROVE  sent' \in [Requester -> Seq(Request)]
  <2>1. \A r \in Requester : sent'[r] \in Seq(Request)
    BY <1>8, EmptySeq DEF PageType
  <2> QED BY <1>8, <2>1
<1>9. ASSUME NEW r \in Requester, OnDisconnected(r)
      PROVE  PageType'
  BY <1>1, <1>7, <1>8, <1>9 DEF OnDisconnected, Forgets, Clear, PageType
<1>10. ASSUME NEW r \in Requester, OnWsMessage(r)
       PROVE  PageType'
  <2>1. Head(inbox[r]) \in Message
    BY <1>10, HeadTailProperties DEF OnWsMessage, PageType
  <2>2. tabs' \in Tabs /\ sent' = sent
    BY <1>10, <2>1, AnyMessageType DEF OnWsMessage, PageType
  <2> QED BY <1>1, <2>2 DEF PageType
<1>11. CASE Leaves
  BY <1>1, <1>7, <1>8, <1>11 DEF Leaves, Forgets, PageType
<1> QED BY <1>2, <1>3, <1>4, <1>5, <1>6, <1>9, <1>10, <1>11, WebSteps

LEMMA OneAnswerStep ==
  ASSUME TypeOK, RequestsAccounted, [OpenNext]_vars, OneAnswer
  PROVE  OneAnswer'
<1>1. Empty \in Response /\ CreateModuleList(modules) \in Response
  BY ResponseTypes
<1>2. ASSUME NEW r \in Requester
      PROVE  answer'[r] = {} \/ \E x \in Response : answer'[r] = {x}
  BY <1>1, AnswerSteps DEF OneAnswer
<1> QED BY <1>2 DEF OneAnswer

LEMMA ListeningStep ==
  ASSUME SocketsInv, inbox \in [Requester -> Seq(Message)], TypeOK, Listening, OneAnswer,
         OutTypeOK', [WebNext]_webVars
  PROVE  Listening'
<1>0. /\ request \in [Requester -> {"idle", "waiting"}] /\ socket \in [Requester -> SocketState]
      /\ initialized \in BOOLEAN
  BY DEF TypeOK, CallersTypeOK, FlagsTypeOK, SocketsInv
<1>1. CASE InstanceStep /\ PageKept
  BY <1>1, InstanceKeeps DEF Listening, PageKept, net, instance, started, Reaches
<1>2. CASE Runs
  <2>1. /\ listeners' = listeners /\ socket' = socket /\ request' = request
        /\ \A r \in Requester : ~Reaches(r) => inbox'[r] = inbox[r]
    BY <1>2, RunKeeps DEF Runs, PushMsgForJS
  <2>2. /\ initialized' => msgQueue' = <<>>
        /\ serverImpl' \/ listeners' # {} => initialized'
    BY <1>2, <2>1, RunKeeps DEF Runs, Listening
  <2> QED BY <2>1, <2>2 DEF Listening, Reaches
<1>3. CASE UserStep
  BY <1>3, UserKeeps DEF Listening, vars, Reaches
<1>4. CASE UNCHANGED webVars
  BY <1>4 DEF Listening, webVars, vars, net, Reaches
<1>5. ASSUME NEW r \in Requester, Serves(r)
      PROVE  Listening'
  <2>0. UNCHANGED <<initialized, msgQueue, serverImpl>>
    BY <1>5 DEF Serves, OnWsClientConnected, OnWsClientMessage, Responds, OnWsClientClosed,
       ProcessJSRequest, RequestReturns, Outside, instance, started, vars
  <2>1. CASE OnWsClientConnected(r)
    <3>1. /\ serverImpl /\ socket[r] = "opening"
          /\ socket' = [socket EXCEPT ![r] = "connecting"] /\ listeners' = listeners \cup {r}
          /\ inbox' = inbox /\ request' = request
      BY <2>1 DEF OnWsClientConnected, AddEventListener, vars
    <3> QED BY <1>0, <2>0, <3>1 DEF Listening, Reaches
  <2>2. CASE OnWsClientMessage(r)
    <3>1. /\ socket[r] \in {"open", "closed"} /\ request' = [request EXCEPT ![r] = "waiting"]
          /\ UNCHANGED <<listeners, socket, inbox>>
      BY <2>2 DEF OnWsClientMessage, ProcessJSRequest
    <3> QED BY <1>0, <2>0, <3>1 DEF Listening, Reaches
  <2>3. CASE Responds(r)
    <3>1. /\ request' = [request EXCEPT ![r] = "idle"]
          /\ UNCHANGED <<listeners, socket>>
          /\ \A q \in Requester : ~Reaches(q) => inbox'[q] = inbox[q]
      BY <2>3 DEF Responds, RequestReturns
    <3> QED BY <1>0, <2>0, <3>1 DEF Listening, Reaches
  <2>4. CASE OnWsClientClosed(r)
    <3>1. /\ socket[r] = "closed" /\ request[r] = "idle"
          /\ socket' = [socket EXCEPT ![r] = "none"] /\ listeners' = listeners \ {r}
          /\ inbox' = inbox /\ request' = request
      BY <2>4 DEF OnWsClientClosed, RemoveEventListener, vars
    <3> QED BY <1>0, <2>0, <3>1 DEF Listening, Reaches
  <2> QED BY <1>5, <2>1, <2>2, <2>3, <2>4 DEF Serves
<1>6. ASSUME NEW r \in Requester, Makes(r)
      PROVE  Listening'
  <2>1. /\ socket[r] = "none" /\ socket' = [socket EXCEPT ![r] = "opening"]
        /\ UNCHANGED <<vars, listeners, inbox>>
    BY <1>6 DEF Makes, Opens, CountdownEnds, OnClicked, CreateWs
  <2> QED BY <1>0, <2>1 DEF Listening, Reaches, vars
<1>7. ASSUME NEW r \in Requester, OnConnected(r)
      PROVE  Listening'
  <2>1. /\ socket[r] = "connecting" /\ socket' = [socket EXCEPT ![r] = "open"]
        /\ UNCHANGED <<vars, listeners, inbox>>
    BY <1>7 DEF OnConnected
  <2> QED BY <1>0, <2>1 DEF Listening, Reaches, vars
<1>8. ASSUME NEW S, Forgets(S), UNCHANGED <<vars, listeners>>
      PROVE  Listening'
  <2>1. \A q \in Requester :
          /\ Reaches(q)' => Reaches(q) /\ q \notin S
          /\ ~Reaches(q)' => inbox'[q] = <<>>
          /\ socket'[q] \in {"none", "opening", "connecting"} =>
               socket[q] \in {"none", "opening", "connecting"}
    BY <1>0, <1>8 DEF Forgets, Listening, Reaches
  <2> QED BY <1>8, <2>1 DEF Listening, vars
<1>9. ASSUME NEW r \in Requester, OnDisconnected(r)
      PROVE  Listening'
  BY <1>8, <1>9 DEF OnDisconnected
<1>10. CASE Leaves
  BY <1>8, <1>10 DEF Leaves
<1>11. ASSUME NEW r \in Requester, OnWsMessage(r)
       PROVE  Listening'
  <2>1. /\ socket[r] = "open" /\ UNCHANGED <<vars, listeners, socket>>
        /\ \A q \in Requester : q # r => inbox'[q] = inbox[q]
    BY <1>11 DEF OnWsMessage
  <2> QED BY <2>1 DEF Listening, Reaches, vars
<1> QED BY <1>1, <1>2, <1>3, <1>4, <1>5, <1>6, <1>7, <1>9, <1>10, <1>11, WebSteps

-----------------------------------------------------------------------------
(* The modules that go.                                                    *)

\* A module the page is told of as removed is gone, and its id is not given again.
Removals ==
  /\ \A task \in Tasks : task.op = "UnregisterModule" => task.id < idCounter
  /\ \A r \in Requester : \A m \in Range(inbox[r]) :
       m.type = "module_removed" => m.id < idCounter /\ m.id \notin DOMAIN modules

\* What a task pushes: the module it adds, the one it removes.
LEMMA PushesOf ==
  ASSUME TypeOK, RunTask, initialized, msgQueue = <<>>
  PROVE  /\ \A id \in DOMAIN modules' :
              \/ id \in DOMAIN modules
              \/ id = idCounter /\ \E m \in Range(out'.pushed) : m.type = "module_added" /\ m.id = id
         /\ \A m \in Range(out'.pushed) : m.type = "module_removed" =>
              /\ m.id \notin DOMAIN modules' /\ loop # <<>>
              /\ Head(loop).op = "UnregisterModule" /\ m.id = Head(loop).id
<1>0. /\ loop \in Seq(Task)
      /\ \A msgs : Pushes(msgs).pushed = msgs /\ Silent.pushed = <<>>
      /\ \A json : Relays(json).pushed = <<>>
  BY DEF TypeOK, Pushes, Relays, Silent
<1>1. \A id \in DOMAIN modules' : id \in DOMAIN modules \/ (DoRegisterModule /\ id = idCounter)
  BY TaskModules
<1>2. CASE DoRegisterModule
  <2>1. out' = Pushes(<<CreateModuleAdded(idCounter, Head(loop).module)>>)
    BY <1>2 DEF DoRegisterModule, HandleMessage
  <2>2. Range(out'.pushed) = {CreateModuleAdded(idCounter, Head(loop).module)}
    BY <1>0, <2>1, RangesOf
  <2> QED BY <1>1, <2>2 DEF CreateModuleAdded
<1>3. CASE UnregisterModule
  <2>1. /\ out' = Pushes(<<CreateModuleRemoved(Head(loop).id)>>)
        /\ Takes("UnregisterModule") /\ Erase(Head(loop).id)
    BY <1>3 DEF UnregisterModule, HandleMessage
  <2>2. Range(out'.pushed) = {CreateModuleRemoved(Head(loop).id)}
    BY <1>0, <2>1, RangesOf
  <2>3. Head(loop).id \notin DOMAIN modules' /\ DOMAIN modules' \subseteq DOMAIN modules
    BY <2>1 DEF Erase, Restrict
  <2> QED BY <2>1, <2>2, <2>3 DEF CreateModuleRemoved, Takes
<1>4. CASE PushUpdate
  <2>1. Head(loop) \in Task /\ Head(loop).op = "HandleMessage" /\ modules' = modules
    BY <1>4, TakesType DEF PushUpdate
  <2>2. Head(loop).msg \in UpdateMsg
    BY <2>1 DEF Task
  <2>3. out' = Pushes(<<Head(loop).msg>>)
    BY <1>4 DEF PushUpdate, HandleMessage
  <2>4. Range(out'.pushed) = {Head(loop).msg}
    BY <1>0, <2>3, RangesOf
  <2> QED BY <2>1, <2>2, <2>4 DEF UpdateMsg
<1>5. CASE OnProxyInitialized \/ SaveUpdate \/ DoProcessJSRequest \/ PassPeerUpdate
  <2>1. out' = Pushes(msgQueue) \/ out' = Silent \/ \E json : out' = Relays(json)
    BY <1>5 DEF OnProxyInitialized, SaveUpdate, DoProcessJSRequest, PassPeerUpdate,
       PassPropertyUpdateToModule
  <2>2. Range(out'.pushed) = {}
    BY <1>0, <2>1, RangesOf
  <2>3. ~DoRegisterModule
    BY <1>5 DEF OnProxyInitialized, SaveUpdate, DoProcessJSRequest, PassPeerUpdate,
       DoRegisterModule, Takes
  <2> QED BY <1>1, <2>2, <2>3
<1> QED BY <1>2, <1>3, <1>4, <1>5 DEF RunTask

\* The page is cleared when a socket is lost, or when the user leaves it.  Any other step
\* keeps the sockets that are connected and, but for a message the page reads, the modules
\* shown.
Clears == Leaves \/ \E r \in Requester : OnDisconnected(r)

LEMMA PageSteps ==
  ASSUME SocketsInv, tabs \in Tabs, [WebNext]_webVars, ~Clears
  PROVE  /\ cut' = cut
         /\ \/ DOMAIN tabs' = DOMAIN tabs /\ loaded' = loaded
            \/ \E r \in Requester : OnWsMessage(r)
         /\ \A r \in Requester :
              /\ Reaches(r) => Reaches(r)'
              /\ Reaches(r)' => Reaches(r) \/ OnWsClientConnected(r)
         /\ Runs \/ UNCHANGED <<modules, idCounter>>
<1>0. socket \in [Requester -> SocketState]
  BY DEF SocketsInv
<1>1. CASE InstanceStep /\ PageKept
  BY <1>1, InstanceKeeps DEF PageKept, net, browser, past, instance, started, Reaches
<1>2. CASE Runs
  BY <1>2 DEF Runs, browser, Reaches
<1>3. CASE UserStep
  <2>1. ASSUME NEW id, NEW k, NEW text, tabs' = [tabs EXCEPT ![id][k].text = text]
        PROVE  DOMAIN tabs' = DOMAIN tabs
    BY <2>1
  <2>2. DOMAIN tabs' = DOMAIN tabs
    BY <1>3, <2>1 DEF UserStep, SelectModule, OnPropertiesActivated, OnPropertyActivated, Writes
  <2> QED BY <1>3, <2>2, UserKeeps DEF vars, Reaches
<1>4. CASE UNCHANGED webVars
  BY <1>4 DEF webVars, vars, net, browser, past, Reaches
<1>5. ASSUME NEW r \in Requester, Serves(r)
      PROVE  /\ UNCHANGED <<cut, tabs, loaded, modules, idCounter>>
             /\ \A q \in Requester :
                  /\ Reaches(q) => Reaches(q)'
                  /\ Reaches(q)' => Reaches(q) \/ OnWsClientConnected(q)
  <2>0. UNCHANGED <<cut, tabs, loaded, modules, idCounter>>
    BY <1>5 DEF Serves, browser, past, OnWsClientConnected, OnWsClientMessage, Responds, OnWsClientClosed,
       ProcessJSRequest, RequestReturns, Outside, instance, started, vars
  <2>1. CASE OnWsClientConnected(r)
    BY <1>0, <2>0, <2>1 DEF OnWsClientConnected, Reaches
  <2>2. CASE OnWsClientMessage(r) \/ Responds(r)
    BY <2>0, <2>2 DEF OnWsClientMessage, Responds, Reaches
  <2>3. CASE OnWsClientClosed(r)
    BY <1>0, <2>0, <2>3 DEF OnWsClientClosed, Reaches
  <2> QED BY <1>5, <2>1, <2>2, <2>3 DEF Serves
<1>6. ASSUME NEW r \in Requester, Makes(r) \/ OnConnected(r)
      PROVE  /\ UNCHANGED <<cut, tabs, loaded, vars>>
             /\ \A q \in Requester : Reaches(q) <=> Reaches(q)'
  BY <1>0, <1>6 DEF Makes, Opens, CountdownEnds, OnClicked, CreateWs, OnConnected, past, Reaches
<1>7. ASSUME NEW r \in Requester, OnWsMessage(r)
      PROVE  UNCHANGED <<cut, socket, vars>>
  BY <1>7 DEF OnWsMessage
<1> QED BY <1>1, <1>2, <1>3, <1>4, <1>5, <1>6, <1>7, WebSteps DEF Clears, Reaches, vars

\* Clearing: every socket that is still connected is cut.
LEMMA ClearSteps ==
  ASSUME SocketsInv, Clears
  PROVE  /\ ~loaded' /\ UNCHANGED vars
         /\ \A r \in Requester : Reaches(r)' => r \in cut'
<1>1. CASE Leaves
  BY <1>1 DEF Leaves, Forgets, Reaches
<1>2. ASSUME NEW q \in Requester, OnDisconnected(q)
      PROVE  /\ ~loaded' /\ UNCHANGED vars
             /\ \A r \in Requester : Reaches(r)' => r \in cut'
  <2>1. \A r \in Requester : Reaches(r)' => r # q /\ r \in Live
    BY <1>2 DEF OnDisconnected, Forgets, Reaches, Live
  <2> QED BY <1>2, <2>1 DEF OnDisconnected, Clear
<1> QED BY <1>1, <1>2 DEF Clears

LEMMA RunStep ==
  ASSUME TypeOK, SocketsInv, Listening, Runs
  PROVE  /\ idCounter' \in {idCounter, idCounter + 1}
         /\ \A id \in DOMAIN modules' : id \in DOMAIN modules \/ id = idCounter
         /\ Tasks' \subseteq Tasks
         /\ \A task \in Tasks : task \in Tasks' \/ task = Head(loop)
         /\ loop # <<>> /\ Head(loop) \in Tasks
         /\ \A r \in Requester : Reaches(r) =>
              \A id \in DOMAIN modules' :
                \/ id \in DOMAIN modules
                \/ \E m \in Range(out'.pushed) : m.type = "module_added" /\ m.id = id
         /\ \A r \in listeners : \A m \in Range(out'.pushed) : m.type = "module_removed" =>
              /\ m.id \notin DOMAIN modules' /\ Head(loop).op = "UnregisterModule"
              /\ m.id = Head(loop).id
<1>1. RunTask
  BY DEF Runs
<1>2. idCounter' \in {idCounter, idCounter + 1}
  BY <1>1, TaskModules
<1>3. \A id \in DOMAIN modules' : id \in DOMAIN modules \/ id = idCounter
  BY <1>1, TaskModules
<1>4. loop # <<>> /\ loop' = Tail(loop)
  BY <1>1 DEF RunTask, OnProxyInitialized, DoRegisterModule, UnregisterModule, SaveUpdate,
     PushUpdate, DoProcessJSRequest, PassPeerUpdate, Takes
<1>5. Tasks = {Head(loop)} \cup Tasks'
  BY <1>4, TasksOf
<1>6. listeners # {} => initialized /\ msgQueue = <<>>
  BY DEF Listening
<1>7. \A r \in Requester : Reaches(r) => r \in listeners
  BY DEF Listening
<1> QED BY <1>1, <1>2, <1>3, <1>4, <1>5, <1>6, <1>7, PushesOf

\* A task that removes a module is posted for a module that is there, so for an id given.
LEMMA RemovalTasks ==
  ASSUME TypeOK, SocketsInv, PageType, Listening, [WebNext]_webVars, ~Runs
  PROVE  \A task \in Tasks' : task.op = "UnregisterModule" => task \in Tasks \/ task.id < idCounter
<1>1. CASE UNCHANGED loop
  BY <1>1, TasksOf
<1>2. ASSUME NEW new \in Task, Post(new), new.op = "UnregisterModule" => new.id \in DOMAIN modules
      PROVE  \A task \in Tasks' : task.op = "UnregisterModule" => task \in Tasks \/ task.id < idCounter
  <2>1. Tasks' = Tasks \cup {new}
    BY <1>2, TasksOf
  <2>2. DOMAIN modules \subseteq 0..(idCounter - 1) /\ idCounter \in Nat
    BY DEF TypeOK, ModulesTypeOK
  <2> QED BY <1>2, <2>1, <2>2
<1>3. CASE InstanceStep
  <2>1. CASE ProxyInitialized(TRUE)
    <3>1. [op |-> "OnProxyInitialized", host |-> TRUE] \in Task
      BY DEF Task
    <3> QED BY <1>2, <2>1, <3>1 DEF ProxyInitialized
  <2>2. CASE CallbackReturns
    BY <1>1, <2>2 DEF CallbackReturns
  <2>3. ASSUME NEW t \in Thread, NEW module \in Definition, RegisterModule(t, module)
        PROVE  \A task \in Tasks' : task.op = "UnregisterModule" => task \in Tasks \/ task.id < idCounter
    <3>1. [op |-> "DoRegisterModule", module |-> module, to |-> {t}] \in Task
      BY ConstantsAssumption DEF Task
    <3> QED BY <1>2, <2>3, <3>1 DEF RegisterModule
  <2>4. ASSUME NEW t \in Thread, RegisterReturns(t)
        PROVE  UNCHANGED loop
    BY <2>4 DEF RegisterReturns
  <2>5. ASSUME NEW t \in Thread, NEW id \in DOMAIN modules, CallUnregisterModule(t, id)
        PROVE  \A task \in Tasks' : task.op = "UnregisterModule" => task \in Tasks \/ task.id < idCounter
    <3>1. [op |-> "UnregisterModule", id |-> id] \in Task
      BY DEF Task, TypeOK, ModulesTypeOK
    <3> QED BY <1>2, <2>5, <3>1 DEF CallUnregisterModule
  <2>6. ASSUME NEW t \in Thread, NEW id \in DOMAIN modules, NEW list \in UpdateList,
               UpdateProperties(t, id, list)
        PROVE  \A task \in Tasks' : task.op = "UnregisterModule" => task \in Tasks \/ task.id < idCounter
    <3>1. [op |-> "SavePropertiesList", id |-> id, properties |-> list] \in Task
      BY ConstantsAssumption DEF Task, TypeOK, ModulesTypeOK
    <3> QED BY <1>2, <2>6, <3>1 DEF UpdateProperties
  <2>7. ASSUME NEW t \in Thread, UpdatePropertiesReturns(t)
        PROVE  \A task \in Tasks' : task.op = "UnregisterModule" => task \in Tasks \/ task.id < idCounter
    <3>1. app[t].id \in Int /\ app[t].properties \in PropertyList
      BY <2>7 DEF UpdatePropertiesReturns, Call, Idle, TypeOK, CallersTypeOK
    <3>2. [op |-> "HandleMessage", msg |-> CreatePropertyUpdated(app[t].id, app[t].properties)] \in Task
      BY <3>1, MessageTypes DEF Task
    <3> QED BY <1>2, <2>7, <3>2 DEF UpdatePropertiesReturns
  <2> QED BY <1>1, <1>3, <2>1, <2>2, <2>3, <2>4, <2>5, <2>6, <2>7 DEF InstanceStep
<1>4. ASSUME NEW r \in Requester, Serves(r)
      PROVE  \A task \in Tasks' : task.op = "UnregisterModule" => task \in Tasks \/ task.id < idCounter
  <2>1. CASE OnWsClientConnected(r) \/ Responds(r) \/ OnWsClientClosed(r)
    BY <1>1, <2>1 DEF OnWsClientConnected, Responds, RequestReturns, OnWsClientClosed, vars
  <2>2. CASE OnWsClientMessage(r)
    <3>1. Head(sent[r]) \in Request /\ ProcessJSRequest(r, Head(sent[r]))
      BY <2>2, HeadTailProperties DEF OnWsClientMessage, PageType
    <3>2. [op |-> "DoProcessJSRequest", json |-> Head(sent[r]), to |-> r] \in Task
      BY <3>1 DEF Task
    <3> QED BY <1>1, <1>2, <3>1, <3>2 DEF ProcessJSRequest
  <2> QED BY <1>4, <2>1, <2>2 DEF Serves
<1>5. CASE UserStep \/ Leaves \/ UNCHANGED webVars
  BY <1>1, <1>5, UserKeeps DEF Leaves, webVars, vars
<1>6. ASSUME NEW r \in Requester, Makes(r) \/ OnConnected(r) \/ OnDisconnected(r) \/ OnWsMessage(r)
      PROVE  UNCHANGED loop
  BY <1>6 DEF Makes, Opens, CountdownEnds, OnClicked, CreateWs, OnConnected, OnDisconnected,
     OnWsMessage, vars
<1> QED BY <1>1, <1>3, <1>4, <1>5, <1>6, WebSteps

\* What the steps of the page rest on, and what each of them keeps.
Basis ==
  /\ SocketsInv /\ TypeOK /\ RequestsAccounted
  /\ PageType /\ Listening /\ OneAnswer

LEMMA BasisStep == Basis /\ [WebNext]_webVars => Basis'
<1> SUFFICES ASSUME Basis, [WebNext]_webVars PROVE Basis'
  OBVIOUS
<1>1. [OpenNext]_vars /\ TypeOK' /\ OutTypeOK'
  BY WebIsOpen, TypeStep DEF Basis, TypeOK
<1>2. SocketsInv'
  BY SocketsStep DEF Basis
<1>3. RequestsAccounted'
  BY <1>1, RequestsStep DEF Basis
<1>4. PageType'
  BY PageTypeStep DEF Basis
<1>5. Listening'
  BY <1>1, ListeningStep DEF Basis, PageType
<1>6. OneAnswer'
  BY <1>1, OneAnswerStep DEF Basis
<1> QED BY <1>1, <1>2, <1>3, <1>4, <1>5, <1>6 DEF Basis

\* The messages on their way to a socket are those that were, what a task pushes, and
\* the answer sent.
LEMMA Arrivals ==
  ASSUME Basis, [WebNext]_webVars, NEW r \in Requester, NEW m \in Range(inbox'[r])
  PROVE  \/ m \in Range(inbox[r])
         \/ /\ Runs /\ r \in listeners /\ m \in Range(out'.pushed) /\ m \in PushedMsg
         \/ /\ Responds(r) /\ Reaches(r) /\ m \in Response /\ m \in answer[r]
<1>0. inbox \in [Requester -> Seq(Message)] /\ inbox[r] \in Seq(Message) /\ TypeOK' /\ OutTypeOK'
  BY BasisStep DEF Basis, PageType, TypeOK
<1>1. out'.pushed \in Seq(PushedMsg) /\ out'.pushed \in Seq(Message)
  <2>1. out'.pushed \in Seq(PushedMsg)
    BY <1>0 DEF TypeOK, OutTypeOK
  <2> QED BY <2>1 DEF Message
<1>2. \A x \in Range(out'.pushed) : x \in PushedMsg
  BY <1>1, MembersOf, ElementOfSeq
<1>3. Range(inbox[r] \o out'.pushed) = Range(inbox[r]) \cup Range(out'.pushed)
  BY <1>0, <1>1, JoinedOf
<1>4. \A x \in Response : Range(Append(inbox[r], x)) = Range(inbox[r]) \cup {x}
  BY <1>0, MembersOf DEF Message
<1>5. inbox[r] # <<>> => Range(Tail(inbox[r])) \subseteq Range(inbox[r])
  BY <1>0, MembersOf
<1>6. Range(<<>>) = {}
  BY RangesOf
<1> QED BY <1>0, <1>2, <1>3, <1>4, <1>5, <1>6, InboxSteps DEF Basis

\* ... and a message leaves when the page reads it, or is cleared.
LEMMA Readings ==
  ASSUME Basis, [WebNext]_webVars, ~Clears, NEW r \in Requester, NEW m \in Range(inbox[r])
  PROVE  \/ m \in Range(inbox'[r])
         \/ OnWsMessage(r) /\ m = Head(inbox[r])
<1>0. inbox \in [Requester -> Seq(Message)] /\ inbox[r] \in Seq(Message) /\ TypeOK' /\ OutTypeOK'
  BY BasisStep DEF Basis, PageType, TypeOK
<1>1. out'.pushed \in Seq(Message)
  <2>1. out'.pushed \in Seq(PushedMsg)
    BY <1>0 DEF TypeOK, OutTypeOK
  <2> QED BY <2>1 DEF Message
<1>2. Range(inbox[r] \o out'.pushed) = Range(inbox[r]) \cup Range(out'.pushed)
  BY <1>0, <1>1, JoinedOf
<1>3. \A x \in Response : Range(Append(inbox[r], x)) = Range(inbox[r]) \cup {x}
  BY <1>0, MembersOf DEF Message
<1>4. inbox[r] # <<>> => Range(inbox[r]) = {Head(inbox[r])} \cup Range(Tail(inbox[r]))
  BY <1>0, MembersOf
<1> QED BY <1>0, <1>2, <1>3, <1>4, InboxSteps DEF Basis, Clears

LEMMA RemovalsStep ==
  ASSUME Basis, Removals, [WebNext]_webVars
  PROVE  Removals'
<1>0. idCounter \in Nat /\ Tasks \subseteq Task /\ SocketsInv /\ tabs \in Tabs
  BY TasksOf DEF Basis, TypeOK, ModulesTypeOK, PageType
<1>1. \/ /\ idCounter' \in {idCounter, idCounter + 1}
         /\ \A id \in DOMAIN modules' : id \in DOMAIN modules \/ id = idCounter
  <2>1. CASE Runs
    BY <2>1, RunStep DEF Basis
  <2>2. CASE ~Runs /\ ~Clears
    BY <1>0, <2>2, PageSteps
  <2>3. CASE Clears
    BY <1>0, <2>3, ClearSteps DEF vars
  <2> QED BY <2>1, <2>2, <2>3
<1>2. ASSUME NEW task \in Tasks', task.op = "UnregisterModule"
      PROVE  task.id < idCounter'
  <2>1. task \in Tasks \/ task.id < idCounter
    <3>1. CASE Runs
      BY <1>2, <3>1, RunStep DEF Basis
    <3>2. CASE ~Runs
      BY <1>2, <3>2, RemovalTasks DEF Basis
    <3> QED BY <3>1, <3>2
  <2>2. task.id < idCounter
    BY <1>2, <2>1 DEF Removals
  <2>3. task.id \in Int
    <3>1. task \in Task
      <4>1. TypeOK'
        BY BasisStep DEF Basis
      <4>2. loop' \in Seq(Task)
        BY <4>1 DEF TypeOK
      <4> QED BY <4>2, MembersOf, ElementOfSeq DEF Tasks
    <3> QED BY <1>2, <3>1 DEF Task
  <2> QED BY <1>0, <1>1, <2>2, <2>3
<1>3. ASSUME NEW r \in Requester, NEW m \in Range(inbox'[r]), m.type = "module_removed"
      PROVE  m.id < idCounter' /\ m.id \notin DOMAIN modules'
  <2>1. CASE m \in Range(inbox[r])
    <3>1. m.id < idCounter /\ m.id \notin DOMAIN modules
      BY <1>3, <2>1 DEF Removals
    <3>2. m.id \in Int
      <4>1. m \in Message
        BY <2>1, MembersOf, ElementOfSeq DEF Basis, PageType
      <4> QED BY <1>3, <4>1 DEF Message, PushedMsg, AddedMsg, RemovedMsg, UpdateMsg, Response, ListMsg, EmptyMsg
    <3> QED BY <1>0, <1>1, <3>1, <3>2
  <2>2. CASE Runs /\ r \in listeners /\ m \in Range(out'.pushed)
    <3>1. /\ m.id \notin DOMAIN modules' /\ Head(loop) \in Tasks
          /\ Head(loop).op = "UnregisterModule" /\ m.id = Head(loop).id
      BY <1>3, <2>2, RunStep DEF Basis
    <3>2. m.id < idCounter /\ m.id \in Int
      BY <1>0, <3>1 DEF Removals, Task
    <3> QED BY <1>0, <1>1, <3>1, <3>2
  <2>3. CASE m \in Response
    BY <1>3, <2>3 DEF Response, ListMsg, EmptyMsg
  <2> QED BY <2>1, <2>2, <2>3, Arrivals
<1> QED BY <1>2, <1>3 DEF Removals

-----------------------------------------------------------------------------
(* No module is missing.                                                   *)

\* Every module is among the ids, or shown, or announced on the socket.
Covers(r, ids) ==
  \A id \in DOMAIN modules :
    id \in ids \cup DOMAIN tabs \/ \E m \in Range(inbox[r]) : m.type = "module_added" /\ m.id = id

\* What a list on its way leaves out is shown or announced after it; and so is every
\* module once a list is read.
ListsCover ==
  \A r \in Requester \ cut : Reaches(r) =>
    \A m \in answer[r] \cup Range(inbox[r]) : m.type = "module_list" => Covers(r, Listed(m))
LoadedCovers ==
  loaded => \E r \in Requester \ cut : Reaches(r) /\ Covers(r, {})

\* While it stays connected a socket keeps what it covers: a new module is announced,
\* and only a module that is gone is taken away.
LEMMA CoversStep ==
  ASSUME Basis, Removals, [WebNext]_webVars, ~Clears,
         NEW r \in Requester, Reaches(r), NEW ids, Covers(r, ids)
  PROVE  Covers(r, ids)'
<1>0. SocketsInv /\ tabs \in Tabs /\ TypeOK
  BY DEF Basis, PageType
<1>1. ASSUME NEW id \in DOMAIN modules, id \in DOMAIN tabs
      PROVE  id \in DOMAIN tabs'
  <2>1. CASE DOMAIN tabs' = DOMAIN tabs
    BY <1>1, <2>1
  <2>2. ASSUME NEW q \in Requester, OnWsMessage(q)
        PROVE  id \in DOMAIN tabs'
    <3>1. tabs' = OnMessage(tabs, Head(inbox[q])) /\ Head(inbox[q]) \in Range(inbox[q])
      BY <2>2, MembersOf DEF OnWsMessage, Basis, PageType
    <3>2. Head(inbox[q]).type = "module_removed" => Head(inbox[q]).id # id
      BY <1>1, <3>1 DEF Removals
    <3>3. PICK json : json = Head(inbox[q])
      OBVIOUS
    <3> QED BY <1>1, <3>1, <3>2, <3>3, MessageShows
  <2> QED BY <1>0, <2>1, <2>2, PageSteps
<1>2. ASSUME NEW id \in DOMAIN modules, NEW m \in Range(inbox[r]), m.type = "module_added", m.id = id
      PROVE  \/ id \in DOMAIN tabs'
             \/ \E n \in Range(inbox'[r]) : n.type = "module_added" /\ n.id = id
  <2>1. CASE OnWsMessage(r) /\ m = Head(inbox[r])
    <3>1. tabs' = OnMessage(tabs, m)
      BY <2>1 DEF OnWsMessage
    <3>2. DOMAIN OnMessage(tabs, m) = DOMAIN tabs \cup {m.id}
      BY <1>2, MessageShows
    <3> QED BY <1>2, <3>1, <3>2
  <2> QED BY <1>2, <2>1, Readings
<1>3. ASSUME NEW id \in DOMAIN modules', id \notin DOMAIN modules
      PROVE  \E m \in Range(inbox'[r]) : m.type = "module_added" /\ m.id = id
  <2>1. Runs
    BY <1>0, <1>3, PageSteps
  <2>2. PICK m \in Range(out'.pushed) : m.type = "module_added" /\ m.id = id
    BY <1>3, <2>1, RunStep DEF Basis
  <2>3. inbox'[r] = inbox[r] \o out'.pushed
    BY <2>1 DEF Runs, PushMsgForJS, Listening, Basis
  <2>4. Range(inbox'[r]) = Range(inbox[r]) \cup Range(out'.pushed)
    <3>1. out'.pushed \in Seq(PushedMsg)
      BY BasisStep DEF Basis, TypeOK, OutTypeOK
    <3>2. inbox[r] \in Seq(Message) /\ out'.pushed \in Seq(Message)
      BY <3>1 DEF Basis, PageType, Message
    <3> QED BY <2>3, <3>2, JoinedOf
  <2> QED BY <2>2, <2>4
<1> QED BY <1>1, <1>2, <1>3 DEF Covers

LEMMA ListsStep ==
  ASSUME Basis, Removals, ListsCover, [WebNext]_webVars
  PROVE  ListsCover'
<1>0. SocketsInv /\ tabs \in Tabs /\ TypeOK /\ RequestsAccounted /\ [OpenNext]_vars
  BY WebIsOpen DEF Basis, PageType
<1>1. CASE Clears
  BY <1>0, <1>1, ClearSteps DEF ListsCover
<1>2. CASE ~Clears
  <2> SUFFICES ASSUME NEW r \in Requester \ cut', Reaches(r)',
                      NEW m \in answer'[r] \cup Range(inbox'[r]), m.type = "module_list"
               PROVE  Covers(r, Listed(m))'
    BY DEF ListsCover
  <2>1. r \notin cut /\ (Reaches(r) \/ OnWsClientConnected(r))
    BY <1>0, <1>2, PageSteps
  <2>2. Empty.type # "module_list" /\ \A x \in PushedMsg : x.type # "module_list"
    BY DEF Empty, PushedMsg, AddedMsg, RemovedMsg, UpdateMsg
  <2>3. CASE OnWsClientConnected(r)
    <3>1. /\ socket[r] = "opening" /\ running # Crashed /\ ~Reaches(r)
          /\ UNCHANGED <<answer, inbox>>
      BY <2>3 DEF OnWsClientConnected, Reaches, vars
    <3>2. answer[r] = {}
      <4>1. Answered(r)
        BY <1>0, <3>1, AnsweredForAll
      <4>2. request[r] = "idle"
        BY <3>1 DEF Basis, Listening
      <4> QED BY <4>1, <4>2 DEF Answered
    <3>3. Range(inbox[r]) = {}
      BY <3>1, RangesOf DEF Basis, Listening
    <3> QED BY <3>1, <3>2, <3>3
  <2>4. CASE Reaches(r) /\ m \in answer[r] \cup Range(inbox[r])
    <3>1. Covers(r, Listed(m))
      BY <2>1, <2>4 DEF ListsCover
    <3>2. PICK ids : ids = Listed(m)
      OBVIOUS
    <3>3. Covers(r, ids)'
      BY <1>2, <2>4, <3>1, <3>2, CoversStep
    <3> QED BY <3>2, <3>3 DEF Covers
  <2>5. CASE m \in answer'[r] /\ m \notin answer[r]
    <3>1. m = CreateModuleList(modules) /\ modules' = modules
      BY <1>0, <2>2, <2>5, AnswerSteps
    <3>2. Listed(m) = DOMAIN modules
      <4>1. m.modules = {[id |-> i, properties |-> modules[i].properties] : i \in DOMAIN modules}
        BY <3>1 DEF CreateModuleList
      <4>2. \A i \in DOMAIN modules : [id |-> i, properties |-> modules[i].properties].id = i
        OBVIOUS
      <4>3. \A i \in DOMAIN modules : i \in Listed(m)
        BY <4>1, <4>2 DEF Listed
      <4>4. \A i \in Listed(m) : i \in DOMAIN modules
        BY <4>1, <4>2 DEF Listed
      <4> QED BY <4>3, <4>4
    <3> QED BY <3>1, <3>2 DEF Covers
  <2>6. CASE Reaches(r) /\ m \in Range(inbox'[r])
    BY <2>2, <2>4, <2>6, Arrivals
  <2> QED BY <2>1, <2>3, <2>4, <2>5, <2>6
<1> QED BY <1>1, <1>2

LEMMA LoadedStep ==
  ASSUME Basis, Removals, ListsCover, LoadedCovers, [WebNext]_webVars
  PROVE  LoadedCovers'
<1>0. SocketsInv /\ tabs \in Tabs
  BY DEF Basis, PageType
<1>1. CASE Clears
  BY <1>0, <1>1, ClearSteps DEF LoadedCovers
<1>2. CASE ~Clears /\ loaded
  <2>1. PICK r \in Requester \ cut : Reaches(r) /\ Covers(r, {})
    BY <1>2 DEF LoadedCovers
  <2>2. PICK ids : ids = {}
    OBVIOUS
  <2>3. Covers(r, ids)'
    BY <1>2, <2>1, <2>2, CoversStep
  <2>4. Covers(r, {})'
    BY <2>2, <2>3 DEF Covers
  <2>5. r \in Requester \ cut' /\ Reaches(r)'
    BY <1>0, <1>2, <2>1, PageSteps
  <2> QED BY <2>4, <2>5 DEF LoadedCovers
<1>3. CASE ~Clears /\ ~loaded
  <2> SUFFICES ASSUME loaded' PROVE LoadedCovers'
    BY DEF LoadedCovers
  <2>1. PICK r \in Requester : OnWsMessage(r)
    BY <1>0, <1>3, PageSteps
  <2>2. PICK m : m = Head(inbox[r])
    OBVIOUS
  <2>3. /\ m.type = "module_list" /\ r \notin cut /\ socket[r] = "open"
        /\ tabs' = OnMessage(tabs, m) /\ m \in Range(inbox[r])
    <3>1. /\ socket[r] = "open" /\ tabs' = OnMessage(tabs, m)
          /\ loaded' = (loaded \/ (m.type = "module_list" /\ r \notin cut))
      BY <2>1, <2>2 DEF OnWsMessage
    <3>2. inbox[r] \in Seq(Message) /\ inbox[r] # <<>>
      BY <2>1 DEF OnWsMessage, Basis, PageType
    <3>3. m \in Range(inbox[r])
      BY <2>2, <3>2, MembersOf
    <3> QED BY <1>3, <3>1, <3>3
  <2>4. Reaches(r) /\ Covers(r, Listed(m))
    BY <2>3 DEF Reaches, ListsCover
  <2>5. PICK ids : ids = Listed(m)
    OBVIOUS
  <2>6. Covers(r, ids)'
    BY <1>3, <2>4, <2>5, CoversStep
  <2>7. ids \subseteq DOMAIN tabs'
    <3>1. DOMAIN OnMessage(tabs, m) = DOMAIN tabs \cup Listed(m)
      BY <2>3, MessageShows
    <3> QED BY <2>3, <2>5, <3>1
  <2>8. Covers(r, {})'
    BY <2>6, <2>7 DEF Covers
  <2>9. r \in Requester \ cut' /\ Reaches(r)'
    BY <1>0, <1>3, <2>3, <2>4, PageSteps
  <2> QED BY <2>8, <2>9 DEF LoadedCovers
<1> QED BY <1>1, <1>2, <1>3

LEMMA BasisInit == PageInit => Basis /\ Removals
<1> SUFFICES ASSUME PageInit PROVE Basis /\ Removals
  OBVIOUS
<1>1. Init /\ TypeOK
  BY TypeInit DEF PageInit, WebInit
<1>2. SocketsInv
  BY DEF PageInit, WebInit, SocketsInv, SocketState
<1>3. RequestsAccounted
  BY <1>1 DEF Init, RequestsAccounted, RequestsOf, Answering, Idle
<1>4. PageType
  <2>1. PICK base \in Seq(Seq(Field)) : base = <<>>
    BY EmptySeq
  <2>2. DOMAIN base = {} /\ base \in [{} -> Seq(Field)]
    BY <2>1, EmptySeq, LenProperties
  <2>3. base \in Tabs
    BY <2>2, TabsType
  <2>4. <<>> \in Seq(Request) /\ <<>> \in Seq(Message)
    BY EmptySeq
  <2> QED BY <2>1, <2>3, <2>4 DEF PageInit, WebInit, PageType
<1>5. Listening
  BY <1>1 DEF PageInit, WebInit, Init, Listening, Reaches
<1>6. OneAnswer
  BY <1>1 DEF Init, OneAnswer
<1>7. Removals
  <2>1. Tasks = {} /\ Range(<<>>) = {}
    BY <1>1, NoTasks, RangesOf DEF Init
  <2>2. \A r \in Requester : Range(inbox[r]) = {}
    BY <2>1 DEF PageInit, WebInit
  <2> QED BY <2>1, <2>2 DEF Removals
<1> QED BY <1>1, <1>2, <1>3, <1>4, <1>5, <1>6, <1>7 DEF Basis

LEMMA CoverInvariant ==
  WebSpec => [](Basis /\ Removals /\ ListsCover /\ LoadedCovers)
<1>1. PageInit => Basis /\ Removals /\ ListsCover /\ LoadedCovers
  BY BasisInit DEF PageInit, WebInit, ListsCover, LoadedCovers, Reaches
<1>2. Basis /\ Removals /\ ListsCover /\ LoadedCovers /\ [WebNext]_webVars =>
        (Basis /\ Removals /\ ListsCover /\ LoadedCovers)'
  BY BasisStep, RemovalsStep, ListsStep, LoadedStep
<1> QED BY <1>1, <1>2, PTL DEF WebSpec

\* No module is missing from a page that has read its list and has nothing on its way: a
\* socket listens before its load request is read (ServerImpl.cpp:54-72), so a module is
\* in the list or pushed after it, on whichever of its sockets the page reads the list.
THEOREM EveryModuleIsShown == WebSpec => []AllModulesShown
<1>1. Basis /\ LoadedCovers => AllModulesShown
  <2> SUFFICES ASSUME Basis, LoadedCovers, Settled PROVE DOMAIN modules \subseteq DOMAIN tabs
    BY DEF AllModulesShown
  <2>1. PICK r \in Requester \ cut : Covers(r, {})
    BY DEF Settled, LoadedCovers
  <2>2. Range(inbox[r]) = {}
    BY RangesOf DEF Settled, Quiet
  <2> QED BY <2>1, <2>2 DEF Covers
<1> QED BY <1>1, CoverInvariant, PTL

-----------------------------------------------------------------------------
(* The list is asked for.                                                  *)

\* Until there were two sockets at once, the socket that is live is the one the page
\* sends on, and it is not cut.
OneSocket == ~several => cut = {} /\ \A r \in Live : websocket = {r}

\* Until it is read, the list of an open socket is asked for, being made, or on its way.
Asked ==
  ~several /\ running # Crashed =>
    \A r \in Requester : socket[r] = "open" /\ ~loaded =>
      \/ CreateLoadModules \in Range(sent[r])
      \/ LoadTask(r) \in Tasks
      \/ \E m \in answer[r] \cup Range(inbox[r]) : m.type = "module_list"

LEMMA OneSocketStep ==
  ASSUME SocketsInv, OneSocket, [WebNext]_webVars
  PROVE  OneSocket'
<1>0. socket \in [Requester -> SocketState]
  BY DEF SocketsInv
<1>1. CASE (InstanceStep /\ PageKept) \/ Runs \/ UNCHANGED webVars
  BY <1>1 DEF PageKept, Runs, net, browser, past, webVars, Live, OneSocket
<1>2. CASE UserStep
  BY <1>2, UserKeeps DEF Live, OneSocket
<1>3. ASSUME NEW r \in Requester, Serves(r)
      PROVE  OneSocket'
  <2>1. Live' = Live /\ UNCHANGED <<websocket, several, cut>>
    BY <1>0, <1>3 DEF Serves, OnWsClientConnected, OnWsClientMessage, Responds, OnWsClientClosed,
       browser, past, Live
  <2> QED BY <2>1 DEF OneSocket
<1>4. ASSUME NEW r \in Requester, Makes(r)
      PROVE  OneSocket'
  <2>1. /\ socket' = [socket EXCEPT ![r] = "opening"] /\ websocket' = {r} /\ cut' = cut
        /\ several' = (several \/ Live # {})
    BY <1>4 DEF Makes, Opens, CountdownEnds, OnClicked, CreateWs
  <2>2. Live = {} => \A q \in Live' : q = r
    BY <1>0, <2>1 DEF Live
  <2> QED BY <2>1, <2>2 DEF OneSocket
<1>5. ASSUME NEW r \in Requester, OnConnected(r) \/ OnWsMessage(r)
      PROVE  OneSocket'
  <2>1. Live' = Live /\ UNCHANGED <<websocket, several, cut>>
    BY <1>0, <1>5 DEF OnConnected, OnWsMessage, past, Live
  <2> QED BY <2>1 DEF OneSocket
<1>6. ASSUME NEW r \in Requester, OnDisconnected(r)
      PROVE  OneSocket'
  <2>1. /\ r \in Live /\ cut' = (cut \cup Live) \ {r} /\ UNCHANGED <<websocket, several>>
    BY <1>6 DEF OnDisconnected
  <2>2. Live' \subseteq Live
    BY <1>6 DEF OnDisconnected, Forgets, Live
  <2>3. ~several => \A q \in Live : q = r
    BY <2>1 DEF OneSocket
  <2> QED BY <2>1, <2>2, <2>3 DEF OneSocket
<1>7. CASE Leaves
  <2>1. Live' = {} /\ cut' = {}
    BY <1>0, <1>7 DEF Leaves, Forgets, Live
  <2> QED BY <2>1 DEF OneSocket
<1> QED BY <1>1, <1>2, <1>3, <1>4, <1>5, <1>6, <1>7, WebSteps

\* The answer to a request is sent when its thread returns.
LEMMA OnlyResponds ==
  ASSUME TypeOK, [WebNext]_webVars, NEW r \in Requester, RequestReturns(r)
  PROVE  Responds(r)
<1>0. /\ request \in [Requester -> {"idle", "waiting"}]
      /\ request[r] = "waiting" /\ request'[r] = "idle"
  BY DEF TypeOK, CallersTypeOK, RequestReturns
<1>1. request' # request
  BY <1>0
<1>2. ~InstanceStep /\ ~Runs
  BY <1>1, InstanceKeeps, RunKeeps DEF Runs
<1>3. ~UserStep /\ ~UNCHANGED webVars /\ ~Leaves
  BY <1>1, UserKeeps DEF webVars, vars, Leaves
<1>4. ASSUME NEW q \in Requester, Makes(q) \/ OnConnected(q) \/ OnDisconnected(q) \/ OnWsMessage(q)
      PROVE  FALSE
  BY <1>1, <1>4 DEF Makes, Opens, CountdownEnds, OnClicked, CreateWs, OnConnected, OnDisconnected,
     OnWsMessage, vars
<1>5. ASSUME NEW q \in Requester, Serves(q)
      PROVE  q = r /\ Responds(q)
  <2>1. ~OnWsClientConnected(q) /\ ~OnWsClientClosed(q)
    BY <1>1 DEF OnWsClientConnected, OnWsClientClosed, vars
  <2>2. ~OnWsClientMessage(q)
    BY <1>0 DEF OnWsClientMessage, ProcessJSRequest
  <2>3. Responds(q)
    BY <1>5, <2>1, <2>2 DEF Serves
  <2>4. q = r
    BY <1>0, <2>3 DEF Responds, RequestReturns
  <2> QED BY <2>3, <2>4
<1> QED BY <1>2, <1>3, <1>4, <1>5, WebSteps

\* What an open socket has sent to the server is read, and becomes a task.
LEMMA SentSteps ==
  ASSUME Basis, [WebNext]_webVars, ~Clears,
         NEW r \in Requester, socket[r] = "open", NEW msg \in Range(sent[r])
  PROVE  msg \in Range(sent'[r]) \/ (OnWsClientMessage(r) /\ msg = Head(sent[r]))
<1>0. sent \in [Requester -> Seq(Request)] /\ sent[r] \in Seq(Request)
  BY DEF Basis, PageType
<1>1. ASSUME NEW new \in Request, Send(new)
      PROVE  msg \in Range(sent'[r])
  <2>1. Range(Append(sent[r], new)) = Range(sent[r]) \cup {new}
    BY <1>0, MembersOf
  <2> QED BY <1>1, <2>1 DEF Send
<1>2. CASE (InstanceStep /\ PageKept) \/ Runs \/ UNCHANGED webVars
  BY <1>2 DEF PageKept, net, Runs, webVars
<1>3. CASE UserStep
  <2>1. sent' = sent \/ \E new \in Request : Send(new)
    BY <1>3, UserSendsApplies DEF Basis, PageType, Request
  <2> QED BY <1>1, <2>1
<1>4. ASSUME NEW q \in Requester, Serves(q)
      PROVE  msg \in Range(sent'[r]) \/ (OnWsClientMessage(r) /\ msg = Head(sent[r]))
  <2>1. CASE OnWsClientConnected(q) \/ Responds(q) \/ OnWsClientClosed(q)
    BY <1>0, <2>1 DEF OnWsClientConnected, Responds, OnWsClientClosed
  <2>2. CASE OnWsClientMessage(q)
    <3>1. CASE q # r
      BY <1>0, <2>2, <3>1 DEF OnWsClientMessage
    <3>2. CASE q = r
      <4>1. sent'[r] = Tail(sent[r]) /\ sent[r] # <<>>
        BY <1>0, <2>2, <3>2 DEF OnWsClientMessage
      <4>2. Range(sent[r]) = {Head(sent[r])} \cup Range(Tail(sent[r]))
        BY <1>0, <4>1, MembersOf
      <4> QED BY <2>2, <3>2, <4>1, <4>2
    <3> QED BY <3>1, <3>2
  <2> QED BY <1>4, <2>1, <2>2 DEF Serves
<1>5. ASSUME NEW q \in Requester, Makes(q) \/ OnWsMessage(q)
      PROVE  sent' = sent
  BY <1>5 DEF Makes, Opens, CountdownEnds, OnClicked, CreateWs, OnWsMessage
<1>6. ASSUME NEW q \in Requester, OnConnected(q)
      PROVE  msg \in Range(sent'[r])
  <2>1. CreateLoadModules \in Request
    BY DEF CreateLoadModules, Request, LoadMsg
  <2> QED BY <1>1, <1>6, <2>1 DEF OnConnected
<1> QED BY <1>2, <1>3, <1>4, <1>5, <1>6, WebSteps DEF Clears

\* A task stays until the module thread takes it.
LEMMA TasksStay ==
  ASSUME Basis, [WebNext]_webVars, NEW task \in Tasks
  PROVE  task \in Tasks' \/ (RunTask /\ loop # <<>> /\ task = Head(loop))
<1>0. TypeOK
  BY DEF Basis
<1>1. CASE Runs
  <2>1. task \in Tasks' \/ task = Head(loop)
    BY <1>1, RunStep DEF Basis
  <2> QED BY <1>1, <2>1, RunStep DEF Basis, Runs
<1>2. CASE ~Runs
  <2>1. UNCHANGED loop \/ \E new : loop' = Append(loop, new)
    <3>1. CASE InstanceStep
      BY <3>1 DEF InstanceStep, ProxyInitialized, CallbackReturns, RegisterModule, RegisterReturns,
         CallUnregisterModule, UpdateProperties, UpdatePropertiesReturns, Post
    <3>2. ASSUME NEW r \in Requester, Serves(r)
          PROVE  UNCHANGED loop \/ \E new : loop' = Append(loop, new)
      BY <3>2 DEF Serves, OnWsClientConnected, OnWsClientMessage, ProcessJSRequest, Post, Responds,
         RequestReturns, OnWsClientClosed, vars
    <3>3. CASE UserStep \/ Leaves \/ UNCHANGED webVars
      BY <3>3, UserKeeps DEF Leaves, webVars, vars
    <3>4. ASSUME NEW r \in Requester, Makes(r) \/ OnConnected(r) \/ OnDisconnected(r) \/ OnWsMessage(r)
          PROVE  UNCHANGED loop
      BY <3>4 DEF Makes, Opens, CountdownEnds, OnClicked, CreateWs, OnConnected, OnDisconnected,
         OnWsMessage, vars
    <3> QED BY <1>2, <3>1, <3>2, <3>3, <3>4, WebSteps
  <2>2. ASSUME NEW new, loop' = Append(loop, new)
        PROVE  task \in Tasks'
    <3>1. loop \in Seq(Task) /\ loop' \in Seq(Task)
      BY BasisStep DEF Basis, TypeOK
    <3>2. PICK i \in 1..Len(loop) : task = loop[i]
      BY <3>1, MembersOf DEF Tasks
    <3>3. loop'[i] = loop[i] /\ i \in 1..Len(loop')
      BY <2>2, <3>1, <3>2
    <3> QED BY <3>1, <3>2, <3>3, MembersOf DEF Tasks
  <2> QED BY <1>0, <2>1, <2>2, TasksOf
<1> QED BY <1>1, <1>2

LEMMA AskedStep ==
  ASSUME Basis, OneSocket, Asked, [WebNext]_webVars
  PROVE  Asked'
<1> SUFFICES ASSUME ~several', running' # Crashed, NEW r \in Requester,
                    socket'[r] = "open", ~loaded'
             PROVE  \/ CreateLoadModules \in Range(sent'[r])
                    \/ LoadTask(r) \in Tasks'
                    \/ \E m \in answer'[r] \cup Range(inbox'[r]) : m.type = "module_list"
  BY DEF Asked, LoadTask
<1>0. /\ SocketsInv /\ tabs \in Tabs /\ TypeOK /\ RequestsAccounted /\ [OpenNext]_vars
      /\ inbox[r] \in Seq(Message) /\ sent[r] \in Seq(Request)
      /\ socket \in [Requester -> SocketState]
  BY WebIsOpen DEF Basis, PageType, SocketsInv
<1>1. ~Clears /\ ~several
  <2>1. ~Leaves
    BY <1>0 DEF Leaves, Forgets
  <2>2. ~several
    <3>1. CASE UserStep
      BY <3>1, UserKeeps
    <3>2. CASE ~UserStep
      BY <2>1, <3>2, WebSteps DEF PageKept, past, Runs, Serves, Makes, Opens, CountdownEnds, OnClicked,
         CreateWs, OnConnected, OnDisconnected, OnWsMessage, webVars
    <3> QED BY <3>1, <3>2
  <2>3. ASSUME NEW q \in Requester, OnDisconnected(q)
        PROVE  FALSE
    <3>1. q \in Live /\ r \in Live /\ r # q
      BY <2>3 DEF OnDisconnected, Forgets, Live
    <3> QED BY <2>2, <3>1 DEF OneSocket
  <2> QED BY <2>1, <2>2, <2>3 DEF Clears
<1>2. running # Crashed
  BY <1>0, CrashedStays DEF vars
<1>3. cut = {} /\ \A q \in Live : websocket = {q}
  BY <1>1 DEF OneSocket
<1>4. ~loaded
  <2>1. ASSUME NEW q \in Requester, OnWsMessage(q)
        PROVE  ~loaded
    BY <2>1 DEF OnWsMessage
  <2> QED BY <1>0, <1>1, <2>1, PageSteps
<1>5. CASE OnConnected(r)
  <2>1. r \in websocket
    BY <1>3, <1>5 DEF OnConnected, Live
  <2>2. CreateLoadModules \in Request
    BY DEF CreateLoadModules, Request, LoadMsg
  <2>3. sent'[r] = Append(sent[r], CreateLoadModules)
    BY <1>5, <2>1 DEF OnConnected, Send
  <2> QED BY <1>0, <2>2, <2>3, MembersOf
<1>6. CASE ~OnConnected(r)
  <2>1. socket[r] = "open"
    <3>1. ASSUME NEW q \in Requester, OnConnected(q)
          PROVE  socket[r] = "open"
      BY <1>0, <1>6, <3>1 DEF OnConnected
    <3>2. ASSUME NEW q \in Requester, Serves(q) \/ Makes(q) \/ OnWsMessage(q)
          PROVE  socket[r] = "open"
      BY <1>0, <3>2 DEF Serves, OnWsClientConnected, OnWsClientMessage, Responds, OnWsClientClosed,
         Makes, Opens, CountdownEnds, OnClicked, CreateWs, OnWsMessage
    <3>3. CASE UserStep
      BY <3>3, UserKeeps
    <3>4. CASE (InstanceStep /\ PageKept) \/ Runs \/ UNCHANGED webVars
      BY <3>4 DEF PageKept, net, Runs, webVars
    <3> QED BY <1>1, <3>1, <3>2, <3>3, <3>4, WebSteps DEF Clears
  <2>2. CASE CreateLoadModules \in Range(sent[r])
    <3>1. CASE OnWsClientMessage(r) /\ CreateLoadModules = Head(sent[r])
      <4>1. Post(LoadTask(r))
        <5>1. CreateLoadModules # Malformed
          BY DEF CreateLoadModules, Malformed
        <5> QED BY <3>1, <5>1 DEF OnWsClientMessage, ProcessJSRequest, LoadTask
      <4>2. LoadTask(r) \in Task
        BY DEF LoadTask, Task, CreateLoadModules, Request, LoadMsg
      <4> QED BY <1>0, <4>1, <4>2, TasksOf
    <3> QED BY <1>1, <2>1, <2>2, <3>1, SentSteps
  <2>3. CASE LoadTask(r) \in Tasks
    <3>1. CASE RunTask /\ loop # <<>> /\ LoadTask(r) = Head(loop)
      <4>1. DoProcessJSRequest
        <5>1. Head(loop).op = "DoProcessJSRequest"
          BY <3>1 DEF LoadTask
        <5> QED BY <3>1, <5>1 DEF RunTask, OnProxyInitialized, DoRegisterModule, UnregisterModule,
                SaveUpdate, PushUpdate, PassPeerUpdate, Takes
      <4>2. Head(loop).json.type = "load" /\ Head(loop).to = r
        BY <3>1 DEF LoadTask, CreateLoadModules
      <4>3. Answer({r}, CreateModuleList(modules))
        BY <4>1, <4>2 DEF DoProcessJSRequest
      <4>4. CreateModuleList(modules) \in answer'[r]
        BY <4>3 DEF Answer
      <4> QED BY <4>4 DEF CreateModuleList
    <3> QED BY <2>3, <3>1, TasksStay
  <2>4. ASSUME NEW m \in Range(inbox[r]), m.type = "module_list"
        PROVE  m \in Range(inbox'[r])
    <3>1. ~(OnWsMessage(r) /\ m = Head(inbox[r]))
      BY <1>3, <2>4 DEF OnWsMessage
    <3> QED BY <1>1, <3>1, Readings
  <2>5. ASSUME NEW m \in answer[r], m.type = "module_list"
        PROVE  m \in answer'[r] \cup Range(inbox'[r])
    <3>1. CASE RequestReturns(r)
      <4>1. Responds(r) /\ Reaches(r)
        BY <1>0, <2>1, <3>1, OnlyResponds DEF Reaches
      <4>2. m \in Response /\ answer[r] = {m}
        BY <2>5 DEF Basis, OneAnswer
      <4>3. inbox'[r] = inbox[r] \o <<m>>
        <5>1. inbox'[r] = inbox[r] \o SetToSeq(answer[r])
          BY <4>1 DEF Responds, Basis, PageType
        <5> QED BY <4>2, <5>1, SetToSeqOf
      <4>4. m \in Message
        BY <4>2 DEF Message
      <4> QED BY <1>0, <4>3, <4>4, OneMoreOf
    <3>2. CASE ~RequestReturns(r)
      BY <1>0, <2>5, <3>2, AnswerSteps
    <3> QED BY <3>1, <3>2
  <2> QED BY <1>1, <1>2, <1>4, <2>1, <2>2, <2>3, <2>4, <2>5 DEF Asked
<1> QED BY <1>5, <1>6

\* A page whose socket is open has read its list once nothing is on its way, unless it had
\* two sockets at once (web.app.js:28-31, messenger.js:34-41): the request it sends when
\* the socket opens is answered, and the answer is not lost.
THEOREM PageLoads == WebSpec => []ConnectedPageLoads
<1>1. PageInit => Basis /\ OneSocket /\ Asked
  BY BasisInit DEF PageInit, WebInit, OneSocket, Asked, Live
<1>2. Basis /\ OneSocket /\ Asked /\ [WebNext]_webVars => (Basis /\ OneSocket /\ Asked)'
  BY BasisStep, OneSocketStep, AskedStep DEF Basis
<1>3. Basis /\ Asked => ConnectedPageLoads
  <2> SUFFICES ASSUME Basis, Asked, Quiet, ~several, NEW r \in Live, socket[r] = "open", ~loaded
               PROVE  FALSE
    BY DEF ConnectedPageLoads
  <2>1. /\ r \in Requester /\ inbox[r] = <<>> /\ sent[r] = <<>> /\ request[r] = "idle"
        /\ loop = <<>> /\ running # Crashed
    BY DEF Live, Quiet, Idle, Crashed
  <2>2. Range(inbox[r]) = {} /\ Range(sent[r]) = {} /\ Tasks = {}
    BY <2>1, RangesOf, NoTasks
  <2>3. answer[r] = {}
    BY <2>1, AnsweredForAll DEF Basis, Answered
  <2> QED BY <2>1, <2>2, <2>3 DEF Asked
<1> QED BY <1>1, <1>2, <1>3, PTL DEF WebSpec

-----------------------------------------------------------------------------
(* What is selected.                                                       *)

\* The least of a set of ids.
LEMMA MinOf ==
  ASSUME NEW T \in SUBSET Nat, T # {}
  PROVE  Min(T) \in T
<1>1. PICK R : IsWellFoundedOn(R, Nat) /\ \A x, y \in Nat : x < y => <<x, y>> \in R
  <2>1. \A x, y \in Nat : x < y => <<x, y>> \in OpToRel(<, Nat)
    BY DEF OpToRel
  <2> QED BY <2>1, NatLessThanWellFounded, Zenon
<1>2. PICK x \in T : \A y \in T : ~(<<y, x>> \in R)
  <2>1. IsWellFoundedOn(R, Nat) /\ T \subseteq Nat /\ T # {}
    BY <1>1
  <2> QED BY ONLY <2>1, WFMin, Zenon
<1>3. ASSUME NEW y \in T
      PROVE  x <= y
  <2>1. ~(y < x) /\ x \in Nat /\ y \in Nat
    BY <1>1, <1>2
  <2> QED BY <2>1
<1> QED BY <1>2, <1>3 DEF Min

\* Buttons are positive in number; adding modules and removing one changes theirs alone.
HasButtons(s) == s.buttons \in [DOMAIN s.buttons -> Nat \ {0}]

LEMMA ButtonsAdded ==
  ASSUME NEW s, HasButtons(s), NEW new
  PROVE  LET t == OnModulesAdded(s, new)
         IN  /\ DOMAIN t.buttons = DOMAIN s.buttons \cup new
             /\ \A i \in DOMAIN t.buttons :
                  t.buttons[i] = (IF i \in DOMAIN s.buttons THEN s.buttons[i] ELSE 0)
                                 + (IF i \in new THEN 1 ELSE 0)
             /\ HasButtons(t)
<1> DEFINE t == OnModulesAdded(s, new)
<1>0. t.buttons = s.buttons (+) SetToBag(new)
  BY DEF OnModulesAdded
<1>1. s.buttons \in [DOMAIN s.buttons -> Nat \ {0}]
  BY DEF HasButtons
<1>2. DOMAIN t.buttons = DOMAIN s.buttons \cup new
  BY <1>0 DEF (+), SetToBag
<1>3. \A i \in DOMAIN t.buttons :
         t.buttons[i] = (IF i \in DOMAIN s.buttons THEN s.buttons[i] ELSE 0)
                        + (IF i \in new THEN 1 ELSE 0)
  BY <1>0, <1>2 DEF (+), SetToBag
<1>4. t.buttons = [i \in DOMAIN t.buttons |-> t.buttons[i]]
  BY <1>0 DEF (+), SetToBag
<1> HIDE DEF t
<1>5. \A i \in DOMAIN t.buttons : t.buttons[i] \in Nat \ {0}
  BY <1>1, <1>2, <1>3
<1>6. HasButtons(t)
  BY <1>4, <1>5 DEF HasButtons
<1> QED BY <1>2, <1>3, <1>6 DEF t

LEMMA ButtonsRemoved ==
  ASSUME NEW s, HasButtons(s), NEW ids, NEW id \in ids, id \in DOMAIN s.buttons
  PROVE  LET t == OnModuleRemoved(s, ids, id)
         IN  /\ \A d : d \in DOMAIN t.buttons <=>
                          d \in DOMAIN s.buttons /\ (d = id => s.buttons[id] > 1)
             /\ \A d \in DOMAIN t.buttons :
                  t.buttons[d] = IF d = id THEN s.buttons[d] - 1 ELSE s.buttons[d]
             /\ HasButtons(t)
<1> DEFINE t == OnModuleRemoved(s, ids, id)
           B == [e \in DOMAIN s.buttons |-> IF e = id THEN s.buttons[e] - 1 ELSE s.buttons[e]]
<1>1. t.buttons = s.buttons (-) SetToBag({id})
  BY DEF OnModuleRemoved
<1>2. s.buttons \in [DOMAIN s.buttons -> Nat \ {0}]
  BY DEF HasButtons
<1>3. t.buttons = [e \in {d \in DOMAIN B : B[d] > 0} |-> B[e]]
  BY <1>1 DEF (-), SetToBag
<1>4. \A d \in DOMAIN s.buttons : B[d] > 0 <=> (d = id => s.buttons[id] > 1)
  BY <1>2
<1>5. {d \in DOMAIN B : B[d] > 0} = {d \in DOMAIN s.buttons : d = id => s.buttons[id] > 1}
  BY <1>4
<1>6. t.buttons = [e \in {d \in DOMAIN s.buttons : d = id => s.buttons[id] > 1} |->
                     IF e = id THEN s.buttons[e] - 1 ELSE s.buttons[e]]
  BY <1>3, <1>5
<1>7. /\ \A d : d \in DOMAIN t.buttons <=> d \in DOMAIN s.buttons /\ (d = id => s.buttons[id] > 1)
      /\ \A d \in DOMAIN t.buttons : t.buttons[d] = IF d = id THEN s.buttons[d] - 1 ELSE s.buttons[d]
      /\ t.buttons = [e \in DOMAIN t.buttons |-> t.buttons[e]]
  BY <1>6
<1> HIDE DEF t
<1>8. \A d \in DOMAIN t.buttons : t.buttons[d] \in Nat \ {0}
  BY <1>2, <1>7
<1>9. HasButtons(t)
  BY <1>7, <1>8 DEF HasButtons
<1> QED BY <1>7, <1>9 DEF t

\* A selector of a page that shows the modules `ids`: each has a button; at most one
\* module object is selected, it has a button and its fields are shown; and of the objects
\* whose fields are shown the others are replaced.
Selects(s, ids) ==
  /\ s = [buttons |-> s.buttons, current |-> s.current, container |-> s.container]
  /\ HasButtons(s)
  /\ ids \subseteq DOMAIN s.buttons
  /\ s.current \subseteq s.container
  /\ \A m, n \in s.current : m = n
  /\ \A m \in s.current :
       \/ \E id \in ids : m = <<id, "held">>
       \/ \E id \in DOMAIN s.buttons : m = <<id, "old">> /\ (id \in ids => s.buttons[id] > 1)
  /\ \A m \in s.container \ s.current : m[2] = "old"

LEMMA AddedSelects ==
  ASSUME NEW s, NEW ids, Selects(s, ids), NEW new, new # {} => Min(new) \in new
  PROVE  Selects(OnModulesAdded(s, new), ids \cup new)
<1> DEFINE Replaced(m) == IF m[1] \in new THEN <<m[1], "old">> ELSE m
           picks    == s.current = {} /\ new # {}
           selected == IF picks THEN {<<Min(new), "held">>} ELSE {Replaced(m) : m \in s.current}
           t        == OnModulesAdded(s, new)
<1>1. /\ t = [buttons   |-> s.buttons (+) SetToBag(new), current |-> selected,
              container |-> IF picks THEN selected ELSE {Replaced(m) : m \in s.container}]
  BY DEF OnModulesAdded
<1>2. /\ t.buttons = s.buttons (+) SetToBag(new) /\ t.current = selected
      /\ t.container = IF picks THEN selected ELSE {Replaced(m) : m \in s.container}
      /\ t = [buttons |-> t.buttons, current |-> t.current, container |-> t.container]
  BY <1>1
<1>3. /\ DOMAIN t.buttons = DOMAIN s.buttons \cup new
      /\ \A i \in DOMAIN t.buttons :
           t.buttons[i] = (IF i \in DOMAIN s.buttons THEN s.buttons[i] ELSE 0)
                          + (IF i \in new THEN 1 ELSE 0)
      /\ HasButtons(t)
  BY ButtonsAdded DEF Selects
<1> SUFFICES Selects(t, ids \cup new)
  OBVIOUS
<1> HIDE DEF t
<1>4. ids \cup new \subseteq DOMAIN t.buttons
  BY <1>3 DEF Selects
<1>5. CASE picks
  <2>1. Min(new) \in new
    BY <1>5
  <2>2. t.current = {<<Min(new), "held">>} /\ t.container = t.current
    BY <1>2, <1>5
  <2> QED BY <1>2, <1>3, <1>4, <2>1, <2>2 DEF Selects
<1>6. CASE ~picks
  <2>1. t.current = {Replaced(m) : m \in s.current} /\ t.container = {Replaced(m) : m \in s.container}
    BY <1>2, <1>6
  <2>2. t.current \subseteq t.container
    BY <2>1 DEF Selects
  <2>3. \A m, n \in t.current : m = n
    BY <2>1 DEF Selects
  <2>4. \A m \in t.container \ t.current : m[2] = "old"
    <3>1. ASSUME NEW m \in s.container, m \notin s.current
          PROVE  Replaced(m)[2] = "old"
      BY <3>1 DEF Selects
    <3> QED BY <2>1, <3>1
  <2>5. ASSUME NEW m \in s.current
        PROVE  \/ \E id \in ids \cup new : Replaced(m) = <<id, "held">>
               \/ \E id \in DOMAIN t.buttons : Replaced(m) = <<id, "old">>
                    /\ (id \in ids \cup new => t.buttons[id] > 1)
    <3>1. CASE \E id \in ids : m = <<id, "held">>
      <4>1. PICK id \in ids : m = <<id, "held">>
        BY <3>1
      <4>2. id \in DOMAIN s.buttons /\ s.buttons[id] \in Nat \ {0}
        BY <4>1 DEF Selects, HasButtons
      <4>3. CASE id \in new
        <5>1. t.buttons[id] = s.buttons[id] + 1
          BY <1>3, <4>2, <4>3
        <5> QED BY <1>3, <4>1, <4>2, <4>3, <5>1
      <4>4. CASE id \notin new
        BY <4>1, <4>4
      <4> QED BY <4>3, <4>4
    <3>2. CASE \E id \in DOMAIN s.buttons : m = <<id, "old">> /\ (id \in ids => s.buttons[id] > 1)
      <4>1. PICK id \in DOMAIN s.buttons : m = <<id, "old">> /\ (id \in ids => s.buttons[id] > 1)
        BY <3>2
      <4>2. s.buttons[id] \in Nat \ {0}
        BY DEF Selects, HasButtons
      <4>3. Replaced(m) = <<id, "old">>
        BY <4>1
      <4>4. id \in ids \cup new => t.buttons[id] > 1
        BY <1>3, <4>1, <4>2
      <4> QED BY <1>3, <4>3, <4>4
    <3> QED BY <3>1, <3>2 DEF Selects
  <2>6. \A m \in t.current :
          \/ \E id \in ids \cup new : m = <<id, "held">>
          \/ \E id \in DOMAIN t.buttons : m = <<id, "old">>
               /\ (id \in ids \cup new => t.buttons[id] > 1)
    <3> HIDE DEF Replaced
    <3> QED BY ONLY <2>1, <2>5
  <2> QED BY ONLY <1>2, <1>3, <1>4, <2>2, <2>3, <2>4, <2>6 DEF Selects
<1> QED BY <1>5, <1>6

LEMMA RemovedSelects ==
  ASSUME NEW s, NEW ids, Selects(s, ids), NEW id
  PROVE  Selects(OnModuleRemoved(s, ids, id), ids \ {id})
<1> DEFINE t == OnModuleRemoved(s, ids, id)
<1>1. CASE id \notin ids
  <2>1. /\ t.buttons = s.buttons /\ t.current = s.current /\ ids \ {id} = ids
        /\ t.container = IF s.current = {} THEN {} ELSE s.container
        /\ t = [buttons |-> t.buttons, current |-> t.current, container |-> t.container]
    BY <1>1 DEF OnModuleRemoved, Selects
  <2> HIDE DEF t
  <2> SUFFICES Selects(t, ids)
    BY <2>1 DEF t
  <2> QED BY <2>1 DEF Selects, HasButtons
<1>2. CASE id \in ids
  <2>1. t = [buttons   |-> s.buttons (-) SetToBag({id}), current |-> s.current \ {<<id, "held">>},
             container |-> IF <<id, "held">> \in s.current THEN {} ELSE s.container]
    BY <1>2 DEF OnModuleRemoved
  <2>2. /\ t.buttons = s.buttons (-) SetToBag({id}) /\ t.current = s.current \ {<<id, "held">>}
        /\ t.container = IF <<id, "held">> \in s.current THEN {} ELSE s.container
        /\ t = [buttons |-> t.buttons, current |-> t.current, container |-> t.container]
    BY <2>1
  <2>3. HasButtons(s) /\ id \in DOMAIN s.buttons /\ ids \subseteq DOMAIN s.buttons
    BY <1>2 DEF Selects
  <2>5. /\ \A d : d \in DOMAIN t.buttons <=> d \in DOMAIN s.buttons /\ (d = id => s.buttons[id] > 1)
        /\ \A d \in DOMAIN t.buttons : t.buttons[d] = IF d = id THEN s.buttons[d] - 1 ELSE s.buttons[d]
        /\ HasButtons(t)
    BY <1>2, <2>3, ButtonsRemoved
  <2> SUFFICES Selects(t, ids \ {id})
    OBVIOUS
  <2> HIDE DEF t
  <2>7. ids \ {id} \subseteq DOMAIN t.buttons
    BY <2>3, <2>5
  <2>8. t.current \subseteq t.container /\ \A m, n \in t.current : m = n
    BY <2>2 DEF Selects
  <2>9. \A m \in t.container \ t.current : m[2] = "old"
    BY <2>2 DEF Selects
  <2>10. ASSUME NEW m \in t.current
         PROVE  \/ \E i \in ids \ {id} : m = <<i, "held">>
                \/ \E i \in DOMAIN t.buttons : m = <<i, "old">> /\ (i \in ids \ {id} => t.buttons[i] > 1)
    <3>1. m \in s.current /\ m # <<id, "held">>
      BY <2>2
    <3>2. CASE \E i \in ids : m = <<i, "held">>
      BY <3>1, <3>2
    <3>3. CASE \E i \in DOMAIN s.buttons : m = <<i, "old">> /\ (i \in ids => s.buttons[i] > 1)
      <4>1. PICK i \in DOMAIN s.buttons : m = <<i, "old">> /\ (i \in ids => s.buttons[i] > 1)
        BY <3>3
      <4>2. i \in DOMAIN t.buttons
        BY <1>2, <2>5, <4>1
      <4>3. i \in ids \ {id} => t.buttons[i] > 1
        BY <2>5, <4>1, <4>2
      <4> QED BY <4>1, <4>2, <4>3
    <3> QED BY <3>1, <3>2, <3>3 DEF Selects
  <2> QED BY ONLY <2>2, <2>5, <2>7, <2>8, <2>9, <2>10 DEF Selects
<1> QED BY <1>1, <1>2

\* The entries of a list on its way to a page are modules with ids of the counter.
IdsInLists ==
  \A r \in Requester : \A m \in answer[r] \cup Range(inbox[r]) :
    m.type = "module_list" => Listed(m) \subseteq Nat

LEMMA IdsInListsStep ==
  ASSUME Basis, IdsInLists, [WebNext]_webVars
  PROVE  IdsInLists'
<1>0. TypeOK /\ RequestsAccounted /\ [OpenNext]_vars
  BY WebIsOpen DEF Basis
<1>1. Listed(CreateModuleList(modules)) \subseteq Nat
  <2>1. DOMAIN modules \subseteq Nat
    <3>1. idCounter \in Nat /\ DOMAIN modules \subseteq 0..(idCounter - 1)
      BY <1>0 DEF TypeOK, ModulesTypeOK
    <3> QED BY <3>1
  <2> QED BY <2>1 DEF Listed, CreateModuleList
<1>2. Empty.type # "module_list"
  BY DEF Empty
<1>3. ASSUME NEW r \in Requester, NEW m \in answer'[r], m.type = "module_list"
      PROVE  Listed(m) \subseteq Nat
  BY <1>0, <1>1, <1>2, <1>3, AnswerSteps DEF IdsInLists
<1>4. ASSUME NEW m \in PushedMsg
      PROVE  m.type # "module_list"
  BY DEF PushedMsg, AddedMsg, RemovedMsg, UpdateMsg
<1>5. ASSUME NEW r \in Requester, NEW m \in Range(inbox'[r]), m.type = "module_list"
      PROVE  Listed(m) \subseteq Nat
  BY <1>4, <1>5, Arrivals DEF IdsInLists
<1> QED BY <1>3, <1>5 DEF IdsInLists

LEMMA SelectsStep ==
  ASSUME Basis, IdsInLists, Selects(selector, DOMAIN tabs), [WebNext]_webVars
  PROVE  Selects(selector, DOMAIN tabs)'
<1>0. SocketsInv /\ tabs \in Tabs /\ inbox \in [Requester -> Seq(Message)]
  BY DEF Basis, PageType
<1>1. CASE UNCHANGED <<tabs, selector>>
  BY <1>1
<1>2. ASSUME NEW container, tabs' = <<>>, selector' = NoSelection(container),
             \A module \in container : module[2] = "old"
      PROVE  Selects(selector, DOMAIN tabs)'
  <2>1. selector' = [buttons |-> EmptyBag, current |-> {}, container |-> container]
    BY <1>2 DEF NoSelection
  <2>2. DOMAIN tabs' = {}
    BY <1>2
  <2>3. DOMAIN EmptyBag = {} /\ EmptyBag \in [DOMAIN EmptyBag -> Nat \ {0}]
    BY DEF EmptyBag, SetToBag
  <2>4. /\ selector'.buttons = EmptyBag /\ selector'.current = {} /\ selector'.container = container
    BY <2>1
  <2> QED BY <1>2, <2>1, <2>2, <2>3, <2>4 DEF Selects, HasButtons
<1>3. ASSUME NEW r \in Requester, OnDisconnected(r)
      PROVE  Selects(selector, DOMAIN tabs)'
  BY <1>2, <1>3 DEF OnDisconnected, Clear
<1>4. CASE Leaves
  BY <1>2, <1>4 DEF Leaves
<1>5. ASSUME NEW r \in Requester, OnWsMessage(r)
      PROVE  Selects(selector, DOMAIN tabs)'
  <2>1. PICK json : /\ json = Head(inbox[r]) /\ inbox[r] # <<>>
                    /\ tabs' = OnMessage(tabs, json) /\ selector' = Select(json)
    BY <1>5 DEF OnWsMessage
  <2>2. json \in Range(inbox[r]) /\ json \in Message
    BY <1>0, <2>1, MembersOf
  <2>3. CASE json.type = "module_added"
    <3>1. Min({json.id}) \in {json.id}
      <4>1. json.id \in Int
        BY <2>2, <2>3 DEF Message, Response, PushedMsg, AddedMsg, RemovedMsg, UpdateMsg, ListMsg, EmptyMsg
      <4>2. PICK i \in Int : i = json.id
        BY <4>1
      <4>3. Min({i}) \in {i}
        BY DEF Min
      <4> QED BY <4>2, <4>3
    <3>2. selector' = OnModulesAdded(selector, {json.id})
      BY <2>1, <2>3 DEF Select
    <3>3. DOMAIN tabs' = DOMAIN tabs \cup {json.id}
      BY <2>1, <2>3, MessageShows
    <3> QED BY <3>1, <3>2, <3>3, AddedSelects
  <2>4. CASE json.type = "module_list"
    <3>1. Listed(json) \in SUBSET Nat
      BY <2>2, <2>4 DEF IdsInLists
    <3>2. selector' = OnModulesAdded(selector, Listed(json))
      BY <2>1, <2>4 DEF Select, Listed
    <3>3. DOMAIN tabs' = DOMAIN tabs \cup Listed(json)
      BY <2>1, <2>4, MessageShows
    <3> QED BY <3>1, <3>2, <3>3, AddedSelects, MinOf
  <2>5. CASE json.type = "module_removed"
    <3>1. selector' = OnModuleRemoved(selector, DOMAIN tabs, json.id)
      BY <2>1, <2>5 DEF Select
    <3>2. DOMAIN tabs' = DOMAIN tabs \ {json.id}
      BY <2>1, <2>5, MessageShows
    <3> QED BY <3>1, <3>2, RemovedSelects
  <2>6. CASE json.type \notin {"module_added", "module_removed", "module_list"}
    <3>1. selector' = selector
      BY <2>1, <2>6 DEF Select
    <3>2. DOMAIN tabs' = DOMAIN tabs
      BY <2>1, <2>6, MessageShows
    <3> QED BY <3>1, <3>2
  <2> QED BY <2>3, <2>4, <2>5, <2>6
<1>6. CASE UserStep
  <2>1. ASSUME NEW id, NEW kind, Acts(id, kind)
        PROVE  selector' = selector
    BY <2>1 DEF Acts
  <2>2. ASSUME NEW module \in Buttons, SelectModule(module)
        PROVE  Selects(selector, DOMAIN tabs)'
    <3>1. selector' = [selector EXCEPT !.current = {module}, !.container = {module}] /\ tabs' = tabs
      BY <2>2 DEF SelectModule
    <3>2. /\ selector'.buttons = selector.buttons
          /\ selector'.current = {module} /\ selector'.container = {module}
          /\ selector' = [buttons |-> selector'.buttons, current |-> selector'.current,
                          container |-> selector'.container]
      BY <3>1 DEF Selects, HasButtons
    <3>3. \/ \E id \in DOMAIN tabs : module = <<id, "held">>
          \/ \E id \in DOMAIN selector.buttons :
               module = <<id, "old">> /\ (id \in DOMAIN tabs => selector.buttons[id] > 1)
      BY DEF Buttons, ButtonsOf, BagIn, BagToSet
    <3> QED BY <3>1, <3>2, <3>3 DEF Selects, HasButtons
  <2>3. ASSUME selector' = selector, DOMAIN tabs' = DOMAIN tabs
        PROVE  Selects(selector, DOMAIN tabs)'
    BY <2>3
  <2>4. ASSUME NEW id \in DOMAIN tabs,
               OnPropertiesActivated(id) \/ \E k \in DOMAIN tabs[id] : Writes(id, k) \/ OnPropertyActivated(id, k)
        PROVE  selector' = selector /\ DOMAIN tabs' = DOMAIN tabs
    BY <2>1, <2>4 DEF OnPropertiesActivated, Writes, OnPropertyActivated
  <2> QED BY <1>6, <2>2, <2>3, <2>4 DEF UserStep
<1>7. CASE (InstanceStep /\ PageKept) \/ Runs \/ UNCHANGED webVars
  BY <1>1, <1>7 DEF PageKept, Runs, browser, webVars
<1>8. ASSUME NEW r \in Requester, Serves(r) \/ Makes(r) \/ OnConnected(r)
      PROVE  UNCHANGED <<tabs, selector>>
  BY <1>8 DEF Serves, Makes, Opens, CountdownEnds, OnClicked, CreateWs, OnConnected, browser
<1> QED BY <1>1, <1>3, <1>4, <1>5, <1>6, <1>7, <1>8, WebSteps

\* The module selected has a button and its fields are shown, and the fields of a module
\* that is gone or not selected are not (module.selector.js:45-98, web.app.js:23-26):
\* whatever is added, removed, clicked or cleared, and in whatever order.
THEOREM SelectionIsShown == WebSpec => []SelectedShown
<1>1. PageInit => Basis /\ IdsInLists /\ Selects(selector, DOMAIN tabs)
  <2> SUFFICES ASSUME PageInit PROVE Basis /\ IdsInLists /\ Selects(selector, DOMAIN tabs)
    OBVIOUS
  <2>1. Basis
    BY BasisInit
  <2>2. \A r \in Requester : answer[r] = {} /\ inbox[r] = <<>>
    BY DEF PageInit, WebInit, Init
  <2>3. IdsInLists
    BY <2>2, RangesOf DEF IdsInLists
  <2>4. selector = [buttons |-> EmptyBag, current |-> {}, container |-> {}] /\ tabs = <<>>
    BY DEF PageInit, NoSelection
  <2>5. DOMAIN EmptyBag = {} /\ EmptyBag \in [DOMAIN EmptyBag -> Nat \ {0}]
    BY DEF EmptyBag, SetToBag
  <2>6. selector.buttons = EmptyBag /\ selector.current = {} /\ selector.container = {} /\ DOMAIN tabs = {}
    BY <2>4
  <2> QED BY <2>1, <2>3, <2>4, <2>5, <2>6 DEF Selects, HasButtons
<1>2. Basis /\ IdsInLists /\ Selects(selector, DOMAIN tabs) /\ [WebNext]_webVars =>
        (Basis /\ IdsInLists /\ Selects(selector, DOMAIN tabs))'
  BY BasisStep, IdsInListsStep, SelectsStep
<1>3. Selects(selector, DOMAIN tabs) => SelectedShown
  <2> SUFFICES ASSUME Selects(selector, DOMAIN tabs) PROVE SelectedShown
    OBVIOUS
  <2>1. selector.buttons \in [DOMAIN selector.buttons -> Nat \ {0}] /\ DOMAIN tabs \subseteq DOMAIN selector.buttons
    BY DEF Selects, HasButtons
  <2>2. ASSUME NEW m \in selector.current
        PROVE  m \in Buttons
    <3>1. CASE \E id \in DOMAIN tabs : m = <<id, "held">>
      BY <2>1, <3>1 DEF Buttons, BagToSet
    <3>2. CASE \E id \in DOMAIN selector.buttons :
                 m = <<id, "old">> /\ (id \in DOMAIN tabs => selector.buttons[id] > 1)
      <4>1. PICK id \in DOMAIN selector.buttons :
                 m = <<id, "old">> /\ (id \in DOMAIN tabs => selector.buttons[id] > 1)
        BY <3>2
      <4>2. ButtonsOf(id) > IF id \in DOMAIN tabs THEN 1 ELSE 0
        BY <2>1, <4>1 DEF ButtonsOf, BagIn, BagToSet
      <4> QED BY <4>1, <4>2 DEF Buttons, BagToSet
    <3> QED BY <3>1, <3>2 DEF Selects, HasButtons
  <2> QED BY <2>2 DEF SelectedShown, Selects
<1> QED BY <1>1, <1>2, <1>3, PTL DEF WebSpec

-----------------------------------------------------------------------------
(* The tasks.                                                              *)

\* A task is posted by a call of the application, or for a request of the page.
PostedBy(task) ==
  \/ ProxyInitialized(TRUE) /\ task = [op |-> "OnProxyInitialized", host |-> TRUE]
  \/ \E t \in Thread, module \in Definition :
       RegisterModule(t, module) /\ task = [op |-> "DoRegisterModule", module |-> module, to |-> {t}]
  \/ \E t \in Thread, id \in DOMAIN modules :
       CallUnregisterModule(t, id) /\ task = [op |-> "UnregisterModule", id |-> id]
  \/ \E t \in Thread, id \in DOMAIN modules, list \in UpdateList :
       /\ UpdateProperties(t, id, list)
       /\ task = [op |-> "SavePropertiesList", id |-> id, properties |-> list]
  \/ \E t \in Thread :
       /\ UpdatePropertiesReturns(t)
       /\ task = [op  |-> "HandleMessage",
                  msg |-> CreatePropertyUpdated(app[t].id, app[t].properties)]
  \/ \E r \in Requester :
       /\ OnWsClientMessage(r) /\ sent[r] # <<>> /\ Head(sent[r]) \in Request
       /\ ProcessJSRequest(r, Head(sent[r]))
       /\ task = [op |-> "DoProcessJSRequest", json |-> Head(sent[r]), to |-> r]

\* What a step posts, and who posted a task that was not in the queue.
LEMMA PostSteps ==
  ASSUME Basis, [WebNext]_webVars
  PROVE  \/ Runs
         \/ UNCHANGED instance /\ loop' = loop
         \/ UNCHANGED instance /\ \E task \in Task : Post(task) /\ PostedBy(task)
<1>0. TypeOK
  BY DEF Basis
<1>4. CASE InstanceStep
  <2>0. UNCHANGED instance
    BY <1>4, InstanceKeeps
  <2>1. ASSUME ProxyInitialized(TRUE)
        PROVE  \E task \in Task : Post(task) /\ PostedBy(task)
    <3>1. [op |-> "OnProxyInitialized", host |-> TRUE] \in Task
      BY DEF Task
    <3>2. PICK task : task = [op |-> "OnProxyInitialized", host |-> TRUE]
      OBVIOUS
    <3>3. PostedBy(task)
      BY <2>1, <3>2 DEF PostedBy
    <3> QED BY <2>1, <3>1, <3>2, <3>3 DEF ProxyInitialized
  <2>2. CASE CallbackReturns
    BY <2>0, <2>2 DEF CallbackReturns
  <2>3. ASSUME NEW t \in Thread, NEW module \in Definition, RegisterModule(t, module)
        PROVE  \E task \in Task : Post(task) /\ PostedBy(task)
    <3>1. [op |-> "DoRegisterModule", module |-> module, to |-> {t}] \in Task
      BY ConstantsAssumption DEF Task
    <3>2. PICK task : task = [op |-> "DoRegisterModule", module |-> module, to |-> {t}]
      OBVIOUS
    <3>3. PostedBy(task)
      BY <2>3, <3>2 DEF PostedBy
    <3> QED BY <2>3, <3>1, <3>2, <3>3 DEF RegisterModule
  <2>4. ASSUME NEW t \in Thread, RegisterReturns(t)
        PROVE  loop' = loop
    BY <2>4 DEF RegisterReturns
  <2>5. ASSUME NEW t \in Thread, NEW id \in DOMAIN modules, CallUnregisterModule(t, id)
        PROVE  \E task \in Task : Post(task) /\ PostedBy(task)
    <3>1. [op |-> "UnregisterModule", id |-> id] \in Task
      BY <1>0 DEF Task, TypeOK, ModulesTypeOK
    <3>2. PICK task : task = [op |-> "UnregisterModule", id |-> id]
      OBVIOUS
    <3>3. PostedBy(task)
      BY <2>5, <3>2 DEF PostedBy
    <3> QED BY <2>5, <3>1, <3>2, <3>3 DEF CallUnregisterModule
  <2>6. ASSUME NEW t \in Thread, NEW id \in DOMAIN modules, NEW list \in UpdateList,
               UpdateProperties(t, id, list)
        PROVE  \E task \in Task : Post(task) /\ PostedBy(task)
    <3>1. [op |-> "SavePropertiesList", id |-> id, properties |-> list] \in Task
      BY <1>0, ConstantsAssumption DEF Task, TypeOK, ModulesTypeOK
    <3>2. PICK task : task = [op |-> "SavePropertiesList", id |-> id, properties |-> list]
      OBVIOUS
    <3>3. PostedBy(task)
      BY <2>6, <3>2 DEF PostedBy
    <3> QED BY <2>6, <3>1, <3>2, <3>3 DEF UpdateProperties
  <2>7. ASSUME NEW t \in Thread, UpdatePropertiesReturns(t)
        PROVE  \E task \in Task : Post(task) /\ PostedBy(task)
    <3>1. app[t].id \in Int /\ app[t].properties \in PropertyList
      BY <1>0, <2>7 DEF UpdatePropertiesReturns, Call, Idle, TypeOK, CallersTypeOK
    <3>2. [op |-> "HandleMessage", msg |-> CreatePropertyUpdated(app[t].id, app[t].properties)] \in Task
      BY <3>1, MessageTypes DEF Task
    <3>3. PICK task : task = [op |-> "HandleMessage", msg |-> CreatePropertyUpdated(app[t].id, app[t].properties)]
      OBVIOUS
    <3>4. PostedBy(task)
      BY <2>7, <3>3 DEF PostedBy
    <3> QED BY <2>7, <3>2, <3>3, <3>4 DEF UpdatePropertiesReturns
  <2>8. loop' = loop \/ \E task \in Task : Post(task) /\ PostedBy(task)
    BY <1>4, <2>1, <2>2, <2>3, <2>4, <2>5, <2>6, <2>7 DEF InstanceStep, CallbackReturns
  <2> QED BY <2>0, <2>8
<1>5. ASSUME NEW r \in Requester, Serves(r)
      PROVE  /\ UNCHANGED instance
             /\ \/ loop' = loop
                \/ \E task \in Task : Post(task) /\ PostedBy(task)
  <2>1. CASE OnWsClientConnected(r) \/ OnWsClientClosed(r) \/ Responds(r)
    BY <2>1 DEF OnWsClientConnected, OnWsClientClosed, Responds, RequestReturns, Outside, vars, instance, started
  <2>2. CASE OnWsClientMessage(r)
    <3>1. Head(sent[r]) \in Request /\ ProcessJSRequest(r, Head(sent[r])) /\ sent[r] # <<>>
      <4>1. sent[r] \in Seq(Request)
        BY DEF Basis, PageType
      <4> QED BY <2>2, <4>1, MembersOf DEF OnWsClientMessage
    <3>2. PICK task : task = [op |-> "DoProcessJSRequest", json |-> Head(sent[r]), to |-> r]
      OBVIOUS
    <3>3. task \in Task
      BY <3>1, <3>2 DEF Task
    <3>4. (Post(task) \/ loop' = loop) /\ UNCHANGED instance
      BY <3>1, <3>2 DEF ProcessJSRequest, Outside
    <3>5. PostedBy(task)
      BY <2>2, <3>1, <3>2 DEF PostedBy
    <3> QED BY <3>3, <3>4, <3>5
  <2> QED BY <1>5, <2>1, <2>2 DEF Serves
<1>6. ASSUME NEW r \in Requester, Makes(r) \/ OnConnected(r) \/ OnDisconnected(r) \/ OnWsMessage(r)
      PROVE  UNCHANGED instance /\ loop' = loop
  BY <1>6 DEF Makes, Opens, CountdownEnds, OnClicked, CreateWs, OnConnected, OnDisconnected,
     OnWsMessage, vars, instance, started
<1>7. CASE Leaves \/ UserStep \/ UNCHANGED webVars
  BY <1>7, UserKeeps DEF Leaves, webVars, vars, instance, started
<1> QED BY <1>4, <1>5, <1>6, <1>7, WebSteps

LEMMA PostsOf ==
  ASSUME Basis, [WebNext]_webVars, NEW task \in Tasks', task \notin Tasks
  PROVE  task \in Task /\ UNCHANGED instance /\ PostedBy(task)
<1>1. TypeOK /\ loop' # loop
  BY TasksOf DEF Basis
<1>2. ~Runs
  BY RunStep DEF Basis
<1>3. ASSUME NEW new \in Task, Post(new)
      PROVE  task = new
  BY <1>1, <1>3, TasksOf
<1> QED BY <1>1, <1>2, <1>3, PostSteps

-----------------------------------------------------------------------------
(* The host goes on.                                                       *)

\* A host has a link of its own before anything is asked of it, and nothing is passed to
\* it from another instance.
HostGoesOn ==
  /\ running # Crashed
  /\ serverImpl => proxy = "server"
  /\ \A task \in Tasks :
       /\ task.op \in {"OnProxyInitialized", "DoProcessJSRequest"} => proxy = "server"
       /\ task.op # "PassPropertyUpdateToModule"

LEMMA HostGoesOnStep ==
  ASSUME Basis, HostGoesOn, [WebNext]_webVars
  PROVE  HostGoesOn'
<1>0. TypeOK /\ SocketsInv /\ Listening
  BY DEF Basis
<1>1. CASE Runs
  <2>1. /\ Tasks' \subseteq Tasks /\ loop # <<>> /\ Head(loop) \in Tasks
    BY <1>0, <1>1, RunStep
  <2>2. proxy' = proxy
    BY <1>1 DEF Runs, RunTask, OnProxyInitialized, DoRegisterModule, UnregisterModule, SaveUpdate,
       PushUpdate, DoProcessJSRequest, PassPeerUpdate, Takes
  <2>3. serverImpl' => serverImpl \/ Head(loop).op = "OnProxyInitialized"
    BY <1>1 DEF Runs, RunTask, OnProxyInitialized, DoRegisterModule, UnregisterModule, SaveUpdate,
       PushUpdate, DoProcessJSRequest, PassPeerUpdate, Takes, started
  <2>4. running' # Crashed
    <3>1. CASE OnProxyInitialized \/ DoRegisterModule \/ UnregisterModule \/ SaveUpdate \/ PushUpdate
      BY <3>1 DEF OnProxyInitialized, DoRegisterModule, UnregisterModule, SaveUpdate, PushUpdate, HostGoesOn
    <3>2. ~PassPeerUpdate
      BY <2>1 DEF PassPeerUpdate, Takes, HostGoesOn
    <3>3. CASE DoProcessJSRequest
      <4>1. proxy = "server"
        BY <2>1, <3>3 DEF DoProcessJSRequest, Takes, HostGoesOn
      <4>2. \A id, to : [at |-> "callback", id |-> id, to |-> to] # Crashed
        BY DEF Crashed
      <4> QED BY <3>3, <4>1, <4>2 DEF DoProcessJSRequest, PassPropertyUpdateToModule, HostGoesOn
    <3> QED BY <1>1, <3>1, <3>2, <3>3 DEF Runs, RunTask
  <2> QED BY <2>1, <2>2, <2>3, <2>4 DEF HostGoesOn
<1>2. CASE ~Runs
  <2>1. running' # Crashed /\ UNCHANGED serverImpl /\ proxy' \in {proxy, "server"}
    <3>1. CASE InstanceStep
      <4>1. CASE CallbackReturns
        BY <4>1 DEF CallbackReturns, InCallback, started, Idle, Crashed
      <4>2. CASE ProxyInitialized(TRUE)
        BY <4>2 DEF ProxyInitialized, Outside, instance, started
      <4>3. ASSUME NEW t \in Thread,
                   \/ \E module \in Definition : RegisterModule(t, module)
                   \/ RegisterReturns(t)
                   \/ \E id \in DOMAIN modules : CallUnregisterModule(t, id)
                   \/ \E id \in DOMAIN modules, list \in UpdateList : UpdateProperties(t, id, list)
                   \/ UpdatePropertiesReturns(t)
            PROVE  UNCHANGED <<running, serverImpl, proxy>>
        BY <4>3 DEF RegisterModule, RegisterReturns, CallUnregisterModule, UpdateProperties,
           UpdatePropertiesReturns, Outside, instance, started
      <4> QED BY <3>1, <4>1, <4>2, <4>3 DEF InstanceStep, HostGoesOn
    <3>2. ASSUME NEW r \in Requester, Serves(r)
          PROVE  UNCHANGED <<running, serverImpl, proxy>>
      BY <3>2 DEF Serves, OnWsClientConnected, OnWsClientMessage, Responds, OnWsClientClosed,
         ProcessJSRequest, RequestReturns, Outside, instance, started, vars
    <3>3. ASSUME NEW r \in Requester, Makes(r) \/ OnConnected(r) \/ OnDisconnected(r) \/ OnWsMessage(r)
          PROVE  UNCHANGED vars
      BY <3>3 DEF Makes, Opens, CountdownEnds, OnClicked, CreateWs, OnConnected, OnDisconnected, OnWsMessage
    <3>4. CASE Leaves \/ UNCHANGED webVars \/ UserStep
      BY <3>4, UserKeeps DEF Leaves, webVars, vars, HostGoesOn
    <3> QED BY <1>2, <3>1, <3>2, <3>3, <3>4, WebSteps DEF vars, HostGoesOn
  <2>2. ASSUME NEW task \in Tasks', task \notin Tasks
        PROVE  /\ task.op \in {"OnProxyInitialized", "DoProcessJSRequest"} => proxy' = "server"
               /\ task.op # "PassPropertyUpdateToModule"
    <3>1. ASSUME NEW r \in Requester, NEW json, ProcessJSRequest(r, json)
          PROVE  proxy' = "server"
      BY <3>1 DEF ProcessJSRequest, HostGoesOn
    <3>2. ProxyInitialized(TRUE) => proxy' = "server"
      BY DEF ProxyInitialized
    <3>3. \/ ProxyInitialized(TRUE) /\ task.op = "OnProxyInitialized"
          \/ task.op \in {"DoRegisterModule", "UnregisterModule", "SavePropertiesList", "HandleMessage"}
          \/ \E r \in Requester : ProcessJSRequest(r, Head(sent[r])) /\ task.op = "DoProcessJSRequest"
      <4>1. /\ \A host : [op |-> "OnProxyInitialized", host |-> host].op = "OnProxyInitialized"
            /\ \A module, to : [op |-> "DoRegisterModule", module |-> module, to |-> to].op = "DoRegisterModule"
            /\ \A id : [op |-> "UnregisterModule", id |-> id].op = "UnregisterModule"
            /\ \A id, list : [op |-> "SavePropertiesList", id |-> id, properties |-> list].op = "SavePropertiesList"
            /\ \A msg : [op |-> "HandleMessage", msg |-> msg].op = "HandleMessage"
            /\ \A json, to : [op |-> "DoProcessJSRequest", json |-> json, to |-> to].op = "DoProcessJSRequest"
        OBVIOUS
      <4>2. PostedBy(task)
        BY <2>2, PostsOf
      <4> QED BY ONLY <4>1, <4>2, Zenon DEF PostedBy
    <3>4. task.op # "PassPropertyUpdateToModule"
      BY <3>3
    <3> QED BY <3>1, <3>2, <3>3, <3>4
  <2> QED BY <2>1, <2>2 DEF HostGoesOn
<1> QED BY <1>1, <1>2

LEMMA HostGoesOnInit == PageInit => HostGoesOn
<1> SUFFICES ASSUME PageInit PROVE HostGoesOn
  OBVIOUS
<1>1. Tasks = {}
  BY NoTasks DEF PageInit, WebInit, Init
<1> QED BY <1>1 DEF PageInit, WebInit, Init, HostGoesOn, Idle, Crashed

\* A web server the application threads and the pages use, alone or several at once, never
\* takes the process down with it: it has a ProxyServer before anything is asked of it
\* (ModuleManager.cpp:212-230, Proxy.cpp:95-108).
THEOREM HostNeverCrashes == WebSpec => [](running # Crashed)
<1>1. PageInit => Basis /\ HostGoesOn
  BY BasisInit, HostGoesOnInit
<1>2. Basis /\ HostGoesOn /\ [WebNext]_webVars => (Basis /\ HostGoesOn)'
  BY BasisStep, HostGoesOnStep
<1>3. HostGoesOn => running # Crashed
  BY DEF HostGoesOn
<1> QED BY <1>1, <1>2, <1>3, PTL DEF WebSpec

-----------------------------------------------------------------------------
(* One list for each socket.                                               *)

\* Of the members of a sequence at most one is in S.
Once(s, S) == \A i, j \in 1..Len(s) : s[i] \in S /\ s[j] \in S => i = j

LEMMA OnceInEmpty == \A S : Once(<<>>, S)
<1>1. Len(<<>>) = 0 /\ 1..0 = {}
  BY EmptySeq
<1> QED BY <1>1 DEF Once

LEMMA OnceAppend ==
  ASSUME NEW M, NEW s \in Seq(M), NEW x \in M, NEW S, Once(s, S),
         x \in S => Range(s) \cap S = {}
  PROVE  Once(Append(s, x), S)
<1>1. /\ Append(s, x) \in Seq(M) /\ Len(Append(s, x)) = Len(s) + 1 /\ Len(s) \in Nat
      /\ \A i \in 1..Len(s) : Append(s, x)[i] = s[i]
      /\ Append(s, x)[Len(s) + 1] = x
  BY AppendProperties, LenProperties
<1>2. \A i \in 1..Len(s) : s[i] \in Range(s)
  BY MembersOf
<1>3. ASSUME NEW i \in 1..(Len(s) + 1), NEW j \in 1..(Len(s) + 1),
             Append(s, x)[i] \in S, Append(s, x)[j] \in S
      PROVE  i = j
  <2>1. i \in 1..Len(s) \/ i = Len(s) + 1
    BY <1>1
  <2>2. j \in 1..Len(s) \/ j = Len(s) + 1
    BY <1>1
  <2> QED BY <1>1, <1>2, <1>3, <2>1, <2>2 DEF Once
<1> QED BY <1>1, <1>3 DEF Once

LEMMA OnceTail ==
  ASSUME NEW M, NEW s \in Seq(M), s # <<>>, NEW S, Once(s, S)
  PROVE  /\ Once(Tail(s), S)
         /\ Head(s) \in S => Range(Tail(s)) \cap S = {}
<1>1. /\ Tail(s) \in Seq(M) /\ Len(Tail(s)) = Len(s) - 1 /\ Len(s) \in Nat \ {0}
      /\ \A i \in 1..(Len(s) - 1) : Tail(s)[i] = s[i + 1]
      /\ Head(s) = s[1]
  BY HeadTailProperties, LenProperties, EmptySeq
<1>2. ASSUME NEW i \in 1..(Len(s) - 1), NEW j \in 1..(Len(s) - 1), Tail(s)[i] \in S, Tail(s)[j] \in S
      PROVE  i = j
  <2>1. i + 1 \in 1..Len(s) /\ j + 1 \in 1..Len(s)
    BY <1>1
  <2>2. i + 1 = j + 1
    BY <1>1, <1>2, <2>1 DEF Once
  <2> QED BY <2>2
<1>3. Range(Tail(s)) = {Tail(s)[i] : i \in 1..(Len(s) - 1)}
  <2>1. \A u \in Seq(M) : Range(u) = {u[i] : i \in 1..Len(u)}
    BY MembersOf
  <2> QED BY <1>1, <2>1
<1>4. ASSUME Head(s) \in S, NEW i \in 1..(Len(s) - 1), Tail(s)[i] \in S
      PROVE  FALSE
  <2>1. i + 1 \in 1..Len(s) /\ 1 \in 1..Len(s) /\ i + 1 # 1
    BY <1>1
  <2> QED BY <1>1, <1>4, <2>1 DEF Once
<1> QED BY <1>1, <1>2, <1>3, <1>4 DEF Once

\* The list is made for a load request that was waiting.
LEMMA ListsAreAskedFor ==
  ASSUME Basis, HostGoesOn, [WebNext]_webVars, NEW r \in Requester, NEW m \in answer'[r], m \notin answer[r],
         m.type = "module_list"
  PROVE  /\ Runs /\ LoadTask(r) \in Tasks /\ m = CreateModuleList(modules)
         /\ answer[r] = {} /\ answer'[r] = {m} /\ out' = Silent /\ modules' = modules
<1>0. TypeOK /\ RequestsAccounted /\ [OpenNext]_vars /\ answer \in [Requester -> SUBSET Response]
  BY WebIsOpen DEF Basis, TypeOK, CallersTypeOK
<1>1. Empty.type # "module_list"
  BY DEF Empty
<1>2. /\ answer[r] = {} /\ answer'[r] = {m} /\ m = CreateModuleList(modules) /\ out' = Silent
      /\ modules' = modules
  BY <1>0, <1>1, AnswerSteps
<1>3. Runs
  <2>1. ASSUME InstanceStep
        PROVE  answer'[r] = answer[r] \/ Empty \in answer'[r]
    <3>1. answer' = answer \/ CallbackReturns
      BY <2>1 DEF InstanceStep, ProxyInitialized, RegisterModule, RegisterReturns, CallUnregisterModule,
         UpdateProperties, UpdatePropertiesReturns, promises
    <3> QED BY <1>0, <3>1 DEF CallbackReturns, Answer
  <2>2. ASSUME NEW q \in Requester, Serves(q)
        PROVE  answer'[r] = answer[r] \/ Empty \in answer'[r] \/ answer'[r] = {}
    <3>1. CASE OnWsClientConnected(q) \/ OnWsClientClosed(q)
      BY <3>1 DEF OnWsClientConnected, OnWsClientClosed, vars
    <3>2. CASE Responds(q)
      BY <1>0, <3>2 DEF Responds, RequestReturns
    <3>3. CASE OnWsClientMessage(q)
      BY <1>0, <3>3 DEF OnWsClientMessage, ProcessJSRequest, Answer
    <3> QED BY <2>2, <3>1, <3>2, <3>3 DEF Serves
  <2>3. ASSUME NEW q \in Requester, Makes(q) \/ OnConnected(q) \/ OnDisconnected(q) \/ OnWsMessage(q)
        PROVE  answer' = answer
    BY <2>3 DEF Makes, Opens, CountdownEnds, OnClicked, CreateWs, OnConnected, OnDisconnected, OnWsMessage, vars
  <2>4. CASE Leaves \/ UNCHANGED webVars \/ UserStep
    <3>1. answer' = answer
      BY <2>4, UserKeeps DEF Leaves, webVars, vars
    <3> QED BY <1>2, <3>1
  <2> QED BY <1>1, <1>2, <2>1, <2>2, <2>3, <2>4, WebSteps
<1>4. DoProcessJSRequest
  <2>1. ~(OnProxyInitialized \/ DoRegisterModule \/ UnregisterModule \/ SaveUpdate \/ PushUpdate)
    BY <1>2 DEF OnProxyInitialized, DoRegisterModule, UnregisterModule, SaveUpdate, PushUpdate, promises
  <2>2. ~PassPeerUpdate
    <3>1. TypeOK /\ Runs => Head(loop) \in Tasks
      BY <1>3, RunStep DEF Basis
    <3> QED BY <1>0, <1>3, <3>1 DEF PassPeerUpdate, Takes, HostGoesOn
  <2> QED BY <1>3, <2>1, <2>2 DEF Runs, RunTask
<1>5. Head(loop) \in Tasks /\ Head(loop) \in Task /\ Head(loop).op = "DoProcessJSRequest"
  <2>1. Head(loop) \in Tasks
    BY <1>3, RunStep DEF Basis
  <2> QED BY <1>0, <1>4, <2>1, TasksOf DEF DoProcessJSRequest, Takes
<1>6. /\ Head(loop) = [op |-> "DoProcessJSRequest", json |-> Head(loop).json, to |-> Head(loop).to]
      /\ Head(loop).json \in Request /\ Head(loop).to \in Requester
  BY <1>5 DEF Task
<1>7. Head(loop).json.type # "apply"
  <2>1. ASSUME PassPropertyUpdateToModule(Head(loop).json, {Head(loop).to})
        PROVE  answer'[r] = answer[r] \/ answer'[r] = {Empty}
    BY <1>0, <2>1 DEF PassPropertyUpdateToModule, Answer
  <2>2. ASSUME Head(loop).json.type = "apply"
        PROVE  PassPropertyUpdateToModule(Head(loop).json, {Head(loop).to})
    BY <1>4, <2>2 DEF DoProcessJSRequest
  <2> QED BY <1>1, <1>2, <2>1, <2>2
<1>8. Answer({Head(loop).to}, IF Head(loop).json.type = "load" THEN CreateModuleList(modules) ELSE Empty)
  BY <1>4, <1>7 DEF DoProcessJSRequest
<1>9. r = Head(loop).to /\ Head(loop).json.type = "load"
  <2>1. answer'[r] = answer[r] \/ r = Head(loop).to
    BY <1>0, <1>8 DEF Answer
  <2>2. Head(loop).json.type # "load" => answer'[r] = answer[r] \/ answer'[r] = {Empty}
    BY <1>0, <1>8 DEF Answer
  <2> QED BY <1>1, <1>2, <2>1, <2>2
<1>10. Head(loop).json = CreateLoadModules
  BY <1>6, <1>9 DEF Request, ApplyMsg, LoadMsg, Malformed, UnknownType, CreateLoadModules
<1>11. LoadTask(r) = Head(loop)
  BY <1>6, <1>9, <1>10 DEF LoadTask
<1> QED BY <1>2, <1>3, <1>5, <1>11

\* What is on its way to the server: the server reads it, the user sends a change, a
\* socket that opens asks for the list, and what is not read is lost with the socket.
LEMMA SentOf ==
  ASSUME Basis, [WebNext]_webVars, NEW r \in Requester
  PROVE  \/ sent'[r] = sent[r]
         \/ sent'[r] = <<>> /\ socket[r] = "closed" /\ socket'[r] = "none"
         \/ UserStep /\ socket[r] = "open" /\ \E msg \in ApplyMsg : sent'[r] = Append(sent[r], msg)
         \/ \E q \in Requester : /\ OnConnected(q) /\ r \in websocket /\ socket'[r] = "open"
                                 /\ sent'[r] = Append(sent[r], CreateLoadModules)
         \/ OnWsClientMessage(r) /\ sent[r] # <<>> /\ sent'[r] = Tail(sent[r])
<1>0. sent \in [Requester -> Seq(Request)] /\ socket \in [Requester -> SocketState]
  BY DEF Basis, PageType, SocketsInv
<1>1. CASE (InstanceStep /\ PageKept) \/ Runs \/ UNCHANGED webVars
  BY <1>1 DEF PageKept, net, Runs, webVars
<1>2. CASE UserStep
  <2>1. sent' = sent \/ \E msg \in ApplyMsg : Send(msg)
    BY <1>2, UserSendsApplies DEF Basis, PageType
  <2>2. socket' = socket
    BY <1>2, UserKeeps
  <2> QED BY <1>2, <2>1, <2>2 DEF Send
<1>3. ASSUME NEW q \in Requester, Serves(q)
      PROVE  \/ sent'[r] = sent[r]
             \/ sent'[r] = <<>> /\ socket[r] = "closed" /\ socket'[r] = "none"
             \/ OnWsClientMessage(r) /\ sent[r] # <<>> /\ sent'[r] = Tail(sent[r])
  BY <1>0, <1>3 DEF Serves, OnWsClientConnected, OnWsClientMessage, Responds, OnWsClientClosed
<1>4. ASSUME NEW q \in Requester, Makes(q) \/ OnWsMessage(q)
      PROVE  sent' = sent
  BY <1>4 DEF Makes, Opens, CountdownEnds, OnClicked, CreateWs, OnWsMessage
<1>5. ASSUME NEW q \in Requester, OnConnected(q)
      PROVE  \/ sent'[r] = sent[r]
             \/ r \in websocket /\ socket'[r] = "open" /\ sent'[r] = Append(sent[r], CreateLoadModules)
  BY <1>5 DEF OnConnected, Send
<1>6. CASE Clears
  BY <1>6 DEF Clears, Leaves, OnDisconnected, Forgets
<1> QED BY <1>1, <1>2, <1>3, <1>4, <1>5, <1>6, WebSteps DEF Clears

\* Each socket asks for the list once: what has not opened has sent nothing; of an open
\* one the request is on its way, or a task, or the list is made, and nothing lists the
\* modules before.
AsksOnce ==
  \A r \in Requester :
    /\ socket[r] \notin {"open", "closed"} => sent[r] = <<>>
    /\ r \in listed => socket[r] = "open"
    /\ Reaches(r) => \A m \in answer[r] \cup Range(inbox[r]) : m.type = "module_list" => r \in listed
    /\ ~several /\ socket[r] = "open" =>
         /\ Once(sent[r], {CreateLoadModules})
         /\ LoadTask(r) \in Tasks \/ r \in listed => CreateLoadModules \notin Range(sent[r])
         /\ r \in listed => LoadTask(r) \notin Tasks

\* How the state of a socket, and what is remembered of it, changes.
LEMMA SocketOf ==
  ASSUME SocketsInv, [WebNext]_webVars, ~Clears, NEW r \in Requester
  PROVE  /\ \/ socket'[r] = socket[r]
            \/ Makes(r) /\ Live' = Live \cup {r} /\ socket[r] = "none" /\ socket'[r] = "opening"
            \/ OnWsClientConnected(r) /\ socket[r] = "opening" /\ socket'[r] = "connecting"
            \/ OnConnected(r) /\ socket[r] = "connecting" /\ socket'[r] = "open"
            \/ socket[r] = "closed" /\ socket'[r] = "none"
         /\ Live \subseteq Live'
         /\ several' = several \/ (several' = (several \/ Live # {}) /\ \E q \in Requester : Makes(q))
         /\ \/ UNCHANGED <<listed, early>>
            \/ /\ Runs /\ early[r] \subseteq early'[r]
               /\ listed' = listed \cup {q \in Requester : Listing(q)' /\ Reaches(q)}
<1>0. socket \in [Requester -> SocketState]
  BY DEF SocketsInv
<1>1. CASE InstanceStep /\ PageKept
  BY <1>1 DEF PageKept, net, past, Live
<1>2. CASE Runs
  <2>1. early[r] \subseteq early'[r] /\ UNCHANGED <<socket, several>>
    BY <1>2 DEF Runs, Remembers
  <2> QED BY <1>2, <2>1 DEF Runs, Remembers, Live
<1>3. CASE UserStep
  BY <1>3, UserKeeps DEF Live
<1>4. ASSUME NEW q \in Requester, Serves(q)
      PROVE  /\ \/ socket'[r] = socket[r]
                \/ OnWsClientConnected(r) /\ socket[r] = "opening" /\ socket'[r] = "connecting"
                \/ socket[r] = "closed" /\ socket'[r] = "none"
             /\ Live \subseteq Live' /\ UNCHANGED <<several, listed, early>>
  <2>1. CASE OnWsClientConnected(q)
    BY <1>0, <1>4, <2>1 DEF OnWsClientConnected, Serves, past, Live
  <2>2. CASE OnWsClientMessage(q) \/ Responds(q)
    BY <1>0, <1>4, <2>2 DEF OnWsClientMessage, Responds, Serves, past, Live
  <2>3. CASE OnWsClientClosed(q)
    BY <1>0, <1>4, <2>3 DEF OnWsClientClosed, Serves, past, Live
  <2> QED BY <1>4, <2>1, <2>2, <2>3 DEF Serves
<1>5. ASSUME NEW q \in Requester, Makes(q)
      PROVE  /\ \/ socket'[r] = socket[r]
                \/ Makes(r) /\ Live' = Live \cup {r} /\ socket[r] = "none" /\ socket'[r] = "opening"
             /\ Live \subseteq Live' /\ UNCHANGED <<listed, early>>
             /\ several' = (several \/ Live # {})
  <2>1. CreateWs(q)
    BY <1>5 DEF Makes, Opens, CountdownEnds, OnClicked
  <2>2. /\ socket[q] = "none" /\ socket' = [socket EXCEPT ![q] = "opening"]
        /\ UNCHANGED <<listed, early>> /\ several' = (several \/ Live # {})
    BY <2>1 DEF CreateWs
  <2>3. Live' = Live \cup {q}
    BY <1>0, <2>2 DEF Live
  <2> QED BY <1>0, <1>5, <2>2, <2>3
<1>6. ASSUME NEW q \in Requester, OnConnected(q)
      PROVE  /\ \/ socket'[r] = socket[r]
                \/ OnConnected(r) /\ socket[r] = "connecting" /\ socket'[r] = "open"
             /\ Live \subseteq Live' /\ UNCHANGED <<several, listed, early>>
  BY <1>0, <1>6 DEF OnConnected, past, Live
<1>7. ASSUME NEW q \in Requester, OnWsMessage(q)
      PROVE  UNCHANGED <<socket, several, listed, early>>
  BY <1>7 DEF OnWsMessage
<1>8. CASE UNCHANGED webVars
  BY <1>8 DEF webVars, net, past, Live
<1>9. UNCHANGED socket => Live' = Live
  BY DEF Live
<1> QED BY <1>1, <1>2, <1>3, <1>4, <1>5, <1>6, <1>7, <1>8, <1>9, WebSteps DEF Clears

\* A load request that is a task is the one its socket waits for.
LEMMA LoadWaits ==
  ASSUME NEW r \in Requester
  PROVE  /\ TypeOK /\ RequestsAccounted /\ running # Crashed /\ LoadTask(r) \in Tasks =>
              answer[r] = {} /\ request[r] = "waiting"
         /\ (TypeOK /\ RequestsAccounted /\ running # Crashed /\ LoadTask(r) \in Tasks)' =>
              answer'[r] = {} /\ request'[r] = "waiting"
<1>1. LoadTask(r).op = "DoProcessJSRequest" /\ LoadTask(r).to = r
  BY DEF LoadTask
<1>2. ASSUME TypeOK, RequestsAccounted, running # Crashed, LoadTask(r) \in Tasks
      PROVE  answer[r] = {} /\ request[r] = "waiting"
  <2>1. PICK i \in 1..Len(loop) : loop[i] = LoadTask(r)
    BY <1>2, MembersOf DEF TypeOK, Tasks
  <2>2. RequestsOf(r) # {}
    BY <1>1, <2>1 DEF RequestsOf
  <2> QED BY <1>2, <2>2 DEF RequestsAccounted
<1>3. ASSUME TypeOK', RequestsAccounted', running' # Crashed, LoadTask(r) \in Tasks'
      PROVE  answer'[r] = {} /\ request'[r] = "waiting"
  <2>1. loop' \in Seq(Task) /\ LoadTask(r) \in Range(loop')
    BY <1>3 DEF TypeOK, Tasks
  <2>2. PICK i \in 1..Len(loop') : loop'[i] = LoadTask(r)
    BY <2>1, MembersOf
  <2>3. RequestsOf(r)' # {}
    BY <1>1, <2>2 DEF RequestsOf
  <2> QED BY <1>3, <2>3 DEF RequestsAccounted
<1>4. LoadTask(r)' = LoadTask(r)
  BY DEF LoadTask
<1> QED BY <1>2, <1>3, <1>4

\* The load request of a socket becomes a task when the server reads it.
LEMMA LoadIsRead ==
  ASSUME Basis, [WebNext]_webVars, NEW r \in Requester, LoadTask(r) \in Tasks', LoadTask(r) \notin Tasks
  PROVE  OnWsClientMessage(r) /\ sent[r] # <<>> /\ Head(sent[r]) = CreateLoadModules
<1>1. PICK task \in Tasks' : task = LoadTask(r) /\ task \notin Tasks
  OBVIOUS
<1>2. PostedBy(task)
  BY <1>1, PostsOf
<1>3. task.op = "DoProcessJSRequest" /\ task.to = r /\ task.json = CreateLoadModules
  BY <1>1 DEF LoadTask
<1>4. /\ task # [op |-> "OnProxyInitialized", host |-> TRUE]
      /\ \A module, to : task # [op |-> "DoRegisterModule", module |-> module, to |-> to]
      /\ \A id : task # [op |-> "UnregisterModule", id |-> id]
      /\ \A id, list : task # [op |-> "SavePropertiesList", id |-> id, properties |-> list]
      /\ \A msg : task # [op |-> "HandleMessage", msg |-> msg]
  BY ONLY <1>3
<1>5. PICK q \in Requester :
        /\ OnWsClientMessage(q) /\ sent[q] # <<>>
        /\ task = [op |-> "DoProcessJSRequest", json |-> Head(sent[q]), to |-> q]
  BY ONLY <1>2, <1>4, Zenon DEF PostedBy
<1>6. q = r /\ Head(sent[q]) = CreateLoadModules
  <2>1. /\ [op |-> "DoProcessJSRequest", json |-> Head(sent[q]), to |-> q].json = Head(sent[q])
        /\ [op |-> "DoProcessJSRequest", json |-> Head(sent[q]), to |-> q].to = q
    OBVIOUS
  <2> QED BY ONLY <1>3, <1>5, <2>1
<1> QED BY <1>5, <1>6

\* A socket that is closed leaves its place when the server has seen it close.
LEMMA ClosesOnly ==
  ASSUME SocketsInv, [WebNext]_webVars, ~Clears,
         NEW r \in Requester, socket[r] = "closed", socket'[r] # "closed"
  PROVE  OnWsClientClosed(r)
<1>0. socket \in [Requester -> SocketState]
  BY DEF SocketsInv
<1>1. ~UserStep /\ ~(InstanceStep /\ PageKept) /\ ~Runs /\ ~UNCHANGED webVars
  BY UserKeeps DEF PageKept, net, Runs, webVars
<1>2. ASSUME NEW q \in Requester, Makes(q) \/ OnConnected(q) \/ OnWsMessage(q)
      PROVE  FALSE
  BY <1>0, <1>2 DEF Makes, Opens, CountdownEnds, OnClicked, CreateWs, OnConnected, OnWsMessage
<1>3. ASSUME NEW q \in Requester, Serves(q)
      PROVE  OnWsClientClosed(r)
  <2>1. ~OnWsClientConnected(q) /\ ~OnWsClientMessage(q) /\ ~Responds(q)
    BY <1>0 DEF OnWsClientConnected, OnWsClientMessage, Responds
  <2>2. OnWsClientClosed(q) => q = r
    BY <1>0 DEF OnWsClientClosed
  <2> QED BY <1>3, <2>1, <2>2 DEF Serves
<1> QED BY <1>1, <1>2, <1>3, WebSteps DEF Clears

LEMMA AsksOnceStep ==
  ASSUME Basis, HostGoesOn, OneSocket, AsksOnce, [WebNext]_webVars
  PROVE  AsksOnce'
<1>0. /\ SocketsInv /\ tabs \in Tabs /\ TypeOK /\ RequestsAccounted /\ Listening
      /\ socket \in [Requester -> SocketState] /\ Basis' /\ HostGoesOn' /\ TypeOK' /\ RequestsAccounted'
  BY BasisStep, HostGoesOnStep DEF Basis, PageType, SocketsInv
<1>1. CASE Leaves
  <2>1. ASSUME NEW r \in Requester
        PROVE  /\ sent'[r] = sent[r] /\ r \notin listed' /\ socket'[r] # "open" /\ ~Reaches(r)'
               /\ socket[r] \in {"open", "closed"} => socket'[r] = "closed"
    BY <1>0, <1>1 DEF Leaves, Forgets, SocketState, Reaches
  <2> QED BY <2>1 DEF AsksOnce
<1>2. ASSUME NEW q \in Requester, OnDisconnected(q)
      PROVE  AsksOnce'
  <2>1. several' = several /\ UNCHANGED vars
    BY <1>2 DEF OnDisconnected
  <2>2. /\ sent'[q] = sent[q] /\ q \notin listed' /\ socket'[q] # "open" /\ ~Reaches(q)'
        /\ socket[q] \in {"open", "closed"} => socket'[q] = "closed"
    BY <1>0, <1>2 DEF OnDisconnected, Forgets, SocketState, Reaches
  <2>3. ASSUME NEW r \in Requester, r # q
        PROVE  /\ sent'[r] = sent[r] /\ (r \in listed' <=> r \in listed) /\ socket'[r] = socket[r]
               /\ inbox'[r] = inbox[r] /\ (Reaches(r)' <=> Reaches(r))
    BY <1>0, <1>2, <2>3 DEF OnDisconnected, Forgets, Reaches
  <2>4. UNCHANGED <<Tasks, answer>>
    BY <2>1 DEF Tasks, vars
  <2>5. \A r \in Requester : r = q \/ r # q
    OBVIOUS
  <2> QED BY <2>1, <2>2, <2>3, <2>4, <2>5 DEF AsksOnce, LoadTask
<1>3. CASE ~Clears
  <2> SUFFICES ASSUME NEW r \in Requester
               PROVE  /\ socket'[r] \notin {"open", "closed"} => sent'[r] = <<>>
                      /\ r \in listed' => socket'[r] = "open"
                      /\ Reaches(r)' =>
                           \A m \in answer'[r] \cup Range(inbox'[r]) : m.type = "module_list" => r \in listed'
                      /\ ~several' /\ socket'[r] = "open" =>
                           /\ Once(sent'[r], {CreateLoadModules})
                           /\ LoadTask(r) \in Tasks' \/ r \in listed' =>
                                CreateLoadModules \notin Range(sent'[r])
                           /\ r \in listed' => LoadTask(r) \notin Tasks'
    BY DEF AsksOnce, LoadTask
  <2>0. /\ inbox[r] \in Seq(Message) /\ sent[r] \in Seq(Request)
        /\ socket[r] \notin {"open", "closed"} => sent[r] = <<>>
        /\ r \in listed => socket[r] = "open"
    BY DEF Basis, PageType, AsksOnce
  <2>1. socket[r] = "open" => socket'[r] = "open"
    BY <1>0, <1>3, SocketOf
  <2>2. socket'[r] \notin {"open", "closed"} => sent'[r] = <<>>
    <3>1. OnWsClientMessage(r) => socket[r] \in {"open", "closed"} /\ socket' = socket
      BY DEF OnWsClientMessage
    <3>2. UserStep => socket' = socket
      BY UserKeeps
    <3>3. socket[r] \in {"open", "closed"} => socket'[r] = socket[r] \/ sent'[r] = <<>>
      <4>1. ASSUME socket[r] = "closed", socket'[r] # "closed"
            PROVE  sent'[r] = <<>>
        <5>1. OnWsClientClosed(r)
          BY <1>0, <1>3, <4>1, ClosesOnly
        <5> QED BY <1>0, <5>1 DEF OnWsClientClosed, Basis, PageType
      <4> QED BY <2>1, <4>1
    <3> QED BY <2>0, <3>1, <3>2, <3>3, SentOf
  <2>3. Reaches(r) /\ LoadTask(r) \in Tasks => socket[r] = "open"
    <3>1. LoadTask(r) \in Tasks => request[r] = "waiting"
      BY <1>0, LoadWaits DEF HostGoesOn
    <3> QED BY <3>1 DEF Reaches, Basis, Listening
  <2>4. r \in listed' => r \in listed \/ (Reaches(r) /\ LoadTask(r) \in Tasks /\ answer'[r] # {})
    <3> SUFFICES ASSUME r \in listed', r \notin listed
                 PROVE  Reaches(r) /\ LoadTask(r) \in Tasks /\ answer'[r] # {}
      OBVIOUS
    <3>1. Listing(r)' /\ Reaches(r)
      BY <1>0, <1>3, SocketOf
    <3>2. PICK m \in answer'[r] : m.type = "module_list"
      BY <3>1 DEF Listing
    <3>3. m \notin answer[r]
      BY <3>1, <3>2 DEF AsksOnce
    <3> QED BY <3>1, <3>2, <3>3, ListsAreAskedFor
  <2>5. r \in listed' => socket'[r] = "open"
    BY <2>0, <2>1, <2>3, <2>4
  <2>6. ASSUME Reaches(r)', NEW m \in answer'[r] \cup Range(inbox'[r]), m.type = "module_list"
        PROVE  r \in listed'
    <3>1. Reaches(r) \/ OnWsClientConnected(r)
      BY <1>0, <1>3, <2>6, PageSteps
    <3>2. listed \subseteq listed'
      BY <1>0, <1>3, SocketOf
    <3>3. CASE OnWsClientConnected(r)
      <4>1. socket[r] = "opening" /\ ~Reaches(r) /\ UNCHANGED <<answer, inbox>>
        BY <3>3 DEF OnWsClientConnected, Reaches, vars
      <4>2. answer[r] = {}
        <5>1. Answered(r) /\ request[r] = "idle"
          BY <1>0, <4>1, AnsweredForAll DEF HostGoesOn, Listening
        <5> QED BY <5>1 DEF Answered
      <4>3. Range(inbox[r]) = {}
        BY <4>1, RangesOf DEF Basis, Listening
      <4> QED BY <2>6, <4>1, <4>2, <4>3
    <3>4. CASE Reaches(r) /\ m \in answer[r] \cup Range(inbox[r])
      BY <2>6, <3>2, <3>4 DEF AsksOnce
    <3>5. CASE Reaches(r) /\ m \in answer'[r] /\ m \notin answer[r]
      <4>1. Runs
        BY <2>6, <3>5, ListsAreAskedFor
      <4>2. Listing(r)'
        BY <2>6, <3>5 DEF Listing
      <4> QED BY <3>5, <4>1, <4>2 DEF Runs, Remembers
    <3>6. CASE Reaches(r) /\ m \in Range(inbox'[r])
      <4>1. \A x \in PushedMsg : x.type # "module_list"
        BY DEF PushedMsg, AddedMsg, RemovedMsg, UpdateMsg
      <4> QED BY <2>6, <3>4, <3>6, <4>1, Arrivals
    <3> QED BY <2>6, <3>1, <3>3, <3>4, <3>5, <3>6
  <2>7. ASSUME ~several', socket'[r] = "open"
        PROVE  /\ Once(sent'[r], {CreateLoadModules})
               /\ LoadTask(r) \in Tasks' \/ r \in listed' => CreateLoadModules \notin Range(sent'[r])
               /\ r \in listed' => LoadTask(r) \notin Tasks'
    <3>0. ~several
      BY <1>0, <1>3, <2>7, SocketOf
    <3>1. socket[r] = "open" =>
            /\ Once(sent[r], {CreateLoadModules})
            /\ LoadTask(r) \in Tasks \/ r \in listed => CreateLoadModules \notin Range(sent[r])
            /\ r \in listed => LoadTask(r) \notin Tasks
      BY <3>0 DEF AsksOnce
    <3>2. CreateLoadModules \in Request /\ \A msg \in ApplyMsg : msg \in Request /\ msg # CreateLoadModules
      BY DEF CreateLoadModules, Request, LoadMsg, ApplyMsg
    <3>3. ASSUME NEW q \in Requester, OnConnected(q), r \in websocket
          PROVE  q = r /\ socket[r] = "connecting" /\ sent[r] = <<>>
      <4>1. q \in Live
        BY <3>3 DEF OnConnected, Live
      <4>2. q = r
        BY <3>0, <3>3, <4>1 DEF OneSocket
      <4> QED BY <2>0, <3>3, <4>2 DEF OnConnected
    <3>4. CASE OnConnected(r)
      <4>1. socket[r] = "connecting" /\ UNCHANGED <<vars, listed>> /\ sent[r] = <<>>
        BY <2>0, <3>4 DEF OnConnected, past
      <4>2. Tasks' = Tasks
        BY <4>1 DEF vars, Tasks
      <4>3. LoadTask(r) \notin Tasks /\ r \notin listed
        BY <2>0, <2>3, <4>1 DEF Reaches
      <4>4. Once(sent'[r], {CreateLoadModules})
        <5>1. Once(Append(sent[r], CreateLoadModules), {CreateLoadModules})
          BY <2>0, <3>2, <4>1, OnceAppend, OnceInEmpty, RangesOf
        <5>2. sent'[r] = sent[r] \/ sent'[r] = Append(sent[r], CreateLoadModules)
          BY <3>4 DEF OnConnected, Send
        <5> QED BY <4>1, <5>1, <5>2, OnceInEmpty
      <4> QED BY <4>1, <4>2, <4>3, <4>4
    <3>5. CASE ~OnConnected(r)
      <4>0. socket[r] = "open"
        BY <1>0, <1>3, <2>7, <3>5, SocketOf
      <4>1. \/ sent'[r] = sent[r]
            \/ \E msg \in ApplyMsg : sent'[r] = Append(sent[r], msg)
            \/ sent[r] # <<>> /\ sent'[r] = Tail(sent[r])
        BY <3>3, <3>5, <4>0, SentOf
      <4>2. Once(sent'[r], {CreateLoadModules})
        <5>1. \A msg \in ApplyMsg : Once(Append(sent[r], msg), {CreateLoadModules})
          BY <2>0, <3>1, <3>2, <4>0, OnceAppend
        <5>2. sent[r] # <<>> => Once(Tail(sent[r]), {CreateLoadModules})
          BY <2>0, <3>1, <4>0, OnceTail
        <5> QED BY <3>1, <4>0, <4>1, <5>1, <5>2
      <4>3. CreateLoadModules \notin Range(sent[r]) => CreateLoadModules \notin Range(sent'[r])
        <5>1. \A msg \in ApplyMsg : Range(Append(sent[r], msg)) = Range(sent[r]) \cup {msg}
          BY <2>0, <3>2, MembersOf
        <5>2. sent[r] # <<>> => Range(sent[r]) = {Head(sent[r])} \cup Range(Tail(sent[r]))
          BY <2>0, MembersOf
        <5> QED BY <3>2, <4>1, <5>1, <5>2
      <4>4. ASSUME LoadTask(r) \in Tasks', LoadTask(r) \notin Tasks
            PROVE  CreateLoadModules \notin Range(sent'[r]) /\ r \notin listed'
        <5>1. OnWsClientMessage(r) /\ sent[r] # <<>> /\ Head(sent[r]) = CreateLoadModules
          BY <4>4, LoadIsRead
        <5>2. sent'[r] = Tail(sent[r])
          BY <5>1 DEF OnWsClientMessage, Basis, PageType
        <5>3. CreateLoadModules \notin Range(sent'[r])
          BY <2>0, <3>1, <4>0, <5>1, <5>2, OnceTail
        <5>4. CreateLoadModules \in Range(sent[r])
          BY <2>0, <5>1, MembersOf
        <5> QED BY <2>0, <2>4, <3>1, <4>0, <4>4, <5>3, <5>4
      <4>5. ASSUME r \in listed'
            PROVE  LoadTask(r) \notin Tasks'
        <5>1. CASE r \in listed
          BY <3>1, <4>0, <4>4, <4>5, <5>1
        <5>2. CASE answer'[r] # {}
          BY <1>0, <5>2, LoadWaits DEF HostGoesOn
        <5> QED BY <2>4, <4>5, <5>1, <5>2
      <4>6. ASSUME LoadTask(r) \in Tasks' \/ r \in listed'
            PROVE  CreateLoadModules \notin Range(sent'[r])
        BY <2>4, <3>1, <4>0, <4>3, <4>4, <4>6
      <4> QED BY <4>2, <4>5, <4>6
    <3> QED BY <3>4, <3>5
  <2> QED BY <2>2, <2>5, <2>6, <2>7
<1> QED BY <1>1, <1>2, <1>3 DEF Clears

-----------------------------------------------------------------------------
(* What the page is told.                                                  *)

\* The modules a message makes the page show, and the messages that make it show a module.
Tells(m) == IF m.type = "module_added" THEN {m.id}
            ELSE IF m.type = "module_list" THEN Listed(m) ELSE {}
Telling(id) == {m \in Message : id \in Tells(m)}

\* A module is pushed as it is registered.
Presents(m) ==
  /\ m.type # "module_list"
  /\ m.type = "module_added" => m.id = idCounter /\ m.properties = modules'[m.id].properties

\* What is pushed on a socket: at most a message, which tells of no module but the one the
\* instance adds, and is remembered until the list is made.
LEMMA RunTells ==
  ASSUME Basis, Runs, NEW r \in Requester, Reaches(r)
  PROVE  \/ inbox'[r] = inbox[r]
         \/ \E m \in Message :
              /\ inbox'[r] = Append(inbox[r], m)
              /\ Tells(m) \subseteq {idCounter}
              /\ Tells(m) # {} => idCounter' = idCounter + 1
              /\ r \notin listed => Tells(m) \subseteq early'[r]
              /\ Presents(m)
<1>0. /\ initialized /\ msgQueue = <<>> /\ r \in listeners
      /\ loop \in Seq(Task) /\ inbox[r] \in Seq(Message) /\ TypeOK' /\ RunTask /\ TypeOK
      /\ \A msgs : Pushes(msgs).pushed = msgs /\ Silent.pushed = <<>>
      /\ \A json : Relays(json).pushed = <<>>
  <2>1. r \in listeners
    BY DEF Basis, Listening
  <2>2. [WebNext]_webVars
    BY DEF WebNext
  <2> QED BY <2>1, <2>2, BasisStep DEF Basis, Listening, PageType, TypeOK, Pushes, Relays, Silent, Runs
<1>1. inbox'[r] = inbox[r] \o out'.pushed
  BY <1>0 DEF Runs, PushMsgForJS
<1>2. early'[r] = IF r \in listed THEN early[r] ELSE early[r] \cup Ids(out'.pushed, {"module_added"})
  BY <1>0 DEF Runs, Remembers
<1>3. ASSUME NEW m, out' = Pushes(<<m>>), m \in PushedMsg, Tells(m) \subseteq {idCounter},
             Tells(m) # {} => idCounter' = idCounter + 1, Presents(m)
      PROVE  \E x \in Message :
              /\ inbox'[r] = Append(inbox[r], x)
              /\ Tells(x) \subseteq {idCounter}
              /\ Tells(x) # {} => idCounter' = idCounter + 1
              /\ r \notin listed => Tells(x) \subseteq early'[r]
              /\ Presents(x)
  <2>1. out'.pushed = <<m>> /\ Range(<<m>>) = {m} /\ m \in Message
    BY <1>0, <1>3, RangesOf DEF Message
  <2>2. inbox[r] \o <<m>> = Append(inbox[r], m)
    BY <1>0, <2>1
  <2>3. Tells(m) \subseteq Ids(out'.pushed, {"module_added"})
    <3>1. m.type # "module_list"
      BY <1>3 DEF PushedMsg, AddedMsg, RemovedMsg, UpdateMsg
    <3> QED BY <2>1, <3>1 DEF Tells, Ids
  <2> QED BY <1>1, <1>2, <1>3, <2>1, <2>2, <2>3
<1>4. CASE DoRegisterModule
  <2>1. PICK m : m = CreateModuleAdded(idCounter, Head(loop).module) /\ out' = Pushes(<<m>>)
    BY <1>0, <1>4 DEF DoRegisterModule, HandleMessage
  <2>2. m \in PushedMsg
    <3>1. Head(loop).module \in ModuleType
      BY <1>4, <1>0, TakesType DEF DoRegisterModule, Task
    <3> QED BY <1>0, <2>1, <3>1 DEF CreateModuleAdded, PushedMsg, AddedMsg, TypeOK, ModulesTypeOK, ModuleType
  <2>3. Tells(m) = {idCounter}
    BY <2>1 DEF Tells, CreateModuleAdded
  <2>4. idCounter' = idCounter + 1
    BY <1>4 DEF DoRegisterModule
  <2>5. Presents(m)
    <3>1. modules'[idCounter] = Head(loop).module
      <4>1. idCounter \notin DOMAIN modules
        BY <1>0 DEF TypeOK, ModulesTypeOK
      <4> QED BY <1>4, <4>1 DEF DoRegisterModule, Insert
    <3> QED BY <2>1, <3>1 DEF Presents, CreateModuleAdded
  <2> QED BY <1>3, <2>1, <2>2, <2>3, <2>4, <2>5
<1>5. CASE UnregisterModule
  <2>1. PICK m : m = CreateModuleRemoved(Head(loop).id) /\ out' = Pushes(<<m>>)
    BY <1>0, <1>5 DEF UnregisterModule, HandleMessage
  <2>2. m \in PushedMsg
    <3>1. Head(loop).id \in Int
      BY <1>5, <1>0, TakesType DEF UnregisterModule, Task
    <3> QED BY <2>1, <3>1 DEF CreateModuleRemoved, PushedMsg, RemovedMsg
  <2>3. Tells(m) = {} /\ Presents(m)
    BY <2>1 DEF Tells, Presents, CreateModuleRemoved
  <2> QED BY <1>3, <2>1, <2>2, <2>3
<1>6. CASE PushUpdate
  <2>1. PICK m : m = Head(loop).msg /\ out' = Pushes(<<m>>)
    BY <1>0, <1>6 DEF PushUpdate, HandleMessage
  <2>2. m \in UpdateMsg
    <3>1. Head(loop) \in Task /\ Head(loop).op = "HandleMessage"
      BY <1>0, <1>6, TakesType DEF PushUpdate
    <3> QED BY <2>1, <3>1 DEF Task
  <2>3. Tells(m) = {} /\ m \in PushedMsg /\ Presents(m)
    BY <2>2 DEF Tells, Presents, PushedMsg, UpdateMsg
  <2> QED BY <1>3, <2>1, <2>3
<1>7. CASE OnProxyInitialized \/ SaveUpdate \/ DoProcessJSRequest \/ PassPeerUpdate
  <2>1. out' = Pushes(msgQueue) \/ out' = Silent \/ \E json : out' = Relays(json)
    BY <1>7 DEF OnProxyInitialized, SaveUpdate, DoProcessJSRequest, PassPeerUpdate,
       PassPropertyUpdateToModule
  <2>2. out'.pushed = <<>>
    BY <1>0, <2>1
  <2>3. inbox[r] \o <<>> = inbox[r]
    BY <1>0
  <2> QED BY <1>1, <2>2, <2>3
<1> QED BY <1>0, <1>4, <1>5, <1>6, <1>7 DEF RunTask

\* What reading a message makes of the buttons.
ReadsTo(m) ==
  /\ \A i \in Tells(m) :
       /\ i \in DOMAIN selector'.buttons /\ i \in DOMAIN tabs'
       /\ i \notin DOMAIN selector.buttons => selector'.buttons[i] = 1
  /\ \A i \in DOMAIN selector'.buttons : i \notin Tells(m) =>
       /\ i \in DOMAIN selector.buttons
       /\ i \in DOMAIN tabs /\ selector.buttons[i] = 1 => i \in DOMAIN tabs' /\ selector'.buttons[i] = 1

LEMMA ReadingShows ==
  ASSUME Selects(selector, DOMAIN tabs), NEW q \in Requester, OnWsMessage(q)
  PROVE  inbox[q] # <<>> /\ ReadsTo(Head(inbox[q]))
<1>0. HasButtons(selector) /\ selector.buttons \in [DOMAIN selector.buttons -> Nat \ {0}]
      /\ DOMAIN tabs \subseteq DOMAIN selector.buttons
  BY DEF Selects, HasButtons
<1>1. PICK json : /\ json = Head(inbox[q]) /\ inbox[q] # <<>>
                  /\ tabs' = OnMessage(tabs, json) /\ selector' = Select(json)
  BY DEF OnWsMessage
<1> SUFFICES ReadsTo(json)
  BY <1>1
<1>2. ASSUME NEW new, new = Tells(json), selector' = OnModulesAdded(selector, new),
             DOMAIN tabs' = DOMAIN tabs \cup new
      PROVE  ReadsTo(json)
  <2>1. /\ DOMAIN selector'.buttons = DOMAIN selector.buttons \cup new
        /\ \A i \in DOMAIN selector'.buttons :
             selector'.buttons[i] = (IF i \in DOMAIN selector.buttons THEN selector.buttons[i] ELSE 0)
                                    + (IF i \in new THEN 1 ELSE 0)
    BY <1>0, <1>2, ButtonsAdded
  <2> QED BY <1>0, <1>2, <2>1 DEF ReadsTo
<1>3. CASE json.type = "module_added"
  BY <1>1, <1>2, <1>3, MessageShows DEF Select, Tells
<1>4. CASE json.type = "module_list"
  <2>1. selector' = OnModulesAdded(selector, Listed(json))
    BY <1>1, <1>4 DEF Select, Listed
  <2> QED BY <1>1, <1>2, <1>4, <2>1, MessageShows DEF Tells
<1>5. CASE json.type \notin {"module_added", "module_removed", "module_list"}
  <2>1. selector' = selector /\ DOMAIN tabs' = DOMAIN tabs /\ Tells(json) = {}
    BY <1>1, <1>5, MessageShows DEF Select, Tells
  <2> QED BY <2>1 DEF ReadsTo
<1>6. CASE json.type = "module_removed"
  <2>1. /\ selector' = OnModuleRemoved(selector, DOMAIN tabs, json.id)
        /\ DOMAIN tabs' = DOMAIN tabs \ {json.id} /\ Tells(json) = {}
    BY <1>1, <1>6, MessageShows DEF Select, Tells
  <2>2. CASE json.id \notin DOMAIN tabs
    <3>1. selector'.buttons = selector.buttons /\ DOMAIN tabs' = DOMAIN tabs
      BY <1>0, <2>1, <2>2 DEF OnModuleRemoved, HasButtons, Selects
    <3> QED BY <2>1, <3>1 DEF ReadsTo
  <2>3. CASE json.id \in DOMAIN tabs
    <3>1. /\ \A d : d \in DOMAIN selector'.buttons <=>
               d \in DOMAIN selector.buttons /\ (d = json.id => selector.buttons[json.id] > 1)
          /\ \A d \in DOMAIN selector'.buttons :
               selector'.buttons[d] = IF d = json.id THEN selector.buttons[d] - 1 ELSE selector.buttons[d]
      BY <1>0, <2>1, <2>3, ButtonsRemoved
    <3> QED BY <1>0, <2>1, <3>1 DEF ReadsTo
  <2> QED BY <2>2, <2>3
<1> QED BY <1>3, <1>4, <1>5, <1>6

LEMMA ButtonSteps ==
  ASSUME Basis, IdsInLists, Selects(selector, DOMAIN tabs), [WebNext]_webVars
  PROVE  \/ selector'.buttons = selector.buttons /\ DOMAIN tabs' = DOMAIN tabs
         \/ Clears /\ DOMAIN selector'.buttons = {} /\ selector'.buttons = EmptyBag
         \/ \E q \in Requester : OnWsMessage(q) /\ inbox[q] # <<>> /\ ReadsTo(Head(inbox[q]))
<1>0. SocketsInv /\ tabs \in Tabs /\ inbox \in [Requester -> Seq(Message)]
  BY DEF Basis, PageType
<1>1. CASE (InstanceStep /\ PageKept) \/ Runs \/ UNCHANGED webVars
  BY <1>1 DEF PageKept, Runs, browser, webVars
<1>2. ASSUME NEW r \in Requester, Serves(r) \/ Makes(r) \/ OnConnected(r)
      PROVE  UNCHANGED <<tabs, selector>>
  BY <1>2 DEF Serves, Makes, Opens, CountdownEnds, OnClicked, CreateWs, OnConnected, browser
<1>3. CASE Clears
  <2>1. \E container : selector' = [buttons |-> EmptyBag, current |-> {}, container |-> container]
    BY <1>3 DEF Clears, Leaves, OnDisconnected, Clear, NoSelection
  <2>2. selector'.buttons = EmptyBag
    BY <2>1
  <2>3. DOMAIN EmptyBag = {}
    BY DEF EmptyBag, SetToBag
  <2> QED BY <1>3, <2>2, <2>3
<1>4. CASE UserStep
  <2>1. ASSUME NEW id, NEW kind, Acts(id, kind)
        PROVE  selector' = selector
    BY <2>1 DEF Acts
  <2>2. ASSUME NEW module \in Buttons, SelectModule(module)
        PROVE  selector'.buttons = selector.buttons /\ tabs' = tabs
    BY <2>2 DEF SelectModule, Selects
  <2>3. ASSUME NEW id \in DOMAIN tabs,
               OnPropertiesActivated(id) \/ \E k \in DOMAIN tabs[id] : Writes(id, k) \/ OnPropertyActivated(id, k)
        PROVE  selector' = selector /\ DOMAIN tabs' = DOMAIN tabs
    BY <2>1, <2>3 DEF OnPropertiesActivated, Writes, OnPropertyActivated
  <2> QED BY <1>4, <2>2, <2>3 DEF UserStep
<1>5. ASSUME NEW q \in Requester, OnWsMessage(q)
      PROVE  inbox[q] # <<>> /\ ReadsTo(Head(inbox[q]))
  BY <1>5, ReadingShows
<1> QED BY <1>1, <1>2, <1>3, <1>4, <1>5, WebSteps DEF Clears

\* A button, and a message on its way, is of a module the instance has given its id.
IdsGiven ==
  /\ \A id \in DOMAIN selector.buttons : id \in 0..(idCounter - 1)
  /\ \A r \in Requester : \A m \in answer[r] \cup Range(inbox[r]) : \A id \in Tells(m) : id \in 0..(idCounter - 1)

LEMMA CounterSteps ==
  ASSUME Basis, [WebNext]_webVars
  PROVE  idCounter \in Nat /\ idCounter' \in {idCounter, idCounter + 1} /\ (Runs \/ UNCHANGED modules)
<1>1. CASE Runs
  BY <1>1, RunStep DEF Basis, TypeOK, ModulesTypeOK
<1>2. CASE ~Runs /\ ~Clears
  BY <1>2, PageSteps DEF Basis, PageType, TypeOK, ModulesTypeOK
<1>3. CASE Clears
  BY <1>3, ClearSteps DEF Basis, vars, TypeOK, ModulesTypeOK
<1> QED BY <1>1, <1>2, <1>3

\* What arrives on a socket was made for it, or is pushed.
LEMMA ArrivesFrom ==
  ASSUME Basis, [WebNext]_webVars, NEW r \in Requester, NEW m \in Range(inbox'[r])
  PROVE  \/ m \in answer[r] \cup Range(inbox[r])
         \/ /\ Runs /\ Presents(m) /\ Tells(m) \subseteq {idCounter}
            /\ Tells(m) # {} => idCounter' = idCounter + 1
<1>0. inbox[r] \in Seq(Message)
  BY DEF Basis, PageType
<1>1. CASE Runs /\ Reaches(r)
  <2>1. ASSUME NEW x \in Message, inbox'[r] = Append(inbox[r], x)
        PROVE  m \in Range(inbox[r]) \/ m = x
    BY <1>0, <2>1, MembersOf
  <2> QED BY <1>1, <2>1, RunTells
<1>2. CASE Runs /\ ~Reaches(r)
  BY <1>2 DEF Runs, PushMsgForJS
<1>3. CASE ~Runs
  BY <1>3, Arrivals
<1> QED BY <1>1, <1>2, <1>3

LEMMA IdsGivenStep ==
  ASSUME Basis, IdsInLists, Selects(selector, DOMAIN tabs), IdsGiven, [WebNext]_webVars
  PROVE  IdsGiven'
<1>0. /\ idCounter \in Nat /\ idCounter' \in {idCounter, idCounter + 1}
      /\ \A id \in DOMAIN selector.buttons \cup DOMAIN modules : id \in 0..(idCounter - 1)
      /\ TypeOK /\ RequestsAccounted /\ [OpenNext]_vars /\ SocketsInv /\ tabs \in Tabs
      /\ \A r \in Requester : inbox[r] \in Seq(Message)
  <2>1. idCounter' \in {idCounter, idCounter + 1}
    BY CounterSteps
  <2>2. idCounter \in Nat /\ DOMAIN modules \subseteq 0..(idCounter - 1)
    BY DEF Basis, TypeOK, ModulesTypeOK
  <2>3. \A id \in DOMAIN modules : id \in 0..(idCounter - 1)
    BY <2>2
  <2> QED BY <2>1, <2>2, <2>3, WebIsOpen DEF Basis, PageType, IdsGiven
<1>1. \A id : id \in 0..(idCounter - 1) => id \in 0..(idCounter' - 1)
  <2>1. ASSUME NEW id, id \in 0..(idCounter - 1)
        PROVE  id \in 0..(idCounter' - 1)
    <3>1. CASE idCounter' = idCounter
      BY <2>1, <3>1
    <3>2. CASE idCounter' = idCounter + 1
      BY <1>0, <2>1, <3>2
    <3> QED BY <1>0, <3>1, <3>2
  <2> QED BY <2>1
<1>2. ASSUME NEW id \in DOMAIN selector'.buttons
      PROVE  id \in 0..(idCounter - 1)
  <2>1. ASSUME NEW q \in Requester, inbox[q] # <<>>, ReadsTo(Head(inbox[q]))
        PROVE  id \in 0..(idCounter - 1)
    <3>1. Head(inbox[q]) \in Range(inbox[q])
      BY <1>0, <2>1, MembersOf
    <3>2. id \in DOMAIN selector.buttons \/ id \in Tells(Head(inbox[q]))
      BY <2>1 DEF ReadsTo
    <3> QED BY <1>0, <3>1, <3>2 DEF IdsGiven
  <2> QED BY <1>0, <2>1, ButtonSteps
<1>3. ASSUME NEW r \in Requester, NEW m \in answer'[r], NEW id \in Tells(m)
      PROVE  id \in 0..(idCounter - 1)
  <2>1. Tells(Empty) = {} /\ Tells(CreateModuleList(modules)) \subseteq DOMAIN modules
    BY DEF Tells, Empty, CreateModuleList, Listed
  <2>2. m \in answer[r] \/ m = Empty \/ m = CreateModuleList(modules)
    BY <1>0, AnswerSteps
  <2> QED BY <1>0, <1>3, <2>1, <2>2 DEF IdsGiven
<1>4. ASSUME NEW r \in Requester, NEW m \in Range(inbox'[r]), NEW id \in Tells(m)
      PROVE  id \in 0..(idCounter' - 1)
  <2>1. m \in answer[r] \cup Range(inbox[r]) \/ (id = idCounter /\ idCounter' = idCounter + 1)
    BY <1>4, ArrivesFrom
  <2> QED BY <1>0, <1>1, <1>4, <2>1 DEF IdsGiven
<1> QED BY <1>1, <1>2, <1>3, <1>4 DEF IdsGiven

\* A page without a socket has no button: it was cleared when it lost the last one.
NoSocketNoButton == Live = {} => DOMAIN selector.buttons = {}

LEMMA NoSocketNoButtonStep ==
  ASSUME Basis, IdsInLists, Selects(selector, DOMAIN tabs), NoSocketNoButton, [WebNext]_webVars
  PROVE  NoSocketNoButton'
<1>1. CASE Clears
  <2>1. \E container : selector' = [buttons |-> EmptyBag, current |-> {}, container |-> container]
    BY <1>1 DEF Clears, Leaves, OnDisconnected, Clear, NoSelection
  <2>2. selector'.buttons = EmptyBag
    BY <2>1
  <2> QED BY <2>2 DEF NoSocketNoButton, EmptyBag, SetToBag
<1>2. CASE ~Clears
  <2>1. \A r \in Requester : Live \subseteq Live'
    BY <1>2, SocketOf DEF Basis
  <2>2. ASSUME NEW q \in Requester, OnWsMessage(q)
        PROVE  Live' # {}
    BY <2>1, <2>2 DEF OnWsMessage, Live
  <2>3. ASSUME Live' = {}
        PROVE  Live = {}
    BY <2>1, <2>3 DEF Live
  <2> QED BY <1>2, <2>2, <2>3, ButtonSteps DEF NoSocketNoButton
<1> QED BY <1>1, <1>2

\* The only socket of the page tells it of each module once.  Until its list is made, what
\* it tells is remembered; after it, only what is new is pushed.
ToldOnce(r) ==
  /\ r \notin listed =>
       /\ DOMAIN selector.buttons \subseteq early[r]
       /\ \A m \in Range(inbox[r]) : Tells(m) \subseteq early[r]
  /\ \A id : id \notin early[r] =>
       /\ Once(inbox[r], Telling(id))
       /\ id \in DOMAIN selector.buttons \/ Range(inbox[r]) \cap Telling(id) # {} =>
            answer[r] \cap Telling(id) = {}
       /\ id \in DOMAIN selector.buttons =>
            /\ Range(inbox[r]) \cap Telling(id) = {}
            /\ id \in DOMAIN tabs /\ selector.buttons[id] = 1
AllToldOnce == ~several => \A r \in Live : ToldOnce(r)

-----------------------------------------------------------------------------
(* One button each.                                                        *)

\* What the steps of a socket that stays rest on.
Told == /\ Basis /\ HostGoesOn /\ OneSocket /\ AsksOnce /\ IdsInLists
        /\ Selects(selector, DOMAIN tabs) /\ IdsGiven /\ NoSocketNoButton

LEMMA TellingOf ==
  /\ \A m \in Message : \A id : m \in Telling(id) <=> id \in Tells(m)
  /\ \A m \in Response : m.type # "module_list" => Tells(m) = {}
BY DEF Telling, Tells, Response, EmptyMsg, ListMsg

\* The list of a socket is made once, and before it nothing is told that is not remembered.
LEMMA NewAnswers ==
  ASSUME Told, ~several, [WebNext]_webVars, NEW r \in Requester, NEW m \in answer'[r], m \notin answer[r]
  PROVE  Tells(m) = {} \/ (Runs /\ r \notin listed /\ out' = Silent)
<1>0. TypeOK /\ RequestsAccounted /\ [OpenNext]_vars
  BY WebIsOpen DEF Told, Basis
<1>1. m = Empty \/ m = CreateModuleList(modules)
  BY <1>0, AnswerSteps
<1>2. Tells(Empty) = {} /\ CreateModuleList(modules).type = "module_list"
  BY DEF Tells, Empty, CreateModuleList
<1>3. ASSUME m = CreateModuleList(modules)
      PROVE  Runs /\ r \notin listed /\ out' = Silent
  <2>1. Runs /\ LoadTask(r) \in Tasks /\ out' = Silent
    BY <1>2, <1>3, ListsAreAskedFor DEF Told
  <2> QED BY <2>1 DEF Told, AsksOnce
<1> QED BY <1>1, <1>2, <1>3

\* The task of the module thread.
LEMMA RunToldOnce ==
  ASSUME Told, Runs, ~several, NEW r \in Live, ToldOnce(r)
  PROVE  ToldOnce(r)'
<1>0. /\ [WebNext]_webVars /\ r \in Requester /\ Basis /\ inbox[r] \in Seq(Message)
      /\ UNCHANGED <<selector, tabs>> /\ answer \in [Requester -> SUBSET Response]
      /\ Range(inbox[r]) \subseteq Message /\ answer[r] \subseteq Message
      /\ answer'[r] \subseteq Message
  <2>1. [WebNext]_webVars /\ Basis
    BY DEF WebNext, Told
  <2>2. inbox[r] \in Seq(Message) /\ Range(inbox[r]) \subseteq Message
    <3>1. inbox[r] \in Seq(Message)
      BY <2>1 DEF Basis, PageType, Live
    <3> QED BY <3>1, ElementOfSeq, MembersOf
  <2>3. TypeOK /\ TypeOK'
    BY <2>1, BasisStep DEF Basis
  <2> QED BY <2>1, <2>2, <2>3 DEF Live, Runs, browser, TypeOK, CallersTypeOK, Message
<1>1. early[r] \subseteq early'[r] /\ listed \subseteq listed'
  BY <1>0 DEF Runs, Remembers, Live
<1>2. \/ inbox'[r] = inbox[r]
      \/ \E m \in Message :
           /\ inbox'[r] = Append(inbox[r], m) /\ Tells(m) \subseteq {idCounter}
           /\ r \notin listed => Tells(m) \subseteq early'[r]
  <2>1. CASE Reaches(r)
    BY <1>0, <2>1, RunTells
  <2>2. CASE ~Reaches(r)
    BY <1>0, <2>2 DEF Runs, PushMsgForJS
  <2> QED BY <2>1, <2>2
<1>3. \A m \in Message : Append(inbox[r], m) \in Seq(Message)
                         /\ Range(Append(inbox[r], m)) = Range(inbox[r]) \cup {m}
  BY <1>0, MembersOf
<1>4. Range(inbox'[r]) \subseteq Message
  BY <1>0, <1>2, <1>3
<1>5. /\ idCounter \notin DOMAIN selector.buttons
      /\ \A m \in answer[r] \cup Range(inbox[r]) : idCounter \notin Tells(m)
  <2>1. idCounter \in Nat /\ idCounter \notin 0..(idCounter - 1)
    BY <1>0 DEF Basis, TypeOK, ModulesTypeOK
  <2> QED BY <1>0, <2>1 DEF Told, IdsGiven
<1>6. ASSUME r \notin listed'
      PROVE  /\ DOMAIN selector'.buttons \subseteq early'[r]
             /\ \A m \in Range(inbox'[r]) : Tells(m) \subseteq early'[r]
  <2>1. /\ DOMAIN selector.buttons \subseteq early[r]
        /\ \A m \in Range(inbox[r]) : Tells(m) \subseteq early[r]
    BY <1>1, <1>6 DEF ToldOnce
  <2>2. ASSUME NEW x \in Message, inbox'[r] = Append(inbox[r], x), Tells(x) \subseteq early'[r]
        PROVE  \A m \in Range(inbox'[r]) : Tells(m) \subseteq early'[r]
    BY <1>1, <1>3, <2>1, <2>2
  <2>3. r \notin listed
    BY <1>1, <1>6
  <2> QED BY <1>0, <1>1, <1>2, <2>1, <2>2, <2>3
<1>7. ASSUME NEW id, id \notin early'[r]
      PROVE  /\ Once(inbox'[r], Telling(id))
             /\ id \in DOMAIN selector'.buttons \/ Range(inbox'[r]) \cap Telling(id) # {} =>
                  answer'[r] \cap Telling(id) = {}
             /\ id \in DOMAIN selector'.buttons =>
                  /\ Range(inbox'[r]) \cap Telling(id) = {}
                  /\ id \in DOMAIN tabs' /\ selector'.buttons[id] = 1
  <2>1. /\ Once(inbox[r], Telling(id))
        /\ id \in DOMAIN selector.buttons \/ Range(inbox[r]) \cap Telling(id) # {} =>
             answer[r] \cap Telling(id) = {}
        /\ id \in DOMAIN selector.buttons =>
             /\ Range(inbox[r]) \cap Telling(id) = {}
             /\ id \in DOMAIN tabs /\ selector.buttons[id] = 1
        /\ r \notin listed => /\ id \notin DOMAIN selector.buttons
                              /\ Range(inbox[r]) \cap Telling(id) = {}
    <3>1. id \notin early[r]
      BY <1>1, <1>7
    <3> QED BY <1>0, <3>1, TellingOf DEF ToldOnce
  <2>2. Range(inbox'[r]) \cap Telling(id) # {} => id = idCounter \/ Range(inbox[r]) \cap Telling(id) # {}
    <3>1. ASSUME NEW x \in Message, inbox'[r] = Append(inbox[r], x), Tells(x) \subseteq {idCounter}
          PROVE  Range(inbox'[r]) \cap Telling(id) # {} =>
                   id = idCounter \/ Range(inbox[r]) \cap Telling(id) # {}
      <4>1. x \in Telling(id) => id = idCounter
        BY <3>1, TellingOf
      <4> QED BY <1>3, <3>1, <4>1
    <3> QED BY <1>2, <3>1
  <2>3. Once(inbox'[r], Telling(id))
    <3>1. ASSUME NEW m \in Message, Tells(m) \subseteq {idCounter}
          PROVE  Once(Append(inbox[r], m), Telling(id))
      <4>1. m \in Telling(id) => Range(inbox[r]) \cap Telling(id) = {}
        BY <1>0, <1>5, <3>1, TellingOf
      <4> QED BY <1>0, <2>1, <4>1, OnceAppend
    <3> QED BY <1>2, <2>1, <3>1
  <2>4. ASSUME NEW m \in answer'[r], m \in Telling(id)
        PROVE  id \notin DOMAIN selector.buttons /\ Range(inbox'[r]) \cap Telling(id) = {}
    <3>1. id \in Tells(m)
      BY <1>0, <2>4, TellingOf
    <3>2. CASE m \in answer[r]
      BY <1>5, <2>1, <2>2, <2>4, <3>1, <3>2
    <3>3. CASE m \notin answer[r]
      <4>1. r \notin listed /\ out' = Silent
        BY <1>0, <2>4, <3>1, <3>3, NewAnswers
      <4>2. inbox'[r] = inbox[r]
        <5>1. out'.pushed = <<>>
          BY <4>1 DEF Silent, Pushes
        <5>2. inbox[r] \o <<>> = inbox[r]
          BY <1>0
        <5> QED BY <1>0, <5>1, <5>2 DEF Runs, PushMsgForJS, Basis, PageType
      <4> QED BY <2>1, <4>1, <4>2
    <3> QED BY <3>2, <3>3
  <2>5. ASSUME id \in DOMAIN selector.buttons
        PROVE  Range(inbox'[r]) \cap Telling(id) = {}
    BY <1>5, <2>1, <2>2, <2>5
  <2> QED BY <1>0, <2>1, <2>3, <2>4, <2>5
<1> QED BY <1>6, <1>7 DEF ToldOnce

\* The page reads a message.
LEMMA ReadToldOnce ==
  ASSUME Told, NEW r \in Requester, OnWsMessage(r), ToldOnce(r)
  PROVE  ToldOnce(r)'
<1>0. /\ [WebNext]_webVars /\ inbox[r] \in Seq(Message) /\ inbox[r] # <<>>
      /\ inbox'[r] = Tail(inbox[r]) /\ UNCHANGED <<answer, listed, early>>
      /\ Range(inbox[r]) = {Head(inbox[r])} \cup Range(Tail(inbox[r]))
      /\ Range(inbox[r]) \subseteq Message
  <2>1. [WebNext]_webVars /\ inbox[r] \in Seq(Message) /\ inbox[r] # <<>>
    BY DEF WebNext, Told, Basis, PageType, OnWsMessage
  <2>2. inbox'[r] = Tail(inbox[r]) /\ UNCHANGED <<answer, listed, early>>
    BY DEF Told, Basis, PageType, OnWsMessage, vars
  <2> QED BY <2>1, <2>2, MembersOf, ElementOfSeq
<1>1. ReadsTo(Head(inbox[r]))
  BY ReadingShows DEF Told
<1>2. ASSUME r \notin listed'
      PROVE  /\ DOMAIN selector'.buttons \subseteq early'[r]
             /\ \A m \in Range(inbox'[r]) : Tells(m) \subseteq early'[r]
  BY <1>0, <1>1, <1>2 DEF ToldOnce, ReadsTo
<1>3. ASSUME NEW id, id \notin early'[r]
      PROVE  /\ Once(inbox'[r], Telling(id))
             /\ id \in DOMAIN selector'.buttons \/ Range(inbox'[r]) \cap Telling(id) # {} =>
                  answer'[r] \cap Telling(id) = {}
             /\ id \in DOMAIN selector'.buttons =>
                  /\ Range(inbox'[r]) \cap Telling(id) = {}
                  /\ id \in DOMAIN tabs' /\ selector'.buttons[id] = 1
  <2>1. /\ Once(inbox[r], Telling(id))
        /\ id \in DOMAIN selector.buttons \/ Range(inbox[r]) \cap Telling(id) # {} =>
             answer[r] \cap Telling(id) = {}
        /\ id \in DOMAIN selector.buttons =>
             /\ Range(inbox[r]) \cap Telling(id) = {}
             /\ id \in DOMAIN tabs /\ selector.buttons[id] = 1
    BY <1>0, <1>3 DEF ToldOnce
  <2>2. /\ Once(inbox'[r], Telling(id))
        /\ Head(inbox[r]) \in Telling(id) => Range(inbox'[r]) \cap Telling(id) = {}
    BY <1>0, <2>1, OnceTail
  <2>3. Head(inbox[r]) \in Telling(id) <=> id \in Tells(Head(inbox[r]))
    BY <1>0, TellingOf
  <2>4. CASE id \in Tells(Head(inbox[r]))
    BY <1>0, <1>1, <2>1, <2>2, <2>3, <2>4 DEF ReadsTo
  <2>5. CASE id \notin Tells(Head(inbox[r]))
    BY <1>0, <1>1, <2>1, <2>2, <2>3, <2>5 DEF ReadsTo
  <2> QED BY <2>4, <2>5
<1> QED BY <1>2, <1>3 DEF ToldOnce

\* The server responds: what was made for the socket is on its way.
LEMMA RespondToldOnce ==
  ASSUME Told, NEW r \in Requester, Responds(r), ToldOnce(r), [WebNext]_webVars,
         selector'.buttons = selector.buttons, DOMAIN tabs' = DOMAIN tabs, UNCHANGED <<listed, early>>
  PROVE  ToldOnce(r)'
<1>0. /\ inbox[r] \in Seq(Message) /\ OneAnswer /\ AsksOnce
      /\ Range(inbox[r]) \subseteq Message
  <2>1. inbox[r] \in Seq(Message)
    BY DEF Told, Basis, PageType
  <2> QED BY <2>1, ElementOfSeq, MembersOf DEF Told, Basis
<1>1. answer'[r] = {}
  BY DEF Responds, RequestReturns, Told, Basis, TypeOK, CallersTypeOK
<1>2. \/ inbox'[r] = inbox[r]
      \/ Reaches(r) /\ \E x \in Response : answer[r] = {x} /\ inbox'[r] = Append(inbox[r], x)
  <2>1. request'[r] # request[r]
    BY DEF Responds, RequestReturns, Told, Basis, TypeOK, CallersTypeOK
  <2>2. ~Runs /\ ~OnDisconnected(r) /\ ~Leaves /\ ~OnWsMessage(r)
    BY <2>1, RunKeeps DEF Runs, OnDisconnected, Leaves, OnWsMessage, vars, callers
  <2>3. OutTypeOK'
    BY BasisStep DEF Told, Basis, TypeOK
  <2> QED BY <2>2, <2>3, InboxSteps DEF Told, Basis, PageType
<1>3. CASE inbox'[r] = inbox[r]
  BY <1>0, <1>1, <1>3 DEF ToldOnce
<1>4. ASSUME NEW x \in Response, Reaches(r), answer[r] = {x}, inbox'[r] = Append(inbox[r], x)
      PROVE  ToldOnce(r)'
  <2>0. x \in Message /\ Range(inbox'[r]) = Range(inbox[r]) \cup {x}
    BY <1>0, <1>4, MembersOf DEF Message
  <2>1. r \notin listed => Tells(x) = {}
    BY <1>4, TellingOf DEF Told, AsksOnce
  <2>2. ASSUME r \notin listed'
        PROVE  /\ DOMAIN selector'.buttons \subseteq early'[r]
               /\ \A m \in Range(inbox'[r]) : Tells(m) \subseteq early'[r]
    BY <1>0, <2>0, <2>1, <2>2 DEF ToldOnce
  <2>3. ASSUME NEW id, id \notin early'[r]
        PROVE  /\ Once(inbox'[r], Telling(id))
               /\ id \in DOMAIN selector'.buttons =>
                    /\ Range(inbox'[r]) \cap Telling(id) = {}
                    /\ id \in DOMAIN tabs' /\ selector'.buttons[id] = 1
    <3>1. /\ Once(inbox[r], Telling(id))
          /\ id \in DOMAIN selector.buttons \/ Range(inbox[r]) \cap Telling(id) # {} =>
               answer[r] \cap Telling(id) = {}
          /\ id \in DOMAIN selector.buttons =>
               /\ Range(inbox[r]) \cap Telling(id) = {}
               /\ id \in DOMAIN tabs /\ selector.buttons[id] = 1
      BY <1>0, <2>3 DEF ToldOnce
    <3>2. x \in Telling(id) => Range(inbox[r]) \cap Telling(id) = {} /\ id \notin DOMAIN selector.buttons
      BY <1>4, <3>1
    <3>3. Once(inbox'[r], Telling(id))
      BY <1>0, <1>4, <2>0, <3>1, <3>2, OnceAppend
    <3> QED BY <1>0, <2>0, <3>1, <3>2, <3>3
  <2> QED BY <1>1, <2>2, <2>3 DEF ToldOnce
<1> QED BY <1>2, <1>3, <1>4

LEMMA AllToldOnceStep ==
  ASSUME Told, AllToldOnce, [WebNext]_webVars
  PROVE  AllToldOnce'
<1>0. /\ Basis /\ SocketsInv /\ socket \in [Requester -> SocketState] /\ TypeOK /\ RequestsAccounted
      /\ [OpenNext]_vars /\ tabs \in Tabs
  BY WebIsOpen DEF Told, Basis, SocketsInv, PageType
<1>1. CASE Leaves
  <2>1. Live' = {}
    BY <1>0, <1>1 DEF Leaves, Forgets, Live, SocketState
  <2> QED BY <2>1 DEF AllToldOnce
<1>2. ASSUME NEW q \in Requester, OnDisconnected(q)
      PROVE  AllToldOnce'
  <2>1. q \in Live /\ several' = several
    BY <1>2 DEF OnDisconnected
  <2>2. Live' \subseteq Live \ {q}
    BY <1>0, <1>2 DEF OnDisconnected, Forgets, Live, SocketState
  <2>3. ~several => \A r \in Live : r = q
    BY <2>1 DEF Told, OneSocket
  <2> QED BY <2>1, <2>2, <2>3 DEF AllToldOnce
<1>3. CASE ~Clears
  <2> SUFFICES ASSUME ~several', NEW r \in Live'
               PROVE  ToldOnce(r)'
    BY DEF AllToldOnce
  <2>0. r \in Requester /\ ~several
    BY <1>0, <1>3, SocketOf DEF Live
  <2>1. CASE r \notin Live
    <3>1. Makes(r) /\ socket[r] = "none"
      BY <1>0, <1>3, <2>0, <2>1, SocketOf DEF Live
    <3>2. CreateWs(r)
      BY <3>1 DEF Makes, Opens, CountdownEnds, OnClicked
    <3>3. /\ Live = {} /\ UNCHANGED <<inbox, answer, listed, early, selector>>
      BY <3>2 DEF CreateWs, vars
    <3>4. inbox[r] = <<>> /\ request[r] = "idle"
      BY <1>0, <2>0, <3>1 DEF Basis, Listening, Reaches
    <3>5. answer[r] = {}
      BY <1>0, <2>0, <3>4, AnsweredForAll DEF Told, HostGoesOn, Answered
    <3>6. DOMAIN selector.buttons = {}
      BY <3>3 DEF Told, NoSocketNoButton
    <3> QED BY <3>3, <3>4, <3>5, <3>6, OnceInEmpty, RangesOf DEF ToldOnce
  <2>2. CASE r \in Live
    <3>0. ToldOnce(r) /\ \A q \in Live : q = r
      BY <2>0, <2>2 DEF AllToldOnce, Told, OneSocket
    <3>1. CASE Runs
      BY <2>0, <2>2, <3>0, <3>1, RunToldOnce
    <3>2. ASSUME NEW q \in Requester, OnWsMessage(q)
          PROVE  ToldOnce(r)'
      <4>1. q = r
        BY <3>0, <3>2 DEF OnWsMessage, Live
      <4> QED BY <2>0, <3>0, <3>2, <4>1, ReadToldOnce
    <3>3. CASE Responds(r)
      <4>1. request'[r] # request[r]
        BY <2>0, <3>3 DEF Responds, RequestReturns, Told, Basis, TypeOK, CallersTypeOK
      <4>2. ~Runs /\ \A q \in Requester : ~OnWsMessage(q) /\ ~Makes(q)
        BY <4>1, RunKeeps DEF Runs, OnWsMessage, Makes, Opens, CountdownEnds, OnClicked, CreateWs, vars
      <4>3. selector'.buttons = selector.buttons /\ DOMAIN tabs' = DOMAIN tabs
        BY <1>3, <4>2, ButtonSteps DEF Told
      <4>4. UNCHANGED <<listed, early>>
        BY <1>0, <1>3, <2>0, <4>2, SocketOf
      <4> QED BY <2>0, <3>0, <3>3, <4>3, <4>4, RespondToldOnce
    <3>4. CASE ~Runs /\ ~Responds(r) /\ \A q \in Requester : ~OnWsMessage(q)
      <4>1. selector'.buttons = selector.buttons /\ DOMAIN tabs' = DOMAIN tabs
        BY <1>3, <3>4, ButtonSteps DEF Told
      <4>2. inbox'[r] = inbox[r]
        BY <1>0, <1>3, <2>0, <3>4, BasisStep, InboxSteps DEF Clears, Basis, PageType, TypeOK
      <4>3. UNCHANGED <<listed, early>>
        BY <1>0, <1>3, <2>0, <3>4, SocketOf
      <4>4. \A id : answer'[r] \cap Telling(id) \subseteq answer[r] \cap Telling(id)
        <5>1. ASSUME NEW m \in answer'[r], m \notin answer[r]
              PROVE  Tells(m) = {}
          BY <2>0, <3>4, <5>1, NewAnswers
        <5> QED BY <5>1 DEF Telling
      <4> QED BY <3>0, <4>1, <4>2, <4>3, <4>4 DEF ToldOnce
    <3> QED BY <3>1, <3>2, <3>3, <3>4
  <2> QED BY <2>1, <2>2
<1> QED BY <1>1, <1>2, <1>3 DEF Clears

LEMMA ToldInit == PageInit => Told /\ AllToldOnce
<1> SUFFICES ASSUME PageInit PROVE Told /\ AllToldOnce
  OBVIOUS
<1>1. Basis /\ HostGoesOn
  BY BasisInit, HostGoesOnInit
<1>2. /\ Live = {} /\ cut = {} /\ loop = <<>> /\ listed = {}
      /\ \A r \in Requester : answer[r] = {} /\ inbox[r] = <<>> /\ sent[r] = <<>> /\ socket[r] = "none"
  BY DEF PageInit, WebInit, Init, Live
<1>3. IdsInLists /\ OneSocket /\ AsksOnce /\ AllToldOnce
  BY <1>2, RangesOf, NoTasks, OnceInEmpty DEF IdsInLists, OneSocket, AsksOnce, AllToldOnce
<1>4. selector = [buttons |-> EmptyBag, current |-> {}, container |-> {}] /\ tabs = <<>>
  BY DEF PageInit, NoSelection
<1>5. DOMAIN EmptyBag = {} /\ EmptyBag \in [DOMAIN EmptyBag -> Nat \ {0}]
  BY DEF EmptyBag, SetToBag
<1>6. selector.buttons = EmptyBag /\ selector.current = {} /\ selector.container = {} /\ DOMAIN tabs = {}
  BY <1>4
<1>7. Selects(selector, DOMAIN tabs)
  BY <1>4, <1>5, <1>6 DEF Selects, HasButtons
<1>8. IdsGiven /\ NoSocketNoButton
  BY <1>2, <1>5, <1>6, RangesOf DEF IdsGiven, NoSocketNoButton
<1> QED BY <1>1, <1>3, <1>7, <1>8 DEF Told

LEMMA ToldStep == Told /\ [WebNext]_webVars => Told'
<1> SUFFICES ASSUME Told, [WebNext]_webVars PROVE Told'
  OBVIOUS
<1>1. Basis' /\ HostGoesOn' /\ IdsInLists' /\ Selects(selector, DOMAIN tabs)'
  BY BasisStep, HostGoesOnStep, IdsInListsStep, SelectsStep DEF Told
<1>2. OneSocket' /\ AsksOnce'
  BY OneSocketStep, AsksOnceStep DEF Told, Basis
<1>3. IdsGiven' /\ NoSocketNoButton'
  BY IdsGivenStep, NoSocketNoButtonStep DEF Told
<1> QED BY <1>1, <1>2, <1>3 DEF Told

\* A module shown has one button and a module gone has none, but for the modules added
\* between the connection and the list (module.selector.js:45-62), on a page that never had
\* two sockets at once: its socket asks for the list once, and tells of each module once.
THEOREM ModulesHaveOneButton == WebSpec => []OneButtonEach
<1>1. PageInit => Told /\ AllToldOnce
  BY ToldInit
<1>2. Told /\ AllToldOnce /\ [WebNext]_webVars => (Told /\ AllToldOnce)'
  BY ToldStep, AllToldOnceStep
<1>3. Told /\ AllToldOnce => OneButtonEach
  <2> SUFFICES ASSUME Told, AllToldOnce, ~several,
                      NEW id \in DOMAIN tabs \cup DOMAIN selector.buttons, \A r \in Requester : id \notin early[r]
               PROVE  ButtonsOf(id) = IF id \in DOMAIN tabs THEN 1 ELSE 0
    BY DEF OneButtonEach, BagToSet
  <2>1. id \in DOMAIN selector.buttons /\ selector.buttons \in [DOMAIN selector.buttons -> Nat \ {0}]
    BY DEF Told, Selects, HasButtons
  <2>2. PICK r \in Live : ToldOnce(r)
    BY <2>1 DEF Told, NoSocketNoButton, AllToldOnce
  <2>3. id \in DOMAIN tabs /\ selector.buttons[id] = 1
    BY <2>1, <2>2 DEF ToldOnce, Live
  <2> QED BY <2>1, <2>3 DEF ButtonsOf, BagIn, BagToSet
<1> QED BY <1>1, <1>2, <1>3, PTL DEF WebSpec

-----------------------------------------------------------------------------
(* Values of read only properties.                                         *)

\* The types of the properties of a module, or of the fields of one on the page.
Kinds(s) == [k \in DOMAIN s |-> s[k].type]

LEMMA KindsOf ==
  /\ \A p : Kinds(AddProperties(p)) = Kinds(p)
  /\ \A p \in Seq(Property), list \in PropertyList : Kinds(SavedProperties(p, list)) = Kinds(p)
  /\ \A f \in Seq(Field) : \A g \in Alike(f) : Kinds(g) = Kinds(f)
<1>1. \A p : Kinds(AddProperties(p)) = Kinds(p)
  BY DEF Kinds, AddProperties
<1>2. ASSUME NEW p \in Seq(Property), NEW list \in PropertyList
      PROVE  Kinds(SavedProperties(p, list)) = Kinds(p)
  <2>1. DOMAIN p = 1..Len(p) /\ \A k \in 1..Len(p) : p[k] \in Property
    BY ElementOfSeq, LenProperties
  <2>2. \A x \in Property : \A v : SetValue(x, v).type = x.type
    BY DEF SetValue, Property
  <2>3. DOMAIN SavedProperties(p, list) = DOMAIN p
    BY <2>1 DEF SavedProperties
  <2>4. \A k \in DOMAIN p : SavedProperties(p, list)[k].type = p[k].type
    BY <2>1, <2>2 DEF SavedProperties
  <2> QED BY <2>3, <2>4 DEF Kinds
<1>3. ASSUME NEW f \in Seq(Field), NEW g, g \in Alike(f)
      PROVE  Kinds(g) = Kinds(f)
  <2>1. DOMAIN f = 1..Len(f) /\ DOMAIN g = 1..Len(f) /\ \A k \in 1..Len(f) : g[k].type = f[k].type
    BY <1>3, LenProperties DEF Alike
  <2> QED BY <2>1 DEF Kinds
<1> QED BY <1>1, <1>2, <1>3

\* A message changes no field of a module shown to another type, and shows a module with
\* fields of the types it tells.
LEMMA MessageKinds ==
  ASSUME NEW old \in Tabs, NEW json \in Message, NEW id \in DOMAIN OnMessage(old, json)
  PROVE  \/ id \in DOMAIN old /\ Kinds(OnMessage(old, json)[id]) = Kinds(old[id])
         \/ /\ json.type = "module_added" /\ id = json.id
            /\ Kinds(OnMessage(old, json)[id]) = Kinds(json.properties)
         \/ /\ json.type = "module_list"
            /\ \E e \in json.modules : e.id = id /\ Kinds(OnMessage(old, json)[id]) = Kinds(e.properties)
<1>0. old \in [DOMAIN old -> Seq(Field)]
  BY TabsType
<1>1. CASE json.type = "property_update"
  <2>1. OnMessage(old, json) = SetModulePoperties(old, json.id, json.properties)
    BY <1>1 DEF OnMessage
  <2>2. json.properties \in PropertyList
    BY <1>1 DEF Message, PushedMsg, Response, AddedMsg, RemovedMsg, UpdateMsg, ListMsg, EmptyMsg
  <2>3. /\ DOMAIN SetModulePoperties(old, json.id, json.properties) = DOMAIN old
        /\ \A i \in DOMAIN old : SetModulePoperties(old, json.id, json.properties)[i] \in Alike(old[i])
    BY <2>2, SetModulePopertiesType
  <2> QED BY <1>0, <2>1, <2>3, KindsOf
<1>2. CASE json.type = "module_added"
  <2>1. OnMessage(old, json) = CrateModule(old, json)
    BY <1>2 DEF OnMessage
  <2>2. CASE id = json.id
    BY <1>2, <2>1, <2>2, KindsOf DEF CrateModule
  <2>3. CASE id # json.id
    BY <2>1, <2>3 DEF CrateModule
  <2> QED BY <2>2, <2>3
<1>3. CASE json.type = "module_removed"
  <2>1. OnMessage(old, json) = DeleteModule(old, json.id)
    BY <1>3 DEF OnMessage
  <2> QED BY <2>1 DEF DeleteModule, Restrict
<1>4. CASE json.type = "module_list"
  <2>1. OnMessage(old, json) = CrateModules(old, json.modules)
    BY <1>4 DEF OnMessage
  <2>2. CASE \E entry \in json.modules : entry.id = id
    <3>1. PICK e : e = CHOOSE entry \in json.modules : entry.id = id
      OBVIOUS
    <3>2. e \in json.modules /\ e.id = id
      BY <2>2, <3>1
    <3>3. OnMessage(old, json)[id] = AddProperties(e.properties)
      BY <2>1, <2>2, <3>1 DEF CrateModules
    <3> QED BY <1>4, <3>2, <3>3, KindsOf
  <2>3. CASE ~\E entry \in json.modules : entry.id = id
    BY <2>1, <2>3 DEF CrateModules
  <2> QED BY <2>2, <2>3
<1>5. CASE json.type \notin {"property_update", "module_added", "module_removed", "module_list"}
  BY <1>5 DEF OnMessage
<1> QED BY <1>1, <1>2, <1>3, <1>4, <1>5

\* What the user does changes no field to another type.
LEMMA UserKinds ==
  ASSUME tabs \in Tabs, UserStep
  PROVE  DOMAIN tabs' = DOMAIN tabs /\ \A id \in DOMAIN tabs : Kinds(tabs'[id]) = Kinds(tabs[id])
<1>0. tabs \in [DOMAIN tabs -> Seq(Field)]
  BY TabsType
<1>1. ASSUME NEW i \in DOMAIN tabs, NEW k \in DOMAIN tabs[i], NEW text,
             tabs' = [tabs EXCEPT ![i][k].text = text]
      PROVE  DOMAIN tabs' = DOMAIN tabs /\ \A id \in DOMAIN tabs : Kinds(tabs'[id]) = Kinds(tabs[id])
  <2>1. tabs' = [tabs EXCEPT ![i] = [tabs[i] EXCEPT ![k].text = text]]
    BY <1>1
  <2>2. \A id \in DOMAIN tabs : id # i => tabs'[id] = tabs[id]
    BY <2>1
  <2>3. tabs'[i] = [tabs[i] EXCEPT ![k] = [tabs[i][k] EXCEPT !.text = text]]
    BY <1>1
  <2>4. tabs[i][k] \in Field
    BY <1>0, ElementOfSeq, LenProperties
  <2>5. [tabs[i][k] EXCEPT !.text = text].type = tabs[i][k].type
    BY <2>4 DEF Field
  <2>6. DOMAIN tabs'[i] = DOMAIN tabs[i] /\ \A j \in DOMAIN tabs[i] : tabs'[i][j].type = tabs[i][j].type
    BY <2>3, <2>5
  <2>7. Kinds(tabs'[i]) = Kinds(tabs[i])
    BY <2>6 DEF Kinds
  <2> QED BY <1>1, <2>2, <2>7
<1>2. ASSUME UNCHANGED tabs
      PROVE  DOMAIN tabs' = DOMAIN tabs /\ \A id \in DOMAIN tabs : Kinds(tabs'[id]) = Kinds(tabs[id])
  BY <1>2
<1> QED BY <1>1, <1>2 DEF UserStep, SelectModule, OnPropertiesActivated, OnPropertyActivated, Writes

\* The page has, and is told of, the types of the properties a module is stored with.
Fits(id, s) == id \in DOMAIN modules => Kinds(s) = Kinds(modules[id].properties)
FitsAll(m) ==
  /\ m.type = "module_added" => Fits(m.id, m.properties)
  /\ m.type = "module_list" => \A e \in m.modules : Fits(e.id, e.properties)
KindsAgree ==
  /\ \A id \in DOMAIN tabs : Fits(id, tabs[id])
  /\ \A r \in Requester : \A m \in answer[r] \cup Range(inbox[r]) : FitsAll(m)

\* A module keeps the types of its properties.
LEMMA ModulesStay ==
  ASSUME Basis, [WebNext]_webVars, NEW id \in DOMAIN modules'
  PROVE  \/ id = idCounter
         \/ id \in DOMAIN modules /\ Kinds(modules'[id].properties) = Kinds(modules[id].properties)
<1>1. CASE UNCHANGED modules
  BY <1>1
<1>2. CASE Runs
  <2>1. \/ id = idCounter
        \/ /\ id \in DOMAIN modules
           /\ \/ modules'[id] = modules[id]
              \/ \E list \in PropertyList :
                   modules'[id].properties = SavedProperties(modules[id].properties, list)
    BY <1>2, TaskModules DEF Basis, Runs
  <2>2. id \in DOMAIN modules => modules[id].properties \in Seq(Property)
    BY DEF Basis, TypeOK, ModulesTypeOK, ModuleType
  <2> QED BY <2>1, <2>2, KindsOf
<1> QED BY <1>1, <1>2, CounterSteps

LEMMA FitsStays ==
  ASSUME Basis, [WebNext]_webVars, NEW id \in 0..(idCounter - 1), NEW s, Fits(id, s)
  PROVE  Fits(id, s)'
<1>1. id # idCounter
  BY DEF Basis, TypeOK, ModulesTypeOK
<1>2. ASSUME id \in DOMAIN modules'
      PROVE  Kinds(s) = Kinds(modules'[id].properties)
  BY <1>1, <1>2, ModulesStay DEF Fits
<1> QED BY <1>2 DEF Fits

LEMMA FitsAllStays ==
  ASSUME Basis, [WebNext]_webVars, NEW m, Tells(m) \subseteq 0..(idCounter - 1), FitsAll(m)
  PROVE  FitsAll(m)'
<1>1. ASSUME m.type = "module_added"
      PROVE  Fits(m.id, m.properties)'
  <2>1. m.id \in 0..(idCounter - 1) /\ Fits(m.id, m.properties)
    BY <1>1 DEF Tells, FitsAll
  <2> QED BY <2>1, FitsStays
<1>2. ASSUME m.type = "module_list", NEW e \in m.modules
      PROVE  Fits(e.id, e.properties)'
  <2>1. e.id \in 0..(idCounter - 1) /\ Fits(e.id, e.properties)
    BY <1>2 DEF Tells, Listed, FitsAll
  <2> QED BY <2>1, FitsStays
<1> QED BY <1>1, <1>2 DEF FitsAll

LEMMA KindsAgreeStep ==
  ASSUME Told, KindsAgree, [WebNext]_webVars
  PROVE  KindsAgree'
<1>0. /\ Basis /\ TypeOK /\ RequestsAccounted /\ [OpenNext]_vars /\ SocketsInv /\ tabs \in Tabs
      /\ \A r \in Requester : inbox[r] \in Seq(Message)
      /\ \A id \in DOMAIN tabs : id \in 0..(idCounter - 1)
      /\ \A r \in Requester : \A m \in answer[r] \cup Range(inbox[r]) : Tells(m) \subseteq 0..(idCounter - 1)
  BY WebIsOpen DEF Told, Basis, PageType, IdsGiven, Selects
<1>1. ASSUME NEW r \in Requester, NEW m \in answer'[r]
      PROVE  FitsAll(m)'
  <2>1. CASE m \in answer[r]
    BY <1>0, <2>1, FitsAllStays DEF KindsAgree
  <2>2. CASE m = Empty
    BY <2>2 DEF FitsAll, Empty
  <2>3. CASE m = CreateModuleList(modules) /\ modules' = modules
    <3>1. m.type = "module_list" /\ \A e \in m.modules : e.properties = modules[e.id].properties
      BY <2>3 DEF CreateModuleList
    <3> QED BY <2>3, <3>1 DEF FitsAll, Fits
  <2> QED BY <1>0, <1>1, <2>1, <2>2, <2>3, AnswerSteps
<1>2. ASSUME NEW r \in Requester, NEW m \in Range(inbox'[r])
      PROVE  FitsAll(m)'
  <2>1. CASE m \in answer[r] \cup Range(inbox[r])
    BY <1>0, <2>1, FitsAllStays DEF KindsAgree
  <2>2. CASE Presents(m)
    BY <2>2 DEF Presents, FitsAll, Fits
  <2> QED BY <1>0, <1>2, <2>1, <2>2, ArrivesFrom
<1>3. ASSUME NEW id \in DOMAIN tabs'
      PROVE  Fits(id, tabs[id])'
  <2>1. CASE id \in DOMAIN tabs /\ Kinds(tabs'[id]) = Kinds(tabs[id])
    <3>1. PICK s : s = tabs[id]
      OBVIOUS
    <3>2. Fits(id, s)'
      BY <1>0, <2>1, <3>1, FitsStays DEF KindsAgree
    <3> QED BY <2>1, <3>1, <3>2 DEF Fits
  <2>2. CASE UserStep
    BY <1>0, <1>3, <2>1, <2>2, UserKinds
  <2>3. ASSUME NEW q \in Requester, OnWsMessage(q)
        PROVE  Fits(id, tabs[id])'
    <3>1. PICK json : /\ json = Head(inbox[q]) /\ inbox[q] # <<>> /\ tabs' = OnMessage(tabs, json)
                      /\ UNCHANGED modules
      BY <2>3 DEF OnWsMessage, vars
    <3>2. json \in Range(inbox[q]) /\ json \in Message
      BY <1>0, <3>1, MembersOf
    <3>3. FitsAll(json)
      BY <3>2 DEF KindsAgree
    <3>4. PICK old : old = tabs
      OBVIOUS
    <3>5. \/ id \in DOMAIN tabs /\ Kinds(tabs'[id]) = Kinds(tabs[id])
          \/ /\ json.type = "module_added" /\ id = json.id
             /\ Kinds(tabs'[id]) = Kinds(json.properties)
          \/ /\ json.type = "module_list"
             /\ \E e \in json.modules : e.id = id /\ Kinds(tabs'[id]) = Kinds(e.properties)
      BY <1>0, <1>3, <3>1, <3>2, <3>4, MessageKinds
    <3> QED BY <2>1, <3>1, <3>3, <3>5 DEF FitsAll, Fits
  <2>4. CASE Clears
    <3>1. tabs' = <<>>
      BY <2>4 DEF Clears, Leaves, OnDisconnected, Clear
    <3>2. DOMAIN tabs' = {}
      BY <3>1
    <3> QED BY <1>3, <3>2
  <2>5. ASSUME UNCHANGED tabs
        PROVE  Fits(id, tabs[id])'
    BY <1>3, <2>1, <2>5
  <2>6. CASE (InstanceStep /\ PageKept) \/ Runs \/ UNCHANGED webVars
    BY <2>5, <2>6 DEF PageKept, Runs, browser, webVars
  <2>7. ASSUME NEW r \in Requester, Serves(r) \/ Makes(r) \/ OnConnected(r)
        PROVE  Fits(id, tabs[id])'
    BY <2>5, <2>7 DEF Serves, Makes, Opens, CountdownEnds, OnClicked, CreateWs, OnConnected, browser
  <2> QED BY <2>2, <2>3, <2>4, <2>6, <2>7, WebSteps DEF Clears
<1> QED BY <1>1, <1>2, <1>3 DEF KindsAgree

-----------------------------------------------------------------------------
(* What the page sends.                                                    *)

ReadOnlyType == {"TEXT_RO", "TEXT_AREA_RO", "LOG"}

\* An assignment from the page is to no read only property of a module that is there.
SparesKinds(kinds, list) ==
  \A i \in DOMAIN list : list[i].id + 1 \in DOMAIN kinds => kinds[list[i].id + 1] \notin ReadOnlyType
Spares(id, list) ==
  /\ id \in 0..(idCounter - 1)
  /\ id \in DOMAIN modules => SparesKinds(Kinds(modules[id].properties), list)
SparesReadOnly ==
  /\ \A r \in Requester : \A m \in Range(sent[r]) : m.type = "apply" => Spares(m.id, m.properties)
  /\ \A task \in Tasks :
       /\ task.op = "DoProcessJSRequest" /\ task.json.type = "apply" =>
            Spares(task.json.id, task.json.properties)
       /\ task.op = "DoRegisterModule" => task.module \in Definition
       /\ task.op = "SavePropertiesList" => task.properties \in UpdateList

LEMMA SparesStays ==
  ASSUME Basis, [WebNext]_webVars, NEW id, NEW list, Spares(id, list)
  PROVE  Spares(id, list)'
<1>1. id \in 0..(idCounter' - 1)
  BY CounterSteps DEF Spares
<1>2. id # idCounter
  BY CounterSteps DEF Spares
<1>3. ASSUME id \in DOMAIN modules'
      PROVE  SparesKinds(Kinds(modules'[id].properties), list)
  <2>1. id \in DOMAIN modules /\ Kinds(modules'[id].properties) = Kinds(modules[id].properties)
    BY <1>2, <1>3, ModulesStay
  <2> QED BY <2>1 DEF Spares
<1> QED BY <1>1, <1>3 DEF Spares

\* What the user sends.
LEMMA UserSpares ==
  ASSUME Told, KindsAgree, UserStep
  PROVE  \/ sent' = sent
         \/ \E m : Send(m) /\ m \in Request /\ m.type = "apply" /\ Spares(m.id, m.properties)
<1>0. tabs \in Tabs /\ \A id \in DOMAIN tabs : id \in 0..(idCounter - 1) /\ id \in Int
  BY TabsType DEF Told, Basis, PageType, Selects, IdsGiven
<1>1. ASSUME NEW id \in DOMAIN tabs, NEW list \in PropertyList,
             Send(CreatePropertiesUpdated(id, list)), AreSent(tabs[id], list)
      PROVE  \E m : Send(m) /\ m \in Request /\ m.type = "apply" /\ Spares(m.id, m.properties)
  <2>1. PICK m : m = CreatePropertiesUpdated(id, list)
    OBVIOUS
  <2>2. m.type = "apply" /\ m.id = id /\ m.properties = list
    BY <2>1 DEF CreatePropertiesUpdated
  <2>3. m \in Request
    BY <1>0, <2>1 DEF CreatePropertiesUpdated, Request, ApplyMsg
  <2>4. SparesKinds(Kinds(tabs[id]), list)
    <3>1. \A type \in ReadOnlyType : IsIndependent(type) /\ ~HasOwnControl(type)
      BY DEF ReadOnlyType, IsIndependent, HasOwnControl
    <3> QED BY <1>1, <3>1 DEF SparesKinds, Kinds, AreSent
  <2>5. Spares(id, list)
    BY <1>0, <2>4 DEF Spares, KindsAgree, Fits
  <2> QED BY <1>1, <2>1, <2>2, <2>3, <2>5
<1> QED BY <1>0, <1>1, UserSends DEF Sends

LEMMA SparesReadOnlyStep ==
  ASSUME Told, KindsAgree, SparesReadOnly, [WebNext]_webVars
  PROVE  SparesReadOnly'
<1>0. Basis /\ sent \in [Requester -> Seq(Request)]
  BY DEF Told, Basis, PageType
<1>1. ASSUME NEW r \in Requester, NEW m \in Range(sent'[r]), m.type = "apply"
      PROVE  Spares(m.id, m.properties)'
  <2>1. CASE m \in Range(sent[r])
    BY <1>0, <1>1, <2>1, SparesStays DEF SparesReadOnly
  <2>2. CASE m = CreateLoadModules
    BY <1>1, <2>2 DEF CreateLoadModules
  <2>3. CASE UserStep
    <3>1. ASSUME NEW x \in Request, Send(x), Spares(x.id, x.properties)
          PROVE  Spares(m.id, m.properties)'
      <4>1. sent'[r] = sent[r] \/ sent'[r] = Append(sent[r], x)
        BY <3>1 DEF Send
      <4>2. Range(Append(sent[r], x)) = Range(sent[r]) \cup {x}
        BY <1>0, MembersOf
      <4> QED BY <1>0, <1>1, <2>1, <3>1, <4>1, <4>2, SparesStays
    <3> QED BY <1>1, <2>1, <2>3, <3>1, UserSpares
  <2>4. CASE ~UserStep
    <3>1. CreateLoadModules \in Request
      BY DEF CreateLoadModules, Request, LoadMsg
    <3>2. Range(Append(sent[r], CreateLoadModules)) = Range(sent[r]) \cup {CreateLoadModules}
      BY <1>0, <3>1, MembersOf
    <3>3. sent[r] # <<>> => Range(Tail(sent[r])) \subseteq Range(sent[r])
      BY <1>0, MembersOf
    <3>4. \/ sent'[r] = sent[r] \/ sent'[r] = <<>> \/ sent'[r] = Append(sent[r], CreateLoadModules)
          \/ sent[r] # <<>> /\ sent'[r] = Tail(sent[r])
      BY <1>0, <2>4, SentOf
    <3> QED BY <1>1, <2>1, <2>2, <3>2, <3>3, <3>4, RangesOf
  <2> QED BY <2>3, <2>4
<1>2. ASSUME NEW task \in Tasks', task \notin Tasks
      PROVE  /\ task.op = "DoProcessJSRequest" =>
                  \E r \in Requester : sent[r] # <<>> /\ task.json = Head(sent[r])
             /\ task.op = "DoRegisterModule" => task.module \in Definition
             /\ task.op = "SavePropertiesList" => task.properties \in UpdateList
  <2>1. PostedBy(task)
    BY <1>0, <1>2, PostsOf
  <2>2. /\ task = [op |-> "OnProxyInitialized", host |-> TRUE] => task.op = "OnProxyInitialized"
        /\ \A module, to : task = [op |-> "DoRegisterModule", module |-> module, to |-> to] =>
             task.op = "DoRegisterModule" /\ task.module = module
        /\ \A id : task = [op |-> "UnregisterModule", id |-> id] => task.op = "UnregisterModule"
        /\ \A id, list : task = [op |-> "SavePropertiesList", id |-> id, properties |-> list] =>
             task.op = "SavePropertiesList" /\ task.properties = list
        /\ \A msg : task = [op |-> "HandleMessage", msg |-> msg] => task.op = "HandleMessage"
        /\ \A json, to : task = [op |-> "DoProcessJSRequest", json |-> json, to |-> to] =>
             task.op = "DoProcessJSRequest" /\ task.json = json
    OBVIOUS
  <2>3. \/ task.op \in {"OnProxyInitialized", "UnregisterModule", "HandleMessage"}
        \/ task.op = "DoRegisterModule" /\ \E module \in Definition : task.module = module
        \/ task.op = "SavePropertiesList" /\ \E list \in UpdateList : task.properties = list
        \/ /\ task.op = "DoProcessJSRequest"
           /\ \E r \in Requester : sent[r] # <<>> /\ task.json = Head(sent[r])
    BY ONLY <2>1, <2>2, Zenon DEF PostedBy
  <2> QED BY ONLY <2>3
<1>3. ASSUME NEW task \in Tasks'
      PROVE  /\ task.op = "DoProcessJSRequest" /\ task.json.type = "apply" =>
                  Spares(task.json.id, task.json.properties)'
             /\ task.op = "DoRegisterModule" => task.module \in Definition
             /\ task.op = "SavePropertiesList" => task.properties \in UpdateList
  <2>1. task.op = "DoProcessJSRequest" /\ task.json.type = "apply" => Spares(task.json.id, task.json.properties)
    <3>1. \A r \in Requester : sent[r] # <<>> => Head(sent[r]) \in Range(sent[r])
      BY <1>0, MembersOf
    <3> QED BY <1>2, <3>1 DEF SparesReadOnly
  <2>2. PICK id, list : id = task.json.id /\ list = task.json.properties
    OBVIOUS
  <2>3. Spares(id, list) => Spares(id, list)'
    BY <1>0, SparesStays
  <2> QED BY <1>2, <2>1, <2>2, <2>3 DEF SparesReadOnly
<1> QED BY <1>1, <1>3 DEF SparesReadOnly

\* What is stored of an update: a property it assigns to takes one of its values.
LEMMA SavedValues ==
  ASSUME NEW p \in Seq(Property), NEW list \in PropertyList, NEW k \in DOMAIN p
  PROVE  \/ SavedProperties(p, list)[k] = p[k]
         \/ \E i \in DOMAIN list : list[i].id + 1 = k /\ SavedProperties(p, list)[k].value = list[i].value
<1>1. /\ DOMAIN p = 1..Len(p) /\ p[k] \in Property /\ DOMAIN list = 1..Len(list) /\ k \in Int
      /\ \A i \in DOMAIN list : list[i] \in Assignment
  BY ElementOfSeq, LenProperties DEF PropertyList
<1>2. SavedProperties(p, list)[k] =
        IF LastTo(list, k - 1) = {} THEN p[k]
        ELSE SetValue(p[k], list[CHOOSE i \in LastTo(list, k - 1) : TRUE].value)
  BY <1>1 DEF SavedProperties
<1>3. CASE LastTo(list, k - 1) # {}
  <2>1. PICK i : i = CHOOSE j \in LastTo(list, k - 1) : TRUE
    OBVIOUS
  <2>2. i \in LastTo(list, k - 1)
    BY <1>3, <2>1
  <2>3. i \in DOMAIN list /\ list[i].id = k - 1
    BY <1>1, <2>2 DEF LastTo
  <2>4. list[i].id + 1 = k
    BY <1>1, <2>3 DEF Assignment
  <2>5. SetValue(p[k], list[i].value) = p[k] \/ SetValue(p[k], list[i].value).value = list[i].value
    BY <1>1 DEF SetValue, Property
  <2> QED BY <1>2, <1>3, <2>1, <2>3, <2>4, <2>5
<1> QED BY <1>2, <1>3

\* What is stored is the application's, or spares the properties the user cannot change.
LEMMA SavesKeep ==
  ASSUME ReadOnlyKept, modules \in [DOMAIN modules -> ModuleType], NEW id, NEW list \in PropertyList,
         SavePropertiesList(id, list),
         \/ \A i \in DOMAIN list : list[i].value # "typed"
         \/ id \in DOMAIN modules => SparesKinds(Kinds(modules[id].properties), list)
  PROVE  ReadOnlyKept'
<1>1. DOMAIN modules' = DOMAIN modules
  BY DEF SavePropertiesList
<1>2. ASSUME NEW i \in DOMAIN modules, NEW k \in DOMAIN modules'[i].properties,
             modules'[i].properties[k].type \in ReadOnlyType
      PROVE  modules'[i].properties[k].value # "typed"
  <2>1. CASE i # id
    BY <1>2, <2>1 DEF SavePropertiesList, ReadOnlyKept, ReadOnlyType
  <2>2. CASE i = id
    <3>0. PICK p : p = modules[i].properties
      OBVIOUS
    <3>1. p \in Seq(Property) /\ modules'[i].properties = SavedProperties(p, list)
      BY <2>2, <3>0 DEF SavePropertiesList, ModuleType
    <3>2. /\ DOMAIN SavedProperties(p, list) = DOMAIN p /\ k \in DOMAIN p
          /\ p[k].type \in ReadOnlyType
      <4>1. Kinds(SavedProperties(p, list)) = Kinds(p)
        BY <3>1, KindsOf
      <4>2. DOMAIN Kinds(SavedProperties(p, list)) = DOMAIN SavedProperties(p, list)
            /\ DOMAIN Kinds(p) = DOMAIN p
        BY DEF Kinds
      <4>3. Kinds(SavedProperties(p, list))[k] = SavedProperties(p, list)[k].type /\ Kinds(p)[k] = p[k].type
        BY <1>2, <3>1, <4>1, <4>2 DEF Kinds
      <4> QED BY <1>2, <3>1, <4>1, <4>2, <4>3
    <3>3. p[k].value # "typed"
      BY <3>0, <3>2 DEF ReadOnlyKept, ReadOnlyType
    <3>4. ASSUME NEW j \in DOMAIN list, list[j].id + 1 = k
          PROVE  list[j].value # "typed"
      <4>1. k \in DOMAIN Kinds(p) /\ Kinds(p)[k] \in ReadOnlyType
        BY <3>2 DEF Kinds
      <4>2. ~SparesKinds(Kinds(p), list)
        BY <3>4, <4>1 DEF SparesKinds
      <4> QED BY <2>2, <3>0, <4>2
    <3> QED BY <3>1, <3>2, <3>3, <3>4, SavedValues
  <2> QED BY <2>1, <2>2
<1> QED BY <1>1, <1>2 DEF ReadOnlyKept, ReadOnlyType

LEMMA ReadOnlyKeptStep ==
  ASSUME Told, KindsAgree, SparesReadOnly, ReadOnlyKept, [WebNext]_webVars
  PROVE  ReadOnlyKept'
<1>0. Basis /\ TypeOK /\ modules \in [DOMAIN modules -> ModuleType] /\ DOMAIN modules \subseteq Int
      /\ idCounter \notin DOMAIN modules
  BY DEF Told, Basis, TypeOK, ModulesTypeOK
<1>1. CASE UNCHANGED modules
  BY <1>1 DEF ReadOnlyKept
<1>2. CASE Runs
  <2>1. Head(loop) \in Tasks
    BY <1>0, <1>2, RunStep DEF Basis
  <2>2. CASE DoRegisterModule
    <3>1. Insert(idCounter, Head(loop).module) /\ Head(loop).module \in Definition
      BY <2>1, <2>2 DEF DoRegisterModule, Takes, SparesReadOnly
    <3>2. \A k \in DOMAIN Head(loop).module.properties :
            Head(loop).module.properties[k].value # "typed"
      BY <3>1, TypedAssumption
    <3>3. /\ DOMAIN modules' = DOMAIN modules \cup {idCounter}
          /\ \A i \in DOMAIN modules' :
               modules'[i] = IF i \in DOMAIN modules THEN modules[i] ELSE Head(loop).module
      BY <3>1 DEF Insert
    <3> QED BY <3>2, <3>3 DEF ReadOnlyKept
  <2>3. CASE UnregisterModule
    <3>1. Erase(Head(loop).id)
      BY <2>3 DEF UnregisterModule
    <3>2. \A i \in DOMAIN modules' : i \in DOMAIN modules /\ modules'[i] = modules[i]
      BY <3>1 DEF Erase, Restrict
    <3> QED BY <3>2 DEF ReadOnlyKept
  <2>4. CASE SaveUpdate
    <3>1. /\ SavePropertiesList(Head(loop).id, Head(loop).properties)
          /\ Head(loop).properties \in UpdateList
      BY <2>1, <2>4 DEF SaveUpdate, Takes, SparesReadOnly
    <3>2. PICK id, list : id = Head(loop).id /\ list = Head(loop).properties
      OBVIOUS
    <3> QED BY <1>0, <3>1, <3>2, SavesKeep, TypedAssumption, ConstantsAssumption
  <2>5. CASE DoProcessJSRequest
    <3>1. PICK json, to : json = Head(loop).json /\ to = {Head(loop).to}
      OBVIOUS
    <3>2. CASE json.type = "apply" /\ PassPropertyUpdateToModule(json, to)
      <4>1. Spares(json.id, json.properties)
        BY <2>1, <2>5, <3>1, <3>2 DEF DoProcessJSRequest, Takes, SparesReadOnly
      <4>2. FindId(json) = json.id /\ GetPropertiesList(json) = json.properties
        BY <3>2 DEF FindId, GetPropertiesList
      <4>3. json \in Request
        BY <1>0, <2>1, <2>5, <3>1, TasksOf DEF DoProcessJSRequest, Takes, Task
      <4>4. json.properties \in PropertyList
        BY <3>2, <4>3 DEF Request, ApplyMsg, LoadMsg, Malformed, UnknownType
      <4>5. PICK id, list : id = json.id /\ list = json.properties
        OBVIOUS
      <4>6. UNCHANGED modules \/ SavePropertiesList(id, list)
        BY <3>2, <4>2, <4>5 DEF PassPropertyUpdateToModule
      <4>7. id \in DOMAIN modules => SparesKinds(Kinds(modules[id].properties), list)
        BY <4>1, <4>5 DEF Spares
      <4> QED BY <1>0, <1>1, <4>4, <4>5, <4>6, <4>7, SavesKeep
    <3>3. CASE UNCHANGED modules
      BY <1>1, <3>3
    <3> QED BY <2>5, <3>1, <3>2, <3>3 DEF DoProcessJSRequest
  <2>6. CASE OnProxyInitialized \/ PushUpdate
    BY <1>1, <2>6 DEF OnProxyInitialized, PushUpdate
  <2>7. ~PassPeerUpdate
    BY <2>1 DEF PassPeerUpdate, Takes, Told, HostGoesOn
  <2> QED BY <1>2, <2>2, <2>3, <2>4, <2>5, <2>6, <2>7 DEF Runs, RunTask
<1> QED BY <1>0, <1>1, <1>2, CounterSteps

\* The value of a read only text or log is modified by the application only
\* (README.md:96-98): what a page sends assigns to none, because its fields have the
\* types the module is stored with, also when it is told of the module again or hears of
\* it after it is gone (properties.js:207-218,281-297, ModuleManager.cpp:213-224).
THEOREM ReadOnlyValuesKept == WebSpec => []ReadOnlyKept
<1>1. PageInit => Told /\ KindsAgree /\ SparesReadOnly /\ ReadOnlyKept
  <2> SUFFICES ASSUME PageInit PROVE Told /\ KindsAgree /\ SparesReadOnly /\ ReadOnlyKept
    OBVIOUS
  <2>1. /\ loop = <<>> /\ tabs = <<>> /\ modules = <<>>
        /\ \A r \in Requester : answer[r] = {} /\ inbox[r] = <<>> /\ sent[r] = <<>>
    BY DEF PageInit, WebInit, Init
  <2>2. DOMAIN tabs = {} /\ DOMAIN modules = {}
    BY <2>1
  <2> QED BY <2>1, <2>2, ToldInit, NoTasks, RangesOf DEF KindsAgree, SparesReadOnly, ReadOnlyKept
<1>2. Told /\ KindsAgree /\ SparesReadOnly /\ ReadOnlyKept /\ [WebNext]_webVars
        => (Told /\ KindsAgree /\ SparesReadOnly /\ ReadOnlyKept)'
  BY ToldStep, KindsAgreeStep, SparesReadOnlyStep, ReadOnlyKeptStep
<1> QED BY <1>1, <1>2, PTL DEF WebSpec

-----------------------------------------------------------------------------
(* What a field comes to, and what its property comes to.                  *)

\* What a task stores in property k of a module, and what it passes on to the pages; and
\* what a thread that has stored an update is about to pass on.
Stores(id, k) ==
  [task \in Task |-> IF task.op = "SavePropertiesList" /\ task.id = id
                     THEN GivenBy(task.properties, k) ELSE {}]
Passes(id, k) ==
  [task \in Task |-> IF task.op = "HandleMessage" /\ task.msg.id = id
                     THEN GivenBy(task.msg.properties, k) ELSE {}]
Updating(id) == {t \in Thread : app[t].at = "updating" /\ app[t].id = id}
Due(id, k) == UNION {GivenBy(app[t].properties, k) : t \in Updating(id)}

\* What a page shows, to come to what the store comes to: the members of the queue
\* store values and pass them on to the page, and the last one may be due to be passed.
Comings(s, stores, passes, stored, due) ==
  {b \in Value : \E v \in Value :
     /\ EndsIn(s, stores, stored, v)
     /\ IF due # {} THEN v \in due ELSE EndsIn(s, passes, b, v)}

\* What is stored is passed later.
AllPassed(s, stores, passes, due) ==
  \/ due # {}
  \/ \A i \in 1..Len(s) : stores[s[i]] # {} => \E j \in (i + 1)..Len(s) : passes[s[j]] # {}

\* The values a field of a page can show now, for it to show in the end what is stored.
Meeting(id, k) ==
  Comings(loop, Stores(id, k), Passes(id, k), modules[id].properties[k].value, Due(id, k))
Passed(id, k) == AllPassed(loop, Stores(id, k), Passes(id, k), Due(id, k))

\* The values a message gives a property on the page, and whether it says that the module
\* is there.
Changes(id, k) ==
  [m \in Message |->
     IF m.type = "property_update" THEN IF m.id = id THEN GivenBy(m.properties, k) ELSE {}
     ELSE IF m.type = "module_added" THEN IF m.id = id THEN {m.properties[k].value} ELSE {}
     ELSE IF m.type = "module_list" THEN {e.properties[k].value : e \in {e \in m.modules : e.id = id}}
     ELSE {}]
Presence(id) ==
  [m \in Message |-> IF id \in Tells(m) THEN {TRUE}
                     ELSE IF m.type = "module_removed" /\ m.id = id THEN {FALSE} ELSE {}]

\* What a socket brings last is good, and so is the list made for it, unless the module
\* changed while a list was on its way.
Brings(r, id, given, good) ==
  id \notin overtaken[r] =>
    /\ EndsAmong(inbox[r], given, good)
    /\ Reaches(r) => \A m \in answer[r] : given[m] \subseteq good
\* Nothing on its way is about the module, and nothing overtook a list.
Rests(id, given) ==
  \A r \in Requester : id \notin overtaken[r] /\ GivesNothing(inbox[r], given)

\* What there is to know of a module: one that is gone is gone for good.
Here(id) == IF id \in DOMAIN modules THEN {TRUE, FALSE} ELSE {FALSE}

\* What is stored, what is on its way and what is shown all come to one value; and what is
\* on its way and what is shown come to the modules there are.
ValueFollows(id, k) ==
  /\ Passed(id, k) /\ modules[id].properties[k].value \in Meeting(id, k)
  /\ \A r \in Requester : Brings(r, id, Changes(id, k), Meeting(id, k))
  /\ id \in DOMAIN tabs /\ Rests(id, Changes(id, k)) /\ <<id, k - 1>> \notin written =>
       \E b \in Meeting(id, k) : Looks(tabs[id][k], b)
ModuleFollows(id) ==
  /\ \A r \in Requester : Brings(r, id, Presence(id), Here(id))
  /\ id \in DOMAIN tabs /\ Rests(id, Presence(id)) => id \in DOMAIN modules

ValuesInv ==
  \A id \in DOMAIN modules : \A k \in 1..Len(modules[id].properties) :
    ~modules[id].properties[k].read_only /\ <<id, k - 1>> \notin applied => ValueFollows(id, k)
ModulesInv == \A id \in 0..(idCounter - 1) : ModuleFollows(id)

\* What a page sends is of properties it is known to have sent.
AppliedInv ==
  /\ \A r \in Requester : \A m \in Range(sent[r]) : m.type = "apply" =>
       \A i \in DOMAIN m.properties : <<m.id, m.properties[i].id>> \in applied
  /\ \A task \in Tasks : task.op = "DoProcessJSRequest" /\ task.json.type = "apply" =>
       \A i \in DOMAIN task.json.properties : <<task.json.id, task.json.properties[i].id>> \in applied

\* One thread of the application changes modules.
OneThread == \A t, u \in Thread : t = u

-----------------------------------------------------------------------------
(* The updates.                                                            *)

\* An update waits for a module that has its id, and names properties it has.
UpdatesInv ==
  /\ \A id \in DOMAIN modules : \A list \in UpdateList : AllWithin(list, Len(modules[id].properties))
  /\ \A task \in Tasks :
       /\ task.op = "SavePropertiesList" => task.id < idCounter
       /\ task.op = "HandleMessage" => task.msg.id < idCounter /\ task.msg.properties \in UpdateList
  /\ \A t \in Thread : app[t].at = "updating" => app[t].id < idCounter /\ app[t].properties \in UpdateList
  /\ \A r \in Requester : \A m \in Range(inbox[r]) :
       m.type = "property_update" => m.id < idCounter /\ m.properties \in UpdateList

\* What is pushed: the module that is registered, the one that goes, or an update.
PushedBy(m) ==
  \/ DoRegisterModule /\ m = CreateModuleAdded(idCounter, modules'[idCounter])
  \/ UnregisterModule /\ m = CreateModuleRemoved(Head(loop).id)
  \/ PushUpdate /\ m = Head(loop).msg
Pushing == DoRegisterModule \/ UnregisterModule \/ PushUpdate

\* What is pushed to a page in one step is one message at most.
LEMMA PushIs ==
  ASSUME Basis, Runs, NEW r \in Requester, Reaches(r)
  PROVE  \/ ~Pushing /\ out'.pushed = <<>> /\ inbox'[r] = inbox[r]
         \/ \E m \in Message : PushedBy(m) /\ out'.pushed = <<m>> /\ inbox'[r] = Append(inbox[r], m)
<1>0. /\ initialized /\ msgQueue = <<>> /\ r \in listeners
      /\ loop \in Seq(Task) /\ inbox[r] \in Seq(Message) /\ RunTask /\ TypeOK
      /\ \A msgs : Pushes(msgs).pushed = msgs /\ Silent.pushed = <<>>
      /\ \A json : Relays(json).pushed = <<>>
  <2>1. r \in listeners
    BY DEF Basis, Listening
  <2> QED BY <2>1 DEF Basis, Listening, PageType, TypeOK, Pushes, Relays, Silent, Runs
<1>1. inbox'[r] = inbox[r] \o out'.pushed
  BY <1>0 DEF Runs, PushMsgForJS
<1>2. ASSUME NEW m, out' = Pushes(<<m>>), m \in PushedMsg, PushedBy(m)
      PROVE  \E x \in Message : PushedBy(x) /\ out'.pushed = <<x>> /\ inbox'[r] = Append(inbox[r], x)
  <2>1. out'.pushed = <<m>> /\ m \in Message
    BY <1>0, <1>2 DEF Message
  <2>2. inbox[r] \o <<m>> = Append(inbox[r], m)
    BY <1>0, <2>1
  <2> QED BY <1>1, <1>2, <2>1, <2>2
<1>3. CASE DoRegisterModule
  <2>1. PICK m : m = CreateModuleAdded(idCounter, Head(loop).module) /\ out' = Pushes(<<m>>)
    BY <1>0, <1>3 DEF DoRegisterModule, HandleMessage
  <2>2. m \in PushedMsg
    <3>1. Head(loop).module \in ModuleType
      BY <1>3, <1>0, TakesType DEF DoRegisterModule, Task
    <3> QED BY <1>0, <2>1, <3>1 DEF CreateModuleAdded, PushedMsg, AddedMsg, TypeOK, ModulesTypeOK, ModuleType
  <2>3. modules'[idCounter] = Head(loop).module
    <3>1. idCounter \notin DOMAIN modules
      BY <1>0 DEF TypeOK, ModulesTypeOK
    <3> QED BY <1>3, <3>1 DEF DoRegisterModule, Insert
  <2> QED BY <1>2, <1>3, <2>1, <2>2, <2>3 DEF PushedBy
<1>4. CASE UnregisterModule
  <2>1. PICK m : m = CreateModuleRemoved(Head(loop).id) /\ out' = Pushes(<<m>>)
    BY <1>0, <1>4 DEF UnregisterModule, HandleMessage
  <2>2. m \in PushedMsg
    <3>1. Head(loop).id \in Int
      BY <1>4, <1>0, TakesType DEF UnregisterModule, Task
    <3> QED BY <2>1, <3>1 DEF CreateModuleRemoved, PushedMsg, RemovedMsg
  <2> QED BY <1>2, <1>4, <2>1, <2>2 DEF PushedBy
<1>5. CASE PushUpdate
  <2>1. PICK m : m = Head(loop).msg /\ out' = Pushes(<<m>>)
    BY <1>0, <1>5 DEF PushUpdate, HandleMessage
  <2>2. m \in UpdateMsg
    <3>1. Head(loop) \in Task /\ Head(loop).op = "HandleMessage"
      BY <1>0, <1>5, TakesType DEF PushUpdate
    <3> QED BY <2>1, <3>1 DEF Task
  <2> QED BY <1>2, <1>5, <2>1, <2>2 DEF PushedBy, PushedMsg
<1>6. CASE OnProxyInitialized \/ SaveUpdate \/ DoProcessJSRequest \/ PassPeerUpdate
  <2>1. out' = Pushes(msgQueue) \/ out' = Silent \/ \E json : out' = Relays(json)
    BY <1>6 DEF OnProxyInitialized, SaveUpdate, DoProcessJSRequest, PassPeerUpdate,
       PassPropertyUpdateToModule
  <2>2. out'.pushed = <<>>
    BY <1>0, <2>1
  <2>3. inbox[r] \o <<>> = inbox[r]
    BY <1>0
  <2>4. ~Pushing
    BY <1>6 DEF Pushing, DoRegisterModule, UnregisterModule, PushUpdate, OnProxyInitialized, SaveUpdate,
       DoProcessJSRequest, PassPeerUpdate, Takes
  <2> QED BY <1>1, <2>2, <2>3, <2>4
<1> QED BY <1>0, <1>3, <1>4, <1>5, <1>6 DEF RunTask

\* What a thread is in the middle of.
LEMMA CallSteps ==
  ASSUME Basis, [WebNext]_webVars, NEW t \in Thread
  PROVE  \/ app'[t] = app[t]
         \/ app[t].at # "updating" /\ app'[t].at # "updating"
         \/ \E id \in DOMAIN modules, list \in UpdateList : UpdateProperties(t, id, list)
         \/ UpdatePropertiesReturns(t)
<1>0. app \in [Thread -> Call]
  BY DEF Basis, TypeOK, CallersTypeOK
<1>1. CASE InstanceStep
  <2>1. CASE CallbackReturns \/ ProxyInitialized(TRUE)
    BY <2>1 DEF CallbackReturns, ProxyInitialized, InCallback, callers
  <2>2. ASSUME NEW u \in Thread, NEW module \in Definition, RegisterModule(u, module)
        PROVE  app'[t] = app[t] \/ (app[t].at # "updating" /\ app'[t].at # "updating")
    BY <1>0, <2>2 DEF RegisterModule, Idle
  <2>3. ASSUME NEW u \in Thread, RegisterReturns(u)
        PROVE  app'[t] = app[t] \/ (app[t].at # "updating" /\ app'[t].at # "updating")
    BY <1>0, <2>3 DEF RegisterReturns, Idle
  <2>4. ASSUME NEW u \in Thread, NEW id, CallUnregisterModule(u, id)
        PROVE  app' = app
    BY <2>4 DEF CallUnregisterModule, callers
  <2>5. ASSUME NEW u \in Thread, NEW id \in DOMAIN modules, NEW list \in UpdateList,
               UpdateProperties(u, id, list)
        PROVE  app'[t] = app[t] \/ UpdateProperties(t, id, list)
    BY <1>0, <2>5 DEF UpdateProperties
  <2>6. ASSUME NEW u \in Thread, UpdatePropertiesReturns(u)
        PROVE  app'[t] = app[t] \/ UpdatePropertiesReturns(t)
    BY <1>0, <2>6 DEF UpdatePropertiesReturns
  <2> QED BY <1>1, <2>1, <2>2, <2>3, <2>4, <2>5, <2>6 DEF InstanceStep
<1>2. CASE Runs
  BY <1>2 DEF Runs, RunTask, OnProxyInitialized, DoRegisterModule, UnregisterModule, SaveUpdate,
     PushUpdate, DoProcessJSRequest, PassPeerUpdate, Takes, callers
<1>3. ASSUME NEW r \in Requester, Serves(r)
      PROVE  app' = app
  BY <1>3 DEF Serves, OnWsClientConnected, OnWsClientMessage, Responds, OnWsClientClosed,
     ProcessJSRequest, RequestReturns, vars
<1>4. ASSUME NEW r \in Requester, Makes(r) \/ OnConnected(r) \/ OnDisconnected(r) \/ OnWsMessage(r)
      PROVE  app' = app
  BY <1>4 DEF Makes, Opens, CountdownEnds, OnClicked, CreateWs, OnConnected, OnDisconnected,
     OnWsMessage, vars
<1>5. CASE Leaves \/ UserStep \/ UNCHANGED webVars
  BY <1>5, UserKeeps DEF Leaves, webVars, vars
<1> QED BY <1>1, <1>2, <1>3, <1>4, <1>5, WebSteps

\* An update a thread makes is its own until it returns.
LEMMA CallIs ==
  ASSUME TypeOK, NEW t \in Thread
  PROVE  /\ \A id, list : UpdateProperties(t, id, list) =>
              app'[t].at = "updating" /\ app'[t].id = id /\ app'[t].properties = list
         /\ UpdatePropertiesReturns(t) => app[t].at = "updating" /\ app'[t].at # "updating"
<1>0. app \in [Thread -> Call]
  BY DEF TypeOK, CallersTypeOK
<1>1. ASSUME NEW id, NEW list, UpdateProperties(t, id, list)
      PROVE  app'[t].at = "updating" /\ app'[t].id = id /\ app'[t].properties = list
  <2>1. app'[t] = [at |-> "updating", id |-> id, properties |-> list]
    BY <1>0, <1>1 DEF UpdateProperties
  <2> QED BY <2>1
<1>2. UpdatePropertiesReturns(t) => app[t].at = "updating" /\ app'[t].at # "updating"
  BY <1>0 DEF UpdatePropertiesReturns, Idle
<1> QED BY <1>1, <1>2

LEMMA UpdatesStep ==
  ASSUME UpdatesFit, Basis, SparesReadOnly, UpdatesInv, [WebNext]_webVars
  PROVE  UpdatesInv'
<1>0. /\ TypeOK /\ idCounter \in Nat /\ idCounter' \in {idCounter, idCounter + 1} /\ TypeOK'
      /\ \A id \in DOMAIN modules : id < idCounter /\ id \in Int
  BY CounterSteps, BasisStep DEF Basis, TypeOK, ModulesTypeOK
<1>1. \A id \in Int : id < idCounter => id < idCounter'
  BY <1>0
<1>2. ASSUME NEW id \in DOMAIN modules', NEW list \in UpdateList
      PROVE  AllWithin(list, Len(modules'[id].properties))
  <2>1. CASE id \in DOMAIN modules /\ Kinds(modules'[id].properties) = Kinds(modules[id].properties)
    <3>1. modules[id].properties \in Seq(Property) /\ modules'[id].properties \in Seq(Property)
      BY <1>0, <1>2, <2>1 DEF TypeOK, ModulesTypeOK, ModuleType
    <3>2. DOMAIN modules'[id].properties = DOMAIN modules[id].properties
      BY <2>1 DEF Kinds
    <3>3. Len(modules'[id].properties) = Len(modules[id].properties)
      BY <3>1, <3>2, LenProperties
    <3> QED BY <2>1, <3>3 DEF UpdatesInv
  <2>2. CASE id = idCounter
    <3>1. id \notin DOMAIN modules
      BY <1>0, <2>2
    <3>2. Runs /\ RunTask
      BY <1>2, <3>1, CounterSteps DEF Runs
    <3>3. DoRegisterModule /\ modules'[id] = Head(loop).module
      BY <1>0, <1>2, <3>1, <3>2, TaskModules
    <3>4. Head(loop) \in Tasks /\ Head(loop).op = "DoRegisterModule"
      BY <3>2, <3>3, RunStep DEF Basis, DoRegisterModule, Takes
    <3>5. modules'[id] \in Definition
      BY <3>3, <3>4 DEF SparesReadOnly
    <3> QED BY <3>5 DEF UpdatesFit, AllWithin
  <2> QED BY <2>1, <2>2, ModulesStay
<1>3. ASSUME NEW task \in Tasks'
      PROVE  /\ task.op = "SavePropertiesList" => task.id < idCounter /\ task.id \in Int
             /\ task.op = "HandleMessage" =>
                  task.msg.id < idCounter /\ task.msg.properties \in UpdateList /\ task.msg.id \in Int
  <2>1. task \in Task
    <3>1. Tasks' \subseteq Task
      BY <1>0, MembersOf, ElementOfSeq DEF Tasks, TypeOK
    <3> QED BY <3>1
  <2>2. (task.op = "SavePropertiesList" => task.id \in Int) /\ (task.op = "HandleMessage" => task.msg.id \in Int)
    BY <2>1 DEF Task, UpdateMsg
  <2>3. CASE task \in Tasks
    BY <2>2, <2>3 DEF UpdatesInv
  <2>4. CASE task \notin Tasks
    <3>1. PostedBy(task)
      BY <2>4, PostsOf
    <3>2. /\ task = [op |-> "OnProxyInitialized", host |-> TRUE] => task.op = "OnProxyInitialized"
          /\ \A module, to : task = [op |-> "DoRegisterModule", module |-> module, to |-> to] =>
               task.op = "DoRegisterModule"
          /\ \A id : task = [op |-> "UnregisterModule", id |-> id] => task.op = "UnregisterModule"
          /\ \A id, list : task = [op |-> "SavePropertiesList", id |-> id, properties |-> list] =>
               task.op = "SavePropertiesList" /\ task.id = id
          /\ \A msg : task = [op |-> "HandleMessage", msg |-> msg] => task.op = "HandleMessage" /\ task.msg = msg
          /\ \A json, to : task = [op |-> "DoProcessJSRequest", json |-> json, to |-> to] =>
               task.op = "DoProcessJSRequest"
      OBVIOUS
    <3>3. \/ task.op \in {"OnProxyInitialized", "UnregisterModule", "DoRegisterModule", "DoProcessJSRequest"}
          \/ task.op = "SavePropertiesList" /\ task.id \in DOMAIN modules
          \/ /\ task.op = "HandleMessage"
             /\ \E t \in Thread : /\ UpdatePropertiesReturns(t)
                                  /\ task.msg = CreatePropertyUpdated(app[t].id, app[t].properties)
      BY ONLY <3>1, <3>2, Zenon DEF PostedBy
    <3>4. ASSUME NEW t \in Thread, UpdatePropertiesReturns(t),
                 task.msg = CreatePropertyUpdated(app[t].id, app[t].properties)
          PROVE  task.msg.id < idCounter /\ task.msg.properties \in UpdateList
      <4>1. app[t].id < idCounter /\ app[t].properties \in UpdateList
        BY <3>4 DEF UpdatePropertiesReturns, UpdatesInv
      <4> QED BY <3>4, <4>1 DEF CreatePropertyUpdated
    <3> QED BY <1>0, <2>2, <3>3, <3>4
  <2> QED BY <2>3, <2>4
<1>4. ASSUME NEW t \in Thread, app'[t].at = "updating"
      PROVE  app'[t].id < idCounter /\ app'[t].properties \in UpdateList /\ app'[t].id \in Int
  <2>1. app'[t].id \in Int
    BY <1>0, <1>4 DEF TypeOK, CallersTypeOK, Call, Idle
  <2>2. \/ app[t].at = "updating" /\ app'[t] = app[t]
        \/ app'[t].id \in DOMAIN modules /\ app'[t].properties \in UpdateList
    BY <1>0, <1>4, CallSteps, CallIs
  <2> QED BY <1>0, <1>4, <2>1, <2>2 DEF UpdatesInv
<1>5. ASSUME NEW r \in Requester, NEW m \in Range(inbox'[r]), m.type = "property_update"
      PROVE  m.id < idCounter /\ m.properties \in UpdateList /\ m.id \in Int
  <2>1. m \in Message
    <3>1. inbox' \in [Requester -> Seq(Message)]
      BY BasisStep DEF Basis, PageType
    <3> QED BY <3>1, MembersOf, ElementOfSeq
  <2>2. m.id \in Int
    BY <1>5, <2>1 DEF Message, PushedMsg, Response, AddedMsg, RemovedMsg, UpdateMsg, ListMsg, EmptyMsg
  <2>3. CASE m \in Range(inbox[r])
    BY <1>5, <2>2, <2>3 DEF UpdatesInv
  <2>4. CASE m \in Response
    BY <1>5, <2>4 DEF Response, ListMsg, EmptyMsg
  <2>5. CASE Runs /\ m \notin Range(inbox[r])
    <3>1. Reaches(r)
      BY <2>5 DEF Runs, PushMsgForJS
    <3>2. inbox[r] \in Seq(Message)
      BY DEF Basis, PageType
    <3>3. PICK x \in Message : PushedBy(x) /\ inbox'[r] = Append(inbox[r], x)
      BY <2>5, <3>1, PushIs
    <3>4. m = x
      BY <2>5, <3>2, <3>3, MembersOf
    <3>5. PushUpdate /\ m = Head(loop).msg
      BY <1>5, <3>3, <3>4 DEF PushedBy, CreateModuleAdded, CreateModuleRemoved
    <3>6. Head(loop) \in Tasks /\ Head(loop).op = "HandleMessage"
      BY <2>5, <3>5, RunStep DEF Basis, PushUpdate, Takes
    <3> QED BY <2>2, <3>5, <3>6 DEF UpdatesInv
  <2> QED BY <2>3, <2>4, <2>5, Arrivals
<1> QED BY <1>1, <1>2, <1>3, <1>4, <1>5 DEF UpdatesInv

-----------------------------------------------------------------------------
(* What the sockets bring.                                                 *)

\* The message is pushed in this step.
Pushed(m) == Runs /\ PushedBy(m) /\ out'.pushed = <<m>>

\* A push about a module outdates what was on its way for it, but for a list.
Outdates(m, id, given) ==
  Pushed(m) /\ given[m] # {} /\ m.id = id /\ m.type \in {"module_removed", "property_update"}

LEMMA OvertakenSteps ==
  ASSUME [WebNext]_webVars, NEW r \in Requester
  PROVE  /\ \/ Clears
            \/ overtaken[r] \subseteq overtaken'[r]
         /\ \/ overtaken'[r] = overtaken[r]
            \/ Runs
            \/ /\ Leaves \/ OnDisconnected(r)
               /\ overtaken'[r] = {} /\ inbox'[r] = <<>> /\ ~Reaches(r)'
         /\ OnWsMessage(r) => overtaken'[r] = overtaken[r]
<1>1. CASE (InstanceStep /\ PageKept) \/ UNCHANGED webVars
  BY <1>1 DEF PageKept, past, webVars, InstanceStep, OnWsMessage
<1>2. CASE Runs
  <2>1. overtaken[r] \subseteq overtaken'[r]
    BY <1>2 DEF Runs, Remembers
  <2> QED BY <1>2, <2>1 DEF OnWsMessage
<1>3. CASE UserStep
  BY <1>3, UserKeeps
<1>4. ASSUME NEW q \in Requester, Serves(q) \/ Makes(q) \/ OnConnected(q) \/ OnWsMessage(q)
      PROVE  overtaken' = overtaken
  BY <1>4 DEF Serves, Makes, Opens, CountdownEnds, OnClicked, CreateWs, OnConnected, OnWsMessage, past
<1>5. ASSUME NEW S, Forgets(S), r \in S
      PROVE  overtaken'[r] = {} /\ inbox'[r] = <<>> /\ ~Reaches(r)'
  BY <1>5 DEF Forgets, Reaches
<1>6. CASE Leaves
  BY <1>5, <1>6 DEF Leaves, Clears, OnWsMessage
<1>7. ASSUME NEW q \in Requester, OnDisconnected(q)
      PROVE  \/ overtaken'[r] = overtaken[r]
             \/ /\ OnDisconnected(r)
                /\ overtaken'[r] = {} /\ inbox'[r] = <<>> /\ ~Reaches(r)'
  <2>1. Forgets({q})
    BY <1>7 DEF OnDisconnected
  <2>2. CASE q = r
    BY <1>5, <1>7, <2>1, <2>2
  <2>3. CASE q # r
    BY <2>1, <2>3 DEF Forgets
  <2> QED BY <2>2, <2>3
<1>8. OnWsMessage(r) => overtaken' = overtaken
  BY DEF OnWsMessage
<1> QED BY <1>1, <1>2, <1>3, <1>4, <1>6, <1>7, <1>8, WebSteps DEF Clears

\* A socket that is not connected waits for no answer.
LEMMA NoAnswerBefore ==
  ASSUME Told, NEW r \in Requester, socket[r] = "opening"
  PROVE  answer[r] = {}
BY DEF Told, Basis, HostGoesOn, RequestsAccounted, Listening

LEMMA ReachesSteps ==
  ASSUME Told, [WebNext]_webVars, NEW r \in Requester, Reaches(r)', ~Reaches(r)
  PROVE  answer[r] = {}
<1>1. SocketsInv
  BY DEF Told, Basis
<1>2. CASE ~Clears
  <2>1. OnWsClientConnected(r)
    BY <1>1, <1>2, PageSteps DEF Told, Basis, PageType
  <2> QED BY <2>1, NoAnswerBefore DEF OnWsClientConnected
<1>3. CASE Clears
  <2>1. \A S : Forgets(S) => ~Reaches(r)'
    BY <1>1 DEF Forgets, Reaches, SocketsInv
  <2> QED BY <1>3, <2>1 DEF Clears, Leaves, OnDisconnected
<1> QED BY <1>2, <1>3

\* What a socket brings stays good, when what is pushed and what is listed is.
LEMMA BringsStep ==
  ASSUME Told, [WebNext]_webVars, NEW r \in Requester, NEW id, NEW given, NEW good, NEW next,
         Brings(r, id, given, good), given[Empty] = {},
         good \subseteq next \/ \E m \in Message : Outdates(m, id, given),
         \A m \in Message : Pushed(m) => given[m] \subseteq next,
         \A m \in answer'[r] : m \in answer[r] \/ given[m] \subseteq next
  PROVE  Brings(r, id, given, next)'
<1>0. /\ Basis /\ inbox[r] \in Seq(Message) /\ inbox \in [Requester -> Seq(Message)]
      /\ SocketsInv /\ OneAnswer /\ OutTypeOK' /\ answer[r] \subseteq Response
      /\ inbox[r] = <<>> \/ inbox[r] # <<>>
  BY BasisStep DEF Told, Basis, PageType, TypeOK, CallersTypeOK
<1> SUFFICES ASSUME id \notin overtaken'[r]
             PROVE  /\ EndsAmong(inbox'[r], given, next)
                    /\ Reaches(r)' => \A m \in answer'[r] : given[m] \subseteq next
  BY DEF Brings
<1>e. EndsAmong(<<>>, given, next)
  BY DEF EndsAmong
<1>1. CASE Leaves \/ OnDisconnected(r)
  <2>1. \A S : Forgets(S) /\ r \in S => inbox'[r] = <<>> /\ ~Reaches(r)'
    BY DEF Forgets, Reaches
  <2>2. inbox'[r] = <<>> /\ ~Reaches(r)'
    BY <1>1, <2>1 DEF Leaves, OnDisconnected
  <2> QED BY <1>e, <2>2
<1>2. CASE ~Leaves /\ ~OnDisconnected(r)
  <2>1. id \notin overtaken[r]
    <3>1. overtaken[r] \subseteq overtaken'[r]
      <4>1. CASE Runs
        BY <4>1 DEF Runs, Remembers
      <4> QED BY <1>2, <4>1, OvertakenSteps
    <3> QED BY <3>1
  <2>2. /\ EndsAmong(inbox[r], given, good)
        /\ Reaches(r) => \A m \in answer[r] : given[m] \subseteq good
    BY <2>1 DEF Brings
  <2>3. \A s : good \subseteq next /\ EndsAmong(s, given, good) => EndsAmong(s, given, next)
    BY DEF EndsAmong
  <2>4. ASSUME good \subseteq next
        PROVE  Reaches(r)' => \A m \in answer'[r] : given[m] \subseteq next
    BY <2>2, <2>4, ReachesSteps
  <2>5. CASE Runs
    <3>1. CASE ~Reaches(r)
      <4>1. inbox'[r] = <<>> /\ ~Reaches(r)'
        BY <1>0, <2>5, <3>1 DEF Runs, PushMsgForJS, Reaches, Basis, Listening
      <4> QED BY <1>e, <4>1
    <3>2. CASE Reaches(r)
      <4>1. ASSUME good \subseteq next
            PROVE  EndsAmong(inbox'[r], given, next)
        <5>1. ASSUME NEW m \in Message, PushedBy(m), out'.pushed = <<m>>, inbox'[r] = Append(inbox[r], m)
              PROVE  EndsAmong(inbox'[r], given, next)
          <6>1. given[m] \subseteq next
            BY <2>5, <5>1 DEF Pushed
          <6>2. EndsAmong(inbox[r], given, next)
            BY <2>2, <2>3, <4>1
          <6> QED BY <1>0, <5>1, <6>1, <6>2, AmongAppend
        <5>2. inbox'[r] = inbox[r] => EndsAmong(inbox'[r], given, next)
          BY <2>2, <2>3, <4>1
        <5> QED BY <1>0, <2>5, <3>2, <5>1, <5>2, PushIs
      <4>2. ASSUME NEW m \in Message, Outdates(m, id, given)
            PROVE  /\ EndsAmong(inbox'[r], given, next)
                   /\ \A x \in answer'[r] : given[x] \subseteq next
        <5>1. inbox'[r] = Append(inbox[r], m)
          <6>1. out'.pushed = <<m>> /\ \A x : <<m>> = <<x>> => m = x
            BY <4>2 DEF Outdates, Pushed
          <6>2. out'.pushed # <<>>
            BY <6>1
          <6> QED BY <1>0, <2>5, <3>2, <6>1, <6>2, PushIs
        <5>2. given[m] # {} /\ given[m] \subseteq next
          BY <4>2 DEF Outdates
        <5>3. EndsAmong(inbox'[r], given, next)
          BY <1>0, <5>1, <5>2, AmongAppend
        <5>4. ~Listing(r)
          <6>1. ASSUME Listing(r)
                PROVE  id \in overtaken'[r]
            <7>1. overtaken'[r] = overtaken[r] \cup Ids(out'.pushed, {"module_removed", "property_update"})
              BY <2>5, <3>2, <6>1 DEF Runs, Remembers
            <7>2. out'.pushed = <<m>> /\ m.id = id /\ m.type \in {"module_removed", "property_update"}
              BY <4>2 DEF Outdates, Pushed
            <7>3. Range(<<m>>) = {m}
              BY RangesOf
            <7>4. id \in Ids(out'.pushed, {"module_removed", "property_update"})
              BY <7>2, <7>3 DEF Ids
            <7> QED BY <7>1, <7>4
          <6> QED BY <6>1
        <5>5. \A x \in answer[r] : x = Empty
          <6>1. \A x \in Response : x.type = "module_list" \/ x = Empty
            BY DEF Response, ListMsg, EmptyMsg, Empty
          <6> QED BY <1>0, <5>4, <6>1 DEF Listing
        <5> QED BY <5>3, <5>5
      <4> QED BY <2>4, <4>1, <4>2
    <3> QED BY <3>1, <3>2
  <2>6. CASE ~Runs
    <3>1. good \subseteq next
      BY <2>6 DEF Outdates, Pushed
    <3>2. inbox'[r] = inbox[r] => EndsAmong(inbox'[r], given, next)
      BY <2>2, <2>3, <3>1
    <3>3. ASSUME Reaches(r), NEW x \in Response, answer[r] = {x}, inbox'[r] = Append(inbox[r], x)
          PROVE  EndsAmong(inbox'[r], given, next)
      <4>1. given[x] \subseteq next /\ EndsAmong(inbox[r], given, next) /\ x \in Message
        BY <2>2, <2>3, <3>1, <3>3 DEF Message
      <4> QED BY <1>0, <3>3, <4>1, AmongAppend
    <3>4. inbox[r] # <<>> /\ inbox'[r] = Tail(inbox[r]) => EndsAmong(inbox'[r], given, next)
      <4>1. EndsAmong(inbox[r], given, next)
        BY <2>2, <2>3, <3>1
      <4> QED BY <1>0, <4>1, AmongTail
    <3>5. \/ inbox'[r] = inbox[r]
          \/ Reaches(r) /\ \E x \in Response : answer[r] = {x} /\ inbox'[r] = Append(inbox[r], x)
          \/ inbox[r] # <<>> /\ inbox'[r] = Tail(inbox[r])
      BY <1>0, <1>2, <2>6, InboxSteps
    <3>6. EndsAmong(inbox'[r], given, next)
      BY <2>2, <2>3, <3>1, <3>2, <3>3, <3>4, <3>5
    <3> QED BY <2>4, <3>1, <3>6
  <2> QED BY <2>5, <2>6
<1> QED BY <1>1, <1>2

-----------------------------------------------------------------------------
(* What is read last.                                                      *)

\* A page that shows something is connected.
Connected == DOMAIN tabs # {} => \E r \in Requester : Reaches(r)

LEMMA ConnectedStep ==
  ASSUME Basis, Connected, [WebNext]_webVars
  PROVE  Connected'
<1>0. SocketsInv /\ tabs \in Tabs
  BY DEF Basis, PageType
<1>1. CASE Clears
  <2>1. tabs' = <<>>
    BY <1>1 DEF Clears, Leaves, OnDisconnected, Clear
  <2>2. DOMAIN tabs' = {}
    BY <2>1
  <2> QED BY <2>2 DEF Connected
<1>2. CASE ~Clears
  <2>1. ASSUME NEW r \in Requester, OnWsMessage(r)
        PROVE  Reaches(r)'
    BY <2>1 DEF OnWsMessage, Reaches
  <2> QED BY <1>0, <1>2, <2>1, PageSteps DEF Connected
<1> QED BY <1>1, <1>2

\* What is shown of a module is good once nothing on its way is about it: the last
\* message read about it was the last on its socket.
LEMMA ShownStep ==
  ASSUME Told, Connected, [WebNext]_webVars, ~Clears,
         NEW id, NEW given, NEW good, NEW next, NEW seen, NEW sees,
         \A r \in Requester : Brings(r, id, given, good),
         id \in DOMAIN tabs /\ Rests(id, given) => seen \cap good # {},
         good \subseteq next \/ \E m \in Message : Outdates(m, id, given),
         id \in DOMAIN tabs' =>
           \/ id \in DOMAIN tabs /\ seen \subseteq sees /\ ~\E q \in Requester : OnWsMessage(q)
           \/ \E q \in Requester :
                /\ OnWsMessage(q)
                /\ IF given[Head(inbox[q])] = {} THEN id \in DOMAIN tabs /\ seen \subseteq sees
                   ELSE given[Head(inbox[q])] \cap sees # {},
         id \in DOMAIN tabs', Rests(id, given)'
  PROVE  sees \cap next # {}
<1>0. Basis /\ \A r \in Requester : inbox[r] \in Seq(Message)
  BY DEF Told, Basis, PageType
<1>1. \A r \in Requester : id \notin overtaken[r]
  BY OvertakenSteps DEF Rests
<1>2. \A s \in Seq(Message) : GivesNothing(s, given) <=> \A m \in Range(s) : given[m] = {}
  <2>1. ASSUME NEW s \in Seq(Message)
        PROVE  GivesNothing(s, given) <=> \A m \in Range(s) : given[m] = {}
    <3>1. Range(s) = {s[i] : i \in 1..Len(s)}
      BY MembersOf
    <3> QED BY <3>1 DEF GivesNothing
  <2> QED BY <2>1
<1>3. \A r \in Requester : inbox'[r] \in Seq(Message)
  BY <1>0, BasisStep DEF Basis, PageType
<1>4. CASE ~\E q \in Requester : OnWsMessage(q)
  <2>1. ASSUME NEW r \in Requester
        PROVE  GivesNothing(inbox[r], given)
    <3>1. \A m \in Range(inbox[r]) : m \in Range(inbox'[r])
      BY <1>0, <1>4, Readings
    <3>2. GivesNothing(inbox'[r], given)
      BY DEF Rests
    <3> QED BY <1>0, <1>2, <1>3, <3>1, <3>2
  <2>2. Rests(id, given)
    BY <1>1, <2>1 DEF Rests
  <2>3. ~\E m \in Message : Outdates(m, id, given)
    <3>1. ASSUME NEW m \in Message, Outdates(m, id, given)
          PROVE  FALSE
      <4>1. PICK r \in Requester : Reaches(r)
        BY <1>4 DEF Connected
      <4>2. out'.pushed = <<m>> /\ Runs /\ out'.pushed # <<>> /\ given[m] # {}
        BY <3>1 DEF Outdates, Pushed
      <4>3. inbox'[r] = Append(inbox[r], m)
        <5>1. \A x : <<m>> = <<x>> => m = x
          OBVIOUS
        <5> QED BY <1>0, <4>1, <4>2, <5>1, PushIs
      <4>4. m \in Range(inbox'[r])
        BY <1>0, <4>3, MembersOf
      <4> QED BY <1>2, <1>3, <4>2, <4>4 DEF Rests
    <3> QED BY <3>1
  <2> QED BY <1>4, <2>2, <2>3
<1>5. ASSUME NEW q \in Requester, OnWsMessage(q),
             IF given[Head(inbox[q])] = {} THEN id \in DOMAIN tabs /\ seen \subseteq sees
             ELSE given[Head(inbox[q])] \cap sees # {}
      PROVE  sees \cap next # {}
  <2>1. /\ inbox[q] # <<>> /\ inbox' = [inbox EXCEPT ![q] = Tail(@)]
        /\ inbox \in [Requester -> Seq(Message)]
    BY <1>5 DEF OnWsMessage, Told, Basis, PageType
  <2>2. inbox'[q] = Tail(inbox[q]) /\ \A r \in Requester \ {q} : inbox'[r] = inbox[r]
    BY <2>1
  <2>3. good \subseteq next
    <3>1. ~Runs
      <4>1. ASSUME Runs PROVE FALSE
        <5>1. loop # <<>> /\ loop' = Tail(loop) /\ loop \in Seq(Task)
          BY <4>1 DEF Runs, RunTask, OnProxyInitialized, DoRegisterModule, UnregisterModule, SaveUpdate,
             PushUpdate, DoProcessJSRequest, PassPeerUpdate, Takes, Told, Basis, TypeOK
        <5>2. loop' # loop
          <6>1. Len(loop) \in Nat /\ Len(loop') = Len(loop) - 1
            BY <5>1
          <6>2. \A n \in Nat : n - 1 # n
            OBVIOUS
          <6> QED BY <6>1, <6>2
        <5> QED BY <1>5, <5>2 DEF OnWsMessage, vars
      <4> QED BY <4>1
    <3> QED BY <3>1 DEF Outdates, Pushed
  <2>4. EndsAmong(inbox[q], given, good)
    BY <1>1 DEF Brings
  <2>5. GivesNothing(Tail(inbox[q]), given)
    BY <2>2 DEF Rests
  <2>6. CASE given[Head(inbox[q])] = {}
    <3>1. GivesNothing(inbox[q], given)
      BY <1>0, <2>1, <2>4, <2>5, <2>6, AmongTail
    <3>2. Rests(id, given)
      BY <1>1, <2>2, <3>1 DEF Rests
    <3> QED BY <1>5, <2>3, <2>6, <3>2
  <2>7. CASE given[Head(inbox[q])] # {}
    <3>1. given[Head(inbox[q])] \subseteq good
      BY <1>0, <2>1, <2>4, <2>5, AmongTail
    <3> QED BY <1>5, <2>3, <2>7, <3>1
  <2> QED BY <2>6, <2>7
<1> QED BY <1>4, <1>5

-----------------------------------------------------------------------------
(* Two ways to one value.                                                  *)

\* Where none gives a value the value stays; where some does it does not matter.
LEMMA EndsWhere ==
  ASSUME NEW s, NEW given
  PROVE  /\ GivesNothing(s, given) => \A b, v : EndsIn(s, given, b, v) <=> v = b
         /\ ~GivesNothing(s, given) => \A b, c, v : EndsIn(s, given, b, v) => EndsIn(s, given, c, v)
BY DEF GivesNothing, EndsIn

\* What is passed nowhere is stored nowhere, when nothing is due.
LEMMA PassedWhere ==
  ASSUME NEW S, NEW s \in Seq(S), NEW stores, NEW passes, AllPassed(s, stores, passes, {})
  PROVE  GivesNothing(s, passes) => GivesNothing(s, stores)
<1>1. Len(s) \in Nat
  BY LenProperties
<1>2. \A i \in 1..Len(s) : \A j \in (i + 1)..Len(s) : j \in 1..Len(s)
  BY <1>1
<1> QED BY <1>2 DEF GivesNothing, AllPassed

LEMMA PassedAppend ==
  ASSUME NEW S, NEW s \in Seq(S), NEW x \in S, NEW stores, NEW passes, NEW due,
         AllPassed(s, stores, passes, due) \/ passes[x] # {},
         due = {} \/ passes[x] # {}, stores[x] = {}
  PROVE  AllPassed(Append(s, x), stores, passes, {})
<1>1. PICK n \in Nat : n = Len(s)
  BY LenProperties
<1>2. /\ Len(Append(s, x)) = n + 1 /\ Append(s, x)[n + 1] = x
      /\ \A i \in 1..n : Append(s, x)[i] = s[i]
  BY <1>1, AppendProperties
<1>3. ASSUME NEW i \in 1..(n + 1), stores[Append(s, x)[i]] # {}
      PROVE  \E j \in (i + 1)..(n + 1) : passes[Append(s, x)[j]] # {}
  <2>1. i \in 1..n
    BY <1>2, <1>3
  <2>2. CASE passes[x] # {}
    <3>1. n + 1 \in (i + 1)..(n + 1)
      BY <2>1
    <3> QED BY <1>2, <2>2, <3>1
  <2>3. CASE passes[x] = {}
    <3>1. PICK j \in (i + 1)..n : passes[s[j]] # {}
      BY <1>1, <1>2, <1>3, <2>1, <2>3 DEF AllPassed
    <3>2. j \in (i + 1)..(n + 1) /\ j \in 1..n
      BY <2>1
    <3> QED BY <1>2, <3>1, <3>2
  <2> QED BY <2>2, <2>3
<1> QED BY <1>2, <1>3 DEF AllPassed

LEMMA PassedTail ==
  ASSUME NEW S, NEW s \in Seq(S), s # <<>>, NEW stores, NEW passes,
         AllPassed(s, stores, passes, {})
  PROVE  /\ AllPassed(Tail(s), stores, passes, {})
         /\ stores[Head(s)] # {} => ~GivesNothing(Tail(s), passes)
<1>1. PICK n \in Nat, u \in Seq(S) : n + 1 = Len(s) /\ u = Tail(s)
  <2>1. Len(s) \in Nat \ {0} /\ Tail(s) \in Seq(S)
    BY HeadTailProperties, EmptySeq, LenProperties
  <2>2. Len(s) - 1 \in Nat /\ (Len(s) - 1) + 1 = Len(s)
    BY <2>1
  <2> QED BY <2>1, <2>2
<1>2. Len(u) = n /\ Head(s) = s[1] /\ \A i \in 1..n : u[i] = s[i + 1]
  BY <1>1, HeadTailProperties
<1>3. ASSUME NEW i \in 1..(n + 1), stores[s[i]] # {}
      PROVE  \E j \in i..n : passes[u[j]] # {}
  <2>1. PICK j \in (i + 1)..(n + 1) : passes[s[j]] # {}
    BY <1>1, <1>3 DEF AllPassed
  <2>2. j - 1 \in i..n /\ j - 1 \in 1..n /\ (j - 1) + 1 = j
    OBVIOUS
  <2> QED BY <1>2, <2>1, <2>2
<1>4. ASSUME NEW i \in 1..n, stores[u[i]] # {}
      PROVE  \E j \in (i + 1)..n : passes[u[j]] # {}
  <2>1. i + 1 \in 1..(n + 1)
    OBVIOUS
  <2> QED BY <1>2, <1>3, <1>4, <2>1
<1>5. stores[s[1]] # {} => ~GivesNothing(u, passes)
  <2>1. 1 \in 1..(n + 1)
    OBVIOUS
  <2> QED BY <1>2, <1>3, <2>1 DEF GivesNothing
<1> QED BY <1>1, <1>2, <1>4, <1>5 DEF AllPassed

-----------------------------------------------------------------------------
(* A member more, and one less.                                            *)

LEMMA ComingsAppend ==
  ASSUME NEW S, NEW s \in Seq(S), NEW x \in S, NEW stores, NEW passes, NEW stored, NEW due,
         AllPassed(s, stores, passes, due), stored \in Comings(s, stores, passes, stored, due),
         stores[x] = {}, passes[x] = {}
  PROVE  /\ AllPassed(Append(s, x), stores, passes, due)
         /\ Comings(s, stores, passes, stored, due) \subseteq Comings(Append(s, x), stores, passes, stored, due)
<1>1. AllPassed(Append(s, x), stores, passes, due)
  <2>1. CASE due = {}
    BY <2>1, PassedAppend
  <2> QED BY <2>1 DEF AllPassed
<1>2. \A v : EndsIn(s, stores, stored, v) => EndsIn(Append(s, x), stores, stored, v)
  BY EndsAppend
<1>3. \A b, v : EndsIn(s, passes, b, v) => EndsIn(Append(s, x), passes, b, v)
  BY EndsAppend
<1> QED BY <1>1, <1>2, <1>3 DEF Comings

\* A value that is stored is due to be passed.
LEMMA ComingsStore ==
  ASSUME NEW S, NEW s \in Seq(S), NEW x \in S, NEW stores, NEW passes, NEW stored, NEW value \in Value,
         stores[x] = {value}
  PROVE  /\ AllPassed(Append(s, x), stores, passes, {value})
         /\ Comings(Append(s, x), stores, passes, stored, {value}) = Value
<1>1. EndsIn(Append(s, x), stores, stored, value)
  BY EndsAppend
<1> QED BY <1>1 DEF AllPassed, Comings

\* What is due is passed.
LEMMA ComingsPass ==
  ASSUME NEW S, NEW s \in Seq(S), NEW x \in S, NEW stores, NEW passes, NEW stored, NEW due,
         due # {}, passes[x] = due, stores[x] = {}
  PROVE  /\ AllPassed(Append(s, x), stores, passes, {})
         /\ Comings(s, stores, passes, stored, due) \subseteq Comings(Append(s, x), stores, passes, stored, {})
<1>1. AllPassed(Append(s, x), stores, passes, {})
  BY PassedAppend
<1>2. \A v : EndsIn(s, stores, stored, v) => EndsIn(Append(s, x), stores, stored, v)
  BY EndsAppend
<1>3. \A v \in due : \A b : EndsIn(Append(s, x), passes, b, v)
  BY EndsAppend
<1> QED BY <1>1, <1>2, <1>3 DEF Comings

\* The first is done: it stores a value, or passes one, or does neither.
LEMMA ComingsTail ==
  ASSUME NEW S, NEW s \in Seq(S), s # <<>>, NEW stores, NEW passes, NEW stored, NEW now, NEW due,
         AllPassed(s, stores, passes, due), stored \in Comings(s, stores, passes, stored, due),
         IF stores[Head(s)] = {} THEN now = stored ELSE \A x \in stores[Head(s)] : now = x,
         now \in Value, passes[Head(s)] = {}
  PROVE  /\ AllPassed(Tail(s), stores, passes, due)
         /\ now \in Comings(Tail(s), stores, passes, now, due)
         /\ Comings(s, stores, passes, stored, due) \subseteq Comings(Tail(s), stores, passes, now, due)
<1>1. AllPassed(Tail(s), stores, passes, due)
  <2>1. CASE due = {}
    BY <2>1, PassedTail
  <2> QED BY <2>1 DEF AllPassed
<1>2. \A v : EndsIn(s, stores, stored, v) => EndsIn(Tail(s), stores, now, v)
  BY EndsTail
<1>3. \A b, v : EndsIn(s, passes, b, v) => EndsIn(Tail(s), passes, b, v)
  BY EndsTail
<1>4. Comings(s, stores, passes, stored, due) \subseteq Comings(Tail(s), stores, passes, now, due)
  BY <1>2, <1>3 DEF Comings
<1>5. now \in Comings(Tail(s), stores, passes, now, due)
  <2>1. CASE stores[Head(s)] = {}
    BY <1>4, <2>1
  <2>2. CASE stores[Head(s)] # {} /\ due # {}
    BY <1>2, <2>2 DEF Comings
  <2>3. CASE stores[Head(s)] # {} /\ due = {}
    <3>1. PICK v \in Value : EndsIn(Tail(s), stores, now, v) /\ EndsIn(Tail(s), passes, stored, v)
      BY <1>2, <1>3, <2>3 DEF Comings
    <3>2. ~GivesNothing(Tail(s), passes)
      BY <2>3, PassedTail
    <3>3. EndsIn(Tail(s), passes, now, v)
      BY <3>1, <3>2, EndsWhere
    <3> QED BY <2>3, <3>1, <3>3 DEF Comings
  <2> QED BY <2>1, <2>2, <2>3
<1> QED BY <1>1, <1>4, <1>5

\* The first passes a value, and the page shows that one.
LEMMA ComingsTailPass ==
  ASSUME NEW S, NEW s \in Seq(S), s # <<>>, NEW stores, NEW passes, NEW stored, NEW due, NEW x \in Value,
         AllPassed(s, stores, passes, due), stored \in Comings(s, stores, passes, stored, due),
         stores[Head(s)] = {}, passes[Head(s)] = {x}
  PROVE  /\ AllPassed(Tail(s), stores, passes, due)
         /\ {x, stored} \subseteq Comings(Tail(s), stores, passes, stored, due)
<1>1. AllPassed(Tail(s), stores, passes, due)
  <2>1. CASE due = {}
    BY <2>1, PassedTail
  <2> QED BY <2>1 DEF AllPassed
<1>2. stored \in Value /\ Tail(s) \in Seq(S)
  BY HeadTailProperties DEF Comings
<1>3. PICK v \in Value : /\ EndsIn(s, stores, stored, v)
                         /\ IF due # {} THEN v \in due ELSE EndsIn(s, passes, stored, v)
  BY DEF Comings
<1>4. EndsIn(Tail(s), stores, stored, v)
  BY <1>3, EndsTail
<1>5. CASE due # {}
  BY <1>1, <1>2, <1>3, <1>4, <1>5 DEF Comings
<1>6. CASE due = {}
  <2>1. EndsIn(Tail(s), passes, x, v)
    BY <1>3, <1>6, EndsTail
  <2>2. EndsIn(Tail(s), passes, stored, v)
    <3>1. CASE GivesNothing(Tail(s), passes)
      <4>1. GivesNothing(Tail(s), stores)
        BY <1>1, <1>2, <1>6, <3>1, PassedWhere
      <4>2. v = stored
        BY <1>4, <4>1, EndsWhere
      <4> QED BY <3>1, <4>2, EndsWhere
    <3>2. CASE ~GivesNothing(Tail(s), passes)
      BY <2>1, <3>2, EndsWhere
    <3> QED BY <3>1, <3>2
  <2> QED BY <1>1, <1>2, <1>4, <1>6, <2>1, <2>2 DEF Comings
<1> QED BY <1>5, <1>6

-----------------------------------------------------------------------------
(* What the page sends.                                                    *)

LEMMA AppliedSteps ==
  ASSUME [WebNext]_webVars
  PROVE  applied \subseteq applied' /\ (UserStep \/ applied' = applied)
<1>1. CASE UserStep
  BY <1>1 DEF UserStep, SelectModule, past, Writes, OnPropertiesActivated, OnPropertyActivated, Sends
<1>2. CASE (InstanceStep /\ PageKept) \/ Runs \/ Leaves \/ UNCHANGED webVars
  BY <1>2 DEF PageKept, past, Runs, Leaves, webVars
<1>3. ASSUME NEW r \in Requester, Serves(r) \/ Makes(r) \/ OnConnected(r) \/ OnDisconnected(r) \/ OnWsMessage(r)
      PROVE  applied' = applied
  BY <1>3 DEF Serves, Makes, Opens, CountdownEnds, OnClicked, CreateWs, OnConnected, OnDisconnected,
     OnWsMessage, past
<1> QED BY <1>1, <1>2, <1>3, WebSteps

LEMMA AppliedStep ==
  ASSUME Told, AppliedInv, [WebNext]_webVars
  PROVE  AppliedInv'
<1>0. Basis /\ sent \in [Requester -> Seq(Request)] /\ tabs \in Tabs /\ applied \subseteq applied'
  BY AppliedSteps DEF Told, Basis, PageType
<1>1. ASSUME NEW r \in Requester, NEW m \in Range(sent'[r]), m.type = "apply", NEW i \in DOMAIN m.properties
      PROVE  <<m.id, m.properties[i].id>> \in applied'
  <2>1. CASE m \in Range(sent[r])
    BY <1>0, <1>1, <2>1 DEF AppliedInv
  <2>2. CASE m = CreateLoadModules
    BY <1>1, <2>2 DEF CreateLoadModules
  <2>3. CASE UserStep
    <3>1. ASSUME NEW id \in DOMAIN tabs, NEW list \in PropertyList, Sends(id, list)
          PROVE  <<m.id, m.properties[i].id>> \in applied'
      <4>1. PICK x : x = CreatePropertiesUpdated(id, list)
        OBVIOUS
      <4>2. x \in Request /\ x.id = id /\ x.properties = list
        <5>1. id \in Int
          BY <1>0, TabsType
        <5> QED BY <4>1, <5>1 DEF CreatePropertiesUpdated, Request, ApplyMsg
      <4>3. sent'[r] = sent[r] \/ sent'[r] = Append(sent[r], x)
        BY <3>1, <4>1 DEF Sends, Send
      <4>4. Range(Append(sent[r], x)) = Range(sent[r]) \cup {x}
        BY <1>0, <4>2, MembersOf
      <4>5. m \in Range(sent[r]) \/ m = x
        BY <1>1, <4>3, <4>4
      <4> QED BY <1>1, <2>1, <3>1, <4>2, <4>5 DEF Sends
    <3> QED BY <1>0, <1>1, <2>1, <2>3, <3>1, UserSends
  <2>4. CASE ~UserStep
    <3>1. CreateLoadModules \in Request
      BY DEF CreateLoadModules, Request, LoadMsg
    <3>2. Range(Append(sent[r], CreateLoadModules)) = Range(sent[r]) \cup {CreateLoadModules}
      BY <1>0, <3>1, MembersOf
    <3>3. sent[r] # <<>> => Range(Tail(sent[r])) \subseteq Range(sent[r])
      BY <1>0, MembersOf
    <3>4. \/ sent'[r] = sent[r] \/ sent'[r] = <<>> \/ sent'[r] = Append(sent[r], CreateLoadModules)
          \/ sent[r] # <<>> /\ sent'[r] = Tail(sent[r])
      BY <1>0, <2>4, SentOf
    <3> QED BY <1>1, <2>1, <2>2, <3>2, <3>3, <3>4, RangesOf
  <2> QED BY <2>3, <2>4
<1>2. ASSUME NEW task \in Tasks', task.op = "DoProcessJSRequest", task.json.type = "apply",
             NEW i \in DOMAIN task.json.properties
      PROVE  <<task.json.id, task.json.properties[i].id>> \in applied'
  <2>1. CASE task \in Tasks
    BY <1>0, <1>2, <2>1 DEF AppliedInv
  <2>2. CASE task \notin Tasks
    <3>1. PostedBy(task)
      BY <1>0, <2>2, PostsOf
    <3>2. /\ task = [op |-> "OnProxyInitialized", host |-> TRUE] => task.op = "OnProxyInitialized"
          /\ \A module, to : task = [op |-> "DoRegisterModule", module |-> module, to |-> to] =>
               task.op = "DoRegisterModule"
          /\ \A id : task = [op |-> "UnregisterModule", id |-> id] => task.op = "UnregisterModule"
          /\ \A id, list : task = [op |-> "SavePropertiesList", id |-> id, properties |-> list] =>
               task.op = "SavePropertiesList"
          /\ \A msg : task = [op |-> "HandleMessage", msg |-> msg] => task.op = "HandleMessage"
          /\ \A json, to : task = [op |-> "DoProcessJSRequest", json |-> json, to |-> to] =>
               task.op = "DoProcessJSRequest" /\ task.json = json
      OBVIOUS
    <3>3. \/ task.op \in {"OnProxyInitialized", "UnregisterModule", "HandleMessage", "DoRegisterModule",
                          "SavePropertiesList"}
          \/ \E r \in Requester : sent[r] # <<>> /\ task.json = Head(sent[r])
      BY ONLY <3>1, <3>2, Zenon DEF PostedBy
    <3>4. \A r \in Requester : sent[r] # <<>> => Head(sent[r]) \in Range(sent[r])
      BY <1>0, MembersOf
    <3> QED BY <1>0, <1>2, <3>3, <3>4 DEF AppliedInv
  <2> QED BY <2>1, <2>2
<1> QED BY <1>1, <1>2 DEF AppliedInv

-----------------------------------------------------------------------------
(* What is stored, and what is due.                                        *)

Stored(id, k) == modules[id].properties[k].value

LEMMA TaskGives ==
  ASSUME NEW task \in Task, NEW id, NEW k
  PROVE  /\ Stores(id, k)[task] = IF task.op = "SavePropertiesList" /\ task.id = id
                                  THEN GivenBy(task.properties, k) ELSE {}
         /\ Passes(id, k)[task] = IF task.op = "HandleMessage" /\ task.msg.id = id
                                  THEN GivenBy(task.msg.properties, k) ELSE {}
BY DEF Stores, Passes

\* What SavePropertiesList does to one module.
LEMMA SavesOne ==
  ASSUME modules \in [DOMAIN modules -> ModuleType], NEW id \in DOMAIN modules, NEW i, NEW list,
         SavePropertiesList(i, list)
  PROVE  /\ i # id => modules'[id] = modules[id]
         /\ i = id => modules'[id].properties = SavedProperties(modules[id].properties, list)
<1>1. [modules[id] EXCEPT !.properties = SavedProperties(@, list)].properties
        = SavedProperties(modules[id].properties, list)
  BY DEF ModuleType
<1> QED BY <1>1 DEF SavePropertiesList

\* A property the page has not sent changes by the updates of the application alone.
LEMMA RunStored ==
  ASSUME Told, AppliedInv, Runs, NEW id \in DOMAIN modules, id \in DOMAIN modules',
         NEW k \in 1..Len(modules[id].properties),
         <<id, k - 1>> \notin applied
  PROVE  /\ modules'[id].properties[k].read_only = modules[id].properties[k].read_only
         /\ IF Stores(id, k)[Head(loop)] = {}
            THEN modules'[id].properties[k] = modules[id].properties[k]
            ELSE /\ SaveUpdate /\ Passes(id, k)[Head(loop)] = {}
                 /\ \A x \in Stores(id, k)[Head(loop)] :
                      ~modules[id].properties[k].read_only => Stored(id, k)' = x
<1>0. /\ TypeOK /\ RunTask /\ modules \in [DOMAIN modules -> ModuleType] /\ HostGoesOn
      /\ modules[id].properties \in Seq(Property)
  BY DEF Told, Basis, Runs, TypeOK, ModulesTypeOK, ModuleType
<1>1. Head(loop) \in Task /\ Head(loop) \in Tasks /\ ~PassPeerUpdate
  <2>1. Head(loop) \in Tasks
    BY RunStep DEF Told, Basis
  <2>2. loop # <<>> /\ loop \in Seq(Task)
    BY <1>0, RunStep DEF Told, Basis, TypeOK
  <2> QED BY <1>0, <2>1, <2>2, HeadTailProperties DEF HostGoesOn, PassPeerUpdate, Takes
<1>2. CASE OnProxyInitialized \/ PushUpdate
  <2>1. modules' = modules /\ Head(loop).op # "SavePropertiesList"
    BY <1>2 DEF OnProxyInitialized, PushUpdate, Takes
  <2> QED BY <1>1, <2>1, TaskGives
<1>3. CASE DoRegisterModule
  <2>1. modules'[id] = modules[id] /\ Head(loop).op # "SavePropertiesList"
    BY <1>3 DEF DoRegisterModule, Takes, Insert
  <2> QED BY <1>1, <2>1, TaskGives
<1>4. CASE UnregisterModule
  <2>1. modules'[id] = modules[id] /\ Head(loop).op # "SavePropertiesList"
    BY <1>4 DEF UnregisterModule, Takes, Erase, Restrict
  <2> QED BY <1>1, <2>1, TaskGives
<1>5. CASE SaveUpdate
  <2>1. /\ Head(loop).op = "SavePropertiesList" /\ Head(loop).properties \in PropertyList
        /\ SavePropertiesList(Head(loop).id, Head(loop).properties)
    BY <1>1, <1>5 DEF SaveUpdate, Takes, Task
  <2>2. /\ Stores(id, k)[Head(loop)] = IF Head(loop).id = id THEN GivenBy(Head(loop).properties, k) ELSE {}
        /\ Passes(id, k)[Head(loop)] = {}
    BY <1>1, <2>1, TaskGives
  <2>3. CASE Head(loop).id # id
    BY <1>0, <2>1, <2>2, <2>3, SavesOne
  <2>4. CASE Head(loop).id = id
    <3>1. modules'[id].properties = SavedProperties(modules[id].properties, Head(loop).properties)
      BY <1>0, <2>1, <2>4, SavesOne
    <3>2. /\ GivenBy(Head(loop).properties, k) = {} =>
               modules'[id].properties[k] = modules[id].properties[k]
          /\ modules'[id].properties[k].read_only = modules[id].properties[k].read_only
          /\ \A x \in GivenBy(Head(loop).properties, k) :
               ~modules[id].properties[k].read_only => modules'[id].properties[k].value = x
      BY <1>0, <2>1, <3>1, SavedPropertiesGiven
    <3> QED BY <1>5, <2>2, <2>4, <3>2 DEF Stored
  <2> QED BY <2>3, <2>4
<1>6. CASE DoProcessJSRequest
  <2>1. Head(loop).op = "DoProcessJSRequest" /\ Head(loop).json \in Request
    BY <1>1, <1>6 DEF DoProcessJSRequest, Takes, Task
  <2>2. modules'[id].properties[k] = modules[id].properties[k]
    <3>1. CASE modules' = modules
      BY <3>1
    <3>2. CASE /\ Head(loop).json.type = "apply"
               /\ SavePropertiesList(FindId(Head(loop).json), GetPropertiesList(Head(loop).json))
      <4>1. PICK i, list : /\ i = Head(loop).json.id /\ list = Head(loop).json.properties
                           /\ list \in PropertyList /\ SavePropertiesList(i, list)
        BY <2>1, <3>2 DEF FindId, GetPropertiesList, Request, ApplyMsg, LoadMsg, Malformed, UnknownType
      <4>2. CASE i # id
        BY <1>0, <4>1, <4>2, SavesOne
      <4>3. CASE i = id
        <5>1. modules'[id].properties = SavedProperties(modules[id].properties, list)
          BY <1>0, <4>1, <4>3, SavesOne
        <5>2. \A j \in DOMAIN list : list[j].id # k - 1
          BY <1>1, <2>1, <3>2, <4>1, <4>3 DEF AppliedInv
        <5>3. GivenBy(list, k) = {}
          <6>1. DOMAIN list = 1..Len(list)
            BY <4>1, LenProperties DEF PropertyList
          <6> QED BY <5>2, <6>1 DEF GivenBy, LastTo
        <5> QED BY <1>0, <4>1, <5>1, <5>3, SavedPropertiesGiven
      <4> QED BY <4>2, <4>3
    <3> QED BY <1>6, <3>1, <3>2 DEF DoProcessJSRequest, PassPropertyUpdateToModule
  <2> QED BY <1>1, <2>1, <2>2, TaskGives
<1> QED BY <1>0, <1>1, <1>2, <1>3, <1>4, <1>5, <1>6 DEF RunTask

\* What one thread is about to pass on.
LEMMA DueSteps ==
  ASSUME OneThread, TypeOK, NEW id, NEW k, NEW t \in Thread
  PROVE  /\ \A i, list : UpdateProperties(t, i, list) =>
              Due(id, k) = {} /\ Due(id, k)' = IF i = id THEN GivenBy(list, k) ELSE {}
         /\ UpdatePropertiesReturns(t) =>
              /\ Due(id, k)' = {}
              /\ Due(id, k) = IF app[t].id = id THEN GivenBy(app[t].properties, k) ELSE {}
<1>1. \A u \in Thread : u = t
  BY DEF OneThread
<1>2. ASSUME NEW i, NEW list, UpdateProperties(t, i, list)
      PROVE  Due(id, k) = {} /\ Due(id, k)' = IF i = id THEN GivenBy(list, k) ELSE {}
  <2>1. app'[t].at = "updating" /\ app'[t].id = i /\ app'[t].properties = list
    BY <1>2, CallIs
  <2>2. app[t].at # "updating"
    BY <1>2 DEF UpdateProperties, Idle
  <2>3. Updating(id) = {} /\ Updating(id)' = IF i = id THEN {t} ELSE {}
    BY <1>1, <2>1, <2>2 DEF Updating
  <2> QED BY <2>1, <2>3 DEF Due
<1>3. ASSUME UpdatePropertiesReturns(t)
      PROVE  /\ Due(id, k)' = {}
             /\ Due(id, k) = IF app[t].id = id THEN GivenBy(app[t].properties, k) ELSE {}
  <2>1. app[t].at = "updating" /\ app'[t].at # "updating"
    BY <1>3, CallIs
  <2>2. Updating(id)' = {} /\ Updating(id) = IF app[t].id = id THEN {t} ELSE {}
    BY <1>1, <2>1 DEF Updating
  <2> QED BY <2>2 DEF Due
<1> QED BY <1>2, <1>3

LEMMA DueStays ==
  ASSUME Basis, [WebNext]_webVars, NEW id, NEW k,
         ~\E t \in Thread : \/ \E i \in DOMAIN modules, list \in UpdateList : UpdateProperties(t, i, list)
                            \/ UpdatePropertiesReturns(t)
  PROVE  Due(id, k)' = Due(id, k)
<1>1. \A t \in Thread : app'[t] = app[t] \/ (app[t].at # "updating" /\ app'[t].at # "updating")
  BY CallSteps
<1>2. Updating(id)' = Updating(id) /\ \A t \in Updating(id) : app'[t] = app[t]
  BY <1>1 DEF Updating
<1> QED BY <1>2 DEF Due

\* A message that gives the property a value goes out in this step.
Passing(id, k) == Runs /\ PushUpdate /\ Passes(id, k)[Head(loop)] # {}

\* A page that comes to what the store comes to still does, and so does what is passed
\* to it.
LEMMA QueueStep ==
  ASSUME OneThread, Told, UpdatesInv, AppliedInv, [WebNext]_webVars,
         NEW id \in DOMAIN modules, id \in DOMAIN modules', NEW k \in 1..Len(modules[id].properties),
         ~modules[id].properties[k].read_only, <<id, k - 1>> \notin applied,
         Passed(id, k), Stored(id, k) \in Meeting(id, k)
  PROVE  /\ Passed(id, k)' /\ Stored(id, k)' \in Meeting(id, k)'
         /\ Passing(id, k) => Passes(id, k)[Head(loop)] \subseteq Meeting(id, k)'
         /\ ~Passing(id, k) => Meeting(id, k) \subseteq Meeting(id, k)'
<1> DEFINE S == Stores(id, k)
           P == Passes(id, k)
<1>0. /\ Basis /\ TypeOK /\ loop \in Seq(Task)
      /\ modules[id].properties \in Seq(Property) /\ Stored(id, k) \in Value
      /\ Stores(id, k)' = S /\ Passes(id, k)' = P
  <2>1. TypeOK /\ modules[id].properties \in Seq(Property)
    BY DEF Told, Basis, TypeOK, ModulesTypeOK, ModuleType
  <2>2. Stored(id, k) \in Value
    <3>1. modules[id].properties[k] \in Property
      BY <2>1, ElementOfSeq
    <3> QED BY <3>1 DEF Stored, Property
  <2> QED BY <2>1, <2>2 DEF Told, Basis, TypeOK, Stores, Passes
<1>1. AllPassed(loop, S, P, Due(id, k)) /\ Stored(id, k) \in Comings(loop, S, P, Stored(id, k), Due(id, k))
  BY DEF Passed, Meeting, Stored
<1>2. /\ Passed(id, k)' <=> AllPassed(loop', S, P, Due(id, k)')
      /\ Meeting(id, k)' = Comings(loop', S, P, Stored(id, k)', Due(id, k)')
      /\ Meeting(id, k) = Comings(loop, S, P, Stored(id, k), Due(id, k))
  BY <1>0 DEF Passed, Meeting, Stored
<1> HIDE DEF S, P
<1>3. ASSUME NEW t \in Thread, NEW i \in DOMAIN modules, NEW list \in UpdateList, UpdateProperties(t, i, list)
      PROVE  /\ AllPassed(loop', S, P, Due(id, k)') /\ Stored(id, k)' = Stored(id, k) /\ ~Runs
             /\ Comings(loop, S, P, Stored(id, k), Due(id, k)) \subseteq
                  Comings(loop', S, P, Stored(id, k)', Due(id, k)')
  <2>1. PICK task : task = [op |-> "SavePropertiesList", id |-> i, properties |-> list]
    OBVIOUS
  <2>2. task \in Task /\ loop' = Append(loop, task) /\ Stored(id, k)' = Stored(id, k)
    <3>1. i \in Int /\ list \in PropertyList
      BY <1>0, <1>3, ConstantsAssumption DEF TypeOK, ModulesTypeOK
    <3> QED BY <1>3, <2>1, <3>1 DEF UpdateProperties, Post, Task, Outside, instance, Stored
  <2>3. S[task] = (IF i = id THEN GivenBy(list, k) ELSE {}) /\ P[task] = {}
    <3>1. task.op = "SavePropertiesList" /\ task.id = i /\ task.properties = list
      BY <2>1
    <3> QED BY <2>2, <3>1, TaskGives DEF S, P
  <2>4. Due(id, k) = {} /\ Due(id, k)' = S[task]
    BY <1>0, <1>3, <2>3, DueSteps
  <2>5. ~Runs
    <3>1. Len(loop) \in Nat /\ Len(loop') = Len(loop) + 1
      BY <1>0, <2>2
    <3>2. Runs => loop # <<>> /\ loop' = Tail(loop)
      BY DEF Runs, RunTask, OnProxyInitialized, DoRegisterModule, UnregisterModule, SaveUpdate,
         PushUpdate, DoProcessJSRequest, PassPeerUpdate, Takes
    <3>3. Runs => Len(loop') = Len(loop) - 1
      BY <1>0, <3>2
    <3> QED BY <3>1, <3>3
  <2>6. CASE S[task] = {}
    BY <1>0, <1>1, <2>2, <2>3, <2>4, <2>5, <2>6, ComingsAppend
  <2>7. CASE S[task] # {}
    <3>1. PICK value \in Value : S[task] = {value}
      <4>1. list \in PropertyList
        BY ConstantsAssumption
      <4> QED BY <2>3, <2>7, <4>1, GivenOnce
    <3>2. /\ AllPassed(Append(loop, task), S, P, {value})
          /\ Comings(Append(loop, task), S, P, Stored(id, k), {value}) = Value
      <4>1. loop \in Seq(Task) /\ task \in Task
        BY <1>0, <2>2
      <4> QED BY ONLY <3>1, <4>1, ComingsStore, Zenon
    <3> QED BY <2>2, <2>4, <2>5, <3>1, <3>2 DEF Comings
  <2> QED BY <2>6, <2>7
<1>4. ASSUME NEW t \in Thread, UpdatePropertiesReturns(t)
      PROVE  /\ AllPassed(loop', S, P, Due(id, k)') /\ Stored(id, k)' = Stored(id, k) /\ ~Runs
             /\ Comings(loop, S, P, Stored(id, k), Due(id, k)) \subseteq
                  Comings(loop', S, P, Stored(id, k)', Due(id, k)')
  <2>1. PICK task : task = [op  |-> "HandleMessage",
                            msg |-> CreatePropertyUpdated(app[t].id, app[t].properties)]
    OBVIOUS
  <2>2. task \in Task /\ loop' = Append(loop, task) /\ Stored(id, k)' = Stored(id, k)
    <3>1. app[t].id \in Int /\ app[t].properties \in PropertyList
      BY <1>0, <1>4 DEF UpdatePropertiesReturns, Call, Idle, TypeOK, CallersTypeOK
    <3> QED BY <1>4, <2>1, <3>1, MessageTypes DEF UpdatePropertiesReturns, Post, Task, Outside, instance, Stored
  <2>3. P[task] = (IF app[t].id = id THEN GivenBy(app[t].properties, k) ELSE {}) /\ S[task] = {}
    <3>1. task.op = "HandleMessage" /\ task.msg.id = app[t].id /\ task.msg.properties = app[t].properties
      BY <2>1 DEF CreatePropertyUpdated
    <3> QED BY <2>2, <3>1, TaskGives DEF S, P
  <2>4. Due(id, k)' = {} /\ Due(id, k) = P[task]
    BY <1>0, <1>4, <2>3, DueSteps
  <2>5. ~Runs
    <3>1. Len(loop) \in Nat /\ Len(loop') = Len(loop) + 1
      BY <1>0, <2>2
    <3>2. Runs => loop # <<>> /\ loop' = Tail(loop)
      BY DEF Runs, RunTask, OnProxyInitialized, DoRegisterModule, UnregisterModule, SaveUpdate,
         PushUpdate, DoProcessJSRequest, PassPeerUpdate, Takes
    <3>3. Runs => Len(loop') = Len(loop) - 1
      BY <1>0, <3>2
    <3> QED BY <3>1, <3>3
  <2>6. CASE P[task] = {}
    BY <1>0, <1>1, <2>2, <2>3, <2>4, <2>5, <2>6, ComingsAppend
  <2>7. CASE P[task] # {}
    <3>1. /\ AllPassed(Append(loop, task), S, P, {})
          /\ Comings(loop, S, P, Stored(id, k), Due(id, k)) \subseteq
               Comings(Append(loop, task), S, P, Stored(id, k), {})
      BY <1>0, <2>2, <2>3, <2>4, <2>7, ComingsPass
    <3> QED BY <2>2, <2>4, <2>5, <3>1
  <2> QED BY <2>6, <2>7
<1>5. ASSUME ~\E t \in Thread : \/ \E i \in DOMAIN modules, list \in UpdateList : UpdateProperties(t, i, list)
                                \/ UpdatePropertiesReturns(t),
             ~Runs
      PROVE  /\ AllPassed(loop', S, P, Due(id, k)') /\ Stored(id, k)' = Stored(id, k)
             /\ Comings(loop, S, P, Stored(id, k), Due(id, k)) \subseteq
                  Comings(loop', S, P, Stored(id, k)', Due(id, k)')
  <2>1. Due(id, k)' = Due(id, k) /\ Stored(id, k)' = Stored(id, k)
    <3>1. UNCHANGED modules
      BY <1>0, <1>5, CounterSteps
    <3> QED BY <1>0, <1>5, <3>1, DueStays DEF Stored
  <2>2. CASE loop' = loop
    BY <1>1, <2>1, <2>2
  <2>3. ASSUME NEW task \in Task, Post(task), PostedBy(task)
        PROVE  /\ AllPassed(loop', S, P, Due(id, k)')
               /\ Comings(loop, S, P, Stored(id, k), Due(id, k)) \subseteq
                    Comings(loop', S, P, Stored(id, k)', Due(id, k)')
    <3>1. task.op \notin {"SavePropertiesList", "HandleMessage"}
      <4>1. /\ task = [op |-> "OnProxyInitialized", host |-> TRUE] => task.op = "OnProxyInitialized"
            /\ \A module, to : task = [op |-> "DoRegisterModule", module |-> module, to |-> to] =>
                 task.op = "DoRegisterModule"
            /\ \A i : task = [op |-> "UnregisterModule", id |-> i] => task.op = "UnregisterModule"
            /\ \A json, to : task = [op |-> "DoProcessJSRequest", json |-> json, to |-> to] =>
                 task.op = "DoProcessJSRequest"
        OBVIOUS
      <4>2. task.op \in {"OnProxyInitialized", "DoRegisterModule", "UnregisterModule", "DoProcessJSRequest"}
        BY ONLY <1>5, <2>3, <4>1, Zenon DEF PostedBy
      <4> QED BY <4>2
    <3>2. S[task] = {} /\ P[task] = {} /\ loop' = Append(loop, task)
      BY <2>3, <3>1, TaskGives DEF S, P, Post
    <3> QED BY <1>0, <1>1, <2>1, <2>3, <3>2, ComingsAppend
  <2> QED BY <1>0, <1>5, <2>1, <2>2, <2>3, PostSteps
<1>6. ASSUME Runs
      PROVE  /\ AllPassed(loop', S, P, Due(id, k)')
             /\ Stored(id, k)' \in Comings(loop', S, P, Stored(id, k)', Due(id, k)')
             /\ Passing(id, k) => P[Head(loop)] \subseteq Comings(loop', S, P, Stored(id, k)', Due(id, k)')
             /\ ~Passing(id, k) => Comings(loop, S, P, Stored(id, k), Due(id, k)) \subseteq
                  Comings(loop', S, P, Stored(id, k)', Due(id, k)')
  <2>1. loop # <<>> /\ loop' = Tail(loop) /\ app' = app
    BY <1>6 DEF Runs, RunTask, OnProxyInitialized, DoRegisterModule, UnregisterModule, SaveUpdate,
       PushUpdate, DoProcessJSRequest, PassPeerUpdate, Takes, callers
  <2>2. Due(id, k)' = Due(id, k)
    BY <2>1 DEF Due, Updating
  <2>3. /\ IF S[Head(loop)] = {} THEN Stored(id, k)' = Stored(id, k)
           ELSE P[Head(loop)] = {} /\ \A x \in S[Head(loop)] : Stored(id, k)' = x
        /\ Stored(id, k)' \in Value
    <3>1. /\ IF S[Head(loop)] = {} THEN Stored(id, k)' = Stored(id, k)
             ELSE P[Head(loop)] = {} /\ \A x \in S[Head(loop)] : Stored(id, k)' = x
      BY <1>6, RunStored DEF S, P, Stored
    <3>2. S[Head(loop)] \subseteq Value
      <4>1. Head(loop) \in Task
        BY <1>0, <2>1, HeadTailProperties
      <4>2. Head(loop).op = "SavePropertiesList" => Head(loop).properties \in PropertyList
        BY <4>1 DEF Task
      <4> QED BY <4>1, <4>2, TaskGives, GivenOnce DEF S
    <3> QED BY <1>0, <3>1, <3>2
  <2>4. CASE P[Head(loop)] = {}
    <3>1. ~Passing(id, k)
      BY <2>4 DEF Passing, P
    <3> QED BY <1>0, <1>1, <2>1, <2>2, <2>3, <2>4, <3>1, ComingsTail
  <2>5. CASE P[Head(loop)] # {}
    <3>1. Head(loop) \in Task
      BY <1>0, <2>1, HeadTailProperties
    <3>2. Head(loop).op = "HandleMessage" /\ P[Head(loop)] = GivenBy(Head(loop).msg.properties, k)
      BY <2>5, <3>1, TaskGives DEF P
    <3>3. Passing(id, k)
      BY <1>6, <2>5, <3>2 DEF Passing, P, Runs, RunTask, OnProxyInitialized, DoRegisterModule, UnregisterModule,
         SaveUpdate, DoProcessJSRequest, PassPeerUpdate, Takes
    <3>4. Head(loop).msg.properties \in PropertyList
      BY <3>1, <3>2 DEF Task, UpdateMsg
    <3>5. PICK x \in Value : P[Head(loop)] = {x}
      BY <2>5, <3>2, <3>4, GivenOnce
    <3>6. S[Head(loop)] = {}
      BY <2>3, <2>5
    <3> QED BY <1>0, <1>1, <2>1, <2>2, <2>3, <3>3, <3>5, <3>6, ComingsTailPass
  <2> QED BY <2>4, <2>5
<1>7. Passing(id, k) => Runs
  BY DEF Passing
<1> QED BY <1>1, <1>2, <1>3, <1>4, <1>5, <1>6, <1>7 DEF P

-----------------------------------------------------------------------------
(* What the page shows, and what is written in it.                         *)

\* Writing in one field leaves the others.
LEMMA EditChanges ==
  ASSUME NEW old \in Tabs, NEW id \in DOMAIN old, NEW k \in DOMAIN old[id], NEW text,
         NEW new, new = [old EXCEPT ![id][k].text = text]
  PROVE  /\ DOMAIN new = DOMAIN old
         /\ \A i \in DOMAIN old : \A j \in DOMAIN old[i] : i # id \/ j # k => new[i][j] = old[i][j]
<1>1. old \in [DOMAIN old -> Seq(Field)]
  BY TabsType
<1>2. PICK field : field = [old[id][k] EXCEPT !.text = text]
  OBVIOUS
<1>3. new = [old EXCEPT ![id] = [old[id] EXCEPT ![k] = field]]
  BY <1>2
<1>4. new[id] = [old[id] EXCEPT ![k] = field] /\ \A i \in DOMAIN old \ {id} : new[i] = old[i]
  BY <1>1, <1>3
<1>5. \A j \in DOMAIN old[id] : j # k => new[id][j] = old[id][j]
  BY <1>4
<1> QED BY <1>1, <1>3, <1>4, <1>5

\* The page changes when it is cleared, when it reads, and in the field its user is at.
LEMMA TabsSteps ==
  ASSUME Basis, [WebNext]_webVars
  PROVE  \/ Clears /\ DOMAIN tabs' = {}
         \/ written' = written /\ \E q \in Requester : OnWsMessage(q)
         \/ /\ DOMAIN tabs' = DOMAIN tabs /\ written \subseteq written'
            /\ \A id \in DOMAIN tabs : \A k \in DOMAIN tabs[id] :
                 <<id, k - 1>> \in written' \cup applied' \/ tabs'[id][k] = tabs[id][k]
<1>0. tabs \in Tabs
  BY DEF Basis, PageType
<1>1. CASE Clears
  <2>1. tabs' = <<>>
    BY <1>1 DEF Clears, Leaves, OnDisconnected, Clear
  <2> QED BY <1>1, <2>1
<1>2. ASSUME NEW id \in DOMAIN tabs, NEW k \in DOMAIN tabs[id], Writes(id, k) \/ OnPropertyActivated(id, k)
      PROVE  /\ DOMAIN tabs' = DOMAIN tabs /\ written \subseteq written'
             /\ \A i \in DOMAIN tabs : \A j \in DOMAIN tabs[i] :
                  <<i, j - 1>> \in written' \cup applied' \/ tabs'[i][j] = tabs[i][j]
  <2>1. \E text : tabs' = [tabs EXCEPT ![id][k].text = text]
    BY <1>2 DEF Writes, OnPropertyActivated
  <2>2. <<id, k - 1>> \in written' \cup applied'
    <3>1. CASE Writes(id, k)
      BY <3>1 DEF Writes
    <3>2. CASE OnPropertyActivated(id, k)
      <4>1. PICK value : Sends(id, <<[id |-> k - 1, value |-> value]>>)
        BY <3>2 DEF OnPropertyActivated
      <4>2. PICK a : a = [id |-> k - 1, value |-> value]
        OBVIOUS
      <4>3. 1 \in DOMAIN <<a>> /\ <<a>>[1].id = k - 1
        BY <4>2
      <4> QED BY <4>1, <4>2, <4>3 DEF Sends
    <3> QED BY <1>2, <3>1, <3>2
  <2>3. written \subseteq written'
    BY <1>2 DEF Writes, OnPropertyActivated, Sends
  <2> QED BY <1>0, <2>1, <2>2, <2>3, EditChanges
<1>3. ASSUME \/ \E module \in Buttons : SelectModule(module)
             \/ \E id \in DOMAIN tabs : OnPropertiesActivated(id)
      PROVE  tabs' = tabs /\ written' = written
  BY <1>3 DEF SelectModule, past, OnPropertiesActivated, Sends
<1>4. CASE (InstanceStep /\ PageKept) \/ Runs \/ UNCHANGED webVars
  BY <1>4 DEF PageKept, browser, past, Runs, webVars
<1>5. ASSUME NEW r \in Requester, Serves(r) \/ Makes(r) \/ OnConnected(r)
      PROVE  tabs' = tabs /\ written' = written
  BY <1>5 DEF Serves, Makes, Opens, CountdownEnds, OnClicked, CreateWs, OnConnected, browser, past
<1>6. \A q \in Requester : OnWsMessage(q) => written' = written
  BY DEF OnWsMessage
<1> QED BY <1>1, <1>2, <1>3, <1>4, <1>5, <1>6, WebSteps DEF UserStep, Clears

\* What a field of the page shows of a property.
Seen(field) == {v \in Value : Looks(field, v)}

\* A message that gives a property a value makes the page show it, and any other leaves
\* what is shown.
LEMMA ReadingSees ==
  ASSUME Told, KindsAgree, UpdatesInv, NEW q \in Requester, OnWsMessage(q),
         NEW id \in DOMAIN modules, NEW k \in 1..Len(modules[id].properties),
         id \in DOMAIN tabs'
  PROVE  IF Changes(id, k)[Head(inbox[q])] = {}
         THEN id \in DOMAIN tabs /\ tabs'[id][k] = tabs[id][k]
         ELSE Changes(id, k)[Head(inbox[q])] \cap Seen(tabs'[id][k]) # {}
<1>0. /\ tabs \in Tabs /\ tabs \in [DOMAIN tabs -> Seq(Field)]
      /\ inbox[q] \in Seq(Message) /\ inbox[q] # <<>> /\ tabs' = OnMessage(tabs, Head(inbox[q]))
      /\ modules[id].properties \in Seq(Property)
  BY TabsType DEF OnWsMessage, Told, Basis, PageType, TypeOK, ModulesTypeOK, ModuleType
<1>1. PICK m \in Message : m = Head(inbox[q]) /\ m \in Range(inbox[q])
  BY <1>0, MembersOf
<1>2. Changes(id, k)[m] =
        IF m.type = "property_update" THEN IF m.id = id THEN GivenBy(m.properties, k) ELSE {}
        ELSE IF m.type = "module_added" THEN IF m.id = id THEN {m.properties[k].value} ELSE {}
        ELSE IF m.type = "module_list" THEN {e.properties[k].value : e \in {e \in m.modules : e.id = id}}
        ELSE {}
  BY DEF Changes
<1>3. \A p \in Seq(Property) : Kinds(p) = Kinds(modules[id].properties) =>
        p[k] \in Property /\ k \in DOMAIN p
  <2>1. ASSUME NEW p \in Seq(Property), Kinds(p) = Kinds(modules[id].properties)
        PROVE  p[k] \in Property /\ k \in DOMAIN p
    <3>1. DOMAIN p = DOMAIN modules[id].properties
      BY <2>1 DEF Kinds
    <3>2. k \in 1..Len(p) /\ k \in DOMAIN p
      BY <1>0, <3>1, LenProperties
    <3> QED BY <3>2, ElementOfSeq
  <2> QED BY <2>1
<1>4. ASSUME NEW p \in Seq(Property), Kinds(p) = Kinds(modules[id].properties),
             tabs'[id] = AddProperties(p)
      PROVE  p[k].value \in Seen(tabs'[id][k])
  <2>1. p[k].value \in Value /\ k \in DOMAIN p
    BY <1>3, <1>4 DEF Property
  <2>2. tabs'[id][k] = [type |-> p[k].type, text |-> Face(p[k].type, p[k].value)]
    BY <1>4, <2>1 DEF AddProperties
  <2> QED BY <2>1, <2>2, FieldLooks DEF Seen
<1>5. CASE m.type = "property_update"
  <2>1. m.properties \in UpdateList /\ m.properties \in PropertyList
    BY <1>1, <1>5, ConstantsAssumption DEF UpdatesInv
  <2>2. tabs' = SetModulePoperties(tabs, m.id, m.properties)
    BY <1>0, <1>1, <1>5 DEF OnMessage
  <2>3. id \in DOMAIN tabs
    BY <2>2 DEF SetModulePoperties
  <2>4. CASE m.id # id
    BY <1>0, <1>1, <1>2, <1>5, <2>2, <2>3, <2>4 DEF SetModulePoperties
  <2>5. CASE m.id = id
    <3>1. tabs'[id] = SetPoropertyValues(tabs[id], m.properties)
      BY <1>0, <2>2, <2>3, <2>5 DEF SetModulePoperties
    <3>2. tabs[id] \in Seq(Field) /\ Len(tabs[id]) = Len(modules[id].properties)
      <4>1. DOMAIN tabs[id] = DOMAIN modules[id].properties
        BY <2>3 DEF KindsAgree, Fits, Kinds
      <4> QED BY <1>0, <2>3, <4>1, LenProperties
    <3>3. AllWithin(m.properties, Len(tabs[id]))
      BY <2>1, <3>2 DEF UpdatesInv
    <3>4. /\ GivenBy(m.properties, k) = {} => tabs'[id][k] = tabs[id][k]
          /\ \A value \in GivenBy(m.properties, k) : Looks(tabs'[id][k], value)
      BY <2>1, <3>1, <3>2, <3>3, SetPoropertyValuesLooks
    <3>5. GivenBy(m.properties, k) \subseteq Value
      BY <2>1, GivenOnce
    <3> QED BY <1>1, <1>2, <1>5, <2>3, <2>5, <3>4, <3>5 DEF Seen
  <2> QED BY <2>4, <2>5
<1>6. CASE m.type = "module_added"
  <2>1. tabs' = CrateModule(tabs, m) /\ m \in AddedMsg
    BY <1>0, <1>1, <1>6 DEF OnMessage, Message, PushedMsg, Response, AddedMsg, RemovedMsg, UpdateMsg,
       ListMsg, EmptyMsg
  <2>2. CASE m.id # id
    <3>1. id \in DOMAIN tabs /\ tabs'[id] = tabs[id]
      BY <2>1, <2>2 DEF CrateModule
    <3> QED BY <1>1, <1>2, <1>6, <2>2, <3>1
  <2>3. CASE m.id = id
    <3>1. tabs'[id] = AddProperties(m.properties) /\ m.properties \in Seq(Property)
      BY <2>1, <2>3 DEF CrateModule, AddedMsg
    <3>2. Kinds(m.properties) = Kinds(modules[id].properties)
      BY <1>1, <1>6, <2>3 DEF KindsAgree, FitsAll, Fits
    <3>3. m.properties[k].value \in Seen(tabs'[id][k])
      BY <1>4, <3>1, <3>2
    <3> QED BY <1>1, <1>2, <1>6, <2>3, <3>3
  <2> QED BY <2>2, <2>3
<1>7. CASE m.type = "module_list"
  <2>1. tabs' = CrateModules(tabs, m.modules) /\ m \in ListMsg
    BY <1>0, <1>1, <1>7 DEF OnMessage, Message, PushedMsg, Response, AddedMsg, RemovedMsg, UpdateMsg,
       ListMsg, EmptyMsg
  <2>2. CASE ~\E e \in m.modules : e.id = id
    <3>1. id \in DOMAIN tabs /\ tabs'[id] = tabs[id]
      BY <2>1, <2>2 DEF CrateModules
    <3>2. Changes(id, k)[m] = {}
      BY <1>2, <1>7, <2>2
    <3> QED BY <1>1, <3>1, <3>2
  <2>3. CASE \E e \in m.modules : e.id = id
    <3>1. PICK e \in m.modules : e.id = id /\ tabs'[id] = AddProperties(e.properties)
      <4>1. PICK e : e = CHOOSE x \in m.modules : x.id = id
        OBVIOUS
      <4>2. e \in m.modules /\ e.id = id
        BY <2>3, <4>1
      <4>3. tabs'[id] = AddProperties(e.properties)
        BY <2>1, <2>3, <4>1 DEF CrateModules
      <4> QED BY <4>2, <4>3
    <3>2. e.properties \in Seq(Property)
      BY <2>1 DEF ListMsg, ModuleEntry
    <3>3. Kinds(e.properties) = Kinds(modules[id].properties)
      BY <1>1, <1>7, <3>1 DEF KindsAgree, FitsAll, Fits
    <3>4. e.properties[k].value \in Seen(tabs'[id][k])
      BY <1>4, <3>1, <3>2, <3>3
    <3>5. e.properties[k].value \in Changes(id, k)[m]
      BY <1>2, <1>7, <3>1
    <3> QED BY <1>1, <3>4, <3>5
  <2> QED BY <2>2, <2>3
<1>8. CASE m.type = "module_removed"
  <2>1. tabs' = Restrict(tabs, DOMAIN tabs \ {m.id})
    BY <1>0, <1>1, <1>8 DEF OnMessage, DeleteModule
  <2>2. id \in DOMAIN tabs /\ tabs'[id] = tabs[id]
    BY <2>1 DEF Restrict
  <2> QED BY <1>1, <1>2, <1>8, <2>2
<1>9. CASE m.type \notin {"property_update", "module_added", "module_list", "module_removed"}
  <2>1. tabs' = tabs
    BY <1>0, <1>1, <1>9 DEF OnMessage
  <2> QED BY <1>1, <1>2, <1>9, <2>1
<1> QED BY <1>5, <1>6, <1>7, <1>8, <1>9

-----------------------------------------------------------------------------
(* The values.                                                             *)

\* What the tables say, for the messages and tasks there are.
LEMMA ChangesOf ==
  ASSUME NEW id, NEW k, NEW m \in Message
  PROVE  /\ m.type = "property_update" =>
              Changes(id, k)[m] = IF m.id = id THEN GivenBy(m.properties, k) ELSE {}
         /\ m.type = "module_added" =>
              Changes(id, k)[m] = IF m.id = id THEN {m.properties[k].value} ELSE {}
         /\ m.type = "module_list" =>
              Changes(id, k)[m] = {e.properties[k].value : e \in {e \in m.modules : e.id = id}}
         /\ m.type \notin {"property_update", "module_added", "module_list"} => Changes(id, k)[m] = {}
BY DEF Changes

\* What is pushed gives a registered module's property a value if it is an update of it.
LEMMA ChangesPushed ==
  ASSUME Told, Runs, NEW id \in DOMAIN modules, NEW k, NEW m \in Message, PushedBy(m)
  PROVE  \/ Changes(id, k)[m] = {} /\ (m.type = "property_update" => ~Passing(id, k))
         \/ /\ Passing(id, k) /\ m.type = "property_update" /\ m.id = id
            /\ Changes(id, k)[m] = Passes(id, k)[Head(loop)]
<1>0. TypeOK /\ id # idCounter
  BY DEF Told, Basis, TypeOK, ModulesTypeOK
<1>1. CASE DoRegisterModule /\ m = CreateModuleAdded(idCounter, modules'[idCounter])
  <2>1. m.type = "module_added" /\ m.id = idCounter
    BY <1>1 DEF CreateModuleAdded
  <2> QED BY <1>0, <2>1, ChangesOf
<1>2. CASE UnregisterModule /\ m = CreateModuleRemoved(Head(loop).id)
  <2>1. m.type = "module_removed"
    BY <1>2 DEF CreateModuleRemoved
  <2> QED BY <2>1, ChangesOf
<1>3. CASE PushUpdate /\ m = Head(loop).msg
  <2>1. Head(loop) \in Task /\ Head(loop).op = "HandleMessage"
    BY <1>0, <1>3, TakesType DEF PushUpdate
  <2>2. m.type = "property_update"
    BY <1>3, <2>1 DEF Task, UpdateMsg
  <2>3. Passes(id, k)[Head(loop)] = IF m.id = id THEN GivenBy(m.properties, k) ELSE {}
    BY <1>3, <2>1, TaskGives
  <2>4. Changes(id, k)[m] = Passes(id, k)[Head(loop)]
    BY <2>2, <2>3, ChangesOf
  <2> QED BY <1>3, <2>2, <2>3, <2>4 DEF Passing
<1> QED BY <1>1, <1>2, <1>3 DEF PushedBy

\* What is passed outdates what was on its way.
LEMMA PassingOutdates ==
  ASSUME Told, Runs, NEW id \in DOMAIN modules, NEW k, Passing(id, k), NEW r \in Requester, Reaches(r)
  PROVE  \E m \in Message : Outdates(m, id, Changes(id, k))
<1>1. PICK m \in Message : PushedBy(m) /\ out'.pushed = <<m>>
  BY PushIs DEF Told, Passing, Pushing
<1>2. m.type = "property_update"
  <2>1. PushUpdate /\ ~DoRegisterModule /\ ~UnregisterModule
    BY DEF Passing, PushUpdate, DoRegisterModule, UnregisterModule, Takes
  <2>2. m = Head(loop).msg
    BY <1>1, <2>1 DEF PushedBy
  <2>3. Head(loop) \in Task /\ Head(loop).op = "HandleMessage"
    BY <2>1, TakesType DEF PushUpdate, Told, Basis
  <2> QED BY <2>2, <2>3 DEF Task, UpdateMsg
<1>3. m.id = id /\ Changes(id, k)[m] # {}
  BY <1>1, <1>2, ChangesPushed DEF Passing
<1> QED BY <1>1, <1>2, <1>3 DEF Outdates, Pushed

\* A socket that brings nothing goes on bringing nothing.
LEMMA UnreachedBrings ==
  ASSUME Told, Runs, NEW r \in Requester, ~Reaches(r), NEW id, NEW given, NEW next
  PROVE  Brings(r, id, given, next)'
<1>1. inbox'[r] = <<>> /\ ~Reaches(r)'
  BY DEF Runs, PushMsgForJS, Reaches, Told, Basis, Listening
<1> QED BY <1>1 DEF Brings, EndsAmong

\* The list a page is given has what is stored.
LEMMA ListedNow ==
  ASSUME Told, [WebNext]_webVars, NEW r \in Requester, NEW m \in answer'[r], m \notin answer[r]
  PROVE  m = Empty \/ (m \in Message /\ m = CreateModuleList(modules) /\ modules' = modules)
<1>1. m \in Response
  BY BasisStep DEF Told, Basis, TypeOK, CallersTypeOK
<1>2. m = Empty \/ m.type = "module_list"
  BY <1>1 DEF Response, ListMsg, EmptyMsg, Empty
<1> QED BY <1>1, <1>2, ListsAreAskedFor DEF Told, Message

LEMMA RunsShow ==
  ASSUME Runs
  PROVE  tabs' = tabs /\ applied' = applied /\ written' = written
BY DEF Runs, browser

\* A module that is registered is not known to the pages, and nothing is to be done for it.
LEMMA NewValueFollows ==
  ASSUME Told, UpdatesInv, [WebNext]_webVars, NEW id \in DOMAIN modules', id \notin DOMAIN modules,
         NEW k \in 1..Len(modules'[id].properties)
  PROVE  ValueFollows(id, k)'
<1>0. /\ Basis /\ TypeOK /\ idCounter \in Nat
      /\ modules' \in [DOMAIN modules' -> ModuleType]
      /\ modules'[id].properties \in Seq(Property)
  BY BasisStep DEF Told, Basis, TypeOK, ModulesTypeOK, ModuleType
<1>1. id = idCounter /\ Runs /\ RunTask
  BY <1>0, CounterSteps, ModulesStay DEF Runs
<1>2. DoRegisterModule
  BY <1>0, <1>1, TaskModules
<1>3. PICK v \in Value : v = Stored(id, k)'
  <2>1. modules'[id].properties[k] \in Property
    BY <1>0, ElementOfSeq
  <2> QED BY <2>1 DEF Stored, Property
<1>4. /\ GivesNothing(loop', Stores(id, k)) /\ GivesNothing(loop', Passes(id, k))
      /\ Stores(id, k)' = Stores(id, k) /\ Passes(id, k)' = Passes(id, k)
  <2>1. loop' \in Seq(Task) /\ Tasks' \subseteq Tasks
    BY <1>0, <1>1, BasisStep, RunStep DEF Basis, TypeOK
  <2>2. \A i \in 1..Len(loop') : loop'[i] \in Task /\ loop'[i] \in Tasks
    <3>1. Tasks' = {loop'[i] : i \in 1..Len(loop')}
      BY <2>1, MembersOf DEF Tasks
    <3> QED BY <2>1, <3>1, ElementOfSeq
  <2>3. ASSUME NEW task \in Task, task \in Tasks
        PROVE  Stores(id, k)[task] = {} /\ Passes(id, k)[task] = {}
    <3>1. task.op = "SavePropertiesList" => task.id \in Int /\ task.id < idCounter
      BY <2>3 DEF UpdatesInv, Task
    <3>2. task.op = "HandleMessage" => task.msg.id \in Int /\ task.msg.id < idCounter
      BY <2>3 DEF UpdatesInv, Task, UpdateMsg
    <3> QED BY <1>0, <1>1, <2>3, <3>1, <3>2, TaskGives
  <2> QED BY <2>2, <2>3 DEF GivesNothing, Stores, Passes
<1>5. Due(id, k)' = {}
  <2>1. app' = app
    BY <1>2 DEF DoRegisterModule, Takes, callers
  <2>2. \A t \in Thread : app[t].at = "updating" => app[t].id \in Int /\ app[t].id < idCounter
    BY <1>0 DEF UpdatesInv, TypeOK, CallersTypeOK, Call, Idle
  <2>3. Updating(id)' = {}
    BY <1>0, <1>1, <2>1, <2>2 DEF Updating
  <2> QED BY <2>3 DEF Due
<1>6. Passed(id, k)' /\ v \in Meeting(id, k)'
  <2>1. /\ Passed(id, k)' <=> AllPassed(loop', Stores(id, k), Passes(id, k), {})
        /\ Meeting(id, k)' = Comings(loop', Stores(id, k), Passes(id, k), v, {})
    BY <1>3, <1>4, <1>5 DEF Passed, Meeting, Stored
  <2>2. EndsIn(loop', Stores(id, k), v, v) /\ EndsIn(loop', Passes(id, k), v, v)
    BY <1>4, EndsWhere
  <2>3. AllPassed(loop', Stores(id, k), Passes(id, k), {})
    BY <1>4 DEF AllPassed, GivesNothing
  <2> QED BY <2>1, <2>2, <2>3 DEF Comings
<1>7. \A m \in Message : Tells(m) \subseteq 0..(idCounter - 1) /\
         (m.type = "property_update" => m.id < idCounter) => Changes(id, k)[m] = {}
  <2>1. ASSUME NEW m \in Message, Tells(m) \subseteq 0..(idCounter - 1),
               m.type = "property_update" => m.id < idCounter
        PROVE  Changes(id, k)[m] = {}
    <3>1. idCounter \notin Tells(m)
      BY <1>0, <2>1
    <3>2. CASE m.type = "property_update"
      <4>1. m.id # idCounter
        BY <1>0, <2>1, <3>2
      <4> QED BY <1>1, <3>2, <4>1, ChangesOf
    <3>3. CASE m.type = "module_added"
      BY <1>1, <3>1, <3>3, ChangesOf DEF Tells
    <3>4. CASE m.type = "module_list"
      <4>1. \A e \in m.modules : e.id # id
        BY <1>1, <3>1, <3>4 DEF Tells, Listed
      <4>2. \A w : w \notin {x.properties[k].value : x \in {x \in m.modules : x.id = id}}
        BY <4>1
      <4>3. Changes(id, k)[m] = {x.properties[k].value : x \in {x \in m.modules : x.id = id}}
        BY <3>4, ChangesOf
      <4> QED BY <4>2, <4>3
    <3> QED BY <3>2, <3>3, <3>4, ChangesOf
  <2> QED BY <2>1
<1>8. ASSUME NEW r \in Requester
      PROVE  Brings(r, id, Changes(id, k), Meeting(id, k))'
  <2>1. CASE ~Reaches(r)
    BY <1>1, <2>1, UnreachedBrings DEF Brings, Changes
  <2>2. CASE Reaches(r)
    <3>1. inbox[r] \in Seq(Message) /\ answer'[r] = answer[r] /\ answer[r] \subseteq Response
      BY <1>0, <1>2 DEF Basis, PageType, TypeOK, CallersTypeOK, DoRegisterModule
    <3>2. \A m \in Range(inbox[r]) : m \in Message
      BY <3>1, MembersOf, ElementOfSeq
    <3>3. \A m \in Range(inbox[r]) : Changes(id, k)[m] = {}
      BY <1>7, <3>2 DEF Told, IdsGiven, UpdatesInv
    <3>4. \A m \in answer[r] : Changes(id, k)[m] = {}
      <4>1. \A m \in answer[r] : m \in Message /\ m.type # "property_update"
        BY <3>1 DEF Message, Response, ListMsg, EmptyMsg
      <4> QED BY <1>7, <4>1 DEF Told, IdsGiven
    <3>5. PICK m \in Message : PushedBy(m) /\ inbox'[r] = Append(inbox[r], m)
      BY <1>0, <1>1, <1>2, <2>2, PushIs DEF Pushing
    <3>6. Changes(id, k)[m] # {} /\ Changes(id, k)[m] \subseteq Meeting(id, k)'
      <4>1. m = CreateModuleAdded(idCounter, modules'[idCounter])
        BY <1>2, <3>5 DEF PushedBy, DoRegisterModule, UnregisterModule, PushUpdate, Takes
      <4>2. m.type = "module_added" /\ m.id = id /\ m.properties[k].value = v
        BY <1>1, <1>3, <4>1 DEF CreateModuleAdded, Stored
      <4>3. Changes(id, k)[m] = {v}
        BY <4>2, ChangesOf
      <4> QED BY <1>6, <4>3
    <3>7. EndsAmong(inbox'[r], Changes(id, k), Meeting(id, k)')
      BY <3>1, <3>5, <3>6, AmongAppend
    <3>8. Changes(id, k)' = Changes(id, k)
      BY DEF Changes
    <3> QED BY <3>1, <3>4, <3>7, <3>8 DEF Brings
  <2> QED BY <2>1, <2>2
<1>9. id \notin DOMAIN tabs'
  <2>1. id \notin DOMAIN tabs
    BY <1>0, <1>1 DEF Told, Selects, IdsGiven
  <2> QED BY <1>1, <2>1, RunsShow
<1> QED BY <1>3, <1>6, <1>8, <1>9 DEF ValueFollows, Stored

\* Every step keeps a property following: the queue and the pushes come to one value,
\* what a socket brings last stays good, and so does what is read last.
LEMMA ValueFollowsStep ==
  ASSUME OneThread, Told, KindsAgree, UpdatesInv, AppliedInv, Connected, [WebNext]_webVars,
         NEW id \in DOMAIN modules, id \in DOMAIN modules', NEW k \in 1..Len(modules[id].properties),
         ~modules[id].properties[k].read_only, <<id, k - 1>> \notin applied',
         ValueFollows(id, k)
  PROVE  ValueFollows(id, k)'
<1>g. PICK given : given = Changes(id, k)
  OBVIOUS
<1>m. PICK good : good = Meeting(id, k)
  OBVIOUS
<1>n. PICK next : next = Meeting(id, k)'
  OBVIOUS
<1>0. /\ Basis /\ TypeOK /\ applied \subseteq applied' /\ <<id, k - 1>> \notin applied
      /\ Changes(id, k)' = given /\ id \in Int
      /\ Passed(id, k) /\ Stored(id, k) \in good
  BY <1>g, <1>m, AppliedSteps DEF Told, Basis, ValueFollows, Stored, Changes, TypeOK, ModulesTypeOK
<1>1. /\ Passed(id, k)' /\ Stored(id, k)' \in next
      /\ Passing(id, k) => Passes(id, k)[Head(loop)] \subseteq next
      /\ ~Passing(id, k) => good \subseteq next
  BY <1>0, <1>m, <1>n, QueueStep
<1>2. \A m \in Message : Pushed(m) => given[m] \subseteq next
  BY <1>1, <1>g, ChangesPushed DEF Pushed
<1>3. \A r \in Requester : \A m \in answer'[r] : m \in answer[r] \/ given[m] \subseteq next
  <2>1. ASSUME NEW r \in Requester, NEW m \in answer'[r], m \notin answer[r]
        PROVE  given[m] \subseteq next
    <3>1. CASE m = Empty
      <4>1. m \in Message /\ m.type = "empty"
        BY <3>1 DEF Empty, Message, Response, EmptyMsg
      <4>2. given[m] = {}
        BY <1>g, <4>1, ChangesOf
      <4> QED BY <4>2
    <3>2. CASE m \in Message /\ m = CreateModuleList(modules) /\ modules' = modules
      <4>1. /\ m.type = "module_list"
            /\ m.modules = {[id |-> i, properties |-> modules[i].properties] : i \in DOMAIN modules}
        BY <3>2 DEF CreateModuleList
      <4>2. given[m] = {e.properties[k].value : e \in {e \in m.modules : e.id = id}}
        BY <1>g, <3>2, <4>1, ChangesOf
      <4>3. \A e \in m.modules : e.id = id => e.properties[k].value = Stored(id, k)
        BY <4>1 DEF Stored
      <4>4. \A x \in given[m] : x = Stored(id, k)
        BY <4>2, <4>3
      <4>5. Stored(id, k)' = Stored(id, k)
        BY <3>2 DEF Stored
      <4> QED BY <1>1, <4>4, <4>5
    <3> QED BY <2>1, <3>1, <3>2, ListedNow
  <2> QED BY <2>1
<1>4. given[Empty] = {}
  <2>1. Empty \in Message /\ Empty.type = "empty"
    BY DEF Empty, Message, Response, EmptyMsg
  <2> QED BY <1>g, <2>1, ChangesOf
<1>5. \A r \in Requester : Reaches(r) => good \subseteq next \/ \E m \in Message : Outdates(m, id, given)
  BY <1>1, <1>g, PassingOutdates DEF Passing
<1>6. ASSUME NEW r \in Requester
      PROVE  Brings(r, id, given, next)'
  <2>1. Brings(r, id, given, good)
    BY <1>g, <1>m DEF ValueFollows
  <2>2. CASE Runs /\ ~Reaches(r)
    BY <2>2, UnreachedBrings
  <2>3. CASE ~Runs
    <3>1. good \subseteq next
      BY <1>1, <2>3 DEF Passing
    <3> QED BY <1>2, <1>3, <1>4, <2>1, <3>1, BringsStep
  <2>4. CASE Reaches(r)
    <3>1. good \subseteq next \/ \E m \in Message : Outdates(m, id, given)
      BY <1>5, <2>4
    <3> QED BY <1>2, <1>3, <1>4, <2>1, <3>1, BringsStep
  <2> QED BY <2>2, <2>3, <2>4
<1>7. ASSUME id \in DOMAIN tabs', Rests(id, given)', <<id, k - 1>> \notin written'
      PROVE  \E b \in next : Looks(tabs'[id][k], b)
  <2>s. PICK seen, sees : seen = Seen(tabs[id][k]) /\ sees = Seen(tabs'[id][k])
    OBVIOUS
  <2>1. ~Clears /\ written \subseteq written'
    <3>1. Clears => tabs' = <<>>
      BY DEF Clears, Leaves, OnDisconnected, Clear
    <3>2. ~Clears
      BY <1>7, <3>1
    <3> QED BY <1>0, <3>2, TabsSteps
  <2>2. id \in DOMAIN tabs /\ Rests(id, given) => seen \cap good # {}
    <3>1. ASSUME id \in DOMAIN tabs, Rests(id, given)
          PROVE  seen \cap good # {}
      <4>1. PICK b \in good : Looks(tabs[id][k], b)
        BY <1>g, <1>m, <1>7, <2>1, <3>1 DEF ValueFollows
      <4>2. b \in Value
        BY <1>m, <4>1 DEF Meeting, Comings
      <4> QED BY <2>s, <4>1, <4>2 DEF Seen
    <3> QED BY <3>1
  <2>3. good \subseteq next \/ \E m \in Message : Outdates(m, id, given)
    <3>1. CASE Passing(id, k)
      <4>1. DOMAIN tabs # {}
        BY <1>7, <3>1, RunsShow DEF Passing
      <4> QED BY <1>5, <4>1 DEF Connected
    <3> QED BY <1>1, <3>1
  <2>4. \/ id \in DOMAIN tabs /\ seen \subseteq sees /\ ~\E q \in Requester : OnWsMessage(q)
        \/ \E q \in Requester :
             /\ OnWsMessage(q)
             /\ IF given[Head(inbox[q])] = {} THEN id \in DOMAIN tabs /\ seen \subseteq sees
                ELSE given[Head(inbox[q])] \cap sees # {}
    <3>1. CASE \E q \in Requester : OnWsMessage(q)
      <4>1. PICK q \in Requester : OnWsMessage(q)
        BY <3>1
      <4>2. IF given[Head(inbox[q])] = {} THEN id \in DOMAIN tabs /\ tabs'[id][k] = tabs[id][k]
            ELSE given[Head(inbox[q])] \cap sees # {}
        BY <1>g, <2>s, <1>7, <4>1, ReadingSees
      <4> QED BY <2>s, <4>1, <4>2
    <3>2. CASE ~\E q \in Requester : OnWsMessage(q)
      <4>1. /\ DOMAIN tabs' = DOMAIN tabs
            /\ \A j \in DOMAIN tabs[id] : <<id, j - 1>> \in written' \cup applied' \/ tabs'[id][j] = tabs[id][j]
        BY <1>0, <1>7, <3>2, TabsSteps
      <4>2. k \in DOMAIN tabs[id]
        <5>1. DOMAIN tabs[id] = DOMAIN modules[id].properties
          BY <1>7, <4>1 DEF KindsAgree, Fits, Kinds
        <5>2. modules[id].properties \in Seq(Property)
          BY <1>0 DEF TypeOK, ModulesTypeOK, ModuleType
        <5> QED BY <5>1, <5>2, LenProperties
      <4> QED BY <2>s, <1>7, <3>2, <4>1, <4>2
    <3> QED BY <3>1, <3>2
  <2>5. \A r \in Requester : Brings(r, id, given, good)
    BY <1>g, <1>m DEF ValueFollows
  <2>6. Rests(id, given)' /\ id \in DOMAIN tabs'
    BY <1>7
  <2>7. sees \cap next # {}
    <3> QED BY <2>1, <2>2, <2>3, <2>4, <2>5, <2>6, ShownStep
  <2> QED BY <2>s, <2>7 DEF Seen
<1> QED BY <1>g, <1>n, <1>0, <1>1, <1>6, <1>7 DEF ValueFollows, Stored

LEMMA ValuesInvStep ==
  ASSUME OneThread, Told, KindsAgree, UpdatesInv, AppliedInv, Connected, ValuesInv, [WebNext]_webVars
  PROVE  ValuesInv'
<1>0. Basis /\ TypeOK /\ TypeOK' /\ applied \subseteq applied'
  BY BasisStep, AppliedSteps DEF Told, Basis
<1>1. ASSUME NEW id \in DOMAIN modules', NEW k \in 1..Len(modules'[id].properties),
             ~modules'[id].properties[k].read_only, <<id, k - 1>> \notin applied'
      PROVE  ValueFollows(id, k)'
  <2>1. CASE id \notin DOMAIN modules
    BY <1>1, <2>1, NewValueFollows
  <2>2. CASE id \in DOMAIN modules
    <3>1. Len(modules'[id].properties) = Len(modules[id].properties)
      <4>1. id # idCounter
        BY <1>0, <2>2 DEF TypeOK, ModulesTypeOK
      <4>2. DOMAIN modules'[id].properties = DOMAIN modules[id].properties
        BY <1>0, <1>1, <4>1, ModulesStay DEF Kinds
      <4>3. modules[id].properties \in Seq(Property) /\ modules'[id].properties \in Seq(Property)
        BY <1>0, <1>1, <2>2 DEF TypeOK, ModulesTypeOK, ModuleType
      <4> QED BY <4>2, <4>3, LenProperties
    <3>2. modules'[id].properties[k].read_only = modules[id].properties[k].read_only
      <4>1. CASE Runs
        BY <1>0, <1>1, <2>2, <3>1, <4>1, RunStored
      <4>2. CASE ~Runs
        BY <1>0, <4>2, CounterSteps
      <4> QED BY <4>1, <4>2
    <3>3. ValueFollows(id, k)
      BY <1>0, <1>1, <2>2, <3>1, <3>2 DEF ValuesInv
    <3> QED BY <1>1, <2>2, <3>1, <3>2, <3>3, ValueFollowsStep
  <2> QED BY <2>1, <2>2
<1> QED BY <1>1 DEF ValuesInv

-----------------------------------------------------------------------------
(* The modules.                                                            *)

LEMMA PresenceOf ==
  ASSUME NEW id, NEW m \in Message
  PROVE  Presence(id)[m] = IF id \in Tells(m) THEN {TRUE}
                           ELSE IF m.type = "module_removed" /\ m.id = id THEN {FALSE} ELSE {}
BY DEF Presence

\* What there is to know of a registered module is good.
LEMMA HereFollows ==
  ASSUME Basis, NEW id \in DOMAIN modules
  PROVE  ModuleFollows(id)
<1>1. \A m \in Message : Presence(id)[m] \subseteq Here(id)
  <2>1. Here(id) = {TRUE, FALSE}
    BY DEF Here
  <2>2. \A m \in Message : Presence(id)[m] = {TRUE} \/ Presence(id)[m] = {FALSE} \/ Presence(id)[m] = {}
    BY PresenceOf, Zenon
  <2>3. {TRUE} \subseteq {TRUE, FALSE} /\ {FALSE} \subseteq {TRUE, FALSE} /\ {} \subseteq {TRUE, FALSE}
    OBVIOUS
  <2>4. ASSUME NEW m \in Message
        PROVE  Presence(id)[m] \subseteq Here(id)
    <3>1. Presence(id)[m] = {TRUE} => Presence(id)[m] \subseteq Here(id)
      BY <2>1, <2>3, Zenon
    <3>2. Presence(id)[m] = {FALSE} => Presence(id)[m] \subseteq Here(id)
      BY <2>1, <2>3, Zenon
    <3>3. Presence(id)[m] = {} => Presence(id)[m] \subseteq Here(id)
      BY <2>1, <2>3, Zenon
    <3> QED BY <2>2, <3>1, <3>2, <3>3
  <2> QED BY <2>4
<1>2. \A r \in Requester : /\ \A i \in 1..Len(inbox[r]) : inbox[r][i] \in Message
                           /\ answer[r] \subseteq Message
  BY ElementOfSeq DEF Basis, PageType, TypeOK, CallersTypeOK, Message
<1> QED BY <1>1, <1>2 DEF ModuleFollows, Brings, EndsAmong

\* A module that goes is told to every page that is connected, and never comes back.
LEMMA ModuleFollowsStep ==
  ASSUME Told, Connected, ModulesInv, [WebNext]_webVars, NEW id \in 0..(idCounter' - 1), id \notin DOMAIN modules'
  PROVE  ModuleFollows(id)'
<1>g. PICK given : given = Presence(id)
  OBVIOUS
<1>m. PICK good : good = Here(id)
  OBVIOUS
<1>n. PICK next : next = Here(id)' /\ next = {FALSE}
  BY DEF Here
<1>0. Basis /\ TypeOK /\ id \in Int /\ Presence(id)' = given
  BY <1>g DEF Told, Basis, Presence
<1>1. id # idCounter /\ ModuleFollows(id)
  <2>1. idCounter \in Nat /\ idCounter' \in {idCounter, idCounter + 1}
    BY <1>0, CounterSteps
  <2>2. idCounter' # idCounter => idCounter \in DOMAIN modules'
    <3>1. CASE Runs
      BY <1>0, <3>1, TaskModules DEF Runs
    <3>2. CASE ~Runs /\ ~Clears
      BY <1>0, <3>2, PageSteps DEF Basis, PageType
    <3>3. CASE Clears
      BY <3>3 DEF Clears, Leaves, OnDisconnected, vars
    <3> QED BY <3>1, <3>2, <3>3
  <2>3. id # idCounter /\ id \in 0..(idCounter - 1)
    <3>1. CASE idCounter' = idCounter
      BY <2>1, <3>1
    <3>2. CASE idCounter' = idCounter + 1
      <4>1. idCounter' # idCounter
        BY <2>1, <3>2
      <4>2. id # idCounter
        BY <2>2, <4>1
      <4> QED BY <2>1, <3>2, <4>2
    <3> QED BY <2>1, <3>1, <3>2
  <2> QED BY <2>3 DEF ModulesInv
<1>2. good \subseteq next \/ (Runs /\ UnregisterModule /\ Head(loop).id = id)
  <2>1. CASE id \in DOMAIN modules
    <3>1. Runs
      BY <1>0, <2>1, CounterSteps
    <3>2. Head(loop) = Removal(id)
      BY <1>0, <2>1, <3>1, TaskModules DEF Runs
    <3>3. Head(loop).op = "UnregisterModule" /\ Head(loop).id = id
      BY <3>2 DEF Removal
    <3> QED BY <3>1, <3>3 DEF Runs, RunTask, OnProxyInitialized, DoRegisterModule, SaveUpdate,
         PushUpdate, DoProcessJSRequest, PassPeerUpdate, Takes
  <2> QED BY <1>m, <1>n, <2>1 DEF Here
<1>3. \A m \in Message : Pushed(m) => given[m] \subseteq next
  <2>1. ASSUME NEW m \in Message, Pushed(m)
        PROVE  id \notin Tells(m)
    <3>1. CASE m = CreateModuleAdded(idCounter, modules'[idCounter])
      BY <1>1, <3>1 DEF Tells, CreateModuleAdded
    <3>2. CASE m = CreateModuleRemoved(Head(loop).id)
      BY <3>2 DEF Tells, CreateModuleRemoved
    <3>3. CASE PushUpdate /\ m = Head(loop).msg
      <4>1. Head(loop) \in Task /\ Head(loop).op = "HandleMessage"
        BY <1>0, <3>3, TakesType DEF PushUpdate
      <4> QED BY <3>3, <4>1 DEF Task, UpdateMsg, Tells
    <3> QED BY <2>1, <3>1, <3>2, <3>3 DEF Pushed, PushedBy
  <2> QED BY <1>g, <1>n, <2>1, PresenceOf
<1>4. \A r \in Requester : \A m \in answer'[r] : m \in answer[r] \/ given[m] \subseteq next
  <2>1. Empty \in Message /\ id \notin Tells(Empty) /\ Empty.type # "module_removed"
    BY DEF Empty, Message, Response, EmptyMsg, Tells
  <2>2. modules' = modules => id \notin Tells(CreateModuleList(modules))
    BY DEF Tells, CreateModuleList, Listed
  <2>3. \A m \in Message : id \notin Tells(m) => given[m] \subseteq next
    BY <1>g, <1>n, PresenceOf
  <2>4. ASSUME NEW r \in Requester, NEW m \in answer'[r], m \notin answer[r]
        PROVE  given[m] \subseteq next
    <3>1. m = Empty \/ (m \in Message /\ m = CreateModuleList(modules) /\ modules' = modules)
      BY <2>4, ListedNow
    <3>2. m \in Message /\ id \notin Tells(m)
      BY <2>1, <2>2, <3>1
    <3> QED BY <2>3, <3>2
  <2> QED BY <2>4
<1>5. given[Empty] = {}
  <2>1. Empty \in Message /\ id \notin Tells(Empty) /\ Empty.type # "module_removed"
    BY DEF Empty, Message, Response, EmptyMsg, Tells
  <2> QED BY <1>g, <2>1, PresenceOf
<1>6. \A r \in Requester : Reaches(r) => good \subseteq next \/ \E m \in Message : Outdates(m, id, given)
  <2>1. ASSUME NEW r \in Requester, Reaches(r), Runs, UnregisterModule, Head(loop).id = id
        PROVE  \E m \in Message : Outdates(m, id, given)
    <3>1. PICK m \in Message : PushedBy(m) /\ out'.pushed = <<m>>
      BY <1>0, <2>1, PushIs DEF Pushing
    <3>2. m = CreateModuleRemoved(id)
      BY <2>1, <3>1 DEF PushedBy, DoRegisterModule, UnregisterModule, PushUpdate, Takes
    <3>3. m.type = "module_removed" /\ m.id = id
      BY <3>2 DEF CreateModuleRemoved
    <3>4. given[m] # {}
      <4>1. given[m] = {TRUE} \/ given[m] = {FALSE}
        BY <1>g, <3>3, PresenceOf, Zenon
      <4>2. TRUE \in {TRUE} /\ FALSE \in {FALSE}
        OBVIOUS
      <4> QED BY <4>1, <4>2, Zenon
    <3> QED BY <2>1, <3>1, <3>3, <3>4 DEF Outdates, Pushed
  <2> QED BY <1>2, <2>1
<1>7. \A r \in Requester : Brings(r, id, given, good)
  BY <1>1, <1>g, <1>m DEF ModuleFollows
<1>8. ASSUME NEW r \in Requester
      PROVE  Brings(r, id, given, next)'
  <2>1. CASE Runs /\ ~Reaches(r)
    BY <2>1, UnreachedBrings
  <2>2. CASE ~Runs \/ Reaches(r)
    <3>1. good \subseteq next \/ \E m \in Message : Outdates(m, id, given)
      BY <1>2, <1>6, <2>2
    <3> QED BY <1>3, <1>4, <1>5, <1>7, <3>1, BringsStep
  <2> QED BY <2>1, <2>2
<1>9. ASSUME id \in DOMAIN tabs', Rests(id, given)'
      PROVE  FALSE
  <2>1. ~Clears
    <3>1. Clears => tabs' = <<>>
      BY DEF Clears, Leaves, OnDisconnected, Clear
    <3> QED BY <1>9, <3>1
  <2>2. PICK seen : seen = {TRUE}
    OBVIOUS
  <2>3. id \in DOMAIN tabs /\ Rests(id, given) => seen \cap good # {}
    BY <1>1, <1>g, <1>m, <2>2 DEF ModuleFollows, Here
  <2>4. \/ id \in DOMAIN tabs /\ seen \subseteq seen /\ ~\E q \in Requester : OnWsMessage(q)
        \/ \E q \in Requester :
             /\ OnWsMessage(q)
             /\ IF given[Head(inbox[q])] = {} THEN id \in DOMAIN tabs /\ seen \subseteq seen
                ELSE given[Head(inbox[q])] \cap seen # {}
    <3>1. ASSUME NEW q \in Requester, OnWsMessage(q)
          PROVE  IF given[Head(inbox[q])] = {} THEN id \in DOMAIN tabs ELSE given[Head(inbox[q])] \cap seen # {}
      <4>1. /\ inbox[q] \in Seq(Message) /\ inbox[q] # <<>> /\ tabs' = OnMessage(tabs, Head(inbox[q]))
        BY <1>0, <3>1 DEF OnWsMessage, Basis, PageType
      <4>2. PICK m \in Message : m = Head(inbox[q])
        BY <4>1, HeadTailProperties
      <4>3. CASE id \in Tells(m)
        <5>1. given[m] = {TRUE}
          BY <1>g, <4>3, PresenceOf
        <5> QED BY <2>2, <4>2, <5>1
      <4>4. CASE id \notin Tells(m) /\ m.type = "module_removed" /\ m.id = id
        <5>1. DOMAIN OnMessage(tabs, m) = DOMAIN tabs \ {m.id}
          BY ONLY <4>4, MessageShows
        <5>2. id \notin DOMAIN tabs'
          BY ONLY <4>1, <4>2, <4>4, <5>1
        <5> QED BY <1>9, <5>2
      <4>5. CASE id \notin Tells(m) /\ ~(m.type = "module_removed" /\ m.id = id)
        <5>1. given[m] = {}
          BY <1>g, <4>5, PresenceOf
        <5>2. id \in DOMAIN tabs
          BY <1>9, <4>1, <4>2, <4>5, MessageShows DEF Tells
        <5> QED BY <4>2, <5>1, <5>2
      <4> QED BY <4>3, <4>4, <4>5
    <3>2. CASE ~\E q \in Requester : OnWsMessage(q)
      BY <1>0, <1>9, <2>1, <3>2, PageSteps DEF Basis, PageType
    <3> QED BY <3>1, <3>2
  <2>5. good \subseteq next \/ \E m \in Message : Outdates(m, id, given)
    <3>1. CASE Runs
      <4>1. DOMAIN tabs # {}
        BY <1>9, <3>1, RunsShow
      <4> QED BY <1>6, <4>1 DEF Connected
    <3> QED BY <1>2, <3>1
  <2>6. seen \cap next # {}
    BY <1>7, <1>9, <2>1, <2>3, <2>4, <2>5, ShownStep
  <2> QED BY <1>n, <2>2, <2>6
<1> QED BY <1>0, <1>n, <1>8, <1>9 DEF ModuleFollows

LEMMA ModulesInvStep ==
  ASSUME Told, Connected, ModulesInv, [WebNext]_webVars
  PROVE  ModulesInv'
<1>1. Basis'
  BY BasisStep DEF Told
<1>2. ASSUME NEW id \in 0..(idCounter' - 1)
      PROVE  ModuleFollows(id)'
  <2>1. CASE id \in DOMAIN modules'
    <3>1. (Basis /\ id \in DOMAIN modules => ModuleFollows(id))'
      BY HereFollows, PTL
    <3> QED BY <1>1, <2>1, <3>1
  <2> QED BY <2>1, ModuleFollowsStep
<1> QED BY <1>2 DEF ModulesInv

-----------------------------------------------------------------------------
(* The page and the store.                                                 *)

\* The invariant.
ShownInv ==
  /\ Told /\ KindsAgree /\ SparesReadOnly /\ UpdatesInv /\ AppliedInv
  /\ Connected /\ ValuesInv /\ ModulesInv

LEMMA ShownInvInit == PageInit => ShownInv
<1> SUFFICES ASSUME PageInit PROVE ShownInv
  OBVIOUS
<1>1. /\ loop = <<>> /\ tabs = <<>> /\ modules = <<>> /\ idCounter = 0
      /\ \A r \in Requester : answer[r] = {} /\ inbox[r] = <<>> /\ sent[r] = <<>>
      /\ \A t \in Thread : app[t] = Idle
  BY DEF PageInit, WebInit, Init
<1>2. DOMAIN tabs = {} /\ DOMAIN modules = {} /\ 0..(idCounter - 1) = {} /\ Idle.at # "updating"
  BY <1>1 DEF Idle
<1>3. Told /\ KindsAgree /\ SparesReadOnly
  BY <1>1, <1>2, ToldInit, NoTasks, RangesOf DEF KindsAgree, SparesReadOnly
<1>4. UpdatesInv /\ AppliedInv
  BY <1>1, <1>2, NoTasks, RangesOf DEF UpdatesInv, AppliedInv
<1>5. Connected /\ ValuesInv /\ ModulesInv
  BY <1>2 DEF Connected, ValuesInv, ModulesInv
<1> QED BY <1>3, <1>4, <1>5 DEF ShownInv

LEMMA ShownInvStep ==
  ASSUME UpdatesFit, OneThread
  PROVE  ShownInv /\ [WebNext]_webVars => ShownInv'
<1> SUFFICES ASSUME ShownInv, [WebNext]_webVars PROVE ShownInv'
  OBVIOUS
<1>0. Basis
  BY DEF ShownInv, Told
<1>1. Told' /\ KindsAgree' /\ SparesReadOnly'
  BY ToldStep, KindsAgreeStep, SparesReadOnlyStep DEF ShownInv
<1>2. UpdatesInv' /\ AppliedInv' /\ Connected'
  BY <1>0, UpdatesStep, AppliedStep, ConnectedStep DEF ShownInv
<1>3. ValuesInv' /\ ModulesInv'
  BY ValuesInvStep, ModulesInvStep DEF ShownInv
<1> QED BY <1>1, <1>2, <1>3 DEF ShownInv

LEMMA ShownInvShows == ShownInv => ShownIsStored
<1> SUFFICES ASSUME ShownInv, Settled, NEW id \in DOMAIN tabs, \A r \in Requester : id \notin overtaken[r]
             PROVE  id \in DOMAIN modules /\ Agrees(id)
  BY DEF ShownIsStored
<1>1. \A given : Rests(id, given)
  <2>1. ASSUME NEW given
        PROVE  GivesNothing(<<>>, given)
    BY DEF GivesNothing
  <2> QED BY <2>1 DEF Rests, Settled, Quiet
<1>2. id \in 0..(idCounter - 1)
  BY DEF ShownInv, Told, Selects, IdsGiven
<1>3. id \in DOMAIN modules
  BY <1>1, <1>2 DEF ShownInv, ModulesInv, ModuleFollows
<1>4. ASSUME NEW k \in 1..Len(modules[id].properties),
             ~modules[id].properties[k].read_only, <<id, k - 1>> \notin written \cup applied
      PROVE  ShowsValue(tabs[id][k], modules[id].properties[k])
  <2>1. PICK b \in Meeting(id, k) : Looks(tabs[id][k], b)
    BY <1>1, <1>3, <1>4 DEF ShownInv, ValuesInv, ValueFollows
  <2>2. PICK v : v = modules[id].properties[k].value
    OBVIOUS
  <2>3. loop = <<>> /\ Due(id, k) = {}
    <3>1. Updating(id) = {}
      BY DEF Settled, Quiet, Updating
    <3> QED BY <3>1 DEF Settled, Quiet, Due
  <2>4. b \in Comings(<<>>, Stores(id, k), Passes(id, k), v, {})
    BY <2>1, <2>2, <2>3 DEF Meeting
  <2>5. b = v
    BY <2>4 DEF Comings, EndsIn
  <2> QED BY <2>1, <2>2, <2>5, ShowsWhatItLooks
<1> QED BY <1>3, <1>4 DEF Agrees

\* A page that has read its list, with nothing on its way, shows no module that is gone and
\* in every other the values that are stored, whatever it read on two sockets: but for the
\* modules changed while a list was on its way (ServerImpl.cpp:68-70), and the fields the
\* user wrote in or the page sent (ModuleManager.cpp:237-265 tells no page of these).  One
\* thread changes modules (two can store in one order and push in the other,
\* ModuleManager.cpp:142-145), and the updates fit the modules.
THEOREM PageShowsTheStore == UpdatesFit /\ OneThread => (WebSpec => []ShownIsStored)
<1> SUFFICES ASSUME UpdatesFit, OneThread PROVE WebSpec => []ShownIsStored
  OBVIOUS
<1>1. PageInit => ShownInv
  BY ShownInvInit
<1>2. ShownInv /\ [WebNext]_webVars => ShownInv'
  BY ShownInvStep
<1>3. ShownInv => ShownIsStored
  BY ShownInvShows
<1> QED BY <1>1, <1>2, <1>3, PTL DEF WebSpec
=============================================================================
