------------------------- MODULE ModuleManagerProof -------------------------
(***************************************************************************)
(* Theorems about ModuleManager, for every set of threads, sockets,        *)
(* definitions, updates and ids: its types, and that every blocked call    *)
(* has exactly one task or fulfilled promise that ends it                  *)
(* (RegistrationsAccounted and RequestsAccounted, which are inductive      *)
(* together with the types).                                               *)
(***************************************************************************)
EXTENDS ModuleManager, SequenceTheorems, TLAPS

-----------------------------------------------------------------------------
(* What the operators the actions use return.                              *)

\* Saving an update leaves a list of properties of the same length
\* (Module.cpp:46-65).
LEMMA SavedPropertiesType ==
  ASSUME NEW properties \in Seq(Property), NEW list \in PropertyList
  PROVE  SavedProperties(properties, list) \in Seq(Property)
<1> DEFINE n == Len(properties)
<1>0. n \in Nat
  BY LenProperties
<1>1. ASSUME NEW k \in 1..Len(properties)
      PROVE  (IF LastTo(list, k - 1) = {} THEN properties[k]
              ELSE SetValue(properties[k],
                            list[CHOOSE i \in LastTo(list, k - 1) : TRUE].value)) \in Property
  <2>1. properties[k] \in Property
    BY ElementOfSeq
  <2>2. CASE LastTo(list, k - 1) # {}
    <3>1. (CHOOSE i \in LastTo(list, k - 1) : TRUE) \in LastTo(list, k - 1)
      BY <2>2
    <3>2. PICK i \in 1..Len(list) : i = (CHOOSE j \in LastTo(list, k - 1) : TRUE)
      BY <3>1 DEF LastTo
    <3>3. list[i] \in Assignment
      BY <3>2, ElementOfSeq DEF PropertyList
    <3>4. list[i].value \in Value
      BY <3>3 DEF Assignment
    <3> QED BY <2>1, <2>2, <3>2, <3>4 DEF SetValue, Property
  <2> QED BY <2>1, <2>2
<1>2. SavedProperties(properties, list) \in [1..n -> Property]
  BY <1>1 DEF SavedProperties
<1> HIDE DEF n
<1> QED BY <1>0, <1>2

\* SavePropertiesList keeps the registered ids and gives well-formed modules
\* (ModuleManager.cpp:158-180).
LEMMA SavePropertiesListType ==
  ASSUME modules \in [DOMAIN modules -> ModuleType], NEW id \in Int,
         NEW list \in PropertyList, SavePropertiesList(id, list)
  PROVE  /\ DOMAIN modules' = DOMAIN modules
         /\ modules' \in [DOMAIN modules' -> ModuleType]
<1>1. ASSUME NEW i \in DOMAIN modules
      PROVE  [modules[i] EXCEPT !.properties = SavedProperties(@, list)] \in ModuleType
  <2>1. modules[i] \in ModuleType
    OBVIOUS
  <2>2. SavedProperties(modules[i].properties, list) \in Seq(Property)
    BY <2>1, SavedPropertiesType DEF ModuleType
  <2> QED BY <2>1, <2>2 DEF ModuleType
<1> QED BY <1>1 DEF SavePropertiesList

\* Whatever a step hands over is well formed.
LEMMA OutType ==
  /\ \A msgs \in Seq(PushedMsg) :
       Pushes(msgs) \in [pushed : Seq(PushedMsg), relayed : Seq(ApplyMsg)]
  /\ \A json \in ApplyMsg :
       Relays(json) \in [pushed : Seq(PushedMsg), relayed : Seq(ApplyMsg)]
  /\ Silent \in [pushed : Seq(PushedMsg), relayed : Seq(ApplyMsg)]
<1>1. <<>> \in Seq(PushedMsg) /\ <<>> \in Seq(ApplyMsg)
  BY EmptySeq
<1>2. \A json \in ApplyMsg : <<json>> \in Seq(ApplyMsg)
  OBVIOUS
<1> QED BY <1>1, <1>2 DEF Pushes, Relays, Silent

\* A pushed message is queued or handed over (ModuleManager.cpp:86-100).
LEMMA HandleMessageType ==
  ASSUME TypeOK, NEW msg \in PushedMsg, HandleMessage(msg)
  PROVE  OutTypeOK'
<1>1. msgQueue \in Seq(PushedMsg) /\ <<msg>> \in Seq(PushedMsg)
  BY DEF TypeOK, OutTypeOK
<1>2. /\ Append(msgQueue, msg) \in Seq(PushedMsg)
      /\ Pushes(<<msg>>) \in [pushed : Seq(PushedMsg), relayed : Seq(ApplyMsg)]
      /\ Silent \in [pushed : Seq(PushedMsg), relayed : Seq(ApplyMsg)]
  BY <1>1, OutType, AppendProperties
<1>3. CASE initialized
  BY <1>1, <1>2, <1>3 DEF HandleMessage, OutTypeOK
<1>4. CASE ~initialized
  BY <1>1, <1>2, <1>4 DEF HandleMessage, OutTypeOK
<1> QED BY <1>3, <1>4

\* A post adds a task; taking one leaves tasks.
LEMMA PostType ==
  ASSUME loop \in Seq(Task), NEW task \in Task, Post(task)
  PROVE  loop' \in Seq(Task)
BY DEF Post

LEMMA TakesType ==
  ASSUME TypeOK, NEW op, Takes(op)
  PROVE  /\ loop' \in Seq(Task)
         /\ Head(loop) \in Task
         /\ Head(loop).op = op
BY HeadTailProperties DEF TypeOK, Takes

\* Fulfilled promises hold ids and responses.
LEMMA AnswerType ==
  ASSUME TypeOK, NEW to, NEW response \in Response, Answer(to, response)
  PROVE  answer' \in [Requester -> SUBSET Response]
BY DEF TypeOK, CallersTypeOK, Answer

\* A message has the fields its type promises.
LEMMA MessageTypes ==
  ASSUME NEW id \in Int
  PROVE  /\ \A module \in ModuleType : CreateModuleAdded(id, module) \in PushedMsg
         /\ CreateModuleRemoved(id) \in PushedMsg
         /\ \A list \in PropertyList :
              /\ CreatePropertyUpdated(id, list) \in UpdateMsg /\ UpdateMsg \subseteq PushedMsg
              /\ CreatePropertiesUpdated(id, list) \in ApplyMsg
BY DEF CreateModuleAdded, CreateModuleRemoved, CreatePropertyUpdated,
       CreatePropertiesUpdated, PushedMsg, AddedMsg, RemovedMsg, UpdateMsg,
       ApplyMsg, ModuleType

\* The answers are responses; the list shows the registered modules.
LEMMA ResponseTypes ==
  ASSUME TypeOK
  PROVE  Empty \in Response /\ CreateModuleList(modules) \in Response
<1>1. ASSUME NEW i \in DOMAIN modules
      PROVE  [id |-> i, properties |-> modules[i].properties] \in ModuleEntry
  <2>1. modules[i] \in ModuleType /\ i \in Int
    BY DEF TypeOK, ModulesTypeOK
  <2> QED BY <2>1 DEF ModuleEntry, ModuleType
<1> QED BY <1>1 DEF Empty, CreateModuleList, Response, EmptyMsg, ListMsg

\* Saving an update, calling back or relaying, and answering keep the types
\* (ModuleManager.cpp:213-272).
LEMMA PassType ==
  ASSUME TypeOK, NEW json \in ApplyMsg, NEW to \in SUBSET Requester,
         PassPropertyUpdateToModule(json, to)
  PROVE  /\ running' \in Running
         /\ DOMAIN modules' = DOMAIN modules
         /\ modules' \in [DOMAIN modules' -> ModuleType]
         /\ answer' \in [Requester -> SUBSET Response]
         /\ out' \in [pushed : Seq(PushedMsg), relayed : Seq(ApplyMsg)]
<1> DEFINE id == FindId(json)
           list == GetPropertiesList(json)
           passes == id \in DOMAIN modules /\ list # <<>>
<1>1. id \in Int /\ list \in PropertyList
  BY DEF FindId, GetPropertiesList, ApplyMsg
<1>2. answer \in [Requester -> SUBSET Response] /\ running \in Running
  BY DEF TypeOK, CallersTypeOK
<1>3. Answer(to, Empty) => answer' \in [Requester -> SUBSET Response]
  BY AnswerType, ResponseTypes
<1>4. modules \in [DOMAIN modules -> ModuleType]
  BY DEF TypeOK, ModulesTypeOK
<1>5. SavePropertiesList(id, list) =>
        /\ DOMAIN modules' = DOMAIN modules
        /\ modules' \in [DOMAIN modules' -> ModuleType]
  BY <1>1, <1>4, SavePropertiesListType
<1>6. [at |-> "callback", id |-> id, to |-> to] \in Running /\ Crashed \in Running
  BY <1>1 DEF Running
<1>7. Relays(json) \in [pushed : Seq(PushedMsg), relayed : Seq(ApplyMsg)]
  BY OutType
<1>8. \/ /\ Answer(to, Empty) /\ out' = Silent /\ UNCHANGED <<running, modules>>
      \/ /\ SavePropertiesList(id, list)
         /\ running' = [at |-> "callback", id |-> id, to |-> to]
         /\ out' = Silent /\ UNCHANGED answer
      \/ /\ SavePropertiesList(id, list)
         /\ out' = Relays(json)
         /\ Answer(to, Empty) /\ UNCHANGED running
      \/ /\ SavePropertiesList(id, list)
         /\ running' = Crashed
         /\ out' = Silent /\ UNCHANGED answer
  BY DEF PassPropertyUpdateToModule
<1> HIDE DEF id, list
<1> QED BY <1>2, <1>3, <1>4, <1>5, <1>6, <1>7, <1>8, OutType

-----------------------------------------------------------------------------
(* The types.                                                              *)

LEMMA TypeInit == Init => TypeOK
<1> SUFFICES ASSUME Init PROVE TypeOK
  OBVIOUS
<1>1. loop \in Seq(Task) /\ running \in Running
  BY EmptySeq DEF Init, Running
<1>2. ModulesTypeOK
  <2>1. <<>> \in Seq(ModuleType) /\ Len(<<>>) = 0
    BY EmptySeq
  <2>2. DOMAIN <<>> = 1..0 /\ <<>> \in [1..0 -> ModuleType]
    BY <2>1, LenProperties
  <2> QED BY <2>2 DEF Init, ModulesTypeOK
<1>3. FlagsTypeOK
  BY DEF Init, FlagsTypeOK
<1>4. CallersTypeOK
  BY DEF Init, CallersTypeOK, Call
<1>5. OutTypeOK
  BY EmptySeq, OutType DEF Init, OutTypeOK
<1> QED BY <1>1, <1>2, <1>3, <1>4, <1>5 DEF TypeOK

\* What a task does not assign keeps its type.
LEMMA KeptTypes ==
  ASSUME TypeOK
  PROVE  /\ UNCHANGED running => running' \in Running
         /\ UNCHANGED <<modules, idCounter>> => ModulesTypeOK'
         /\ UNCHANGED <<initialized, serverImpl, proxy>> => FlagsTypeOK'
         /\ UNCHANGED <<callers, promises>> => CallersTypeOK'
         /\ UNCHANGED msgQueue /\ out' = Silent => OutTypeOK'
BY OutType DEF TypeOK, ModulesTypeOK, FlagsTypeOK, CallersTypeOK, OutTypeOK, callers, promises

\* A task that passes an update on keeps the types.
LEMMA PassedType ==
  ASSUME TypeOK, loop' \in Seq(Task), NEW json \in ApplyMsg,
         NEW to \in SUBSET Requester, PassPropertyUpdateToModule(json, to),
         UNCHANGED <<msgQueue, started, proxy, callers, idPromise>>
  PROVE  TypeOK'
<1>1. /\ running' \in Running
      /\ DOMAIN modules' = DOMAIN modules
      /\ modules' \in [DOMAIN modules' -> ModuleType]
      /\ answer' \in [Requester -> SUBSET Response]
      /\ out' \in [pushed : Seq(PushedMsg), relayed : Seq(ApplyMsg)]
  BY PassType
<1>2. ModulesTypeOK' /\ FlagsTypeOK'
  BY <1>1 DEF TypeOK, ModulesTypeOK, FlagsTypeOK, started
<1>3. CallersTypeOK' /\ OutTypeOK'
  BY <1>1 DEF TypeOK, CallersTypeOK, OutTypeOK, callers
<1> QED BY <1>1, <1>2, <1>3 DEF TypeOK

\* Erasing modules and saving updates keep the registry's type.
LEMMA RegistryTypes ==
  ASSUME TypeOK, UNCHANGED idCounter, NEW id \in Int
  PROVE  /\ Erase(id) => ModulesTypeOK'
         /\ \A list \in PropertyList : SavePropertiesList(id, list) => ModulesTypeOK'
<1>1. modules \in [DOMAIN modules -> ModuleType]
  BY DEF TypeOK, ModulesTypeOK
<1>2. ASSUME Erase(id) PROVE ModulesTypeOK'
  BY <1>1, <1>2 DEF TypeOK, ModulesTypeOK, Erase, Restrict
<1>3. ASSUME NEW list \in PropertyList, SavePropertiesList(id, list) PROVE ModulesTypeOK'
  BY <1>1, <1>3, SavePropertiesListType DEF TypeOK, ModulesTypeOK
<1> QED BY <1>2, <1>3

\* Each task of the module thread keeps the types.
LEMMA RunTaskType == TypeOK /\ RunTask => TypeOK'
<1> SUFFICES ASSUME TypeOK, RunTask PROVE TypeOK'
  OBVIOUS
<1> USE DEF callers, promises, started
<1>1. CASE OnProxyInitialized
  <2>1. loop' \in Seq(Task) /\ Head(loop) \in Task /\ Head(loop).op = "OnProxyInitialized"
    BY <1>1, TakesType DEF OnProxyInitialized
  <2>2. Head(loop).host \in BOOLEAN
    BY <2>1 DEF Task
  <2>3. FlagsTypeOK'
    BY <1>1, <2>2 DEF OnProxyInitialized, Takes, TypeOK, FlagsTypeOK
  <2>4. OutTypeOK'
    BY <1>1, OutType, EmptySeq DEF OnProxyInitialized, TypeOK, OutTypeOK
  <2>5. running' \in Running /\ ModulesTypeOK' /\ CallersTypeOK'
    BY <1>1, KeptTypes DEF OnProxyInitialized, Takes
  <2> QED BY <2>1, <2>3, <2>4, <2>5 DEF TypeOK
<1>2. CASE DoRegisterModule
  <2>1. loop' \in Seq(Task) /\ Head(loop) \in Task /\ Head(loop).op = "DoRegisterModule"
    BY <1>2, TakesType DEF DoRegisterModule
  <2>2. Head(loop).module \in ModuleType
    BY <2>1 DEF Task
  <2>3. ModulesTypeOK'
    BY <1>2, <2>2 DEF DoRegisterModule, Insert, TypeOK, ModulesTypeOK
  <2>4. CallersTypeOK'
    BY <1>2 DEF DoRegisterModule, Takes, Promise, TypeOK, CallersTypeOK, ModulesTypeOK
  <2>5. idCounter \in Int
    BY DEF TypeOK, ModulesTypeOK
  <2>6. CreateModuleAdded(idCounter, Head(loop).module) \in PushedMsg
    BY <2>2, <2>5, MessageTypes
  <2>8. OutTypeOK'
    BY <1>2, <2>6, HandleMessageType DEF DoRegisterModule
  <2>9. running' \in Running /\ FlagsTypeOK'
    BY <1>2, KeptTypes DEF DoRegisterModule, Takes
  <2> QED BY <2>1, <2>3, <2>4, <2>8, <2>9 DEF TypeOK
<1>3. CASE UnregisterModule
  <2>1. loop' \in Seq(Task) /\ Head(loop) \in Task /\ Head(loop).op = "UnregisterModule"
    BY <1>3, TakesType DEF UnregisterModule
  <2>2. Head(loop).id \in Int
    BY <2>1 DEF Task
  <2>4. ModulesTypeOK'
    BY <1>3, <2>2, RegistryTypes DEF UnregisterModule
  <2>5. CreateModuleRemoved(Head(loop).id) \in PushedMsg
    BY <2>2, MessageTypes
  <2>6. OutTypeOK'
    BY <1>3, <2>5, HandleMessageType DEF UnregisterModule
  <2>7. running' \in Running /\ FlagsTypeOK' /\ CallersTypeOK'
    BY <1>3, KeptTypes DEF UnregisterModule, Takes
  <2> QED BY <2>1, <2>4, <2>6, <2>7 DEF TypeOK
<1>4. CASE SaveUpdate
  <2>1. loop' \in Seq(Task) /\ Head(loop) \in Task /\ Head(loop).op = "SavePropertiesList"
    BY <1>4, TakesType DEF SaveUpdate
  <2>2. Head(loop).id \in Int /\ Head(loop).properties \in PropertyList
    BY <2>1 DEF Task
  <2>3. ModulesTypeOK'
    BY <1>4, <2>2, RegistryTypes DEF SaveUpdate
  <2>4. running' \in Running /\ FlagsTypeOK' /\ CallersTypeOK' /\ OutTypeOK'
    BY <1>4, KeptTypes DEF SaveUpdate, Takes
  <2> QED BY <2>1, <2>3, <2>4 DEF TypeOK
<1>5. CASE PushUpdate
  <2>1. loop' \in Seq(Task) /\ Head(loop) \in Task /\ Head(loop).op = "HandleMessage"
    BY <1>5, TakesType DEF PushUpdate
  <2>2. Head(loop).msg \in PushedMsg
    BY <2>1 DEF Task, PushedMsg
  <2>3. OutTypeOK'
    BY <1>5, <2>2, HandleMessageType DEF PushUpdate
  <2>4. running' \in Running /\ ModulesTypeOK' /\ FlagsTypeOK' /\ CallersTypeOK'
    BY <1>5, KeptTypes DEF PushUpdate, Takes
  <2> QED BY <2>1, <2>3, <2>4 DEF TypeOK
<1>6. CASE DoProcessJSRequest
  <2>1. loop' \in Seq(Task) /\ Head(loop) \in Task /\ Head(loop).op = "DoProcessJSRequest"
    BY <1>6, TakesType DEF DoProcessJSRequest
  <2>2. Head(loop).json \in Request /\ Head(loop).to \in Requester
    BY <2>1 DEF Task
  <2>3. CASE Head(loop).json.type = "apply"
    <3>1. Head(loop).json \in ApplyMsg
      BY <2>2, <2>3 DEF Request, ApplyMsg, LoadMsg, Malformed, UnknownType
    <3>2. PassPropertyUpdateToModule(Head(loop).json, {Head(loop).to})
      BY <1>6, <2>3 DEF DoProcessJSRequest
    <3> QED BY <1>6, <2>1, <2>2, <3>1, <3>2, PassedType DEF DoProcessJSRequest, Takes
  <2>4. CASE Head(loop).json.type # "apply"
    <3>1. /\ answer' \in [Requester -> SUBSET Response]
          /\ out' = Silent /\ UNCHANGED <<running, modules>>
      BY <1>6, <2>4, AnswerType, ResponseTypes DEF DoProcessJSRequest
    <3>2. running' \in Running /\ ModulesTypeOK' /\ FlagsTypeOK' /\ OutTypeOK'
      BY <1>6, <3>1, KeptTypes DEF DoProcessJSRequest, Takes
    <3>3. CallersTypeOK'
      BY <1>6, <3>1 DEF DoProcessJSRequest, Takes, TypeOK, CallersTypeOK
    <3> QED BY <2>1, <3>2, <3>3 DEF TypeOK
  <2> QED BY <2>3, <2>4
<1>7. CASE PassPeerUpdate
  <2>1. loop' \in Seq(Task) /\ Head(loop) \in Task
        /\ Head(loop).op = "PassPropertyUpdateToModule"
    BY <1>7, TakesType DEF PassPeerUpdate
  <2>2. Head(loop).json \in ApplyMsg
    BY <2>1 DEF Task
  <2> QED BY <1>7, <2>1, <2>2, PassedType DEF PassPeerUpdate, Takes
<1> QED BY <1>1, <1>2, <1>3, <1>4, <1>5, <1>6, <1>7 DEF RunTask

\* Each call a callback makes keeps the types.
LEMMA CallbackType ==
  ASSUME TypeOK
  PROVE  /\ \A id \in Int, list \in PropertyList : CallbackUpdates(id, list) => TypeOK'
         /\ \A id \in Int : CallbackUnregisters(id) => TypeOK'
         /\ \A module \in ModuleType : CallbackRegisters(module) => TypeOK'
         /\ CallbackReturns => TypeOK'
<1> USE DEF callers, promises, started
<1>1. loop \in Seq(Task)
  BY DEF TypeOK
<1>2. ASSUME NEW id \in Int, NEW list \in PropertyList, CallbackUpdates(id, list)
      PROVE  TypeOK'
  <2>1. ModulesTypeOK'
    BY <1>2, RegistryTypes DEF CallbackUpdates, InCallback
  <2>2. OutTypeOK'
    BY <1>2, MessageTypes, HandleMessageType DEF CallbackUpdates
  <2>3. loop' \in Seq(Task) /\ running' \in Running /\ FlagsTypeOK' /\ CallersTypeOK'
    BY <1>1, <1>2, KeptTypes DEF CallbackUpdates, InCallback
  <2> QED BY <2>1, <2>2, <2>3 DEF TypeOK
<1>3. ASSUME NEW id \in Int, CallbackUnregisters(id)
      PROVE  TypeOK'
  <2>1. ModulesTypeOK'
    BY <1>3, RegistryTypes DEF CallbackUnregisters, InCallback
  <2>2. OutTypeOK'
    BY <1>3, MessageTypes, HandleMessageType DEF CallbackUnregisters
  <2>3. loop' \in Seq(Task) /\ running' \in Running /\ FlagsTypeOK' /\ CallersTypeOK'
    BY <1>1, <1>3, KeptTypes DEF CallbackUnregisters, InCallback
  <2> QED BY <2>1, <2>2, <2>3 DEF TypeOK
<1>4. ASSUME NEW module \in ModuleType, CallbackRegisters(module)
      PROVE  TypeOK'
  <2>1. [op |-> "DoRegisterModule", module |-> module, to |-> {}] \in Task
    BY DEF Task
  <2>2. loop' \in Seq(Task)
    BY <1>1, <1>4, <2>1, PostType DEF CallbackRegisters
  <2>3. running' \in Running
    BY <1>4 DEF CallbackRegisters, InCallback, TypeOK, Running, Idle, Crashed
  <2>4. ModulesTypeOK' /\ FlagsTypeOK' /\ CallersTypeOK' /\ OutTypeOK'
    BY <1>4, KeptTypes DEF CallbackRegisters, InCallback
  <2> QED BY <2>2, <2>3, <2>4 DEF TypeOK
<1>5. ASSUME CallbackReturns
      PROVE  TypeOK'
  <2>1. running' \in Running
    BY <1>5 DEF CallbackReturns, Running
  <2>2. answer' \in [Requester -> SUBSET Response]
    BY <1>5, AnswerType, ResponseTypes DEF CallbackReturns
  <2>3. CallersTypeOK'
    BY <1>5, <2>2 DEF CallbackReturns, InCallback, TypeOK, CallersTypeOK
  <2>4. loop' \in Seq(Task) /\ ModulesTypeOK' /\ FlagsTypeOK' /\ OutTypeOK'
    BY <1>1, <1>5, KeptTypes DEF CallbackReturns, InCallback
  <2> QED BY <2>1, <2>3, <2>4 DEF TypeOK
<1> QED BY <1>2, <1>3, <1>4, <1>5

\* A step of another thread posts at most one task and touches only its own call.
LEMMA OutsideType ==
  ASSUME TypeOK, Outside,
         UNCHANGED loop \/ \E task \in Task : Post(task),
         FlagsTypeOK', CallersTypeOK'
  PROVE  TypeOK'
<1>1. loop' \in Seq(Task)
  BY PostType DEF TypeOK
<1>2. running' \in Running /\ ModulesTypeOK' /\ OutTypeOK'
  BY KeptTypes DEF Outside, instance, started
<1> QED BY <1>1, <1>2 DEF TypeOK

\* Each step of the threads, the sockets and the network keeps the types.
LEMMA ThreadType ==
  ASSUME TypeOK, NEW t \in Thread
  PROVE  /\ \A module \in ModuleType : RegisterModule(t, module) => TypeOK'
         /\ RegisterReturns(t) => TypeOK'
         /\ \A id \in Int : CallUnregisterModule(t, id) => TypeOK'
         /\ \A id \in Int, list \in PropertyList : UpdateProperties(t, id, list) => TypeOK'
         /\ UpdatePropertiesReturns(t) => TypeOK'
<1> USE DEF callers, promises, started
<1>0. /\ CallersTypeOK /\ app \in [Thread -> Call] /\ idPromise \in [Thread -> SUBSET Nat]
      /\ Outside /\ UNCHANGED proxy => FlagsTypeOK'
  BY DEF TypeOK, CallersTypeOK, FlagsTypeOK, Outside, instance
<1>1. ASSUME NEW module \in ModuleType, RegisterModule(t, module)
      PROVE  TypeOK'
  <2>1. [op |-> "DoRegisterModule", module |-> module, to |-> {t}] \in Task
    BY DEF Task
  <2>2. CallersTypeOK'
    BY <1>0, <1>1 DEF RegisterModule, CallersTypeOK, Call
  <2> QED BY <1>0, <1>1, <2>1, <2>2, OutsideType DEF RegisterModule
<1>2. ASSUME RegisterReturns(t)
      PROVE  TypeOK'
  <2>1. CallersTypeOK'
    BY <1>0, <1>2 DEF RegisterReturns, CallersTypeOK, Call
  <2> QED BY <1>0, <1>2, <2>1, OutsideType DEF RegisterReturns
<1>3. ASSUME NEW id \in Int, CallUnregisterModule(t, id)
      PROVE  TypeOK'
  <2>1. [op |-> "UnregisterModule", id |-> id] \in Task
    BY DEF Task
  <2> QED BY <1>0, <1>3, <2>1, KeptTypes, OutsideType DEF CallUnregisterModule
<1>4. ASSUME NEW id \in Int, NEW list \in PropertyList, UpdateProperties(t, id, list)
      PROVE  TypeOK'
  <2>1. [op |-> "SavePropertiesList", id |-> id, properties |-> list] \in Task
    BY DEF Task
  <2>2. CallersTypeOK'
    BY <1>0, <1>4 DEF UpdateProperties, CallersTypeOK, Call
  <2> QED BY <1>0, <1>4, <2>1, <2>2, OutsideType DEF UpdateProperties
<1>5. ASSUME UpdatePropertiesReturns(t)
      PROVE  TypeOK'
  <2>1. app[t].id \in Int /\ app[t].properties \in PropertyList
    BY <1>0, <1>5 DEF UpdatePropertiesReturns, Call, Idle
  <2>2. CreatePropertyUpdated(app[t].id, app[t].properties) \in UpdateMsg
    BY <2>1, MessageTypes
  <2>3. [op |-> "HandleMessage",
         msg |-> CreatePropertyUpdated(app[t].id, app[t].properties)] \in Task
    BY <2>2 DEF Task
  <2>4. CallersTypeOK'
    BY <1>0, <1>5 DEF UpdatePropertiesReturns, CallersTypeOK, Call
  <2> QED BY <1>0, <1>5, <2>3, <2>4, OutsideType DEF UpdatePropertiesReturns
<1> QED BY <1>1, <1>2, <1>3, <1>4, <1>5

LEMMA SocketType ==
  ASSUME TypeOK
  PROVE  /\ \A host \in BOOLEAN : ProxyInitialized(host) => TypeOK'
         /\ \A json \in ApplyMsg : ProxyReads(json) => TypeOK'
         /\ \A r \in Requester, json \in Request : ProcessJSRequest(r, json) => TypeOK'
         /\ \A r \in Requester : RequestReturns(r) => TypeOK'
<1> USE DEF callers, promises, started
<1>0. /\ CallersTypeOK
      /\ request \in [Requester -> {"idle", "waiting"}]
      /\ answer \in [Requester -> SUBSET Response]
      /\ Outside /\ UNCHANGED proxy => FlagsTypeOK'
  BY DEF TypeOK, CallersTypeOK, FlagsTypeOK, Outside, instance
<1>3. ASSUME NEW host \in BOOLEAN, ProxyInitialized(host)
      PROVE  TypeOK'
  <2>1. [op |-> "OnProxyInitialized", host |-> host] \in Task
    BY DEF Task
  <2>2. proxy' \in {"connecting", "client", "server"}
    BY <1>3 DEF ProxyInitialized
  <2>3. FlagsTypeOK'
    BY <1>3, <2>2 DEF ProxyInitialized, Outside, instance, TypeOK, FlagsTypeOK
  <2> QED BY <1>3, <2>1, <2>3, KeptTypes, OutsideType DEF ProxyInitialized
<1>4. ASSUME NEW json \in ApplyMsg, ProxyReads(json)
      PROVE  TypeOK'
  <2>1. [op |-> "PassPropertyUpdateToModule", json |-> json] \in Task
    BY DEF Task
  <2> QED BY <1>0, <1>4, <2>1, KeptTypes, OutsideType DEF ProxyReads
<1>5. ASSUME NEW r \in Requester, NEW json \in Request, ProcessJSRequest(r, json)
      PROVE  TypeOK'
  <2>1. [op |-> "DoProcessJSRequest", json |-> json, to |-> r] \in Task
    BY DEF Task
  <2>2. answer' \in [Requester -> SUBSET Response]
    BY <1>0, <1>5, AnswerType, ResponseTypes DEF ProcessJSRequest
  <2>3. CallersTypeOK'
    BY <1>0, <1>5, <2>2 DEF ProcessJSRequest, CallersTypeOK
  <2> QED BY <1>0, <1>5, <2>1, <2>3, OutsideType DEF ProcessJSRequest
<1>6. ASSUME NEW r \in Requester, RequestReturns(r)
      PROVE  TypeOK'
  <2>1. CallersTypeOK'
    BY <1>0, <1>6 DEF RequestReturns, CallersTypeOK
  <2> QED BY <1>0, <1>6, <2>1, OutsideType DEF RequestReturns
<1> QED BY <1>3, <1>4, <1>5, <1>6

-----------------------------------------------------------------------------
(* The queue and the registry.                                             *)

\* The tasks in the queue; the one that removes a module.
Tasks == Range(loop)
Removal(id) == [op |-> "UnregisterModule", id |-> id]
Queued(id) == Removal(id) \in Tasks

\* The members of a sequence with one more at the end, and without the first.
LEMMA MembersOf ==
  ASSUME NEW S, NEW s \in Seq(S)
  PROVE  /\ Range(s) = {s[i] : i \in 1..Len(s)}
         /\ \A x \in S : Range(Append(s, x)) = Range(s) \cup {x}
         /\ s # <<>> => /\ Range(s) = {Head(s)} \cup Range(Tail(s))
                        /\ Head(s) \in S /\ Tail(s) \in Seq(S)
<1>1. \A u \in Seq(S) : Range(u) = {u[i] : i \in 1..Len(u)} /\ Len(u) \in Nat
  BY LenProperties DEF Range
<1>2. ASSUME NEW x \in S
      PROVE  Range(Append(s, x)) = Range(s) \cup {x}
  <2>1. /\ Append(s, x) \in Seq(S) /\ Len(Append(s, x)) = Len(s) + 1
        /\ \A i \in 1..Len(s) : Append(s, x)[i] = s[i]
        /\ Append(s, x)[Len(s) + 1] = x
    BY AppendProperties
  <2>2. 1..(Len(s) + 1) = 1..Len(s) \cup {Len(s) + 1}
    BY <1>1
  <2>3. Range(Append(s, x)) = {Append(s, x)[i] : i \in 1..Len(s) \cup {Len(s) + 1}}
    BY <1>1, <2>1, <2>2
  <2> QED BY <1>1, <2>1, <2>3
<1>3. ASSUME s # <<>>
      PROVE  Range(s) = {Head(s)} \cup Range(Tail(s)) /\ Head(s) \in S /\ Tail(s) \in Seq(S)
  <2>1. /\ Tail(s) \in Seq(S) /\ Head(s) \in S /\ Head(s) = s[1]
        /\ Len(s) \in Nat \ {0} /\ Len(Tail(s)) = Len(s) - 1
        /\ \A i \in 1..Len(Tail(s)) : Tail(s)[i] = s[i + 1]
    BY <1>1, <1>3, HeadTailProperties, EmptySeq
  <2>2. \A i \in 1..Len(s) : i = 1 \/ (i - 1 \in 1..Len(Tail(s)) /\ s[i] = Tail(s)[i - 1])
    BY <2>1
  <2>3. \A i \in 1..Len(Tail(s)) : i + 1 \in 1..Len(s)
    BY <2>1
  <2>4. /\ Range(s) = {s[i] : i \in 1..Len(s)}
        /\ Range(Tail(s)) = {Tail(s)[i] : i \in 1..Len(Tail(s))}
    BY <1>1, <2>1
  <2>5. \A x \in Range(s) : x = Head(s) \/ x \in Range(Tail(s))
    BY ONLY <2>1, <2>2, <2>4
  <2>6. Head(s) \in Range(s)
    <3>1. 1 \in 1..Len(s)
      BY <2>1
    <3> QED BY ONLY <2>1, <2>4, <3>1
  <2>7. \A x \in Range(Tail(s)) : x \in Range(s)
    BY ONLY <2>1, <2>3, <2>4
  <2> QED BY <2>1, <2>5, <2>6, <2>7
<1> QED BY <1>1, <1>2, <1>3

\* A post adds its task to the queue; the module thread takes one.
LEMMA TasksOf ==
  ASSUME TypeOK
  PROVE  /\ Tasks \subseteq Task
         /\ \A task \in Task : Post(task) => Tasks' = Tasks \cup {task}
         /\ loop # <<>> /\ loop' = Tail(loop) =>
              Tasks = {Head(loop)} \cup Tasks' /\ Head(loop) \in Task
         /\ UNCHANGED loop => UNCHANGED Tasks
<1>1. loop \in Seq(Task)
  BY DEF TypeOK
<1>2. Tasks \subseteq Task
  BY <1>1, MembersOf, ElementOfSeq DEF Tasks
<1>3. ASSUME NEW task \in Task, Post(task)
      PROVE  Tasks' = Tasks \cup {task}
  BY <1>1, <1>3, MembersOf DEF Tasks, Post
<1>4. ASSUME loop # <<>>, loop' = Tail(loop)
      PROVE  Tasks = {Head(loop)} \cup Tasks' /\ Head(loop) \in Task
  BY <1>1, <1>4, MembersOf DEF Tasks
<1> QED BY <1>2, <1>3, <1>4 DEF Tasks

LEMMA NoTasks == loop = <<>> => Tasks = {}
<1>1. <<>> \in Seq(Task) /\ Len(<<>>) = 0
  BY EmptySeq
<1>2. DOMAIN <<>> = 1..0
  BY <1>1, LenProperties
<1>3. \A x : x \notin Range(<<>>)
  BY <1>2 DEF Range
<1> QED BY <1>3 DEF Tasks

\* What a task does to the registry: it saves updates, adds the module of its own, and
\* removes the one it names (ModuleManager.cpp:120-180,232-272).
LEMMA TaskModules ==
  ASSUME TypeOK, RunTask
  PROVE  /\ \A id \in DOMAIN modules' :
              \/ /\ id \in DOMAIN modules
                 /\ \/ modules'[id] = modules[id]
                    \/ \E list \in PropertyList :
                         modules'[id].properties = SavedProperties(modules[id].properties, list)
              \/ /\ DoRegisterModule /\ id = idCounter /\ modules'[id] = Head(loop).module
         /\ \A id \in DOMAIN modules : id \in DOMAIN modules' <=> Head(loop) # Removal(id)
         /\ DoRegisterModule =>
              /\ idCounter' = idCounter + 1 /\ idCounter \in DOMAIN modules'
              /\ \A t \in Thread : idPromise'[t] = IF t \in Head(loop).to THEN {idCounter} ELSE idPromise[t]
         /\ ~DoRegisterModule => idCounter' = idCounter /\ idPromise' = idPromise
<1> DEFINE Saves(i, list) ==
      SavePropertiesList(i, list) /\ i \in Int /\ list \in PropertyList
<1>1. ASSUME NEW i, NEW list, Saves(i, list)
      PROVE  /\ DOMAIN modules' = DOMAIN modules
             /\ \A id \in DOMAIN modules' :
                  \/ modules'[id] = modules[id]
                  \/ modules'[id].properties = SavedProperties(modules[id].properties, list)
  <2>1. modules \in [DOMAIN modules -> ModuleType]
    BY DEF TypeOK, ModulesTypeOK
  <2>2. \A id \in DOMAIN modules :
          [modules[id] EXCEPT !.properties = SavedProperties(@, list)].properties
            = SavedProperties(modules[id].properties, list)
    BY <2>1 DEF ModuleType
  <2> QED BY <1>1, <2>2 DEF SavePropertiesList
<1>2. ASSUME NEW json \in ApplyMsg, NEW to, PassPropertyUpdateToModule(json, to)
      PROVE  modules' = modules \/ \E i, list : Saves(i, list)
  <2>1. FindId(json) \in Int /\ GetPropertiesList(json) \in PropertyList
    BY DEF FindId, GetPropertiesList, ApplyMsg
  <2> QED BY <1>2, <2>1 DEF PassPropertyUpdateToModule
<1>3. CASE DoRegisterModule
  <2>1. /\ idCounter' = idCounter + 1
        /\ \A t \in Thread : idPromise'[t] = IF t \in Head(loop).to THEN {idCounter} ELSE idPromise[t]
    BY <1>3 DEF DoRegisterModule, Promise
  <2>2. idCounter \notin DOMAIN modules
    BY DEF TypeOK, ModulesTypeOK
  <2>3. /\ DOMAIN modules' = DOMAIN modules \cup {idCounter}
        /\ modules'[idCounter] = Head(loop).module
        /\ \A id \in DOMAIN modules : modules'[id] = modules[id]
    BY <1>3, <2>2 DEF DoRegisterModule, Insert
  <2>4. \A id : Head(loop) # Removal(id)
    BY <1>3 DEF DoRegisterModule, Takes, Removal
  <2> QED BY <1>3, <2>1, <2>3, <2>4
<1>4. CASE UnregisterModule
  <2>1. Head(loop) \in Task /\ Head(loop).op = "UnregisterModule"
    BY <1>4, TakesType DEF UnregisterModule
  <2>2. \A id : Head(loop) = Removal(id) <=> id = Head(loop).id
    BY <2>1 DEF Task, Removal
  <2>3. /\ DOMAIN modules' = DOMAIN modules \ {Head(loop).id}
        /\ \A id \in DOMAIN modules' : modules'[id] = modules[id]
    BY <1>4 DEF UnregisterModule, Erase, Restrict
  <2>4. idCounter' = idCounter /\ idPromise' = idPromise /\ ~DoRegisterModule
    BY <1>4, <2>1 DEF UnregisterModule, started, promises, DoRegisterModule, Takes
  <2> QED BY <2>2, <2>3, <2>4
<1>5. CASE OnProxyInitialized \/ SaveUpdate \/ PushUpdate \/ DoProcessJSRequest \/ PassPeerUpdate
  <2>1. Head(loop) \in Task
    BY <1>5, TakesType DEF OnProxyInitialized, SaveUpdate, PushUpdate,
         DoProcessJSRequest, PassPeerUpdate
  <2>2. idCounter' = idCounter /\ idPromise' = idPromise /\ ~DoRegisterModule
    BY <1>5 DEF OnProxyInitialized, SaveUpdate, PushUpdate, DoProcessJSRequest,
         PassPeerUpdate, started, promises, DoRegisterModule, Takes
  <2>3. modules' = modules \/ \E i, list : Saves(i, list)
    <3>1. CASE OnProxyInitialized \/ PushUpdate
      BY <3>1 DEF OnProxyInitialized, PushUpdate
    <3>2. CASE SaveUpdate
      <4>1. Head(loop).id \in Int /\ Head(loop).properties \in PropertyList
        BY <2>1, <3>2 DEF SaveUpdate, Takes, Task
      <4> QED BY <3>2, <4>1 DEF SaveUpdate
    <3>3. CASE DoProcessJSRequest
      <4>1. Head(loop).json \in Request
        BY <2>1, <3>3 DEF DoProcessJSRequest, Takes, Task
      <4>2. Head(loop).json.type = "apply" => Head(loop).json \in ApplyMsg
        BY <4>1 DEF Request, LoadMsg, Malformed, UnknownType
      <4> QED BY <1>2, <3>3, <4>2 DEF DoProcessJSRequest
    <3>4. CASE PassPeerUpdate
      <4>1. Head(loop).json \in ApplyMsg
        BY <2>1, <3>4 DEF PassPeerUpdate, Takes, Task
      <4> QED BY <1>2, <3>4, <4>1 DEF PassPeerUpdate
    <3> QED BY <1>5, <3>1, <3>2, <3>3, <3>4
  <2>4. \A id : Head(loop) # Removal(id)
    BY <1>5 DEF OnProxyInitialized, SaveUpdate, PushUpdate, DoProcessJSRequest,
         PassPeerUpdate, Takes, Removal
  <2> QED BY <1>1, <2>2, <2>3, <2>4
<1> QED BY <1>3, <1>4, <1>5 DEF RunTask

-----------------------------------------------------------------------------
(* What any caller may do.  The modules that extend ModuleManager say who  *)
(* calls what, with ids and updates of their own: each of their steps is   *)
(* one of these, or leaves the instance alone.                             *)

OpenNext ==
  \/ RunTask
  \/ \E id \in Int, list \in PropertyList : CallbackUpdates(id, list)
  \/ \E id \in Int : CallbackUnregisters(id)
  \/ \E module \in ModuleType : CallbackRegisters(module)
  \/ CallbackReturns
  \/ \E host \in BOOLEAN : ProxyInitialized(host)
  \/ \E json \in ApplyMsg : ProxyReads(json)
  \/ \E t \in Thread :
       \/ \E module \in ModuleType : RegisterModule(t, module)
       \/ RegisterReturns(t)
       \/ \E id \in Int : CallUnregisterModule(t, id)
       \/ \E id \in Int, list \in PropertyList : UpdateProperties(t, id, list)
       \/ UpdatePropertiesReturns(t)
  \/ \E r \in Requester :
       \/ \E json \in Request : ProcessJSRequest(r, json)
       \/ RequestReturns(r)

\* The requests the specification enumerates are of the types of messages.
LEMMA RequestTypes == Applies \subseteq ApplyMsg /\ Requests \subseteq Request
<1>1. \A json \in Applies : json \in ApplyMsg
  BY ConstantsAssumption, MessageTypes DEF Applies
<1> QED BY <1>1 DEF Requests, Request, CreateLoadModules, LoadMsg

LEMMA NextIsOpen == Next => OpenNext
<1> SUFFICES ASSUME Next PROVE OpenNext
  OBVIOUS
<1> QED BY ConstantsAssumption, RequestTypes DEF Next, OpenNext

LEMMA TypeStep == TypeOK /\ [OpenNext]_vars => TypeOK'
<1> SUFFICES ASSUME TypeOK, [OpenNext]_vars PROVE TypeOK'
  OBVIOUS
<1>1. CASE RunTask
  BY <1>1, RunTaskType
<1>2. CASE \/ \E id \in Int, list \in PropertyList : CallbackUpdates(id, list)
           \/ \E id \in Int : CallbackUnregisters(id)
           \/ \E module \in ModuleType : CallbackRegisters(module)
           \/ CallbackReturns
  BY <1>2, CallbackType
<1>3. CASE \/ \E host \in BOOLEAN : ProxyInitialized(host)
           \/ \E json \in ApplyMsg : ProxyReads(json)
  BY <1>3, SocketType
<1>4. CASE \E t \in Thread :
             \/ \E module \in ModuleType : RegisterModule(t, module)
             \/ RegisterReturns(t)
             \/ \E id \in Int : CallUnregisterModule(t, id)
             \/ \E id \in Int, list \in PropertyList : UpdateProperties(t, id, list)
             \/ UpdatePropertiesReturns(t)
  BY <1>4, ThreadType
<1>5. CASE \E r \in Requester :
             \/ \E json \in Request : ProcessJSRequest(r, json)
             \/ RequestReturns(r)
  BY <1>5, SocketType
<1>6. CASE UNCHANGED vars
  BY <1>6 DEF vars, TypeOK, ModulesTypeOK, FlagsTypeOK, CallersTypeOK, OutTypeOK
<1> QED BY <1>1, <1>2, <1>3, <1>4, <1>5, <1>6 DEF OpenNext

\* Whoever calls an instance, with whatever ids and updates, its state keeps the
\* types, and every module in _modules has an id below _id_counter.
THEOREM TypeCorrect == Spec => []TypeOK
<1>1. TypeOK /\ [Next]_vars => TypeOK'
  BY TypeStep, NextIsOpen
<1> QED BY TypeInit, <1>1, PTL DEF Spec

-----------------------------------------------------------------------------
(* Who waits for which task.                                               *)

\* The places of a queue that hold a member of C, and at most one place.
Places(s, C) == {i \in 1..Len(s) : s[i] \in C}
AtMostOne(S) == \A i, j \in S : i = j

RegisterTasks(t) == {task \in Task : task.op = "DoRegisterModule" /\ t \in task.to}
RequestTasks(r)  == {task \in Task : task.op = "DoProcessJSRequest" /\ task.to = r}

\* A post adds a place only for a task of the set.
LEMMA PlacesAppend ==
  ASSUME NEW S, NEW s \in Seq(S), NEW x \in S, NEW C
  PROVE  /\ x \notin C => Places(Append(s, x), C) = Places(s, C)
         /\ x \in C => Places(Append(s, x), C) = Places(s, C) \cup {Len(s) + 1}
<1>1. /\ Len(Append(s, x)) = Len(s) + 1
      /\ \A i \in 1..Len(s) : Append(s, x)[i] = s[i]
      /\ Append(s, x)[Len(s) + 1] = x
      /\ Len(s) \in Nat
  BY AppendProperties, LenProperties
<1> QED BY <1>1 DEF Places

\* Taking the first task removes its place and moves the others.
LEMMA PlacesTail ==
  ASSUME NEW S, NEW s \in Seq(S), s # <<>>, NEW C, AtMostOne(Places(s, C))
  PROVE  /\ AtMostOne(Places(Tail(s), C))
         /\ Head(s) \in C => Places(Tail(s), C) = {} /\ Places(s, C) # {}
         /\ Head(s) \notin C => (Places(Tail(s), C) = {} <=> Places(s, C) = {})
<1>1. /\ Len(Tail(s)) = Len(s) - 1
      /\ \A i \in 1..Len(Tail(s)) : Tail(s)[i] = s[i + 1]
      /\ Len(s) \in Nat \ {0}
      /\ Head(s) = s[1]
  BY HeadTailProperties, EmptySeq
<1>2. \A i \in Places(Tail(s), C) : i \in 1..Len(Tail(s)) /\ i + 1 \in Places(s, C)
  BY <1>1 DEF Places
<1>3. \A i \in Places(s, C) : i \in 1..Len(s) /\ (i # 1 => i - 1 \in Places(Tail(s), C))
  BY <1>1 DEF Places
<1>4. 1 \in Places(s, C) <=> Head(s) \in C
  BY <1>1 DEF Places
<1>5. AtMostOne(Places(Tail(s), C))
  BY <1>1, <1>2 DEF AtMostOne
<1>6. ASSUME Head(s) \in C
      PROVE  Places(Tail(s), C) = {} /\ Places(s, C) # {}
  <2>1. \A i \in Places(Tail(s), C) : i + 1 = 1
    BY <1>2, <1>4, <1>6 DEF AtMostOne
  <2>2. \A i \in Places(Tail(s), C) : i >= 1
    BY <1>1, <1>2
  <2>3. Places(Tail(s), C) = {}
    BY <1>1, <1>2, <2>1, <2>2
  <2> QED BY <2>3, <1>4, <1>6
<1>7. ASSUME Head(s) \notin C
      PROVE  Places(Tail(s), C) = {} <=> Places(s, C) = {}
  BY <1>2, <1>3, <1>4, <1>7
<1> QED BY <1>5, <1>6, <1>7

\* The places the invariants speak of.
LEMMA PlacesOf ==
  ASSUME NEW s \in Seq(Task)
  PROVE  /\ \A t : {i \in 1..Len(s) : s[i].op = "DoRegisterModule" /\ t \in s[i].to}
                     = Places(s, RegisterTasks(t))
         /\ \A r : {i \in 1..Len(s) : s[i].op = "DoProcessJSRequest" /\ s[i].to = r}
                     = Places(s, RequestTasks(r))
<1>1. \A i \in 1..Len(s) : s[i] \in Task
  BY ElementOfSeq
<1> QED BY <1>1 DEF Places, RegisterTasks, RequestTasks

LEMMA PostRegistrations ==
  ASSUME TypeOK, NEW task \in Task, Post(task), NEW t
  PROVE  /\ task \notin RegisterTasks(t) => RegistrationsOf(t)' = RegistrationsOf(t)
         /\ task \in RegisterTasks(t) =>
              RegistrationsOf(t)' = RegistrationsOf(t) \cup {Len(loop) + 1}
<1>1. loop \in Seq(Task) /\ loop' = Append(loop, task) /\ loop' \in Seq(Task)
  BY PostType DEF TypeOK, Post
<1>2. /\ RegistrationsOf(t) = Places(loop, RegisterTasks(t))
      /\ RegistrationsOf(t)' = Places(loop', RegisterTasks(t))
  BY <1>1, PlacesOf DEF RegistrationsOf
<1> QED BY <1>1, <1>2, PlacesAppend

LEMMA TakeRegistrations ==
  ASSUME TypeOK, NEW op, Takes(op), NEW t, AtMostOne(RegistrationsOf(t))
  PROVE  /\ AtMostOne(RegistrationsOf(t)')
         /\ Head(loop) \in RegisterTasks(t) =>
              RegistrationsOf(t)' = {} /\ RegistrationsOf(t) # {}
         /\ Head(loop) \notin RegisterTasks(t) =>
              (RegistrationsOf(t)' = {} <=> RegistrationsOf(t) = {})
<1>1. loop \in Seq(Task) /\ loop # <<>> /\ loop' = Tail(loop) /\ loop' \in Seq(Task)
  BY TakesType DEF TypeOK, Takes
<1>2. /\ RegistrationsOf(t) = Places(loop, RegisterTasks(t))
      /\ RegistrationsOf(t)' = Places(loop', RegisterTasks(t))
  BY <1>1, PlacesOf DEF RegistrationsOf
<1> QED BY <1>1, <1>2, PlacesTail

-----------------------------------------------------------------------------
(* RegisterModule.                                                         *)

\* What RegistrationsAccounted says of one thread.
Accounted(t) ==
  /\ AtMostOne(RegistrationsOf(t))
  /\ idPromise[t] # {} => RegistrationsOf(t) = {}
  /\ app[t].at = "registering" <=> idPromise[t] # {} \/ RegistrationsOf(t) # {}

LEMMA AccountedForAll == RegistrationsAccounted <=> \A t \in Thread : Accounted(t)
BY DEF RegistrationsAccounted, Accounted, AtMostOne

\* Only DoRegisterModule, taken for t, changes the account of t: the queued task
\* becomes the fulfilled promise.
LEMMA TaskAccounted ==
  ASSUME TypeOK, RunTask, NEW t \in Thread, Accounted(t)
  PROVE  Accounted(t)'
<1>1. CASE DoRegisterModule
  <2>1. Takes("DoRegisterModule") /\ Head(loop) \in Task
        /\ Head(loop).op = "DoRegisterModule"
    BY <1>1, TakesType DEF DoRegisterModule
  <2>2. Head(loop) \in RegisterTasks(t) <=> t \in Head(loop).to
    BY <2>1 DEF RegisterTasks
  <2>3. idPromise'[t] = IF t \in Head(loop).to THEN {idCounter} ELSE idPromise[t]
    BY <1>1 DEF DoRegisterModule, Promise
  <2>4. app' = app
    BY <2>1 DEF Takes, callers
  <2> QED BY <2>1, <2>2, <2>3, <2>4, TakeRegistrations DEF Accounted
<1>2. CASE ~DoRegisterModule
  <2>1. PICK op : Takes(op) /\ op # "DoRegisterModule" /\ idPromise' = idPromise
    BY <1>2 DEF RunTask, OnProxyInitialized, UnregisterModule, SaveUpdate,
                PushUpdate, DoProcessJSRequest, PassPeerUpdate, promises
  <2>2. Head(loop) \notin RegisterTasks(t)
    BY <2>1, TakesType DEF RegisterTasks
  <2>3. app' = app
    BY <2>1 DEF Takes, callers
  <2> QED BY <2>1, <2>2, <2>3, TakeRegistrations DEF Accounted
<1> QED BY <1>1, <1>2

\* A step that posts no registration for t, or nothing, and leaves its call alone.
LEMMA AsideAccounted ==
  ASSUME TypeOK, NEW t \in Thread, Accounted(t),
         app'[t].at = "registering" <=> app[t].at = "registering",
         idPromise'[t] = idPromise[t],
         UNCHANGED loop \/ \E task \in Task : task \notin RegisterTasks(t) /\ Post(task)
  PROVE  Accounted(t)'
<1>1. RegistrationsOf(t)' = RegistrationsOf(t)
  BY PostRegistrations DEF RegistrationsOf
<1> QED BY <1>1 DEF Accounted

\* A task that is not a registration, or is one nobody waits for, is no place of t.
LEMMA OtherTasks ==
  ASSUME NEW t
  PROVE  /\ \A task : task.op # "DoRegisterModule" => task \notin RegisterTasks(t)
         /\ \A task : task.op = "DoRegisterModule" /\ t \notin task.to =>
              task \notin RegisterTasks(t)
BY DEF RegisterTasks

LEMMA CallbackAccounted ==
  ASSUME TypeOK, NEW t \in Thread, Accounted(t), InCallback,
         UNCHANGED loop \/ \E module \in ModuleType : CallbackRegisters(module)
  PROVE  Accounted(t)'
<1>1. UNCHANGED <<app, idPromise>>
  BY DEF InCallback, callers
<1>2. CASE UNCHANGED loop
  BY <1>1, <1>2, AsideAccounted
<1>3. ASSUME NEW module \in ModuleType, CallbackRegisters(module)
      PROVE  Accounted(t)'
  <2> DEFINE task == [op |-> "DoRegisterModule", module |-> module, to |-> {}]
  <2>1. task \in Task /\ task \notin RegisterTasks(t) /\ Post(task)
    BY <1>3 DEF Task, RegisterTasks, CallbackRegisters
  <2> QED BY <1>1, <2>1, AsideAccounted
<1> QED BY <1>2, <1>3

\* The calls of a thread u: only RegisterModule and its return, by t itself,
\* change the account of t.
LEMMA ThreadAccounted ==
  ASSUME TypeOK, NEW t \in Thread, Accounted(t), NEW u \in Thread
  PROVE  /\ \A module \in ModuleType : RegisterModule(u, module) => Accounted(t)'
         /\ RegisterReturns(u) => Accounted(t)'
         /\ \A id \in Int : CallUnregisterModule(u, id) => Accounted(t)'
         /\ \A id \in Int, list \in PropertyList : UpdateProperties(u, id, list) => Accounted(t)'
         /\ UpdatePropertiesReturns(u) => Accounted(t)'
<1> USE DEF callers, promises
<1>0. app \in [Thread -> Call] /\ idPromise \in [Thread -> SUBSET Nat] /\ loop \in Seq(Task)
  BY DEF TypeOK, CallersTypeOK
<1>1. ASSUME NEW module \in ModuleType, RegisterModule(u, module)
      PROVE  Accounted(t)'
  <2> DEFINE task == [op |-> "DoRegisterModule", module |-> module, to |-> {u}]
  <2>1. task \in Task /\ (task \in RegisterTasks(t) <=> t = u) /\ Post(task)
    BY <1>1 DEF Task, RegisterTasks, RegisterModule
  <2>2. idPromise' = idPromise /\ app' = [app EXCEPT ![u] = [at |-> "registering"]]
    BY <1>1 DEF RegisterModule
  <2>3. CASE t # u
    BY <1>0, <2>1, <2>2, <2>3, AsideAccounted
  <2>4. CASE t = u
    <3>1. app[t].at # "registering"
      BY <1>1, <2>4 DEF RegisterModule, Idle
    <3>2. idPromise[t] = {} /\ RegistrationsOf(t) = {}
      BY <3>1 DEF Accounted
    <3>3. RegistrationsOf(t)' = {Len(loop) + 1}
      BY <2>1, <2>4, <3>2, PostRegistrations
    <3>4. app'[t].at = "registering" /\ idPromise'[t] = {}
      BY <1>0, <2>2, <2>4, <3>2
    <3> QED BY <3>3, <3>4 DEF Accounted, AtMostOne
  <2> QED BY <2>3, <2>4
<1>2. ASSUME RegisterReturns(u)
      PROVE  Accounted(t)'
  <2>1. /\ app' = [app EXCEPT ![u] = Idle] /\ idPromise' = [idPromise EXCEPT ![u] = {}]
        /\ idPromise[u] # {} /\ UNCHANGED loop
    BY <1>2 DEF RegisterReturns
  <2>2. CASE t # u
    BY <1>0, <2>1, <2>2, AsideAccounted
  <2>3. CASE t = u
    <3>1. RegistrationsOf(t)' = {}
      BY <2>1, <2>3 DEF Accounted, RegistrationsOf
    <3>2. app'[t].at # "registering" /\ idPromise'[t] = {}
      BY <1>0, <2>1, <2>3 DEF Idle
    <3> QED BY <3>1, <3>2 DEF Accounted, AtMostOne
  <2> QED BY <2>2, <2>3
<1>3. ASSUME NEW id \in Int, CallUnregisterModule(u, id)
      PROVE  Accounted(t)'
  <2>1. [op |-> "UnregisterModule", id |-> id] \in Task
    BY DEF Task
  <2> QED BY <1>3, <2>1, OtherTasks, AsideAccounted DEF CallUnregisterModule
<1>4. ASSUME NEW id \in Int, NEW list \in PropertyList, UpdateProperties(u, id, list)
      PROVE  Accounted(t)'
  <2>1. [op |-> "SavePropertiesList", id |-> id, properties |-> list] \in Task
    BY DEF Task
  <2>2. app'[t].at = "registering" <=> app[t].at = "registering"
    BY <1>0, <1>4 DEF UpdateProperties, Idle
  <2> QED BY <1>4, <2>1, <2>2, OtherTasks, AsideAccounted DEF UpdateProperties
<1>5. ASSUME UpdatePropertiesReturns(u)
      PROVE  Accounted(t)'
  <2> DEFINE task == [op  |-> "HandleMessage",
                      msg |-> CreatePropertyUpdated(app[u].id, app[u].properties)]
  <2>1. app[u].id \in Int /\ app[u].properties \in PropertyList
    BY <1>0, <1>5 DEF UpdatePropertiesReturns, Call, Idle
  <2>2. CreatePropertyUpdated(app[u].id, app[u].properties) \in UpdateMsg
    BY <2>1, MessageTypes
  <2>3. task \in Task /\ task \notin RegisterTasks(t) /\ Post(task)
    BY <1>5, <2>2 DEF Task, RegisterTasks, UpdatePropertiesReturns
  <2>4. app'[t].at = "registering" <=> app[t].at = "registering"
    BY <1>0, <1>5 DEF UpdatePropertiesReturns, Idle
  <2>5. idPromise' = idPromise
    BY <1>5 DEF UpdatePropertiesReturns
  <2> QED BY <2>3, <2>4, <2>5, AsideAccounted
<1> QED BY <1>1, <1>2, <1>3, <1>4, <1>5

LEMMA SocketAccounted ==
  ASSUME TypeOK, NEW t \in Thread, Accounted(t)
  PROVE  /\ \A host \in BOOLEAN : ProxyInitialized(host) => Accounted(t)'
         /\ \A json \in ApplyMsg : ProxyReads(json) => Accounted(t)'
         /\ \A r \in Requester, json \in Request : ProcessJSRequest(r, json) => Accounted(t)'
         /\ \A r \in Requester : RequestReturns(r) => Accounted(t)'
<1> USE DEF callers, promises
<1>3. ASSUME NEW host \in BOOLEAN, ProxyInitialized(host)
      PROVE  Accounted(t)'
  <2>1. [op |-> "OnProxyInitialized", host |-> host] \in Task
    BY DEF Task
  <2> QED BY <1>3, <2>1, OtherTasks, AsideAccounted DEF ProxyInitialized
<1>4. ASSUME NEW json \in ApplyMsg, ProxyReads(json)
      PROVE  Accounted(t)'
  <2>1. [op |-> "PassPropertyUpdateToModule", json |-> json] \in Task
    BY DEF Task
  <2> QED BY <1>4, <2>1, OtherTasks, AsideAccounted DEF ProxyReads
<1>5. ASSUME NEW r \in Requester, NEW json \in Request, ProcessJSRequest(r, json)
      PROVE  Accounted(t)'
  <2>1. [op |-> "DoProcessJSRequest", json |-> json, to |-> r] \in Task
    BY DEF Task
  <2> QED BY <1>5, <2>1, OtherTasks, AsideAccounted DEF ProcessJSRequest
<1>6. ASSUME NEW r \in Requester, RequestReturns(r)
      PROVE  Accounted(t)'
  BY <1>6, AsideAccounted DEF RequestReturns
<1> QED BY <1>3, <1>4, <1>5, <1>6

LEMMA RegistrationsStep ==
  TypeOK /\ RegistrationsAccounted /\ [OpenNext]_vars => RegistrationsAccounted'
<1> SUFFICES ASSUME TypeOK, RegistrationsAccounted, [OpenNext]_vars, NEW t \in Thread
             PROVE  Accounted(t)'
  BY DEF RegistrationsAccounted, Accounted, AtMostOne
<1>0. Accounted(t)
  BY AccountedForAll
<1>1. CASE RunTask
  BY <1>0, <1>1, TaskAccounted
<1>2. CASE \/ \E id \in Int, list \in PropertyList : CallbackUpdates(id, list)
           \/ \E id \in Int : CallbackUnregisters(id)
           \/ \E module \in ModuleType : CallbackRegisters(module)
           \/ CallbackReturns
  <2>1. InCallback
    BY <1>2 DEF CallbackUpdates, CallbackUnregisters, CallbackRegisters, CallbackReturns
  <2>2. UNCHANGED loop \/ \E module \in ModuleType : CallbackRegisters(module)
    BY <1>2 DEF CallbackUpdates, CallbackUnregisters, CallbackReturns
  <2> QED BY <1>0, <2>1, <2>2, CallbackAccounted
<1>3. CASE \/ \E host \in BOOLEAN : ProxyInitialized(host)
           \/ \E json \in ApplyMsg : ProxyReads(json)
  BY <1>0, <1>3, SocketAccounted
<1>4. CASE \E u \in Thread :
             \/ \E module \in ModuleType : RegisterModule(u, module)
             \/ RegisterReturns(u)
             \/ \E id \in Int : CallUnregisterModule(u, id)
             \/ \E id \in Int, list \in PropertyList : UpdateProperties(u, id, list)
             \/ UpdatePropertiesReturns(u)
  BY <1>0, <1>4, ThreadAccounted
<1>5. CASE \E r \in Requester :
             \/ \E json \in Request : ProcessJSRequest(r, json)
             \/ RequestReturns(r)
  BY <1>0, <1>5, SocketAccounted
<1>6. CASE UNCHANGED vars
  BY <1>0, <1>6, AsideAccounted DEF vars
<1> QED BY <1>1, <1>2, <1>3, <1>4, <1>5, <1>6 DEF OpenNext

\* While a thread is blocked in RegisterModule there is exactly one thing that will
\* wake it, and none otherwise (ModuleManager.cpp:109-130): no promise is lost, and
\* none is fulfilled twice.
THEOREM RegistrationsCorrect == Spec => []RegistrationsAccounted
<1>1. Init => RegistrationsAccounted
  BY DEF Init, RegistrationsAccounted, RegistrationsOf, Idle
<1>2. TypeOK /\ RegistrationsAccounted /\ [Next]_vars => RegistrationsAccounted'
  BY RegistrationsStep, NextIsOpen
<1> QED BY <1>1, <1>2, TypeCorrect, PTL DEF Spec

-----------------------------------------------------------------------------
(* ProcessJSRequest.                                                       *)

LEMMA PostRequests ==
  ASSUME TypeOK, NEW task \in Task, Post(task), NEW r
  PROVE  /\ task \notin RequestTasks(r) => RequestsOf(r)' = RequestsOf(r)
         /\ task \in RequestTasks(r) =>
              RequestsOf(r)' = RequestsOf(r) \cup {Len(loop) + 1}
<1>1. loop \in Seq(Task) /\ loop' = Append(loop, task) /\ loop' \in Seq(Task)
  BY PostType DEF TypeOK, Post
<1>2. /\ RequestsOf(r) = Places(loop, RequestTasks(r))
      /\ RequestsOf(r)' = Places(loop', RequestTasks(r))
  BY <1>1, PlacesOf DEF RequestsOf
<1> QED BY <1>1, <1>2, PlacesAppend

LEMMA TakeRequests ==
  ASSUME TypeOK, NEW op, Takes(op), NEW r, AtMostOne(RequestsOf(r))
  PROVE  /\ AtMostOne(RequestsOf(r)')
         /\ Head(loop) \in RequestTasks(r) =>
              RequestsOf(r)' = {} /\ RequestsOf(r) # {}
         /\ Head(loop) \notin RequestTasks(r) =>
              (RequestsOf(r)' = {} <=> RequestsOf(r) = {})
<1>1. loop \in Seq(Task) /\ loop # <<>> /\ loop' = Tail(loop) /\ loop' \in Seq(Task)
  BY TakesType DEF TypeOK, Takes
<1>2. /\ RequestsOf(r) = Places(loop, RequestTasks(r))
      /\ RequestsOf(r)' = Places(loop', RequestTasks(r))
  BY <1>1, PlacesOf DEF RequestsOf
<1> QED BY <1>1, <1>2, PlacesTail

\* What RequestsAccounted says of one socket.
Answered(r) ==
  /\ AtMostOne(RequestsOf(r))
  /\ answer[r] # {} => RequestsOf(r) = {} /\ r \notin Answering
  /\ r \in Answering => RequestsOf(r) = {}
  /\ request[r] = "waiting" <=> answer[r] # {} \/ RequestsOf(r) # {} \/ r \in Answering

LEMMA AnsweredForAll ==
  RequestsAccounted <=> (running # Crashed => \A r \in Requester : Answered(r))
BY DEF RequestsAccounted, Answered, AtMostOne

\* A step that takes no request of r and posts none, and leaves its call alone.
LEMMA AsideAnswered ==
  ASSUME TypeOK, NEW r \in Requester, Answered(r),
         AtMostOne(RequestsOf(r)'), RequestsOf(r)' = {} <=> RequestsOf(r) = {},
         request'[r] = request[r], answer'[r] = answer[r],
         r \in Answering' <=> r \in Answering
  PROVE  Answered(r)'
BY DEF Answered

\* The task of a request of r leaves the answer, or a callback that owes it.
LEMMA PassAnswered ==
  ASSUME TypeOK, NEW r \in Requester, NEW json, NEW to \in SUBSET Requester,
         running = Idle, PassPropertyUpdateToModule(json, to), running' # Crashed
  PROVE  \/ answer'[r] = (IF r \in to THEN {Empty} ELSE answer[r]) /\ r \notin Answering'
         \/ answer' = answer /\ (r \in Answering' <=> r \in to)
<1>1. CASE Answer(to, Empty) /\ running' = running
  BY <1>1 DEF Answer, Answering, Idle
<1>2. CASE running' = [at |-> "callback", id |-> FindId(json), to |-> to] /\ answer' = answer
  BY <1>2 DEF Answering
<1> QED BY <1>1, <1>2 DEF PassPropertyUpdateToModule

LEMMA TaskAnswered ==
  ASSUME TypeOK, RunTask, NEW r \in Requester, Answered(r), running' # Crashed
  PROVE  Answered(r)'
<1>0. running = Idle /\ r \notin Answering /\ UNCHANGED request
  BY DEF RunTask, OnProxyInitialized, DoRegisterModule, UnregisterModule, SaveUpdate,
         PushUpdate, DoProcessJSRequest, PassPeerUpdate, Takes, Answering, Idle, callers
<1>1. CASE DoProcessJSRequest
  <2>1. Takes("DoProcessJSRequest") /\ Head(loop) \in Task
        /\ Head(loop).op = "DoProcessJSRequest"
    BY <1>1, TakesType DEF DoProcessJSRequest
  <2>2. Head(loop) \in RequestTasks(r) <=> r \in {Head(loop).to}
    BY <2>1 DEF RequestTasks
  <2>3. {Head(loop).to} \in SUBSET Requester
    BY <2>1 DEF Task
  <2>4. \/ /\ r \notin Answering'
           /\ \/ r \in {Head(loop).to} /\ answer'[r] # {}
              \/ r \notin {Head(loop).to} /\ answer'[r] = answer[r]
        \/ answer' = answer /\ (r \in Answering' <=> r \in {Head(loop).to})
    <3>1. CASE Head(loop).json.type = "apply"
      <4>1. PassPropertyUpdateToModule(Head(loop).json, {Head(loop).to})
        BY <1>1, <3>1 DEF DoProcessJSRequest
      <4> QED BY <1>0, <2>3, <4>1, PassAnswered
    <3>2. CASE Head(loop).json.type # "apply"
      BY <1>0, <1>1, <3>2 DEF DoProcessJSRequest, Answer, Answering
    <3> QED BY <3>1, <3>2
  <2> QED BY <1>0, <2>1, <2>2, <2>4, TakeRequests DEF Answered
<1>2. CASE ~DoProcessJSRequest
  <2>1. PICK op : Takes(op) /\ op # "DoProcessJSRequest"
    BY <1>2 DEF RunTask, OnProxyInitialized, DoRegisterModule, UnregisterModule,
                SaveUpdate, PushUpdate, PassPeerUpdate
  <2>2. Head(loop) \notin RequestTasks(r)
    BY <2>1, TakesType DEF RequestTasks
  <2>3. answer'[r] = answer[r] /\ r \notin Answering'
    <3>1. CASE PassPeerUpdate
      <4>1. PassPropertyUpdateToModule(Head(loop).json, {})
        BY <3>1 DEF PassPeerUpdate
      <4> QED BY <1>0, <4>1, PassAnswered
    <3>2. CASE ~PassPeerUpdate
      BY <1>0, <1>2, <3>2 DEF RunTask, OnProxyInitialized, DoRegisterModule,
           UnregisterModule, SaveUpdate, PushUpdate, promises, Answering
    <3> QED BY <3>1, <3>2
  <2> QED BY <1>0, <2>1, <2>2, <2>3, TakeRequests, AsideAnswered DEF Answered
<1> QED BY <1>1, <1>2

\* A callback answers the request that started it when it returns.
LEMMA CallbackAnswered ==
  ASSUME TypeOK, NEW r \in Requester, Answered(r)
  PROVE  /\ \A id \in Int, list \in PropertyList : CallbackUpdates(id, list) => Answered(r)'
         /\ \A id \in Int : CallbackUnregisters(id) => Answered(r)'
         /\ \A module \in ModuleType : CallbackRegisters(module) => Answered(r)'
         /\ CallbackReturns => Answered(r)'
<1> USE DEF callers
<1>1. ASSUME NEW id \in Int, NEW list \in PropertyList, CallbackUpdates(id, list)
      PROVE  Answered(r)'
  BY <1>1 DEF CallbackUpdates, InCallback, Answered, RequestsOf, Answering
<1>2. ASSUME NEW id \in Int, CallbackUnregisters(id)
      PROVE  Answered(r)'
  BY <1>2 DEF CallbackUnregisters, InCallback, Answered, RequestsOf, Answering
<1>3. ASSUME NEW module \in ModuleType, CallbackRegisters(module)
      PROVE  Answered(r)'
  <2> DEFINE task == [op |-> "DoRegisterModule", module |-> module, to |-> {}]
  <2>1. task \in Task /\ task \notin RequestTasks(r) /\ Post(task)
    BY <1>3 DEF Task, RequestTasks, CallbackRegisters
  <2>2. RequestsOf(r)' = RequestsOf(r)
    BY <2>1, PostRequests
  <2>3. Answering' = Answering
    BY <1>3 DEF CallbackRegisters, InCallback, Answering, TypeOK, Running, Idle, Crashed
  <2>4. UNCHANGED <<request, answer>>
    BY <1>3 DEF CallbackRegisters, InCallback
  <2> QED BY <2>2, <2>3, <2>4 DEF Answered
<1>4. ASSUME CallbackReturns
      PROVE  Answered(r)'
  <2>1. RequestsOf(r)' = RequestsOf(r) /\ Answering = running.to /\ Answering' = {}
    BY <1>4 DEF CallbackReturns, InCallback, RequestsOf, Answering, Idle
  <2>2. answer'[r] = IF r \in running.to THEN {Empty} ELSE answer[r]
    BY <1>4 DEF CallbackReturns, Answer
  <2>3. UNCHANGED request
    BY <1>4 DEF CallbackReturns, InCallback
  <2> QED BY <2>1, <2>2, <2>3 DEF Answered
<1> QED BY <1>1, <1>2, <1>3, <1>4

\* A step of another thread that posts no request of r and leaves its call alone.
LEMMA OutsideAnswered ==
  ASSUME TypeOK, NEW r \in Requester, Answered(r), Outside,
         request'[r] = request[r], answer'[r] = answer[r],
         UNCHANGED loop \/ \E task \in Task : task \notin RequestTasks(r) /\ Post(task)
  PROVE  Answered(r)'
<1>1. RequestsOf(r)' = RequestsOf(r)
  BY PostRequests DEF RequestsOf
<1>2. Answering' = Answering
  BY DEF Outside, Answering
<1> QED BY <1>1, <1>2 DEF Answered

LEMMA OtherRequests ==
  ASSUME NEW r
  PROVE  /\ \A task : task.op # "DoProcessJSRequest" => task \notin RequestTasks(r)
         /\ \A task : task.to # r => task \notin RequestTasks(r)
BY DEF RequestTasks

\* The calls of the threads are no requests.
LEMMA ThreadAnswered ==
  ASSUME TypeOK, NEW r \in Requester, Answered(r), NEW u \in Thread
  PROVE  /\ \A module \in ModuleType : RegisterModule(u, module) => Answered(r)'
         /\ RegisterReturns(u) => Answered(r)'
         /\ \A id \in Int : CallUnregisterModule(u, id) => Answered(r)'
         /\ \A id \in Int, list \in PropertyList : UpdateProperties(u, id, list) => Answered(r)'
         /\ UpdatePropertiesReturns(u) => Answered(r)'
<1> USE DEF callers, promises
<1>0. app \in [Thread -> Call]
  BY DEF TypeOK, CallersTypeOK
<1>1. ASSUME NEW module \in ModuleType, RegisterModule(u, module)
      PROVE  Answered(r)'
  <2>1. [op |-> "DoRegisterModule", module |-> module, to |-> {u}] \in Task
    BY DEF Task
  <2> QED BY <1>1, <2>1, OtherRequests, OutsideAnswered DEF RegisterModule
<1>2. ASSUME RegisterReturns(u)
      PROVE  Answered(r)'
  BY <1>2, OutsideAnswered DEF RegisterReturns
<1>3. ASSUME NEW id \in Int, CallUnregisterModule(u, id)
      PROVE  Answered(r)'
  <2>1. [op |-> "UnregisterModule", id |-> id] \in Task
    BY DEF Task
  <2> QED BY <1>3, <2>1, OtherRequests, OutsideAnswered DEF CallUnregisterModule
<1>4. ASSUME NEW id \in Int, NEW list \in PropertyList, UpdateProperties(u, id, list)
      PROVE  Answered(r)'
  <2>1. [op |-> "SavePropertiesList", id |-> id, properties |-> list] \in Task
    BY DEF Task
  <2> QED BY <1>4, <2>1, OtherRequests, OutsideAnswered DEF UpdateProperties
<1>5. ASSUME UpdatePropertiesReturns(u)
      PROVE  Answered(r)'
  <2> DEFINE task == [op  |-> "HandleMessage",
                      msg |-> CreatePropertyUpdated(app[u].id, app[u].properties)]
  <2>1. app[u].id \in Int /\ app[u].properties \in PropertyList
    BY <1>0, <1>5 DEF UpdatePropertiesReturns, Call, Idle
  <2>2. CreatePropertyUpdated(app[u].id, app[u].properties) \in UpdateMsg
    BY <2>1, MessageTypes
  <2>3. task \in Task /\ task \notin RequestTasks(r) /\ Post(task)
    BY <1>5, <2>2 DEF Task, RequestTasks, UpdatePropertiesReturns
  <2>4. UNCHANGED <<request, answer>> /\ Outside
    BY <1>5 DEF UpdatePropertiesReturns
  <2> QED BY <2>3, <2>4, OutsideAnswered
<1> QED BY <1>1, <1>2, <1>3, <1>4, <1>5

\* Only a request of r itself, and its return, change the account of r.
LEMMA SocketAnswered ==
  ASSUME TypeOK, NEW r \in Requester, Answered(r)
  PROVE  /\ \A host \in BOOLEAN : ProxyInitialized(host) => Answered(r)'
         /\ \A json \in ApplyMsg : ProxyReads(json) => Answered(r)'
         /\ \A q \in Requester, json \in Request : ProcessJSRequest(q, json) => Answered(r)'
         /\ \A q \in Requester : RequestReturns(q) => Answered(r)'
<1> USE DEF callers, promises
<1>0. /\ request \in [Requester -> {"idle", "waiting"}]
      /\ answer \in [Requester -> SUBSET Response]
      /\ loop \in Seq(Task)
  BY DEF TypeOK, CallersTypeOK
<1>3. ASSUME NEW host \in BOOLEAN, ProxyInitialized(host)
      PROVE  Answered(r)'
  <2>1. [op |-> "OnProxyInitialized", host |-> host] \in Task
    BY DEF Task
  <2> QED BY <1>3, <2>1, OtherRequests, OutsideAnswered DEF ProxyInitialized
<1>4. ASSUME NEW json \in ApplyMsg, ProxyReads(json)
      PROVE  Answered(r)'
  <2>1. [op |-> "PassPropertyUpdateToModule", json |-> json] \in Task
    BY DEF Task
  <2> QED BY <1>4, <2>1, OtherRequests, OutsideAnswered DEF ProxyReads
<1>5. ASSUME NEW q \in Requester, NEW json \in Request, ProcessJSRequest(q, json)
      PROVE  Answered(r)'
  <2> DEFINE task == [op |-> "DoProcessJSRequest", json |-> json, to |-> q]
  <2>1. task \in Task /\ (task \in RequestTasks(r) <=> q = r)
    BY DEF Task, RequestTasks
  <2>2. /\ Outside /\ request[q] = "idle" /\ request' = [request EXCEPT ![q] = "waiting"]
        /\ \/ Answer({q}, Empty) /\ UNCHANGED loop
           \/ Post(task) /\ UNCHANGED answer
    BY <1>5 DEF ProcessJSRequest
  <2>3. CASE q # r
    <3>1. request'[r] = request[r] /\ answer'[r] = answer[r]
      BY <1>0, <2>2, <2>3 DEF Answer
    <3>2. UNCHANGED loop \/ \E k \in Task : k \notin RequestTasks(r) /\ Post(k)
      BY <2>1, <2>2, <2>3
    <3> HIDE DEF task
    <3> QED BY <2>2, <3>1, <3>2, OutsideAnswered
  <2>4. CASE q = r
    <3>1. answer[r] = {} /\ RequestsOf(r) = {} /\ r \notin Answering
      BY <2>2, <2>4 DEF Answered
    <3>2. request'[r] = "waiting" /\ Answering' = Answering
      BY <1>0, <2>2, <2>4 DEF Outside, Answering
    <3>3. CASE Answer({q}, Empty) /\ UNCHANGED loop
      <4>1. answer'[r] # {} /\ RequestsOf(r)' = {}
        BY <2>4, <3>1, <3>3 DEF Answer, RequestsOf
      <4> QED BY <3>1, <3>2, <4>1 DEF Answered, AtMostOne
    <3>4. CASE Post(task) /\ UNCHANGED answer
      <4>1. answer'[r] = {} /\ RequestsOf(r)' = {Len(loop) + 1}
        BY <2>1, <2>4, <3>1, <3>4, PostRequests
      <4> QED BY <3>1, <3>2, <4>1 DEF Answered, AtMostOne
    <3> QED BY <2>2, <3>3, <3>4
  <2> QED BY <2>3, <2>4
<1>6. ASSUME NEW q \in Requester, RequestReturns(q)
      PROVE  Answered(r)'
  <2>1. /\ Outside /\ UNCHANGED loop /\ answer[q] # {}
        /\ request' = [request EXCEPT ![q] = "idle"] /\ answer' = [answer EXCEPT ![q] = {}]
    BY <1>6 DEF RequestReturns
  <2>2. CASE q # r
    BY <1>0, <2>1, <2>2, OutsideAnswered
  <2>3. CASE q = r
    <3>1. RequestsOf(r)' = {} /\ r \notin Answering'
      BY <2>1, <2>3 DEF Answered, RequestsOf, Outside, Answering
    <3>2. request'[r] = "idle" /\ answer'[r] = {}
      BY <1>0, <2>1, <2>3
    <3> QED BY <3>1, <3>2 DEF Answered, AtMostOne
  <2> QED BY <2>2, <2>3
<1> QED BY <1>3, <1>4, <1>5, <1>6

\* A crashed process does nothing more.
LEMMA CrashedStays == running = Crashed /\ [OpenNext]_vars => UNCHANGED vars
BY DEF OpenNext, RunTask, OnProxyInitialized, DoRegisterModule, UnregisterModule,
       SaveUpdate, PushUpdate, DoProcessJSRequest, PassPeerUpdate, Takes,
       CallbackUpdates, CallbackUnregisters, CallbackRegisters, CallbackReturns,
       InCallback, Outside, ProxyInitialized, ProxyReads, RegisterModule,
       RegisterReturns, CallUnregisterModule, UpdateProperties,
       UpdatePropertiesReturns, ProcessJSRequest, RequestReturns, Crashed, Idle, vars

LEMMA RequestsStep == TypeOK /\ RequestsAccounted /\ [OpenNext]_vars => RequestsAccounted'
<1> SUFFICES ASSUME TypeOK, RequestsAccounted, [OpenNext]_vars, running' # Crashed,
                    NEW r \in Requester
             PROVE  Answered(r)'
  BY DEF RequestsAccounted, Answered, AtMostOne
<1>0. CASE running = Crashed
  BY <1>0, CrashedStays DEF vars
<1>1. CASE running # Crashed
  <2>0. Answered(r)
    BY <1>1, AnsweredForAll
  <2>1. CASE RunTask
    BY <2>0, <2>1, TaskAnswered
  <2>2. CASE \/ \E id \in Int, list \in PropertyList : CallbackUpdates(id, list)
             \/ \E id \in Int : CallbackUnregisters(id)
             \/ \E module \in ModuleType : CallbackRegisters(module)
             \/ CallbackReturns
    BY <2>0, <2>2, CallbackAnswered
  <2>3. CASE \/ \E host \in BOOLEAN : ProxyInitialized(host)
             \/ \E json \in ApplyMsg : ProxyReads(json)
    BY <2>0, <2>3, SocketAnswered
  <2>4. CASE \E u \in Thread :
               \/ \E module \in ModuleType : RegisterModule(u, module)
               \/ RegisterReturns(u)
               \/ \E id \in Int : CallUnregisterModule(u, id)
               \/ \E id \in Int, list \in PropertyList : UpdateProperties(u, id, list)
               \/ UpdatePropertiesReturns(u)
    BY <2>0, <2>4, ThreadAnswered
  <2>5. CASE \E q \in Requester :
               \/ \E json \in Request : ProcessJSRequest(q, json)
               \/ RequestReturns(q)
    BY <2>0, <2>5, SocketAnswered
  <2>6. CASE UNCHANGED vars
    BY <2>0, <2>6 DEF vars, Answered, RequestsOf, Answering, AtMostOne
  <2> QED BY <2>1, <2>2, <2>3, <2>4, <2>5, <2>6 DEF OpenNext
<1> QED BY <1>0, <1>1

\* While a socket is blocked in ProcessJSRequest there is exactly one thing that
\* answers it, its task, the callback its task is in, or the answer itself, unless
\* the process has crashed (ModuleManager.cpp:182-272).
THEOREM RequestsCorrect == Spec => []RequestsAccounted
<1>1. Init => RequestsAccounted
  BY DEF Init, RequestsAccounted, RequestsOf, Answering, Idle
<1>2. TypeOK /\ RequestsAccounted /\ [Next]_vars => RequestsAccounted'
  BY RequestsStep, NextIsOpen
<1> QED BY <1>1, <1>2, TypeCorrect, PTL DEF Spec
=============================================================================
