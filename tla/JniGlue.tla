------------------------------ MODULE JniGlue -------------------------------
(***************************************************************************)
(* The library on Android (JniGlue.cpp, MsgThread.cpp, SacsWrapper.java).  *)
(* The callback of every module is JniGlue::Callback: it collects the      *)
(* update and wakes the message thread, which calls the object Java        *)
(* registered, holding _condition_mutex all the while.                     *)
(***************************************************************************)
EXTENDS ModuleManager

CONSTANTS
  Msg,         \* the message thread
  JavaCalls,   \* the operations the Java objects use when they are called
  MaxCalls,    \* bound on the calls of the Java code
  MaxRequests  \* bound on the requests of the page

ASSUME JniGlueAssumption ==
  /\ Msg \in Thread
  /\ JavaCalls \subseteq {"registerModule", "unregisterModule", "updateProperties"}
  /\ {MaxCalls, MaxRequests} \subseteq Nat

VARIABLES
  callback,   \* the module thread in InternalCallback: "none", "add" or "notify"
  collector,  \* _collector
  ready,      \* _is_ready
  msg,        \* the message thread: "waiting", "woken", "telling", "java" or "ended"
  pending,    \* the updates it has collected and not yet handed over
  thrown,     \* an exception is pending in its environment
  objects,    \* the ids in the map `modules` of SacsWrapper.java
  putting,    \* per thread: the id RegisterModule returned, before modules.put
  calls, requests,  \* made so far
  passed,     \* history: the updates passed to the callback, in order
  handed,     \* history: the updates the message thread is done with, in order
  lost        \* history: the places in `handed` of the ones no object was called for

glue == <<callback, collector, ready, msg, pending, thrown>>
java == <<objects, putting>>
made == <<calls, requests>>
told == <<passed, handed, lost>>
jniVars == <<vars, glue, java, made, told>>

\* The message thread ends at once when it cannot be attached.
JniInit ==
  /\ Init
  /\ callback = "none" /\ collector = <<>> /\ ready = FALSE
  /\ msg \in {"waiting", "ended"} /\ pending = <<>> /\ thrown = FALSE
  /\ objects = {} /\ putting = [t \in Thread |-> {}]
  /\ calls = 0 /\ requests = 0
  /\ passed = <<>> /\ handed = <<>> /\ lost = {}

-----------------------------------------------------------------------------
(* The module thread.                                                      *)

Runs ==
  /\ callback = "none"
  /\ RunTask
  /\ IF running'.at = "callback"
     THEN callback' = "add" /\ passed' = Append(passed, Head(loop).json)
     ELSE UNCHANGED <<callback, passed>>
  /\ UNCHANGED <<collector, ready, msg, pending, thrown, java, made, handed, lost>>

\* JniGlue::InternalCallback: _collector.Add, then Notify.
Add ==
  /\ callback = "add"
  /\ callback' = "notify"
  /\ collector' = Append(collector, passed[Len(passed)])
  /\ UNCHANGED <<vars, ready, msg, pending, thrown, java, made, told>>

\* _condition_mutex is held by the message thread from the moment it wakes.
Free == msg \in {"waiting", "ended"}

\* Faulty variant of Notify: it does not wait for the mutex.
TryNotify ==
  /\ callback = "notify"
  /\ callback' = "none"
  /\ ready' = (ready \/ Free)
  /\ CallbackReturns
  /\ UNCHANGED <<collector, msg, pending, thrown, java, made, told>>

\* MsgThread::Notify, and the callback returns.
Notify ==
  /\ callback = "notify" /\ Free
  /\ callback' = "none"
  /\ ready' = TRUE
  /\ CallbackReturns
  /\ UNCHANGED <<collector, msg, pending, thrown, java, made, told>>

-----------------------------------------------------------------------------
(* The message thread: MsgThread::OnThreadStarted and                      *)
(* JniGlue::CallJavaPropertiesUpdate.                                      *)

Alive == running # Crashed

Wakes ==
  /\ Alive /\ msg = "waiting" /\ ready
  /\ ready' = FALSE
  /\ msg' = "woken"
  /\ UNCHANGED <<vars, callback, collector, pending, thrown, java, made, told>>

\* Faulty variant of Collects: the collector keeps what it hands over.
CollectsCopies ==
  /\ Alive /\ msg = "woken"
  /\ pending' = collector
  /\ msg' = "telling"
  /\ UNCHANGED <<vars, callback, collector, ready, thrown, java, made, told>>

Collects ==
  /\ Alive /\ msg = "woken"
  /\ pending' = collector /\ collector' = <<>>
  /\ msg' = "telling"
  /\ UNCHANGED <<vars, callback, ready, thrown, java, made, told>>

\* CallStaticVoidMethod of SacsWrapper.onPropertiesUpdated.  A module Java has not put
\* in its map yet throws, nobody looks at the exception, and the update is lost.  What
\* a call into Java does while an exception is pending is undefined: it may go
\* through, do nothing, or end the process.
CallsJava ==
  /\ Alive /\ msg = "telling" /\ pending # <<>>
  /\ \/ /\ Head(pending).id \in objects
        /\ msg' = "java"
        /\ UNCHANGED <<vars, pending, thrown, handed, lost>>
     \/ /\ Head(pending).id \notin objects \/ thrown
        /\ thrown' = TRUE
        /\ pending' = Tail(pending)
        /\ handed' = Append(handed, Head(pending))
        /\ lost' = lost \cup {Len(handed')}
        /\ UNCHANGED <<vars, msg>>
     \/ /\ thrown
        /\ running' = Crashed
        /\ UNCHANGED <<loop, instance, proxy, callers, promises, out>>
        /\ UNCHANGED <<msg, pending, thrown, handed, lost>>
  /\ UNCHANGED <<callback, collector, ready, java, made, passed>>

JavaReturns ==
  /\ Alive /\ msg = "java" /\ app[Msg] = Idle /\ putting[Msg] = {}
  /\ handed' = Append(handed, Head(pending))
  /\ pending' = Tail(pending)
  /\ msg' = "telling"
  /\ UNCHANGED <<vars, callback, collector, ready, thrown, java, made, passed, lost>>

Unlocks ==
  /\ Alive /\ msg = "telling" /\ pending = <<>>
  /\ msg' = "waiting"
  /\ UNCHANGED <<vars, callback, collector, ready, pending, thrown, java, made, told>>

-----------------------------------------------------------------------------
(* The Java code, on its own threads or inside onPropertiesUpdated.        *)

May(t, call) ==
  /\ putting[t] = {}
  /\ t = Msg => msg = "java" /\ call \in JavaCalls
  /\ calls < MaxCalls /\ calls' = calls + 1 /\ UNCHANGED requests

registerModule(t, module) ==
  May(t, "registerModule") /\ RegisterModule(t, module) /\ UNCHANGED <<glue, java, told>>
Registered(t) ==
  /\ RegisterReturns(t)
  /\ putting' = [putting EXCEPT ![t] = idPromise[t]]
  /\ UNCHANGED <<glue, objects, made, told>>
modulesPut(t) ==
  /\ Alive /\ putting[t] # {}
  /\ objects' = objects \cup putting[t]
  /\ putting' = [putting EXCEPT ![t] = {}]
  /\ UNCHANGED <<vars, glue, made, told>>
\* Faulty variant of unregisterModule: the object is taken out of the map.
unregisterModuleRemoves(t, id) ==
  /\ May(t, "unregisterModule") /\ CallUnregisterModule(t, id)
  /\ objects' = objects \ {id}
  /\ UNCHANGED <<glue, putting, told>>
unregisterModule(t, id) ==
  May(t, "unregisterModule") /\ CallUnregisterModule(t, id) /\ UNCHANGED <<glue, java, told>>
updateProperties(t, id, list) ==
  /\ May(t, "updateProperties") /\ UpdateProperties(t, id, list)
  /\ UNCHANGED <<glue, java, told>>
Updated(t) == UpdatePropertiesReturns(t) /\ UNCHANGED <<glue, java, made, told>>

Still == UNCHANGED <<glue, java, made, told>>
PageApplies(r, id, list) ==
  /\ requests < MaxRequests /\ requests' = requests + 1
  /\ ProcessJSRequest(r, CreatePropertiesUpdated(id, list))
  /\ UNCHANGED <<glue, java, calls, told>>

JniNext ==
  \/ ProxyInitialized(TRUE) /\ Still
  \/ Runs \/ Add \/ Notify
  \/ Wakes \/ Collects \/ CallsJava \/ JavaReturns \/ Unlocks
  \/ \E t \in Thread :
       \/ \E module \in Definition : registerModule(t, module)
       \/ Registered(t)
       \/ modulesPut(t)
       \/ \E id \in objects : unregisterModule(t, id)
       \/ \E id \in objects, list \in UpdateList : updateProperties(t, id, list)
       \/ Updated(t)
  \/ \E r \in Requester :
       \/ \E id \in DOMAIN modules, list \in UpdateList : PageApplies(r, id, list)
       \/ RequestReturns(r) /\ Still

JniSpec == JniInit /\ [][JniNext]_jniVars

\* Every thread goes on while it can; Java objects return.
JniFairness ==
  /\ WF_jniVars(Runs) /\ WF_jniVars(Add) /\ WF_jniVars(Notify)
  /\ WF_jniVars(Wakes) /\ WF_jniVars(Collects) /\ WF_jniVars(CallsJava)
  /\ WF_jniVars(JavaReturns) /\ WF_jniVars(Unlocks)
  /\ \A t \in Thread :
       WF_jniVars(Registered(t)) /\ WF_jniVars(modulesPut(t)) /\ WF_jniVars(Updated(t))
  /\ \A r \in Requester : WF_jniVars(RequestReturns(r) /\ Still)

FairJniSpec == JniSpec /\ JniFairness

-----------------------------------------------------------------------------
(* Properties.                                                             *)

\* The message thread calls Java for every update the callbacks were passed, once and
\* in order, up to the ones still on their way; no call is for one it has not been
\* passed (JniGlue.cpp:94-130).
InOrder ==
  handed \o pending \o collector
    = IF callback = "add" THEN SubSeq(passed, 1, Len(passed) - 1) ELSE passed

\* No wake-up is lost: an update in the collector will be collected, because the
\* flag is up, the module thread is about to raise it, or the message thread has
\* yet to collect (MsgThread.cpp:39-59).
NoLostWakeUp ==
  collector # <<>> => ready \/ callback = "notify" \/ msg = "woken"

\* A module whose id the module thread has given out, and registerModule has not put
\* in the map.
Early(id) == \E t \in Thread : id \in idPromise[t] \cup putting[t]

\* The first update that is lost is one of a module whose registerModule is still under
\* way; in particular an update on its way when Java unregisters its module is not lost
\* (SacsWrapper.java:91-103,116-118, JniGlue.cpp:106-130).
LostOnlyEarly == [][lost = {} /\ lost' # {} => Early(Head(pending).id)]_jniVars

\* Each update reaches its object, if objects do not register modules when they
\* are called, unless the message thread has not started or an early update has left
\* an exception behind (MsgThread.cpp:47-60, JniGlue.cpp:106-130).
UpdatesArrive ==
  \A n \in 1..MaxRequests :
    Len(passed) = n ~> n \in 1..Len(handed) \ lost \/ thrown \/ msg = "ended"

\* Every RegisterModule returns and every request is answered, also while the module
\* thread waits for the message thread and Java, unless the process ends
\* (ModuleManager.cpp:109-119,182-196, MsgThread.cpp:39-45).
RegisterReturnsAlways ==
  \A t \in Thread :
    app[t].at = "registering" ~> app[t].at # "registering" \/ running = Crashed
RequestsAnswered ==
  \A r \in Requester :
    request[r] = "waiting" ~> request[r] = "idle" \/ running = Crashed

\* README.md:162: the methods are thread-safe and callbacks run on a thread of
\* their own.  registerModule from onPropertiesUpdated waits for the module thread,
\* which may wait for the mutex held during onPropertiesUpdated
\* (MsgThread.cpp:55-59, ModuleManager.cpp:111).
ObjectsReturn == msg = "java" ~> msg # "java" \/ running = Crashed
=============================================================================
