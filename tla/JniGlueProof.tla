---------------------------- MODULE JniGlueProof -----------------------------
(***************************************************************************)
(* On Android the message thread calls Java for each update once and in    *)
(* order, no wake-up of it is lost, and the first update lost to an        *)
(* exception is one of a module registerModule has not put in its map:     *)
(* InOrder, NoLostWakeUp and LostOnlyEarly, for every set of threads,      *)
(* pages, modules, updates and Java calls; and what is proved of an        *)
(* instance holds of the one Java uses.                                    *)
(***************************************************************************)
EXTENDS JniGlue, ModuleManagerProof

-----------------------------------------------------------------------------
(* The inductive invariant.                                                *)

GlueTypeOK ==
  /\ callback \in {"none", "add", "notify"} /\ ready \in BOOLEAN
  /\ msg \in {"waiting", "woken", "telling", "java", "ended"} /\ thrown \in BOOLEAN
  /\ collector \in Seq(ApplyMsg) /\ pending \in Seq(ApplyMsg)
JavaTypeOK ==
  /\ objects \subseteq Nat /\ putting \in [Thread -> SUBSET Nat]
  /\ passed \in Seq(ApplyMsg) /\ handed \in Seq(ApplyMsg)

\* An update is passed before it is collected; the message thread waits and wakes with
\* nothing in its hands, and calls Java for an update it holds.
InHand ==
  /\ callback = "add" => passed # <<>>
  /\ msg \in {"waiting", "woken", "ended"} => pending = <<>>
  /\ msg = "java" => pending # <<>>

JniInv ==
  /\ TypeOK /\ GlueTypeOK /\ JavaTypeOK
  /\ InHand
  /\ InOrder

-----------------------------------------------------------------------------
(* The instance underneath.                                                *)

\* The process ends in the middle of a step of the message thread.
Crashes ==
  running' = Crashed /\ UNCHANGED <<loop, instance, proxy, callers, promises, out>>

\* What the module thread, Java and the page do to the instance, any caller may do.
LEMMA JniStepIsOpen ==
  ASSUME TypeOK, JavaTypeOK, [JniNext]_jniVars
  PROVE  [OpenNext]_vars \/ Crashes
<1>1. \A id \in DOMAIN modules : id \in Int
  BY DEF TypeOK, ModulesTypeOK
<1>2. \A id \in objects : id \in Int
  BY DEF JavaTypeOK
<1>3. CASE ProxyInitialized(TRUE) \/ Runs
  BY <1>3 DEF OpenNext, Runs
<1>4. CASE Notify
  BY <1>4 DEF OpenNext, Notify
<1>5. CASE Add \/ Wakes \/ Collects \/ JavaReturns \/ Unlocks
  BY <1>5 DEF Add, Wakes, Collects, JavaReturns, Unlocks
<1>6. CASE CallsJava
  BY <1>6 DEF CallsJava, Crashes
<1>7. ASSUME NEW t \in Thread,
             \/ \E module \in Definition : registerModule(t, module)
             \/ Registered(t) \/ modulesPut(t)
             \/ \E id \in objects : unregisterModule(t, id)
             \/ \E id \in objects, list \in UpdateList : updateProperties(t, id, list)
             \/ Updated(t)
      PROVE  [OpenNext]_vars
  BY <1>2, <1>7, ConstantsAssumption DEF OpenNext, registerModule, Registered, modulesPut,
       unregisterModule, updateProperties, Updated
<1>8. ASSUME NEW r \in Requester,
             \/ \E id \in DOMAIN modules, list \in UpdateList : PageApplies(r, id, list)
             \/ RequestReturns(r)
      PROVE  [OpenNext]_vars
  <2>1. \A id \in DOMAIN modules, list \in UpdateList :
          CreatePropertiesUpdated(id, list) \in Request
    BY <1>1, ConstantsAssumption, MessageTypes DEF Request
  <2> QED BY <1>8, <2>1 DEF OpenNext, PageApplies
<1>9. CASE UNCHANGED jniVars
  BY <1>9 DEF jniVars
<1> QED BY <1>3, <1>4, <1>5, <1>6, <1>7, <1>8, <1>9 DEF JniNext

\* A crash keeps the types and the accounts.
LEMMA CrashKeeps ==
  ASSUME TypeOK, Crashes
  PROVE  /\ TypeOK'
         /\ RegistrationsAccounted => RegistrationsAccounted'
         /\ RequestsAccounted'
<1> USE DEF Crashes, instance, started, callers, promises
<1>1. TypeOK'
  BY DEF TypeOK, ModulesTypeOK, FlagsTypeOK, CallersTypeOK, OutTypeOK, Running
<1>2. RegistrationsAccounted => RegistrationsAccounted'
  BY DEF RegistrationsAccounted, RegistrationsOf
<1> QED BY <1>1, <1>2 DEF RequestsAccounted

-----------------------------------------------------------------------------
(* Sequences.                                                              *)

\* An update added at the end, and all but the last.
LEMMA AppendLast ==
  ASSUME NEW S, NEW s \in Seq(S), NEW x \in S
  PROVE  SubSeq(Append(s, x), 1, Len(Append(s, x)) - 1) = s
<1> DEFINE u == Append(s, x)
           v == SubSeq(u, 1, Len(u) - 1)
<1>1. u \in Seq(S) /\ Len(u) = Len(s) + 1 /\ \A i \in 1..Len(s) : u[i] = s[i]
  BY AppendProperties
<1>2. Len(s) \in Nat
  BY LenProperties
<1>3. \A i \in 1..(Len(u) - 1) : u[i] \in S
  BY <1>1, <1>2, ElementOfSeq
<1>4. v \in Seq(S) /\ Len(v) = Len(s) /\ \A i \in 1..Len(s) : v[i] = s[i]
  <2> HIDE DEF u
  <2>1. Len(u) - 1 \in Int /\ Len(u) - 1 = Len(s)
    BY <1>1, <1>2
  <2> QED BY <1>1, <1>2, <1>3, <2>1, SubSeqProperties
<1> HIDE DEF u, v
<1>5. v = s
  BY <1>4, SeqEqual
<1> QED BY <1>5 DEF u, v

LEMMA SplitLast ==
  ASSUME NEW S, NEW s \in Seq(S), s # <<>>
  PROVE  /\ s[Len(s)] \in S
         /\ SubSeq(s, 1, Len(s) - 1) \in Seq(S)
         /\ s = Append(SubSeq(s, 1, Len(s) - 1), s[Len(s)])
<1>1. PICK u \in Seq(S), x \in S : s = Append(u, x)
  BY SequenceEmptyOrAppend
<1>2. SubSeq(s, 1, Len(s) - 1) = u
  BY <1>1, AppendLast
<1>3. s[Len(s)] = x
  BY <1>1, AppendProperties
<1> QED BY <1>1, <1>2, <1>3

\* The first and the rest.
LEMMA FirstAndRest ==
  ASSUME NEW S, NEW s \in Seq(S), NEW u \in Seq(S), NEW v \in Seq(S), s # <<>>,
         Len(u) = 1, u[1] = s[1], Len(v) = Len(s) - 1,
         \A i \in 1..Len(v) : v[i] = s[i + 1]
  PROVE  s = u \o v
<1>1. u \o v \in Seq(S) /\ Len(u \o v) = Len(u) + Len(v)
  BY ConcatProperties
<1>2. \A i \in 1..(Len(u) + Len(v)) : (u \o v)[i] = IF i <= Len(u) THEN u[i] ELSE v[i - Len(u)]
  BY ONLY ConcatProperties, u \in Seq(S), v \in Seq(S), Zenon
<1>3. Len(s) \in Nat /\ Len(u \o v) = Len(s)
  BY <1>1, LenProperties
<1>4. \A i \in 1..Len(u \o v) : (u \o v)[i] = s[i]
  BY <1>2, <1>3
<1> QED BY <1>1, <1>3, <1>4, SeqEqual

\* What is handed on at one end and taken at the other stays one sequence.
LEMMA HandedOn ==
  ASSUME NEW S, NEW d \in Seq(S), NEW p \in Seq(S), NEW c \in Seq(S)
  PROVE  /\ \A x \in S : (d \o p) \o Append(c, x) = Append((d \o p) \o c, x)
         /\ (d \o c) \o <<>> = (d \o <<>>) \o c
         /\ p # <<>> => Append(d, Head(p)) \o Tail(p) = d \o p
<1>1. d \o p \in Seq(S) /\ d \o c \in Seq(S) /\ (d \o p) \o c \in Seq(S)
  BY ConcatProperties
<1>2. ASSUME NEW x \in S
      PROVE  (d \o p) \o Append(c, x) = Append((d \o p) \o c, x)
  <2>1. <<x>> \in Seq(S)
    OBVIOUS
  <2>2. Append(c, x) = c \o <<x>>
    BY AppendIsConcat
  <2>3. Append((d \o p) \o c, x) = ((d \o p) \o c) \o <<x>>
    BY <1>1, AppendIsConcat
  <2> QED BY <1>1, <2>1, <2>2, <2>3, ConcatAssociative
<1>3. (d \o c) \o <<>> = (d \o <<>>) \o c
  BY <1>1, ConcatEmptySeq
<1>4. ASSUME p # <<>>
      PROVE  Append(d, Head(p)) \o Tail(p) = d \o p
  <2>1. Head(p) \in S /\ Tail(p) \in Seq(S)
    BY <1>4, HeadTailProperties
  <2>2. <<Head(p)>> \in Seq(S) /\ Append(d, Head(p)) = d \o <<Head(p)>>
    BY <2>1, AppendIsConcat
  <2>3. p = <<Head(p)>> \o Tail(p)
    <3>1. Len(<<Head(p)>>) = 1 /\ <<Head(p)>>[1] = p[1]
      BY <1>4, HeadTailProperties
    <3>2. \A i \in 1..Len(Tail(p)) : Tail(p)[i] = p[i + 1]
      BY <1>4, HeadTailProperties
    <3> QED BY <1>4, <2>1, <2>2, <3>1, <3>2, HeadTailProperties, FirstAndRest
  <2> QED BY <2>1, <2>2, <2>3, ConcatAssociative
<1> QED BY <1>2, <1>3, <1>4

-----------------------------------------------------------------------------
(* The steps.                                                              *)

\* A task that starts a callback carries the update it passes.
LEMMA PassesAnUpdate ==
  ASSUME TypeOK, RunTask, running'.at = "callback"
  PROVE  Head(loop).json \in ApplyMsg
<1>1. CASE PassPeerUpdate
  BY <1>1, TakesType DEF PassPeerUpdate, Task
<1>2. CASE DoProcessJSRequest
  <2>1. Head(loop) \in Task /\ Head(loop).op = "DoProcessJSRequest" /\ running = Idle
    BY <1>2, TakesType DEF DoProcessJSRequest, Takes
  <2>2. Head(loop).json.type = "apply"
    BY <1>2, <2>1 DEF DoProcessJSRequest, Idle
  <2> QED BY <2>1, <2>2 DEF Task, Request, ApplyMsg, LoadMsg, Malformed, UnknownType
<1>3. CASE ~PassPeerUpdate /\ ~DoProcessJSRequest
  <2>1. running = Idle /\ running' = running
    BY <1>3 DEF RunTask, OnProxyInitialized, DoRegisterModule, UnregisterModule, SaveUpdate,
                PushUpdate, Takes
  <2> QED BY <2>1 DEF Idle
<1> QED BY <1>1, <1>2, <1>3

\* The instance keeps its types, also when the process ends.
LEMMA JniTypeStep == TypeOK /\ JavaTypeOK /\ [JniNext]_jniVars => TypeOK'
BY JniStepIsOpen, TypeStep, CrashKeeps

\* What is left alone.
LEMMA GlueKept ==
  ASSUME GlueTypeOK, JavaTypeOK, InHand, InOrder
  PROVE  /\ UNCHANGED glue => GlueTypeOK'
         /\ UNCHANGED <<java, told>> => JavaTypeOK'
         /\ UNCHANGED <<callback, msg, pending, passed>> => InHand'
         /\ UNCHANGED <<callback, collector, pending, told>> => InOrder'
BY DEF GlueTypeOK, JavaTypeOK, InHand, InOrder, glue, java, told

\* What JniInv says beside the instance's types.
Glued == GlueTypeOK /\ JavaTypeOK /\ InHand /\ InOrder

\* The module thread: it takes a task, collects the update its callback was passed,
\* and wakes the message thread (JniGlue.cpp:94-104, MsgThread.cpp:39-45).
LEMMA ModuleThreadStep ==
  ASSUME JniInv
  PROVE  /\ Runs => Glued'
         /\ Add => Glued'
         /\ Notify => Glued'
<1>0. /\ GlueTypeOK /\ JavaTypeOK /\ InHand /\ InOrder /\ TypeOK
      /\ handed \in Seq(ApplyMsg) /\ pending \in Seq(ApplyMsg)
      /\ collector \in Seq(ApplyMsg) /\ passed \in Seq(ApplyMsg)
  BY DEF JniInv, GlueTypeOK, JavaTypeOK
<1>1. ASSUME Runs PROVE Glued'
  <2>1. CASE running'.at = "callback"
    <3>1. Head(loop).json \in ApplyMsg
      BY <1>0, <1>1, <2>1, PassesAnUpdate DEF Runs
    <3> DEFINE x == Head(loop).json
    <3> HIDE DEF x
    <3>2. /\ callback = "none" /\ callback' = "add" /\ passed' = Append(passed, x)
          /\ UNCHANGED <<collector, ready, msg, pending, thrown, java, handed>>
      BY <1>1, <2>1 DEF Runs, x
    <3>3. /\ passed' \in Seq(ApplyMsg) /\ passed' # <<>>
          /\ SubSeq(passed', 1, Len(passed') - 1) = passed
      BY <1>0, <3>1, <3>2, AppendLast, AppendProperties DEF x
    <3>4. GlueTypeOK' /\ JavaTypeOK' /\ InHand'
      BY <1>0, <3>2, <3>3 DEF GlueTypeOK, JavaTypeOK, InHand, java
    <3>5. InOrder'
      BY <1>0, <3>2, <3>3 DEF InOrder
    <3> QED BY <3>4, <3>5 DEF Glued
  <2>2. CASE running'.at # "callback"
    BY <1>0, <1>1, <2>2, GlueKept DEF Runs, Glued, glue, told
  <2> QED BY <2>1, <2>2
<1>2. ASSUME Add PROVE Glued'
  <2> DEFINE x == passed[Len(passed)]
             u == SubSeq(passed, 1, Len(passed) - 1)
             d == handed \o pending
  <2>1. /\ callback = "add" /\ callback' = "notify" /\ collector' = Append(collector, x)
        /\ UNCHANGED <<ready, msg, pending, thrown, java, told>>
    BY <1>2 DEF Add
  <2>2. x \in ApplyMsg /\ u \in Seq(ApplyMsg) /\ passed = Append(u, x)
    BY <1>0, <2>1, SplitLast DEF InHand
  <2>3. d \o collector = u
    BY <1>0, <2>1 DEF InOrder
  <2>4. d \o Append(collector, x) = Append(d \o collector, x)
    BY <1>0, <2>2, HandedOn
  <2> HIDE DEF x, u
  <2>5. InOrder'
    BY <2>1, <2>2, <2>3, <2>4 DEF InOrder, told
  <2>6. collector' \in Seq(ApplyMsg)
    BY <1>0, <2>1, <2>2, AppendProperties
  <2>7. GlueTypeOK' /\ JavaTypeOK' /\ InHand'
    BY <1>0, <2>1, <2>6 DEF GlueTypeOK, JavaTypeOK, InHand, java, told
  <2> QED BY <2>5, <2>7 DEF Glued
<1>3. ASSUME Notify PROVE Glued'
  BY <1>0, <1>3 DEF Notify, Glued, GlueTypeOK, JavaTypeOK, InHand, InOrder, java, told
<1> QED BY <1>1, <1>2, <1>3

\* The message thread is done with an update.
Done == handed' = Append(handed, Head(pending)) /\ pending' = Tail(pending)

LEMMA DoneKeeps ==
  ASSUME GlueTypeOK, JavaTypeOK, InHand, InOrder, pending # <<>>, Done, msg' = "telling",
         thrown' \in BOOLEAN, UNCHANGED <<callback, collector, ready, java, passed>>
  PROVE  Glued'
<1>1. /\ handed \in Seq(ApplyMsg) /\ pending \in Seq(ApplyMsg)
      /\ handed' = Append(handed, Head(pending)) /\ pending' = Tail(pending)
  BY DEF GlueTypeOK, JavaTypeOK, Done
<1>2. handed' \o pending' = handed \o pending
  <2>1. Append(handed, Head(pending)) \o Tail(pending) = handed \o pending
    BY <1>1, HandedOn
  <2> QED BY <1>1, <2>1
<1>3. InOrder'
  BY <1>2 DEF InOrder
<1>4. Head(pending) \in ApplyMsg /\ Tail(pending) \in Seq(ApplyMsg)
  BY <1>1, HeadTailProperties
<1>5. handed' \in Seq(ApplyMsg)
  BY <1>1, <1>4, AppendProperties
<1>6. GlueTypeOK' /\ JavaTypeOK' /\ InHand'
  BY <1>1, <1>4, <1>5 DEF GlueTypeOK, JavaTypeOK, InHand, java
<1> QED BY <1>3, <1>6 DEF Glued

\* The message thread: what it collects it hands over, one update at a time
\* (MsgThread.cpp:47-59, JniGlue.cpp:106-130).
LEMMA MessageThreadStep ==
  ASSUME JniInv
  PROVE  /\ Wakes => Glued'
         /\ Collects => Glued'
         /\ CallsJava => Glued'
         /\ JavaReturns => Glued'
         /\ Unlocks => Glued'
<1>0. /\ GlueTypeOK /\ JavaTypeOK /\ InHand /\ InOrder
      /\ handed \in Seq(ApplyMsg) /\ pending \in Seq(ApplyMsg)
      /\ collector \in Seq(ApplyMsg)
  BY DEF JniInv, GlueTypeOK, JavaTypeOK
<1>1. ASSUME Wakes PROVE Glued'
  BY <1>0, <1>1, GlueKept DEF Wakes, Glued, GlueTypeOK, InHand, told
<1>2. ASSUME Collects PROVE Glued'
  <2>1. /\ msg = "woken" /\ msg' = "telling" /\ pending' = collector /\ collector' = <<>>
        /\ UNCHANGED <<callback, ready, thrown, java, told>>
    BY <1>2 DEF Collects
  <2>2. pending = <<>>
    BY <1>0, <2>1 DEF InHand
  <2>3. (handed \o collector) \o <<>> = (handed \o <<>>) \o collector
    BY <1>0, HandedOn
  <2>4. InOrder'
    BY <1>0, <2>1, <2>2, <2>3 DEF InOrder, told
  <2>5. GlueTypeOK' /\ JavaTypeOK' /\ InHand'
    BY <1>0, <2>1, EmptySeq DEF GlueTypeOK, JavaTypeOK, InHand, java, told
  <2> QED BY <2>4, <2>5 DEF Glued
<1>3. ASSUME CallsJava PROVE Glued'
  <2>1. /\ msg = "telling" /\ pending # <<>> /\ thrown' \in BOOLEAN
        /\ UNCHANGED <<callback, collector, ready, java, passed>>
    BY <1>0, <1>3 DEF CallsJava, GlueTypeOK
  <2>2. CASE Done /\ UNCHANGED msg
    BY <1>0, <2>1, <2>2, DoneKeeps DEF InHand
  <2>3. CASE msg' \in {"telling", "java"} /\ UNCHANGED <<pending, handed>>
    BY <1>0, <2>1, <2>3 DEF Glued, GlueTypeOK, JavaTypeOK, InHand, InOrder, java
  <2> QED BY <1>3, <2>1, <2>2, <2>3 DEF CallsJava, Done
<1>4. ASSUME JavaReturns PROVE Glued'
  <2>1. /\ msg' = "telling" /\ Done
        /\ UNCHANGED <<callback, collector, ready, thrown, java, passed>>
    BY <1>4 DEF JavaReturns, Done
  <2>2. pending # <<>>
    BY <1>0, <1>4 DEF JavaReturns, InHand
  <2> QED BY <1>0, <2>1, <2>2, DoneKeeps DEF GlueTypeOK
<1>5. ASSUME Unlocks PROVE Glued'
  BY <1>0, <1>5, GlueKept DEF Unlocks, Glued, GlueTypeOK, InHand, told
<1> QED BY <1>1, <1>2, <1>3, <1>4, <1>5

LEMMA JniInvStep == JniInv /\ [JniNext]_jniVars => JniInv'
<1> SUFFICES ASSUME JniInv, [JniNext]_jniVars PROVE JniInv'
  OBVIOUS
<1>0. GlueTypeOK /\ JavaTypeOK /\ InHand /\ InOrder /\ TypeOK
  BY DEF JniInv
<1>1. TypeOK'
  BY JniTypeStep DEF JniInv
<1>2. CASE Runs \/ Add \/ Notify
  BY <1>1, <1>2, ModuleThreadStep DEF JniInv, Glued
<1>3. CASE Wakes \/ Collects \/ CallsJava \/ JavaReturns \/ Unlocks
  BY <1>1, <1>3, MessageThreadStep DEF JniInv, Glued
<1>4. ASSUME NEW t \in Thread,
             \/ \E module \in Definition : registerModule(t, module)
             \/ Registered(t) \/ modulesPut(t)
             \/ \E id \in objects : unregisterModule(t, id)
             \/ \E id \in objects, list \in UpdateList : updateProperties(t, id, list)
             \/ Updated(t)
      PROVE  JniInv'
  \* the calls of Java leave the updates alone; an id it was given is a number
  <2>1. UNCHANGED <<glue, told>>
    BY <1>4 DEF registerModule, Registered, modulesPut, unregisterModule, updateProperties,
                Updated
  <2>2. idPromise[t] \subseteq Nat /\ putting[t] \subseteq Nat
    BY <1>0 DEF TypeOK, CallersTypeOK, JavaTypeOK
  <2>3. \/ UNCHANGED java
        \/ UNCHANGED objects /\ putting' = [putting EXCEPT ![t] = idPromise[t]]
        \/ objects' = objects \cup putting[t] /\ putting' = [putting EXCEPT ![t] = {}]
    BY <1>4 DEF registerModule, Registered, modulesPut, unregisterModule, updateProperties,
                Updated
  <2>4. JavaTypeOK'
    BY <1>0, <2>1, <2>2, <2>3 DEF JavaTypeOK, java, told
  <2> QED BY <1>0, <1>1, <2>1, <2>4, GlueKept DEF JniInv, glue, told
<1>5. CASE \/ ProxyInitialized(TRUE) /\ Still
           \/ \E r \in Requester :
                \/ \E id \in DOMAIN modules, list \in UpdateList : PageApplies(r, id, list)
                \/ RequestReturns(r) /\ Still
           \/ UNCHANGED jniVars
  <2>1. UNCHANGED <<glue, java, told>>
    BY <1>5 DEF Still, PageApplies, jniVars
  <2> QED BY <1>0, <1>1, <2>1, GlueKept DEF JniInv, glue, told
<1> QED BY <1>2, <1>3, <1>4, <1>5 DEF JniNext

LEMMA JniInvInit == JniInit => JniInv
<1> SUFFICES ASSUME JniInit PROVE JniInv
  OBVIOUS
<1>1. TypeOK
  BY TypeInit DEF JniInit
<1>2. <<>> \in Seq(ApplyMsg) /\ <<>> \o <<>> = <<>>
  BY EmptySeq, ConcatEmptySeq
<1>3. InOrder
  BY <1>2 DEF JniInit, InOrder
<1> QED BY <1>1, <1>2, <1>3 DEF JniInit, JniInv, GlueTypeOK, JavaTypeOK, InHand

-----------------------------------------------------------------------------
(* The map of the Java objects.                                            *)

Ids == 0..(idCounter - 1)
Known(updates) == \A u \in Range(updates) : u.id \in Ids

\* Somebody waits for every queued registration; a thread waits for an id with no other
\* in its hands; each id given out has its object, or a thread that will put it; every
\* update is one of a module that was given an id; one was lost if Java has thrown.
Waited == \A task \in Tasks : task.op = "DoRegisterModule" => task.to # {}
OnePut == \A t \in Thread : app[t].at = "registering" => putting[t] = {}
IdsPut == \A id \in Ids : id \in objects \/ Early(id)
UpdatesKnown == Known(passed) /\ Known(collector) /\ Known(pending)
MapInv ==
  /\ RegistrationsAccounted
  /\ Waited /\ OnePut /\ IdsPut
  /\ UpdatesKnown
  /\ thrown <=> lost # {}

\* A step that gives out no id, queues no registration and lets no thread wait for one.
Quiet ==
  /\ UNCHANGED <<idCounter, idPromise>>
  /\ \A t \in Thread : app'[t].at = "registering" => app[t].at = "registering"
  /\ \A task \in Tasks' : task \in Tasks \/ task.op # "DoRegisterModule"

LEMMA PostedTasks ==
  ASSUME TypeOK, NEW task, Post(task)
  PROVE  Tasks' = Tasks \cup {task}
<1> DEFINE S == Task \cup {task}
<1>1. loop \in Seq(S) /\ task \in S /\ loop' = Append(loop, task)
  BY DEF TypeOK, Post
<1> HIDE DEF S
<1> QED BY <1>1, MembersOf DEF Tasks

\* A task other than DoRegisterModule is quiet.
LEMMA TaskQuiet ==
  ASSUME TypeOK, RunTask
  PROVE  UNCHANGED app /\ (DoRegisterModule \/ Quiet)
<1>1. UNCHANGED app /\ loop # <<>> /\ loop' = Tail(loop)
  BY DEF RunTask, OnProxyInitialized, DoRegisterModule, UnregisterModule, SaveUpdate,
         PushUpdate, DoProcessJSRequest, PassPeerUpdate, Takes, callers
<1>2. Tasks' \subseteq Tasks
  BY <1>1, TasksOf
<1>3. ~DoRegisterModule => UNCHANGED <<idCounter, idPromise>>
  BY TaskModules
<1> QED BY <1>1, <1>2, <1>3 DEF Quiet

\* So is every other step of the instance but a registration and its return.
LEMMA OthersQuiet ==
  ASSUME TypeOK
  PROVE  /\ UNCHANGED vars \/ CallbackReturns \/ ProxyInitialized(TRUE) => Quiet
         /\ \A t \in Thread : \A id, list :
              CallUnregisterModule(t, id) \/ UpdateProperties(t, id, list) => Quiet
         /\ \A t \in Thread : UpdatePropertiesReturns(t) => Quiet
         /\ \A r, json : ProcessJSRequest(r, json) => Quiet
         /\ \A r : RequestReturns(r) => Quiet
<1> USE DEF Outside, InCallback, instance, started, callers, promises
<1>0. Tasks' = Tasks \/ (\E task : task.op # "DoRegisterModule" /\ Tasks' = Tasks \cup {task})
        => \A task \in Tasks' : task \in Tasks \/ task.op # "DoRegisterModule"
  OBVIOUS
<1>1. UNCHANGED loop => UNCHANGED Tasks
  BY DEF Tasks
<1>2. ASSUME UNCHANGED vars \/ CallbackReturns PROVE Quiet
  BY <1>1, <1>2 DEF CallbackReturns, Quiet, vars
<1>3. ASSUME ProxyInitialized(TRUE) PROVE Quiet
  <2>1. Tasks' = Tasks \cup {[op |-> "OnProxyInitialized", host |-> TRUE]}
    BY <1>3, PostedTasks DEF ProxyInitialized
  <2> QED BY <1>3, <2>1 DEF ProxyInitialized, Quiet
<1>4. ASSUME NEW t \in Thread, NEW id, NEW list, CallUnregisterModule(t, id)
      PROVE  Quiet
  <2>1. Tasks' = Tasks \cup {[op |-> "UnregisterModule", id |-> id]}
    BY <1>4, PostedTasks DEF CallUnregisterModule
  <2> QED BY <1>4, <2>1 DEF CallUnregisterModule, Quiet
<1>5. ASSUME NEW t \in Thread, NEW id, NEW list, UpdateProperties(t, id, list)
      PROVE  Quiet
  <2>1. Tasks' = Tasks \cup {[op |-> "SavePropertiesList", id |-> id, properties |-> list]}
    BY <1>5, PostedTasks DEF UpdateProperties
  <2>2. \A u \in Thread : app'[u].at = "registering" => app[u].at = "registering"
    BY <1>5 DEF UpdateProperties, TypeOK, CallersTypeOK
  <2> QED BY <1>5, <2>1, <2>2 DEF UpdateProperties, Quiet
<1>6. ASSUME NEW t \in Thread, UpdatePropertiesReturns(t)
      PROVE  Quiet
  <2>1. Tasks' = Tasks \cup {[op  |-> "HandleMessage",
                              msg |-> CreatePropertyUpdated(app[t].id, app[t].properties)]}
    BY <1>6, PostedTasks DEF UpdatePropertiesReturns
  <2>2. \A u \in Thread : app'[u].at = "registering" => app[u].at = "registering"
    BY <1>6 DEF UpdatePropertiesReturns, TypeOK, CallersTypeOK, Idle
  <2> QED BY <1>6, <2>1, <2>2 DEF UpdatePropertiesReturns, Quiet
<1>7. ASSUME NEW r, NEW json, ProcessJSRequest(r, json)
      PROVE  Quiet
  <2>1. \/ UNCHANGED loop
        \/ Tasks' = Tasks \cup {[op |-> "DoProcessJSRequest", json |-> json, to |-> r]}
    BY <1>7, PostedTasks DEF ProcessJSRequest
  <2>2. UNCHANGED <<idCounter, idPromise, app>>
    BY <1>7 DEF ProcessJSRequest
  <2> QED BY <1>1, <2>1, <2>2 DEF Quiet
<1>8. ASSUME NEW r, RequestReturns(r)
      PROVE  Quiet
  BY <1>1, <1>8 DEF RequestReturns, Quiet
<1> QED BY <1>2, <1>3, <1>4, <1>5, <1>6, <1>7, <1>8

\* A quiet step keeps the map, also when it is the one that puts an object in it.
LEMMA QuietKeeps ==
  ASSUME JavaTypeOK, Waited, OnePut, IdsPut, Quiet,
         UNCHANGED java \/ \E t \in Thread : modulesPut(t)
  PROVE  Waited' /\ OnePut' /\ IdsPut'
<1>1. Waited'
  BY DEF Waited, Quiet
<1>2. CASE UNCHANGED java
  BY <1>1, <1>2 DEF OnePut, IdsPut, Ids, Early, Quiet, java
<1>3. ASSUME NEW t \in Thread, modulesPut(t)
      PROVE  OnePut' /\ IdsPut'
  <2>1. /\ objects' = objects \cup putting[t]
        /\ \A u \in Thread : putting'[u] = IF u = t THEN {} ELSE putting[u]
    BY <1>3 DEF modulesPut, JavaTypeOK
  <2>2. OnePut'
    BY <2>1 DEF OnePut, Quiet
  <2>3. IdsPut'
    BY <2>1 DEF IdsPut, Ids, Early, Quiet
  <2> QED BY <2>2, <2>3
<1> QED BY <1>1, <1>2, <1>3

\* DoRegisterModule gives the id to the thread that waits for it.
LEMMA GivesId ==
  ASSUME TypeOK, MapInv, DoRegisterModule, UNCHANGED <<app, java>>
  PROVE  Waited' /\ OnePut' /\ IdsPut'
<1>0. RegistrationsAccounted /\ Waited /\ OnePut /\ IdsPut
  BY DEF MapInv
<1>1. /\ loop # <<>> /\ loop' = Tail(loop) /\ Head(loop) \in Task
      /\ Head(loop).op = "DoRegisterModule"
  BY TakesType DEF DoRegisterModule, Takes
<1>2. Tasks = {Head(loop)} \cup Tasks'
  BY <1>1, TasksOf
<1>3. PICK t \in Head(loop).to : t \in Thread
  <2>1. Head(loop).to # {} /\ Head(loop).to \subseteq Thread
    BY <1>0, <1>1, <1>2 DEF Waited, Task
  <2> QED BY <2>1
<1>4. /\ idCounter' = idCounter + 1 /\ idCounter \in Nat
      /\ \A u \in Thread : idPromise'[u] = IF u \in Head(loop).to THEN {idCounter} ELSE idPromise[u]
  <2>1. RunTask
    BY DEF RunTask
  <2> QED BY <2>1, TaskModules DEF TypeOK, ModulesTypeOK
\* the thread it is given to had no other id
<1>5. \A u \in Thread : u \in Head(loop).to => idPromise[u] = {}
  <2>1. ASSUME NEW u \in Thread, u \in Head(loop).to
        PROVE  idPromise[u] = {}
    <3>1. AtMostOne(RegistrationsOf(u)) /\ (idPromise[u] # {} => RegistrationsOf(u) = {})
      BY <1>0, AccountedForAll DEF Accounted
    <3>2. Head(loop) \in RegisterTasks(u)
      BY <1>1, <2>1 DEF RegisterTasks
    <3> QED BY <3>1, <3>2, TakeRegistrations DEF DoRegisterModule
  <2> QED BY <2>1
<1>6. IdsPut'
  <2>1. \A id \in Ids' : id \in Ids \/ id = idCounter
    BY <1>4 DEF Ids
  <2>2. ASSUME NEW id \in Ids
        PROVE  id \in objects' \/ Early(id)'
    BY <1>0, <1>4, <1>5 DEF IdsPut, Early, java
  <2>3. ASSUME NEW id \in Ids'
        PROVE  id \in objects' \/ Early(id)'
    <3>1. CASE id \in Ids
      BY <2>2, <3>1
    <3>2. CASE id = idCounter
      <4>1. id \in idPromise'[t]
        BY <1>3, <1>4, <3>2
      <4> QED BY <1>3, <4>1 DEF Early
    <3> QED BY <2>1, <3>1, <3>2
  <2> QED BY <2>3 DEF IdsPut
<1> QED BY <1>0, <1>2, <1>6 DEF Waited, OnePut, java

\* registerModule asks for an id and later takes it to its map.
LEMMA AsksAndTakes ==
  ASSUME TypeOK, JavaTypeOK, MapInv, NEW t \in Thread,
         \/ \E module \in Definition : registerModule(t, module)
         \/ Registered(t)
  PROVE  Waited' /\ OnePut' /\ IdsPut'
<1>0. /\ RegistrationsAccounted /\ Waited /\ OnePut /\ IdsPut
      /\ putting \in [Thread -> SUBSET Nat] /\ app \in [Thread -> Call]
      /\ idPromise \in [Thread -> SUBSET Nat]
  BY DEF MapInv, TypeOK, CallersTypeOK, JavaTypeOK
<1>1. ASSUME NEW module \in Definition, registerModule(t, module)
      PROVE  Waited' /\ OnePut' /\ IdsPut'
  <2>1. /\ putting[t] = {} /\ RegisterModule(t, module) /\ UNCHANGED java
    BY <1>1 DEF registerModule, May
  <2>2. Tasks' = Tasks \cup {[op |-> "DoRegisterModule", module |-> module, to |-> {t}]}
    BY <2>1, PostedTasks DEF RegisterModule
  <2>3. Waited'
    BY <1>0, <2>2 DEF Waited
  <2>4. /\ UNCHANGED <<idCounter, idPromise>>
        /\ \A u \in Thread : u # t => app'[u] = app[u]
    BY <1>0, <2>1 DEF RegisterModule, Outside, instance, started, promises
  <2> QED BY <1>0, <2>1, <2>3, <2>4 DEF OnePut, IdsPut, Ids, Early, java
<1>2. ASSUME Registered(t)
      PROVE  Waited' /\ OnePut' /\ IdsPut'
  <2>1. /\ UNCHANGED <<loop, idCounter, objects>> /\ app[t].at = "registering"
        /\ \A u \in Thread : app'[u] = IF u = t THEN Idle ELSE app[u]
        /\ \A u \in Thread : idPromise'[u] = IF u = t THEN {} ELSE idPromise[u]
        /\ \A u \in Thread : putting'[u] = IF u = t THEN idPromise[t] ELSE putting[u]
    BY <1>0, <1>2 DEF Registered, RegisterReturns, Outside, instance, started
  <2>2. putting[t] = {}
    BY <1>0, <2>1 DEF OnePut
  <2>3. OnePut'
    BY <1>0, <2>1 DEF OnePut, Idle
  <2>4. IdsPut'
    BY <1>0, <2>1, <2>2 DEF IdsPut, Ids, Early
  <2> QED BY <1>0, <2>1, <2>3, <2>4 DEF Waited, Tasks
<1> QED BY <1>1, <1>2

\* A callback is of a module with an id.
LEMMA PassesKnown ==
  ASSUME TypeOK, RunTask, running'.at = "callback"
  PROVE  Head(loop).json.id \in Ids /\ Ids' = Ids
<1>1. ASSUME NEW json, NEW to, json \in ApplyMsg, running.at = "idle",
             PassPropertyUpdateToModule(json, to)
      PROVE  json.id \in Ids
  <2>1. FindId(json) = json.id
    BY <1>1 DEF ApplyMsg, FindId
  <2>2. FindId(json) \in DOMAIN modules
    BY <1>1 DEF PassPropertyUpdateToModule
  <2> QED BY <2>1, <2>2 DEF TypeOK, ModulesTypeOK, Ids
<1>2. Head(loop).json \in ApplyMsg
  BY PassesAnUpdate
<1>3. running = Idle
  BY DEF RunTask, OnProxyInitialized, DoRegisterModule, UnregisterModule, SaveUpdate,
         PushUpdate, DoProcessJSRequest, PassPeerUpdate, Takes
<1>4. CASE PassPeerUpdate
  BY <1>1, <1>2, <1>3, <1>4 DEF PassPeerUpdate, Ids, started, Idle
<1>5. CASE DoProcessJSRequest
  <2>1. Head(loop).json.type = "apply"
    BY <1>2 DEF ApplyMsg
  <2> QED BY <1>1, <1>2, <1>3, <1>5, <2>1 DEF DoProcessJSRequest, Ids, started, Idle
<1>6. CASE ~PassPeerUpdate /\ ~DoProcessJSRequest
  <2>1. running' = running
    BY <1>6 DEF RunTask, OnProxyInitialized, DoRegisterModule, UnregisterModule, SaveUpdate,
                PushUpdate
  <2> QED BY <1>3, <2>1 DEF Idle
<1> QED BY <1>4, <1>5, <1>6

\* The ids given out stay ids.
LEMMA IdsGrow ==
  ASSUME TypeOK, JavaTypeOK, [JniNext]_jniVars
  PROVE  Ids \subseteq Ids'
<1>1. idCounter' = idCounter \/ idCounter' = idCounter + 1
  <2>1. CASE RunTask
    BY <2>1, TaskModules
  <2>2. CASE ~RunTask
    BY <2>2, JniStepIsOpen
       DEF OpenNext, Crashes, CallbackUpdates, CallbackUnregisters, CallbackRegisters,
           CallbackReturns, InCallback, ProxyInitialized, ProxyReads, RegisterModule,
           RegisterReturns, CallUnregisterModule, UpdateProperties, UpdatePropertiesReturns,
           ProcessJSRequest, RequestReturns, Outside, instance, started, vars
  <2> QED BY <2>1, <2>2
<1>2. idCounter \in Nat
  BY DEF TypeOK, ModulesTypeOK
<1> QED BY <1>1, <1>2 DEF Ids

\* What is on its way to Java is what was passed (JniGlue.cpp:94-130).
LEMMA KnownStep ==
  ASSUME JniInv, UpdatesKnown, [JniNext]_jniVars
  PROVE  UpdatesKnown'
<1>0. /\ TypeOK /\ InHand /\ GlueTypeOK /\ JavaTypeOK
      /\ collector \in Seq(ApplyMsg) /\ pending \in Seq(ApplyMsg) /\ passed \in Seq(ApplyMsg)
  BY DEF JniInv, GlueTypeOK, JavaTypeOK
<1>1. \A updates : Known(updates) => \A u \in Range(updates) : u.id \in Ids'
  BY <1>0, IdsGrow DEF Known
<1>2. /\ \A u \in Range(passed) : u.id \in Ids'
      /\ \A u \in Range(collector) : u.id \in Ids'
      /\ \A u \in Range(pending) : u.id \in Ids'
  BY <1>1 DEF UpdatesKnown
<1>3. ASSUME Runs PROVE UpdatesKnown'
  <2>1. CASE running'.at = "callback"
    <3> DEFINE x == Head(loop).json
    <3>1. x \in ApplyMsg /\ x.id \in Ids'
      BY <1>0, <1>3, <2>1, PassesAnUpdate, PassesKnown DEF Runs
    <3>2. passed' = Append(passed, x) /\ UNCHANGED <<collector, pending>>
      BY <1>3, <2>1 DEF Runs
    <3> HIDE DEF x
    <3>3. Range(passed') = Range(passed) \cup {x}
      BY <1>0, <3>1, <3>2, MembersOf
    <3> QED BY <1>2, <3>1, <3>2, <3>3 DEF UpdatesKnown, Known
  <2>2. CASE running'.at # "callback"
    BY <1>2, <1>3, <2>2 DEF Runs, UpdatesKnown, Known
  <2> QED BY <2>1, <2>2
<1>4. ASSUME Add PROVE UpdatesKnown'
  <2> DEFINE x == passed[Len(passed)]
  <2>1. collector' = Append(collector, x) /\ UNCHANGED <<passed, pending>> /\ passed # <<>>
    BY <1>0, <1>4 DEF Add, InHand, told
  <2>2. x \in ApplyMsg /\ x \in Range(passed)
    <3>1. Len(passed) \in Nat /\ DOMAIN passed = 1..Len(passed) /\ Len(passed) # 0
      BY <1>0, <2>1, LenProperties, EmptySeq
    <3> QED BY <1>0, <2>1, <3>1, SplitLast DEF Range
  <2> HIDE DEF x
  <2>3. Range(collector') = Range(collector) \cup {x}
    BY <1>0, <2>1, <2>2, MembersOf
  <2> QED BY <1>2, <2>1, <2>2, <2>3 DEF UpdatesKnown, Known
<1>5. ASSUME Collects PROVE UpdatesKnown'
  <2>1. pending' = collector /\ collector' = <<>> /\ UNCHANGED passed
    BY <1>5 DEF Collects, told
  <2>2. \A x : x \notin Range(<<>>)
    <3>1. <<>> \in Seq(ApplyMsg) /\ Len(<<>>) = 0
      BY EmptySeq
    <3>2. DOMAIN <<>> = 1..0
      BY <3>1, LenProperties
    <3> QED BY <3>2 DEF Range
  <2> QED BY <1>2, <2>1, <2>2 DEF UpdatesKnown, Known
<1>6. ASSUME CallsJava \/ JavaReturns PROVE UpdatesKnown'
  <2>1. /\ pending # <<>> /\ UNCHANGED <<passed, collector>>
        /\ pending' \in {pending, Tail(pending)}
    BY <1>0, <1>6 DEF CallsJava, JavaReturns, InHand
  <2>2. Range(pending) = {Head(pending)} \cup Range(Tail(pending))
    BY <1>0, <2>1, MembersOf
  <2>3. \A u \in Range(pending') : u \in Range(pending)
    BY <2>1, <2>2
  <2> QED BY <1>2, <2>1, <2>3 DEF UpdatesKnown, Known
<1>7. CASE UNCHANGED <<passed, collector, pending>>
  BY <1>2, <1>7 DEF UpdatesKnown, Known
<1> QED BY <1>3, <1>4, <1>5, <1>6, <1>7
        DEF JniNext, Notify, Wakes, Unlocks, Still, registerModule, Registered, modulesPut,
            unregisterModule, updateProperties, Updated, PageApplies, jniVars, glue, told

LEMMA MapStep == JniInv /\ MapInv /\ [JniNext]_jniVars => MapInv'
<1> SUFFICES ASSUME JniInv, MapInv, [JniNext]_jniVars PROVE MapInv'
  OBVIOUS
<1>0. /\ TypeOK /\ JavaTypeOK /\ RegistrationsAccounted
      /\ Waited /\ OnePut /\ IdsPut /\ UpdatesKnown /\ (thrown <=> lost # {})
  BY DEF JniInv, MapInv
<1>1. RegistrationsAccounted'
  BY <1>0, JniStepIsOpen, RegistrationsStep, CrashKeeps
<1>2. UpdatesKnown'
  BY <1>0, KnownStep
<1>3. (thrown <=> lost # {})'
  <2>1. CASE CallsJava
    BY <1>0, <2>1 DEF CallsJava
  <2>2. CASE UNCHANGED <<thrown, lost>>
    BY <1>0, <2>2
  <2> QED BY <2>1, <2>2
          DEF JniNext, Runs, Add, Notify, Wakes, Collects, JavaReturns, Unlocks, Still,
              registerModule, Registered, modulesPut, unregisterModule, updateProperties,
              Updated, PageApplies, jniVars, glue, told
<1>4. Waited' /\ OnePut' /\ IdsPut'
  <2>1. CASE Runs
    <3>1. RunTask /\ UNCHANGED java
      BY <2>1 DEF Runs
    <3> QED BY <1>0, <3>1, TaskQuiet, GivesId, QuietKeeps
  <2>2. ASSUME NEW t \in Thread,
               (\E module \in Definition : registerModule(t, module)) \/ Registered(t)
        PROVE  Waited' /\ OnePut' /\ IdsPut'
    BY <1>0, <2>2, AsksAndTakes
  <2>3. CASE CallsJava
    <3>1. UNCHANGED <<loop, idCounter, idPromise, app, java>>
      BY <2>3 DEF CallsJava, vars, instance, started, callers, promises
    <3>2. Quiet
      BY <3>1 DEF Quiet, Tasks
    <3> QED BY <1>0, <3>1, <3>2, QuietKeeps
  <2>4. CASE Notify \/ (ProxyInitialized(TRUE) /\ Still) \/ Add \/ Wakes \/ Collects
               \/ JavaReturns \/ Unlocks \/ UNCHANGED jniVars
    <3>1. UNCHANGED java /\ (UNCHANGED vars \/ CallbackReturns \/ ProxyInitialized(TRUE))
      BY <2>4 DEF Notify, Still, Add, Wakes, Collects, JavaReturns, Unlocks, jniVars
    <3> QED BY <1>0, <3>1, OthersQuiet, QuietKeeps
  <2>5. ASSUME NEW t \in Thread,
               \/ modulesPut(t)
               \/ \E id \in objects : unregisterModule(t, id)
               \/ \E id \in objects, list \in UpdateList : updateProperties(t, id, list)
               \/ Updated(t)
        PROVE  Waited' /\ OnePut' /\ IdsPut'
    <3>1. CASE modulesPut(t)
      BY <1>0, <3>1, OthersQuiet, QuietKeeps DEF modulesPut
    <3>2. CASE ~modulesPut(t)
      BY <1>0, <2>5, <3>2, OthersQuiet, QuietKeeps
         DEF unregisterModule, updateProperties, Updated
    <3> QED BY <3>1, <3>2
  <2>6. ASSUME NEW r \in Requester,
               \/ \E id \in DOMAIN modules, list \in UpdateList : PageApplies(r, id, list)
               \/ RequestReturns(r) /\ Still
        PROVE  Waited' /\ OnePut' /\ IdsPut'
    BY <1>0, <2>6, OthersQuiet, QuietKeeps DEF PageApplies, Still
  <2> QED BY <2>1, <2>2, <2>3, <2>4, <2>5, <2>6 DEF JniNext
<1> QED BY <1>1, <1>2, <1>3, <1>4 DEF MapInv

LEMMA MapInit == JniInit => MapInv
<1> SUFFICES ASSUME JniInit PROVE MapInv
  OBVIOUS
<1>1. Tasks = {}
  BY NoTasks DEF JniInit, Init
<1>2. RegistrationsAccounted
  BY DEF JniInit, Init, RegistrationsAccounted, RegistrationsOf, Idle
<1>3. \A x : x \notin Range(<<>>)
  BY NoTasks DEF Tasks, JniInit, Init
<1> QED BY <1>1, <1>2, <1>3
        DEF JniInit, Init, MapInv, Waited, OnePut, IdsPut, Ids, UpdatesKnown, Known, Idle

-----------------------------------------------------------------------------
(* The theorems.                                                           *)

LEMMA JniInvariant == JniSpec => []JniInv
BY JniInvInit, JniInvStep, PTL DEF JniSpec

\* The message thread calls Java for every update the callbacks were passed, once and in
\* order, whatever the threads of Java, the objects and the pages do meanwhile, and also
\* after an exception; which of the calls reach no object is LostOnlyEarly
\* (JniGlue.cpp:94-130, MsgThread.cpp:39-59).
THEOREM UpdatesInOrder == JniSpec => []InOrder
<1>1. JniInv => InOrder
  BY DEF JniInv
<1> QED BY <1>1, JniInvariant, PTL

\* An update is lost, the first time, only while registerModule of its module is between
\* the id and modules.put; every other module the instance has given an id has its
\* object in the map, unregistered or not (SacsWrapper.java:91-118).
THEOREM EarlyLost == JniSpec => LostOnlyEarly
<1>1. JniInv /\ MapInv /\ [JniNext]_jniVars
        => [lost = {} /\ lost' # {} => Early(Head(pending).id)]_jniVars
  <2> SUFFICES ASSUME JniInv, MapInv, [JniNext]_jniVars, lost = {}, lost' # {}
               PROVE  Early(Head(pending).id)
    OBVIOUS
  <2>1. CallsJava
    BY DEF JniNext, Runs, Add, Notify, Wakes, Collects, JavaReturns, Unlocks, Still,
           registerModule, Registered, modulesPut, unregisterModule, updateProperties,
           Updated, PageApplies, jniVars, told
  <2>2. Head(pending).id \notin objects /\ pending # <<>>
    BY <2>1 DEF CallsJava, MapInv
  <2>3. Head(pending) \in Range(pending)
    <3>1. pending \in Seq(ApplyMsg)
      BY DEF JniInv, GlueTypeOK
    <3> QED BY <2>2, <3>1, MembersOf
  <2>4. Head(pending).id \in Ids
    BY <2>3 DEF MapInv, UpdatesKnown, Known
  <2> QED BY <2>2, <2>4 DEF MapInv, IdsPut
<1>2. JniSpec => []MapInv
  BY MapInit, MapStep, JniInvariant, PTL DEF JniSpec
<1> QED BY <1>1, <1>2, JniInvariant, PTL DEF JniSpec, LostOnlyEarly

\* An update in the collector will be collected: _is_ready is up, or the module thread
\* is about to raise it, or the message thread has woken and not collected yet
\* (MsgThread.cpp:39-59).
THEOREM WakeUpsKept == JniSpec => []NoLostWakeUp
<1>1. JniInit => NoLostWakeUp
  BY DEF JniInit, NoLostWakeUp
<1>2. NoLostWakeUp /\ [JniNext]_jniVars => NoLostWakeUp'
  <2> SUFFICES ASSUME NoLostWakeUp, [JniNext]_jniVars PROVE NoLostWakeUp'
    OBVIOUS
  <2>1. CASE Runs \/ Add \/ Notify
    BY <2>1 DEF Runs, Add, Notify, Free, NoLostWakeUp
  <2>2. CASE Wakes \/ Collects \/ CallsJava \/ JavaReturns \/ Unlocks
    BY <2>2 DEF Wakes, Collects, CallsJava, JavaReturns, Unlocks, NoLostWakeUp
  <2>3. CASE UNCHANGED glue
    BY <2>3 DEF glue, NoLostWakeUp
  <2> QED BY <2>1, <2>2, <2>3
        DEF JniNext, Still, registerModule, Registered, modulesPut, unregisterModule,
            updateProperties, Updated, PageApplies, jniVars
<1> QED BY <1>1, <1>2, PTL DEF JniSpec

\* In the process of the glue, with its crash in the middle of a call into Java, every
\* blocked registerModule and every waiting page still has exactly one thing that ends
\* its wait (ModuleManager.cpp:109-130,182-210).
THEOREM JavaCallsAccounted == JniSpec => [](RegistrationsAccounted /\ RequestsAccounted)
<1> DEFINE Both == RegistrationsAccounted /\ RequestsAccounted
<1>1. JniInit => Both
  BY DEF JniInit, Init, RegistrationsAccounted, RegistrationsOf, RequestsAccounted,
         RequestsOf, Answering, Idle
<1>2. JniInv /\ Both /\ [JniNext]_jniVars => Both'
  BY JniStepIsOpen, RegistrationsStep, RequestsStep, CrashKeeps DEF JniInv
<1> QED BY <1>1, <1>2, JniInvariant, PTL DEF JniSpec
=============================================================================
