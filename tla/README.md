# SACS in TLA+

SACS is a library that gives a program a control page in the browser. The program
registers *modules*, lists of *properties*, and the page shows them; what a user
changes on the page is reported through the callback of the module, and what the
program changes appears on the page. Several programs on one machine share one page:
the first one started is the *host*, the others connect to it.

This directory holds TLA+ models of the library, the TLC configurations that check them
on small instances, and proofs checked by TLAPS. Sources are named relative to the
repository.

## The system

| component | state | operations | talks to |
|---|---|---|---|
| ModuleManager (`ModuleManager.cpp`) | `_modules`, `_id_counter`, `_initialized`, `_msg_queue`, the queue of `_thread_loop` | RegisterModule, UnregisterModule, UpdateProperties, ProcessJSRequest, PassPropertyUpdateToModule, OnProxyInitialized, HandleMessage | application (calls, callbacks), ServerImpl, Proxy |
| Module (`Module.cpp`) | properties with type, value, read_only; callback | SetPropertyValue | ModuleManager |
| JsonMsg (`JsonMsg.cpp`) | none | builds and reads messages | all |
| Proxy (`Proxy.cpp`) | `_client` or `_server`, `_initialized` | the first connection, reading from the host, sending to it | ModuleManager, ProxyServer |
| ProxyServer (`ProxyServer.cpp`) | `_remote_modules` | OnClientRead, OnClientClosed, HandlePropertyUpdate | ModuleManager of the host, Proxy of others |
| ServerImpl (`ServerImpl.cpp`) | `_event_listeners` | web socket connects, asks, closes; PushMsgForJS | ModuleManager, page |
| Web page (`webapp/`) | modules and their fields, buttons and selection, the container, the socket made last, the countdown | onMessage, onConnected, onDisconnected, reconnect, select, write, apply | ServerImpl |
| Android wrapper (`wrappers/android`) | collector, `_is_ready`, `_condition_mutex`, the Java map `modules` | Callback, Notify, OnThreadStarted, registerModule | ModuleManager, Java code |
| C interface, C++ wrappers, resources | none | conversions | ModuleManager |

Threads: the application's; the *module thread*, on which a ModuleManager runs every
task and every callback; the threads of the network and of web sockets; on Android,
the message thread. All of them meet in one queue, `_thread_loop`.

What is hard in it:

- operations off the module thread are one post, or two (UpdateProperties), or a post
  and a wait (RegisterModule, ProcessJSRequest); calls from a callback run inline;
- messages made before the first connection has an outcome are queued and flushed;
- responses to requests are sent by another thread than pushes;
- an instance can end at any moment, with a registration on its behalf in progress;
- which process is the host is decided by two ports and no agreement: processes start
  together, a host ends and another process takes its place;
- the page has modules by id and objects by identity, and the two come apart when an id is
  added twice; a user goes on writing while changes arrive;
- callbacks may call back into the library, on the thread that waits for nobody else.

## Modules

    Module            properties and what an update does to them
    JsonMsg           the messages                                    EXTENDS Module
    ModuleManager     one instance with its Proxy, open to any caller EXTENDS JsonMsg
    WebApp            what the page makes of messages (no state)      EXTENDS JsonMsg
    Registry          what an instance promises, with no queue
    Application       an instance, its application, one page;
                      proved to implement Registry                    EXTENDS ModuleManager, WebApp
    WebServer         the web server of the host, and its sockets     EXTENDS ModuleManager
    WebPage           a page that makes sockets to it, and its user   EXTENDS WebServer, WebApp
    WebStart          WebPage, with the start of the host in its parts  EXTENDS WebPage
    ProxyServer       the host with other instances                   EXTENDS ModuleManager
    JniGlue           an instance used from Java                      EXTENDS ModuleManager
    Startup           several processes that start and end
    MC...             constants for TLC

    ModuleManagerProof                                                the instance
    WebAppProof                                                       the functions of the page
    ApplicationProof, WebPageProof, ProxyServerProof,
    JniGlueProof, StartupProof                                        the compositions
    RegistryProof                                                     the refinement; one writer

`ModuleManager` is the core. Its next-state relation lets any thread call any operation
with any id at any time, so what is proved of it holds of every composition. The others
extend it: they conjoin its actions with their own and say who calls what.
`Application`, `WebPage`, `ProxyServer` and `JniGlue` are four different environments of
the same instance. `Startup` stands apart: it has several whole processes, each with only
what the choice of a host and the way of a module to the page depend on; a call and the task
it posts, which `ModuleManager` has apart, are one step there.

How the state corresponds to the code:

- `loop` is the queue of `_thread_loop`; a task is a record named after the function
  bound to it. One action per task; each takes the head of the queue and does what the
  function does on the module thread, to its end or to the callback it calls.
- `running` is what the module thread is in the middle of: nothing, a callback, or the
  wait of a RegisterModule called from a callback. `Crashed` is the end of the process.
- `app[t]` is the call a thread is inside. UpdateProperties is the post of the save
  (`UpdateProperties`) and the post of the push (`UpdatePropertiesReturns`).
- `idPromise[t]` and `answer[r]` are the promises, as sets with at most one value.
- `out` is what the last step gave to PushMsgForJS or to ProxyServer; a module above
  hands it on in the same step, as the call in the code does.
- `initialized`, `msgQueue`, `serverImpl`, `proxy`: the members of the same names.
- `WebServer`: `sent[r]` outlives the socket for the page: what it sent before it closed may
  still be read, until the server notices (`OnWsClientClosed`). `inbox[r]` is what
  `client->Send` was given for a socket, in order, by the module thread (`PushMsgForJS`) or by
  the thread of the socket (`Responds`). A socket is
  accepted by the server (`OnWsClientConnected`) before the page can use it
  (`OnConnected`), and closed for the page before the server notices.
- `WebPage`: `websocket` is `Messenger.websocket`, the socket the page made last; sockets
  made before it live on and call the same handlers. `info` and `timer` are the
  ReconnectInfo and its timeout; its seconds are left out, so that it may end at any time.
- `WebApp`: a *field* is what a property looks like on the page, a type and a text. The
  text is a sequence of lines: a log has one for each message, others at most one. The
  functions are those of `module.js`, `properties.js` and `message.builder.js`: what a
  field makes of a value, what it sends, and with which control.
- `WebPage`, `selector`: the page keys modules by id and buttons by object. A second
  `crateModule` of an id makes a second object; the model calls the one the manager holds
  `<<id, "held">>` and one it has replaced `<<id, "old">>`. `buttons` is a bag of module ids,
  one copy for each button (`OnModulesAdded` adds those of a message), `current` is the
  selected object, `container` what is in the document. The user selects, writes in a field
  of the module in the container, applies, or uses the control of a field.
- `Registry`: two copies of the modules, what is stored and what the page shows, and a
  bag of the changes each has still to take. What storing and showing do to a copy are
  parameters (operators), for which `Application` has those of `Module` and `WebApp`. The
  refinement in `Application` reads the bag off the queue of the module thread (`Does`) and
  the calls halfway through UpdateProperties (`WillPost`), one copy of a change for each task
  and each thread (`LeftIn`); `shown` is the page once it has the messages of `_msg_queue`.
- `Startup`: `stage` is how far a process has come between SacsWrapper::Instance and
  OnProxyInitialized, `link` the connection of its `_client`, `proxyPort` and `httpPort`
  who listens at `port - 1` and `port`; a bind that fails changes nothing.
- `ProxyServer`: `remoteModules` is `_remote_modules`; `reading` is where the network
  thread is in OnClientRead or RemoveClientsModules; a peer is what a ModuleManager with
  one application thread shows to the host.
- `JniGlue`: `_condition_mutex` is held by the message thread whenever it is not waiting,
  so `Notify` is enabled only then. `handed` are the updates the thread is done with, `lost`
  those of them for which no object was called, `thrown` an exception nobody has looked at:
  what a call does while there is one is open, it may go through, do nothing, or end the
  process. A thread that cannot be attached to the Java machine ends before its first wait
  (`MsgThread.cpp:50-52`): `"ended"`.
- `WebStart`: OnProxyInitialized of a host opens the port (`Listens`), sends the messages of
  `_msg_queue` one by one (`PushesQueued`) and ends. Pages may connect between any two of
  these; the module thread runs nothing else meanwhile. The other modules make one step of
  it: what they speak of (`_modules`, the queue of tasks, what is pushed and in which order)
  is the same, and they have no page that could connect in between, but for
  `WebPage`. The run `web` checks `StartSpec`; the proofs are about `WebSpec`, whose states
  are states of `StartSpec` too (but for `out`): the steps of the start with nothing in between.

The definitions named after a fault (a comment says "Faulty variant of ...") are not part
of any specification. They are the mistakes the properties are there to notice; each
property is violated when one of them takes the place of the original.

Not in the repository, and modelled only by what its code relies on: the classes of the
submodule `common`. A thread loop runs posted tasks one at a time in the order posted,
also when they are posted from its own thread (otherwise the `OnDifferentThread` tests
before the posts would do nothing). A connection delivers in order. `GetClient` finds no
client that has closed. A process whose null pointer is used ends.

## Runs

All runs have bounds on the calls made, and stop when these are used up: deadlock is not
checked for that reason. Every bound is a named constant.

| run | instance | checks |
|---|---|---|
| `app` | host or not, 2 threads, 1 page, modules with and without callback, 3 calls, 2 requests, callbacks that use every operation | types, `RegistrationsAccounted`, `RequestsAccounted`, `PageShowsRegistry`, `SingleWriterAgrees`, `NoIdTwice`, `NoLateCallback`, and the refinement `ImplementsRegistry` |
| `web` | a host that opens its port and sends its queue in several steps, 1 thread, 1 page that makes 3 sockets, 2 of them at once, a module with a text, a log and a switch, 2 calls, 1 field written, 1 change sent | `TriesAgain`, `ConnectedPageLoads`, `AllModulesShown`, `ShownIsStored`, `OneButtonEach`, `SelectedShown`, `ReadOnlyKept` |
| `federation` | 2 other instances with 3 messages, also for modules they no longer have, 1 may end, 2 calls of the host's thread, before the others send anything, or of its page | `RightOwner`, `NoOrphans`, `HostFollowsOwner`, `LostPeersLeave` |
| `android` | 2 pages, 2 requests, a Java thread and the message thread, 2 calls | `InOrder`, `NoLostWakeUp`, `LostOnlyEarly`, `UpdatesArrive`, `RegisterReturnsAlways`, `RequestsAnswered` |
| `startup` | 3 processes with a module each, 2 of which may end | `HostHoldsAll`, `OneHost`, `ModulesGetToPage` |
| `two_writers`, `callback_registers`, `client_without_callback`, `tabs`, `apply_lost`, `android_registers`, `two_hosts` | the smallest instance that shows it | one promise of the documentation the code does not keep, see below |

Why the bounds are enough for what they are for: two threads are what it takes to
interleave the two posts of an update; three calls are a registration and two calls that
race on it; two requests of one page are one in a callback and one behind it; three
sockets, two at once, are a first one that closes and a countdown and a click that race for
the next, or a page that comes back while its former socket is being closed; two other
instances with three messages are two modules with the same id in both and a change of one
of them; two pages on Android keep the module thread in a callback while Java runs another;
three processes are a host that ends, one it leaves behind and one that takes its place, or
two that start together and one that comes later. In `web` the two sockets are
interchangeable (symmetry), and a user writes only while the page has its first socket: the
later ones are there for what connections do, and closing a socket makes the page forget
what was written.
A third of any of these adds copies of the same races. The update lists include one that
assigns a property twice and one that names a read-only property; the closed form
`SavedProperties` of the loop in SavePropertiesList is compared with the loop itself over
all lists up to length 3 in an assumption of `MCApplication`.

### What holds

- Whatever the order in which threads, callbacks, page and module thread take their steps,
  an instance does what `Registry` says: a module enters and leaves the store and the page
  at once and under an id of its own, each change reaches each copy exactly once, each list
  is what was stored at one moment.
- While a thread is blocked in RegisterModule, or a socket in ProcessJSRequest, there is
  exactly one thing that will wake it, and nothing is left over afterwards.
- The page shows the modules registered and no other, before, during and after the flush
  of the queue and for changes made from callbacks; and their values, if one writer
  (one thread, the callbacks, or the page) changes them.
- A request made after UnregisterModule returned does not reach the callback.
- A page that connects while everything moves ends up with every registered module,
  and with the stored values of all but those changed while its list was on its way; also
  when two of its sockets bring it the same changes at different speeds, and when it connects
  while the host is sending what was queued before it knew its role (`WebStart`).
- A page always has a socket, or a countdown that makes one, and a page whose only socket
  opens reads its list.
- The module selected on the page has a button and its fields are shown, and no other
  module's are, but those of an object the page has replaced; nothing typed in a read only
  field is ever stored. The latter is worth stating because the page lets a user type: the
  style sheet colours the field, nothing disables it.
- The host has each module of each other instance once, under the right owner, with the
  owner's values unless a page set them, and none of an instance that ended; an instance
  that unregisters or updates a module twice changes nothing (the id is then -1).
- With several processes, a host has its own modules and those of the processes connected
  to it, and no other, whatever was registered before the first connection had an outcome;
  and unless two processes found the port free at once, all processes that have not
  outlived their host are on one page, also after a host has ended and another took over.
- On Android every registration returns and every request is answered, though the module
  thread waits for Java; `callback_registers` and `android_registers` are the exceptions.
- On Android the message thread calls Java for every update once and in order; the first
  update that reaches no object is one of a module whose `registerModule` is still under way,
  so that without such an update, and with a message thread, each one reaches its object.

### What the code does not do

- `two_writers`: two threads in UpdateProperties can leave the page with one value and the
  store with the other. `SingleWriterAgrees` says when this cannot happen.
- `callback_registers`: RegisterModule from a callback blocks the module thread for good.
- `client_without_callback`: on an instance that is not the host, a change of a module
  without a callback ends the process.
- `tabs`: a module registered while a page connects has two tabs on it, and one of them
  stays for good. The run stops at the first way to break `OneTabPerModule`; there is a
  second, through the same hole: `ServerImpl::OnWsClientMessage` sends the list after
  `ProcessJSRequest` has made it (`ServerImpl.cpp:68`), so that a module unregistered in
  between is pushed as removed first, comes back with the list and stays. `AllModulesShown`,
  `OneButtonEach` and `ShownIsStored` say what holds all the same (`early` and `overtaken`
  are the modules in the two windows).
- `apply_lost`: a change made on the page before the host knows the owner is dropped.
- `android_registers`: registerModule from onPropertiesUpdated can block everything.
- `two_hosts`: two processes that start together both become hosts, one has the port, and
  the modules of the other are on no page; nothing reports it.

One more is part of a passing run. On Android a change of a module that is on the pages, and
that `registerModule` has not put in the Java map yet, is reported to no object:
`SacsWrapper.java:117` throws on the message thread, `JniGlue.cpp:124-129` looks at no
exception, and the thread goes on to wait. The process lives, the update is gone, and later
calls into Java are made with an exception pending, which is undefined. `android` has all of
this; `LostOnlyEarly` says that the first loss is one of these, and `UpdatesArrive` what
arrives before there is one.

`ConnectedPageLoads` and `OneButtonEach` exclude a page that had two sockets at once, and
without the exclusion they do not hold. `WebApp.onConnected` sends the request for the list
on the socket made last, whichever socket opened: when a countdown and a click make two and
only the first connects, the page hides its countdown and never asks for its modules; when
both connect, every push is read twice.

## Fairness

Safety is checked without fairness. The live specifications assume weak fairness of each
thread's own steps: the module thread goes on while the queue has a task (the loop of the
thread does nothing else), callbacks and Java objects return (a callback that does not
return blocks the library whatever it does), a thread whose promise is fulfilled returns
from its wait, the network thread reads what has arrived, and the first connection has an
outcome (`Starts`: connected, or refused). Weak fairness is enough: no step of one thread
disables a step of another for ever, except by blocking it, which is what is checked.
Nothing is assumed of applications, pages or other instances: they may stop at any time.
In `Startup` the start of a process goes on once begun, and a host reads what it was sent and
notices a link that broke; no process has to start, register or end.

## Proofs

Every theorem below holds for all values of the constants that satisfy the assumptions the
modules name: any sets of threads, sockets, modules, updates, processes and peers, and any
bounds on calls. The assumptions are these.

- `ConstantsAssumption` (`ModuleManager`): definitions and updates have the form JsonMsg
  builds, ids are integers.
- `ApplicationAssumption`, `WebPageAssumption`, `JniGlueAssumption`, `ProxyServerAssumption`,
  `StartupAssumption`: bounds are natural numbers, sets of outcomes are sets of booleans, the
  message thread and the network thread are threads, what a peer registers is a module, and
  what the user types is a value.
- `ApplicationAssumption` says besides that there is an id for each call the bound allows:
  the ids the model speaks of reach as far as `_id_counter` does.
- `WebAppAssumption`: "", "0" and "1" are values, because `properties.js` makes them itself.
- `TypedAssumption` (`WebPage`): the application does not itself use the text by which the
  model knows what a user has typed.
- `WritersAssumption` (`Application`): no thread has a name by which the model calls the
  callbacks or the page when it notes who has written a module.
- `UpdatesFit` (`ModuleManager`), which is a hypothesis of `SingleWriterSettles` and
  `PageShowsTheStore` and of nothing else: an update names properties each module has.
  `module.js:66` drops the rest of a list that names another, `Module.cpp:48` only the
  assignment; without it both are false, and one writer is enough to leave the page with
  another value than the store.
- `OneThread` (`WebPageProof`), a hypothesis of `PageShowsTheStore` alone: one thread of the
  application calls the library (from a callback nobody does in `WebPage`). Two can store
  their values in one order and push them in the other, which the run `two_writers` shows;
  the run `web` has one thread.

None of the assumptions makes a set finite, and TLC evaluates all of them on the runs; and
it evaluates `UpdatesFit` where the two properties are checked.

| module | theorem | of |
|---|---|---|
| `ModuleManagerProof` | `TypeCorrect`, `RegistrationsCorrect`, `RequestsCorrect` | `TypeOK`, `RegistrationsAccounted`, `RequestsAccounted` |
| `ApplicationProof` | `AppTypeCorrect`, `NoIdIsGivenTwice`, `NoCallbackIsLate`, `PageShowsWhatIsRegistered` | `AppTypeOK`, `NoIdTwice`, `NoLateCallback`, `PageShowsRegistry` |
| `RegistryProof` | `RegistryIsImplemented`, `SingleWriterSettles` | `ImplementsRegistry`, `SingleWriterAgrees` |
| `WebPageProof` | `AlwaysTriesAgain`, `EveryModuleIsShown`, `PageLoads` | `TriesAgain`, `AllModulesShown`, `ConnectedPageLoads` |
| | `SelectionIsShown`, `ModulesHaveOneButton`, `ReadOnlyValuesKept` | `SelectedShown`, `OneButtonEach`, `ReadOnlyKept` |
| | `PageShowsTheStore` | `ShownIsStored` |
| | `HostNeverCrashes` | no call ends the process of a host with pages |
| `ProxyServerProof` | `OwnersAreRight`, `NoneIsLeft`, `HostFollows` | `RightOwner`, `NoOrphans`, `HostFollowsOwner` |
| `JniGlueProof` | `UpdatesInOrder`, `EarlyLost`, `WakeUpsKept`, `JavaCallsAccounted` | `InOrder`, `LostOnlyEarly`, `NoLostWakeUp`, the accounting of promises on Android |
| `StartupProof` | `OneHostForAll`, `HostHoldsAllOf`, `PageShowsAll` | `OneHost`, `HostHoldsAll`, both together |

**The instance.** `TypeOK` is inductive as it stands. It says more than types: every
registered id is below the counter, from which it follows that DoRegisterModule never finds
its id taken. `RegistrationsAccounted` and `RequestsAccounted` are inductive together with
it: the right side of each equivalence counts the places in the queue where a promise is
kept, and the lemmas say how that set changes when a task is added at the end or taken from
the front (the places move down by one). That the place is unique is needed to show that
taking the task leaves none behind; that a place and a fulfilled promise exclude each other,
that returning leaves nothing behind.

**Compositions.** The instance is open: `OpenNext` lets anybody call anything. Each
composition has one lemma (`AppStepIsOpen`, `WebIsOpen`, `ProxyStepIsOpen`, `JniStepIsOpen`)
that its steps are such steps, and inherits the three theorems above. Two of them are where
the work is: the calls of an application use ids `TypeOK` must allow, and on Android the
process may crash in the middle of a step.

**The application.** `AppInv` adds to these where ids may be (`IdsInv`: with a thread,
released, in a callback, always below the counter, and a task has one promise), and
`LateInv`: the removal of a released module is in the queue before any request that was
posted after the release. `NoLateCallback` alone is not inductive, for it sees a request
only when it has reached the callback. `PageInv` says that the messages that wait and the
page are never both non-empty, and what the two make together. That the page then shows the
registered modules follows from one lemma on each task (`TaskShown`) and each call from a
callback (`CallShown`): what they push, folded over the page, is what they did to `_modules`.

**The refinement.** Each step of `Application` is one of `Registry` or changes nothing
`Registry` has. Three things are needed beyond `AppInv` and `PageInv`. The first is
arithmetic: the bag is a function from changes to counts, and the lemmas say that a post
adds to it what the task does, that taking the task makes one change less, and that the
second post of UpdateProperties only hands a change from the thread over to the queue
(`LeftPost`, `LeftTake`, `LeftUpdated`). That the counts are numbers needs that only so many
threads are inside UpdateProperties (`FewIn`), for the set of threads may be infinite. The
second is that a change still to be made is one somebody may ask for, and that a
registration for which no thread waits was posted by a callback, behind which no task runs
any more (`ChangesInv`): a module therefore always enters for a thread that has asked for it.
The third is that there are ids enough: the counter and the registrations still queued
together are at most the calls made (`CallsInv`). An update that is not passed, because its
module is gone or its list is empty, is a change that changes nothing (`SavedNothing`), and
the call of the `ProxyServer` that an instance does not have comes after the change is stored.

**One writer.** `SingleWriterAgrees` compares a stored value with the one shown when nothing
is on its way. The invariant says of every moment what they will be: `ComesTo` is the value
the last change still waiting gives a property, or what is there if none gives one, and
`Meets` says that the store, with the changes it has still to take, and the page, with those
it has, come to the same. A thread between the two posts of UpdateProperties is the last
of them for the page. The values meet as long as one writer alone has written the module
(`MeetInv`), for each of its changes reaches both in the order in which it was made. What
breaks this is a second writer only; `SourcesInv` says that a change that waits was made by
a writer, and not by a callback, whose calls take effect at once: a module nobody has written
is shown as it is stored, and one the callbacks alone have written too. `ShapesInv` says that
the page has a field for each property stored, so that it drops no assignment. No induction
over lists is needed beyond `FoldStays`: the last assignment of an update to a property
decides, in the store and on the page.

**The web page.** `TriesAgain` is inductive with the types of the sockets. `AllModulesShown`
is about a page with nothing on its way; the invariant says it of every moment. A list of
modules that was made, and not yet read, names every registered module that the page does
not show and that is not announced behind it in the inbox (`Covers`, in `ListsCover`); once
a list is read, every module is shown or announced (`LoadedCovers`). This needs that a
message in an inbox that takes a module away is about one that is gone, and whose id does not
come back (`Removals`), and that a socket gets what is pushed from before its request on
(`Listening`). `ConnectedPageLoads` needs that with one socket the request sent on opening is
on its way, in the queue, or answered, until the list is read (`Asked`, `OneSocket`).

What is selected is an invariant of the selector alone (`Selects`): each button stands for an
object, what is selected is in the container, and each module shown has a button. It needs of
the messages only that the ids of a list are natural numbers, so that one of them is the least.

`OneButtonEach` counts. Between the page and the server a module is told of in three places:
by a button, in the inbox of the socket, and in the list that is made and not yet sent; for
all but the modules in `early` it is in one of them, once (`ToldOnce`). A module is pushed
when it is registered, under an id no message yet has (`IdsGiven`), so the push adds a
second telling only if a list comes after it; and a list is made once for each socket
(`AsksOnce`): a socket that has sent its request, or has its list, sends no other.

`ReadOnlyKept` needs that the page knows the types. The fields of a module the page shows,
and those in every message that will show one, have the types the module is stored with, for
as long as it is stored (`KindsAgree`); ids below the counter do not come back, so this
survives messages about modules that are gone. A field the page can send is then one whose
property is not read only (`UserSpares`), and stays so until the request is a task
(`SparesReadOnly`), whatever is registered, removed or changed in between. With
`HostGoesOn` the only tasks that store what a page sends are those of its own requests.

`ShownIsStored` joins the argument of *One writer* to the sockets. A change reaches the page
through the queue and then through an inbox for each socket, which the page reads in any
order, besides a list that is made at one time and sent at another. The invariant does not
follow the changes. For each property no page has sent it names what may be shown now for
all to end well: the values from which the pushes in the queue lead to the value its stores
lead to (`Meeting`, `Comings`). While a push is due every value is one of these; once none
is, the stored value alone. Of every socket it says that what it brings last, and
the list made for it, are among them, unless a push overtook a list (`Brings`); and of the
page that what it shows is, once nothing on any socket is about the property (`Rests`). Only
the push of a value takes values from this set, and that push is then the last on every
socket that is connected, and one is if the page shows anything (`Connected`). So whichever
inbox is read last ends with a good value (`ShownStep`). The argument is the same for the
presence of a module, with the push of its removal for that of a value, and is made once for
both (`BringsStep`, `ShownStep`); `ValuesInv` and `ModulesInv` are its two instances. It
needs `UpdatesInv`, that an update waits for a module that has its properties, and
`AppliedInv`, that a request is of properties the page is known to have sent; and with one
thread a store is followed by its own push before there is another (`AllPassed`).

**The federation.** `RightOwner` and `NoOrphans` are about a map that is settled; the
invariant says where each module of a peer is at every moment: in `_remote_modules`, in the
promise the network thread waits for, or with its removal queued, and only one of these
(`Found`). `Announced` is what a peer has on its way, `Adding` that the module the network
thread is registering is the one it has read, `Owners` that an entry and the module it
stands for agree in what an update cannot change, `Closing` that while the modules of an
ended peer are removed nothing is added for it.

`HostFollowsOwner` compares what the host has with what a peer has, once everything is
settled. `FollowInv` says of every moment where a module of a connected peer is: announced
on the link, being added by the network thread, or entered, and in one of these only, for as
long as the peer has it; afterwards its removal is on the link (`Present`). A module is
announced once and before anything else is said of it (`Ordered`). `Follows` says the same
of the values: what the peer has is what the updates on the link, after those in the queue,
make of the value announced, being registered or stored, unless the page wrote it. The host
changes none of its own accord, and what it relays to a peer the page has written (`Told`).
With `PeerFollows` each step concerns one peer, and the lemmas say of each that it leaves
the others alone, or alone but for the queue.

**Android.** `InOrder` is inductive with the types and with `InHand`, what the module thread
and the message thread hold between two steps. It says that Java is called, not that an
object is: `EarlyLost` says when the first call goes astray. Its invariant is `MapInv`: every
id the instance has given out is in the Java map, which no id ever leaves, or with the thread
that is about to put it there, and an update on its way is of such an id.
`NoLostWakeUp` is inductive by itself, because the message thread has the lock whenever it is not waiting.

**Startup.** `PortsInv` says who holds a port: a listener is a host, a link leads to a host,
and without a race only one process has found the port free. `HoldsInv` follows a module
from `_modules` of its process over the queue and the wire to the host: the host holds it
once its announcement is read, and an announcement comes before what takes it back
(`Ordered`).

**Folds.** The page is a fold over messages, and a fold is a function defined by recursion.
The induction theorems of the library take an operator as a parameter and cannot be applied
here; `InductionOverNat` says the same of a set of numbers, and follows from the
well-foundedness of < on Nat. With it `FoldExists` shows that the recursion has a function
that satisfies it, `FoldSteps` what one more element does, and `FoldStays` what all of them
preserve. The lemmas of `WebAppProof` apply these to `onMessage` and to the
assignments in one update.

Only model-checked:

- The page that connects while the host starts (`WebStart`).
- Liveness: `UpdatesArrive`, `RegisterReturnsAlways`, `RequestsAnswered`, `LostPeersLeave`,
  `ModulesGetToPage`. They rest on fairness, and TLAPS has no ENABLED here.

Every safety invariant of the passing runs is stated by a theorem, those of `web` for pages
that connect once the host has sent its queue (`WebSpec`).

## Not modelled

- Names and layout of properties; texts of messages, and objects with missing or ill-typed
  keys. Property ids are natural numbers.
- A property of a type the library does not know (`module.js` leaves it out and shifts the
  ids of those behind it): only a caller of the C interface could make one.
- What a user does with the fields of a module object the page has replaced (`"old"`): it
  sends the same messages with the same id. What the code of a SCRIPT property does, except
  its value. A file of the page that fails to load.
- Serving of files over HTTP, which keeps no state.
- A call of the interface before the library is initialised, which answers -2
  (`SacsLib.cpp:48`): applications here start after `Init`.
- What is inside a data race: `_remote_modules` and the Java map are accessed atomically
  here. `SacsWrapper.getInstance` and `Init` of the Android wrapper, the count of its local
  references, the conversion of arrays, and the search for the library and its symbols.
- The end of `ModuleManager` itself: it lives as long as its process.
- `common`, the submodule with threads and connections, except by what the code relies on.

Three details of the page differ from what one might expect and are modelled as they are:
`onModuleRemoved` of an id the page does not know clears the container of a page without a
selection before it throws, for `undefined == null` (`module.selector.js:55`); a BUTTON
always sends "1", whatever value it was given; a LOG sends nothing but its last line
is what the store keeps, so a page that loads again shows one line.

## Plan

1. *Done:* all modules and runs above; the safety of the instance, of its composition with
   an application, with other instances, with Java and with other processes; of the page,
   which modules it shows, what is selected, how many buttons there are, and what it may
   change and what values it shows; the refinement of `Registry`; the values one writer
   leaves on the page, and those a host has of the modules of others.
2. The theorems of `WebPageProof` for `StartSpec`: what an inbox brings would have to be said
   of `_msg_queue` too, for as long as it is not sent.
3. `PageShowsTheStore` for several threads of which no two change the same module, as
   `SingleWriterSettles` has it: the model of the page would have to note who writes a module.
