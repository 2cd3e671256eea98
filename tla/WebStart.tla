------------------------------ MODULE WebStart ------------------------------
(***************************************************************************)
(* WebPage with OnProxyInitialized of the host in its parts.  The port is  *)
(* open as soon as WebsocketServer::Init returns (ModuleManager.cpp:69),   *)
(* and the messages queued until then are pushed one after the other: a    *)
(* page may connect before all of them, or some, have gone out.  The       *)
(* module thread is inside the task meanwhile: it stays the first one.     *)
(***************************************************************************)
EXTENDS WebPage

\* The module thread has taken OnProxyInitialized of a host.
InsideInitialized ==
  /\ running = Idle
  /\ loop # <<>> /\ Head(loop) = [op |-> "OnProxyInitialized", host |-> TRUE]

\* _server_impl is made and the port is opened.
Listens ==
  /\ InsideInitialized /\ ~serverImpl
  /\ serverImpl' = TRUE
  /\ out' = Silent
  /\ UNCHANGED <<loop, running, modules, idCounter, initialized, msgQueue, proxy,
                 callers, promises>>
  /\ Still

\* Faulty variant of Unqueued: the message queued last goes out first.
UnqueuedLast == <<Last(msgQueue), Front(msgQueue)>>

\* The next message of the loop over _msg_queue, and the ones after it.
Unqueued == <<Head(msgQueue), Tail(msgQueue)>>

\* ServerImpl::PushMsgForJS, in that loop.
PushesQueued ==
  /\ InsideInitialized /\ serverImpl /\ msgQueue # <<>>
  /\ out' = Pushes(<<Unqueued[1]>>)
  /\ msgQueue' = Unqueued[2]
  /\ UNCHANGED <<loop, running, modules, started, proxy, callers, promises>>
  /\ PushMsgForJS(out'.pushed) /\ UNCHANGED <<listeners, socket, sent>>
  /\ Remembers(out'.pushed)
  /\ UNCHANGED <<browser, bounds, cut, loaded, several, written, applied>>

\* The task ends once the port is open and the queue is sent.
Ends == initialized' # initialized => serverImpl /\ msgQueue = <<>>

StartNext ==
  \/ Listens
  \/ PushesQueued
  \/ WebNext /\ Ends

StartSpec == PageInit /\ [][StartNext]_webVars
=============================================================================
