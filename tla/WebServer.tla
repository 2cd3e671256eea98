----------------------------- MODULE WebServer ------------------------------
(***************************************************************************)
(* The web server of the host instance (ServerImpl.cpp).  A Requester is   *)
(* the web socket of a page.  What is pushed goes to every socket in       *)
(* _event_listeners; the answer to a request is sent by the thread of the  *)
(* socket, after it was computed on the module thread, and whatever is     *)
(* pushed in between goes out before it.                                   *)
(***************************************************************************)
EXTENDS ModuleManager, SequencesExt

VARIABLES
  listeners, \* _event_listeners
  socket,    \* per socket: its state, as the page sees it
  sent,      \* per socket: what the page has sent and the server not yet read
  inbox      \* per socket: what the server has sent and the page not yet read

net == <<listeners, socket, sent, inbox>>

\* Asked for by the page, accepted by the server, usable by the page, closed for
\* the page but not yet for the server.
SocketState == {"none", "opening", "connecting", "open", "closed"}

WebInit ==
  /\ Init
  /\ listeners = {}
  /\ socket = [r \in Requester |-> "none"]
  /\ sent = [r \in Requester |-> <<>>] /\ inbox = [r \in Requester |-> <<>>]

\* What the server sends on `r` reaches the page: client->Send to a socket the
\* page has closed is lost.
Reaches(r) == socket[r] \in {"connecting", "open"}

\* ServerImpl::PushMsgForJS
PushMsgForJS(msgs) ==
  inbox' = [r \in Requester |->
    IF r \in listeners /\ Reaches(r) THEN inbox[r] \o msgs ELSE inbox[r]]

\* Faulty variant of AddEventListener: a second socket is not added.
AddEventListenerOnce(r) == listeners' = IF listeners = {} THEN {r} ELSE listeners

AddEventListener(r)    == listeners' = listeners \cup {r}
RemoveEventListener(r) == listeners' = listeners \ {r}

OnWsClientConnected(r) ==
  /\ serverImpl /\ running # Crashed
  /\ socket[r] = "opening"
  /\ socket' = [socket EXCEPT ![r] = "connecting"]
  /\ AddEventListener(r)
  /\ UNCHANGED <<vars, sent, inbox>>

\* ServerImpl::OnWsClientMessage, up to the wait in ProcessJSRequest and after it.  What
\* a page has sent before it closed the socket may still be read.
OnWsClientMessage(r) ==
  /\ socket[r] \in {"open", "closed"} /\ sent[r] # <<>>
  /\ ProcessJSRequest(r, Head(sent[r]))
  /\ sent' = [sent EXCEPT ![r] = Tail(@)]
  /\ UNCHANGED <<listeners, socket, inbox>>

Responds(r) ==
  /\ RequestReturns(r)
  /\ inbox' = [inbox EXCEPT ![r] = IF Reaches(r) THEN @ \o SetToSeq(answer[r]) ELSE @]
  /\ UNCHANGED <<listeners, socket, sent>>

\* ServerImpl::OnWsClientClosed: what was sent and not read is lost.  The place of the
\* socket may then be taken again.
OnWsClientClosed(r) ==
  /\ socket[r] = "closed" /\ request[r] = "idle"
  /\ socket' = [socket EXCEPT ![r] = "none"]
  /\ sent' = [sent EXCEPT ![r] = <<>>]
  /\ RemoveEventListener(r)
  /\ UNCHANGED <<vars, inbox>>
=============================================================================
