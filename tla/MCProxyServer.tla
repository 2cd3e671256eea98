--------------------------- MODULE MCProxyServer ----------------------------
(***************************************************************************)
(* ProxyServer on small instances.  The second property of a peer's module *)
(* is read_only and names the peer and the id: it tells modules apart.     *)
(***************************************************************************)
EXTENDS ProxyServer

CONSTANTS v0, v1

MCModuleId == -1..(MaxCalls + MaxMessages)
MCValue == {v0, v1, "", "0", "1"} \cup {ToString(<<p, id>>) : p \in Peer, id \in MCModuleId}

MCRemote(p, id) ==
  [properties |-> <<MakeProperty("TEXT", v0), MakeProperty("SCRIPT", ToString(<<p, id>>))>>, callback |-> TRUE]

\* A module of the host itself.
Local == [properties |-> <<MakeProperty("TEXT", v0), MakeProperty("SCRIPT", v0)>>, callback |-> TRUE]
MCDefinition == {Local}

MCUpdates == {<<[id |-> 0, value |-> v1]>>}
=============================================================================
