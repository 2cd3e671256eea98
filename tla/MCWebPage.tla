----------------------------- MODULE MCWebPage ------------------------------
(***************************************************************************)
(* WebPage and WebStart on small instances.  v0 is the value modules start *)
(* with.                                                                   *)
(***************************************************************************)
EXTENDS WebStart

CONSTANTS v0, v1

MCValue == {v0, v1, "", "0", "1", "typed"}
MCModuleId == 0..MaxCalls

\* A module with fields of every way to be sent, told through a callback.
Told ==
  [properties |-> <<MakeProperty("TEXT", v0), MakeProperty("LOG", ""),
                    MakeProperty("BUTTON_SW_IN", "1")>>,
   callback   |-> TRUE]
WithCallback == {Told}

\* The sockets of a page are alike.
Sockets == Permutations(Requester)

MCUpdates == {<<[id |-> 0, value |-> v1], [id |-> 1, value |-> v1]>>}

ASSUME UpdatesFitHere == UpdatesFit
=============================================================================
