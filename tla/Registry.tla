------------------------------ MODULE Registry ------------------------------
(***************************************************************************)
(* What the library promises the threads of an application and a page,     *)
(* with no queue and no thread of its own.  The modules have two copies:   *)
(* what is stored and what the page shows.  A module enters and leaves     *)
(* both at once, under an id no other module ever has.  A change of values *)
(* reaches each copy once, at some time after it was asked for.  A page    *)
(* that asks for the modules gets all that are stored at one moment        *)
(* between its question and the answer.                                    *)
(***************************************************************************)
EXTENDS Bags, Functions

CONSTANTS
  Thread, Requester, Definition, UpdateList, ModuleId,
  SavedProperties(_, _),       \* what is stored of a module, once a list of values is
  SetModulePoperties(_, _, _), \* what the page shows, once it has a list for a module
  CrateModule(_, _),           \* ... once it has a module
  CreateModuleList(_)          \* what tells the page of all modules

VARIABLES
  stored,   \* the modules, by id
  shown,    \* the values the page shows of each module
  used,     \* the ids given so far
  wanted,   \* per thread: the module it registers
  given,    \* per thread: the id it has been given and not yet returned with
  todo,     \* the changes asked for and not yet made, in a bag
  listing,  \* the sockets that have asked for the modules
  lists     \* per socket: the answer

copies == <<stored, shown>>
callers == <<used, wanted, given>>
readers == <<listing, lists>>
registryVars == <<copies, callers, todo, readers>>

RegistryInit ==
  /\ stored = <<>> /\ shown = <<>>
  /\ used = {}
  /\ wanted = [t \in Thread |-> {}] /\ given = [t \in Thread |-> {}]
  /\ todo = EmptyBag
  /\ listing = {} /\ lists = [r \in Requester |-> {}]

-----------------------------------------------------------------------------
Asked(changes) == todo' = todo (+) SetToBag(changes)
Made(change)   == BagIn(change, todo) /\ todo' = todo (-) SetToBag({change})

Stored(id, list) ==
  stored' = [i \in DOMAIN stored |->
    IF i = id THEN [stored[i] EXCEPT !.properties = SavedProperties(@, list)] ELSE stored[i]]
Shown(id, list) == shown' = SetModulePoperties(shown, id, list)
Removed(id) ==
  /\ stored' = Restrict(stored, DOMAIN stored \ {id})
  /\ shown' = Restrict(shown, DOMAIN shown \ {id})

\* A thread registers a module, gets an id, and goes on.
Registers(t, module) ==
  /\ wanted[t] = {} /\ given[t] = {}
  /\ wanted' = [wanted EXCEPT ![t] = {module}]
  /\ UNCHANGED <<copies, used, given, todo, readers>>
Enters(t, id) ==
  /\ id \notin used /\ used' = used \cup {id}
  /\ \E module \in wanted[t] :
       /\ stored' = [i \in DOMAIN stored \cup {id} |-> IF i = id THEN module ELSE stored[i]]
       /\ shown' = CrateModule(shown, [id |-> id, properties |-> module.properties])
  /\ wanted' = [wanted EXCEPT ![t] = {}] /\ given' = [given EXCEPT ![t] = {id}]
  /\ UNCHANGED <<todo, readers>>
Returns(t) ==
  /\ given[t] # {} /\ given' = [given EXCEPT ![t] = {}]
  /\ UNCHANGED <<copies, used, wanted, todo, readers>>

\* A change is asked for by a thread, or by the page, which shows it already; each
\* copy takes it; or a callback makes it at once.
Asks(id, list) ==
  UNCHANGED <<copies, callers, readers>> /\ Asked({<<"store", id, list>>, <<"show", id, list>>})
Types(id, list) ==
  UNCHANGED <<stored, callers, readers>> /\ Shown(id, list) /\ Asked({<<"store", id, list>>})
Takes(id, list) ==
  \/ UNCHANGED <<shown, callers, readers>> /\ Stored(id, list) /\ Made(<<"store", id, list>>)
  \/ UNCHANGED <<stored, callers, readers>> /\ Shown(id, list) /\ Made(<<"show", id, list>>)
Changes(id, list) ==
  UNCHANGED <<callers, readers>> /\ Stored(id, list) /\ Shown(id, list) /\ UNCHANGED todo

AsksToLeave(id) == UNCHANGED <<copies, callers, readers>> /\ Asked({<<"remove", id>>})
Leaves(id)      == UNCHANGED <<callers, readers>> /\ Removed(id) /\ Made(<<"remove", id>>)
IsRemoved(id)   == UNCHANGED <<callers, readers>> /\ Removed(id) /\ UNCHANGED todo

\* A page asks for the modules, and reads the answer.
AsksForList(r) ==
  /\ listing' = listing \cup {r}
  /\ UNCHANGED <<copies, callers, todo, lists>>
Lists(r) ==
  /\ r \in listing /\ listing' = listing \ {r}
  /\ lists' = [lists EXCEPT ![r] = {CreateModuleList(stored)}]
  /\ UNCHANGED <<copies, callers, todo>>
Reads(r) ==
  /\ lists' = [lists EXCEPT ![r] = {}]
  /\ UNCHANGED <<copies, callers, todo, listing>>

RegistryNext ==
  \/ \E t \in Thread :
       \/ \E module \in Definition : Registers(t, module)
       \/ \E id \in ModuleId : Enters(t, id)
       \/ Returns(t)
  \/ \E id \in ModuleId :
       \/ \E list \in UpdateList :
            Asks(id, list) \/ Types(id, list) \/ Takes(id, list) \/ Changes(id, list)
       \/ AsksToLeave(id) \/ Leaves(id) \/ IsRemoved(id)
  \/ \E r \in Requester : AsksForList(r) \/ Lists(r) \/ Reads(r)

RegistrySpec == RegistryInit /\ [][RegistryNext]_registryVars
=============================================================================
