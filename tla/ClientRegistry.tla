--------------------------- MODULE ClientRegistry ---------------------------
(***************************************************************************)
(* The process-wide registry of provider clients                           *)
(* (_ClientRegistry in backend/app/client_lifecycle.py): clients are made  *)
(* on first use and shared, and shutdown closes them while other           *)
(* coroutines may ask for clients or shut down as well.                    *)
(*                                                                         *)
(* The asyncio lock is never held across an await, so what it protects is  *)
(* one step; closing a client awaits in between.                           *)
(***************************************************************************)
EXTENDS Naturals, FiniteSets

CONSTANTS
  ClientKey,   \* provider, factory and credentials
  Client,      \* client objects
  Closer       \* callers of close()

VARIABLES
  clients,   \* clients[k]: the registered object, or None
  made,      \* objects that factories have returned
  closing,   \* _closing
  closers,   \* closers[c]: a call of close()
  closed,    \* closed[x]: successful closes of object x
  failures   \* closes that may still fail (model bound)

registryVars == <<clients, made, closing, closers, closed, failures>>

None == "none"
ASSUME ClientAssumption == None \notin Client

Outside == [phase |-> "idle"]
Registered == {clients[k] : k \in ClientKey} \ {None}

\* Mutant: a client may be made while the registry is closing.
Get_while_closing(k) ==
  /\ clients[k] = None
  /\ \E x \in {y \in Client : y \notin made \/ y \in Registered} :
       /\ clients' = [clients EXCEPT ![k] = x]
       /\ made' = made \cup {x}
  /\ UNCHANGED <<closing, closers, closed, failures>>

\* get_openai, get_tavily: refused while closing; an injected factory may return an object
\* it has returned for another key.
Get(k) ==
  /\ ~closing /\ clients[k] = None
  /\ \E x \in {y \in Client : y \notin made \/ y \in Registered} :
       /\ clients' = [clients EXCEPT ![k] = x]
       /\ made' = made \cup {x}
  /\ UNCHANGED <<closing, closers, closed, failures>>

\* close: the first caller takes the entries over, the others wait for its event.
CloseBegin(c) ==
  /\ closers[c] = Outside
  /\ IF closing
     THEN /\ \E d \in Closer : closers[d].phase = "owner"
                 /\ closers' = [closers EXCEPT ![c] = [phase |-> "waiting", for |-> d]]
          /\ UNCHANGED <<clients, closing>>
     ELSE /\ closing' = TRUE
          /\ closers' = [closers EXCEPT ![c] = [phase |-> "owner", entries |-> clients,
                           todo |-> Registered, failed |-> {}]]
          /\ clients' = [k \in ClientKey |-> None]
  /\ UNCHANGED <<made, closed, failures>>

\* One client is closed, or its close raises.
CloseOne(c) ==
  /\ closers[c].phase = "owner"
  /\ \E x \in closers[c].todo :
       \/ /\ closers' = [closers EXCEPT ![c].todo = @ \ {x}]
          /\ closed' = [closed EXCEPT ![x] = @ + 1]
          /\ UNCHANGED failures
       \/ /\ failures > 0 /\ failures' = failures - 1
          /\ closers' = [closers EXCEPT ![c].todo = @ \ {x}, ![c].failed = @ \cup {x}]
          /\ UNCHANGED closed
  /\ UNCHANGED <<clients, made, closing>>

\* The clients that failed are registered again, under every key they had; the waiting
\* callers return.
CloseEnd(c) ==
  LET q == closers[c] IN
  /\ q.phase = "owner" /\ q.todo = {}
  /\ clients' = IF q.failed = {} THEN clients
                ELSE [k \in ClientKey |-> IF q.entries[k] \in q.failed THEN q.entries[k] ELSE None]
  /\ closing' = FALSE
  /\ closers' = [d \in Closer |->
       IF d = c \/ (closers[d].phase = "waiting" /\ closers[d].for = c) THEN Outside ELSE closers[d]]
  /\ UNCHANGED <<made, closed, failures>>

RegistryNext ==
  \/ \E k \in ClientKey : Get(k)
  \/ \E c \in Closer : CloseBegin(c) \/ CloseOne(c) \/ CloseEnd(c)

RegistryInit ==
  /\ clients = [k \in ClientKey |-> None] /\ made = {} /\ closing = FALSE
  /\ closers = [c \in Closer |-> Outside]
  /\ closed = [x \in Client |-> 0]

RegistrySpec == RegistryInit /\ failures \in Nat /\ [][RegistryNext]_registryVars

\* The registry is closing exactly while one caller owns the shutdown.
RegistryTypeOK ==
  /\ clients \in [ClientKey -> Client \cup {None}] /\ made \subseteq Client
  /\ closing <=> \E c \in Closer : closers[c].phase = "owner"
  /\ \A c, d \in Closer : closers[c].phase = "owner" /\ closers[d].phase = "owner" => c = d
  /\ failures \in Nat

\* "Own process-scoped clients and close each object at most once"
\* (client_lifecycle.py:34): no object is closed again after it was closed, and none is
\* forgotten: until it is closed it is registered or in the hands of the shutdown, also
\* when its close fails, when keys share it and when calls overlap.
EachClientClosedOnce ==
  \A x \in made :
    /\ closed[x] <= 1
    /\ closed[x] = 0 => x \in Registered \/ \E c \in Closer :
         closers[c].phase = "owner" /\ x \in closers[c].todo \cup closers[c].failed
=============================================================================
