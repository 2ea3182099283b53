--------------------------- MODULE AtomicRegistry ---------------------------
(***************************************************************************)
(* What a registry promises its callers: every request takes effect at one *)
(* instant between its arrival and its answer, and the status code tells   *)
(* the truth about that instant.  201 means the key was free and now holds *)
(* the body, 409 that it was taken, 404 that it was free, 200 on a PUT     *)
(* that the body replaced what was there.                                  *)
(*                                                                         *)
(* StrictUpdate says whether a PUT answered 200 may find its key free.     *)
(***************************************************************************)
EXTENDS Integers

CONSTANTS Clients, Absent, StrictUpdate

VARIABLES
  kv,       \* the objects
  request,  \* what each client asked last, Absent for nothing
  result    \* the status code it got, 0 until it is answered

vars == <<kv, request, result>>

Init ==
  /\ \A key \in DOMAIN kv : kv[key] = Absent
  /\ request = [c \in Clients |-> Absent]
  /\ result = [c \in Clients |-> 0]

(* A client sends its next request, here or to another registry.           *)
Invoke(c) ==
  /\ request[c] = Absent \/ result[c] # 0
  /\ request' = [request EXCEPT ![c] = request'[c]]
  /\ result' = [result EXCEPT ![c] = 0]
  /\ UNCHANGED kv

Answer(c, verbs, code) ==
  /\ request[c] # Absent
  /\ request[c].verb \in verbs
  /\ result[c] = 0
  /\ result' = [result EXCEPT ![c] = code]
  /\ UNCHANGED request

Holds(c) == kv[request[c].name] # Absent

Created(c) ==
  /\ Answer(c, {"POST"}, 201)
  /\ ~Holds(c)
  /\ kv'[request[c].name] # Absent
  /\ kv' = [kv EXCEPT ![request[c].name] = kv'[request[c].name]]

Conflict(c) == Answer(c, {"POST"}, 409) /\ Holds(c) /\ UNCHANGED kv

Found(c) == Answer(c, {"GET"}, 200) /\ Holds(c) /\ UNCHANGED kv

Missing(c) == Answer(c, {"GET", "PUT", "DELETE"}, 404) /\ ~Holds(c) /\ UNCHANGED kv

Updated(c) ==
  /\ Answer(c, {"PUT"}, 200)
  /\ StrictUpdate => Holds(c)
  /\ kv' = [kv EXCEPT ![request[c].name] = request[c].body]

Deleted(c) ==
  /\ Answer(c, {"DELETE"}, 204)
  /\ kv' = [kv EXCEPT ![request[c].name] = Absent]

Listed(c) == Answer(c, {"LIST", "UNASSIGNED"}, 200) /\ UNCHANGED kv

(* A body that is refused, or an object gone since the request arrived.    *)
Refused(c) ==
  /\ \/ Answer(c, {"POST", "PUT"}, 400)
     \/ Answer(c, {"PUT"}, 500) /\ ~Holds(c)
  /\ UNCHANGED kv

Next ==
  \E c \in Clients :
    \/ Invoke(c) \/ Created(c) \/ Conflict(c) \/ Found(c) \/ Missing(c)
    \/ Updated(c) \/ Deleted(c) \/ Listed(c) \/ Refused(c)

Spec == Init /\ [][Next]_vars
=============================================================================
