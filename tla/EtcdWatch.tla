------------------------------ MODULE EtcdWatch ------------------------------
(***************************************************************************)
(* What the clients of etcd's watch interface see of etcd (external): the  *)
(* keys under one prefix and the numbered changes made to them.  history   *)
(* is the sequence of changes; the change at position r is revision r, so  *)
(* the value a key has is known by the revision that wrote it.  Other      *)
(* clients write and delete keys at any time, up to MaxRevision changes.   *)
(***************************************************************************)
EXTENDS Naturals, Sequences

CONSTANTS Keys, MaxRevision

ASSUME WatchAssumption == Keys \subseteq Nat /\ MaxRevision \in Nat

VARIABLE history

Changes == [key : Keys, op : {"PUT", "DELETE"}]

revision == Len(history)

(* The revisions up to r that changed key k.                               *)
ChangesOf(k, r) == {i \in 1..r : history[i].key = k}

(* k has a value at revision r: its last change up to r is a PUT.          *)
LiveAt(k, r) ==
  \E i \in ChangesOf(k, r) : history[i].op = "PUT" /\ \A j \in ChangesOf(k, r) : j <= i

(* The change at revision r created the key (CreateRevision = ModRevision, *)
(* and there is no PrevKv).                                                *)
Creates(r) == history[r].op = "PUT" /\ ~LiveAt(history[r].key, r - 1)

(* The keys and revisions that a Get of the prefix returns now.            *)
Contents == {r \in 1..revision : /\ history[r].op = "PUT"
                                 /\ \A j \in ChangesOf(history[r].key, revision) : j <= r}

EtcdWatchInit == history = <<>>

Write ==
  /\ revision < MaxRevision
  /\ \E c \in Changes :
       /\ c.op = "DELETE" => LiveAt(c.key, revision)
       /\ history' = Append(history, c)
=============================================================================
