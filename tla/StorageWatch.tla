---------------------------- MODULE StorageWatch ----------------------------
(***************************************************************************)
(* EtcdStorage.Watch (pkg/storage): a goroutine converts the responses of  *)
(* an etcd watch and hands the events over an unbuffered channel.  The     *)
(* etcd client returns from Watch once the server has set the watch up, so *)
(* the watch begins at the revision of that moment.  A response with       *)
(* several events is taken as that many responses: the goroutine looks at  *)
(* nothing in between that it would not see one event later.               *)
(***************************************************************************)
EXTENDS EtcdWatch

VARIABLES
  handler,    \* handleWatchEvents: "new" before Watch, "select", "send", "closed"
  next,       \* revision of the next response
  cancelled,  \* the context is done
  broken,     \* etcd has cancelled or closed its stream
  upTo,       \* revision of the last event received, or of the call of Watch
  kind,       \* type of that event
  receiving   \* somebody receives from the channel

swVars == <<handler, next, cancelled, broken, upTo, kind, receiving>>

(* Mutant: a type that is not one of the package.                          *)
convertEventTypeOther(r) ==
  IF history[r].op = "DELETE" THEN "DELETE" ELSE IF Creates(r) THEN "ADD" ELSE "MODIFIED"

(* PrevKv is nil when the key had no value.                                *)
convertEventType(r) ==
  IF history[r].op = "DELETE" THEN "DELETE" ELSE IF Creates(r) THEN "ADD" ELSE "UPDATE"

StorageWatchInit ==
  /\ handler = "new" /\ next = 1 /\ cancelled = FALSE /\ broken = FALSE
  /\ upTo = 0 /\ kind = "none" /\ receiving = TRUE

StartWatch ==
  /\ handler = "new" /\ handler' = "select"
  /\ next' = revision + 1 /\ upTo' = revision
  /\ UNCHANGED <<history, cancelled, broken, kind, receiving>>

handleWatchEvents ==
  /\ handler = "select"
  /\ \/ (cancelled \/ broken) /\ handler' = "closed"
     \/ ~broken /\ next <= revision /\ handler' = "send"
  /\ UNCHANGED <<history, next, cancelled, broken, upTo, kind, receiving>>

(* Mutants: the event is dropped when nobody is ready for it; the send is  *)
(* not given up when the context is done.                                  *)
processWatchResponseDrops ==
  /\ handler = "send" /\ handler' = "select"
  /\ next' = next + 1
  /\ \/ receiving /\ upTo' = next /\ kind' = convertEventType(next)
     \/ UNCHANGED <<upTo, kind>>
  /\ UNCHANGED <<history, cancelled, broken, receiving>>

processWatchResponseBlocks ==
  /\ handler = "send" /\ handler' = "select"
  /\ next' = next + 1
  /\ receiving /\ upTo' = next /\ kind' = convertEventType(next)
  /\ UNCHANGED <<history, cancelled, broken, receiving>>

processWatchResponse ==
  /\ handler = "send" /\ handler' = "select"
  /\ next' = next + 1
  /\ \/ receiving /\ upTo' = next /\ kind' = convertEventType(next)
     \/ cancelled /\ UNCHANGED <<upTo, kind>>
  /\ UNCHANGED <<history, cancelled, broken, receiving>>

(* The caller and etcd (external).                                         *)
CancelWatch ==
  /\ handler # "new" /\ ~cancelled /\ cancelled' = TRUE
  /\ UNCHANGED <<history, handler, next, broken, upTo, kind, receiving>>

StopReceiving ==
  /\ handler # "new" /\ receiving /\ receiving' = FALSE
  /\ UNCHANGED <<history, handler, next, cancelled, broken, upTo, kind>>

WatchBreaks ==
  /\ handler # "new" /\ ~broken /\ broken' = TRUE
  /\ UNCHANGED <<history, handler, next, cancelled, upTo, kind, receiving>>

StorageWatchNext ==
  \/ StartWatch \/ handleWatchEvents \/ processWatchResponse
  \/ CancelWatch \/ StopReceiving \/ WatchBreaks
  \/ Write /\ UNCHANGED swVars

StorageWatchSpec ==
  /\ EtcdWatchInit /\ StorageWatchInit
  /\ [][StorageWatchNext]_<<history, swVars>>

-----------------------------------------------------------------------------
(* Every variable has its type; in particular an event has one of the      *)
(* types the package declares.                                             *)
StorageWatchTypeOK ==
  /\ history \in Seq(Changes)
  /\ handler \in {"new", "select", "send", "closed"}
  /\ next \in Nat /\ upTo \in Nat
  /\ cancelled \in BOOLEAN /\ broken \in BOOLEAN /\ receiving \in BOOLEAN
  /\ kind \in {"none", "ADD", "UPDATE", "DELETE"}

KindIn(log, r) ==
  IF log[r].op = "DELETE" THEN "DELETE"
  ELSE IF \E i \in 1..r - 1 : /\ log[i].key = log[r].key /\ log[i].op = "PUT"
                              /\ \A j \in i + 1..r - 1 : log[j].key # log[r].key
  THEN "UPDATE" ELSE "ADD"

Stream == INSTANCE EventStream WITH
  Kind <- KindIn, log <- history,
  state <- IF handler \in {"select", "send"} THEN "open" ELSE handler

(* The receiver gets every change since Watch returned, in order and once, *)
(* as the tests read the channel; only after a cancel may one be skipped.  *)
WatchStreams == Stream!Spec

(* "should stop watching when context is cancelled": the channel is closed *)
(* although nobody may be receiving.                                       *)
CancelCloses == []<>(cancelled => handler = "closed")
=============================================================================
