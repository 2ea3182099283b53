----------------------------- MODULE WatchProofs -----------------------------
(***************************************************************************)
(* The clients of etcd's watch interface, for every set of keys, every     *)
(* number of changes and of faults and every capacity of the channels:     *)
(* EtcdStorage.Watch implements EventStream; a ListWatch closes its etcd   *)
(* clients, keeps the types of its variables and delivers in order.        *)
(***************************************************************************)
EXTENDS ListWatch, StorageWatch, TLAPS

USE ZenonT(30), SMTT(120)

-----------------------------------------------------------------------------
(* EtcdStorage.Watch *)

(* The revision the goroutine waits for or is handing over: it is the next *)
(* one of the receiver's until the context is done, never an earlier one.  *)
HandsOver ==
  /\ StorageWatchTypeOK
  /\ handler \in {"select", "send"} => upTo < next /\ (~cancelled => next = upTo + 1)
  /\ handler = "send" => next <= revision

LEMMA WriteAppends ==
  ASSUME history \in Seq(Changes), Write
  PROVE  /\ history' \in Seq(Changes) /\ revision' = revision + 1
         /\ \A i \in 1..revision : history'[i] = history[i]
         /\ SubSeq(history', 1, Len(history)) = history
BY DEF Write, revision

(* convertEventType looks at PrevKv; that is what the log says.            *)
LEMMA ConvertedKind ==
  ASSUME history \in Seq(Changes), NEW r \in 1..revision
  PROVE  convertEventType(r) = KindIn(history, r)
<1>1. r - 1 \in Nat
  BY DEF revision
<1>2. LiveAt(history[r].key, r - 1)
        <=> \E i \in 1..r - 1 : /\ history[i].key = history[r].key /\ history[i].op = "PUT"
                                /\ \A j \in i + 1..r - 1 : history[j].key # history[r].key
  BY <1>1 DEF LiveAt, ChangesOf
<1>3. history[r].op = "DELETE" \/ (history[r].op = "PUT" /\ history[r].op # "DELETE")
  <2>1. history[r] \in Changes
    BY DEF revision
  <2>. QED
    BY <2>1 DEF Changes
<1>4. CASE history[r].op = "DELETE"
  BY <1>4 DEF convertEventType, KindIn
<1>5. CASE history[r].op = "PUT" /\ history[r].op # "DELETE"
  BY <1>2, <1>5 DEF convertEventType, KindIn, Creates
<1>. QED
  BY <1>3, <1>4, <1>5

LEMMA HandsOverInductive ==
  ASSUME HandsOver, [StorageWatchNext]_<<history, swVars>>
  PROVE  HandsOver'
<1>. USE DEF HandsOver, StorageWatchTypeOK
<1>0. revision \in Nat
  BY SMTT(60) DEF revision
<1>1. CASE StartWatch
  BY SMTT(60), <1>0, <1>1 DEF StartWatch, revision
<1>2. CASE handleWatchEvents
  BY <1>0, <1>2 DEF handleWatchEvents, revision
<1>3. CASE processWatchResponse
  <2>1. convertEventType(next) \in {"ADD", "UPDATE", "DELETE"}
    BY DEF convertEventType
  <2>. QED
    BY SMTT(60), <1>0, <1>3, <2>1 DEF processWatchResponse, revision
<1>4. CASE CancelWatch
  BY <1>0, <1>4 DEF CancelWatch, revision
<1>5. CASE StopReceiving
  BY <1>0, <1>5 DEF StopReceiving, revision
<1>6. CASE WatchBreaks
  BY <1>0, <1>6 DEF WatchBreaks, revision
<1>7. CASE Write /\ UNCHANGED swVars
  BY <1>0, <1>7, WriteAppends DEF swVars
<1>8. CASE UNCHANGED <<history, swVars>>
  BY <1>8 DEF swVars, revision
<1>. QED
  BY <1>1, <1>2, <1>3, <1>4, <1>5, <1>6, <1>7, <1>8 DEF StorageWatchNext

LEMMA HandsOverInit ==
  ASSUME EtcdWatchInit, StorageWatchInit
  PROVE  HandsOver
<1>1. cancelled \in BOOLEAN /\ broken \in BOOLEAN /\ receiving \in BOOLEAN
  BY Zenon DEF StorageWatchInit
<1>2. history \in Seq(Changes) /\ next \in Nat /\ upTo \in Nat /\ handler = "new" /\ kind = "none"
  BY DEF EtcdWatchInit, StorageWatchInit
<1>. QED
  BY <1>1, <1>2 DEF HandsOver, StorageWatchTypeOK

(* The goroutine of EtcdStorage.Watch stays well typed; the events it      *)
(* hands over have one of the types the package declares.                  *)
THEOREM StorageWatchTypes == StorageWatchSpec => []StorageWatchTypeOK
<1>1. HandsOver => StorageWatchTypeOK
  BY DEF HandsOver
<1>. QED
  BY <1>1, HandsOverInit, HandsOverInductive, PTL DEF StorageWatchSpec

(* EtcdStorage.Watch keeps the promise of EventStream: the receiver gets   *)
(* every change since Watch returned, in order, once and with its kind; a  *)
(* change may be left out only after the context is done.                  *)
THEOREM StorageWatchImplementsEventStream == StorageWatchSpec => WatchStreams
<1>1. EtcdWatchInit /\ StorageWatchInit => HandsOver
  BY HandsOverInit
<1>2. EtcdWatchInit /\ StorageWatchInit => Stream!Init
  BY DEF EtcdWatchInit, StorageWatchInit, Stream!Init
<1>3. ASSUME HandsOver, [StorageWatchNext]_<<history, swVars>>
      PROVE  [Stream!Next]_(Stream!vars)
  <2>. USE <1>3
  <2>1. CASE StartWatch
    BY <2>1 DEF StartWatch, Stream!Next, Stream!Open, revision
  <2>2. CASE handleWatchEvents
    BY <2>2 DEF handleWatchEvents, Stream!Next, Stream!Close, Stream!vars
  <2>3. CASE processWatchResponse
    <3>1. next \in 1..revision
      BY SMTT(60), <2>3 DEF HandsOver, StorageWatchTypeOK, processWatchResponse
    <3>2. convertEventType(next) = KindIn(history, next)
      BY <3>1, ConvertedKind DEF HandsOver, StorageWatchTypeOK
    <3>. QED
      BY SMTT(60), <2>3, <3>1, <3>2 DEF HandsOver, StorageWatchTypeOK, processWatchResponse,
         Stream!Next,
        Stream!Deliver, Stream!vars, revision
  <2>4. CASE CancelWatch
    BY <2>4 DEF CancelWatch, Stream!Next, Stream!Cancel
  <2>5. CASE StopReceiving
    BY <2>5 DEF StopReceiving, Stream!vars
  <2>6. CASE WatchBreaks
    BY <2>6 DEF WatchBreaks, Stream!vars
  <2>7. CASE Write /\ UNCHANGED swVars
    BY <2>7, WriteAppends DEF HandsOver, StorageWatchTypeOK, swVars, Stream!Next, Stream!Change, revision
  <2>8. CASE UNCHANGED <<history, swVars>>
    BY <2>8 DEF swVars, Stream!vars
  <2>. QED
    BY <2>1, <2>2, <2>3, <2>4, <2>5, <2>6, <2>7, <2>8 DEF StorageWatchNext
<1>. QED
  BY <1>1, <1>2, <1>3, HandsOverInductive, PTL DEF StorageWatchSpec, WatchStreams, Stream!Spec

-----------------------------------------------------------------------------
(* The etcd clients of a ListWatch *)

(* lw.etcdCli is the only client that may be open.                         *)
OneClient ==
  /\ etcdCli \in {"nil", "open", "closed"}
  /\ clients = IF etcdCli = "open" THEN 1 ELSE 0
  /\ loop = "stopped" => etcdCli = "nil"

LEMMA ReplacedClient ==
  ASSUME OneClient, closeEtcdClient \/ leaveWatch, loop' # "stopped" \/ closeEtcdClient
  PROVE  OneClient'
BY DEF OneClient, closeEtcdClient, leaveWatch

LEMMA LoopKeepsOneClient ==
  ASSUME OneClient, runListWatchLoop
  PROVE  OneClient'
<1>0. CASE UNCHANGED <<etcdCli, clients, loop>>
  BY <1>0 DEF OneClient
<1>1. CASE ensureConnected
  <2>1. \/ UNCHANGED <<etcdCli, clients>> /\ loop' \in {"list", "backoff", "ensure"}
        \/ etcdCli = "nil" /\ etcdCli' = "open" /\ clients' = clients + 1 /\ loop' = "list"
    BY <1>1, Zenon DEF ensureConnected, Logged, Panics
  <2>. QED
    BY <2>1 DEF OneClient
<1>2. CASE listAndSendExisting
  BY <1>2, <1>0, ReplacedClient DEF OneClient, listAndSendExisting, Logged, Panics
<1>3. CASE sendExisting
  BY <1>3 DEF OneClient, sendExisting
<1>4. CASE Watch
  BY <1>4, <1>0, ReplacedClient DEF OneClient, Watch, Logged, Panics
<1>5. CASE watchAndForwardEvents
  <2>1. \/ UNCHANGED <<etcdCli, clients, loop>>
        \/ UNCHANGED <<etcdCli, clients>> /\ loop' = "send"
        \/ leaveWatch
        \/ closeEtcdClient /\ loop' = "backoff"
    BY <1>5 DEF watchAndForwardEvents, handleWatchChannelClose, Logged, Panics
  <2>. QED
    BY <2>1, <1>0, ReplacedClient DEF OneClient, leaveWatch
<1>6. CASE sendEvent
  BY <1>6, ReplacedClient DEF OneClient, sendEvent, leaveWatch
<1>7. CASE backoffExpires
  BY <1>7 DEF OneClient, backoffExpires
<1>8. CASE backoffStops
  BY <1>8 DEF OneClient, backoffStops
<1>9. CASE handleCleanup
  <2>1. closeEtcdClient
    BY <1>9 DEF handleCleanup
  <2>. QED
    BY <2>1, ReplacedClient
<1>. QED
  BY <1>1, <1>2, <1>3, <1>4, <1>5, <1>6, <1>7, <1>8, <1>9 DEF runListWatchLoop

(* However the rounds of a ListWatch end (a failed request, a broken       *)
(* stream, the end of the context), no client is ever left open: there is  *)
(* one at most, and none when the loop has stopped.                        *)
THEOREM ClientsAreClosed == ListWatchSpec => []ClientsClosed
<1>1. ListWatchInit => OneClient
  BY DEF ListWatchInit, OneClient
<1>2. ASSUME OneClient, [ListWatchNext]_<<history, lwVars>>
      PROVE  OneClient'
  <2>1. CASE runListWatchLoop
    BY <1>2, <2>1, LoopKeepsOneClient
  <2>2. CASE ListAndWatch
    BY <1>2, <2>2 DEF OneClient, ListAndWatch
  <2>3. CASE UNCHANGED <<etcdCli, clients, loop>>
    BY <1>2, <2>3 DEF OneClient
  <2>4. ASSUME NEW s \in DOMAIN watches, watchGoroutines(s)
        PROVE  UNCHANGED <<etcdCli, clients, loop>>
    BY <2>4 DEF watchGoroutines, watchReceives, watchSends, monitorWakes, monitorSends, Panics
  <2>5. Receive \/ StopReading \/ Cancel \/ StreamBreaks => UNCHANGED <<etcdCli, clients, loop>>
    BY DEF Receive, StopReading, Cancel, StreamBreaks
  <2>. QED
    BY <1>2, <2>1, <2>2, <2>3, <2>4, <2>5 DEF ListWatchNext, lwVars
<1>3. OneClient => ClientsClosed
  BY DEF OneClient, ClientsClosed
<1>. QED
  BY <1>1, <1>2, <1>3, PTL DEF ListWatchSpec
-----------------------------------------------------------------------------
(* The types of the variables *)

LEMMA ErrorIsEvent == ErrorEvent \in Event
BY DEF ErrorEvent, Event, NoKey

LEMMA ChangeIsEvent ==
  ASSUME history \in Seq(Changes), NEW r \in 1..revision
  PROVE  /\ EventAt(r) \in Event /\ EventAt(r).rev = r
         /\ EventAt(r).key = history[r].key /\ history[r].key \in Keys
<1>1. history[r] \in Changes
  BY DEF revision
<1>2. history[r].key \in Keys
  BY <1>1 DEF Changes
<1>3. r \in Nat
  BY DEF revision
<1>. QED
  BY <1>2, <1>3 DEF EventAt, Event

(* Receiving from a channel.                                               *)
LEMMA HeadAndTail ==
  ASSUME NEW S, NEW q \in Seq(S), q # <<>>
  PROVE  /\ Len(q) \in Nat \ {0} /\ Head(q) = q[1] /\ Head(q) \in S
         /\ Tail(q) \in Seq(S) /\ Len(Tail(q)) = Len(q) - 1
         /\ \A i \in 1..Len(q) - 1 : Tail(q)[i] = q[i + 1]
OBVIOUS

(* A send to the event channel keeps its type and its capacity.            *)
ChannelOK == ch \in Seq(Event) /\ Len(ch) <= EventChannelBuffer

LEMMA ChannelKept ==
  ASSUME ChannelOK,
         \/ tryToSendErrorEvent
         \/ UNCHANGED ch
         \/ Room /\ \E e \in Event : ch' = Append(ch, e)
  PROVE  ChannelOK'
<1>1. CASE UNCHANGED ch
  BY <1>1 DEF ChannelOK
<1>2. CASE Room /\ \E e \in Event : ch' = Append(ch, e)
  BY <1>2, ListWatchAssumption DEF ChannelOK, Room
<1>. QED
  BY <1>1, <1>2, ErrorIsEvent DEF tryToSendErrorEvent, WithRetries

(* The records of the watches keep their types and the capacity of their   *)
(* channels, and a goroutine sends only what has happened.                 *)
GoodWatch(w) ==
  /\ w \in WatchRecord /\ Len(w.buf) <= WatchBuffer
  /\ w.next # 0 /\ (w.go = "send" => w.next <= revision)

WatchesOK == watches \in Seq(WatchRecord) /\ \A s \in DOMAIN watches : GoodWatch(watches[s])

LEMMA WatchesKept ==
  ASSUME WatchesOK, UNCHANGED history, NEW s \in DOMAIN watches, NEW w, GoodWatch(w),
         watches' = [watches EXCEPT ![s] = w]
  PROVE  WatchesOK' /\ Len(watches') = Len(watches)
BY DEF WatchesOK, GoodWatch, revision

LEMMA WatchesSame ==
  ASSUME WatchesOK, UNCHANGED <<history, watches>>
  PROVE  WatchesOK'
BY DEF WatchesOK, GoodWatch, revision

LEMMA ClientsNat ==
  ASSUME OneClient
  PROVE  etcdCli \in {"nil", "open", "closed"} /\ clients \in Nat
BY DEF OneClient

(* The other variables.                                                    *)
RestOK ==
  /\ history \in Seq(Changes)
  /\ ctxDone \in BOOLEAN /\ reading \in BOOLEAN
  /\ loop \in {"new", "ensure", "list", "existing", "watch", "forward", "send", "backoff", "cleanup", "stopped"}
  /\ existing \subseteq Event /\ event \in Event
  /\ panic \in {"none", "nil logger", "send on closed channel"}
  /\ got \in [Keys -> Event]
  /\ listed \in Nat /\ since \in Nat /\ faults \in 0..MaxFaults

(* Only a loop that has begun to watch needs the record of its watch.      *)
Types ==
  /\ ChannelOK /\ WatchesOK /\ RestOK /\ OneClient
  /\ loop \in {"forward", "send"} => watches # <<>>

LEMMA FaultCounted ==
  ASSUME faults \in 0..MaxFaults, Fault \/ RequestFails \/ RequestSucceeds \/ UNCHANGED faults
  PROVE  faults' \in 0..MaxFaults
BY SMTT(60), ListWatchAssumption DEF Fault, RequestFails, RequestSucceeds

LEMMA LoopTypes ==
  ASSUME Types, runListWatchLoop
  PROVE  Types'
<1>0. OneClient'
  BY LoopKeepsOneClient DEF Types
<1>1. CASE ensureConnected
  <2>1. UNCHANGED <<history, ctxDone, existing, event, watches, got, reading, listed, since>>
    BY <1>1 DEF ensureConnected
  <2>2. /\ tryToSendErrorEvent \/ UNCHANGED ch
        /\ loop' \in {"list", "backoff", "ensure"} /\ panic' \in {panic, "nil logger"}
        /\ Fault \/ UNCHANGED faults
    BY <1>1, Zenon DEF ensureConnected, Logged, Panics
  <2>. QED
    BY <1>0, <2>1, <2>2, ChannelKept, WatchesSame, FaultCounted DEF Types, RestOK
<1>2. CASE listAndSendExisting
  <2>1. UNCHANGED <<history, ctxDone, event, watches, got, reading, since>>
    BY <1>2 DEF listAndSendExisting
  <2>2. /\ tryToSendErrorEvent \/ UNCHANGED ch
        /\ loop' \in {"existing", "backoff", "list"} /\ panic' \in {panic, "nil logger"}
        /\ RequestSucceeds \/ RequestFails
        /\ UNCHANGED <<existing, listed>> \/ (existing' = List /\ listed' = revision)
    BY <1>2, Zenon DEF listAndSendExisting, Logged, Panics
  <2>3. List \subseteq Event /\ revision \in Nat
    <3>1. history \in Seq(Changes) /\ Contents \subseteq 1..revision
      BY DEF Types, RestOK, Contents
    <3>2. \A r \in Contents : EventAt(r) \in Event
      BY <3>1, ChangeIsEvent
    <3>. QED
      BY <3>1, <3>2 DEF List, revision
  <2>. QED
    BY <1>0, <2>1, <2>2, <2>3, ChannelKept, WatchesSame, FaultCounted DEF Types, RestOK
<1>3. CASE sendExisting
  <2>1. UNCHANGED <<history, ctxDone, event, watches, panic, got, reading, listed, since, faults>>
    BY <1>3 DEF sendExisting
  <2>2. /\ UNCHANGED ch \/ (Room /\ \E e \in Event : ch' = Append(ch, e))
        /\ loop' \in {"watch", "existing", "backoff"} /\ existing' \subseteq existing
    BY <1>3 DEF sendExisting, Types, RestOK
  <2>. QED
    BY <1>0, <2>1, <2>2, ChannelKept, WatchesSame DEF Types, RestOK
<1>4. CASE Watch
  <2>1. UNCHANGED <<history, ctxDone, existing, event, got, reading, listed>>
    BY <1>4 DEF Watch
  <2>2. /\ tryToSendErrorEvent \/ UNCHANGED ch
        /\ panic' \in {panic, "nil logger"}
        /\ RequestSucceeds \/ RequestFails
        /\ \/ UNCHANGED <<watches, since>> /\ loop' \in {"backoff", "watch"}
           \/ /\ since' = revision /\ loop' = "forward"
              /\ watches' = Append(watches, [next |-> WatchFrom(revision), stream |-> "open",
                                             go |-> "range", buf |-> <<>>, monitor |-> "waiting"])
    BY <1>4, Zenon DEF Watch, Logged, Panics
  <2>3. revision \in Nat /\ WatchFrom(revision) \in Nat \ {0}
    <3>1. history \in Seq(Changes)
      BY DEF Types, RestOK
    <3>. QED
      BY <3>1 DEF revision, WatchFrom
  <2>4. WatchesOK' /\ (loop' = "forward" => watches' # <<>>)
    <3>. DEFINE w == [next |-> WatchFrom(revision), stream |-> "open",
                      go |-> "range", buf |-> <<>>, monitor |-> "waiting"]
    <3>1. w \in WatchRecord /\ w.buf = <<>> /\ w.next # 0 /\ w.go # "send"
      BY <2>3 DEF WatchRecord
    <3>2. GoodWatch(w)
      BY <3>1, ListWatchAssumption DEF GoodWatch
    <3>3. CASE UNCHANGED watches /\ loop' # "forward"
      BY <3>3, <2>1, WatchesSame DEF Types
    <3>4. CASE watches' = Append(watches, w)
      <4>. HIDE DEF w
      <4>. QED
        BY <3>4, <3>1, <3>2, <2>1 DEF Types, WatchesOK, GoodWatch, revision
    <3>. QED
      BY <2>2, <3>3, <3>4
  <2>. QED
    BY <1>0, <2>1, <2>2, <2>3, <2>4, ChannelKept, FaultCounted DEF Types, RestOK
<1>5. CASE watchAndForwardEvents
  <2>. DEFINE s == Len(watches)
              w == watches[s]
  <2>1. /\ UNCHANGED <<history, ctxDone, existing, got, reading, listed, since, faults>>
        /\ loop = "forward"
    BY <1>5 DEF watchAndForwardEvents
  <2>2. /\ tryToSendErrorEvent \/ UNCHANGED ch \/ (Room /\ ch' = Append(ch, ErrorEvent))
        /\ loop' \in {"forward", "send", "backoff"} /\ panic' \in {panic, "nil logger"}
        /\ UNCHANGED event \/ (event' = Head(w.buf) /\ w.buf # <<>>)
        /\ \/ UNCHANGED watches
           \/ w.buf # <<>> /\ watches' = [watches EXCEPT ![s].buf = Tail(w.buf)]
    BY <1>5 DEF watchAndForwardEvents, handleWatchChannelClose, leaveWatch, Logged, Panics
  <2>3. s \in DOMAIN watches /\ GoodWatch(w) /\ w \in WatchRecord /\ w.buf \in Seq(Event)
    <3>1. watches \in Seq(WatchRecord) /\ watches # <<>>
      BY <2>1 DEF Types, WatchesOK
    <3>2. s \in DOMAIN watches /\ w \in WatchRecord
      BY <3>1
    <3>. QED
      BY <3>2 DEF Types, WatchesOK, WatchRecord
  <2>4. WatchesOK' /\ watches' # <<>>
    <3>0. WatchesOK
      BY DEF Types
    <3>1. CASE UNCHANGED watches
      BY <3>1, <3>0, <2>1, WatchesSame DEF Types
    <3>2. CASE w.buf # <<>> /\ watches' = [watches EXCEPT ![s].buf = Tail(w.buf)]
      <4>. DEFINE v == [w EXCEPT !.buf = Tail(w.buf)]
      <4>1. GoodWatch(v)
        <5>1. Tail(w.buf) \in Seq(Event) /\ Len(Tail(w.buf)) <= WatchBuffer
          BY SMTT(60), <2>3, <3>2, HeadAndTail, ListWatchAssumption DEF GoodWatch
        <5>. QED
          BY <2>3, <5>1 DEF WatchRecord, GoodWatch
      <4>2. watches' = [watches EXCEPT ![s] = v]
        BY <3>2
      <4>. HIDE DEF v
      <4>3. WatchesOK' /\ Len(watches') = Len(watches)
        BY <4>1, <4>2, <3>0, <2>1, <2>3, WatchesKept
      <4>4. Len(watches) # 0
        BY <2>3, <3>0 DEF WatchesOK
      <4>. QED
        BY <4>3, <4>4
    <3>. QED
      BY <2>2, <3>1, <3>2
  <2>5. event' \in Event
    <3>1. event \in Event
      BY DEF Types, RestOK
    <3>2. w.buf # <<>> => Head(w.buf) \in Event
      BY <2>3, HeadAndTail
    <3>. QED
      BY <2>2, <3>1, <3>2
  <2>. QED
    BY <1>0, <2>1, <2>2, <2>4, <2>5, ChannelKept, ErrorIsEvent DEF Types, RestOK
<1>6. CASE sendEvent
  <2>1. UNCHANGED <<history, ctxDone, existing, watches, panic, got, reading, listed, since, faults>>
    BY <1>6 DEF sendEvent
  <2>2. /\ UNCHANGED ch \/ (Room /\ \E e \in Event : ch' = Append(ch, e))
        /\ loop' \in {"forward", "backoff"} /\ event' = ErrorEvent /\ loop = "send"
    BY <1>6 DEF sendEvent, leaveWatch, Types, RestOK
  <2>. QED
    BY <1>0, <2>1, <2>2, ChannelKept, WatchesSame, ErrorIsEvent DEF Types, RestOK
<1>7. CASE backoffExpires
  BY <1>0, <1>7, ChannelKept, WatchesSame DEF backoffExpires, Types, RestOK
<1>8. CASE backoffStops
  BY <1>0, <1>8, ChannelKept, WatchesSame DEF backoffStops, Types, RestOK
<1>9. CASE handleCleanup
  <2>1. tryToSendErrorEvent /\ loop' = "stopped" /\ panic' \in {panic, "nil logger"}
    BY <1>9 DEF handleCleanup
  <2>2. UNCHANGED <<history, ctxDone, existing, event, watches, got, reading, listed, since, faults>>
    BY <1>9 DEF handleCleanup
  <2>. QED
    BY <1>0, <2>1, <2>2, ChannelKept, WatchesSame DEF Types, RestOK
<1>. QED
  BY <1>1, <1>2, <1>3, <1>4, <1>5, <1>6, <1>7, <1>8, <1>9 DEF runListWatchLoop

(* What the goroutines of watch s do to its record v, and to the rest.     *)
GoroutineDoes(s, v) ==
  LET w == watches[s] IN
  \/ v.buf = w.buf /\ v.next = w.next
  \/ w.go = "send" /\ v.buf = Append(w.buf, EventAt(w.next)) /\ v.next = w.next + 1
  \/ v.buf = Append(w.buf, ErrorEvent) /\ v.next = w.next

LEMMA GoroutineSteps ==
  ASSUME Types, NEW s \in DOMAIN watches, watchGoroutines(s)
  PROVE  /\ UNCHANGED <<history, ctxDone, etcdCli, clients, loop, existing, event, got, reading,
                        listed, since, faults>>
         /\ panic' \in {panic, "send on closed channel"}
         /\ tryToSendErrorEvent \/ UNCHANGED ch
         /\ \E v : GoodWatch(v) /\ watches' = [watches EXCEPT ![s] = v] /\ GoroutineDoes(s, v)
<1>. DEFINE w == watches[s]
<1>0. GoodWatch(w) /\ w \in WatchRecord /\ w.buf \in Seq(Event) /\ w.next \in Nat /\ watches \in Seq(WatchRecord)
  BY DEF Types, WatchesOK, GoodWatch, WatchRecord
<1>1. UNCHANGED <<history, ctxDone, etcdCli, clients, loop, existing, event, got, reading, listed, since, faults>>
  BY DEF watchGoroutines, watchReceives, watchSends, monitorWakes, monitorSends, Panics
<1>2. panic' \in {panic, "send on closed channel"} /\ (tryToSendErrorEvent \/ UNCHANGED ch)
  BY DEF watchGoroutines, watchReceives, watchSends, monitorWakes, monitorSends, Panics
<1>3. \E v : GoodWatch(v) /\ watches' = [watches EXCEPT ![s] = v] /\ GoroutineDoes(s, v)
  <2>1. CASE watchReceives(s)
    <3>1. PICK g \in {"send", "error", "done"} : /\ watches' = [watches EXCEPT ![s].go = g]
                                                 /\ g = "send" => w.next <= revision
      BY <2>1 DEF watchReceives
    <3>. DEFINE v == [w EXCEPT !.go = g]
    <3>2. GoodWatch(v) /\ GoroutineDoes(s, v)
      BY <1>0, <3>1 DEF WatchRecord, GoodWatch, GoroutineDoes
    <3>3. watches' = [watches EXCEPT ![s] = v]
      BY <3>1
    <3>. QED
      BY <3>2, <3>3
  <2>2. CASE watchSends(s) /\ w.go = "send"
    <3>. DEFINE b == Append(w.buf, EventAt(w.next))
                n == w.next + 1
                v == [w EXCEPT !.buf = b, !.next = n, !.go = "range"]
    <3>1. EventAt(w.next) \in Event
      <4>1. history \in Seq(Changes)
        BY DEF Types, RestOK
      <4>2. revision \in Nat
        BY <4>1 DEF revision
      <4>3. w.next \in 1..revision
        BY <2>2, <1>0, <4>2 DEF GoodWatch
      <4>. QED
        BY <4>1, <4>3, ChangeIsEvent
    <3>2. b \in Seq(Event) /\ Len(b) <= WatchBuffer /\ n \in Nat
      BY SMTT(60), <2>2, <1>0, <3>1, ListWatchAssumption DEF watchSends
    <3>3. v.buf = b /\ v.next = n /\ v.go = "range"
      BY <1>0 DEF WatchRecord
    <3>4. v \in WatchRecord
      <4>. HIDE DEF b, n
      <4>. QED
        BY <1>0, <3>2 DEF WatchRecord
    <3>5. GoodWatch(v) /\ GoroutineDoes(s, v)
      <4>. HIDE DEF v
      <4>. QED
        BY <2>2, <1>0, <3>2, <3>3, <3>4 DEF GoodWatch, GoroutineDoes
    <3>6. watches' = [watches EXCEPT ![s] = v]
      BY <2>2 DEF watchSends
    <3>. QED
      BY <3>5, <3>6
  <2>3. CASE watchSends(s) /\ w.go # "send"
    <3>. DEFINE v == [w EXCEPT !.buf = Append(w.buf, ErrorEvent), !.go = "done"]
    <3>1. Append(w.buf, ErrorEvent) \in Seq(Event) /\ Len(Append(w.buf, ErrorEvent)) <= WatchBuffer
      BY <2>3, <1>0, ErrorIsEvent, ListWatchAssumption DEF watchSends
    <3>2. GoodWatch(v) /\ GoroutineDoes(s, v)
      BY <1>0, <3>1 DEF WatchRecord, GoodWatch, GoroutineDoes
    <3>3. watches' = [watches EXCEPT ![s] = v]
      BY <2>3 DEF watchSends
    <3>. QED
      BY <3>2, <3>3
  <2>4. CASE monitorWakes(s) \/ monitorSends(s)
    <3>1. PICK m \in {"waiting", "sending", "done"} : watches' = [watches EXCEPT ![s].monitor = m]
      <4>1. CASE UNCHANGED watches
        BY SMTT(60), <4>1, <1>0 DEF WatchRecord
      <4>. QED
        BY <2>4, <4>1 DEF monitorWakes, monitorSends, Panics
    <3>. DEFINE v == [w EXCEPT !.monitor = m]
    <3>2. GoodWatch(v) /\ GoroutineDoes(s, v)
      BY <1>0 DEF WatchRecord, GoodWatch, GoroutineDoes
    <3>3. watches' = [watches EXCEPT ![s] = v]
      BY <3>1
    <3>. QED
      BY <3>2, <3>3
  <2>. QED
    BY <2>1, <2>2, <2>3, <2>4 DEF watchGoroutines
<1>. QED
  BY <1>1, <1>2, <1>3

LEMMA ConsumerSteps ==
  ASSUME Types, Receive \/ StopReading \/ Cancel \/ StreamBreaks \/ ListAndWatch
  PROVE  /\ UNCHANGED <<history, etcdCli, clients, existing, event, panic, listed, since>>
         /\ loop' = loop \/ loop' = "backoff"
         /\ ctxDone' \in BOOLEAN /\ reading' \in BOOLEAN /\ faults' \in 0..MaxFaults
         /\ \/ UNCHANGED <<ch, got>>
            \/ /\ ch # <<>> /\ ch' = Tail(ch)
               /\ got' = IF Head(ch).key = NoKey THEN got ELSE [got EXCEPT ![Head(ch).key] = Head(ch)]
         /\ \/ UNCHANGED watches
            \/ /\ loop \in {"forward", "send"}
               /\ \E how \in {"error", "closed"} :
                    watches' = [watches EXCEPT ![Len(watches)].stream = how]
<1>0. ctxDone \in BOOLEAN /\ reading \in BOOLEAN /\ faults \in 0..MaxFaults
  BY DEF Types, RestOK
<1>1. CASE Receive
  BY <1>0, <1>1, Zenon DEF Receive
<1>2. CASE StopReading
  BY <1>0, <1>2, Zenon DEF StopReading
<1>3. CASE Cancel
  BY <1>0, <1>3, Zenon DEF Cancel
<1>4. CASE StreamBreaks
  <2>1. faults' \in 0..MaxFaults
    BY <1>0, <1>4, FaultCounted DEF StreamBreaks
  <2>. QED
    BY <1>0, <1>4, <2>1, Zenon DEF StreamBreaks, Current
<1>5. CASE ListAndWatch
  BY <1>0, <1>5, Zenon DEF ListAndWatch
<1>. QED
  BY <1>1, <1>2, <1>3, <1>4, <1>5

LEMMA TypesInductive ==
  ASSUME Types, [ListWatchNext]_<<history, lwVars>>
  PROVE  Types'
<1>0. /\ ChannelOK /\ WatchesOK /\ RestOK /\ OneClient
      /\ loop \in {"forward", "send"} => watches # <<>>
  BY DEF Types
<1>1. CASE runListWatchLoop
  BY <1>1, LoopTypes
<1>2. CASE \E s \in DOMAIN watches : watchGoroutines(s)
  <2>1. PICK s \in DOMAIN watches : watchGoroutines(s)
    BY <1>2
  <2>2. UNCHANGED <<history, ctxDone, etcdCli, clients, loop, existing, event, got, reading, listed, since, faults>>
    BY <2>1, GoroutineSteps
  <2>3. panic' \in {panic, "send on closed channel"} /\ (tryToSendErrorEvent \/ UNCHANGED ch)
    BY <2>1, GoroutineSteps
  <2>4. PICK v : GoodWatch(v) /\ watches' = [watches EXCEPT ![s] = v]
    BY <2>1, GoroutineSteps
  <2>5. WatchesOK' /\ watches' # <<>>
    <3>1. WatchesOK' /\ Len(watches') = Len(watches)
      BY <1>0, <2>2, <2>4, WatchesKept
    <3>2. Len(watches) # 0
      BY <1>0 DEF WatchesOK
    <3>. QED
      BY <3>1, <3>2
  <2>6. ChannelOK'
    BY <1>0, <2>3, ChannelKept
  <2>. QED
    BY <1>0, <2>2, <2>3, <2>5, <2>6 DEF Types, RestOK, OneClient
<1>3. CASE Receive \/ StopReading \/ Cancel \/ StreamBreaks \/ ListAndWatch
  <2>1. ChannelOK' /\ got' \in [Keys -> Event]
    <3>1. CASE UNCHANGED <<ch, got>>
      BY <3>1, <1>0 DEF ChannelOK, RestOK
    <3>2. CASE /\ ch # <<>> /\ ch' = Tail(ch)
               /\ got' = IF Head(ch).key = NoKey THEN got ELSE [got EXCEPT ![Head(ch).key] = Head(ch)]
      <4>1. ch \in Seq(Event) /\ Len(ch) <= EventChannelBuffer
        BY <1>0 DEF ChannelOK
      <4>2. Head(ch) \in Event /\ Tail(ch) \in Seq(Event) /\ Len(Tail(ch)) <= EventChannelBuffer
        BY SMTT(60), <3>2, <4>1, HeadAndTail, ListWatchAssumption
      <4>3. got \in [Keys -> Event]
        BY <1>0 DEF RestOK
      <4>. QED
        BY <3>2, <4>2, <4>3 DEF ChannelOK
    <3>. QED
      BY <1>3, <3>1, <3>2, ConsumerSteps
  <2>2. WatchesOK' /\ (watches # <<>> => watches' # <<>>)
    <3>1. CASE UNCHANGED watches
      BY <3>1, <1>0, <1>3, ConsumerSteps, WatchesSame
    <3>2. CASE /\ loop \in {"forward", "send"}
               /\ \E how \in {"error", "closed"} : watches' = [watches EXCEPT ![Len(watches)].stream = how]
      <4>. DEFINE s == Len(watches)
                  w == watches[s]
      <4>1. s \in DOMAIN watches /\ GoodWatch(w)
        BY SMTT(60), <3>2, <1>0 DEF WatchesOK
      <4>2. PICK how \in {"error", "closed"} : watches' = [watches EXCEPT ![s].stream = how]
        BY <3>2
      <4>. DEFINE v == [w EXCEPT !.stream = how]
      <4>3. GoodWatch(v)
        BY <4>1 DEF GoodWatch, WatchRecord
      <4>4. watches' = [watches EXCEPT ![s] = v]
        BY <4>2
      <4>. HIDE DEF v
      <4>5. WatchesOK' /\ Len(watches') = Len(watches)
        BY <1>0, <1>3, <4>1, <4>3, <4>4, ConsumerSteps, WatchesKept
      <4>. QED
        BY <4>5
    <3>. QED
      BY <1>3, <3>1, <3>2, ConsumerSteps
  <2>3. /\ UNCHANGED <<history, etcdCli, clients, existing, event, panic, listed, since>>
        /\ loop' = loop \/ loop' = "backoff"
        /\ ctxDone' \in BOOLEAN /\ reading' \in BOOLEAN /\ faults' \in 0..MaxFaults
    BY <1>3, ConsumerSteps
  <2>4. RestOK'
    BY <1>0, <2>1, <2>3 DEF RestOK
  <2>5. OneClient'
    BY <1>0, <2>3 DEF OneClient
  <2>6. loop' \in {"forward", "send"} => watches' # <<>>
    BY <1>0, <2>2, <2>3
  <2>. QED
    BY <2>1, <2>2, <2>4, <2>5, <2>6 DEF Types
<1>4. CASE Write /\ UNCHANGED lwVars
  <2>1. history \in Seq(Changes)
    BY <1>0 DEF RestOK
  <2>2. history' \in Seq(Changes) /\ revision' = revision + 1 /\ revision \in Nat
    BY <1>4, <2>1, WriteAppends DEF revision
  <2>3. WatchesOK'
    BY SMTT(60), <1>0, <1>4, <2>2 DEF WatchesOK, GoodWatch, WatchRecord, lwVars
  <2>4. RestOK'
    BY <1>0, <1>4, <2>2 DEF RestOK, lwVars
  <2>5. ChannelOK' /\ OneClient'
    BY <1>0, <1>4 DEF ChannelOK, OneClient, lwVars
  <2>6. loop' \in {"forward", "send"} => watches' # <<>>
    BY <1>0, <1>4 DEF lwVars
  <2>. QED
    BY <2>3, <2>4, <2>5, <2>6 DEF Types
<1>5. CASE UNCHANGED <<history, lwVars>>
  <2>1. WatchesOK' /\ ChannelOK' /\ OneClient'
    BY <1>0, <1>5, WatchesSame DEF Types, ChannelOK, OneClient, lwVars
  <2>2. RestOK' /\ loop' = loop /\ watches' = watches
    BY <1>0, <1>5 DEF RestOK, lwVars
  <2>. QED
    BY <1>0, <2>1, <2>2 DEF Types
<1>. QED
  BY <1>1, <1>2, <1>3, <1>4, <1>5 DEF ListWatchNext

LEMMA TypesInit ==
  ASSUME EtcdWatchInit, ListWatchInit
  PROVE  Types
<1>1. ctxDone \in BOOLEAN /\ reading \in BOOLEAN
  BY Zenon DEF ListWatchInit
<1>2. /\ history \in Seq(Changes) /\ ch \in Seq(Event) /\ Len(ch) <= EventChannelBuffer
      /\ watches \in Seq(WatchRecord) /\ \A s \in DOMAIN watches : GoodWatch(watches[s])
  BY ListWatchAssumption DEF EtcdWatchInit, ListWatchInit
<1>3. got \in [Keys -> Event]
  BY DEF ListWatchInit, Event
<1>4. loop = "new" /\ panic = "none" /\ existing = {} /\ event \in Event
  BY ErrorIsEvent DEF ListWatchInit
<1>5. listed \in Nat /\ since \in Nat /\ faults \in 0..MaxFaults /\ OneClient
  BY ListWatchAssumption DEF ListWatchInit, OneClient
<1>. QED
  BY <1>1, <1>2, <1>3, <1>4, <1>5 DEF Types, ChannelOK, WatchesOK, RestOK

(* Whatever the goroutines of a ListWatch, its consumer and etcd do, every *)
(* variable keeps its type and no channel holds more than its capacity.    *)
THEOREM ListWatchTypes == ListWatchSpec => []ListWatchTypeOK
<1>1. EtcdWatchInit /\ ListWatchInit => Types
  BY TypesInit
<1>2. Types /\ [ListWatchNext]_<<history, lwVars>> => Types'
  BY TypesInductive
<1>3. ASSUME Types PROVE ListWatchTypeOK
  <2>1. \A s \in DOMAIN watches : Len(watches[s].buf) <= WatchBuffer
    BY <1>3 DEF Types, WatchesOK, GoodWatch
  <2>2. etcdCli \in {"nil", "open", "closed"} /\ clients \in Nat
    BY <1>3, ClientsNat DEF Types
  <2>. QED
    BY <1>3, <2>1, <2>2 DEF Types, ChannelOK, WatchesOK, RestOK, ListWatchTypeOK
<1>. QED
  BY <1>1, <1>2, <1>3, PTL DEF ListWatchSpec

-----------------------------------------------------------------------------
(* The order of the events *)

(* e is the event of a change that was made (or the consumer has none).    *)
Happened(e, log) ==
  \/ e.rev = 0
  \/ /\ e.rev \in 1..Len(log) /\ log[e.rev].key = e.key
     /\ e.type \in IF log[e.rev].op = "DELETE" THEN {"DELETED"} ELSE {"ADDED", "MODIFIED"}

(* The event that List and Watch make of the change at revision r.         *)
LEMMA EventHappened ==
  ASSUME history \in Seq(Changes), NEW r \in 1..revision
  PROVE  Happened(EventAt(r), history)
<1>1. EventAt(r).rev = r /\ EventAt(r).key = history[r].key
  BY ChangeIsEvent
<1>2. EventAt(r).type \in IF history[r].op = "DELETE" THEN {"DELETED"} ELSE {"ADDED", "MODIFIED"}
  BY DEF EventAt
<1>. QED
  BY <1>1, <1>2 DEF Happened, revision

(* What has been sent for key k, or for every key, is not newer than r:    *)
(* neither what is in the channel c nor what the consumer has, g.          *)
SentUpTo(k, r, c, g) ==
  /\ g[k].rev <= r
  /\ \A i \in DOMAIN c : c[i].key = k => c[i].rev <= r

AllSentUpTo(r, c, g) == \A k \in Keys : SentUpTo(k, r, c, g)

(* The event channel and the consumer.                                     *)
ChannelInOrder ==
  /\ \A k \in Keys : got[k].key = k /\ Happened(got[k], history)
  /\ \A i \in DOMAIN ch : ch[i].key # NoKey =>
       /\ Happened(ch[i], history)
       /\ got[ch[i].key].rev <= ch[i].rev
       /\ \A j \in 1..i : ch[j].key = ch[i].key => ch[j].rev <= ch[i].rev

(* The listed events that are still to be sent.                            *)
ExistingInOrder ==
  /\ loop # "existing" => existing = {}
  /\ \A e \in existing :
       /\ e.key # NoKey /\ Happened(e, history) /\ SentUpTo(e.key, e.rev, ch, got)
       /\ \A f \in existing : f.key = e.key => f.rev = e.rev

(* The events of a watch w: those in the inner channel, and the next one   *)
(* of the stream.                                                          *)
WatchInOrder(w, c, g, log) ==
  /\ \A i \in DOMAIN w.buf : w.buf[i] # ErrorEvent =>
       /\ w.buf[i].key # NoKey /\ Happened(w.buf[i], log)
       /\ AllSentUpTo(w.buf[i].rev, c, g) /\ w.buf[i].rev < w.next
       /\ \A j \in 1..i : w.buf[j] # ErrorEvent => w.buf[j].rev <= w.buf[i].rev
  /\ AllSentUpTo(w.next, c, g)
  /\ w.next <= Len(log) + 1

(* The event e that the loop has taken from watch w.                       *)
EventInOrder(e, w, c, g, log) ==
  /\ e.key # NoKey /\ Happened(e, log) /\ AllSentUpTo(e.rev, c, g)
  /\ e.rev < w.next
  /\ \A i \in DOMAIN w.buf : w.buf[i] # ErrorEvent => e.rev <= w.buf[i].rev

PipelineInOrder ==
  /\ ChannelInOrder /\ ExistingInOrder
  /\ loop \in {"forward", "send"} => WatchInOrder(watches[Len(watches)], ch, got, history)
  /\ loop = "send" => EventInOrder(event, watches[Len(watches)], ch, got, history)

(* Everything sent up to some point still is after the channel and the     *)
(* consumer have changed from c and g to d and h.                          *)
StillSentUpTo(c, g, d, h) == \A k \in Keys : \A r \in Nat : SentUpTo(k, r, c, g) => SentUpTo(k, r, d, h)

(* A change that was made stays made.                                      *)
LEMMA HappenedStays ==
  ASSUME history \in Seq(Changes), Write \/ UNCHANGED history, NEW e, Happened(e, history)
  PROVE  Happened(e, history')
<1>1. /\ Len(history) \in Nat /\ Len(history') \in Nat /\ Len(history) <= Len(history')
      /\ \A i \in 1..Len(history) : history'[i] = history[i]
  <2>1. CASE Write
    BY <2>1, WriteAppends DEF revision
  <2>2. CASE UNCHANGED history
    BY <2>2
  <2>. QED
    BY <2>1, <2>2
<1>. QED
  BY SMTT(60), <1>1 DEF Happened

(* Sending e to the event channel.                                         *)
LEMMA SendInOrder ==
  ASSUME Types, ChannelInOrder, UNCHANGED <<history, got>>,
         NEW e \in Event, ch' = Append(ch, e),
         e.key # NoKey => Happened(e, history) /\ SentUpTo(e.key, e.rev, ch, got)
  PROVE  ChannelInOrder'
<1>1. ch \in Seq(Event) /\ Len(ch) \in Nat
  BY DEF Types, ChannelOK
<1>2. Len(ch') = Len(ch) + 1 /\ ch'[Len(ch) + 1] = e /\ \A i \in 1..Len(ch) : ch'[i] = ch[i]
      /\ DOMAIN ch' = 1..Len(ch) + 1 /\ DOMAIN ch = 1..Len(ch)
  BY <1>1
<1>3. ASSUME NEW i \in 1..Len(ch) + 1, ch'[i].key # NoKey
      PROVE  /\ Happened(ch'[i], history)
             /\ got[ch'[i].key].rev <= ch'[i].rev
             /\ \A j \in 1..i : ch'[j].key = ch'[i].key => ch'[j].rev <= ch'[i].rev
  <2>1. CASE i \in 1..Len(ch)
    BY SMTT(60), <1>1, <1>2, <1>3, <2>1 DEF ChannelInOrder
  <2>2. CASE i = Len(ch) + 1
    <3>1. ch'[i] = e /\ e.rev \in Nat
      BY <1>2, <2>2 DEF Event
    <3>. QED
      BY SMTT(60), <1>1, <1>2, <1>3, <2>2, <3>1 DEF SentUpTo
  <2>. QED
    BY <1>1, <2>1, <2>2
<1>. QED
  BY SMTT(60), <1>2, <1>3 DEF ChannelInOrder

LEMMA SendUpTo ==
  ASSUME Types, NEW e, ch' = Append(ch, e), UNCHANGED got,
         NEW k, NEW r, SentUpTo(k, r, ch, got), e.key = k => e.rev <= r
  PROVE  SentUpTo(k, r, ch', got')
<1>1. ch \in Seq(Event) /\ Len(ch) \in Nat
  BY DEF Types, ChannelOK
<1>2. Len(ch') = Len(ch) + 1 /\ ch'[Len(ch) + 1] = e /\ \A i \in 1..Len(ch) : ch'[i] = ch[i]
      /\ DOMAIN ch' = 1..Len(ch) + 1 /\ DOMAIN ch = 1..Len(ch)
  BY <1>1
<1>. QED
  BY SMTT(60), <1>1, <1>2 DEF SentUpTo

(* An Error event in the channel, or nothing, disturbs no order.           *)
LEMMA ErrorSent ==
  ASSUME Types, ChannelInOrder, UNCHANGED <<history, got>>,
         \/ tryToSendErrorEvent
         \/ UNCHANGED ch
         \/ Room /\ ch' = Append(ch, ErrorEvent)
  PROVE  ChannelInOrder' /\ StillSentUpTo(ch, got, ch', got')
<1>1. CASE UNCHANGED ch
  BY <1>1 DEF ChannelInOrder, StillSentUpTo
<1>2. CASE ch' = Append(ch, ErrorEvent)
  <2>1. ErrorEvent.key = NoKey /\ NoKey \notin Keys
    BY ListWatchAssumption DEF ErrorEvent, NoKey
  <2>. QED
    BY <1>2, <2>1, ErrorIsEvent, SendInOrder, SendUpTo DEF StillSentUpTo
<1>. QED
  BY <1>1, <1>2 DEF tryToSendErrorEvent, WithRetries

(* The events of a watch, and the one taken from it, stay in order when    *)
(* the channel and the consumer move on.                                   *)
LEMMA WatchStaysInOrder ==
  ASSUME Types, NEW w, GoodWatch(w), WatchInOrder(w, ch, got, history),
         StillSentUpTo(ch, got, ch', got'), Write \/ UNCHANGED history
  PROVE  WatchInOrder(w, ch', got', history')
<1>1. w.next \in Nat /\ w.buf \in Seq(Event) /\ history \in Seq(Changes)
  BY DEF GoodWatch, WatchRecord, Types, RestOK
<1>2. \A i \in DOMAIN w.buf : w.buf[i].rev \in Nat
  <2>1. \A i \in DOMAIN w.buf : w.buf[i] \in Event
    BY <1>1
  <2>. QED
    BY <2>1 DEF Event
<1>3. \A r \in Nat : AllSentUpTo(r, ch, got) => AllSentUpTo(r, ch', got')
  BY DEF StillSentUpTo, AllSentUpTo
<1>4. Len(history) \in Nat /\ Len(history') \in Nat /\ Len(history) <= Len(history')
  BY <1>1, WriteAppends DEF revision
<1>5. \A i \in DOMAIN w.buf : Happened(w.buf[i], history) => Happened(w.buf[i], history')
  BY <1>1, HappenedStays
<1>. QED
  BY <1>1, <1>2, <1>3, <1>4, <1>5 DEF WatchInOrder

LEMMA EventStaysInOrder ==
  ASSUME Types, NEW e \in Event, NEW w, EventInOrder(e, w, ch, got, history),
         StillSentUpTo(ch, got, ch', got'), Write \/ UNCHANGED history
  PROVE  EventInOrder(e, w, ch', got', history')
<1>1. e.rev \in Nat /\ history \in Seq(Changes)
  BY DEF Event, Types, RestOK
<1>2. AllSentUpTo(e.rev, ch', got')
  BY <1>1 DEF EventInOrder, StillSentUpTo, AllSentUpTo
<1>3. Happened(e, history')
  BY <1>1, HappenedStays DEF EventInOrder
<1>. QED
  BY <1>2, <1>3 DEF EventInOrder

(* A step that leaves the list and the watch phase, or stays outside them. *)
LEMMA OutsideInOrder ==
  ASSUME Types, ChannelInOrder', loop' \notin {"existing", "forward", "send"}, existing' = {}
  PROVE  PipelineInOrder'
BY DEF PipelineInOrder, ExistingInOrder

(* List reads the last change of every key that has a value.               *)
LEMMA ListInOrder ==
  ASSUME Types, ChannelInOrder, NEW e \in List
  PROVE  /\ e.key # NoKey /\ Happened(e, history) /\ SentUpTo(e.key, e.rev, ch, got)
         /\ \A f \in List : f.key = e.key => f.rev = e.rev
<1>0. /\ history \in Seq(Changes) /\ ch \in Seq(Event) /\ got \in [Keys -> Event]
      /\ NoKey \notin Keys
  BY ListWatchAssumption DEF Types, ChannelOK, RestOK, NoKey
<1>1. revision \in Nat /\ revision = Len(history)
  BY SMTT(60), <1>0 DEF revision
<1>2. \A f \in List : \E q \in Contents :
        /\ q \in 1..revision /\ f.rev = q /\ f.key = history[q].key /\ f.key \in Keys
        /\ Happened(f, history)
        /\ \A j \in 1..revision : history[j].key = f.key => j <= q
  <2>1. ASSUME NEW q \in Contents
        PROVE  /\ q \in 1..revision
               /\ \A j \in 1..revision : history[j].key = history[q].key => j <= q
    BY DEF Contents, ChangesOf
  <2>2. ASSUME NEW q \in Contents
        PROVE  /\ EventAt(q).rev = q /\ EventAt(q).key = history[q].key /\ history[q].key \in Keys
               /\ Happened(EventAt(q), history)
    BY <1>0, <2>1, ChangeIsEvent, EventHappened
  <2>. QED
    BY SMTT(60), <2>1, <2>2 DEF List
<1>3. PICK q \in Contents :
        /\ q \in 1..revision /\ e.rev = q /\ e.key = history[q].key /\ e.key \in Keys
        /\ Happened(e, history)
        /\ \A j \in 1..revision : history[j].key = e.key => j <= q
  BY <1>2
<1>4. e.key # NoKey /\ Happened(e, history)
  BY <1>0, <1>3
<1>5. SentUpTo(e.key, e.rev, ch, got)
  <2>1. ASSUME NEW x, x.key = e.key, Happened(x, history)
        PROVE  x.rev <= e.rev
    BY <1>1, <1>3, <2>1 DEF Happened
  <2>2. got[e.key].rev <= e.rev
    BY <1>3, <2>1 DEF ChannelInOrder
  <2>3. ASSUME NEW i \in DOMAIN ch, ch[i].key = e.key
        PROVE  ch[i].rev <= e.rev
    BY <1>4, <2>1, <2>3 DEF ChannelInOrder
  <2>. QED
    BY <2>2, <2>3 DEF SentUpTo
<1>6. ASSUME NEW f \in List, f.key = e.key
      PROVE  f.rev = e.rev
  BY SMTT(60), <1>1, <1>2, <1>3, <1>6
<1>. QED
  BY <1>4, <1>5, <1>6

(* Everything sent is a change that was made, so not newer than etcd.      *)
LEMMA SentIsPast ==
  ASSUME Types, ChannelInOrder
  PROVE  AllSentUpTo(revision + 1, ch, got)
<1>1. /\ history \in Seq(Changes) /\ NoKey \notin Keys
  BY ListWatchAssumption DEF Types, RestOK, NoKey
<1>2. revision \in Nat /\ revision = Len(history)
  BY <1>1 DEF revision
<1>3. ASSUME NEW x, Happened(x, history)
      PROVE  x.rev <= revision + 1
  BY <1>2, <1>3 DEF Happened
<1>4. \A k \in Keys : got[k].rev <= revision + 1
  BY <1>3 DEF ChannelInOrder
<1>5. \A k \in Keys : \A i \in DOMAIN ch : ch[i].key = k => ch[i].rev <= revision + 1
  BY <1>1, <1>3 DEF ChannelInOrder
<1>. QED
  BY <1>4, <1>5 DEF AllSentUpTo, SentUpTo

(* The record of the current watch, and the head of its channel.           *)
LEMMA CurrentWatch ==
  ASSUME Types, loop \in {"forward", "send"}
  PROVE  /\ Len(watches) \in DOMAIN watches /\ GoodWatch(watches[Len(watches)])
         /\ watches[Len(watches)].buf \in Seq(Event) /\ watches[Len(watches)].next \in Nat
<1>1. watches \in Seq(WatchRecord) /\ watches # <<>>
  BY DEF Types, WatchesOK
<1>2. Len(watches) \in DOMAIN watches
  BY <1>1
<1>. QED
  BY <1>2 DEF Types, WatchesOK, GoodWatch, WatchRecord

LEMMA ForwardInOrder ==
  ASSUME Types, PipelineInOrder, watchAndForwardEvents
  PROVE  PipelineInOrder'
<1>. DEFINE s == Len(watches)
            w == watches[s]
<1>1. UNCHANGED <<history, existing, got>> /\ loop = "forward"
  BY DEF watchAndForwardEvents
<1>2. s \in DOMAIN watches /\ w \in WatchRecord /\ w.buf \in Seq(Event) /\ w.next \in Nat
  BY <1>1, CurrentWatch DEF GoodWatch
<1>3. existing = {} /\ ChannelInOrder /\ WatchInOrder(w, ch, got, history)
  BY <1>1 DEF PipelineInOrder, ExistingInOrder
<1>4. \/ /\ loop' = "backoff"
         /\ tryToSendErrorEvent \/ UNCHANGED ch \/ (Room /\ ch' = Append(ch, ErrorEvent))
      \/ UNCHANGED <<ch, event, watches, loop>>
      \/ /\ loop' = "send" /\ UNCHANGED ch
         /\ w.buf # <<>> /\ validate(Head(w.buf)) /\ event' = Head(w.buf)
         /\ watches' = [watches EXCEPT ![s].buf = Tail(w.buf)]
  BY DEF watchAndForwardEvents, handleWatchChannelClose, leaveWatch, Logged, Panics
<1>5. CASE /\ loop' = "backoff"
           /\ tryToSendErrorEvent \/ UNCHANGED ch \/ (Room /\ ch' = Append(ch, ErrorEvent))
  BY <1>1, <1>3, <1>5, ErrorSent, OutsideInOrder
<1>6. CASE UNCHANGED <<ch, event, watches, loop>>
  BY <1>1, <1>6 DEF PipelineInOrder, ChannelInOrder, ExistingInOrder
<1>7. CASE /\ loop' = "send" /\ UNCHANGED ch
           /\ w.buf # <<>> /\ validate(Head(w.buf)) /\ event' = Head(w.buf)
           /\ watches' = [watches EXCEPT ![s].buf = Tail(w.buf)]
  <2>. DEFINE v == [w EXCEPT !.buf = Tail(w.buf)]
  <2>1. v.buf = Tail(w.buf) /\ v.next = w.next
    BY <1>2 DEF WatchRecord
  <2>2. watches'[Len(watches')] = v
    <3>1. watches \in Seq(WatchRecord)
      BY DEF Types, WatchesOK
    <3>. QED
      BY <1>2, <1>7, <3>1
  <2>3. /\ Len(w.buf) \in Nat \ {0} /\ Head(w.buf) = w.buf[1]
        /\ Tail(w.buf) \in Seq(Event) /\ Len(Tail(w.buf)) = Len(w.buf) - 1
        /\ \A i \in 1..Len(w.buf) - 1 : Tail(w.buf)[i] = w.buf[i + 1]
    BY <1>2, <1>7, HeadAndTail
  <2>4. Head(w.buf) # ErrorEvent
    BY <1>7 DEF validate, ErrorEvent
  <2>. HIDE DEF v, w
  <2>5. WatchInOrder(v, ch, got, history)
    BY SMTT(60), <1>2, <1>3, <2>1, <2>3 DEF WatchInOrder
  <2>6. EventInOrder(Head(w.buf), v, ch, got, history)
    <3>1. 1 \in DOMAIN w.buf /\ w.buf[1] # ErrorEvent
      BY SMTT(60), <1>2, <2>3, <2>4
    <3>2. /\ w.buf[1].key # NoKey /\ Happened(w.buf[1], history)
          /\ AllSentUpTo(w.buf[1].rev, ch, got) /\ w.buf[1].rev < w.next
      BY <1>3, <3>1 DEF WatchInOrder
    <3>3. ASSUME NEW i \in DOMAIN v.buf, v.buf[i] # ErrorEvent
          PROVE  w.buf[1].rev <= v.buf[i].rev
      <4>1. i + 1 \in DOMAIN w.buf /\ v.buf[i] = w.buf[i + 1] /\ 1 \in 1..i + 1
        BY <1>2, <2>1, <2>3
      <4>. QED
        BY <1>3, <3>1, <3>3, <4>1 DEF WatchInOrder
    <3>. QED
      BY <2>1, <2>3, <3>2, <3>3 DEF EventInOrder
  <2>. QED
    BY <1>1, <1>3, <1>7, <2>2, <2>5, <2>6 DEF PipelineInOrder, ChannelInOrder, ExistingInOrder
<1>. QED
  BY <1>4, <1>5, <1>6, <1>7

LEMMA SendEventInOrder ==
  ASSUME Types, PipelineInOrder, sendEvent
  PROVE  PipelineInOrder'
<1>. DEFINE w == watches[Len(watches)]
<1>1. UNCHANGED <<history, existing, watches, got>> /\ loop = "send"
  BY DEF sendEvent
<1>2. /\ existing = {} /\ ChannelInOrder
      /\ WatchInOrder(w, ch, got, history) /\ EventInOrder(event, w, ch, got, history)
  BY <1>1 DEF PipelineInOrder, ExistingInOrder
<1>3. event \in Event /\ event.key \in Keys
  BY <1>2 DEF Types, RestOK, Event, EventInOrder
<1>4. CASE loop' = "backoff" /\ UNCHANGED ch
  BY <1>1, <1>2, <1>4, ErrorSent, OutsideInOrder
<1>5. CASE loop' = "forward" /\ ch' = Append(ch, event)
  <2>1. ChannelInOrder'
    BY <1>1, <1>2, <1>3, <1>5, SendInOrder DEF EventInOrder, AllSentUpTo
  <2>2. ASSUME NEW r, event.rev <= r, AllSentUpTo(r, ch, got)
        PROVE  AllSentUpTo(r, ch', got')
    BY <1>1, <1>5, <2>2, SendUpTo DEF AllSentUpTo
  <2>3. event.rev \in Nat /\ w.next \in Nat
    BY <1>1, <1>3, CurrentWatch DEF Event
  <2>4. WatchInOrder(w, ch', got', history')
    <3>. HIDE DEF w
    <3>1. ASSUME NEW i \in DOMAIN w.buf, w.buf[i] # ErrorEvent
          PROVE  AllSentUpTo(w.buf[i].rev, ch', got')
      <4>1. event.rev <= w.buf[i].rev /\ AllSentUpTo(w.buf[i].rev, ch, got)
        BY <1>2, <3>1 DEF EventInOrder, WatchInOrder
      <4>. QED
        BY <2>2, <4>1
    <3>2. AllSentUpTo(w.next, ch', got')
      <4>1. event.rev < w.next /\ AllSentUpTo(w.next, ch, got)
        BY <1>2 DEF EventInOrder, WatchInOrder
      <4>2. event.rev <= w.next
        BY <2>3, <4>1
      <4>. QED
        BY <2>2, <4>1, <4>2
    <3>. QED
      BY <1>1, <1>2, <3>1, <3>2 DEF WatchInOrder
  <2>. QED
    BY <1>1, <1>2, <1>5, <2>1, <2>4 DEF PipelineInOrder, ExistingInOrder
<1>. QED
  BY <1>4, <1>5 DEF sendEvent, leaveWatch

LEMMA LoopInOrder ==
  ASSUME Types, PipelineInOrder, runListWatchLoop
  PROVE  PipelineInOrder'
<1>0. ChannelInOrder /\ (loop # "existing" => existing = {})
  BY DEF PipelineInOrder, ExistingInOrder
<1>1. CASE ensureConnected
  <2>1. UNCHANGED <<history, existing, got>> /\ loop = "ensure"
    BY <1>1 DEF ensureConnected
  <2>2. (tryToSendErrorEvent \/ UNCHANGED ch) /\ loop' \in {"list", "backoff", "ensure"}
    BY <1>1, Zenon DEF ensureConnected, Logged, Panics
  <2>. QED
    BY <1>0, <2>1, <2>2, ErrorSent, OutsideInOrder
<1>2. CASE listAndSendExisting
  <2>1. UNCHANGED <<history, got>> /\ loop = "list"
    BY <1>2 DEF listAndSendExisting
  <2>2. \/ UNCHANGED ch /\ loop' = "existing" /\ existing' = List
        \/ (tryToSendErrorEvent \/ UNCHANGED ch) /\ loop' \in {"backoff", "list"} /\ UNCHANGED existing
    BY <1>2, Zenon DEF listAndSendExisting, Logged, Panics
  <2>3. CASE UNCHANGED ch /\ loop' = "existing" /\ existing' = List
    BY <1>0, <2>1, <2>3, ListInOrder DEF PipelineInOrder, ChannelInOrder, ExistingInOrder
  <2>. QED
    BY <1>0, <2>1, <2>2, <2>3, ErrorSent, OutsideInOrder
<1>3. CASE sendExisting
  <2>1. UNCHANGED <<history, got>> /\ loop = "existing"
    BY <1>3 DEF sendExisting
  <2>2. CASE UNCHANGED ch /\ loop' \in {"watch", "backoff"} /\ existing' = {}
    BY <1>0, <2>1, <2>2, ErrorSent, OutsideInOrder
  <2>3. ASSUME NEW e \in existing, ch' = Append(ch, e), existing' = existing \ {e}, UNCHANGED loop
        PROVE  PipelineInOrder'
    <3>1. /\ e \in Event /\ e.key # NoKey /\ Happened(e, history) /\ SentUpTo(e.key, e.rev, ch, got)
          /\ e.rev \in Nat
      BY DEF PipelineInOrder, ExistingInOrder, Types, RestOK, Event
    <3>2. ChannelInOrder'
      BY <1>0, <2>1, <2>3, <3>1, SendInOrder
    <3>3. ASSUME NEW f \in existing \ {e}
          PROVE  SentUpTo(f.key, f.rev, ch', got')
      <4>1. SentUpTo(f.key, f.rev, ch, got) /\ (e.key = f.key => e.rev <= f.rev)
        BY SMTT(60), <3>1 DEF PipelineInOrder, ExistingInOrder
      <4>. QED
        BY <2>1, <2>3, <4>1, SendUpTo
    <3>. QED
      BY <2>1, <2>3, <3>2, <3>3 DEF PipelineInOrder, ExistingInOrder
  <2>. QED
    BY <1>3, <2>2, <2>3 DEF sendExisting
<1>4. CASE Watch
  <2>. DEFINE w == [next |-> WatchFrom(revision), stream |-> "open",
                    go |-> "range", buf |-> <<>>, monitor |-> "waiting"]
  <2>1. UNCHANGED <<history, existing, got>> /\ loop = "watch"
    BY <1>4 DEF Watch
  <2>2. \/ UNCHANGED ch /\ loop' = "forward" /\ watches' = Append(watches, w)
        \/ (tryToSendErrorEvent \/ UNCHANGED ch) /\ loop' \in {"backoff", "watch"}
    BY <1>4, Zenon DEF Watch, Logged, Panics
  <2>3. CASE UNCHANGED ch /\ loop' = "forward" /\ watches' = Append(watches, w)
    <3>1. w.next = revision + 1 /\ w.buf = <<>> /\ revision = Len(history)
      BY DEF WatchFrom, revision
    <3>2. watches \in Seq(WatchRecord) /\ history \in Seq(Changes)
      BY DEF Types, WatchesOK, RestOK
    <3>. HIDE DEF w
    <3>3. watches'[Len(watches')] = w
      BY <2>3, <3>2
    <3>4. WatchInOrder(w, ch, got, history)
      BY <1>0, <3>1, <3>2, SentIsPast DEF WatchInOrder
    <3>. QED
      BY <1>0, <2>1, <2>3, <3>3, <3>4 DEF PipelineInOrder, ChannelInOrder, ExistingInOrder
  <2>. QED
    BY <1>0, <2>1, <2>2, <2>3, ErrorSent, OutsideInOrder
<1>5. CASE watchAndForwardEvents
  BY <1>5, ForwardInOrder
<1>6. CASE sendEvent
  BY <1>6, SendEventInOrder
<1>7. CASE backoffExpires \/ backoffStops \/ handleCleanup
  <2>1. /\ UNCHANGED <<history, existing, got>> /\ (tryToSendErrorEvent \/ UNCHANGED ch)
        /\ loop \in {"backoff", "cleanup"} /\ loop' \in {"ensure", "cleanup", "backoff", "stopped"}
    BY <1>7 DEF backoffExpires, backoffStops, handleCleanup
  <2>. QED
    BY <1>0, <2>1, ErrorSent, OutsideInOrder
<1>. QED
  BY <1>1, <1>2, <1>3, <1>4, <1>5, <1>6, <1>7 DEF runListWatchLoop

(* A step that moves only the channel, the consumer or the store.          *)
LEMMA RestInOrder ==
  ASSUME Types, PipelineInOrder, ChannelInOrder', StillSentUpTo(ch, got, ch', got'),
         Write \/ UNCHANGED history, UNCHANGED <<loop, existing, event>>
  PROVE  /\ ExistingInOrder'
         /\ loop \in {"forward", "send"} => WatchInOrder(watches[Len(watches)], ch', got', history')
         /\ loop = "send" => EventInOrder(event, watches[Len(watches)], ch', got', history')
<1>1. ExistingInOrder'
  <2>1. ASSUME NEW e \in existing
        PROVE  Happened(e, history') /\ SentUpTo(e.key, e.rev, ch', got')
    <3>1. /\ e \in Event /\ e.key \in Keys /\ e.rev \in Nat /\ history \in Seq(Changes)
          /\ Happened(e, history) /\ SentUpTo(e.key, e.rev, ch, got)
      BY DEF PipelineInOrder, ExistingInOrder, Types, RestOK, Event
    <3>. QED
      BY <3>1, HappenedStays DEF StillSentUpTo
  <2>. QED
    BY <2>1 DEF PipelineInOrder, ExistingInOrder
<1>2. CASE loop \in {"forward", "send"}
  <2>1. event \in Event
    BY DEF Types, RestOK
  <2>. QED
    BY <1>1, <1>2, <2>1, CurrentWatch, WatchStaysInOrder, EventStaysInOrder DEF PipelineInOrder
<1>. QED
  BY <1>1, <1>2

LEMMA SentUpToLater ==
  ASSUME NEW c \in Seq(Event), NEW g \in [Keys -> Event], NEW r \in Nat, NEW q \in Nat, r <= q,
         AllSentUpTo(r, c, g)
  PROVE  AllSentUpTo(q, c, g)
<1>1. (\A k \in Keys : g[k] \in Event) /\ \A i \in DOMAIN c : c[i] \in Event
  BY SMTT(60)
<1>2. (\A k \in Keys : g[k].rev \in Nat) /\ \A i \in DOMAIN c : c[i].rev \in Nat
  BY <1>1 DEF Event
<1>3. ASSUME NEW k \in Keys
      PROVE  g[k].rev <= q /\ \A i \in DOMAIN c : c[i].key = k => c[i].rev <= q
  <2>1. g[k].rev <= r /\ \A i \in DOMAIN c : c[i].key = k => c[i].rev <= r
    BY DEF AllSentUpTo, SentUpTo
  <2>. QED
    BY <1>2, <2>1
<1>. QED
  BY <1>3 DEF AllSentUpTo, SentUpTo

(* A watch stays in order when its goroutine appends an Error event or the *)
(* next change, which is newer than all before.                            *)
LEMMA AppendInOrder ==
  ASSUME NEW c \in Seq(Event), NEW g \in [Keys -> Event],
         NEW w \in WatchRecord, NEW v \in WatchRecord, WatchInOrder(w, c, g, history),
         NEW e \in Event, v.buf = Append(w.buf, e), v.next <= Len(history) + 1,
         IF e = ErrorEvent THEN v.next = w.next
         ELSE e.key # NoKey /\ Happened(e, history) /\ e.rev = w.next /\ v.next = w.next + 1
  PROVE  /\ WatchInOrder(v, c, g, history)
         /\ \A x \in Event : EventInOrder(x, w, c, g, history) => EventInOrder(x, v, c, g, history)
<1>1. w.buf \in Seq(Event) /\ Len(w.buf) \in Nat /\ w.next \in Nat /\ v.next \in Nat
  BY SMTT(60) DEF WatchRecord
<1>2. /\ DOMAIN v.buf = 1..Len(w.buf) + 1 /\ v.buf[Len(w.buf) + 1] = e
      /\ \A i \in 1..Len(w.buf) : v.buf[i] = w.buf[i]
      /\ DOMAIN w.buf = 1..Len(w.buf)
  BY <1>1
<1>3. \A i \in 1..Len(w.buf) : w.buf[i].rev \in Nat
  <2>1. \A i \in 1..Len(w.buf) : w.buf[i] \in Event
    BY <1>1
  <2>. QED
    BY <2>1 DEF Event
<1>4. AllSentUpTo(w.next, c, g) /\ AllSentUpTo(v.next, c, g) /\ w.next <= v.next
  BY <1>1, SentUpToLater DEF WatchInOrder
<1>5. ASSUME NEW i \in DOMAIN v.buf, v.buf[i] # ErrorEvent
      PROVE  /\ v.buf[i].key # NoKey /\ Happened(v.buf[i], history)
             /\ AllSentUpTo(v.buf[i].rev, c, g) /\ v.buf[i].rev < v.next
             /\ \A j \in 1..i : v.buf[j] # ErrorEvent => v.buf[j].rev <= v.buf[i].rev
  <2>1. CASE i \in 1..Len(w.buf)
    <3>1. v.buf[i] = w.buf[i] /\ i \in DOMAIN w.buf
      BY <1>2, <2>1
    <3>2. /\ w.buf[i].key # NoKey /\ Happened(w.buf[i], history)
          /\ AllSentUpTo(w.buf[i].rev, c, g) /\ w.buf[i].rev < w.next
          /\ \A j \in 1..i : w.buf[j] # ErrorEvent => w.buf[j].rev <= w.buf[i].rev
      BY <1>5, <3>1 DEF WatchInOrder
    <3>3. w.buf[i].rev < v.next
      BY <1>1, <1>3, <1>4, <2>1, <3>2
    <3>4. \A j \in 1..i : v.buf[j] = w.buf[j]
      BY SMTT(60), <1>1, <1>2, <2>1
    <3>. QED
      BY <3>1, <3>2, <3>3, <3>4
  <2>2. CASE i = Len(w.buf) + 1
    <3>1. v.buf[i] = e /\ e.rev = w.next /\ v.next = w.next + 1 /\ e.key # NoKey /\ Happened(e, history)
      BY <1>2, <1>5, <2>2
    <3>2. ASSUME NEW j \in 1..i, v.buf[j] # ErrorEvent
          PROVE  v.buf[j].rev <= e.rev
      <4>1. CASE j = i
        BY <1>1, <3>1, <4>1
      <4>2. CASE j \in 1..Len(w.buf)
        <5>1. v.buf[j] = w.buf[j] /\ j \in DOMAIN w.buf /\ w.buf[j] # ErrorEvent
          BY <1>2, <3>2, <4>2
        <5>2. w.buf[j].rev < w.next
          BY <5>1 DEF WatchInOrder
        <5>. QED
          BY <1>1, <1>3, <3>1, <4>2, <5>1, <5>2
      <4>. QED
        BY <1>1, <2>2, <4>1, <4>2
    <3>3. AllSentUpTo(v.buf[i].rev, c, g) /\ v.buf[i].rev < v.next
      BY <1>1, <1>4, <3>1
    <3>4. \A j \in 1..i : v.buf[j] # ErrorEvent => v.buf[j].rev <= v.buf[i].rev
      BY <3>1, <3>2
    <3>. QED
      BY <3>1, <3>3, <3>4
  <2>3. i \in 1..Len(w.buf) \/ i = Len(w.buf) + 1
    BY SMTT(60), <1>1, <1>2
  <2>. QED
    BY <2>1, <2>2, <2>3
<1>6. WatchInOrder(v, c, g, history)
  BY <1>4, <1>5 DEF WatchInOrder
<1>7. ASSUME NEW x \in Event, EventInOrder(x, w, c, g, history)
      PROVE  EventInOrder(x, v, c, g, history)
  <2>1. x.rev \in Nat /\ x.rev < w.next
    BY <1>7 DEF Event, EventInOrder
  <2>2. ASSUME NEW i \in DOMAIN v.buf, v.buf[i] # ErrorEvent
        PROVE  x.rev <= v.buf[i].rev
    <3>1. CASE i \in 1..Len(w.buf)
      BY <1>2, <1>7, <2>2, <3>1 DEF EventInOrder
    <3>2. CASE i = Len(w.buf) + 1
      BY <1>1, <1>2, <2>1, <2>2, <3>2
    <3>3. i \in 1..Len(w.buf) \/ i = Len(w.buf) + 1
      BY SMTT(60), <1>1, <1>2
    <3>. QED
      BY <3>1, <3>2, <3>3
  <2>. QED
    <3>1. x.rev < v.next
      BY <1>1, <1>4, <2>1
    <3>. QED
      BY <1>7, <2>2, <3>1 DEF EventInOrder
<1>. QED
  BY <1>6, <1>7

LEMMA GoroutineInOrder ==
  ASSUME Types, PipelineInOrder, NEW s \in DOMAIN watches, watchGoroutines(s)
  PROVE  PipelineInOrder'
<1>. DEFINE l == Len(watches)
            w == watches[l]
<1>1. UNCHANGED <<history, loop, existing, event, got>> /\ (tryToSendErrorEvent \/ UNCHANGED ch)
  BY GoroutineSteps
<1>2. PICK v : GoodWatch(v) /\ watches' = [watches EXCEPT ![s] = v] /\ GoroutineDoes(s, v)
  BY GoroutineSteps
<1>3. ChannelInOrder' /\ StillSentUpTo(ch, got, ch', got')
  BY <1>1, ErrorSent DEF PipelineInOrder
<1>4. /\ ExistingInOrder'
      /\ loop \in {"forward", "send"} => WatchInOrder(w, ch', got', history')
      /\ loop = "send" => EventInOrder(event, w, ch', got', history')
  BY <1>1, <1>3, RestInOrder
<1>5. watches \in Seq(WatchRecord) /\ history \in Seq(Changes)
  BY DEF Types, WatchesOK, RestOK
<1>6. Len(watches') = l /\ watches'[l] = IF s = l THEN v ELSE w
  BY <1>2, <1>5
<1>7. CASE s # l \/ loop \notin {"forward", "send"}
  BY <1>1, <1>3, <1>4, <1>6, <1>7 DEF PipelineInOrder
<1>8. CASE s = l /\ loop \in {"forward", "send"}
  <2>1. WatchInOrder(v, ch', got', history) /\ (loop = "send" => EventInOrder(event, v, ch', got', history))
    <3>1. /\ w \in WatchRecord /\ v \in WatchRecord /\ w.next \in Nat /\ w.next # 0
          /\ w.go = "send" => w.next <= revision
      BY <1>2, <1>8, CurrentWatch DEF GoodWatch
    <3>2. ch' \in Seq(Event) /\ got' \in [Keys -> Event] /\ event \in Event
      BY <1>1, ChannelKept DEF Types, ChannelOK, RestOK
    <3>3. CASE v.buf = w.buf /\ v.next = w.next
      BY <1>1, <1>4, <1>8, <3>3 DEF WatchInOrder, EventInOrder
    <3>4. CASE w.go = "send" /\ v.buf = Append(w.buf, EventAt(w.next)) /\ v.next = w.next + 1
      <4>1. revision \in Nat /\ revision = Len(history) /\ w.next \in 1..revision
        BY <1>5, <3>1, <3>4 DEF revision
      <4>2. /\ EventAt(w.next) \in Event /\ EventAt(w.next).rev = w.next
            /\ EventAt(w.next).key = history[w.next].key /\ history[w.next].key \in Keys
        BY <1>5, <4>1, ChangeIsEvent
      <4>3. EventAt(w.next) # ErrorEvent /\ EventAt(w.next).key # NoKey
        <5>1. ErrorEvent.key = NoKey /\ NoKey \notin Keys
          BY ListWatchAssumption DEF ErrorEvent, NoKey
        <5>. QED
          BY <4>2, <5>1
      <4>4. Happened(EventAt(w.next), history) /\ v.next <= Len(history) + 1
        BY <1>5, <3>4, <4>1, EventHappened
      <4>. QED
        BY <1>1, <1>4, <1>8, <3>1, <3>2, <3>4, <4>2, <4>3, <4>4, AppendInOrder
    <3>5. CASE v.buf = Append(w.buf, ErrorEvent) /\ v.next = w.next
      <4>1. v.next <= Len(history) + 1
        BY <1>1, <1>4, <1>8, <3>5 DEF WatchInOrder
      <4>. QED
        BY <1>1, <1>4, <1>8, <3>1, <3>2, <3>5, <4>1, ErrorIsEvent, AppendInOrder
    <3>. QED
      BY <1>2, <1>8, <3>3, <3>4, <3>5 DEF GoroutineDoes
  <2>. QED
    BY <1>1, <1>3, <1>4, <1>6, <1>8, <2>1 DEF PipelineInOrder
<1>. QED
  BY <1>7, <1>8

(* The consumer takes the oldest event of the channel.                     *)
LEMMA ReceiveInOrder ==
  ASSUME Types, ChannelInOrder, UNCHANGED history, ch # <<>>, ch' = Tail(ch),
         got' = IF Head(ch).key = NoKey THEN got ELSE [got EXCEPT ![Head(ch).key] = Head(ch)]
  PROVE  /\ ChannelInOrder' /\ StillSentUpTo(ch, got, ch', got')
         /\ \A k \in Keys : got'[k].rev >= got[k].rev
<1>1. ch \in Seq(Event) /\ got \in [Keys -> Event]
  BY DEF Types, ChannelOK, RestOK
<1>2. /\ Len(ch) \in Nat \ {0} /\ Head(ch) = ch[1] /\ DOMAIN ch = 1..Len(ch) /\ DOMAIN ch' = 1..Len(ch) - 1
      /\ \A i \in 1..Len(ch) - 1 : ch'[i] = ch[i + 1]
  BY SMTT(60), <1>1, HeadAndTail
<1>3. \A i \in 1..Len(ch) : ch[i].key \in Keys \cup {NoKey} /\ ch[i].rev \in Nat
  <2>1. \A i \in 1..Len(ch) : ch[i] \in Event
    BY SMTT(60), <1>1
  <2>. QED
    BY <2>1 DEF Event
<1>4. \A k \in Keys : got[k].rev \in Nat
  <2>1. \A k \in Keys : got[k] \in Event
    BY <1>1
  <2>. QED
    BY <2>1 DEF Event
<1>5. \A k \in Keys : got'[k] = got[k] \/ (got'[k] = ch[1] /\ ch[1].key = k)
  BY <1>1, <1>2, <1>3
<1>6. ASSUME NEW k \in Keys, ch[1].key = k
      PROVE  got'[k] = ch[1]
  BY <1>1, <1>2, <1>6, ListWatchAssumption DEF NoKey
<1>7. ASSUME NEW k \in Keys, ch[1].key = k
      PROVE  ch[1].rev >= got[k].rev /\ Happened(ch[1], history)
  <2>1. k # NoKey /\ 1 \in DOMAIN ch
    BY SMTT(60), <1>2, ListWatchAssumption DEF NoKey
  <2>2. got[k].rev <= ch[1].rev /\ Happened(ch[1], history)
    BY <1>7, <2>1 DEF ChannelInOrder
  <2>. QED
    BY <1>2, <1>3, <1>4, <2>2
<1>8. \A k \in Keys : got'[k].key = k /\ Happened(got'[k], history) /\ got'[k].rev >= got[k].rev
  BY SMTT(60), <1>4, <1>5, <1>7 DEF ChannelInOrder
<1>9. ASSUME NEW i \in DOMAIN ch', ch'[i].key # NoKey
      PROVE  /\ Happened(ch'[i], history)
             /\ got'[ch'[i].key].rev <= ch'[i].rev
             /\ \A j \in 1..i : ch'[j].key = ch'[i].key => ch'[j].rev <= ch'[i].rev
  <2>1. ch'[i] = ch[i + 1] /\ i + 1 \in DOMAIN ch /\ 1 \in 1..i + 1 /\ ch[i + 1].key \in Keys
    BY SMTT(60), <1>2, <1>3, <1>9
  <2>2. /\ Happened(ch[i + 1], history) /\ got[ch[i + 1].key].rev <= ch[i + 1].rev
        /\ \A j \in 1..i + 1 : ch[j].key = ch[i + 1].key => ch[j].rev <= ch[i + 1].rev
    BY <1>9, <2>1 DEF ChannelInOrder
  <2>3. \A j \in 1..i : ch'[j] = ch[j + 1] /\ j + 1 \in 1..i + 1
    BY SMTT(60), <1>2
  <2>. QED
    BY SMTT(60), <1>5, <2>1, <2>2, <2>3
<1>10. ASSUME NEW k \in Keys, NEW r \in Nat, SentUpTo(k, r, ch, got)
       PROVE  SentUpTo(k, r, ch', got')
  <2>1. got[k].rev <= r /\ \A i \in 1..Len(ch) : ch[i].key = k => ch[i].rev <= r
    BY <1>2, <1>10 DEF SentUpTo
  <2>2. got'[k].rev <= r
    BY SMTT(60), <1>2, <1>5, <2>1
  <2>3. \A i \in DOMAIN ch' : ch'[i].key = k => ch'[i].rev <= r
    BY SMTT(60), <1>2, <2>1
  <2>. QED
    BY <2>2, <2>3 DEF SentUpTo
<1>. QED
  BY <1>8, <1>9, <1>10 DEF ChannelInOrder, StillSentUpTo

LEMMA PipelineInductive ==
  ASSUME Types, PipelineInOrder, [ListWatchNext]_<<history, lwVars>>
  PROVE  PipelineInOrder' /\ \A k \in Keys : got'[k].rev >= got[k].rev
<1>0. \A k \in Keys : got[k].rev \in Nat
  <2>1. \A k \in Keys : got[k] \in Event
    BY DEF Types, RestOK
  <2>. QED
    BY <2>1 DEF Event
<1>1. CASE runListWatchLoop
  <2>1. UNCHANGED got
    BY <1>1 DEF runListWatchLoop, ensureConnected, listAndSendExisting, sendExisting, Watch,
      watchAndForwardEvents, sendEvent, backoffExpires, backoffStops, handleCleanup
  <2>. QED
    BY <1>0, <1>1, <2>1, LoopInOrder
<1>2. CASE \E s \in DOMAIN watches : watchGoroutines(s)
  <2>1. PICK s \in DOMAIN watches : watchGoroutines(s)
    BY <1>2
  <2>2. PipelineInOrder'
    BY <2>1, GoroutineInOrder
  <2>3. UNCHANGED got
    BY <2>1, GoroutineSteps
  <2>. QED
    BY <1>0, <2>2, <2>3
<1>3. CASE Receive \/ StopReading \/ Cancel \/ StreamBreaks \/ ListAndWatch
  <2>1. UNCHANGED <<history, existing, event>> /\ (loop' = loop \/ loop' = "backoff")
    BY <1>3, ConsumerSteps
  <2>2. /\ ChannelInOrder' /\ StillSentUpTo(ch, got, ch', got')
        /\ \A k \in Keys : got'[k].rev >= got[k].rev
    <3>1. CASE UNCHANGED <<ch, got>>
      <4>1. ChannelInOrder'
        BY <2>1, <3>1 DEF PipelineInOrder, ChannelInOrder
      <4>2. StillSentUpTo(ch, got, ch', got')
        BY <3>1 DEF StillSentUpTo
      <4>. QED
        BY <1>0, <3>1, <4>1, <4>2
    <3>2. CASE /\ ch # <<>> /\ ch' = Tail(ch)
               /\ got' = IF Head(ch).key = NoKey THEN got ELSE [got EXCEPT ![Head(ch).key] = Head(ch)]
      BY <2>1, <3>2, ReceiveInOrder DEF PipelineInOrder
    <3>. QED
      BY <1>3, <3>1, <3>2, ConsumerSteps
  <2>3. CASE ListAndWatch
    <3>1. loop' = "backoff" /\ existing' = {}
      BY <2>1, <2>3 DEF ListAndWatch, PipelineInOrder, ExistingInOrder
    <3>. QED
      BY <2>2, <3>1, OutsideInOrder
  <2>4. CASE Receive \/ StopReading \/ Cancel \/ StreamBreaks
    <3>1. UNCHANGED loop
      BY <2>4 DEF Receive, StopReading, Cancel, StreamBreaks
    <3>2. /\ ExistingInOrder'
          /\ loop \in {"forward", "send"} => WatchInOrder(watches[Len(watches)], ch', got', history')
          /\ loop = "send" => EventInOrder(event, watches[Len(watches)], ch', got', history')
      BY <2>1, <2>2, <3>1, RestInOrder
    <3>3. CASE UNCHANGED watches
      BY <2>1, <2>2, <3>1, <3>2, <3>3 DEF PipelineInOrder
    <3>4. ASSUME loop \in {"forward", "send"}, NEW how,
                 watches' = [watches EXCEPT ![Len(watches)].stream = how]
          PROVE  PipelineInOrder'
      <4>. DEFINE w == watches[Len(watches)]
                  v == [w EXCEPT !.stream = how]
      <4>1. watches \in Seq(WatchRecord) /\ Len(watches) \in DOMAIN watches /\ w \in WatchRecord
        BY <3>4, CurrentWatch DEF Types, WatchesOK, GoodWatch
      <4>2. watches'[Len(watches')] = v
        BY SMTT(60), <3>4, <4>1
      <4>3. v.buf = w.buf /\ v.next = w.next
        BY <4>1 DEF WatchRecord
      <4>. HIDE DEF v, w
      <4>4. /\ WatchInOrder(w, ch', got', history') => WatchInOrder(v, ch', got', history')
            /\ EventInOrder(event, w, ch', got', history') => EventInOrder(event, v, ch', got', history')
        BY <4>3 DEF WatchInOrder, EventInOrder
      <4>. QED
        BY <2>1, <2>2, <3>1, <3>2, <3>4, <4>2, <4>4 DEF PipelineInOrder, w
    <3>. QED
      BY <1>3, <2>2, <3>3, <3>4, ConsumerSteps
  <2>. QED
    BY <1>3, <2>2, <2>3, <2>4
<1>4. CASE Write /\ UNCHANGED lwVars
  <2>1. UNCHANGED <<ch, got, loop, existing, event, watches>>
    BY <1>4 DEF lwVars
  <2>2. history \in Seq(Changes)
    BY DEF Types, RestOK
  <2>3. ChannelInOrder'
    BY <1>4, <2>1, <2>2, HappenedStays DEF PipelineInOrder, ChannelInOrder
  <2>4. StillSentUpTo(ch, got, ch', got')
    BY <2>1 DEF StillSentUpTo
  <2>5. /\ ExistingInOrder'
        /\ loop \in {"forward", "send"} => WatchInOrder(watches[Len(watches)], ch', got', history')
        /\ loop = "send" => EventInOrder(event, watches[Len(watches)], ch', got', history')
    BY <1>4, <2>1, <2>3, <2>4, RestInOrder
  <2>6. PipelineInOrder'
    BY <2>1, <2>3, <2>5 DEF PipelineInOrder
  <2>. QED
    BY <1>0, <2>1, <2>6
<1>5. CASE UNCHANGED <<history, lwVars>>
  <2>1. UNCHANGED <<history, ch, got, loop, existing, event, watches>>
    BY <1>5 DEF lwVars
  <2>2. ChannelInOrder' /\ ExistingInOrder'
    BY <2>1 DEF PipelineInOrder, ChannelInOrder, ExistingInOrder
  <2>3. PipelineInOrder'
    BY <2>1, <2>2 DEF PipelineInOrder
  <2>. QED
    BY <1>0, <2>1, <2>3
<1>. QED
  BY <1>1, <1>2, <1>3, <1>4, <1>5 DEF ListWatchNext

LEMMA PipelineInit ==
  ASSUME EtcdWatchInit, ListWatchInit
  PROVE  PipelineInOrder
<1>1. ch = <<>> /\ loop = "new" /\ existing = {}
  BY DEF ListWatchInit
<1>2. \A k \in Keys : got[k].key = k /\ got[k].rev = 0
  BY DEF ListWatchInit
<1>3. ChannelInOrder
  BY SMTT(60), <1>1, <1>2 DEF ChannelInOrder, Happened
<1>. QED
  BY <1>1, <1>3 DEF PipelineInOrder, ExistingInOrder

(* The consumer of a ListWatch is never taken back: however often the      *)
(* watch breaks, the list is repeated or the channels fill up, the events  *)
(* it receives for a key are in the order of the changes.                  *)
THEOREM ReceivedInOrder == ListWatchSpec => InOrder
<1>1. EtcdWatchInit /\ ListWatchInit => PipelineInOrder
  BY PipelineInit
<1>2. EtcdWatchInit /\ ListWatchInit => Types
  BY TypesInit
<1>3. Types /\ [ListWatchNext]_<<history, lwVars>> => Types'
  BY TypesInductive
<1>4. Types /\ PipelineInOrder /\ [ListWatchNext]_<<history, lwVars>>
      => PipelineInOrder' /\ [\A k \in Keys : got'[k].rev >= got[k].rev]_<<history, lwVars>>
  BY PipelineInductive
<1>. QED
  BY <1>1, <1>2, <1>3, <1>4, PTL DEF ListWatchSpec, InOrder
-----------------------------------------------------------------------------
(***************************************************************************)
(* A watch is left for a failure only.  As long as etcd's stream is open,  *)
(* the goroutine of the current watch neither reports an error nor ends,   *)
(* and all it puts into its channel are changes, which validate accepts.   *)
(***************************************************************************)
Forwarding == loop \in {"forward", "send"}

Sound(w) ==
  w.stream = "open" => w.go \in {"range", "send"} /\ \A i \in DOMAIN w.buf : validate(w.buf[i])

(* The inductive form of HealthyWatchKept: until the context is done, each *)
(* watch that was left, and the current one if it is broken, has a failure *)
(* of its own.                                                             *)
WatchPerFault ==
  /\ Len(watches) <= faults + 1
  /\ ~ctxDone /\ ~Forwarding => Len(watches) <= faults
  /\ ~ctxDone /\ Forwarding =>
       /\ Sound(watches[Len(watches)])
       /\ watches[Len(watches)].stream # "open" => Len(watches) <= faults

(* Failures are only ever counted up.                                      *)
LEMMA FaultsGrow ==
  ASSUME Types, Fault \/ RequestFails \/ RequestSucceeds \/ UNCHANGED faults
  PROVE  faults \in Nat /\ faults' \in Nat /\ faults' >= faults
<1>1. faults \in 0..MaxFaults
  BY DEF Types, RestOK
<1>2. faults \in Nat
  BY SMTT(60), <1>1, ListWatchAssumption
<1>. QED
  BY <1>2 DEF Fault, RequestFails, RequestSucceeds

(* A step of the loop outside a watch.                                     *)
LEMMA OutsidePerFault ==
  ASSUME Types, WatchPerFault, UNCHANGED <<ctxDone, watches>>, ~Forwarding, ~Forwarding',
         Fault \/ RequestFails \/ RequestSucceeds \/ UNCHANGED faults
  PROVE  WatchPerFault'
<1>1. faults \in Nat /\ faults' \in Nat /\ faults' >= faults
  BY FaultsGrow
<1>2. Len(watches) \in Nat
  BY DEF Types, WatchesOK
<1>. QED
  BY <1>1, <1>2 DEF WatchPerFault

(* The steps of the loop that do not concern a watch.                      *)
LEMMA LoopOutside ==
  ASSUME \/ ensureConnected \/ listAndSendExisting \/ sendExisting
         \/ backoffExpires \/ backoffStops \/ handleCleanup
  PROVE  /\ UNCHANGED <<ctxDone, watches>> /\ ~Forwarding /\ ~Forwarding'
         /\ Fault \/ RequestFails \/ RequestSucceeds \/ UNCHANGED faults
<1>1. CASE ensureConnected
  BY <1>1 DEF ensureConnected, Logged, Panics, Forwarding
<1>2. CASE listAndSendExisting
  BY <1>2 DEF listAndSendExisting, Logged, Panics, Forwarding
<1>3. CASE sendExisting
  BY <1>3 DEF sendExisting, Forwarding
<1>4. CASE backoffExpires
  BY <1>4 DEF backoffExpires, Forwarding
<1>5. CASE backoffStops
  BY <1>5 DEF backoffStops, Forwarding
<1>6. CASE handleCleanup
  BY <1>6 DEF handleCleanup, Forwarding
<1>. QED
  BY <1>1, <1>2, <1>3, <1>4, <1>5, <1>6

(* Watch begins with a stream that is open and an empty channel.           *)
LEMMA WatchBegins ==
  ASSUME Types, WatchPerFault, Watch
  PROVE  WatchPerFault'
<1>1. UNCHANGED ctxDone /\ loop = "watch"
  BY DEF Watch
<1>2. CASE RequestFails /\ UNCHANGED watches /\ loop' \in {"watch", "backoff"}
  BY <1>1, <1>2, OutsidePerFault DEF Forwarding
<1>3. CASE RequestSucceeds /\ loop' = "forward"
  <2>. DEFINE w == [next |-> WatchFrom(revision), stream |-> "open", go |-> "range", buf |-> <<>>,
                    monitor |-> "waiting"]
  <2>1. ~ctxDone /\ UNCHANGED faults /\ watches \in Seq(WatchRecord) /\ watches' = Append(watches, w)
    BY <1>3 DEF Watch, RequestSucceeds, Types, WatchesOK, Logged, Panics
  <2>2. faults \in Nat /\ Len(watches) <= faults
    BY <1>1, <2>1, FaultsGrow DEF WatchPerFault, Forwarding
  <2>3. Len(watches') = Len(watches) + 1 /\ watches'[Len(watches')] = w
    BY <2>1
  <2>4. w.stream = "open" /\ w.go = "range" /\ w.buf = <<>>
    OBVIOUS
  <2>. HIDE DEF w
  <2>. QED
    BY <1>1, <1>3, <2>1, <2>2, <2>3, <2>4 DEF WatchPerFault, Sound, Forwarding
<1>. QED
  BY <1>1, <1>2, <1>3 DEF Watch, Logged, Panics
(* The loop gives a watch up when the context is done, or when the watch   *)
(* is broken: an event that validate refuses, or the end of the goroutine, *)
(* is not to be had from one that is sound.                                *)
LEMMA ForwardPerFault ==
  ASSUME Types, WatchPerFault, watchAndForwardEvents
  PROVE  WatchPerFault'
<1>. DEFINE s == Len(watches)
            w == watches[s]
<1>1. loop = "forward" /\ Forwarding /\ UNCHANGED <<ctxDone, faults>>
  BY DEF watchAndForwardEvents, Forwarding
<1>2. s \in DOMAIN watches /\ w \in WatchRecord /\ w.buf \in Seq(Event) /\ watches \in Seq(WatchRecord)
  BY <1>1, CurrentWatch DEF GoodWatch, Types, WatchesOK
<1>3. s \in Nat /\ faults \in Nat
  BY <1>1, <1>2, FaultsGrow
<1>4. \/ UNCHANGED <<watches, loop>>
      \/ ctxDone /\ UNCHANGED watches /\ loop' = "backoff"
      \/ /\ w.buf # <<>> /\ validate(Head(w.buf)) /\ loop' = "send"
         /\ watches' = [watches EXCEPT ![s].buf = Tail(w.buf)]
      \/ /\ w.buf # <<>> /\ ~validate(Head(w.buf)) /\ loop' = "backoff"
         /\ watches' = [watches EXCEPT ![s].buf = Tail(w.buf)]
      \/ w.go = "done" /\ UNCHANGED watches /\ loop' = "backoff"
  BY DEF watchAndForwardEvents, handleWatchChannelClose, leaveWatch, Logged, Panics
<1>5. CASE UNCHANGED <<watches, loop>>
  BY <1>1, <1>5 DEF WatchPerFault, Forwarding
<1>6. CASE ctxDone /\ UNCHANGED watches /\ loop' = "backoff"
  BY <1>1, <1>6 DEF WatchPerFault
<1>7. CASE w.buf # <<>> /\ watches' = [watches EXCEPT ![s].buf = Tail(w.buf)] /\ loop' = "send"
  <2>. DEFINE v == [w EXCEPT !.buf = Tail(w.buf)]
  <2>1. v.buf = Tail(w.buf) /\ v.stream = w.stream /\ v.go = w.go
    BY <1>2 DEF WatchRecord
  <2>2. Len(watches') = s /\ watches'[Len(watches')] = v
    BY <1>2, <1>7
  <2>3. /\ Len(w.buf) \in Nat /\ Tail(w.buf) \in Seq(Event) /\ Len(Tail(w.buf)) = Len(w.buf) - 1
        /\ \A i \in 1..Len(w.buf) - 1 : Tail(w.buf)[i] = w.buf[i + 1]
    BY <1>2, <1>7, HeadAndTail
  <2>. HIDE DEF v, w, s
  <2>4. Sound(w) => Sound(v)
    <3>1. ASSUME NEW i \in DOMAIN v.buf
          PROVE  i + 1 \in DOMAIN w.buf /\ v.buf[i] = w.buf[i + 1]
      BY <1>2, <2>1, <2>3
    <3>. QED
      BY <2>1, <3>1 DEF Sound
  <2>. QED
    BY <1>1, <1>7, <2>1, <2>2, <2>4 DEF WatchPerFault, Forwarding, s, w
<1>8. CASE /\ Len(watches') = s /\ loop' = "backoff"
           /\ \/ w.buf # <<>> /\ ~validate(Head(w.buf))
              \/ w.go = "done"
  <2>1. ~Sound(w) \/ w.stream # "open"
    <3>1. w.buf # <<>> => 1 \in DOMAIN w.buf /\ Head(w.buf) = w.buf[1]
      BY SMTT(60), <1>2, HeadAndTail
    <3>. QED
      BY <1>8, <3>1 DEF Sound
  <2>2. ~ctxDone => s <= faults
    BY <1>1, <2>1 DEF WatchPerFault
  <2>3. ~Forwarding'
    BY <1>8 DEF Forwarding
  <2>4. s <= faults + 1
    BY DEF WatchPerFault
  <2>. HIDE DEF s
  <2>. QED
    BY <1>1, <1>8, <2>2, <2>3, <2>4 DEF WatchPerFault
<1>9. watches' = [watches EXCEPT ![s].buf = Tail(w.buf)] \/ UNCHANGED watches => Len(watches') = s
  BY SMTT(60), <1>2
<1>. QED
  BY <1>4, <1>5, <1>6, <1>7, <1>8, <1>9

(* A step of the loop.                                                     *)
LEMMA LoopPerFault ==
  ASSUME Types, WatchPerFault, runListWatchLoop
  PROVE  WatchPerFault'
<1>1. CASE \/ ensureConnected \/ listAndSendExisting \/ sendExisting
           \/ backoffExpires \/ backoffStops \/ handleCleanup
  BY <1>1, LoopOutside, OutsidePerFault
<1>2. CASE Watch
  BY <1>2, WatchBegins
<1>3. CASE watchAndForwardEvents
  BY <1>3, ForwardPerFault
<1>4. CASE sendEvent
  BY <1>4 DEF sendEvent, leaveWatch, WatchPerFault, Forwarding
<1>. QED
  BY <1>1, <1>2, <1>3, <1>4 DEF runListWatchLoop

(* The goroutines of a watch leave the stream alone, and as long as it is  *)
(* open keep the current watch sound.                                      *)
LEMMA GoroutinePerFault ==
  ASSUME Types, WatchPerFault, NEW s \in DOMAIN watches, watchGoroutines(s)
  PROVE  WatchPerFault'
<1>. DEFINE w == watches[s]
            last == Len(watches)
<1>1. UNCHANGED <<loop, ctxDone, faults>> /\ watches \in Seq(WatchRecord)
  BY GoroutineSteps DEF Types, WatchesOK
<1>2. w \in WatchRecord /\ GoodWatch(w) /\ w.buf \in Seq(Event)
  BY DEF Types, WatchesOK, GoodWatch, WatchRecord
<1>3. ASSUME NEW v, watches' = [watches EXCEPT ![s] = v], v.stream = w.stream,
             Forwarding /\ ~ctxDone /\ s = last /\ Sound(w) => Sound(v)
      PROVE  WatchPerFault'
  <2>1. Len(watches') = last
    BY <1>1, <1>3
  <2>2. CASE s = last
    <3>1. watches'[last] = v
      BY <1>1, <1>3, <2>2
    <3>. QED
      BY <1>1, <1>3, <2>1, <2>2, <3>1 DEF WatchPerFault, Forwarding
  <2>3. CASE s # last
    <3>1. Forwarding => watches'[last] = watches[last]
      BY <1>1, <1>3, <2>3, CurrentWatch DEF Forwarding
    <3>. QED
      BY <1>1, <2>1, <3>1 DEF WatchPerFault, Forwarding
  <2>. QED
    BY <2>2, <2>3
<1>4. CASE watchReceives(s)
  <2>1. PICK g \in {"send", "error", "done"} :
          /\ g = "error" => w.stream = "error"
          /\ g = "done" => StreamEnded(s)
          /\ watches' = [watches EXCEPT ![s].go = g]
    BY <1>4 DEF watchReceives
  <2>. DEFINE v == [w EXCEPT !.go = g]
  <2>2. watches' = [watches EXCEPT ![s] = v] /\ v.stream = w.stream /\ v.buf = w.buf /\ v.go = g
    BY <1>2, <2>1 DEF WatchRecord
  <2>. HIDE DEF v
  <2>3. Forwarding /\ ~ctxDone /\ s = last /\ w.stream = "open" => g = "send"
    BY <2>1 DEF StreamEnded, Current, Forwarding
  <2>4. Forwarding /\ ~ctxDone /\ s = last /\ Sound(w) => Sound(v)
    BY <2>2, <2>3 DEF Sound
  <2>. QED
    BY <1>3, <2>2, <2>4
<1>5. CASE watchSends(s)
  <2>. DEFINE v == IF w.go = "send"
                     THEN [w EXCEPT !.buf = Append(w.buf, EventAt(w.next)), !.next = w.next + 1, !.go = "range"]
                     ELSE [w EXCEPT !.buf = Append(w.buf, ErrorEvent), !.go = "done"]
  <2>1. watches' = [watches EXCEPT ![s] = v] /\ w.go \in {"send", "error"}
    BY <1>5 DEF watchSends
  <2>2. v.stream = w.stream /\ (w.go = "send" => v.go = "range" /\ v.buf = Append(w.buf, EventAt(w.next)))
    BY <1>2 DEF WatchRecord
  <2>. HIDE DEF v
  <2>3. w.go = "send" => validate(EventAt(w.next))
    <3>1. history \in Seq(Changes) /\ (w.go = "send" => w.next \in 1..revision)
      <4>1. history \in Seq(Changes)
        BY DEF Types, RestOK
      <4>2. w.next \in Nat
        BY <1>2 DEF WatchRecord
      <4>3. w.next # 0 /\ (w.go = "send" => w.next <= revision)
        BY DEF Types, WatchesOK, GoodWatch
      <4>. QED
        BY <4>1, <4>2, <4>3 DEF revision
    <3>2. ASSUME NEW r \in 1..revision
          PROVE  EventAt(r).key \in Keys /\ EventAt(r).prefix
      <4>1. EventAt(r).key \in Keys
        BY <3>1, <3>2, ChangeIsEvent
      <4>. QED
        BY <4>1 DEF EventAt
    <3>3. 0 \notin Keys
      BY ListWatchAssumption
    <3>. QED
      BY <3>1, <3>2, <3>3 DEF validate, NoKey
  <2>4. Sound(w) => Sound(v)
    <3>1. ASSUME w.go = "send", \A i \in DOMAIN w.buf : validate(w.buf[i]), NEW i \in DOMAIN v.buf
          PROVE  validate(v.buf[i])
      <4>1. (i \in DOMAIN w.buf /\ v.buf[i] = w.buf[i]) \/ v.buf[i] = EventAt(w.next)
        BY <1>2, <2>2, <3>1
      <4>. QED
        BY <2>3, <3>1, <4>1
    <3>. QED
      BY <2>1, <2>2, <3>1 DEF Sound
  <2>. QED
    BY <1>3, <2>1, <2>2, <2>4
<1>6. CASE monitorWakes(s) \/ monitorSends(s)
  <2>1. UNCHANGED watches \/ \E m : watches' = [watches EXCEPT ![s].monitor = m]
    BY <1>6 DEF monitorWakes, monitorSends, Panics
  <2>2. CASE UNCHANGED watches
    BY <1>1, <2>2 DEF WatchPerFault, Forwarding
  <2>3. ASSUME NEW m, watches' = [watches EXCEPT ![s].monitor = m]
        PROVE  WatchPerFault'
    <3>. DEFINE v == [w EXCEPT !.monitor = m]
    <3>1. watches' = [watches EXCEPT ![s] = v] /\ v.stream = w.stream /\ v.buf = w.buf /\ v.go = w.go
      BY <1>2, <2>3 DEF WatchRecord
    <3>. HIDE DEF v
    <3>2. Sound(w) => Sound(v)
      BY <3>1 DEF Sound
    <3>. QED
      BY <1>3, <3>1, <3>2
  <2>. QED
    BY <2>1, <2>2, <2>3
<1>. QED
  BY <1>4, <1>5, <1>6 DEF watchGoroutines

(* The consumer, and the failure that breaks the current stream.           *)
LEMMA RestPerFault ==
  ASSUME Types, WatchPerFault, Receive \/ StopReading \/ Cancel \/ StreamBreaks \/ ListAndWatch
  PROVE  WatchPerFault'
<1>1. CASE Receive \/ StopReading \/ Cancel
  BY <1>1 DEF Receive, StopReading, Cancel, WatchPerFault, Forwarding
<1>2. CASE ListAndWatch
  BY <1>2, OutsidePerFault DEF ListAndWatch, Forwarding
<1>3. CASE StreamBreaks
  <2>. DEFINE s == Len(watches)
  <2>1. PICK how \in {"error", "closed"} : watches' = [watches EXCEPT ![s].stream = how]
    BY <1>3 DEF StreamBreaks
  <2>2. /\ Forwarding /\ UNCHANGED <<loop, ctxDone>> /\ faults' = faults + 1
        /\ watches[s].stream = "open"
    BY <1>3 DEF StreamBreaks, Current, Forwarding, Fault
  <2>3. /\ s \in DOMAIN watches /\ watches \in Seq(WatchRecord) /\ watches[s] \in WatchRecord
    BY <2>2, CurrentWatch DEF Forwarding, GoodWatch, Types, WatchesOK
  <2>4. Len(watches') = s /\ watches'[Len(watches')].stream = how
    BY SMTT(60), <2>1, <2>3 DEF WatchRecord
  <2>5. s <= faults + 1 /\ faults \in Nat /\ s \in Nat
    BY SMTT(60), <1>3, <2>3, FaultsGrow DEF WatchPerFault, StreamBreaks
  <2>. QED
    BY <2>1, <2>2, <2>4, <2>5 DEF WatchPerFault, Forwarding, Sound
<1>. QED
  BY <1>1, <1>2, <1>3

LEMMA PerFaultInductive ==
  ASSUME Types, WatchPerFault, [ListWatchNext]_<<history, lwVars>>
  PROVE  WatchPerFault'
<1>1. CASE runListWatchLoop
  BY <1>1, LoopPerFault
<1>2. ASSUME NEW s \in DOMAIN watches, watchGoroutines(s)
      PROVE  WatchPerFault'
  BY <1>2, GoroutinePerFault
<1>3. CASE Receive \/ StopReading \/ Cancel \/ StreamBreaks \/ ListAndWatch
  BY <1>3, RestPerFault
<1>4. CASE UNCHANGED lwVars
  BY <1>4 DEF lwVars, WatchPerFault, Forwarding
<1>. QED
  BY <1>1, <1>2, <1>3, <1>4 DEF ListWatchNext

(* ListAndWatch never gives up a watch that works: it calls Watch once,    *)
(* and once more for each failure of etcd.  So the goroutines that its     *)
(* watches leave behind are bounded by the failures, for any number of     *)
(* changes, any capacities and any consumer.                               *)
THEOREM WatchesAreKept == ListWatchSpec => []HealthyWatchKept
<1>1. EtcdWatchInit /\ ListWatchInit => Types /\ WatchPerFault
  <2>1. ListWatchInit => watches = <<>> /\ loop = "new" /\ faults = 0
    BY DEF ListWatchInit
  <2>. QED
    BY <2>1, TypesInit DEF WatchPerFault, Forwarding
<1>2. Types /\ [ListWatchNext]_<<history, lwVars>> => Types'
  BY TypesInductive
<1>3. Types /\ WatchPerFault /\ [ListWatchNext]_<<history, lwVars>> => WatchPerFault'
  BY PerFaultInductive
<1>4. WatchPerFault => HealthyWatchKept
  BY DEF WatchPerFault, HealthyWatchKept
<1>. QED
  BY <1>1, <1>2, <1>3, <1>4, PTL DEF ListWatchSpec
=============================================================================
