------------------------------ MODULE ListWatch ------------------------------
(***************************************************************************)
(* pkg/listwatch: one call of ListAndWatch, with its goroutines.           *)
(*                                                                         *)
(*  - the loop (runListWatchLoop): connect, list, send what was listed,    *)
(*    watch, forward events; after any failure wait and start over;        *)
(*  - one goroutine per call of Watch that copies etcd's stream into the   *)
(*    inner channel (go and buf of watches[s]);                            *)
(*  - one monitor goroutine per call of watchAndForwardEvents;             *)
(*  - the consumer of the event channel, which may stop reading or cancel  *)
(*    at any time.                                                         *)
(*                                                                         *)
(* A step is what a goroutine does between two points where it can block.  *)
(* The attempts of tryToSendErrorEvent (retry.WithRetries) are one step,   *)
(* taken when the last attempt is made: earlier attempts found the channel *)
(* full and changed nothing.  Delays are not measured: a timer may fire at *)
(* any time.  Metrics are only ever incremented and are left out.          *)
(***************************************************************************)
EXTENDS EtcdWatch

CONSTANTS EventChannelBuffer,  \* capacity of the channel of ListAndWatch
          WatchBuffer,         \* capacity of the channel of Watch (100 in the code)
          HasLogger,           \* NewListWatch was given a logger that is not nil
          MaxFaults            \* how often etcd may fail a request or break a stream

ASSUME ListWatchAssumption ==
  /\ 0 \notin Keys
  /\ EventChannelBuffer \in Nat \ {0} /\ WatchBuffer \in Nat \ {0}
  /\ HasLogger \in BOOLEAN /\ MaxFaults \in Nat

VARIABLES ch,        \* events in the channel that ListAndWatch returned
          ctxDone,   \* the watch context is cancelled or past its deadline
          etcdCli,   \* lw.etcdCli: "nil", "open", or "closed" but still set
          clients,   \* etcd clients created and not closed
          loop,      \* where runListWatchLoop is; "stopped": ch and done are closed
          existing,  \* listed events not sent yet
          event,     \* the event the loop is sending
          watches,   \* one record per call of Watch, the last one is current
          panic,     \* what ended the process, "none" while it runs
          got,       \* per key, the last event the consumer received
          reading,   \* the consumer still receives
          listed,    \* revision of this round's List (the code drops it)
          since,     \* revision of this round's Watch (likewise)
          faults     \* failures of etcd so far

lwVars == <<ch, ctxDone, etcdCli, clients, loop, existing, event, watches, panic,
            got, reading, listed, since, faults>>
-----------------------------------------------------------------------------
NoKey == 0

Event == [type : {"ADDED", "MODIFIED", "DELETED", "ERROR"}, key : Keys \cup {NoKey},
          rev : Nat, prefix : BOOLEAN]

(* The goroutines of one call of Watch: the next revision and the state of *)
(* etcd's stream, the goroutine and its channel, the monitor.              *)
WatchRecord ==
  [next : Nat, stream : {"open", "error", "closed"}, go : {"range", "send", "error", "done"},
   buf : Seq(Event), monitor : {"waiting", "sending", "done"}]

(* An Error event: the code sets neither Key nor Prefix.                   *)
ErrorEvent == [type |-> "ERROR", key |-> NoKey, rev |-> 0, prefix |-> FALSE]

validate(e) == (e.key = NoKey => e.type = "ERROR") /\ e.prefix

(* Mutant: the prefix is not set.                                          *)
EventWithoutPrefix(r) ==
  [type   |-> IF history[r].op = "DELETE" THEN "DELETED"
              ELSE IF Creates(r) THEN "ADDED" ELSE "MODIFIED",
   key    |-> history[r].key,
   rev    |-> r,
   prefix |-> FALSE]

(* The event for the change at revision r, as List and Watch build it.     *)
EventAt(r) ==
  [type   |-> IF history[r].op = "DELETE" THEN "DELETED"
              ELSE IF Creates(r) THEN "ADDED" ELSE "MODIFIED",
   key    |-> history[r].key,
   rev    |-> r,
   prefix |-> TRUE]

List == {EventAt(r) : r \in Contents}

(* The watch that the loop is forwarding.                                  *)
Current(s) == s = Len(watches) /\ loop \in {"forward", "send"}
-----------------------------------------------------------------------------
Room == Len(ch) < EventChannelBuffer

(* retry.WithRetries for an operation on ch: an attempt succeeds, the last  *)
(* one fails too, or the context ends the waiting between two of them.     *)
WithRetries(Attempt, LastFails) ==
  \/ Attempt
  \/ (LastFails \/ ctxDone) /\ UNCHANGED ch

(* Mutant: the capacity of the channel is not respected.                   *)
tryToSendErrorEventUnbounded == ch' = Append(ch, ErrorEvent)

(* Non-blocking sends to a channel that is open: the event is dropped when *)
(* the channel is full, and may be when the context is done.               *)
tryToSendErrorEvent == WithRetries(Room /\ ch' = Append(ch, ErrorEvent), ~Room)

(* Mutant: the client is forgotten and not closed.                         *)
closeEtcdClientForgets == etcdCli' = "nil" /\ UNCHANGED clients

closeEtcdClient ==
  /\ etcdCli' = "nil"
  /\ clients' = IF etcdCli = "open" THEN clients - 1 ELSE clients

(* A fault of etcd, and a request that fails.                              *)
Fault == faults < MaxFaults /\ faults' = faults + 1

RequestFails ==
  \/ (ctxDone \/ etcdCli = "closed") /\ UNCHANGED faults
  \/ Fault

RequestSucceeds == ~ctxDone /\ etcdCli = "open" /\ UNCHANGED faults

Panics(why) ==
  /\ panic' = why
  /\ UNCHANGED <<ch, ctxDone, etcdCli, clients, loop, existing, event, watches,
                 got, reading, listed, since>>

(* Code that starts by logging: with a nil logger it panics there.         *)
Logged(Step) == IF HasLogger THEN Step /\ UNCHANGED panic ELSE Panics("nil logger")
-----------------------------------------------------------------------------
(* The loop *)

ensureConnected ==
  /\ loop = "ensure"
  /\ \/ /\ etcdCli # "nil"
        /\ loop' = "list"
        /\ UNCHANGED <<ch, etcdCli, clients, panic, faults>>
     \/ /\ etcdCli = "nil"
        /\ etcdCli' = "open" /\ clients' = clients + 1
        /\ loop' = "list"
        /\ UNCHANGED <<ch, panic, faults>>
     \/ /\ etcdCli = "nil"
        /\ Fault
        /\ Logged(tryToSendErrorEvent /\ loop' = "backoff" /\ UNCHANGED <<etcdCli, clients>>)
  /\ UNCHANGED <<history, ctxDone, existing, event, watches, got, reading, listed, since>>

(* Mutant: a failed List leaves the client set.                            *)
listAndSendExistingKeepsClient ==
  /\ loop = "list"
  /\ \/ /\ RequestSucceeds
        /\ existing' = List /\ listed' = revision
        /\ loop' = "existing"
        /\ UNCHANGED <<ch, panic>>
     \/ /\ RequestFails
        /\ Logged(tryToSendErrorEvent /\ loop' = "backoff" /\ UNCHANGED <<existing, listed>>)
  /\ UNCHANGED <<history, ctxDone, etcdCli, clients, event, watches, got, reading, since>>

listAndSendExisting ==
  /\ loop = "list"
  /\ \/ /\ RequestSucceeds
        /\ existing' = List /\ listed' = revision
        /\ loop' = "existing"
        /\ UNCHANGED <<ch, etcdCli, clients, panic>>
     \/ /\ RequestFails
        /\ Logged(tryToSendErrorEvent /\ closeEtcdClient /\ loop' = "backoff" /\ UNCHANGED <<existing, listed>>)
  /\ UNCHANGED <<history, ctxDone, event, watches, got, reading, since>>

(* sendEvent for each listed event, in key order.                          *)
sendExisting ==
  /\ loop = "existing"
  /\ \/ /\ existing = {}
        /\ loop' = "watch"
        /\ UNCHANGED <<ch, existing>>
     \/ \E e \in existing :
          /\ \A f \in existing : e.key <= f.key
          /\ Room /\ ch' = Append(ch, e)
          /\ existing' = existing \ {e}
          /\ UNCHANGED loop
     \/ /\ existing # {} /\ ctxDone
        /\ loop' = "backoff" /\ existing' = {}
        /\ UNCHANGED ch
  /\ UNCHANGED <<history, ctxDone, etcdCli, clients, event, watches, panic, got, reading,
                 listed, since, faults>>

(* Mutants: every change is replayed; one change is skipped.               *)
WatchFromFirst(rev) == 1

WatchFromAfterNext(rev) == rev + 2

(* The revision etcd is asked to watch from, given that of the Get.        *)
WatchFrom(rev) == rev + 1

Watch ==
  /\ loop = "watch"
  /\ \/ /\ RequestSucceeds
        /\ watches' = Append(watches, [next |-> WatchFrom(revision), stream |-> "open",
                                       go |-> "range", buf |-> <<>>, monitor |-> "waiting"])
        /\ since' = revision
        /\ loop' = "forward"
        /\ UNCHANGED <<ch, etcdCli, clients, panic>>
     \/ /\ RequestFails
        /\ Logged(/\ tryToSendErrorEvent /\ closeEtcdClient /\ loop' = "backoff"
                  /\ UNCHANGED <<watches, since>>)
  /\ UNCHANGED <<history, ctxDone, existing, event, got, reading, listed>>

(* The deferred calls of watchAndForwardEvents: watchCtxCancel releases    *)
(* the monitor, watchCancel closes the client but leaves it set.           *)
leaveWatch ==
  /\ loop' = "backoff"
  /\ etcdCli' = IF etcdCli = "nil" THEN "nil" ELSE "closed"
  /\ clients' = IF etcdCli = "open" THEN clients - 1 ELSE clients

handleWatchChannelClose ==
  \/ Room /\ ch' = Append(ch, ErrorEvent) /\ closeEtcdClient /\ loop' = "backoff"
  \/ ~Room /\ UNCHANGED ch /\ closeEtcdClient /\ loop' = "backoff"
  \/ ctxDone /\ UNCHANGED ch /\ leaveWatch

watchAndForwardEvents ==
  LET s == Len(watches)
      w == watches[s] IN
  /\ loop = "forward"
  /\ \/ /\ ctxDone
        /\ tryToSendErrorEvent /\ leaveWatch
        /\ UNCHANGED <<event, watches, panic>>
     \/ /\ w.buf # <<>> /\ validate(Head(w.buf))
        /\ event' = Head(w.buf)
        /\ watches' = [watches EXCEPT ![s].buf = Tail(w.buf)]
        /\ loop' = "send"
        /\ UNCHANGED <<ch, etcdCli, clients, panic>>
     \/ /\ w.buf # <<>> /\ ~validate(Head(w.buf))
        /\ Logged(/\ watches' = [watches EXCEPT ![s].buf = Tail(w.buf)]
                  /\ leaveWatch /\ UNCHANGED <<ch, event>>)
     \/ /\ w.buf = <<>> /\ w.go = "done"
        /\ Logged(handleWatchChannelClose /\ UNCHANGED <<event, watches>>)
  /\ UNCHANGED <<history, ctxDone, existing, got, reading, listed, since, faults>>

(* Mutant: the send waits for room only.                                   *)
sendEventWithoutContext ==
  /\ loop = "send"
  /\ Room /\ ch' = Append(ch, event) /\ loop' = "forward"
  /\ event' = ErrorEvent
  /\ UNCHANGED <<history, ctxDone, etcdCli, clients, existing, watches, panic, got, reading, listed,
                 since, faults>>

(* The select of sendEvent for an event of the watch.                      *)
sendEvent ==
  /\ loop = "send"
  /\ \/ Room /\ ch' = Append(ch, event) /\ loop' = "forward" /\ UNCHANGED <<etcdCli, clients>>
     \/ ctxDone /\ UNCHANGED ch /\ leaveWatch
  /\ event' = ErrorEvent
  /\ UNCHANGED <<history, ctxDone, existing, watches, panic, got, reading, listed, since, faults>>

(* WithExponentialBackoff between two rounds, and its end with the loop.   *)
(* The loop logs when the context ran into its deadline, which without a   *)
(* logger is one more place to panic.                                      *)
backoffExpires ==
  /\ loop = "backoff"
  /\ loop' = "ensure" /\ listed' = 0 /\ since' = 0
  /\ UNCHANGED <<history, ch, ctxDone, etcdCli, clients, existing, event, watches, panic, got,
                 reading, faults>>

backoffStops ==
  /\ loop = "backoff" /\ ctxDone
  /\ \E logs \in {FALSE, ~HasLogger} :
       /\ panic' = IF logs THEN "nil logger" ELSE panic
       /\ loop' = IF logs THEN loop ELSE "cleanup"
  /\ UNCHANGED <<history, ch, ctxDone, etcdCli, clients, existing, event, watches, got, reading,
                 listed, since, faults>>

handleCleanup ==
  /\ loop = "cleanup"
  /\ closeEtcdClient /\ tryToSendErrorEvent
  /\ loop' = "stopped"
  /\ panic' = IF HasLogger THEN panic ELSE "nil logger"
  /\ UNCHANGED <<history, ctxDone, existing, event, watches, got, reading, listed, since, faults>>

runListWatchLoop ==
  \/ ensureConnected \/ listAndSendExisting \/ sendExisting \/ Watch
  \/ watchAndForwardEvents \/ sendEvent \/ backoffExpires \/ backoffStops \/ handleCleanup
-----------------------------------------------------------------------------
(* The goroutines of a watch *)

(* Mutant: the stream outlives the client and the context.                 *)
StreamEndedByEtcd(s) == watches[s].stream = "closed"

(* etcd has ended the stream of watch s, or its client or context has.     *)
StreamEnded(s) == watches[s].stream = "closed" \/ ctxDone \/ ~Current(s)

watchReceives(s) ==
  LET w == watches[s] IN
  /\ w.go = "range"
  /\ \E g \in {"send", "error", "done"} :
       /\ g = "send"  => w.stream = "open" /\ w.next <= revision
       /\ g = "error" => w.stream = "error"
       /\ g = "done"  => StreamEnded(s)
       /\ watches' = [watches EXCEPT ![s].go = g]
  /\ UNCHANGED <<history, ch, ctxDone, etcdCli, clients, loop, existing, event, panic, got,
                 reading, listed, since, faults>>

(* The send to the inner channel waits for room and for nothing else.      *)
watchSends(s) ==
  LET w == watches[s] IN
  /\ w.go \in {"send", "error"}
  /\ Len(w.buf) < WatchBuffer
  /\ watches' = [watches EXCEPT ![s] =
       IF w.go = "send" THEN [w EXCEPT !.buf = Append(w.buf, EventAt(w.next)), !.next = w.next + 1,
                                       !.go = "range"]
                        ELSE [w EXCEPT !.buf = Append(w.buf, ErrorEvent), !.go = "done"]]
  /\ UNCHANGED <<history, ch, ctxDone, etcdCli, clients, loop, existing, event, panic, got,
                 reading, listed, since, faults>>

monitorWakes(s) ==
  /\ watches[s].monitor = "waiting"
  /\ ctxDone \/ ~Current(s)
  /\ watches' = [watches EXCEPT ![s].monitor = IF ctxDone THEN "done" ELSE "sending"]
  /\ UNCHANGED <<history, ch, ctxDone, etcdCli, clients, loop, existing, event, panic, got,
                 reading, listed, since, faults>>

monitorSends(s) ==
  /\ watches[s].monitor = "sending"
  /\ \/ /\ loop # "stopped" /\ tryToSendErrorEvent
        /\ watches' = [watches EXCEPT ![s].monitor = "done"]
        /\ UNCHANGED <<ctxDone, etcdCli, clients, loop, existing, event, panic, got, reading, listed, since>>
     \/ /\ loop = "stopped"
        /\ watches' = [watches EXCEPT ![s].monitor = "done"]
        /\ UNCHANGED <<ch, ctxDone, etcdCli, clients, loop, existing, event, panic, got, reading, listed, since>>
     \/ loop = "stopped" /\ Panics("send on closed channel")
  /\ UNCHANGED <<history, faults>>

watchGoroutines(s) == watchReceives(s) \/ watchSends(s) \/ monitorWakes(s) \/ monitorSends(s)
-----------------------------------------------------------------------------
(* The consumer, and etcd's watch stream (external) *)

Receive ==
  /\ reading /\ ch # <<>>
  /\ ch' = Tail(ch)
  /\ got' = IF Head(ch).key = NoKey THEN got ELSE [got EXCEPT ![Head(ch).key] = Head(ch)]
  /\ UNCHANGED <<history, ctxDone, etcdCli, clients, loop, existing, event, watches, panic,
                 reading, listed, since, faults>>

StopReading ==
  /\ loop # "new" /\ reading /\ reading' = FALSE
  /\ UNCHANGED <<history, ch, ctxDone, etcdCli, clients, loop, existing, event, watches, panic,
                 got, listed, since, faults>>

Cancel ==
  /\ loop # "new" /\ ~ctxDone /\ ctxDone' = TRUE
  /\ UNCHANGED <<history, ch, etcdCli, clients, loop, existing, event, watches, panic, got,
                 reading, listed, since, faults>>

StreamBreaks ==
  LET s == Len(watches) IN
  /\ s # 0 /\ Current(s) /\ watches[s].stream = "open" /\ Fault
  /\ \E how \in {"error", "closed"} : watches' = [watches EXCEPT ![s].stream = how]
  /\ UNCHANGED <<history, ch, ctxDone, etcdCli, clients, loop, existing, event, panic, got,
                 reading, listed, since>>
-----------------------------------------------------------------------------
(* NewListWatch has made a client.                                         *)
ListWatchInit ==
  /\ ch = <<>> /\ ctxDone = FALSE /\ etcdCli = "open" /\ clients = 1
  /\ loop = "new" /\ existing = {} /\ event = ErrorEvent /\ watches = <<>>
  /\ panic = "none"
  /\ got = [k \in Keys |-> [type |-> "DELETED", key |-> k, rev |-> 0, prefix |-> TRUE]]
  /\ reading = TRUE /\ listed = 0 /\ since = 0 /\ faults = 0

(* The first round begins like one after a backoff: not at all when the    *)
(* context is done already.                                                *)
ListAndWatch ==
  /\ loop = "new" /\ loop' = "backoff"
  /\ UNCHANGED <<history, ch, ctxDone, etcdCli, clients, existing, event, watches, panic, got,
                 reading, listed, since, faults>>

ListWatchNext ==
  /\ panic = "none"
  /\ \/ ListAndWatch \/ runListWatchLoop
     \/ \E s \in DOMAIN watches : watchGoroutines(s)
     \/ Receive \/ StopReading \/ Cancel \/ StreamBreaks
     \/ Write /\ UNCHANGED lwVars

(* Every goroutine runs on (those of one watch take finitely many steps,   *)
(* so they share a condition), the consumer receives while it reads, and a *)
(* select in which both the timer and the end of the context are ready     *)
(* picks the latter sooner or later (Go's select is random): the loop      *)
(* meets that select again in every round.                                 *)
ListWatchFairness ==
  /\ WF_<<history, lwVars>>(panic = "none" /\ runListWatchLoop)
  /\ SF_<<history, lwVars>>(panic = "none" /\ backoffStops)
  /\ WF_<<history, lwVars>>(panic = "none" /\ Receive)
  /\ \A s \in 1..MaxFaults + 1 :
       WF_<<history, lwVars>>(panic = "none" /\ s \in DOMAIN watches /\ watchGoroutines(s))

ListWatchSpec == EtcdWatchInit /\ ListWatchInit /\ [][ListWatchNext]_<<history, lwVars>> /\ ListWatchFairness
-----------------------------------------------------------------------------
(* Every variable has its type; a channel never holds more than it can.    *)
ListWatchTypeOK ==
  /\ history \in Seq(Changes)
  /\ ch \in Seq(Event) /\ Len(ch) <= EventChannelBuffer
  /\ ctxDone \in BOOLEAN /\ reading \in BOOLEAN
  /\ etcdCli \in {"nil", "open", "closed"} /\ clients \in Nat
  /\ loop \in {"new", "ensure", "list", "existing", "watch", "forward", "send", "backoff", "cleanup", "stopped"}
  /\ existing \subseteq Event /\ event \in Event
  /\ watches \in Seq(WatchRecord)
  /\ \A s \in DOMAIN watches : Len(watches[s].buf) <= WatchBuffer
  /\ panic \in {"none", "nil logger", "send on closed channel"}
  /\ got \in [Keys -> Event]
  /\ listed \in Nat /\ since \in Nat /\ faults \in 0..MaxFaults

(* Every etcd client that was made is closed before the next one is made,  *)
(* and none is left when the loop has stopped, whichever way a round       *)
(* ended: closeEtcdClient, watchCancel and handleCleanup together.         *)
ClientsClosed ==
  /\ clients <= 1
  /\ loop = "stopped" => clients = 0

(* A watch that works is kept: Watch is called once, and once more for     *)
(* each failure of etcd.  So failures bound the goroutines left behind,    *)
(* and no round is ended by an event that came from etcd's changes.        *)
HealthyWatchKept == Len(watches) <= faults + 1

LastChange(k) == CHOOSE r \in ChangesOf(k, revision) \cup {0} : \A j \in ChangesOf(k, revision) : j <= r

(* What is on the way to the consumer in the current watch, in order.      *)
OnTheWay ==
  LET w == watches[Len(watches)] IN
  ch \o (IF loop = "send" THEN <<event>> ELSE <<>>) \o w.buf
     \o [i \in 1..(revision + 1 - w.next) |-> EventAt(w.next + i - 1)]

(* The last event for k the consumer will have received by then.           *)
LastFor(k) ==
  LET Is == {i \in DOMAIN OnTheWay : OnTheWay[i].key = k} IN
  IF Is = {} THEN got[k] ELSE OnTheWay[CHOOSE i \in Is : \A j \in Is : j <= i]

(* The consumer will know the value of k, or that it has none.             *)
WillKnow(k) ==
  IF LiveAt(k, revision) THEN LastFor(k).type \in {"ADDED", "MODIFIED"} /\ LastFor(k).rev = LastChange(k)
                         ELSE LastFor(k).type = "DELETED"

Watching == loop \in {"forward", "send"} /\ watches[Len(watches)].stream = "open"

(* While a watch runs, the consumer will get the present state of every    *)
(* key whose last change came after the watch began (no revision is        *)
(* skipped between the Get in Watch and the stream, none is lost between   *)
(* the channels) and of every key with a value that List has seen.         *)
KnownOnceSeen ==
  Watching => \A k \in Keys :
    \/ LastChange(k) > since
    \/ LastChange(k) <= listed /\ LiveAt(k, revision)
    => WillKnow(k)

(* "No events missed between List and Watch": while a watch runs, the      *)
(* consumer will get the present state of every key.                       *)
NoEventsMissed == Watching => \A k \in Keys : WillKnow(k)

(* The consumer is never taken back: for each key, the events it receives  *)
(* are in the order of the changes, over reconnections and repeated lists. *)
InOrder == [][\A k \in Keys : got'[k].rev >= got[k].rev]_<<history, lwVars>>

(* "Only send error if parent context is not done": the monitor never      *)
(* sends to the event channel after handleCleanup has closed it.           *)
SendsWhileOpen == panic # "send on closed channel"

(* The function that ListAndWatch returns comes back: once the context is  *)
(* done the loop closes done, although the consumer may have stopped       *)
(* reading with the event channel full.  A context stays done, so this is  *)
(* ctxDone ~> ...; the properties below have the form []<> for the same    *)
(* reason, that what they start from lasts until what they promise.        *)
StopReturns == []<>(ctxDone => loop = "stopped" \/ panic # "none")

(* Whatever ended a round, while the consumer reads and etcd recovers a    *)
(* watch is established again: in particular a client that watchCancel     *)
(* closed but left set is replaced.  The loop is never "new" again.        *)
Reconnects == []<>(loop \in {"new", "forward"} \/ ctxDone \/ ~reading \/ panic # "none")

(* The consumer has the change at revision r or a later one of its key.    *)
Received(r) == r \in DOMAIN history /\ got[history[r].key].rev >= r

(* A change made after a watch began is received by a consumer that reads, *)
(* unless the watch ends first.                                            *)
ChangesArrive ==
  \A r \in 1..MaxRevision :
    []<>(Watching /\ r \in since + 1 .. revision => Received(r) \/ ~reading \/ panic # "none")

(* After the end of the context every goroutine of every watch ends, but   *)
(* for one that waits for room in an inner channel nobody reads any more.  *)
LeaksOnlyWhenFull ==
  []<>(ctxDone => \/ \A s \in DOMAIN watches :
                       /\ watches[s].monitor = "done"
                       /\ watches[s].go = "done" \/ Len(watches[s].buf) = WatchBuffer
                  \/ panic # "none")
=============================================================================
