-------------------------- MODULE ListWatchDelivery --------------------------
(***************************************************************************)
(* pkg/listwatch delivers all it has seen: while a watch runs, nothing is  *)
(* lost out of the pipeline of WatchProofs, so the last event on its way   *)
(* to the consumer for a key is that of the key's last change, if the list *)
(* has shown that change or the watch has.                                 *)
(***************************************************************************)
EXTENDS WatchProofs, WellFoundedInduction

USE ZenonT(30), SMTT(120)

-----------------------------------------------------------------------------
(* What has been seen arrives *)

(* A change of k at revision r or later is in the event channel or with    *)
(* the consumer; it is still on its way out of watch w.                    *)
Reached(k, r) ==
  \/ got[k].rev >= r
  \/ \E i \in DOMAIN ch : ch[i].key = k /\ ch[i].rev >= r

Coming(k, r, w) ==
  \/ loop = "send" /\ event.key = k /\ event.rev >= r
  \/ \E i \in DOMAIN w.buf : w.buf[i].key = k /\ w.buf[i].rev >= r

(* r is what a List at revision l shows of its key.                        *)
Shown(r, l) == history[r].op = "PUT" /\ \A j \in 1..l : history[j].key = history[r].key => j <= r

(* Where the loop is while what this round's List has shown counts.        *)
Listing == {"existing", "watch", "forward", "send"}

(* What this round's List has shown is sent or still to be sent.           *)
ListArrives ==
  loop \in Listing =>
    /\ listed <= revision
    /\ \A r \in 1..listed : Shown(r, listed) =>
         \/ Reached(history[r].key, r)
         \/ \E e \in existing : e.key = history[r].key /\ e.rev >= r

(* Of what came after this round's Watch, all that the stream is past.     *)
WatchArrives(w) ==
  \A r \in since + 1..w.next - 1 : Reached(history[r].key, r) \/ Coming(history[r].key, r, w)

PipelineComplete ==
  /\ ListArrives
  /\ loop \in {"forward", "send"} => since < watches[Len(watches)].next /\ WatchArrives(watches[Len(watches)])

(* Every bounded set of numbers that is not empty has a largest one.       *)
LEMMA LargestExists ==
  ASSUME NEW n \in Nat, NEW S \in SUBSET (0..n), S # {}
  PROVE  \E x \in S : \A y \in S : y <= x
<1>. DEFINE T == {n - x : x \in S}
            R == OpToRel(<, Nat)
<1>1. T \subseteq Nat /\ T # {}
  <2>1. \A x \in S : n - x \in Nat
    OBVIOUS
  <2>2. PICK x \in S : TRUE
    OBVIOUS
  <2>3. n - x \in T
    BY <2>2
  <2>. QED
    BY <2>1, <2>3
<1>2. PICK t \in T : \A y \in T : ~(<<y, t>> \in R)
  <2>1. IsWellFoundedOn(R, Nat)
    BY NatLessThanWellFounded DEF OpToRel
  <2>. HIDE DEF T, R
  <2>. QED
    BY <1>1, <2>1, WFMin
<1>3. \A y \in T : ~(y < t)
  BY <1>1, <1>2 DEF OpToRel
<1>4. PICK x \in S : t = n - x
  OBVIOUS
<1>5. ASSUME NEW y \in S
      PROVE  y <= x
  <2>1. n - y \in T /\ x \in 0..n /\ y \in 0..n
    OBVIOUS
  <2>2. ~(n - y < n - x)
    BY <1>3, <1>4, <2>1
  <2>. QED
    BY <2>1, <2>2
<1>. QED
  BY <1>5

(* What has reached the consumer or its channel does not go back.          *)
StillReached == \A k \in Keys : \A r \in Nat : Reached(k, r) => Reached(k, r)'

LEMMA SendReaches ==
  ASSUME Types, NEW e \in Event, ch' = Append(ch, e), UNCHANGED got
  PROVE  StillReached /\ \A r \in Nat : e.key \in Keys /\ e.rev >= r => Reached(e.key, r)'
<1>1. ch \in Seq(Event) /\ Len(ch) \in Nat
  BY DEF Types, ChannelOK
<1>2. Len(ch') = Len(ch) + 1 /\ ch'[Len(ch) + 1] = e /\ \A i \in 1..Len(ch) : ch'[i] = ch[i]
      /\ DOMAIN ch' = 1..Len(ch) + 1 /\ DOMAIN ch = 1..Len(ch)
  BY <1>1
<1>3. 1..Len(ch) \subseteq 1..Len(ch) + 1 /\ Len(ch) + 1 \in 1..Len(ch) + 1
  BY <1>1
<1>4. ASSUME NEW k \in Keys, NEW r \in Nat, Reached(k, r)
      PROVE  Reached(k, r)'
  BY <1>2, <1>3, <1>4 DEF Reached
<1>5. ASSUME NEW r \in Nat, e.key \in Keys, e.rev >= r
      PROVE  Reached(e.key, r)'
  BY <1>2, <1>3, <1>5 DEF Reached
<1>. QED
  BY <1>4, <1>5 DEF StillReached

LEMMA ErrorReaches ==
  ASSUME Types, UNCHANGED got,
         \/ tryToSendErrorEvent
         \/ UNCHANGED ch
         \/ Room /\ ch' = Append(ch, ErrorEvent)
  PROVE  StillReached
<1>1. CASE UNCHANGED ch
  BY <1>1 DEF StillReached, Reached
<1>2. CASE ch' = Append(ch, ErrorEvent)
  BY <1>2, ErrorIsEvent, SendReaches
<1>. QED
  BY <1>1, <1>2 DEF tryToSendErrorEvent, WithRetries

LEMMA ReceiveReaches ==
  ASSUME Types, ChannelInOrder, UNCHANGED history, ch # <<>>, ch' = Tail(ch),
         got' = IF Head(ch).key = NoKey THEN got ELSE [got EXCEPT ![Head(ch).key] = Head(ch)]
  PROVE  StillReached
<1>1. ch \in Seq(Event) /\ got \in [Keys -> Event]
  BY DEF Types, ChannelOK, RestOK
<1>2. /\ Len(ch) \in Nat \ {0} /\ Head(ch) = ch[1] /\ DOMAIN ch = 1..Len(ch) /\ DOMAIN ch' = 1..Len(ch) - 1
      /\ \A i \in 1..Len(ch) - 1 : ch'[i] = ch[i + 1]
  BY SMTT(60), <1>1, HeadAndTail
<1>3. \A k \in Keys : got'[k].rev >= got[k].rev
  BY ReceiveInOrder
<1>4. got' \in [Keys -> Event]
  BY <1>1, HeadAndTail DEF Event
<1>5. \A k \in Keys : got[k].rev \in Nat /\ got'[k].rev \in Nat
  <2>1. \A k \in Keys : got[k] \in Event /\ got'[k] \in Event
    BY <1>1, <1>4
  <2>. QED
    BY <2>1 DEF Event
<1>6. ASSUME NEW k \in Keys, NEW r \in Nat, Reached(k, r)
      PROVE  Reached(k, r)'
  <2>1. CASE got[k].rev >= r
    <3>1. got'[k].rev >= r
      BY <1>3, <1>5, <2>1
    <3>. QED
      BY <3>1 DEF Reached
  <2>2. ASSUME NEW i \in DOMAIN ch, ch[i].key = k, ch[i].rev >= r
        PROVE  Reached(k, r)'
    <3>1. CASE i = 1
      <4>1. got'[k] = ch[1]
        BY <1>1, <1>2, <2>2, <3>1, ListWatchAssumption DEF NoKey
      <4>. QED
        BY <2>2, <3>1, <4>1 DEF Reached
    <3>2. CASE i # 1
      <4>1. i - 1 \in DOMAIN ch' /\ ch'[i - 1] = ch[i]
        BY SMTT(60), <1>2, <3>2
      <4>. QED
        BY <2>2, <4>1 DEF Reached
    <3>. QED
      BY <3>1, <3>2
  <2>. QED
    BY <1>6, <2>1, <2>2 DEF Reached
<1>. QED
  BY <1>6 DEF StillReached

(* The past of the log does not change.                                    *)
LEMMA LogKept ==
  ASSUME history \in Seq(Changes), Write \/ UNCHANGED history
  PROVE  /\ revision \in Nat /\ revision' \in Nat /\ revision <= revision'
         /\ \A i \in 1..revision : history'[i] = history[i] /\ history[i].key \in Keys
<1>1. revision \in Nat /\ \A i \in 1..revision : history[i].key \in Keys
  <2>1. \A i \in 1..revision : history[i] \in Changes
    BY DEF revision
  <2>. QED
    BY SMTT(60), <2>1 DEF Changes, revision
<1>2. CASE Write
  BY <1>1, <1>2, WriteAppends
<1>3. CASE UNCHANGED history
  BY <1>1, <1>3 DEF revision
<1>. QED
  BY <1>2, <1>3

(* A step takes nothing out of the list but to send it.                    *)
LEMMA ListKept ==
  ASSUME Types, ListArrives, StillReached, Write \/ UNCHANGED history, UNCHANGED listed,
         loop' \in Listing => loop \in Listing,
         \A e \in existing : e \in existing' \/ \A r \in Nat : e.rev >= r => Reached(e.key, r)'
  PROVE  ListArrives'
<1>1. history \in Seq(Changes) /\ listed \in Nat
  BY DEF Types, RestOK
<1>2. /\ revision \in Nat /\ revision' \in Nat /\ revision <= revision'
      /\ \A i \in 1..revision : history'[i] = history[i] /\ history[i].key \in Keys
  BY <1>1, LogKept
<1>3. SUFFICES ASSUME loop' \in Listing
               PROVE  /\ listed <= revision'
                      /\ \A r \in 1..listed : Shown(r, listed)' =>
                           \/ Reached(history[r].key, r)'
                           \/ \E e \in existing' : e.key = history'[r].key /\ e.rev >= r
  BY DEF ListArrives, Listing
<1>4. /\ listed <= revision
      /\ \A r \in 1..listed : Shown(r, listed) =>
           \/ Reached(history[r].key, r)
           \/ \E e \in existing : e.key = history[r].key /\ e.rev >= r
  BY <1>3 DEF ListArrives, Listing
<1>5. ASSUME NEW r \in 1..listed, Shown(r, listed)'
      PROVE  \/ Reached(history[r].key, r)'
             \/ \E e \in existing' : e.key = history'[r].key /\ e.rev >= r
  <2>1. /\ \A i \in 1..listed : history'[i] = history[i]
        /\ r \in Nat /\ history'[r] = history[r] /\ history[r].key \in Keys
    BY SMTT(60), <1>1, <1>2, <1>4
  <2>2. Shown(r, listed)
    BY <1>5, <2>1 DEF Shown
  <2>3. CASE Reached(history[r].key, r)
    BY <2>1, <2>3 DEF StillReached
  <2>4. ASSUME NEW e \in existing, e.key = history[r].key, e.rev >= r
        PROVE  \/ Reached(history[r].key, r)'
               \/ \E f \in existing' : f.key = history'[r].key /\ f.rev >= r
    BY <2>1, <2>4
  <2>. QED
    BY <1>4, <2>2, <2>3, <2>4
<1>6. listed <= revision'
  BY SMTT(60), <1>1, <1>2, <1>4
<1>. QED
  BY <1>5, <1>6

(* Nor does it take anything out of the watch but to send it, and the      *)
(* stream moves on by the event its goroutine puts into the channel.       *)
LEMMA WatchKept ==
  ASSUME Types, PipelineInOrder, PipelineComplete, loop \in {"forward", "send"},
         StillReached, Write \/ UNCHANGED history, UNCHANGED since,
         NEW w, w = watches[Len(watches)], NEW v, v = watches'[Len(watches')],
         \A k \in Keys : \A r \in Nat : Coming(k, r, w) => Reached(k, r)' \/ Coming(k, r, v)',
         \/ v.next = w.next
         \/ v.next = w.next + 1 /\ Coming(history[w.next].key, w.next, v)'
  PROVE  (since < watches[Len(watches)].next /\ WatchArrives(watches[Len(watches)]))'
<1>1. history \in Seq(Changes) /\ since \in Nat
  BY DEF Types, RestOK
<1>2. /\ revision \in Nat /\ revision' \in Nat /\ revision <= revision'
      /\ \A i \in 1..revision : history'[i] = history[i] /\ history[i].key \in Keys
  BY <1>1, LogKept
<1>3. /\ w.next \in Nat /\ w.next <= revision + 1 /\ since < w.next
      /\ \A r \in since + 1..w.next - 1 : Reached(history[r].key, r) \/ Coming(history[r].key, r, w)
  BY CurrentWatch DEF PipelineInOrder, PipelineComplete, WatchInOrder, WatchArrives, Coming, revision
<1>4. ASSUME NEW r \in since + 1..v.next - 1
      PROVE  Reached(history[r].key, r)' \/ Coming(history[r].key, r, v)'
  <2>1. CASE r \in since + 1..w.next - 1
    <3>1. r \in Nat /\ r \in 1..revision /\ history'[r] = history[r] /\ history[r].key \in Keys
      BY <1>1, <1>2, <1>3, <2>1
    <3>. QED
      BY <1>3, <2>1, <3>1 DEF StillReached
  <2>2. CASE v.next = w.next + 1 /\ r = w.next
    BY <2>2
  <2>. QED
    BY <1>1, <1>3, <2>1, <2>2
<1>5. since' < v.next
  BY <1>1, <1>3
<1>6. WatchArrives(v)'
  BY <1>4 DEF WatchArrives
<1>. QED
  BY <1>5, <1>6 DEF WatchArrives, Coming

(* A step that leaves the list and the watch phase, or stays outside them. *)
LEMMA OutsideComplete ==
  ASSUME loop' \notin Listing
  PROVE  PipelineComplete'
BY DEF PipelineComplete, ListArrives, Listing

(* A step that moves the channel, the consumer or the store, and no more   *)
(* of the watch than its state.                                            *)
LEMMA RestComplete ==
  ASSUME Types, PipelineInOrder, PipelineComplete, StillReached, Write \/ UNCHANGED history,
         UNCHANGED <<loop, existing, event, listed, since>>,
         loop \in {"forward", "send"} =>
           /\ watches'[Len(watches')].next = watches[Len(watches)].next
           /\ watches'[Len(watches')].buf = watches[Len(watches)].buf
  PROVE  PipelineComplete'
<1>1. ListArrives'
  BY ListKept DEF PipelineComplete
<1>2. ASSUME loop \in {"forward", "send"}
      PROVE  (since < watches[Len(watches)].next /\ WatchArrives(watches[Len(watches)]))'
  <2>1. PICK w, v : w = watches[Len(watches)] /\ v = watches'[Len(watches')]
    OBVIOUS
  <2>2. v.next = w.next /\ v.buf = w.buf
    BY <1>2, <2>1
  <2>3. ASSUME NEW k, NEW r, Coming(k, r, w)
        PROVE  Coming(k, r, v)'
    BY <2>2, <2>3 DEF Coming
  <2>. QED
    BY <1>2, <2>1, <2>2, <2>3, WatchKept
<1>. QED
  BY <1>1, <1>2 DEF PipelineComplete

LEMMA ListComplete ==
  ASSUME Types, UNCHANGED history, existing' = List, listed' = revision
  PROVE  ListArrives'
<1>1. history \in Seq(Changes)
  BY DEF Types, RestOK
<1>2. revision \in Nat /\ revision' = revision
  BY <1>1 DEF revision
<1>3. ASSUME NEW r \in 1..revision, Shown(r, revision)
      PROVE  \E e \in List : e.key = history[r].key /\ e.rev >= r
  <2>1. r \in Contents
    BY <1>3 DEF Shown, Contents, ChangesOf
  <2>2. EventAt(r) \in List /\ EventAt(r).key = history[r].key /\ EventAt(r).rev = r
    BY <1>1, <2>1, ChangeIsEvent DEF List
  <2>. QED
    BY <1>2, <2>2
<1>. QED
  BY <1>2, <1>3 DEF ListArrives, Shown

LEMMA ForwardComplete ==
  ASSUME Types, PipelineInOrder, PipelineComplete, watchAndForwardEvents
  PROVE  PipelineComplete'
<1>. DEFINE s == Len(watches)
            w == watches[s]
<1>1. UNCHANGED <<history, existing, got, listed, since>> /\ loop = "forward"
  BY DEF watchAndForwardEvents
<1>2. \/ loop' = "backoff"
      \/ UNCHANGED <<ch, event, watches, loop>>
      \/ /\ loop' = "send" /\ UNCHANGED ch
         /\ w.buf # <<>> /\ event' = Head(w.buf)
         /\ watches' = [watches EXCEPT ![s].buf = Tail(w.buf)]
  BY DEF watchAndForwardEvents, handleWatchChannelClose, leaveWatch, Logged, Panics
<1>3. CASE loop' = "backoff"
  BY <1>3, OutsideComplete DEF Listing
<1>4. CASE UNCHANGED <<ch, event, watches, loop>>
  BY <1>1, <1>4, ErrorReaches, RestComplete
<1>5. CASE /\ loop' = "send" /\ UNCHANGED ch
           /\ w.buf # <<>> /\ event' = Head(w.buf)
           /\ watches' = [watches EXCEPT ![s].buf = Tail(w.buf)]
  <2>1. s \in DOMAIN watches /\ w \in WatchRecord /\ w.buf \in Seq(Event)
    BY <1>1, CurrentWatch DEF GoodWatch
  <2>2. PICK u, v : u = w /\ v = watches'[Len(watches')]
    OBVIOUS
  <2>3. v.buf = Tail(u.buf) /\ v.next = u.next /\ event' = Head(u.buf) /\ u.buf # <<>>
    <3>1. watches \in Seq(WatchRecord)
      BY DEF Types, WatchesOK
    <3>2. v = [w EXCEPT !.buf = Tail(w.buf)]
      BY <1>5, <2>1, <2>2, <3>1
    <3>. QED
      BY <1>5, <2>1, <2>2, <3>2 DEF WatchRecord
  <2>4. /\ Len(u.buf) \in Nat \ {0} /\ Head(u.buf) = u.buf[1] /\ DOMAIN u.buf = 1..Len(u.buf)
        /\ DOMAIN v.buf = 1..Len(u.buf) - 1 /\ \A i \in 1..Len(u.buf) - 1 : v.buf[i] = u.buf[i + 1]
    BY SMTT(60), <2>1, <2>2, <2>3, HeadAndTail
  <2>5. ASSUME NEW k, NEW r, Coming(k, r, u)
        PROVE  Coming(k, r, v)'
    <3>1. PICK i \in DOMAIN u.buf : u.buf[i].key = k /\ u.buf[i].rev >= r
      BY <1>1, <2>5 DEF Coming
    <3>2. CASE i = 1
      BY <1>5, <2>3, <2>4, <3>1, <3>2 DEF Coming
    <3>3. CASE i # 1
      <4>1. i - 1 \in DOMAIN v.buf /\ v.buf[i - 1] = u.buf[i]
        BY SMTT(60), <2>4, <3>3
      <4>. QED
        BY <3>1, <4>1 DEF Coming
    <3>. QED
      BY <3>2, <3>3
  <2>6. StillReached
    BY <1>1, <1>5, ErrorReaches
  <2>7. ListArrives'
    BY <1>1, <1>5, <2>6, ListKept DEF PipelineComplete, Listing
  <2>8. (since < watches[Len(watches)].next /\ WatchArrives(watches[Len(watches)]))'
    BY <1>1, <2>2, <2>3, <2>5, <2>6, WatchKept
  <2>. QED
    BY <2>7, <2>8 DEF PipelineComplete
<1>. QED
  BY <1>2, <1>3, <1>4, <1>5

LEMMA SendEventComplete ==
  ASSUME Types, PipelineInOrder, PipelineComplete, sendEvent
  PROVE  PipelineComplete'
<1>1. UNCHANGED <<history, existing, watches, got, listed, since>> /\ loop = "send"
  BY DEF sendEvent
<1>2. CASE loop' = "backoff"
  BY <1>2, OutsideComplete DEF Listing
<1>3. CASE loop' = "forward" /\ ch' = Append(ch, event)
  <2>1. PICK e : e = event /\ e \in Event
    BY DEF Types, RestOK
  <2>2. StillReached /\ \A r \in Nat : e.key \in Keys /\ e.rev >= r => Reached(e.key, r)'
    BY <1>1, <1>3, <2>1, SendReaches
  <2>3. ListArrives'
    BY <1>1, <1>3, <2>2, ListKept DEF PipelineComplete, Listing
  <2>4. PICK w : w = watches[Len(watches)] /\ w = watches'[Len(watches')]
    BY <1>1
  <2>5. ASSUME NEW k \in Keys, NEW r \in Nat, Coming(k, r, w)
        PROVE  Reached(k, r)' \/ Coming(k, r, w)'
    BY <2>1, <2>2, <2>5 DEF Coming
  <2>6. (since < watches[Len(watches)].next /\ WatchArrives(watches[Len(watches)]))'
    BY <1>1, <2>2, <2>4, <2>5, WatchKept
  <2>. QED
    BY <2>3, <2>6 DEF PipelineComplete
<1>. QED
  BY <1>2, <1>3 DEF sendEvent, leaveWatch

LEMMA LoopComplete ==
  ASSUME Types, PipelineInOrder, PipelineComplete, runListWatchLoop
  PROVE  PipelineComplete'
<1>1. CASE ensureConnected \/ backoffExpires \/ backoffStops \/ handleCleanup
  <2>1. loop' \in {"list", "backoff", "ensure", "cleanup", "stopped"}
    BY <1>1, Zenon DEF ensureConnected, Logged, Panics, backoffExpires, backoffStops, handleCleanup
  <2>. QED
    BY <2>1, OutsideComplete DEF Listing
<1>2. CASE listAndSendExisting
  <2>1. UNCHANGED history
    BY <1>2 DEF listAndSendExisting
  <2>2. \/ loop' = "existing" /\ existing' = List /\ listed' = revision
        \/ loop' \in {"backoff", "list"}
    BY <1>2, Zenon DEF listAndSendExisting, Logged, Panics
  <2>3. CASE loop' = "existing" /\ existing' = List /\ listed' = revision
    BY <2>1, <2>3, ListComplete DEF PipelineComplete
  <2>. QED
    BY <2>2, <2>3, OutsideComplete DEF Listing
<1>3. CASE sendExisting
  <2>1. UNCHANGED <<history, got, listed>> /\ loop = "existing"
    BY <1>3 DEF sendExisting
  <2>2. CASE existing = {} /\ loop' = "watch" /\ UNCHANGED <<ch, existing>>
    BY <2>1, <2>2, ErrorReaches, ListKept DEF PipelineComplete, Listing
  <2>3. CASE loop' = "backoff"
    BY <2>3, OutsideComplete DEF Listing
  <2>4. ASSUME NEW e \in existing, ch' = Append(ch, e), existing' = existing \ {e}, UNCHANGED loop
        PROVE  PipelineComplete'
    <3>1. e \in Event /\ e.key \in Keys
      BY DEF PipelineInOrder, ExistingInOrder, Types, RestOK, Event
    <3>2. PICK x : x = e
      OBVIOUS
    <3>3. StillReached /\ \A r \in Nat : x.rev >= r => Reached(x.key, r)'
      BY <2>1, <2>4, <3>1, <3>2, SendReaches
    <3>4. ASSUME NEW f \in existing
          PROVE  f \in existing' \/ \A r \in Nat : f.rev >= r => Reached(f.key, r)'
      BY <2>4, <3>2, <3>3
    <3>5. ListArrives'
      BY <2>1, <2>4, <3>3, <3>4, ListKept DEF PipelineComplete
    <3>. QED
      BY <2>1, <2>4, <3>5 DEF PipelineComplete
  <2>. QED
    BY <1>3, <2>2, <2>3, <2>4 DEF sendExisting
<1>4. CASE Watch
  <2>. DEFINE w == [next |-> WatchFrom(revision), stream |-> "open",
                    go |-> "range", buf |-> <<>>, monitor |-> "waiting"]
  <2>1. UNCHANGED <<history, existing, got, listed>> /\ loop = "watch"
    BY <1>4 DEF Watch
  <2>2. \/ UNCHANGED ch /\ loop' = "forward" /\ watches' = Append(watches, w) /\ since' = revision
        \/ loop' = "backoff"
        \/ UNCHANGED <<ch, event, watches, loop, since>>
    BY <1>4, Zenon DEF Watch, Logged, Panics
  <2>3. CASE UNCHANGED ch /\ loop' = "forward" /\ watches' = Append(watches, w) /\ since' = revision
    <3>0. revision \in Nat
      <4>1. history \in Seq(Changes)
        BY DEF Types, RestOK
      <4>. QED
        BY <4>1 DEF revision
    <3>1. w.next = revision + 1
      BY DEF WatchFrom
    <3>2. watches \in Seq(WatchRecord)
      BY DEF Types, WatchesOK
    <3>. HIDE DEF w
    <3>3. watches'[Len(watches')] = w
      BY <2>3, <3>2
    <3>4. (since < watches[Len(watches)].next /\ WatchArrives(watches[Len(watches)]))'
      BY <2>3, <3>0, <3>1, <3>3 DEF WatchArrives
    <3>5. ListArrives'
      BY <2>1, <2>3, ErrorReaches, ListKept DEF PipelineComplete, Listing
    <3>. QED
      BY <3>4, <3>5 DEF PipelineComplete
  <2>4. CASE UNCHANGED <<ch, event, watches, loop, since>>
    BY <2>1, <2>4, ErrorReaches, RestComplete
  <2>. QED
    BY <2>2, <2>3, <2>4, OutsideComplete DEF Listing
<1>5. CASE watchAndForwardEvents
  BY <1>5, ForwardComplete
<1>6. CASE sendEvent
  BY <1>6, SendEventComplete
<1>. QED
  BY <1>1, <1>2, <1>3, <1>4, <1>5, <1>6 DEF runListWatchLoop

LEMMA GoroutineComplete ==
  ASSUME Types, PipelineInOrder, PipelineComplete, NEW s \in DOMAIN watches, watchGoroutines(s)
  PROVE  PipelineComplete'
<1>. DEFINE l == Len(watches)
<1>1. /\ UNCHANGED <<history, loop, existing, event, got, listed, since>>
      /\ tryToSendErrorEvent \/ UNCHANGED ch
  BY GoroutineSteps
<1>2. PICK v : GoodWatch(v) /\ watches' = [watches EXCEPT ![s] = v] /\ GoroutineDoes(s, v)
  BY GoroutineSteps
<1>3. StillReached
  BY <1>1, ErrorReaches
<1>4. watches \in Seq(WatchRecord) /\ history \in Seq(Changes)
  BY DEF Types, WatchesOK, RestOK
<1>5. Len(watches') = l /\ watches'[l] = IF s = l THEN v ELSE watches[l]
  BY <1>2, <1>4
<1>6. CASE s # l \/ loop \notin {"forward", "send"} \/ (v.buf = watches[s].buf /\ v.next = watches[s].next)
  BY <1>1, <1>3, <1>5, <1>6, RestComplete
<1>7. ASSUME s = l, loop \in {"forward", "send"}, NEW e \in Event, v.buf = Append(watches[s].buf, e),
             \/ v.next = watches[s].next
             \/ /\ v.next = watches[s].next + 1 /\ watches[s].next \in 1..revision
                /\ e.key = history[watches[s].next].key /\ e.rev = watches[s].next
      PROVE  PipelineComplete'
  <2>1. ListArrives'
    BY <1>1, <1>3, ListKept DEF PipelineComplete
  <2>2. PICK w : w = watches[Len(watches)]
    OBVIOUS
  <2>3. w.buf \in Seq(Event) /\ v = watches'[Len(watches')] /\ w.next \in Nat
    BY <1>5, <1>7, <2>2, CurrentWatch
  <2>4. /\ DOMAIN v.buf = 1..Len(w.buf) + 1 /\ v.buf[Len(w.buf) + 1] = e /\ Len(w.buf) \in Nat
        /\ \A i \in DOMAIN w.buf : i \in DOMAIN v.buf /\ v.buf[i] = w.buf[i]
    BY <1>7, <2>2, <2>3
  <2>5. ASSUME NEW k \in Keys, NEW r \in Nat, Coming(k, r, w)
        PROVE  Coming(k, r, v)'
    BY <1>1, <2>4, <2>5 DEF Coming
  <2>6. v.next = w.next \/ (v.next = w.next + 1 /\ Coming(history[w.next].key, w.next, v)')
    <3>1. Len(w.buf) + 1 \in DOMAIN v.buf
      BY <2>4
    <3>2. v.next = w.next \/ (v.next = w.next + 1 /\ e.key = history[w.next].key /\ e.rev = w.next)
      BY <1>7, <2>2
    <3>3. CASE v.next = w.next + 1 /\ e.key = history[w.next].key /\ e.rev = w.next
      <4>1. \E i \in DOMAIN v.buf : v.buf[i].key = history'[w.next].key /\ v.buf[i].rev >= w.next
        BY <1>1, <2>3, <2>4, <3>1, <3>3
      <4>. QED
        BY <3>3, <4>1 DEF Coming
    <3>. QED
      BY <3>2, <3>3
  <2>7. (since < watches[Len(watches)].next /\ WatchArrives(watches[Len(watches)]))'
    BY <1>1, <1>3, <1>7, <2>2, <2>3, <2>5, <2>6, WatchKept
  <2>. QED
    BY <2>1, <2>7 DEF PipelineComplete
<1>8. CASE s = l /\ loop \in {"forward", "send"} /\ watches[s].go = "send"
           /\ v.buf = Append(watches[s].buf, EventAt(watches[s].next)) /\ v.next = watches[s].next + 1
  <2>1. revision \in Nat /\ watches[s].next \in 1..revision
    BY <1>4, <1>8, CurrentWatch DEF GoodWatch, revision
  <2>2. /\ EventAt(watches[s].next) \in Event /\ EventAt(watches[s].next).rev = watches[s].next
        /\ EventAt(watches[s].next).key = history[watches[s].next].key
    BY <1>4, <2>1, ChangeIsEvent
  <2>. QED
    BY <1>7, <1>8, <2>1, <2>2
<1>9. CASE s = l /\ loop \in {"forward", "send"}
           /\ v.buf = Append(watches[s].buf, ErrorEvent) /\ v.next = watches[s].next
  BY <1>7, <1>9, ErrorIsEvent
<1>. QED
  BY <1>2, <1>6, <1>8, <1>9 DEF GoroutineDoes

LEMMA CompleteInductive ==
  ASSUME Types, PipelineInOrder, PipelineComplete, [ListWatchNext]_<<history, lwVars>>
  PROVE  PipelineComplete'
<1>1. CASE runListWatchLoop
  BY <1>1, LoopComplete
<1>2. CASE \E s \in DOMAIN watches : watchGoroutines(s)
  BY <1>2, GoroutineComplete
<1>3. CASE ListAndWatch
  BY <1>3, OutsideComplete DEF ListAndWatch, Listing
<1>4. CASE Receive \/ StopReading \/ Cancel \/ StreamBreaks
  <2>1. UNCHANGED <<history, loop, existing, event, listed, since>>
    BY <1>4 DEF Receive, StopReading, Cancel, StreamBreaks
  <2>2. StillReached
    <3>1. CASE UNCHANGED <<ch, got>>
      BY <3>1, ErrorReaches
    <3>2. CASE /\ ch # <<>> /\ ch' = Tail(ch)
               /\ got' = IF Head(ch).key = NoKey THEN got ELSE [got EXCEPT ![Head(ch).key] = Head(ch)]
      BY <2>1, <3>2, ReceiveReaches DEF PipelineInOrder
    <3>. QED
      BY <1>4, <3>1, <3>2, ConsumerSteps
  <2>3. ASSUME loop \in {"forward", "send"}
        PROVE  /\ watches'[Len(watches')].next = watches[Len(watches)].next
               /\ watches'[Len(watches')].buf = watches[Len(watches)].buf
    <3>1. CASE UNCHANGED watches
      BY <3>1
    <3>2. ASSUME NEW how, watches' = [watches EXCEPT ![Len(watches)].stream = how]
          PROVE  /\ watches'[Len(watches')].next = watches[Len(watches)].next
                 /\ watches'[Len(watches')].buf = watches[Len(watches)].buf
      <4>. DEFINE w == watches[Len(watches)]
      <4>1. watches \in Seq(WatchRecord) /\ Len(watches) \in DOMAIN watches /\ w \in WatchRecord
        BY <2>3, CurrentWatch DEF Types, WatchesOK, GoodWatch
      <4>2. watches'[Len(watches')] = [w EXCEPT !.stream = how]
        BY <3>2, <4>1
      <4>. QED
        BY <4>1, <4>2 DEF WatchRecord
    <3>. QED
      BY <1>4, <3>1, <3>2, ConsumerSteps
  <2>. QED
    BY <2>1, <2>2, <2>3, RestComplete
<1>5. CASE (Write \/ UNCHANGED history) /\ UNCHANGED lwVars
  <2>1. UNCHANGED <<ch, got, loop, existing, event, watches, listed, since>>
    BY <1>5 DEF lwVars
  <2>. QED
    BY <1>5, <2>1, ErrorReaches, RestComplete
<1>. QED
  BY <1>1, <1>2, <1>3, <1>4, <1>5 DEF ListWatchNext

-----------------------------------------------------------------------------
(* The last event on its way for a key *)

(* The events for k in the sequence s: in the order of the changes, before *)
(* those of t, each of a change that was made and none older than what the *)
(* consumer has; the change at revision r or a later one is among them.    *)
Rising(s, k) ==
  \A i \in DOMAIN s : \A j \in DOMAIN s :
    i <= j /\ s[i].key = k /\ s[j].key = k => s[i].rev <= s[j].rev

Below(s, t, k) ==
  \A i \in DOMAIN s : \A j \in DOMAIN t : s[i].key = k /\ t[j].key = k => s[i].rev <= t[j].rev

Proper(s, k) == \A i \in DOMAIN s : s[i].key = k => Happened(s[i], history) /\ got[k].rev <= s[i].rev

Has(s, k, r) == \E i \in DOMAIN s : s[i].key = k /\ s[i].rev >= r

LEMMA Joined ==
  ASSUME NEW s \in Seq(Event), NEW t \in Seq(Event), NEW k
  PROVE  /\ s \o t \in Seq(Event)
         /\ Rising(s, k) /\ Rising(t, k) /\ Below(s, t, k) => Rising(s \o t, k)
         /\ \A u \in Seq(Event) : Below(s, u, k) /\ Below(t, u, k) => Below(s \o t, u, k)
         /\ Proper(s, k) /\ Proper(t, k) => Proper(s \o t, k)
         /\ \A r \in Nat : Has(s, k, r) \/ Has(t, k, r) => Has(s \o t, k, r)
<1>. DEFINE n == Len(s)
            m == Len(t)
            q == s \o t
<1>1. /\ n \in Nat /\ m \in Nat /\ q \in Seq(Event) /\ DOMAIN s = 1..n /\ DOMAIN t = 1..m /\ DOMAIN q = 1..n + m
      /\ \A i \in 1..n : q[i] = s[i]
      /\ \A i \in 1..m : q[n + i] = t[i]
  OBVIOUS
<1>. HIDE DEF n, m, q
<1>2. ASSUME NEW i \in DOMAIN q
      PROVE  \/ i \in DOMAIN s /\ q[i] = s[i]
             \/ i > n /\ i - n \in DOMAIN t /\ q[i] = t[i - n]
  <2>1. CASE i <= n
    BY SMTT(60), <1>1, <2>1
  <2>2. CASE i > n
    <3>1. i - n \in 1..m /\ n + (i - n) = i
      BY <1>1, <2>2
    <3>. QED
      BY <1>1, <2>2, <3>1
  <2>. QED
    BY SMTT(60), <1>1, <2>1, <2>2
<1>3. ASSUME Rising(s, k), Rising(t, k), Below(s, t, k)
      PROVE  Rising(q, k)
  <2>1. SUFFICES ASSUME NEW i \in DOMAIN q, NEW j \in DOMAIN q, i <= j, q[i].key = k, q[j].key = k
                 PROVE  q[i].rev <= q[j].rev
    BY DEF Rising
  <2>2. CASE i \in DOMAIN s /\ q[i] = s[i] /\ j \in DOMAIN s /\ q[j] = s[j]
    BY <1>3, <2>1, <2>2 DEF Rising
  <2>3. CASE i \in DOMAIN s /\ q[i] = s[i] /\ j - n \in DOMAIN t /\ q[j] = t[j - n]
    BY <1>3, <2>1, <2>3 DEF Below
  <2>4. CASE i - n \in DOMAIN t /\ q[i] = t[i - n] /\ j - n \in DOMAIN t /\ q[j] = t[j - n]
    <3>1. i - n <= j - n
      BY <1>1, <2>1
    <3>. QED
      BY <1>3, <2>1, <2>4, <3>1 DEF Rising
  <2>5. ~(i > n /\ j \in DOMAIN s)
    BY <1>1, <2>1
  <2>. QED
    BY <1>2, <2>2, <2>3, <2>4, <2>5
<1>4. ASSUME NEW u \in Seq(Event), Below(s, u, k), Below(t, u, k)
      PROVE  Below(q, u, k)
  BY <1>2, <1>4 DEF Below
<1>5. ASSUME Proper(s, k), Proper(t, k)
      PROVE  Proper(q, k)
  BY <1>2, <1>5 DEF Proper
<1>6. ASSUME NEW r \in Nat, Has(s, k, r) \/ Has(t, k, r)
      PROVE  Has(q, k, r)
  <2>1. ASSUME NEW i \in DOMAIN s, s[i].key = k, s[i].rev >= r
        PROVE  Has(q, k, r)
    <3>1. i \in DOMAIN q /\ q[i] = s[i]
      BY SMTT(60), <1>1
    <3>. QED
      BY <2>1, <3>1 DEF Has
  <2>2. ASSUME NEW i \in DOMAIN t, t[i].key = k, t[i].rev >= r
        PROVE  Has(q, k, r)
    <3>1. n + i \in DOMAIN q /\ q[n + i] = t[i]
      BY SMTT(60), <1>1
    <3>. QED
      BY <2>2, <3>1 DEF Has
  <2>. QED
    BY <1>6, <2>1, <2>2 DEF Has
<1>. QED
  BY <1>1, <1>3, <1>4, <1>5, <1>6 DEF q

(* LastChange and LiveAt in terms of the log.                              *)
LEMMA LastChangeIs ==
  ASSUME history \in Seq(Changes), NEW k \in Keys
  PROVE  /\ LastChange(k) \in Nat
         /\ LastChange(k) # 0 => LastChange(k) \in 1..revision /\ history[LastChange(k)].key = k
         /\ \A j \in 1..revision : history[j].key = k => j <= LastChange(k)
         /\ LiveAt(k, revision) <=> LastChange(k) # 0 /\ history[LastChange(k)].op = "PUT"
<1>. DEFINE C == ChangesOf(k, revision)
            L == LastChange(k)
<1>1. revision \in Nat
  BY DEF revision
<1>2. \A j : j \in C <=> j \in 1..revision /\ history[j].key = k
  BY DEF ChangesOf
<1>3. L \in C \cup {0} /\ \A j \in C : j <= L
  <2>1. C \cup {0} \in SUBSET (0..revision)
    BY SMTT(60), <1>1, <1>2
  <2>2. \E x \in C \cup {0} : \A y \in C \cup {0} : y <= x
    <3>. HIDE DEF C
    <3>. QED
      BY <1>1, <2>1, LargestExists
  <2>3. \E x \in C \cup {0} : \A y \in C : y <= x
    BY <2>2
  <2>. QED
    BY <2>3 DEF LastChange
<1>. HIDE DEF L
<1>4. LiveAt(k, revision) <=> \E i \in C : history[i].op = "PUT" /\ \A j \in C : j <= i
  BY DEF LiveAt
<1>. HIDE DEF C
<1>5. ASSUME NEW i \in C, \A j \in C : j <= i
      PROVE  i = L
  BY <1>1, <1>2, <1>3, <1>5
<1>6. L # 0 <=> L \in C
  BY <1>1, <1>2, <1>3
<1>7. LiveAt(k, revision) <=> L # 0 /\ history[L].op = "PUT"
  BY <1>3, <1>4, <1>5, <1>6
<1>. QED
  BY <1>1, <1>2, <1>3, <1>6, <1>7 DEF L

(* What is on its way to the consumer, for any key, is in the order of the *)
(* changes, and nothing in the pipeline is left out of it.                 *)
LEMMA WayInOrder ==
  ASSUME Types, PipelineInOrder, loop \in {"forward", "send"}, NEW k \in Keys
  PROVE  /\ OnTheWay \in Seq(Event) /\ Rising(OnTheWay, k) /\ Proper(OnTheWay, k)
         /\ \A r \in Nat :
              \/ \E i \in DOMAIN ch : ch[i].key = k /\ ch[i].rev >= r
              \/ Coming(k, r, watches[Len(watches)])
              \/ r \in watches[Len(watches)].next..revision /\ history[r].key = k
              => Has(OnTheWay, k, r)
<1>. DEFINE w == watches[Len(watches)]
            B == IF loop = "send" THEN <<event>> ELSE <<>>
            D == [i \in 1..(revision + 1 - w.next) |-> EventAt(w.next + i - 1)]
<1>1. /\ ch \in Seq(Event) /\ got \in [Keys -> Event] /\ event \in Event /\ history \in Seq(Changes)
      /\ k # NoKey /\ k # ErrorEvent.key
  BY ListWatchAssumption DEF Types, ChannelOK, RestOK, NoKey, ErrorEvent
<1>2. /\ w.buf \in Seq(Event) /\ w.next \in Nat \ {0}
      /\ ChannelInOrder /\ WatchInOrder(w, ch, got, history)
      /\ loop = "send" => EventInOrder(event, w, ch, got, history)
  BY CurrentWatch DEF PipelineInOrder, GoodWatch
<1>3. revision \in Nat /\ revision = Len(history) /\ w.next <= revision + 1
  BY SMTT(60), <1>1, <1>2 DEF revision, WatchInOrder
<1>4. B \in Seq(Event) /\ \A i \in DOMAIN B : loop = "send" /\ i = 1 /\ B[i] = event
  BY <1>1
<1>5. /\ D \in Seq(Event) /\ DOMAIN D = 1..(revision + 1 - w.next)
      /\ \A i \in DOMAIN D : /\ D[i].rev = w.next + i - 1 /\ D[i].key = history[w.next + i - 1].key
                             /\ Happened(D[i], history)
  <2>1. ASSUME NEW i \in 1..(revision + 1 - w.next)
        PROVE  /\ EventAt(w.next + i - 1) \in Event /\ EventAt(w.next + i - 1).rev = w.next + i - 1
               /\ EventAt(w.next + i - 1).key = history[w.next + i - 1].key
               /\ Happened(EventAt(w.next + i - 1), history)
    <3>1. w.next + i - 1 \in 1..revision
      BY <1>2, <1>3
    <3>. QED
      BY <1>1, <3>1, ChangeIsEvent, EventHappened
  <2>2. revision + 1 - w.next \in Nat
    BY <1>2, <1>3
  <2>. QED
    BY <2>1, <2>2
<1>6. /\ \A i \in DOMAIN ch : ch[i].rev \in Nat
      /\ \A i \in DOMAIN w.buf : w.buf[i].rev \in Nat
      /\ event.rev \in Nat /\ got[k].rev \in Nat
  <2>1. /\ \A i \in DOMAIN ch : ch[i] \in Event
        /\ \A i \in DOMAIN w.buf : w.buf[i] \in Event
        /\ event \in Event /\ got[k] \in Event
    BY SMTT(60), <1>1, <1>2
  <2>. QED
    BY <2>1 DEF Event
<1>7. OnTheWay = ch \o B \o w.buf \o D
  BY DEF OnTheWay
<1>. HIDE DEF w, B, D
(* Each part by itself.                                                    *)
<1>8. Rising(ch, k) /\ Proper(ch, k)
  <2>1. DOMAIN ch = 1..Len(ch) /\ Len(ch) \in Nat
    BY <1>1
  <2>. QED
    BY SMTT(60), <1>1, <1>2, <2>1 DEF ChannelInOrder, Rising, Proper
<1>9. Rising(B, k) /\ Proper(B, k)
  BY SMTT(60), <1>2, <1>4, <1>6 DEF EventInOrder, AllSentUpTo, SentUpTo, Rising, Proper
<1>10. \A i \in DOMAIN w.buf : w.buf[i].key = k => w.buf[i] # ErrorEvent
  BY <1>1
<1>11. Rising(w.buf, k) /\ Proper(w.buf, k)
  <2>1. DOMAIN w.buf = 1..Len(w.buf) /\ Len(w.buf) \in Nat
    BY <1>2
  <2>2. Proper(w.buf, k)
    BY <1>2, <1>10 DEF WatchInOrder, AllSentUpTo, SentUpTo, Proper
  <2>3. ASSUME NEW i \in DOMAIN w.buf, NEW j \in DOMAIN w.buf, i <= j, w.buf[i].key = k, w.buf[j].key = k
        PROVE  w.buf[i].rev <= w.buf[j].rev
    <3>1. i \in 1..j
      BY <2>1, <2>3
    <3>. QED
      BY <1>2, <1>10, <2>3, <3>1 DEF WatchInOrder
  <2>. QED
    BY <2>2, <2>3 DEF Rising
<1>12. Rising(D, k) /\ Proper(D, k)
  <2>1. Rising(D, k)
    BY SMTT(60), <1>2, <1>3, <1>5 DEF Rising
  <2>2. got[k].rev <= w.next
    BY <1>2 DEF WatchInOrder, AllSentUpTo, SentUpTo
  <2>. QED
    BY SMTT(60), <1>2, <1>3, <1>5, <1>6, <2>1, <2>2 DEF Proper
(* Each part before the later ones.                                        *)
<1>13. Below(ch, B, k) /\ Below(ch, w.buf, k) /\ Below(ch, D, k)
  <2>1. Below(ch, B, k)
    BY <1>2, <1>4 DEF EventInOrder, AllSentUpTo, SentUpTo, Below
  <2>2. Below(ch, w.buf, k)
    BY <1>2, <1>10 DEF WatchInOrder, AllSentUpTo, SentUpTo, Below
  <2>3. \A i \in DOMAIN ch : ch[i].key = k => ch[i].rev <= w.next
    BY <1>2 DEF WatchInOrder, AllSentUpTo, SentUpTo
  <2>4. Below(ch, D, k)
    BY SMTT(60), <1>2, <1>3, <1>5, <1>6, <2>3 DEF Below
  <2>. QED
    BY <2>1, <2>2, <2>4
<1>14. Below(B, w.buf, k) /\ Below(B, D, k) /\ Below(w.buf, D, k)
  <2>1. Below(B, w.buf, k)
    BY <1>2, <1>4, <1>10 DEF EventInOrder, Below
  <2>2. loop = "send" => event.rev < w.next
    BY <1>2 DEF EventInOrder
  <2>3. Below(B, D, k)
    BY SMTT(60), <1>2, <1>3, <1>4, <1>5, <1>6, <2>2 DEF Below
  <2>4. \A i \in DOMAIN w.buf : w.buf[i].key = k => w.buf[i].rev < w.next
    BY <1>2, <1>10 DEF WatchInOrder
  <2>5. Below(w.buf, D, k)
    BY SMTT(60), <1>2, <1>3, <1>5, <1>6, <2>4 DEF Below
  <2>. QED
    BY <2>1, <2>3, <2>5
(* All of them together.                                                   *)
<1>15. /\ ch \o B \in Seq(Event) /\ Rising(ch \o B, k) /\ Proper(ch \o B, k)
       /\ Below(ch \o B, w.buf, k) /\ Below(ch \o B, D, k)
       /\ \A r \in Nat : Has(ch, k, r) \/ Has(B, k, r) => Has(ch \o B, k, r)
  BY <1>1, <1>2, <1>4, <1>5, <1>8, <1>9, <1>13, <1>14, Joined
<1>16. /\ ch \o B \o w.buf \in Seq(Event) /\ Rising(ch \o B \o w.buf, k) /\ Proper(ch \o B \o w.buf, k)
       /\ Below(ch \o B \o w.buf, D, k)
       /\ \A r \in Nat : Has(ch \o B, k, r) \/ Has(w.buf, k, r) => Has(ch \o B \o w.buf, k, r)
  BY <1>2, <1>5, <1>11, <1>14, <1>15, Joined
<1>17. /\ OnTheWay \in Seq(Event) /\ Rising(OnTheWay, k) /\ Proper(OnTheWay, k)
       /\ \A r \in Nat : Has(ch \o B \o w.buf, k, r) \/ Has(D, k, r) => Has(OnTheWay, k, r)
  BY <1>5, <1>7, <1>12, <1>16, Joined
<1>18. ASSUME NEW r \in Nat,
              \/ \E i \in DOMAIN ch : ch[i].key = k /\ ch[i].rev >= r
              \/ Coming(k, r, w)
              \/ r \in w.next..revision /\ history[r].key = k
       PROVE  Has(ch, k, r) \/ Has(B, k, r) \/ Has(w.buf, k, r) \/ Has(D, k, r)
  <2>1. CASE \E i \in DOMAIN ch : ch[i].key = k /\ ch[i].rev >= r
    BY <2>1 DEF Has
  <2>2. CASE \E i \in DOMAIN w.buf : w.buf[i].key = k /\ w.buf[i].rev >= r
    BY <2>2 DEF Has
  <2>3. CASE loop = "send" /\ event.key = k /\ event.rev >= r
    <3>1. 1 \in DOMAIN B /\ B[1] = event
      BY <2>3 DEF B
    <3>. QED
      BY <2>3, <3>1 DEF Has
  <2>4. CASE r \in w.next..revision /\ history[r].key = k
    <3>1. r - w.next + 1 \in DOMAIN D /\ w.next + (r - w.next + 1) - 1 = r
      BY SMTT(60), <1>2, <1>3, <1>5, <2>4
    <3>2. D[r - w.next + 1].rev = r /\ D[r - w.next + 1].key = k
      BY <1>5, <2>4, <3>1
    <3>. QED
      BY <3>1, <3>2 DEF Has
  <2>. QED
    BY <1>18, <2>1, <2>2, <2>3, <2>4 DEF Coming
<1>. QED
  BY <1>15, <1>16, <1>17, <1>18 DEF w

(* The end of the argument: the last event on its way for k is the one of  *)
(* its last change.                                                        *)
LEMMA CompleteIsKnown ==
  ASSUME Types, PipelineInOrder, PipelineComplete
  PROVE  KnownOnceSeen
<1>. DEFINE w == watches[Len(watches)]
<1>1. SUFFICES ASSUME loop \in {"forward", "send"}, NEW k \in Keys,
                      LastChange(k) > since \/ (LastChange(k) <= listed /\ LiveAt(k, revision))
               PROVE  WillKnow(k)
  BY DEF KnownOnceSeen, Watching
<1>2. PICK L : L = LastChange(k)
  OBVIOUS
<1>3. /\ history \in Seq(Changes) /\ since \in Nat /\ listed \in Nat /\ got \in [Keys -> Event]
      /\ w.next \in Nat
  BY <1>1, CurrentWatch DEF Types, RestOK
<1>4. /\ L \in 1..revision /\ history[L].key = k /\ revision \in Nat
      /\ \A j \in 1..revision : history[j].key = k => j <= L
      /\ LiveAt(k, revision) <=> history[L].op = "PUT"
  <2>1. revision \in Nat
    BY <1>3 DEF revision
  <2>2. L # 0
    BY SMTT(60), <1>1, <1>2, <1>3, LastChangeIs
  <2>. QED
    BY <1>2, <1>3, <2>1, <2>2, LastChangeIs
<1>5. got[k].rev >= L \/ Has(OnTheWay, k, L)
  <2>1. \A r \in Nat :
          \/ \E i \in DOMAIN ch : ch[i].key = k /\ ch[i].rev >= r
          \/ Coming(k, r, w)
          \/ r \in w.next..revision /\ history[r].key = k
          => Has(OnTheWay, k, r)
    BY <1>1, WayInOrder
  <2>2. Reached(k, L) \/ Coming(k, L, w) \/ L >= w.next
    <3>1. CASE L > since
      <4>1. L < w.next => L \in since + 1..w.next - 1
        BY <1>3, <1>4, <3>1
      <4>2. L < w.next \/ L >= w.next
        BY <1>3, <1>4
      <4>. QED
        BY <1>1, <1>4, <4>1, <4>2 DEF PipelineComplete, WatchArrives
    <3>2. CASE L <= listed /\ LiveAt(k, revision)
      <4>1. existing = {} /\ listed <= revision
        BY <1>1 DEF PipelineInOrder, ExistingInOrder, PipelineComplete, ListArrives, Listing
      <4>2. L \in 1..listed /\ Shown(L, listed)
        BY <1>3, <1>4, <3>2, <4>1 DEF Shown
      <4>. QED
        BY <1>1, <1>4, <4>1, <4>2 DEF PipelineComplete, ListArrives, Listing
    <3>. QED
      BY <1>1, <1>2, <3>1, <3>2
  <2>3. L >= w.next => L \in w.next..revision
    BY <1>3, <1>4
  <2>. QED
    BY <1>4, <2>1, <2>2, <2>3 DEF Reached
<1>. HIDE DEF w
<1>6. ASSUME NEW e, e.key = k, e.rev >= L, e.rev \in Nat, Happened(e, history)
      PROVE  e.rev = L /\ e.type \in IF history[L].op = "DELETE" THEN {"DELETED"} ELSE {"ADDED", "MODIFIED"}
  <2>1. e.rev \in 1..revision /\ history[e.rev].key = k
    BY <1>4, <1>6 DEF Happened, revision
  <2>2. e.rev = L
    BY <1>4, <1>6, <2>1
  <2>. QED
    BY <1>4, <1>6, <2>2 DEF Happened
<1>7. /\ OnTheWay \in Seq(Event) /\ Rising(OnTheWay, k) /\ Proper(OnTheWay, k)
  BY <1>1, WayInOrder
<1>8. /\ got[k].rev \in Nat /\ got[k].key = k /\ Happened(got[k], history)
      /\ \A i \in DOMAIN OnTheWay : OnTheWay[i].rev \in Nat
  <2>1. got[k] \in Event /\ \A i \in DOMAIN OnTheWay : OnTheWay[i] \in Event
    BY SMTT(60), <1>3, <1>7
  <2>. QED
    BY <2>1 DEF Event, PipelineInOrder, ChannelInOrder
<1>9. PICK e : /\ e = LastFor(k) /\ e.key = k /\ e.rev >= L /\ e.rev \in Nat /\ Happened(e, history)
  <2>. DEFINE O == OnTheWay
              Is == {i \in DOMAIN O : O[i].key = k}
  <2>1. CASE Is = {}
    <3>1. LastFor(k) = got[k]
      BY <2>1 DEF LastFor
    <3>2. got[k].rev >= L
      BY <1>5, <2>1 DEF Has
    <3>. QED
      BY <1>8, <3>1, <3>2
  <2>2. CASE Is # {}
    <3>. DEFINE m == CHOOSE i \in Is : \A j \in Is : j <= i
    <3>1. LastFor(k) = O[m]
      BY <2>2 DEF LastFor
    <3>2. m \in Is /\ \A j \in Is : j <= m
      <4>1. Len(O) \in Nat /\ Is \in SUBSET (0..Len(O))
        BY SMTT(60), <1>7
      <4>. HIDE DEF Is, O
      <4>2. \E i \in Is : \A j \in Is : j <= i
        BY <2>2, <4>1, LargestExists
      <4>. QED
        BY <4>2
    <3>. HIDE DEF m
    <3>3. m \in DOMAIN O /\ O[m].key = k /\ O[m].rev \in Nat /\ Happened(O[m], history) /\ got[k].rev <= O[m].rev
      BY <1>7, <1>8, <3>2 DEF Proper
    <3>4. O[m].rev >= L
      <4>1. CASE got[k].rev >= L
        BY <1>4, <1>8, <3>3, <4>1
      <4>2. ASSUME NEW i \in DOMAIN O, O[i].key = k, O[i].rev >= L
            PROVE  O[m].rev >= L
        <5>1. O[i].rev <= O[m].rev
          BY <1>7, <3>2, <3>3, <4>2 DEF Rising
        <5>. QED
          BY <1>4, <1>8, <3>3, <4>2, <5>1
      <4>. QED
        BY <1>5, <4>1, <4>2 DEF Has
    <3>. QED
      BY <3>1, <3>3, <3>4
  <2>. QED
    BY <2>1, <2>2
<1>10. /\ e.rev = L
       /\ e.type \in IF history[L].op = "DELETE" THEN {"DELETED"} ELSE {"ADDED", "MODIFIED"}
  BY <1>6, <1>9
<1>11. history[L].op \in {"PUT", "DELETE"}
  <2>1. history[L] \in Changes
    BY <1>3, <1>4 DEF revision
  <2>. QED
    BY <2>1 DEF Changes
<1>12. CASE history[L].op = "PUT"
  BY <1>2, <1>4, <1>9, <1>10, <1>12 DEF WillKnow
<1>13. CASE history[L].op = "DELETE"
  BY <1>4, <1>9, <1>10, <1>13 DEF WillKnow
<1>. QED
  BY <1>11, <1>12, <1>13

(* While a watch runs, the consumer of a ListWatch will get the present    *)
(* state of every key whose last change came after the watch began or that *)
(* the list has shown: nothing is lost between the channels, over any      *)
(* number of changes, faults and rounds.                                   *)
THEOREM SeenIsKnown == ListWatchSpec => []KnownOnceSeen
<1>1. EtcdWatchInit /\ ListWatchInit => Types /\ PipelineInOrder
  BY TypesInit, PipelineInit
<1>2. EtcdWatchInit /\ ListWatchInit => PipelineComplete
  BY DEF ListWatchInit, PipelineComplete, ListArrives, Listing
<1>3. Types /\ [ListWatchNext]_<<history, lwVars>> => Types'
  BY TypesInductive
<1>4. Types /\ PipelineInOrder /\ [ListWatchNext]_<<history, lwVars>> => PipelineInOrder'
  BY PipelineInductive
<1>5. Types /\ PipelineInOrder /\ PipelineComplete /\ [ListWatchNext]_<<history, lwVars>> => PipelineComplete'
  BY CompleteInductive
<1>6. Types /\ PipelineInOrder /\ PipelineComplete => KnownOnceSeen
  BY CompleteIsKnown
<1>. QED
  BY <1>1, <1>2, <1>3, <1>4, <1>5, <1>6, PTL DEF ListWatchSpec
=============================================================================
