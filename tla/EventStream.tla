----------------------------- MODULE EventStream -----------------------------
(***************************************************************************)
(* What a watch on a store promises: from the moment it is opened it       *)
(* delivers every change, in order and once, each with the right kind.     *)
(* After it is cancelled it may leave changes out but still never repeats  *)
(* one or goes back, and once it is closed it delivers nothing.            *)
(***************************************************************************)
EXTENDS Naturals, Sequences

CONSTANT Kind(_, _)  \* Kind(log, r): what the change at position r of log is

VARIABLES
  log,        \* the changes made to the store
  state,      \* of the watch: "new", "open", "closed"
  cancelled,
  upTo,       \* position of the last change delivered (or made before opening)
  kind        \* and its kind

vars == <<log, state, cancelled, upTo, kind>>

Init == log = <<>> /\ state = "new" /\ cancelled = FALSE /\ upTo = 0 /\ kind = "none"

Change ==
  /\ Len(log') = Len(log) + 1 /\ SubSeq(log', 1, Len(log)) = log
  /\ UNCHANGED <<state, cancelled, upTo, kind>>

Open ==
  /\ state = "new" /\ state' = "open"
  /\ upTo' = Len(log)
  /\ UNCHANGED <<log, cancelled, kind>>

Deliver ==
  /\ state = "open"
  /\ upTo' \in upTo + 1 .. Len(log)
  /\ ~cancelled => upTo' = upTo + 1
  /\ kind' = Kind(log, upTo')
  /\ UNCHANGED <<log, state, cancelled>>

Cancel == cancelled' = TRUE /\ UNCHANGED <<log, state, upTo, kind>>

Close == state = "open" /\ state' = "closed" /\ UNCHANGED <<log, cancelled, upTo, kind>>

Next == Change \/ Open \/ Deliver \/ Cancel \/ Close

Spec == Init /\ [][Next]_vars
=============================================================================
