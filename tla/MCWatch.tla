------------------------------- MODULE MCWatch -------------------------------
(* One store, watched either through ListAndWatch or through               *)
(* EtcdStorage.Watch, whichever is called first.                           *)
EXTENDS ListWatch, StorageWatch

WatchInit == EtcdWatchInit /\ ListWatchInit /\ StorageWatchInit

WatchNext ==
  \/ handler = "new" /\ ListWatchNext /\ UNCHANGED swVars
  \/ loop = "new" /\ StorageWatchNext /\ UNCHANGED lwVars

WatchSpec ==
  /\ WatchInit /\ [][WatchNext]_<<history, lwVars, swVars>>
  /\ ListWatchFairness
  /\ WF_<<history, swVars>>(handleWatchEvents \/ processWatchResponse)
=============================================================================
