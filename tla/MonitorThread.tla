---------------------------- MODULE MonitorThread ----------------------------
(***************************************************************************)
(* The monitor thread of fs/tablefs.cpp and its shutdown handshake with    *)
(* TableFS::Destroy.  A detached thread samples the metadata store every   *)
(* DEFAULT_SYNC_INTERVAL seconds; Destroy must not free the store, nor the *)
(* mutex and the condition variable, while the thread may still use them.  *)
(* A process may mount again.  pthread_create is assumed to succeed.       *)
(***************************************************************************)
CONSTANTS Main,       \* the thread that runs TableFS::Init and Destroy
          Monitors,   \* the monitor threads there can be, one per mount
          Nobody

ASSUME ThreadsAssumption == Main # Nobody /\ {Main, Nobody} \cap Monitors = {}

VARIABLES mainpc,        \* where the main thread is
          monpc,         \* where each monitor thread is
          mtx_monitor,   \* the owner of the mutex, or Nobody
          cv_monitor,    \* the threads waiting for the condition variable
          stop_monitor_thread,
          flag_monitor_thread_finish,
          synchronised,  \* the mutex and the condition variable are usable
          metadb         \* the metadata store is open

handshakeVars ==
  <<mainpc, monpc, mtx_monitor, cv_monitor, stop_monitor_thread,
    flag_monitor_thread_finish, synchronised, metadb>>

flags == <<stop_monitor_thread, flag_monitor_thread_finish>>
resources == <<synchronised, metadb>>

(* The mutex and the condition variable are static, hence usable, before    *)
(* the first monitor_init.                                                  *)
HandshakeInit ==
  /\ mainpc = "new"
  /\ monpc = [t \in Monitors |-> "none"]
  /\ mtx_monitor = Nobody
  /\ cv_monitor = {}
  /\ stop_monitor_thread = FALSE
  /\ flag_monitor_thread_finish = FALSE
  /\ synchronised = TRUE
  /\ metadb = FALSE

(* A monitor thread moves on.                                               *)
At(t, here, there) == monpc[t] = here /\ monpc' = [monpc EXCEPT ![t] = there]

Acquire(t) == mtx_monitor = Nobody /\ mtx_monitor' = t

(* pthread_cond_wait and pthread_cond_timedwait: wait, wake up, lock again. *)
(* A thread wakes up when it was signalled, spuriously, or at its timeout.  *)
Wait(t) ==
  /\ mtx_monitor' = Nobody
  /\ cv_monitor' = cv_monitor \cup {t}

WakeUp(t) ==
  /\ cv_monitor' = cv_monitor \ {t}
  /\ UNCHANGED <<mtx_monitor, flags, resources>>

-----------------------------------------------------------------------------
(* TableFS::Init opens the store and starts the monitor thread.             *)
MonitorInit(t) ==
  /\ mainpc \in {"new", "down"}
  /\ mainpc' = "up"
  /\ At(t, "none", "start")
  /\ mtx_monitor' = Nobody
  /\ cv_monitor' = {}
  /\ stop_monitor_thread' = FALSE
  /\ flag_monitor_thread_finish' = FALSE
  /\ synchronised' = TRUE
  /\ metadb' = TRUE

(* TableFS::Init returns before monitor_init when the store fails to open:  *)
(* the mutex and the flags stay what the last mount left, or static.        *)
InitFails ==
  /\ mainpc \in {"new", "down"}
  /\ mainpc' = "up"
  /\ UNCHANGED <<monpc, mtx_monitor, cv_monitor, flags, resources>>

(* TableFS::Destroy is called, and calls monitor_destroy first.             *)
Destroy ==
  /\ mainpc = "up"
  /\ mainpc' = "lock"
  /\ UNCHANGED <<monpc, mtx_monitor, cv_monitor, flags, resources>>

(* To lock or unlock a destroyed mutex is an error the code does not look   *)
(* at (EINVAL): it goes on without the mutex.                               *)
DestroyLocks ==
  /\ mainpc = "lock"
  /\ IF synchronised THEN Acquire(Main) ELSE UNCHANGED mtx_monitor
  /\ mainpc' = "stop"
  /\ UNCHANGED <<monpc, cv_monitor, flags, resources>>

DestroySignals ==
  /\ mainpc = "stop"
  /\ stop_monitor_thread' = TRUE
  /\ \/ cv_monitor = {} /\ UNCHANGED cv_monitor
     \/ \E t \in cv_monitor : cv_monitor' = cv_monitor \ {t}
  /\ mainpc' = "test"
  /\ UNCHANGED <<monpc, mtx_monitor, flag_monitor_thread_finish, resources>>

DestroyWaits ==
  /\ mainpc = "test"
  /\ ~flag_monitor_thread_finish
  /\ Wait(Main)
  /\ mainpc' = "asleep"
  /\ UNCHANGED <<monpc, flags, resources>>

DestroyWakesUp ==
  /\ mainpc = "asleep"
  /\ WakeUp(Main)
  /\ mainpc' = "relock"
  /\ UNCHANGED monpc

(* Mutant: one wait in place of the loop.                                   *)
DestroyRelocksOnce ==
  /\ mainpc = "relock"
  /\ mtx_monitor = Nobody
  /\ mainpc' = "free"
  /\ UNCHANGED <<monpc, mtx_monitor, cv_monitor, flags, resources>>

DestroyRelocks ==
  /\ mainpc = "relock"
  /\ Acquire(Main)
  /\ mainpc' = "test"
  /\ UNCHANGED <<monpc, cv_monitor, flags, resources>>

DestroyUnlocks ==
  /\ mainpc = "test"
  /\ flag_monitor_thread_finish
  /\ mtx_monitor' = Nobody
  /\ mainpc' = "free"
  /\ UNCHANGED <<monpc, cv_monitor, flags, resources>>

(* pthread_mutex_destroy, pthread_cond_destroy                              *)
DestroyFrees ==
  /\ mainpc = "free"
  /\ synchronised' = FALSE
  /\ mainpc' = "close"
  /\ UNCHANGED <<monpc, mtx_monitor, cv_monitor, flags, metadb>>

(* The rest of TableFS::Destroy: the last samples, the caches, the store.   *)
DestroyCloses ==
  /\ mainpc = "close"
  /\ metadb' = FALSE
  /\ mainpc' = "down"
  /\ UNCHANGED <<monpc, mtx_monitor, cv_monitor, flags, synchronised>>
-----------------------------------------------------------------------------
(* monitor_thread.  "ret" is never assigned the result of the timed wait,   *)
(* so every pass of the loop samples.                                       *)
MonitorLocks(t) ==
  /\ At(t, "start", "test") \/ At(t, "relock", "test")
  /\ Acquire(t)
  /\ UNCHANGED <<mainpc, cv_monitor, flags, resources>>

MonitorContinues(t) ==
  /\ At(t, "test", "sample")
  /\ ~stop_monitor_thread
  /\ UNCHANGED <<mainpc, mtx_monitor, cv_monitor, flags, resources>>

(* do_monitor(metadb)                                                       *)
MonitorSamples(t) ==
  /\ At(t, "sample", "wait")
  /\ UNCHANGED <<mainpc, mtx_monitor, cv_monitor, flags, resources>>

MonitorWaits(t) ==
  /\ At(t, "wait", "asleep")
  /\ Wait(t)
  /\ UNCHANGED <<mainpc, flags, resources>>

(* Mutant: a wait without a timeout.                                        *)
MonitorWakesUpSignalled(t) ==
  /\ At(t, "asleep", "relock")
  /\ t \notin cv_monitor
  /\ UNCHANGED <<mainpc, mtx_monitor, cv_monitor, flags, resources>>

MonitorWakesUp(t) ==
  /\ At(t, "asleep", "relock")
  /\ WakeUp(t)
  /\ UNCHANGED mainpc

(* Mutant: the finish is not broadcast.                                     *)
MonitorFinishesQuietly(t) ==
  /\ At(t, "test", "unlock")
  /\ stop_monitor_thread
  /\ flag_monitor_thread_finish' = TRUE
  /\ UNCHANGED <<mainpc, mtx_monitor, cv_monitor, stop_monitor_thread, resources>>

MonitorFinishes(t) ==
  /\ At(t, "test", "unlock")
  /\ stop_monitor_thread
  /\ flag_monitor_thread_finish' = TRUE
  /\ cv_monitor' = {}
  /\ UNCHANGED <<mainpc, mtx_monitor, stop_monitor_thread, resources>>

MonitorUnlocks(t) ==
  /\ At(t, "unlock", "return")
  /\ mtx_monitor' = Nobody
  /\ UNCHANGED <<mainpc, cv_monitor, flags, resources>>

MonitorReturns(t) ==
  /\ At(t, "return", "none")
  /\ UNCHANGED <<mainpc, mtx_monitor, cv_monitor, flags, resources>>

MonitorStep(t) ==
  \/ MonitorContinues(t) \/ MonitorSamples(t) \/ MonitorWaits(t) \/ MonitorWakesUp(t)
  \/ MonitorFinishes(t) \/ MonitorUnlocks(t) \/ MonitorReturns(t)

HandshakeNext ==
  \/ InitFails \/ Destroy
  \/ DestroyLocks \/ DestroySignals \/ DestroyWaits \/ DestroyWakesUp \/ DestroyRelocks
  \/ DestroyUnlocks \/ DestroyFrees \/ DestroyCloses
  \/ \E t \in Monitors : MonitorInit(t) \/ MonitorLocks(t) \/ MonitorStep(t)

(***************************************************************************)
(* A thread that can run does.  The timed wait ends by itself, the other   *)
(* wait only once signalled.  A thread that wants the mutex gets it if it  *)
(* is free again and again: the monitor thread leaves it free for seconds  *)
(* at a time, and Destroy waits with the mutex released.  Nothing forces a *)
(* mount or an unmount.                                                    *)
(***************************************************************************)
HandshakeFairness ==
  /\ WF_handshakeVars(DestroySignals \/ DestroyWaits \/ DestroyUnlocks
                      \/ DestroyFrees \/ DestroyCloses)
  /\ WF_handshakeVars(Main \notin cv_monitor /\ DestroyWakesUp)
  /\ SF_handshakeVars(DestroyLocks)
  /\ SF_handshakeVars(DestroyRelocks)
  /\ \A t \in Monitors : WF_handshakeVars(MonitorStep(t)) /\ SF_handshakeVars(MonitorLocks(t))

HandshakeSpec == HandshakeInit /\ [][HandshakeNext]_handshakeVars /\ HandshakeFairness
-----------------------------------------------------------------------------
HandshakeTypeOK ==
  /\ mainpc \in {"new", "up", "lock", "stop", "test", "asleep", "relock",
                 "free", "close", "down"}
  /\ monpc \in [Monitors -> {"none", "start", "test", "sample", "wait", "asleep",
                             "relock", "unlock", "return"}]
  /\ mtx_monitor \in Monitors \cup {Main, Nobody}
  /\ cv_monitor \subseteq Monitors \cup {Main}
  /\ stop_monitor_thread \in BOOLEAN
  /\ flag_monitor_thread_finish \in BOOLEAN
  /\ synchronised \in BOOLEAN
  /\ metadb \in BOOLEAN

(* A thread that has unlocked the mutex for the last time.                  *)
Exited(t) == monpc[t] \in {"none", "return"}

(***************************************************************************)
(* Destroy frees nothing the monitor thread may still use, although the    *)
(* thread is detached and never joined: when the mutex and the condition   *)
(* variable are destroyed nobody holds or waits for them, and when the     *)
(* store is closed, or opened again, the thread of the mount before has    *)
(* unlocked the mutex for the last time.                                   *)
(***************************************************************************)
TeardownAfterExit ==
  /\ ~metadb => \A t \in Monitors : Exited(t)
  /\ ~synchronised =>
       mtx_monitor = Nobody /\ cv_monitor = {} /\ \A t \in Monitors : Exited(t)

(***************************************************************************)
(* Unmounting a file system whose Init succeeded comes to an end, whether  *)
(* the monitor thread has not run yet, is sampling or is asleep, and with  *)
(* spurious wake-ups on both sides.  So does unmounting after a failed     *)
(* Init of a later mount, on the flags the earlier one left.  Only after a *)
(* failed Init of the first mount does it not: monitor_destroy waits for a *)
(* thread that was never started.                                          *)
(***************************************************************************)
DestroyReturns == (mainpc = "lock" /\ (metadb \/ ~synchronised)) ~> (mainpc = "down")

(***************************************************************************)
(* The store of a mounted file system is sampled again and again without   *)
(* anybody signalling the thread, until the file system is unmounted.      *)
(***************************************************************************)
KeepsSampling ==
  []<>(mainpc # "up" \/ ~metadb \/ \E t \in Monitors : monpc[t] = "sample")
=============================================================================
