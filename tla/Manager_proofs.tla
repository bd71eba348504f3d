--------------------------- MODULE Manager_proofs ---------------------------
(***************************************************************************)
(* Proofs about the Manager, for any number of loaders, stoppers, jobs,    *)
(* ports and documents, and any bounds on the calls. The last part is      *)
(* about one loader: what it states is false for two.                      *)
(***************************************************************************)
EXTENDS Manager, TLAPS

\* The program points at which a goroutine holds m.mu.
Held == {"prune", "await", "options", "send", "loaded", "barrier", "wait"}

\* m.mu excludes: a goroutine inside loadConfig or StopJobs holds it, and what
\* loadConfig's local variables say of the document and of the map.
LockInv ==
    /\ \A t \in Threads : pc[t] \in Held => mu = t
    /\ \A l \in Loaders :
        /\ pc[l] # "wait"
        /\ pc[l] \in Held => cfg[l] # Malformed
        /\ pc[l] = "prune" => jobs \subseteq DOMAIN cfg[l] \cup todo[l]
        /\ pc[l] = "await" => /\ cur[l] \in todo[l]
                              /\ jobs \subseteq DOMAIN cfg[l] \cup todo[l]
        /\ pc[l] \in {"options", "send", "loaded", "barrier"} => jobs \subseteq DOMAIN cfg[l]
        /\ pc[l] \in {"options", "send"} => todo[l] \subseteq DOMAIN cfg[l]
        /\ pc[l] = "send" => /\ cur[l] \in jobs \cap todo[l]
                             /\ Startable(cur[l], cfg[l][cur[l]])

\* What a job's goroutine has and has not, by where it is in Run.
JobInv ==
    \A n \in Names :
        /\ job[n].st = "load" => job[n].arg \in Ports \cup {BadAddr}
        /\ job[n].st = "apply" => job[n].arg \in Ports
        /\ job[n].why # "none" => job[n].st \in {"exit", "stopped", "done"}
        /\ job[n].st \in {"none", "start", "stopped", "done"} =>
               job[n].port = None /\ ~job[n].server

\* A job that is cancelled and has not returned is being waited for.
CancelInv ==
    \A n \in Names : (job[n].cancelled /\ job[n].st # "done") =>
        \/ \E l \in Loaders : pc[l] = "await" /\ cur[l] = n
        \/ \E s \in Stoppers : pc[s] = "wait" /\ n \in jobs

\* Not in the middle of an event, unless it is returning because its
\* http.Server failed.
Calm(n) == job[n].st \in {"none", "idle", "done"} \/ job[n].why = "down"

\* A job that took the loader's nil event is calm and stays so.
BarrierInv ==
    \A l \in Loaders : pc[l] = "barrier" => \A n \in Names \ todo[l] : Calm(n)

\* The job has the options o, or is about to store them, or has returned.
Has(n, o) ==
    /\ job[n].st \notin {"none", "start"}
    /\ job[n].st \in {"load", "apply"} => job[n].arg = o
    /\ job[n].st \in {"idle", "loaded"} => job[n].opts = o

\* What loadConfig has handed out so far.
Given(l) ==
    CASE pc[l] \in {"options", "send"} -> DOMAIN cfg[l] \ todo[l]
      [] pc[l] \in {"loaded", "barrier"} -> DOMAIN cfg[l]
      [] OTHER -> {}

GivenInv ==
    \A l \in Loaders : \A n \in Given(l) :
        Startable(n, cfg[l][n]) => n \in jobs /\ Has(n, cfg[l][n])

IInv ==
    /\ TypeOK
    /\ LockInv
    /\ JobInv
    /\ CancelInv
    /\ BarrierInv
    /\ GivenInv
    /\ Quiescent
    /\ RemovedJobIsGone
    /\ StopLeavesNothing
    /\ ConfigApplied

-----------------------------------------------------------------------------
(***************************************************************************)
(* Types of the job records.                                               *)
(***************************************************************************)

\* Replacing one job by a well-typed one keeps the table well typed.
LEMMA JobUpdate ==
    ASSUME job \in [Names -> JobType], NEW n \in Names, NEW r \in JobType,
           job' = [job EXCEPT ![n] = r]
    PROVE  job' \in [Names -> JobType]
OBVIOUS

\* Moving to another program point of Run.
LEMMA MoveTyped ==
    ASSUME NEW r \in JobType, NEW st \in JobStates
    PROVE  [r EXCEPT !.st = st] \in JobType
BY DEF JobType

\* Returning from Run.
LEMMA ReturningTyped ==
    ASSUME NEW r \in JobType, NEW cause \in Causes
    PROVE  Returning(r, cause) \in JobType
BY DEF JobType, JobStates, Returning

\* stopServer.
LEMMA StopServerTyped ==
    ASSUME NEW r \in JobType
    PROVE  StopServer(r) \in JobType
BY DEF JobType, StopServer

-----------------------------------------------------------------------------
\* IInv is preserved when load stores the file system and takes no lock yet.
LEMMA LoadBeginStep ==
    ASSUME IInv, NEW l \in Loaders, NEW c \in Configs \cup {Malformed}, LoadBegin(l, c)
    PROVE  IInv'
<1>1. TypeOK'
  BY DEF IInv, TypeOK, PCs, Threads, LoadBegin
<1>2. LockInv'
  BY DEF IInv, LockInv, TypeOK, Held, LoadBegin
<1>3. CancelInv'
  BY DEF IInv, CancelInv, TypeOK, LoadBegin
<1>4. BarrierInv'
  BY DEF IInv, BarrierInv, Calm, TypeOK, LoadBegin
<1>5. GivenInv'
  BY DEF IInv, GivenInv, Given, Has, TypeOK, LoadBegin
<1>6. JobInv' /\ Quiescent' /\ RemovedJobIsGone' /\ StopLeavesNothing' /\ ConfigApplied'
  BY DEF IInv, ConfigApplied, JobInv, Quiescent, RemovedJobIsGone,
     StopLeavesNothing, LoadBegin
<1> QED
  BY <1>1, <1>2, <1>3, <1>4, <1>5, <1>6 DEF IInv

\* IInv is preserved when loadConfig returns early on a document that does not decode.
LEMMA LoadRejectStep ==
    ASSUME IInv, NEW l \in Loaders, LoadReject(l)
    PROVE  IInv'
<1>1. TypeOK'
  BY DEF IInv, TypeOK, PCs, LoadReject
<1>2. LockInv'
  BY DEF IInv, LockInv, TypeOK, Held, LoadReject
<1>3. CancelInv'
  BY DEF IInv, CancelInv, TypeOK, LoadReject
<1>4. BarrierInv'
  BY DEF IInv, BarrierInv, Calm, TypeOK, LoadReject
<1>5. GivenInv'
  BY DEF IInv, GivenInv, Given, Has, TypeOK, LoadReject
<1>6. JobInv' /\ Quiescent' /\ RemovedJobIsGone' /\ StopLeavesNothing' /\ ConfigApplied'
  BY DEF IInv, ConfigApplied, JobInv, Quiescent, RemovedJobIsGone,
     StopLeavesNothing, LoadReject
<1> QED
  BY <1>1, <1>2, <1>3, <1>4, <1>5, <1>6 DEF IInv

\* IInv is preserved when loadConfig locks m.mu and lists the jobs to remove.
LEMMA LoadLockStep ==
    ASSUME IInv, NEW l \in Loaders, LoadLock(l)
    PROVE  IInv'
<1>1. TypeOK'
  BY DEF IInv, TypeOK, PCs, Threads, LoadLock
<1>2. LockInv'
  BY ThreadsAssumption DEF IInv, LockInv, TypeOK, Threads, LoadLock
<1>3. CancelInv'
  BY DEF IInv, CancelInv, TypeOK, LoadLock
<1>4. BarrierInv' /\ Quiescent'
  BY DEF IInv, BarrierInv, Quiescent, Calm, TypeOK, LoadLock
<1>5. StopLeavesNothing'
  BY DEF IInv, StopLeavesNothing, TypeOK, LoadLock
<1>6. GivenInv' /\ ConfigApplied'
  BY DEF IInv, GivenInv, ConfigApplied, Given, Has, TypeOK, LoadLock
<1>7. JobInv' /\ RemovedJobIsGone'
  BY DEF IInv, JobInv, RemovedJobIsGone, LoadLock
<1> QED
  BY <1>1, <1>2, <1>3, <1>4, <1>5, <1>6, <1>7 DEF IInv

\* IInv is preserved when loadConfig cancels a job the document no longer names.
LEMMA PruneCancelStep ==
    ASSUME IInv, NEW l \in Loaders, NEW n \in Names, PruneCancel(l, n)
    PROVE  IInv'
<1>1. TypeOK'
  <2>1. job' \in [Names -> JobType]
    <3>1. [job[n] EXCEPT !.cancelled = TRUE] \in JobType
      <4> job[n] \in JobType
        BY DEF IInv, TypeOK
      <4> QED
        BY DEF JobType
    <3> QED
      BY <3>1, JobUpdate DEF IInv, TypeOK, PruneCancel
  <2> QED
    BY <2>1 DEF IInv, TypeOK, PCs, Threads, PruneCancel
<1>2. LockInv'
  BY DEF IInv, LockInv, TypeOK, Held, PruneCancel
<1>3. JobInv' /\ CancelInv'
  BY ConfigsAssumption, PortsAssumption, ThreadsAssumption DEF IInv, JobInv,
     CancelInv, TypeOK, Threads, PruneCancel
<1>4. BarrierInv' /\ Quiescent'
  BY DEF IInv, BarrierInv, Quiescent, LockInv, TypeOK, Held, Threads,
     PruneCancel
<1>5. RemovedJobIsGone' /\ StopLeavesNothing'
  BY DEF IInv, RemovedJobIsGone, StopLeavesNothing, TypeOK, PruneCancel
<1>6. GivenInv' /\ ConfigApplied'
  BY DEF IInv, GivenInv, ConfigApplied, Given, LockInv, TypeOK, Held, Threads,
     PruneCancel
<1> QED
  BY <1>1, <1>2, <1>3, <1>4, <1>5, <1>6 DEF IInv

\* IInv is preserved when loadConfig deletes a job from the map once Done is closed.
LEMMA PruneDeleteStep ==
    ASSUME IInv, NEW l \in Loaders, PruneDelete(l)
    PROVE  IInv'
<1>1. TypeOK'
  BY DEF IInv, TypeOK, PCs, PruneDelete
<1>2. LockInv'
  BY DEF IInv, LockInv, TypeOK, Held, Threads, PruneDelete
<1>3. CancelInv'
  BY DEF IInv, CancelInv, TypeOK, PruneDelete
<1>4. BarrierInv'
  BY DEF IInv, BarrierInv, LockInv, TypeOK, Held, Threads, PruneDelete
<1>5. RemovedJobIsGone'
  BY DEF IInv, RemovedJobIsGone, JobInv, TypeOK, PruneDelete
<1>6. GivenInv' /\ ConfigApplied'
  BY ThreadsAssumption DEF IInv, GivenInv, ConfigApplied, Given, LockInv,
     TypeOK, Held, Threads, PruneDelete
<1>7. JobInv' /\ Quiescent' /\ StopLeavesNothing'
  BY DEF IInv, JobInv, Quiescent, StopLeavesNothing, PruneDelete
<1> QED
  BY <1>1, <1>2, <1>3, <1>4, <1>5, <1>6, <1>7 DEF IInv

\* IInv is preserved when loadConfig goes on to the options of the document.
LEMMA PruneEndStep ==
    ASSUME IInv, NEW l \in Loaders, PruneEnd(l)
    PROVE  IInv'
<1>1. TypeOK'
  BY ConfigsAssumption DEF IInv, TypeOK, PCs, PruneEnd, LockInv, Held
<1>2. LockInv'
  BY DEF IInv, LockInv, TypeOK, Held, PruneEnd
<1>3. CancelInv'
  BY DEF IInv, CancelInv, TypeOK, PruneEnd
<1>4. BarrierInv'
  BY DEF IInv, BarrierInv, LockInv, TypeOK, Held, Threads, PruneEnd
<1>5. GivenInv'
  BY DEF IInv, GivenInv, Given, LockInv, TypeOK, Held, Threads, PruneEnd
<1>6. JobInv' /\ Quiescent' /\ RemovedJobIsGone' /\ StopLeavesNothing' /\ ConfigApplied'
  BY DEF IInv, ConfigApplied, JobInv, Quiescent, RemovedJobIsGone,
     StopLeavesNothing, PruneEnd
<1> QED
  BY <1>1, <1>2, <1>3, <1>4, <1>5, <1>6 DEF IInv

\* IInv is preserved when setOptions returns an error or ignores a dummy service.
LEMMA SetOptionsSkipStep ==
    ASSUME IInv, NEW l \in Loaders, NEW n \in Names, SetOptionsSkip(l, n)
    PROVE  IInv'
<1>1. TypeOK'
  BY DEF IInv, TypeOK, SetOptionsSkip
<1>2. LockInv'
  BY DEF IInv, LockInv, TypeOK, SetOptionsSkip
<1>3. BarrierInv'
  BY DEF IInv, BarrierInv, LockInv, TypeOK, Held, Threads, SetOptionsSkip
<1>4. GivenInv'
  BY DEF IInv, GivenInv, Given, Has, TypeOK, SetOptionsSkip
<1>5. JobInv' /\ CancelInv' /\ Quiescent' /\ RemovedJobIsGone' /\ StopLeavesNothing' /\ ConfigApplied'
  BY DEF IInv, CancelInv, ConfigApplied, JobInv, Quiescent, RemovedJobIsGone,
     StopLeavesNothing, SetOptionsSkip
<1> QED
  BY <1>1, <1>2, <1>3, <1>4, <1>5 DEF IInv

\* IInv is preserved when setOptions finds a live job or starts one.
LEMMA SetOptionsStep ==
    ASSUME IInv, NEW l \in Loaders, NEW n \in Names, SetOptions(l, n)
    PROVE  IInv'
<1>1. TypeOK'
  BY ConfigsAssumption, MalformedAssumption, PortsAssumption,
     ThreadsAssumption DEF IInv, TypeOK, Held, PCs, JobType, JobStates,
     Causes, SetOptions, NoJob
<1>2. LockInv'
  BY DEF IInv, LockInv, TypeOK, Held, Threads, SetOptions
<1>3. JobInv' /\ CancelInv'
  BY PortsAssumption, ThreadsAssumption DEF IInv, JobInv, CancelInv, TypeOK,
     Threads, SetOptions, NoJob
<1>4. BarrierInv' /\ Quiescent'
  BY ThreadsAssumption DEF IInv, BarrierInv, Quiescent, LockInv, TypeOK, Held,
     Threads, SetOptions
<1>5. RemovedJobIsGone' /\ StopLeavesNothing'
  BY ThreadsAssumption DEF IInv, RemovedJobIsGone, StopLeavesNothing, LockInv,
     TypeOK, Held, Threads, SetOptions
<1>6. GivenInv' /\ ConfigApplied'
  BY ThreadsAssumption DEF IInv, GivenInv, ConfigApplied, Given, Has, LockInv,
     TypeOK, Held, Threads, SetOptions
<1> QED
  BY <1>1, <1>2, <1>3, <1>4, <1>5, <1>6 DEF IInv

\* IInv is preserved when setOptions hands a LoadEvent to the job, or finds it done.
LEMMA SendLoadStep ==
    ASSUME IInv, NEW l \in Loaders, SendLoad(l)
    PROVE  IInv'
<1>1. TypeOK'
  <2>1. job' \in [Names -> JobType]
    <3> DEFINE n == cur[l]
               r == [job[n] EXCEPT !.st = "load", !.arg = cfg[l][n], !.from = l, !.seen = None]
    <3>1. n \in Names /\ job[n] \in JobType /\ cfg[l][n] \in Options
      BY ConfigsAssumption DEF IInv, TypeOK, LockInv, Held, SendLoad
    <3>2. r \in JobType
      BY <3>1 DEF JobType, JobStates
    <3>3. job' = job \/ job' = [job EXCEPT ![n] = r]
      BY DEF SendLoad
    <3> QED
      BY <3>1, <3>2, <3>3, JobUpdate DEF IInv, TypeOK
  <2> QED
    BY <2>1 DEF IInv, TypeOK, PCs, Threads, SendLoad
<1>2. LockInv'
  BY DEF IInv, LockInv, TypeOK, Held, Threads, SendLoad
<1>3. JobInv'
  BY ConfigsAssumption, MalformedAssumption, PortsAssumption,
     ThreadsAssumption DEF IInv, JobInv, LockInv, TypeOK, Held, JobType,
     SendLoad, Startable, Options
<1>4. CancelInv'
  BY DEF IInv, CancelInv, LockInv, TypeOK, Held, Threads, SendLoad
<1>5. BarrierInv' /\ Quiescent'
  BY ThreadsAssumption DEF IInv, BarrierInv, Quiescent, LockInv, TypeOK, Held,
     Threads, SendLoad
<1>6. RemovedJobIsGone' /\ StopLeavesNothing'
  BY DEF IInv, RemovedJobIsGone, StopLeavesNothing, TypeOK, SendLoad
<1>7. GivenInv' /\ ConfigApplied'
  BY ConfigsAssumption, MalformedAssumption, PortsAssumption,
     ThreadsAssumption DEF IInv, GivenInv, ConfigApplied, Given, Has, LockInv,
     JobInv, TypeOK, Held, Threads, JobType, Startable, SendLoad
<1> QED
  BY <1>1, <1>2, <1>3, <1>4, <1>5, <1>6, <1>7 DEF IInv

\* IInv is preserved when loadConfig goes on to the LoadedEvents.
LEMMA OptionsEndStep ==
    ASSUME IInv, NEW l \in Loaders, OptionsEnd(l)
    PROVE  IInv'
<1>1. TypeOK'
  BY DEF IInv, TypeOK, PCs, OptionsEnd
<1>2. LockInv'
  BY DEF IInv, LockInv, TypeOK, Held, OptionsEnd
<1>3. CancelInv'
  BY DEF IInv, CancelInv, TypeOK, OptionsEnd
<1>4. BarrierInv'
  BY DEF IInv, BarrierInv, LockInv, TypeOK, Held, Threads, OptionsEnd
<1>5. GivenInv'
  BY DEF IInv, GivenInv, Given, Has, TypeOK, OptionsEnd
<1>6. JobInv' /\ Quiescent' /\ RemovedJobIsGone' /\ StopLeavesNothing' /\ ConfigApplied'
  BY DEF IInv, ConfigApplied, JobInv, Quiescent, RemovedJobIsGone,
     StopLeavesNothing, OptionsEnd
<1> QED
  BY <1>1, <1>2, <1>3, <1>4, <1>5, <1>6 DEF IInv

\* IInv is preserved when loadConfig hands a LoadedEvent to a job, or finds it done.
LEMMA SendLoadedStep ==
    ASSUME IInv, NEW l \in Loaders, NEW n \in Names, SendLoaded(l, n)
    PROVE  IInv'
<1>1. TypeOK'
  <2>1. job' \in [Names -> JobType]
    <3>1. [job[n] EXCEPT !.st = "loaded"] \in JobType
      BY MoveTyped DEF IInv, TypeOK, JobStates
    <3> QED
      BY <3>1, JobUpdate DEF IInv, TypeOK, SendLoaded
  <2> QED
    BY <2>1 DEF IInv, TypeOK, PCs, Threads, SendLoaded
<1>2. LockInv'
  BY DEF IInv, LockInv, TypeOK, SendLoaded
<1>3. JobInv' /\ CancelInv'
  BY DEF IInv, JobInv, CancelInv, TypeOK, SendLoaded
<1>4. BarrierInv' /\ Quiescent'
  BY ThreadsAssumption DEF IInv, BarrierInv, Quiescent, LockInv, TypeOK, Held,
     Threads, SendLoaded
<1>5. RemovedJobIsGone' /\ StopLeavesNothing'
  BY DEF IInv, RemovedJobIsGone, StopLeavesNothing, TypeOK, SendLoaded
<1>6. GivenInv' /\ ConfigApplied'
  BY DEF IInv, GivenInv, ConfigApplied, Given, Has, TypeOK, SendLoaded
<1> QED
  BY <1>1, <1>2, <1>3, <1>4, <1>5, <1>6 DEF IInv

\* IInv is preserved when loadConfig goes on to the nil events.
LEMMA LoadedEndStep ==
    ASSUME IInv, NEW l \in Loaders, LoadedEnd(l)
    PROVE  IInv'
<1>1. TypeOK'
  BY DEF IInv, TypeOK, PCs, LoadedEnd
<1>2. LockInv'
  BY DEF IInv, LockInv, TypeOK, Held, LoadedEnd
<1>3. CancelInv'
  BY DEF IInv, CancelInv, TypeOK, LoadedEnd
<1>4. BarrierInv'
  BY DEF IInv, BarrierInv, RemovedJobIsGone, Calm, TypeOK, LoadedEnd
<1>5. GivenInv'
  BY DEF IInv, GivenInv, Given, Has, TypeOK, LoadedEnd
<1>6. JobInv' /\ Quiescent' /\ RemovedJobIsGone' /\ StopLeavesNothing' /\ ConfigApplied'
  BY DEF IInv, ConfigApplied, JobInv, Quiescent, RemovedJobIsGone,
     StopLeavesNothing, LoadedEnd
<1> QED
  BY <1>1, <1>2, <1>3, <1>4, <1>5, <1>6 DEF IInv

\* IInv is preserved when loadConfig hands a nil event to a job, or finds it done.
LEMMA BarrierStep ==
    ASSUME IInv, NEW l \in Loaders, NEW n \in Names, Barrier(l, n)
    PROVE  IInv'
<1>1. TypeOK'
  BY DEF IInv, TypeOK, Barrier
<1>2. LockInv'
  BY DEF IInv, LockInv, TypeOK, Barrier
<1>3. BarrierInv'
  BY DEF IInv, BarrierInv, Calm, TypeOK, Barrier
<1>4. GivenInv'
  BY DEF IInv, GivenInv, Given, Has, TypeOK, Barrier
<1>5. JobInv' /\ CancelInv' /\ Quiescent' /\ RemovedJobIsGone' /\ StopLeavesNothing' /\ ConfigApplied'
  BY DEF IInv, CancelInv, ConfigApplied, JobInv, Quiescent, RemovedJobIsGone,
     StopLeavesNothing, Barrier
<1> QED
  BY <1>1, <1>2, <1>3, <1>4, <1>5 DEF IInv

\* IInv is preserved when loadConfig unlocks m.mu and returns.
LEMMA LoadUnlockStep ==
    ASSUME IInv, NEW l \in Loaders, LoadUnlock(l)
    PROVE  IInv'
<1>1. TypeOK'
  BY DEF IInv, TypeOK, PCs, LoadUnlock
<1>2. LockInv'
  BY DEF IInv, LockInv, TypeOK, Held, Threads, LoadUnlock
<1>3. CancelInv'
  BY DEF IInv, CancelInv, TypeOK, LoadUnlock
<1>4. BarrierInv' /\ Quiescent'
  BY DEF IInv, BarrierInv, Quiescent, Calm, TypeOK, LoadUnlock
<1>5. StopLeavesNothing'
  BY DEF IInv, StopLeavesNothing, TypeOK, LoadUnlock
<1>6. GivenInv' /\ ConfigApplied'
  BY DEF IInv, GivenInv, ConfigApplied, Given, Has, LockInv, TypeOK,
     LoadUnlock
<1>7. JobInv' /\ RemovedJobIsGone'
  BY DEF IInv, JobInv, RemovedJobIsGone, LoadUnlock
<1> QED
  BY <1>1, <1>2, <1>3, <1>4, <1>5, <1>6, <1>7 DEF IInv

\* IInv is preserved when load resets the file system.
LEMMA LoadEndStep ==
    ASSUME IInv, NEW l \in Loaders, LoadEnd(l)
    PROVE  IInv'
<1>1. TypeOK'
  BY DEF IInv, TypeOK, PCs, LoadEnd
<1>2. LockInv'
  BY DEF IInv, LockInv, TypeOK, Held, LoadEnd
<1>3. CancelInv'
  BY DEF IInv, CancelInv, TypeOK, LoadEnd
<1>4. BarrierInv'
  BY DEF IInv, BarrierInv, Calm, TypeOK, LoadEnd
<1>5. GivenInv'
  BY DEF IInv, GivenInv, Given, Has, TypeOK, LoadEnd
<1>6. JobInv' /\ Quiescent' /\ RemovedJobIsGone' /\ StopLeavesNothing' /\ ConfigApplied'
  BY DEF IInv, ConfigApplied, JobInv, Quiescent, RemovedJobIsGone,
     StopLeavesNothing, LoadEnd
<1> QED
  BY <1>1, <1>2, <1>3, <1>4, <1>5, <1>6 DEF IInv

\* IInv is preserved when StopJobs is called.
LEMMA StopBeginStep ==
    ASSUME IInv, NEW s \in Stoppers, StopBegin(s)
    PROVE  IInv'
<1>1. TypeOK'
  BY DEF IInv, TypeOK, PCs, Threads, StopBegin
<1>2. LockInv'
  BY DEF IInv, LockInv, TypeOK, Held, StopBegin
<1>3. CancelInv'
  BY DEF IInv, CancelInv, TypeOK, StopBegin
<1>4. BarrierInv'
  BY DEF IInv, BarrierInv, Calm, TypeOK, StopBegin
<1>5. GivenInv'
  BY DEF IInv, GivenInv, Given, Has, TypeOK, StopBegin
<1>6. JobInv' /\ Quiescent' /\ RemovedJobIsGone' /\ StopLeavesNothing' /\ ConfigApplied'
  BY DEF IInv, ConfigApplied, JobInv, Quiescent, RemovedJobIsGone,
     StopLeavesNothing, StopBegin
<1> QED
  BY <1>1, <1>2, <1>3, <1>4, <1>5, <1>6 DEF IInv

\* IInv is preserved when StopJobs locks m.mu and cancels every job.
LEMMA StopCancelStep ==
    ASSUME IInv, NEW s \in Stoppers, StopCancel(s)
    PROVE  IInv'
<1>1. TypeOK'
  <2>1. job' \in [Names -> JobType]
    <3>1. \A n \in Names : job[n] \in JobType
      BY DEF IInv, TypeOK
    <3>2. \A n \in Names : [job[n] EXCEPT !.cancelled = TRUE] \in JobType
      BY <3>1 DEF JobType
    <3> QED
      BY <3>1, <3>2 DEF StopCancel
  <2> QED
    BY <2>1 DEF IInv, TypeOK, PCs, Threads, StopCancel
<1>2. LockInv'
  BY ThreadsAssumption DEF IInv, LockInv, TypeOK, Threads, StopCancel
<1>3. JobInv' /\ CancelInv'
  BY DEF IInv, JobInv, CancelInv, TypeOK, Threads, StopCancel
<1>4. BarrierInv' /\ Quiescent'
  BY DEF IInv, BarrierInv, Quiescent, Calm, TypeOK, StopCancel
<1>5. RemovedJobIsGone' /\ StopLeavesNothing'
  BY DEF IInv, RemovedJobIsGone, StopLeavesNothing, TypeOK, StopCancel
<1>6. GivenInv' /\ ConfigApplied'
  BY DEF IInv, GivenInv, ConfigApplied, Given, Has, TypeOK, StopCancel
<1> QED
  BY <1>1, <1>2, <1>3, <1>4, <1>5, <1>6 DEF IInv

\* IInv is preserved when StopJobs has waited for every job and unlocks m.mu.
LEMMA StopEndStep ==
    ASSUME IInv, NEW s \in Stoppers, StopEnd(s)
    PROVE  IInv'
<1>1. TypeOK'
  BY DEF IInv, TypeOK, PCs, StopEnd
<1>2. LockInv'
  BY DEF IInv, LockInv, TypeOK, Held, Threads, StopEnd
<1>3. CancelInv'
  BY DEF IInv, CancelInv, TypeOK, StopEnd
<1>4. BarrierInv' /\ Quiescent'
  BY DEF IInv, BarrierInv, Quiescent, RemovedJobIsGone, LockInv, TypeOK, Held,
     Threads, StopEnd
<1>5. StopLeavesNothing'
  BY DEF IInv, RemovedJobIsGone, StopLeavesNothing, JobInv, TypeOK, StopEnd
<1>6. GivenInv' /\ ConfigApplied'
  BY DEF IInv, GivenInv, ConfigApplied, Given, LockInv, TypeOK, Held, Threads,
     StopEnd
<1>7. JobInv' /\ RemovedJobIsGone'
  BY DEF IInv, JobInv, RemovedJobIsGone, StopEnd
<1> QED
  BY <1>1, <1>2, <1>3, <1>4, <1>5, <1>6, <1>7 DEF IInv

\* IInv is preserved when the goroutine of StartService enters the loop of Run.
LEMMA JobStartStep ==
    ASSUME IInv, NEW n \in Names, JobStart(n)
    PROVE  IInv'
<1>1. TypeOK'
  <2>1. job' \in [Names -> JobType]
    <3>1. [job[n] EXCEPT !.st = "idle"] \in JobType
      BY MoveTyped DEF IInv, TypeOK, JobStates
    <3> QED
      BY <3>1, JobUpdate DEF IInv, TypeOK, JobStart
  <2> QED
    BY <2>1 DEF IInv, TypeOK, PCs, Threads, JobStart, OnlyJob
<1>2. JobInv' /\ CancelInv'
  BY DEF IInv, JobInv, CancelInv, TypeOK, Threads, JobStart, OnlyJob
<1>3. BarrierInv' /\ Quiescent'
  BY DEF IInv, BarrierInv, Quiescent, Calm, TypeOK, JobStart, OnlyJob
<1>4. RemovedJobIsGone' /\ StopLeavesNothing'
  BY DEF IInv, RemovedJobIsGone, StopLeavesNothing, TypeOK, JobStart, OnlyJob
<1>5. GivenInv'
  BY DEF IInv, GivenInv, Given, Has, TypeOK, JobStart, OnlyJob
<1>6. ConfigApplied'
  BY DEF IInv, ConfigApplied, JobInv, TypeOK, JobStart, OnlyJob, Quiescent
<1>7. LockInv'
  BY DEF IInv, LockInv, JobStart, OnlyJob
<1> QED
  BY <1>1, <1>2, <1>3, <1>4, <1>5, <1>6, <1>7 DEF IInv

\* IInv is preserved when Run sees that its context is cancelled.
LEMMA JobCancelledStep ==
    ASSUME IInv, NEW n \in Names, JobCancelled(n)
    PROVE  IInv'
<1>1. TypeOK'
  <2>1. job' \in [Names -> JobType]
    <3>1. Returning(job[n], "cancel") \in JobType
      BY ReturningTyped DEF IInv, TypeOK, Causes
    <3> QED
      BY <3>1, JobUpdate DEF IInv, TypeOK, JobCancelled
  <2> QED
    BY <2>1 DEF IInv, TypeOK, PCs, Threads, JobCancelled, OnlyJob
<1>2. JobInv' /\ CancelInv'
  BY DEF IInv, JobInv, CancelInv, TypeOK, JobCancelled, OnlyJob, Returning
<1>3. BarrierInv' /\ Quiescent'
  BY ThreadsAssumption DEF IInv, BarrierInv, Quiescent, CancelInv, LockInv,
     TypeOK, Held, Threads, JobCancelled, OnlyJob
<1>4. RemovedJobIsGone' /\ StopLeavesNothing'
  BY DEF IInv, RemovedJobIsGone, StopLeavesNothing, TypeOK, JobCancelled,
     OnlyJob
<1>5. GivenInv' /\ ConfigApplied'
  BY DEF IInv, GivenInv, ConfigApplied, Given, Has, TypeOK, JobCancelled,
     OnlyJob, Returning
<1>6. LockInv'
  BY DEF IInv, LockInv, JobCancelled, OnlyJob
<1> QED
  BY <1>1, <1>2, <1>3, <1>4, <1>5, <1>6 DEF IInv

\* IInv is preserved when Run sees that its http.Server has returned.
LEMMA JobServerDownStep ==
    ASSUME IInv, NEW n \in Names, JobServerDown(n)
    PROVE  IInv'
<1>1. TypeOK'
  <2>1. job' \in [Names -> JobType]
    <3>1. Returning(job[n], "down") \in JobType
      BY ReturningTyped DEF IInv, TypeOK, Causes
    <3> QED
      BY <3>1, JobUpdate DEF IInv, TypeOK, JobServerDown
  <2> QED
    BY <2>1 DEF IInv, TypeOK, PCs, Threads, JobServerDown, OnlyJob
<1>2. JobInv' /\ CancelInv'
  BY DEF IInv, JobInv, CancelInv, TypeOK, JobServerDown, OnlyJob, Returning
<1>3. BarrierInv' /\ Quiescent'
  BY DEF IInv, BarrierInv, Quiescent, Calm, TypeOK, JobServerDown, OnlyJob,
     Returning
<1>4. RemovedJobIsGone' /\ StopLeavesNothing'
  BY DEF IInv, RemovedJobIsGone, StopLeavesNothing, TypeOK, JobServerDown,
     OnlyJob
<1>5. GivenInv' /\ ConfigApplied'
  BY DEF IInv, GivenInv, ConfigApplied, Given, Has, TypeOK, JobServerDown,
     OnlyJob, Returning
<1>6. LockInv'
  BY DEF IInv, LockInv, JobServerDown, OnlyJob
<1> QED
  BY <1>1, <1>2, <1>3, <1>4, <1>5, <1>6 DEF IInv

\* IInv is preserved when Run validates a LoadEvent and stops a server it does not need.
LEMMA JobLoadStep ==
    ASSUME IInv, NEW n \in Names, JobLoad(n)
    PROVE  IInv'
<1>1. TypeOK'
  <2>1. job' \in [Names -> JobType]
    <3>1. job[n] \in JobType /\ StopServer(job[n]) \in JobType
      BY StopServerTyped DEF IInv, TypeOK
    <3>2. /\ Returning(job[n], "addr") \in JobType
          /\ [job[n] EXCEPT !.st = "apply"] \in JobType
          /\ [StopServer(job[n]) EXCEPT !.st = "apply"] \in JobType
      BY <3>1, ReturningTyped, MoveTyped DEF JobStates, Causes
    <3> QED
      BY <3>2, JobUpdate DEF IInv, TypeOK, JobLoad
  <2> QED
    BY <2>1 DEF IInv, TypeOK, PCs, Threads, JobLoad, OnlyJob, Release, JobType
<1>2. JobInv' /\ CancelInv'
  BY DEF IInv, JobInv, CancelInv, TypeOK, JobLoad, OnlyJob, StopServer,
     Returning
<1>3. BarrierInv' /\ Quiescent'
  BY DEF IInv, BarrierInv, Quiescent, Calm, JobInv, TypeOK, JobLoad, OnlyJob
<1>4. RemovedJobIsGone' /\ StopLeavesNothing'
  BY DEF IInv, RemovedJobIsGone, StopLeavesNothing, TypeOK, JobLoad, OnlyJob
<1>5. GivenInv'
  BY DEF IInv, GivenInv, Given, Has, TypeOK, JobLoad, OnlyJob, StopServer,
     Returning
<1>6. ConfigApplied'
  BY DEF IInv, ConfigApplied, TypeOK, JobLoad, OnlyJob, Returning
<1>7. LockInv'
  BY DEF IInv, LockInv, JobLoad, OnlyJob
<1> QED
  BY <1>1, <1>2, <1>3, <1>4, <1>5, <1>6, <1>7 DEF IInv

\* IInv is preserved when Run opens its files and stores the options of a LoadEvent.
LEMMA JobApplyStep ==
    ASSUME IInv, NEW n \in Names, JobApply(n)
    PROVE  IInv'
<1>1. TypeOK'
  <2>1. job' \in [Names -> JobType]
    <3>1. job[n] \in JobType /\ job[n].arg \in Ports /\ fsys \in Loaders \cup {None}
      BY DEF IInv, TypeOK, JobInv, JobApply
    <3>2. Returning(job[n], "open") \in JobType
      BY <3>1, ReturningTyped DEF Causes
    <3>3. [job[n] EXCEPT !.st = "idle", !.opts = job[n].arg, !.arg = None,
                         !.seen = IF Kind[n] = "http" THEN fsys ELSE None] \in JobType
      BY <3>1 DEF JobType, JobStates
    <3> QED
      BY <3>2, <3>3, JobUpdate DEF IInv, TypeOK, JobApply
  <2> QED
    BY <2>1 DEF IInv, TypeOK, PCs, Threads, JobApply, OnlyJob
<1>2. JobInv' /\ CancelInv'
  BY DEF IInv, JobInv, CancelInv, TypeOK, JobApply, OnlyJob, Returning
<1>3. BarrierInv' /\ Quiescent'
  BY DEF IInv, BarrierInv, Quiescent, Calm, JobInv, TypeOK, JobApply, OnlyJob
<1>4. RemovedJobIsGone' /\ StopLeavesNothing'
  BY DEF IInv, RemovedJobIsGone, StopLeavesNothing, TypeOK, JobApply, OnlyJob
<1>5. GivenInv'
  BY DEF IInv, GivenInv, Given, Has, TypeOK, JobApply, OnlyJob, Returning
<1>6. ConfigApplied'
  BY DEF IInv, ConfigApplied, JobInv, TypeOK, JobApply, OnlyJob, Quiescent
<1>7. LockInv'
  BY DEF IInv, LockInv, JobApply, OnlyJob
<1> QED
  BY <1>1, <1>2, <1>3, <1>4, <1>5, <1>6, <1>7 DEF IInv

\* IInv is preserved when Run handles a LoadedEvent and starts its server.
LEMMA JobLoadedStep ==
    ASSUME IInv, NEW n \in Names, JobLoaded(n)
    PROVE  IInv'
<1>1. TypeOK'
  <2>1. job' \in [Names -> JobType]
    <3>1. job[n] \in JobType
      BY DEF IInv, TypeOK
    <3>2. /\ [job[n] EXCEPT !.st = "idle"] \in JobType
          /\ Returning(job[n], "listen") \in JobType /\ Returning(job[n], "linger") \in JobType
      BY <3>1, MoveTyped, ReturningTyped DEF JobStates, Causes
    <3>3. [job[n] EXCEPT !.st = "idle", !.server = TRUE, !.port = job[n].opts] \in JobType
      BY <3>1 DEF JobType, JobStates
    <3> QED
      BY <3>2, <3>3, JobUpdate DEF IInv, TypeOK, JobLoaded
  <2> QED
    BY <2>1 DEF IInv, TypeOK, PCs, Threads, JobLoaded, OnlyJob
<1>2. JobInv' /\ CancelInv'
  BY DEF IInv, JobInv, CancelInv, TypeOK, JobLoaded, OnlyJob, Returning
<1>3. BarrierInv' /\ Quiescent'
  BY DEF IInv, BarrierInv, Quiescent, Calm, JobInv, TypeOK, JobLoaded, OnlyJob
<1>4. RemovedJobIsGone' /\ StopLeavesNothing'
  BY DEF IInv, RemovedJobIsGone, StopLeavesNothing, TypeOK, JobLoaded, OnlyJob
<1>5. GivenInv'
  BY DEF IInv, GivenInv, Given, Has, TypeOK, JobLoaded, OnlyJob, Returning
<1>6. ConfigApplied'
  BY DEF IInv, ConfigApplied, JobInv, TypeOK, JobLoaded, OnlyJob, Quiescent
<1>7. LockInv'
  BY DEF IInv, LockInv, JobLoaded, OnlyJob
<1> QED
  BY <1>1, <1>2, <1>3, <1>4, <1>5, <1>6, <1>7 DEF IInv

\* IInv is preserved when the deferred stopServer of Run.
LEMMA JobStopServerStep ==
    ASSUME IInv, NEW n \in Names, JobStopServer(n)
    PROVE  IInv'
<1>1. TypeOK'
  <2>1. job' \in [Names -> JobType]
    <3>1. [StopServer(job[n]) EXCEPT !.st = "stopped"] \in JobType
      BY StopServerTyped, MoveTyped DEF IInv, TypeOK, JobStates
    <3> QED
      BY <3>1, JobUpdate DEF IInv, TypeOK, JobStopServer
  <2> QED
    BY <2>1 DEF IInv, TypeOK, PCs, Threads, JobStopServer, OnlyJob, Release, JobType
<1>2. JobInv' /\ CancelInv'
  BY PortsAssumption DEF IInv, JobInv, CancelInv, TypeOK, JobStopServer,
     OnlyJob, StopServer
<1>3. BarrierInv' /\ Quiescent'
  BY DEF IInv, BarrierInv, Quiescent, Calm, TypeOK, JobStopServer, OnlyJob,
     StopServer
<1>4. RemovedJobIsGone' /\ StopLeavesNothing'
  BY DEF IInv, RemovedJobIsGone, StopLeavesNothing, TypeOK, JobStopServer,
     OnlyJob
<1>5. GivenInv' /\ ConfigApplied'
  BY DEF IInv, GivenInv, ConfigApplied, Given, Has, TypeOK, JobStopServer,
     OnlyJob
<1>6. LockInv'
  BY DEF IInv, LockInv, JobStopServer, OnlyJob
<1> QED
  BY <1>1, <1>2, <1>3, <1>4, <1>5, <1>6 DEF IInv

\* IInv is preserved when the deferred cancel and done of StartService.
LEMMA JobDoneStep ==
    ASSUME IInv, NEW n \in Names, JobDone(n)
    PROVE  IInv'
<1>1. TypeOK'
  <2>1. job' \in [Names -> JobType]
    <3>1. job[n] \in JobType
      BY DEF IInv, TypeOK
    <3>2. [job[n] EXCEPT !.st = "done", !.cancelled = TRUE] \in JobType
      BY <3>1 DEF JobType, JobStates
    <3> QED
      BY <3>2, JobUpdate DEF IInv, TypeOK, JobDone
  <2> QED
    BY <2>1 DEF IInv, TypeOK, PCs, Threads, JobDone, OnlyJob
<1>2. JobInv' /\ CancelInv'
  BY DEF IInv, JobInv, CancelInv, TypeOK, JobDone, OnlyJob
<1>3. BarrierInv' /\ Quiescent'
  BY DEF IInv, BarrierInv, Quiescent, Calm, TypeOK, JobDone, OnlyJob
<1>4. RemovedJobIsGone' /\ StopLeavesNothing'
  BY DEF IInv, RemovedJobIsGone, StopLeavesNothing, TypeOK, JobDone, OnlyJob
<1>5. GivenInv' /\ ConfigApplied'
  BY DEF IInv, GivenInv, ConfigApplied, Given, Has, TypeOK, JobDone, OnlyJob
<1>6. LockInv'
  BY DEF IInv, LockInv, JobDone, OnlyJob
<1> QED
  BY <1>1, <1>2, <1>3, <1>4, <1>5, <1>6 DEF IInv

\* IInv is preserved when an http.Server gives up and closes serverDown.
LEMMA ServerFailsStep ==
    ASSUME IInv, NEW n \in Names, ServerFails(n)
    PROVE  IInv'
<1>1. TypeOK'
  <2>1. job' \in [Names -> JobType]
    <3>1. job[n] \in JobType
      BY DEF IInv, TypeOK
    <3>2. [job[n] EXCEPT !.down = TRUE, !.port = None] \in JobType
      BY <3>1 DEF JobType
    <3> QED
      BY <3>2, JobUpdate DEF IInv, TypeOK, ServerFails
  <2> QED
    BY <2>1 DEF IInv, TypeOK, PCs, Threads, ServerFails
<1>2. JobInv' /\ CancelInv'
  BY DEF IInv, JobInv, CancelInv, TypeOK, ServerFails
<1>3. BarrierInv' /\ Quiescent'
  BY DEF IInv, BarrierInv, Quiescent, Calm, TypeOK, ServerFails
<1>4. RemovedJobIsGone' /\ StopLeavesNothing'
  BY DEF IInv, RemovedJobIsGone, StopLeavesNothing, TypeOK, ServerFails
<1>5. GivenInv' /\ ConfigApplied'
  BY DEF IInv, GivenInv, ConfigApplied, Given, Has, TypeOK, ServerFails
<1>6. LockInv'
  BY DEF IInv, LockInv, ServerFails
<1> QED
  BY <1>1, <1>2, <1>3, <1>4, <1>5, <1>6 DEF IInv

-----------------------------------------------------------------------------
(***************************************************************************)
(* The inductive invariant and what follows from it.                       *)
(***************************************************************************)

\* A manager nobody has loaded anything into satisfies IInv.
LEMMA InitIInv == Init => IInv
<1> SUFFICES ASSUME Init PROVE IInv
  OBVIOUS
<1>1. NoJob \in JobType
  BY DEF NoJob, JobType, JobStates, Causes, Options
<1>2. TypeOK
  BY <1>1 DEF Init, TypeOK, PCs, Threads
<1>3. LockInv /\ BarrierInv /\ GivenInv
  BY DEF Init, LockInv, Held, BarrierInv, GivenInv, Given, Threads
<1>4. JobInv /\ CancelInv /\ Quiescent /\ RemovedJobIsGone
  BY DEF Init, NoJob, JobInv, CancelInv, Quiescent, RemovedJobIsGone
<1>5. StopLeavesNothing /\ ConfigApplied
  BY DEF Init, StopLeavesNothing, ConfigApplied
<1> QED
  BY <1>2, <1>3, <1>4, <1>5 DEF IInv

\* A step that leaves the manager and its jobs alone preserves IInv: a stutter,
\* or a listener that closes late.
LEMMA StutterIInv ==
    ASSUME IInv, UNCHANGED vars \/ \E p \in Ports : LateServe(p)
    PROVE  IInv'
<1>0. UNCHANGED <<mu, fsys, jobs, job, pc, cfg, todo, cur, calls, faults, settled>>
  BY DEF vars, LateServe
<1>1. TypeOK'
  <2>1. lingering' \subseteq Ports
    BY DEF vars, LateServe, IInv, TypeOK
  <2> QED
    BY <1>0, <2>1 DEF IInv, TypeOK
<1>2. LockInv' /\ JobInv' /\ CancelInv'
  BY <1>0 DEF IInv, LockInv, JobInv, CancelInv
<1>3. BarrierInv' /\ GivenInv'
  BY <1>0 DEF IInv, BarrierInv, Calm, GivenInv, Given, Has
<1>4. Quiescent' /\ RemovedJobIsGone' /\ StopLeavesNothing' /\ ConfigApplied'
  BY <1>0 DEF IInv, Quiescent, RemovedJobIsGone, StopLeavesNothing, ConfigApplied
<1> QED
  BY <1>1, <1>2, <1>3, <1>4 DEF IInv

\* Every step of a loader, a stopper, a job or an http.Server preserves IInv.
LEMMA NextIInv == IInv /\ [Next]_vars => IInv'
<1> SUFFICES ASSUME IInv, [Next]_vars PROVE IInv'
  OBVIOUS
<1>1. ASSUME NEW l \in Loaders, NEW c \in Configs \cup {Malformed}, LoadBegin(l, c)
      PROVE  IInv'
  BY <1>1, LoadBeginStep
<1>2. ASSUME NEW l \in Loaders, LoaderStep(l)
      PROVE  IInv'
  <2>1. CASE LoadReject(l) \/ LoadLock(l)
    BY <2>1, LoadRejectStep, LoadLockStep
  <2>2. CASE \E n \in Names : PruneCancel(l, n)
    BY <2>2, PruneCancelStep
  <2>3. CASE PruneDelete(l) \/ PruneEnd(l)
    BY <2>3, PruneDeleteStep, PruneEndStep
  <2>4. CASE \E n \in Names : SetOptionsSkip(l, n) \/ SetOptions(l, n)
    BY <2>4, SetOptionsSkipStep, SetOptionsStep
  <2>5. CASE SendLoad(l) \/ OptionsEnd(l)
    BY <2>5, SendLoadStep, OptionsEndStep
  <2>6. CASE \E n \in Names : SendLoaded(l, n)
    BY <2>6, SendLoadedStep
  <2>7. CASE LoadedEnd(l)
    BY <2>7, LoadedEndStep
  <2>8. CASE \E n \in Names : Barrier(l, n)
    BY <2>8, BarrierStep
  <2>9. CASE LoadUnlock(l) \/ LoadEnd(l)
    BY <2>9, LoadUnlockStep, LoadEndStep
  <2> QED
    BY <1>2, <2>1, <2>2, <2>3, <2>4, <2>5, <2>6, <2>7, <2>8, <2>9 DEF LoaderStep
<1>3. ASSUME NEW s \in Stoppers, StopBegin(s) \/ StopperStep(s)
      PROVE  IInv'
  BY <1>3, StopBeginStep, StopCancelStep, StopEndStep DEF StopperStep
<1>4. ASSUME NEW n \in Names, JobStep(n)
      PROVE  IInv'
  <2>1. CASE JobStart(n) \/ JobCancelled(n) \/ JobServerDown(n)
    BY <2>1, JobStartStep, JobCancelledStep, JobServerDownStep
  <2>2. CASE JobLoad(n) \/ JobApply(n) \/ JobLoaded(n)
    BY <2>2, JobLoadStep, JobApplyStep, JobLoadedStep
  <2>3. CASE JobStopServer(n) \/ JobDone(n)
    BY <2>3, JobStopServerStep, JobDoneStep
  <2> QED
    BY <1>4, <2>1, <2>2, <2>3 DEF JobStep
<1>5. ASSUME NEW n \in Names, ServerFails(n)
      PROVE  IInv'
  BY <1>5, ServerFailsStep
<1>6. CASE UNCHANGED vars \/ \E p \in Ports : LateServe(p)
  BY <1>6, StutterIInv
<1> QED
  BY <1>1, <1>2, <1>3, <1>4, <1>5, <1>6 DEF Next

\* IInv holds in every state of every behaviour of the manager and its jobs.
THEOREM Invariance == Spec => []IInv
  BY InitIInv, NextIInv, PTL DEF Spec

\* Manager.mu, Manager.jobs, the channels and the locals of Load, StopJobs and
\* Run keep their types.
THEOREM TypeCorrect == Spec => []TypeOK
<1>1. IInv => TypeOK
  BY DEF IInv
<1> QED
  BY <1>1, Invariance, PTL

\* Whatever Load and StopJobs calls race with it, when m.mu is free no job is
\* in the middle of an event: the nil events of loadConfig are a barrier.
THEOREM LoadsSettle == Spec => []Quiescent
<1>1. IInv => Quiescent
  BY DEF IInv
<1> QED
  BY <1>1, Invariance, PTL

\* loadConfig loses no LoadEvent: when it has returned, the map holds the jobs
\* of the document only and each live one has the options of the document.
THEOREM LoadsApply == Spec => []ConfigApplied
<1>1. IInv => ConfigApplied
  BY DEF IInv
<1> QED
  BY <1>1, Invariance, PTL

\* A job that is no longer in m.jobs has returned and released its listener.
THEOREM RemovalsComplete == Spec => []RemovedJobIsGone
<1>1. IInv => RemovedJobIsGone
  BY DEF IInv
<1> QED
  BY <1>1, Invariance, PTL

\* When StopJobs has returned, every job has, and no listener is left, until
\* the next load.
THEOREM StopsComplete == Spec => []StopLeavesNothing
<1>1. IInv => StopLeavesNothing
  BY DEF IInv
<1> QED
  BY <1>1, Invariance, PTL
-----------------------------------------------------------------------------
(***************************************************************************)
(* Servers and ports: what holds on top of IInv, for any number of loaders *)
(* too.                                                                    *)
(***************************************************************************)

\* A server listens to the address of the options, and stopServer runs before
\* options with another address replace them.
ServerOK(r) ==
    /\ r.server => r.down \/ r.port = r.opts
    /\ ~r.server => r.port = None /\ ~r.down
    /\ r.down => r.port = None
    /\ (r.st = "apply" /\ r.server) => r.arg = r.opts
    /\ (r.st = "exit" /\ r.why = "down") => r.down

ServerInv == \A n \in Names : ServerOK(job[n])

\* The job has handled a LoadedEvent since its server was stopped, if it is
\* still there.
Started(r) == r.st \notin {"start", "load", "apply"} /\ (r.st = "idle" => r.server)

StartedInv ==
    /\ \A l \in Loaders :
          /\ pc[l] = "loaded" => \A n \in Names \ todo[l] : Started(job[n])
          /\ pc[l] = "barrier" => \A n \in Names : Started(job[n])
    /\ mu = None => \A n \in Names : Started(job[n])

\* A job is in the middle of an event only while the loader that sent it is
\* inside loadConfig.
BusyOK(n, r) ==
    /\ r.st \in {"load", "apply"} => r.from \in Loaders /\ mu = r.from /\ n \in Given(r.from)
    /\ r.st = "loaded" => mu \in Loaders /\ pc[mu] \in {"loaded", "barrier"}

BusyInv == \A n \in Names : BusyOK(n, job[n])

\* Jobs are started only for services.
KindInv == \A n \in jobs : Kind[n] \in {"stream", "http"}

SInv == ServerInv /\ StartedInv /\ BusyInv /\ KindInv

\* What one job does matters to that job only.
LEMMA JobStepS ==
  ASSUME IInv, SInv, NEW n \in Names, UNCHANGED <<mu, jobs, pc, cfg, todo>>,
         \A m \in Names \ {n} : job'[m] = job[m],
         ServerOK(job'[n]),
         Started(job[n]) => Started(job'[n]),
         job'[n].st \in {"load", "apply"} =>
            job[n].st \in {"load", "apply"} /\ job'[n].from = job[n].from,
         job'[n].st = "loaded" => job[n].st = "loaded"
  PROVE  SInv'
<1>0. UNCHANGED <<mu, jobs, pc, cfg, todo>>
  OBVIOUS
<1>1. ServerInv'
  BY DEF SInv, ServerInv, ServerOK
<1>2. StartedInv'
  <2>1. \A m \in Names : Started(job[m]) => Started(job'[m])
    OBVIOUS
  <2> QED BY <1>0, <2>1 DEF SInv, StartedInv, Started
<1>3. BusyInv'
  <2>1. \A l : Given(l)' = Given(l)
    BY <1>0 DEF Given
  <2> QED BY <1>0, <2>1 DEF SInv, BusyInv, BusyOK
<1>4. KindInv'
  BY <1>0 DEF SInv, KindInv
<1> QED BY <1>1, <1>2, <1>3, <1>4 DEF SInv

LEMMA JobTyped ==
  ASSUME IInv, NEW n \in Names
  PROVE  job[n] \in JobType /\ job \in [Names -> JobType]
BY DEF IInv, TypeOK

LEMMA JobEffect ==
  ASSUME IInv, NEW n \in Names, NEW R, job' = [job EXCEPT ![n] = R]
  PROVE  job'[n] = R /\ \A m \in Names \ {n} : job'[m] = job[m]
BY JobTyped

LEMMA ReturningFields ==
  ASSUME NEW r \in JobType, NEW cause \in Causes
  PROVE  /\ Returning(r, cause).st = "exit" /\ Returning(r, cause).why = cause
         /\ Returning(r, cause).server = r.server /\ Returning(r, cause).port = r.port
         /\ Returning(r, cause).down = r.down /\ Returning(r, cause).opts = r.opts
         /\ Returning(r, cause).from = r.from /\ Returning(r, cause).seen = r.seen
BY DEF JobType, Returning

\* Returning from Run changes nothing about the server yet.
LEMMA ReturningS ==
  ASSUME IInv, SInv, NEW n \in Names, NEW cause \in Causes, OnlyJob,
         cause = "down" => job[n].down,
         job' = [job EXCEPT ![n] = Returning(job[n], cause)]
  PROVE  SInv'
<1> DEFINE r == job[n]
           R == Returning(r, cause)
<1>0. r \in JobType /\ ServerOK(r)
  BY JobTyped DEF SInv, ServerInv
<1>1. /\ R.st = "exit" /\ R.server = r.server /\ R.port = r.port /\ R.down = r.down
      /\ R.opts = r.opts /\ (R.why = "down" => r.down)
  BY <1>0, ReturningFields
<1>2. job'[n] = R /\ \A m \in Names \ {n} : job'[m] = job[m]
  BY JobEffect
<1> HIDE DEF r, R
<1>3. ServerOK(R)
  BY <1>0, <1>1 DEF ServerOK
<1>4. Started(R)
  BY <1>1 DEF Started
<1> QED BY <1>1, <1>2, <1>3, <1>4, JobStepS DEF r, OnlyJob

LEMMA JobStartS ==
  ASSUME IInv, SInv, NEW n \in Names, JobStart(n)
  PROVE  SInv'
<1> DEFINE r == job[n]
           R == [r EXCEPT !.st = "idle"]
<1>0. r \in JobType /\ ServerOK(r) /\ r.st = "start" /\ OnlyJob
  BY JobTyped DEF SInv, ServerInv, JobStart
<1>1. job' = [job EXCEPT ![n] = R]
  BY JobTyped DEF JobStart, JobType
<1>2. job'[n] = R /\ \A m \in Names \ {n} : job'[m] = job[m]
  BY <1>1, JobEffect
<1>3. R.st = "idle" /\ R.server = r.server /\ R.port = r.port /\ R.down = r.down /\ R.opts = r.opts
  BY <1>0 DEF JobType
<1> HIDE DEF R
<1>4. ServerOK(R)
  BY <1>0, <1>3 DEF ServerOK
<1>5. ~Started(r)
  BY <1>0 DEF Started
<1> QED BY <1>0, <1>2, <1>3, <1>4, <1>5, JobStepS DEF OnlyJob

LEMMA JobLoadS ==
  ASSUME IInv, SInv, NEW n \in Names, JobLoad(n)
  PROVE  SInv'
<1> DEFINE r == job[n]
<1>0. r \in JobType /\ ServerOK(r) /\ r.st = "load" /\ OnlyJob
  BY JobTyped DEF SInv, ServerInv, JobLoad
<1>1. ~Started(r)
  BY <1>0 DEF Started
<1>2. CASE r.arg = BadAddr
  <2>1. job' = [job EXCEPT ![n] = Returning(r, "addr")]
    BY <1>2, JobTyped DEF JobLoad
  <2> QED BY <1>0, <2>1, ReturningS DEF Causes
<1>3. CASE r.arg # BadAddr /\ r.arg = r.opts
  <2> DEFINE R == [r EXCEPT !.st = "apply"]
  <2>1. job' = [job EXCEPT ![n] = R]
    BY <1>3, JobTyped DEF JobLoad
  <2>2. job'[n] = R /\ \A m \in Names \ {n} : job'[m] = job[m]
    BY <2>1, JobEffect
  <2>3. /\ R.st = "apply" /\ R.server = r.server /\ R.port = r.port /\ R.down = r.down
        /\ R.opts = r.opts /\ R.arg = r.arg /\ R.from = r.from
    BY <1>0 DEF JobType
  <2> HIDE DEF R
  <2>4. ServerOK(R)
    BY <1>0, <1>3, <2>3 DEF ServerOK
  <2> QED BY <1>0, <1>1, <2>2, <2>3, <2>4, JobStepS DEF OnlyJob
<1>4. CASE r.arg # BadAddr /\ r.arg # r.opts
  <2> DEFINE R == [StopServer(r) EXCEPT !.st = "apply"]
  <2>1. job' = [job EXCEPT ![n] = R]
    BY <1>4, JobTyped DEF JobLoad
  <2>2. job'[n] = R /\ \A m \in Names \ {n} : job'[m] = job[m]
    BY <2>1, JobEffect
  <2>3. R.st = "apply" /\ ~R.server /\ R.port = None /\ ~R.down /\ R.from = r.from
    BY <1>0 DEF JobType, StopServer
  <2> HIDE DEF R
  <2>4. ServerOK(R)
    BY <2>3 DEF ServerOK
  <2> QED BY <1>0, <1>1, <2>2, <2>3, <2>4, JobStepS DEF OnlyJob
<1> QED BY <1>2, <1>3, <1>4

LEMMA JobApplyS ==
  ASSUME IInv, SInv, NEW n \in Names, JobApply(n)
  PROVE  SInv'
<1> DEFINE r == job[n]
           s == IF Kind[n] = "http" THEN fsys ELSE None
           R == [r EXCEPT !.st = "idle", !.opts = r.arg, !.arg = None, !.seen = s]
<1>0. r \in JobType /\ ServerOK(r) /\ r.st = "apply" /\ OnlyJob
  BY JobTyped DEF SInv, ServerInv, JobApply
<1>1. CASE job' = [job EXCEPT ![n] = Returning(r, "open")]
  BY <1>0, <1>1, ReturningS DEF Causes
<1>2. CASE job' = [job EXCEPT ![n] = R]
  <2>1. job'[n] = R /\ \A m \in Names \ {n} : job'[m] = job[m]
    BY <1>2, JobEffect
  <2> HIDE DEF s
  <2>2. R.st = "idle" /\ R.server = r.server /\ R.port = r.port /\ R.down = r.down /\ R.opts = r.arg
    BY <1>0 DEF JobType
  <2> HIDE DEF R
  <2>3. ServerOK(R)
    BY <1>0, <2>2 DEF ServerOK
  <2>4. ~Started(r)
    BY <1>0 DEF Started
  <2> QED BY <1>0, <2>1, <2>2, <2>3, <2>4, JobStepS DEF OnlyJob
<1>3. job' = [job EXCEPT ![n] = Returning(r, "open")] \/ job' = [job EXCEPT ![n] = R]
  BY JobTyped DEF JobApply
<1> QED BY <1>1, <1>2, <1>3

LEMMA JobLoadedS ==
  ASSUME IInv, SInv, NEW n \in Names, JobLoaded(n)
  PROVE  SInv'
<1> DEFINE r == job[n]
<1>0. r \in JobType /\ ServerOK(r) /\ r.st = "loaded" /\ OnlyJob
  BY JobTyped DEF SInv, ServerInv, JobLoaded
<1>1. CASE r.server
  <2> DEFINE R == [r EXCEPT !.st = "idle"]
  <2>1. job' = [job EXCEPT ![n] = R]
    BY <1>1, JobTyped DEF JobLoaded
  <2>2. job'[n] = R /\ \A m \in Names \ {n} : job'[m] = job[m]
    BY <2>1, JobEffect
  <2>3. /\ R.st = "idle" /\ R.server = r.server /\ R.port = r.port /\ R.down = r.down
        /\ R.opts = r.opts
    BY <1>0 DEF JobType
  <2> HIDE DEF R
  <2>4. ServerOK(R) /\ Started(R)
    BY <1>0, <1>1, <2>3 DEF ServerOK, Started
  <2> QED BY <1>0, <2>2, <2>3, <2>4, JobStepS DEF OnlyJob
<1>2. CASE ~r.server /\ \E cause \in {"listen", "linger"} : job' = [job EXCEPT ![n] = Returning(r, cause)]
  BY <1>0, <1>2, ReturningS DEF Causes
<1>3. CASE ~r.server /\ job' = [job EXCEPT ![n] = [r EXCEPT !.st = "idle", !.server = TRUE,
                                                             !.port = r.opts]]
  <2> DEFINE R == [r EXCEPT !.st = "idle", !.server = TRUE, !.port = r.opts]
  <2>1. job'[n] = R /\ \A m \in Names \ {n} : job'[m] = job[m]
    BY <1>3, JobEffect
  <2>2. R.st = "idle" /\ R.server /\ R.port = r.opts /\ R.down = r.down /\ R.opts = r.opts
    BY <1>0 DEF JobType
  <2> HIDE DEF R
  <2>3. ~r.down
    BY <1>0, <1>3 DEF ServerOK
  <2>4. ServerOK(R) /\ Started(R)
    BY <2>2, <2>3 DEF ServerOK, Started
  <2> QED BY <1>0, <2>1, <2>2, <2>4, JobStepS DEF OnlyJob
<1>4. ~r.server => \/ \E cause \in {"listen", "linger"} : job' = [job EXCEPT ![n] = Returning(r, cause)]
                   \/ job' = [job EXCEPT ![n] = [r EXCEPT !.st = "idle", !.server = TRUE,
                                                          !.port = r.opts]]
  BY JobTyped DEF JobLoaded
<1> QED BY <1>1, <1>2, <1>3, <1>4

LEMMA JobEndS ==
  ASSUME IInv, SInv, NEW n \in Names, JobStopServer(n) \/ JobDone(n) \/ ServerFails(n)
  PROVE  SInv'
<1> DEFINE r == job[n]
<1>0. r \in JobType /\ ServerOK(r) /\ UNCHANGED <<mu, jobs, pc, cfg, todo>>
  BY JobTyped DEF SInv, ServerInv, JobStopServer, JobDone, ServerFails, OnlyJob
<1>1. ASSUME JobStopServer(n) PROVE SInv'
  <2> DEFINE R == [StopServer(r) EXCEPT !.st = "stopped"]
  <2>1. job' = [job EXCEPT ![n] = R]
    BY <1>1, JobTyped DEF JobStopServer
  <2>2. job'[n] = R /\ \A m \in Names \ {n} : job'[m] = job[m]
    BY <2>1, JobEffect
  <2>3. R.st = "stopped" /\ ~R.server /\ R.port = None /\ ~R.down
    BY <1>0 DEF JobType, StopServer
  <2> HIDE DEF R
  <2>4. ServerOK(R) /\ Started(R)
    BY <2>3 DEF ServerOK, Started
  <2> QED BY <1>0, <2>2, <2>3, <2>4, JobStepS
<1>2. ASSUME JobDone(n) PROVE SInv'
  <2> DEFINE R == [r EXCEPT !.st = "done", !.cancelled = TRUE]
  <2>1. job' = [job EXCEPT ![n] = R]
    BY <1>0, <1>2, JobTyped DEF JobDone, JobType
  <2>2. job'[n] = R /\ \A m \in Names \ {n} : job'[m] = job[m]
    BY <2>1, JobEffect
  <2>3. /\ R.st = "done" /\ R.server = r.server /\ R.port = r.port /\ R.down = r.down
        /\ R.opts = r.opts
    BY <1>0 DEF JobType
  <2> HIDE DEF R
  <2>4. ServerOK(R) /\ Started(R)
    BY <1>0, <2>3 DEF ServerOK, Started
  <2> QED BY <1>0, <2>2, <2>3, <2>4, JobStepS
<1>3. ASSUME ServerFails(n) PROVE SInv'
  <2> DEFINE R == [r EXCEPT !.down = TRUE, !.port = None]
  <2>1. job' = [job EXCEPT ![n] = R] /\ r.server
    BY <1>0, <1>3, JobTyped DEF ServerFails, JobType
  <2>2. job'[n] = R /\ \A m \in Names \ {n} : job'[m] = job[m]
    BY <2>1, JobEffect
  <2>3. /\ R.st = r.st /\ R.server = r.server /\ R.port = None /\ R.down
        /\ R.opts = r.opts /\ R.arg = r.arg /\ R.from = r.from
    BY <1>0 DEF JobType
  <2> HIDE DEF R
  <2>4. ServerOK(R) /\ (Started(r) => Started(R))
    BY <1>0, <2>1, <2>3 DEF ServerOK, Started
  <2> QED BY <1>0, <2>2, <2>3, <2>4, JobStepS
<1> QED BY <1>1, <1>2, <1>3

LEMMA JobS ==
  ASSUME IInv, SInv, NEW n \in Names, JobStep(n) \/ ServerFails(n)
  PROVE  SInv'
<1>1. ASSUME JobCancelled(n) PROVE SInv'
  <2>1. OnlyJob /\ job' = [job EXCEPT ![n] = Returning(job[n], "cancel")]
    BY <1>1, JobTyped DEF JobCancelled
  <2> QED BY <2>1, ReturningS DEF Causes
<1>2. ASSUME JobServerDown(n) PROVE SInv'
  <2>1. OnlyJob /\ job' = [job EXCEPT ![n] = Returning(job[n], "down")] /\ job[n].down
    BY <1>2, JobTyped DEF JobServerDown
  <2> QED BY <2>1, ReturningS DEF Causes
<1> QED BY <1>1, <1>2, JobStartS, JobLoadS, JobApplyS, JobLoadedS, JobEndS DEF JobStep

\* The steps of a caller that do not touch a job.
LEMMA CallerStepS ==
  ASSUME IInv, SInv, UNCHANGED job, jobs' \subseteq jobs,
         StartedInv', BusyInv'
  PROVE  SInv'
<1>1. ServerInv'
  BY DEF SInv, ServerInv, ServerOK
<1>2. KindInv'
  BY DEF SInv, KindInv
<1> QED BY <1>1, <1>2 DEF SInv

LEMMA BeforeLoadS ==
  ASSUME IInv, SInv, NEW l \in Loaders,
         \/ \E c \in Configs \cup {Malformed} : LoadBegin(l, c)
         \/ LoadReject(l) \/ LoadEnd(l)
  PROVE  SInv'
<1>0. /\ UNCHANGED <<job, jobs, mu, todo>> /\ pc[l] \notin Held
      /\ pc'[l] \notin Held /\ \A t \in Threads \ {l} : pc'[t] = pc[t]
      /\ \A k \in Loaders \ {l} : cfg'[k] = cfg[k]
  BY DEF IInv, TypeOK, Threads, LoadBegin, LoadReject, LoadEnd, Held
<1>1. StartedInv'
  BY <1>0 DEF SInv, StartedInv, Started, Held, Threads
<1>2. \A k \in Loaders : Given(k)' = Given(k)
  BY <1>0 DEF Given, Held, Threads
<1>3. \A k \in Loaders : pc[k] \in {"loaded", "barrier"} => pc'[k] = pc[k]
  BY <1>0 DEF Held, Threads
<1>4. BusyInv'
  BY <1>0, <1>2, <1>3 DEF SInv, BusyInv, BusyOK
<1> QED BY <1>0, <1>1, <1>4, CallerStepS

LEMMA LoadLockS ==
  ASSUME IInv, SInv, NEW l \in Loaders, LoadLock(l)
  PROVE  SInv'
<1>0. /\ UNCHANGED <<job, jobs, cfg>> /\ mu = None /\ mu' = l /\ l # None
      /\ pc'[l] = "prune" /\ \A k \in Loaders \ {l} : pc'[k] = pc[k] /\ todo'[k] = todo[k]
  BY ThreadsAssumption DEF IInv, TypeOK, Threads, LoadLock
<1>1. StartedInv'
  BY <1>0 DEF SInv, StartedInv, Started
<1>2. \A n \in Names : job[n].st \notin {"load", "apply", "loaded"}
  BY <1>0, ThreadsAssumption DEF SInv, BusyInv, BusyOK
<1>3. BusyInv'
  BY <1>0, <1>2 DEF BusyInv, BusyOK
<1> QED BY <1>0, <1>1, <1>3, CallerStepS

\* The lock is held by l, so that no other caller is inside its section.
LEMMA Alone ==
  ASSUME IInv, NEW l \in Threads, pc[l] \in Held
  PROVE  mu = l /\ mu # None /\ \A t \in Threads \ {l} : pc[t] \notin Held
BY ThreadsAssumption DEF IInv, LockInv, Threads

\* Going from one loop of loadConfig to the next, or on with a loop.
LEMMA LoopS ==
  ASSUME IInv, SInv, NEW l \in Loaders, pc[l] \in Held, UNCHANGED <<job, mu, cfg>>,
         jobs' \subseteq jobs,
         \A k \in Loaders \ {l} : pc'[k] = pc[k] /\ todo'[k] = todo[k],
         pc[l] = "loaded" => pc'[l] \in {"loaded", "barrier"},
         pc[l] = "barrier" => pc'[l] = "barrier",
         Given(l) \subseteq Given(l)',
         pc'[l] = "loaded" => \A n \in Names \ todo'[l] : Started(job[n]),
         pc'[l] = "barrier" => \A n \in Names : Started(job[n])
  PROVE  SInv'
<1>0. mu = l /\ mu # None /\ \A k \in Loaders \ {l} : pc[k] \notin Held
  BY Alone DEF Threads
<1>1. StartedInv'
  BY <1>0 DEF StartedInv, Started, Held
<1>2. BusyInv'
  BY <1>0 DEF SInv, BusyInv, BusyOK
<1> QED BY <1>1, <1>2, CallerStepS

LEMMA LoopsS ==
  ASSUME IInv, SInv, NEW l \in Loaders,
         \/ PruneDelete(l) \/ PruneEnd(l) \/ (\E n \in Names : SetOptionsSkip(l, n))
         \/ OptionsEnd(l) \/ LoadedEnd(l) \/ (\E n \in Names : Barrier(l, n))
  PROVE  SInv'
<1>0. /\ l \in Threads /\ pc \in [Threads -> PCs] /\ todo \in [Loaders -> SUBSET Names]
      /\ Loaders \subseteq Threads /\ jobs \subseteq Names
  BY DEF IInv, TypeOK, Threads
<1>1. ASSUME PruneDelete(l) PROVE SInv'
  <2>1. /\ pc[l] = "await" /\ pc'[l] = "prune" /\ UNCHANGED <<job, mu, cfg>> /\ jobs' \subseteq jobs
        /\ \A k \in Loaders \ {l} : pc'[k] = pc[k] /\ todo'[k] = todo[k]
    BY <1>0, <1>1 DEF PruneDelete
  <2>2. Given(l) = {}
    BY <2>1 DEF Given
  <2> QED BY <2>1, <2>2, LoopS DEF Held
<1>2. ASSUME PruneEnd(l) PROVE SInv'
  <2>1. /\ pc[l] = "prune" /\ pc'[l] = "options" /\ UNCHANGED <<job, mu, cfg, jobs>>
        /\ \A k \in Loaders \ {l} : pc'[k] = pc[k] /\ todo'[k] = todo[k]
    BY <1>0, <1>2 DEF PruneEnd
  <2>2. Given(l) = {}
    BY <2>1 DEF Given
  <2> QED BY <2>1, <2>2, LoopS DEF Held
<1>3. ASSUME NEW n \in Names, SetOptionsSkip(l, n) PROVE SInv'
  <2>1. /\ pc[l] = "options" /\ pc'[l] = "options" /\ UNCHANGED <<job, mu, cfg, jobs>>
        /\ \A k \in Loaders \ {l} : pc'[k] = pc[k] /\ todo'[k] = todo[k]
        /\ todo'[l] \subseteq todo[l]
    BY <1>0, <1>3 DEF SetOptionsSkip
  <2>2. Given(l) \subseteq Given(l)'
    BY <2>1 DEF Given
  <2> QED BY <2>1, <2>2, LoopS DEF Held
<1>4. ASSUME OptionsEnd(l) PROVE SInv'
  <2>1. /\ pc[l] = "options" /\ pc'[l] = "loaded" /\ UNCHANGED <<job, mu, cfg, jobs>>
        /\ \A k \in Loaders \ {l} : pc'[k] = pc[k] /\ todo'[k] = todo[k]
        /\ todo'[l] = jobs
    BY <1>0, <1>4 DEF OptionsEnd
  <2>2. Given(l) \subseteq Given(l)'
    BY <2>1 DEF Given
  <2>3. \A n \in Names \ jobs : Started(job[n])
    BY DEF IInv, RemovedJobIsGone, Started
  <2> QED BY <2>1, <2>2, <2>3, LoopS DEF Held
<1>5. ASSUME LoadedEnd(l) PROVE SInv'
  <2>1. /\ pc[l] = "loaded" /\ pc'[l] = "barrier" /\ UNCHANGED <<job, mu, cfg, jobs>>
        /\ \A k \in Loaders \ {l} : pc'[k] = pc[k] /\ todo'[k] = todo[k]
        /\ todo[l] = {}
    BY <1>0, <1>5 DEF LoadedEnd
  <2>2. Given(l) \subseteq Given(l)'
    BY <2>1 DEF Given
  <2>3. \A n \in Names : Started(job[n])
    BY <2>1 DEF SInv, StartedInv
  <2> QED BY <2>1, <2>2, <2>3, LoopS DEF Held
<1>6. ASSUME NEW n \in Names, Barrier(l, n) PROVE SInv'
  <2>1. /\ pc[l] = "barrier" /\ pc'[l] = "barrier" /\ UNCHANGED <<job, mu, cfg, jobs>>
        /\ \A k \in Loaders \ {l} : pc'[k] = pc[k] /\ todo'[k] = todo[k]
    BY <1>0, <1>6 DEF Barrier
  <2>2. Given(l) \subseteq Given(l)'
    BY <2>1 DEF Given
  <2>3. \A m \in Names : Started(job[m])
    BY <2>1 DEF SInv, StartedInv
  <2> QED BY <2>1, <2>2, <2>3, LoopS DEF Held
<1> QED BY <1>1, <1>2, <1>3, <1>4, <1>5, <1>6

\* The lock is released when no job is in the middle of an event.
LEMMA UnlockS ==
  ASSUME IInv, SInv, (\E l \in Loaders : LoadUnlock(l)) \/ (\E s \in Stoppers : StopEnd(s))
  PROVE  SInv'
<1>0. /\ UNCHANGED <<job, jobs, cfg, todo>> /\ mu' = None
      /\ \A k \in Loaders : pc'[k] = pc[k] \/ pc'[k] = "clear"
  BY ThreadsAssumption DEF IInv, TypeOK, Threads, LoadUnlock, StopEnd
<1>1. ASSUME NEW n \in Names
      PROVE  Started(job[n]) /\ job[n].st \notin {"load", "apply", "loaded"}
  <2>1. ASSUME NEW l \in Loaders, LoadUnlock(l)
        PROVE  Started(job[n]) /\ job[n].st \notin {"load", "apply", "loaded"}
    <3>1. pc[l] = "barrier" /\ todo[l] = {}
      BY <2>1 DEF LoadUnlock
    <3>2. Started(job[n]) /\ Calm(n)
      BY <3>1 DEF IInv, BarrierInv, SInv, StartedInv
    <3> QED BY <3>2 DEF IInv, JobInv, Calm
  <2>2. ASSUME NEW s \in Stoppers, StopEnd(s)
        PROVE  Started(job[n]) /\ job[n].st \notin {"load", "apply", "loaded"}
    <3>1. job[n].st \in {"none", "done"}
      BY <2>2 DEF StopEnd, IInv, RemovedJobIsGone
    <3> QED BY <3>1 DEF Started
  <2> QED BY <2>1, <2>2
<1>2. StartedInv'
  BY <1>0, <1>1 DEF StartedInv, Started
<1>3. BusyInv'
  BY <1>0, <1>1 DEF BusyInv, BusyOK
<1> QED BY <1>0, <1>2, <1>3, CallerStepS

LEMMA StopBeginS ==
  ASSUME IInv, SInv, NEW s \in Stoppers, StopBegin(s)
  PROVE  SInv'
<1>0. /\ UNCHANGED <<job, jobs, cfg, todo, mu>> /\ \A k \in Loaders : pc'[k] = pc[k]
  BY ThreadsAssumption DEF IInv, TypeOK, Threads, StopBegin
<1>1. StartedInv'
  BY <1>0 DEF SInv, StartedInv, Started
<1>2. \A k \in Loaders : Given(k)' = Given(k)
  BY <1>0 DEF Given
<1>3. BusyInv'
  BY <1>0, <1>2 DEF SInv, BusyInv, BusyOK
<1> QED BY <1>0, <1>1, <1>3, CallerStepS

\* Cancelling does not interrupt a job.
LEMMA CancelledFields ==
  ASSUME NEW r \in JobType, NEW R, R = [r EXCEPT !.cancelled = TRUE]
  PROVE  /\ R.st = r.st /\ R.server = r.server /\ R.port = r.port /\ R.down = r.down
         /\ R.opts = r.opts /\ R.arg = r.arg /\ R.from = r.from /\ R.why = r.why /\ R.seen = r.seen
BY DEF JobType

LEMMA StopCancelS ==
  ASSUME IInv, SInv, NEW s \in Stoppers, StopCancel(s)
  PROVE  SInv'
<1>0. /\ UNCHANGED <<jobs, cfg, todo>> /\ mu = None /\ mu' = s /\ s # None /\ s \notin Loaders
      /\ \A k \in Loaders : pc'[k] = pc[k] /\ pc[k] \notin Held
  BY ThreadsAssumption DEF IInv, TypeOK, LockInv, Threads, StopCancel
<1>1. ASSUME NEW n \in Names
      PROVE  /\ job'[n].st = job[n].st /\ job'[n].server = job[n].server
             /\ job'[n].port = job[n].port /\ job'[n].down = job[n].down
             /\ job'[n].opts = job[n].opts /\ job'[n].arg = job[n].arg
             /\ job'[n].why = job[n].why
  <2>1. job'[n] = job[n] \/ job'[n] = [job[n] EXCEPT !.cancelled = TRUE]
    BY DEF StopCancel
  <2> QED BY <2>1, JobTyped, CancelledFields
<1>2. \A n \in Names : job[n].st \notin {"load", "apply", "loaded"}
  BY <1>0, ThreadsAssumption DEF SInv, BusyInv, BusyOK
<1>3. ServerInv'
  BY <1>1 DEF SInv, ServerInv, ServerOK
<1>4. StartedInv'
  BY <1>0 DEF StartedInv, Held
<1>5. BusyInv'
  BY <1>1, <1>2 DEF BusyInv, BusyOK
<1>6. KindInv'
  BY <1>0 DEF SInv, KindInv
<1> QED BY <1>3, <1>4, <1>5, <1>6 DEF SInv

LEMMA PruneCancelS ==
  ASSUME IInv, SInv, NEW l \in Loaders, NEW n \in Names, PruneCancel(l, n)
  PROVE  SInv'
<1> DEFINE R == [job[n] EXCEPT !.cancelled = TRUE]
<1>0. /\ UNCHANGED <<jobs, cfg, todo, mu>> /\ pc[l] = "prune" /\ pc'[l] = "await"
      /\ mu = l /\ mu # None /\ \A k \in Loaders \ {l} : pc'[k] = pc[k] /\ pc[k] \notin Held
  BY Alone DEF IInv, TypeOK, Threads, PruneCancel, Held
<1>1. job' = [job EXCEPT ![n] = R]
  BY JobTyped DEF PruneCancel, JobType
<1>2. job'[n] = R /\ \A m \in Names \ {n} : job'[m] = job[m]
  BY <1>1, JobEffect
<1>3. \A m \in Names :
             /\ job'[m].st = job[m].st /\ job'[m].server = job[m].server
             /\ job'[m].port = job[m].port /\ job'[m].down = job[m].down
             /\ job'[m].opts = job[m].opts /\ job'[m].arg = job[m].arg
             /\ job'[m].from = job[m].from /\ job'[m].why = job[m].why
  BY <1>2, JobTyped, CancelledFields
<1>4. ServerInv'
  BY <1>3 DEF SInv, ServerInv, ServerOK
<1>5. StartedInv'
  BY <1>0 DEF StartedInv, Held
<1>6. BusyInv'
  <2>1. \A m \in Names : job[m].st \notin {"load", "apply", "loaded"}
    BY <1>0 DEF SInv, BusyInv, BusyOK, Given
  <2> QED BY <1>3, <2>1 DEF BusyInv, BusyOK
<1>7. KindInv'
  BY <1>0 DEF SInv, KindInv
<1> QED BY <1>4, <1>5, <1>6, <1>7 DEF SInv

LEMMA SetOptionsS ==
  ASSUME IInv, SInv, NEW l \in Loaders, NEW n \in Names, SetOptions(l, n)
  PROVE  SInv'
<1> DEFINE R == [NoJob EXCEPT !.st = "start"]
<1>0. /\ UNCHANGED <<cfg, todo, mu>> /\ pc[l] = "options" /\ pc'[l] = "send"
      /\ jobs' = jobs \cup {n} /\ Startable(n, cfg[l][n])
      /\ mu = l /\ mu # None /\ \A k \in Loaders \ {l} : pc'[k] = pc[k] /\ pc[k] \notin Held
  BY Alone DEF IInv, TypeOK, Threads, SetOptions, Held
<1>1. \A m \in Names : job'[m] = job[m] \/ (m = n /\ job'[m] = R)
  <2>1. job' = job \/ job' = [job EXCEPT ![n] = R]
    BY DEF SetOptions
  <2> QED BY <2>1, JobEffect
<1>2. R.st = "start" /\ ~R.server /\ R.port = None /\ ~R.down
  BY DEF NoJob
<1> HIDE DEF R
<1>3. ServerInv'
  BY <1>1, <1>2 DEF SInv, ServerInv, ServerOK
<1>4. StartedInv'
  BY <1>0 DEF StartedInv, Held
<1>5. BusyInv'
  <2>1. \A k \in Loaders : Given(k)' = Given(k)
    BY <1>0 DEF Given, Held
  <2>2. \A m \in Names : job[m].st # "loaded"
    BY <1>0 DEF SInv, BusyInv, BusyOK
  <2> QED BY <1>0, <1>1, <1>2, <2>1, <2>2 DEF SInv, BusyInv, BusyOK
<1>6. KindInv'
  BY <1>0 DEF SInv, KindInv, Startable
<1> QED BY <1>3, <1>4, <1>5, <1>6 DEF SInv

LEMMA SendLoadS ==
  ASSUME IInv, SInv, NEW l \in Loaders, SendLoad(l)
  PROVE  SInv'
<1> DEFINE n == cur[l]
           R == [job[n] EXCEPT !.st = "load", !.arg = cfg[l][n], !.from = l, !.seen = None]
<1>0. /\ UNCHANGED <<cfg, jobs, mu>> /\ pc[l] = "send" /\ pc'[l] = "options"
      /\ n \in jobs /\ n \in Names /\ n \in todo[l] /\ n \in DOMAIN cfg[l]
      /\ todo'[l] = todo[l] \ {n}
      /\ mu = l /\ mu # None
      /\ \A k \in Loaders \ {l} : pc'[k] = pc[k] /\ pc[k] \notin Held /\ todo'[k] = todo[k]
  BY Alone DEF IInv, TypeOK, LockInv, Threads, SendLoad, Held
<1>1. \A m \in Names : job'[m] = job[m] \/ (m = n /\ job'[m] = R)
  <2>1. job' = job \/ job' = [job EXCEPT ![n] = R]
    BY JobTyped, <1>0 DEF SendLoad
  <2> QED BY <1>0, <2>1, JobEffect
<1>2. /\ R.st = "load" /\ R.from = l /\ R.server = job[n].server /\ R.port = job[n].port
      /\ R.down = job[n].down /\ R.opts = job[n].opts
  BY <1>0, JobTyped DEF JobType
<1> HIDE DEF R
<1>3. ServerInv'
  BY <1>0, <1>1, <1>2 DEF SInv, ServerInv, ServerOK
<1>4. StartedInv'
  BY <1>0 DEF StartedInv, Held
<1>5. BusyInv'
  <2>1. Given(l)' = Given(l) \cup {n}
    BY <1>0 DEF Given
  <2>2. \A k \in Loaders \ {l} : Given(k)' = Given(k)
    BY <1>0 DEF Given, Held
  <2>3. \A m \in Names : job[m].st # "loaded"
    BY <1>0 DEF SInv, BusyInv, BusyOK
  <2> QED BY <1>0, <1>1, <1>2, <2>1, <2>2, <2>3 DEF SInv, BusyInv, BusyOK
<1>6. KindInv'
  BY <1>0 DEF SInv, KindInv
<1> QED BY <1>3, <1>4, <1>5, <1>6 DEF SInv

LEMMA SendLoadedS ==
  ASSUME IInv, SInv, NEW l \in Loaders, NEW n \in Names, SendLoaded(l, n)
  PROVE  SInv'
<1> DEFINE R == [job[n] EXCEPT !.st = "loaded"]
<1>0. /\ UNCHANGED <<cfg, jobs, mu, pc>> /\ pc[l] = "loaded" /\ todo'[l] = todo[l] \ {n}
      /\ mu = l /\ mu # None /\ \A k \in Loaders \ {l} : pc[k] \notin Held /\ todo'[k] = todo[k]
      /\ job[n].st \in {"idle", "done"}
  BY Alone DEF IInv, TypeOK, Threads, SendLoaded, Held
<1>1. R.st = "loaded" /\ R.server = job[n].server /\ R.port = job[n].port /\ R.down = job[n].down
      /\ R.opts = job[n].opts
  BY JobTyped DEF JobType
<1>2. job' = job \/ job' = [job EXCEPT ![n] = R]
  BY JobTyped DEF SendLoaded, JobType
<1>3. \A m \in Names : job'[m] = job[m] \/ (m = n /\ job'[m] = R)
  BY <1>2, JobEffect
<1>4. job[n].st = "idle" => job'[n] = R
  BY JobTyped, JobEffect DEF SendLoaded, JobType
<1> HIDE DEF R
<1>5. ServerInv'
  BY <1>1, <1>3 DEF SInv, ServerInv, ServerOK
<1>6. StartedInv'
  <2>1. Started(job'[n])
    BY <1>0, <1>1, <1>3, <1>4 DEF Started
  <2>2. \A m \in Names \ todo'[l] : Started(job'[m])
    BY <1>0, <1>3, <2>1 DEF SInv, StartedInv
  <2> QED BY <1>0, <2>2 DEF StartedInv, Started, Held
<1>7. BusyInv'
  <2>1. \A k \in Loaders : Given(k)' = Given(k)
    BY <1>0 DEF Given, Held
  <2> QED BY <1>0, <1>1, <1>3, <2>1 DEF SInv, BusyInv, BusyOK
<1>8. KindInv'
  BY <1>0 DEF SInv, KindInv
<1> QED BY <1>5, <1>6, <1>7, <1>8 DEF SInv

LEMMA InitSInv == Init => SInv
<1> SUFFICES ASSUME Init PROVE SInv
  OBVIOUS
<1>1. \A n \in Names : job[n] = NoJob
  BY DEF Init
<1>2. NoJob.st = "none" /\ ~NoJob.server /\ NoJob.port = None /\ ~NoJob.down
  BY DEF NoJob
<1>3. ServerInv /\ BusyInv
  BY <1>1, <1>2 DEF ServerInv, ServerOK, BusyInv, BusyOK
<1>4. StartedInv /\ KindInv
  BY <1>1, <1>2 DEF Init, StartedInv, Started, KindInv, Threads
<1> QED BY <1>3, <1>4 DEF SInv

LEMMA NextSInv == IInv /\ SInv /\ [Next]_vars => SInv'
<1> SUFFICES ASSUME IInv, SInv, [Next]_vars PROVE SInv'
  OBVIOUS
<1>1. ASSUME NEW l \in Loaders,
             (\E c \in Configs \cup {Malformed} : LoadBegin(l, c)) \/ LoaderStep(l)
      PROVE  SInv'
  BY <1>1, BeforeLoadS, LoadLockS, LoopsS, UnlockS, PruneCancelS, SetOptionsS, SendLoadS,
     SendLoadedS DEF LoaderStep
<1>2. ASSUME NEW s \in Stoppers, StopBegin(s) \/ StopperStep(s) PROVE SInv'
  BY <1>2, StopBeginS, StopCancelS, UnlockS DEF StopperStep
<1>3. ASSUME NEW n \in Names, JobStep(n) \/ ServerFails(n) PROVE SInv'
  BY <1>3, JobS
<1>4. ASSUME UNCHANGED vars \/ \E p \in Ports : LateServe(p) PROVE SInv'
  <2>1. UNCHANGED <<mu, jobs, job, pc, cfg, todo>>
    BY <1>4 DEF vars, LateServe
  <2>2. \A l : Given(l)' = Given(l)
    BY <2>1 DEF Given
  <2>3. ServerInv' /\ StartedInv' /\ KindInv'
    BY <2>1 DEF SInv, ServerInv, ServerOK, StartedInv, Started, KindInv
  <2>4. BusyInv'
    BY <2>1, <2>2 DEF SInv, BusyInv, BusyOK
  <2> QED BY <2>3, <2>4 DEF SInv
<1> QED BY <1>1, <1>2, <1>3, <1>4 DEF Next

LEMMA ServersInvariance == Spec => []SInv
BY InitSInv, NextSInv, Invariance, PTL DEF Spec

\* Whenever m.mu is free, a live job listens exactly to the address of its
\* options, however many loads and stops have raced: the LoadedEvents follow
\* every LoadEvent, and a server on an old address was stopped by the LoadEvent
\* that replaced it.
THEOREM ListensAsTold == Spec => []ListensWhereTold
<1>1. SInv => ListensWhereTold
  BY DEF SInv, ServerInv, ServerOK, StartedInv, Started, ListensWhereTold
<1> QED BY <1>1, ServersInvariance, PTL

-----------------------------------------------------------------------------
(***************************************************************************)
(* One loader, as in cmd/chrome: the file system it stores is there as     *)
(* long as jobs handle its options, so none returns for want of it, and a  *)
(* sound document that is loaded again leaves all its jobs serving.        *)
(***************************************************************************)

OneLoader == \A k, l \in Loaders : k = l

FsInv == \A l \in Loaders : pc[l] # "idle" => fsys = l

\* The loader loads the sound document that was loaded last.
Again(l) ==
    pc[l] \in Held /\ settled.op = "load" /\ settled.last = cfg[l] /\ Sound(cfg[l])

\* The jobs that were restarted if they had returned.
Revived(l) == Given(l) \cup {n \in Names : pc[l] = "send" /\ cur[l] = n}

Excused(r) == r.why \in {"down", "linger"}

\* Meanwhile a job listens to no address but its own, and returns for no other
\* reason than a failed http.Server or a listener nobody serves yet.
HealOK(l, n, r) ==
    /\ r.port # None => n \in jobs /\ r.port = cfg[l][n]
    /\ r.st \in {"exit", "stopped"} => Excused(r)
    /\ (n \in Revived(l) /\ r.st = "done" /\ Kind[n] \in {"stream", "http"}) => Excused(r)

HealInv ==
    \A l \in Loaders : Again(l) =>
        /\ jobs \subseteq DOMAIN cfg[l] /\ pc[l] # "await"
        /\ pc[l] = "prune" => todo[l] = {}
        /\ \A n \in Names : HealOK(l, n, job[n])

HInv == FsInv /\ HealInv /\ SecondLoadHeals

\* A job keeps serving, or its http.Server failed.
StillServes(r, R) ==
    \/ R.st = r.st /\ R.opts = r.opts /\ R.port = r.port /\ R.why = r.why /\ R.down = r.down
    \/ Excused(R) \/ R.down

LEMMA JobStepH ==
  ASSUME IInv, SInv, HInv, NEW n \in Names,
         UNCHANGED <<mu, fsys, jobs, pc, cfg, todo, cur, settled>>,
         \A m \in Names \ {n} : job'[m] = job[m],
         \A l \in Loaders : Again(l) => HealOK(l, n, job'[n]),
         mu = None => StillServes(job[n], job'[n])
  PROVE  HInv'
<1>1. FsInv'
  BY DEF HInv, FsInv
<1>3. HealInv'
  <2>1. \A l \in Loaders : Again(l)' = Again(l) /\ Revived(l)' = Revived(l)
    BY DEF Again, Revived, Given
  <2>2. ASSUME NEW l \in Loaders, Again(l), NEW m \in Names PROVE HealOK(l, m, job[m])'
    <3>1. HealOK(l, m, job'[m])
      BY <2>2 DEF HInv, HealInv
    <3> QED BY <2>1, <3>1 DEF HealOK
  <2>3. ASSUME NEW l \in Loaders, Again(l)
        PROVE  (jobs \subseteq DOMAIN cfg[l] /\ pc[l] # "await" /\ (pc[l] = "prune" => todo[l] = {}))'
    BY <2>3 DEF HInv, HealInv
  <2> QED BY <2>1, <2>2, <2>3 DEF HealInv
<1>4. SecondLoadHeals'
  <2>1. mu = None => \A m \in Names : StillServes(job[m], job'[m])
    BY DEF StillServes
  <2> SUFFICES ASSUME mu = None, settled.op = "load", settled.last = settled.before,
                      Sound(settled.last), NEW m \in DOMAIN settled.last,
                      Startable(m, settled.last[m])
               PROVE  Serving(m, settled.last[m])' \/ Excused(job'[m]) \/ job'[m].down
    BY DEF SecondLoadHeals, Excused
  <2>2. Serving(m, settled.last[m]) \/ Excused(job[m]) \/ job[m].down
    BY DEF HInv, SecondLoadHeals, Excused
  <2>3. m \in Names
    BY ConfigsAssumption DEF IInv, TypeOK, ConfigApplied
  <2>4. StillServes(job[m], job'[m])
    BY <2>1, <2>3
  <2> QED BY <2>2, <2>4 DEF StillServes, Serving, Excused
<1> QED BY <1>1, <1>3, <1>4 DEF HInv

\* A job of the document that is loaded again.
LEMMA AgainJob ==
  ASSUME IInv, SInv, HInv, NEW l \in Loaders, Again(l), NEW n \in jobs
  PROVE  /\ n \in DOMAIN cfg[l] /\ Kind[n] \in {"stream", "http"}
         /\ cfg[l][n] \in Ports \ Foreign /\ Startable(n, cfg[l][n])
         /\ \A m \in jobs : m # n => cfg[l][m] # cfg[l][n]
<1>1. \A m \in jobs : m \in DOMAIN cfg[l] /\ Kind[m] \in {"stream", "http"}
  BY DEF HInv, HealInv, SInv, KindInv
<1>2. Sound(cfg[l])
  BY DEF Again
<1>3. cfg[l][n] \in Ports \ Foreign
  BY <1>1, <1>2 DEF Sound
<1>4. Startable(n, cfg[l][n])
  BY <1>1, <1>3, PortsAssumption DEF Startable
<1>5. \A m \in jobs : m # n => cfg[l][m] # cfg[l][n]
  BY <1>1, <1>2 DEF Sound
<1> QED BY <1>1, <1>3, <1>4, <1>5

LEMMA HealsJob ==
  ASSUME IInv, SInv, HInv, NEW l \in Loaders, NEW n \in Names, Again(l)
  PROVE  HealOK(l, n, job[n])
BY DEF HInv, HealInv

LEMMA JobCancelledH ==
  ASSUME IInv, SInv, HInv, OneLoader, NEW n \in Names, JobCancelled(n)
  PROVE  HInv'
<1> DEFINE r == job[n]
           R == Returning(r, "cancel")
<1>0. r \in JobType /\ r.st = "idle" /\ r.cancelled /\ OnlyJob /\ job' = [job EXCEPT ![n] = R]
  BY JobTyped DEF JobCancelled
<1>1. job'[n] = R /\ \A m \in Names \ {n} : job'[m] = job[m]
  BY <1>0, JobEffect
<1>2. R.why = "cancel"
  BY <1>0, ReturningFields DEF Causes
<1> HIDE DEF R
<1>4. \/ \E l \in Loaders : pc[l] = "await" /\ mu = l
      \/ \E s \in Stoppers : pc[s] = "wait" /\ mu = s
  BY <1>0 DEF IInv, CancelInv, LockInv, Held, Threads
<1>5. mu # None
  BY <1>4, ThreadsAssumption
<1>6. ASSUME NEW l \in Loaders, Again(l) PROVE FALSE
  <2>1. pc[l] # "await" /\ mu = l
    BY <1>6, Alone DEF HInv, HealInv, Again, Threads
  <2> QED BY <1>4, <2>1, ThreadsAssumption DEF OneLoader
<1> QED BY <1>0, <1>1, <1>5, <1>6, JobStepH DEF OnlyJob

LEMMA JobServerDownH ==
  ASSUME IInv, SInv, HInv, NEW n \in Names, JobServerDown(n)
  PROVE  HInv'
<1> DEFINE r == job[n]
           R == Returning(r, "down")
<1>0. r \in JobType /\ OnlyJob /\ job' = [job EXCEPT ![n] = R]
  BY JobTyped DEF JobServerDown
<1>1. job'[n] = R /\ \A m \in Names \ {n} : job'[m] = job[m]
  BY <1>0, JobEffect
<1>2. R.why = "down" /\ R.port = r.port
  BY <1>0, ReturningFields DEF Causes
<1> HIDE DEF R
<1>4. \A l \in Loaders : Again(l) => HealOK(l, n, R)
  BY <1>2, HealsJob DEF HealOK, Excused
<1>5. StillServes(r, R)
  BY <1>2 DEF StillServes, Excused
<1> QED BY <1>0, <1>1, <1>4, <1>5, JobStepH DEF OnlyJob

\* A job that handles an event does so for the loader inside loadConfig.
LEMMA JobStartH ==
  ASSUME IInv, SInv, HInv, NEW n \in Names, JobStart(n)
  PROVE  HInv'
<1> DEFINE r == job[n]
           R == [r EXCEPT !.st = "idle"]
<1>0. r \in JobType /\ r.st = "start" /\ OnlyJob
  BY JobTyped DEF JobStart
<1>1. job' = [job EXCEPT ![n] = R]
  BY JobTyped DEF JobStart, JobType
<1>2. job'[n] = R /\ \A m \in Names \ {n} : job'[m] = job[m]
  BY <1>1, JobEffect
<1>3. R.st = "idle" /\ R.why = r.why /\ R.port = r.port
  BY <1>0 DEF JobType
<1> HIDE DEF R
<1>5. \A l \in Loaders : Again(l) => HealOK(l, n, R)
  BY <1>3, HealsJob DEF HealOK, Excused
<1>6. mu # None
  BY <1>0 DEF SInv, StartedInv, Started
<1> QED BY <1>0, <1>2, <1>5, <1>6, JobStepH DEF OnlyJob

LEMMA JobLoadH ==
  ASSUME IInv, SInv, HInv, OneLoader, NEW n \in Names, JobLoad(n)
  PROVE  HInv'
<1> DEFINE r == job[n]
<1>0. r \in JobType /\ r.st = "load" /\ OnlyJob /\ mu # None /\ n \in jobs
      /\ mu \in Loaders /\ n \in Given(mu)
  BY JobTyped, ThreadsAssumption DEF JobLoad, SInv, BusyInv, BusyOK, IInv, RemovedJobIsGone
<1>1. CASE r.arg = BadAddr
  <2> DEFINE R == Returning(r, "addr")
  <2>1. job' = [job EXCEPT ![n] = R]
    BY <1>1, JobTyped DEF JobLoad
  <2>2. job'[n] = R /\ \A m \in Names \ {n} : job'[m] = job[m]
    BY <2>1, JobEffect
  <2>3. R.why = "addr"
    BY <1>0, ReturningFields DEF Causes
  <2> HIDE DEF R
  <2>5. ASSUME NEW l \in Loaders, Again(l) PROVE FALSE
    <3>1. l = mu
      BY <1>0 DEF OneLoader
    <3>2. cfg[l][n] \in Ports /\ Startable(n, cfg[l][n])
      BY <1>0, <2>5, AgainJob
    <3>3. r.arg = cfg[l][n]
      BY <1>0, <3>1, <3>2 DEF IInv, GivenInv, Has
    <3> QED BY <1>1, <3>2, <3>3, PortsAssumption
  <2> QED BY <1>0, <2>2, <2>5, JobStepH DEF OnlyJob
<1>2. ASSUME NEW R, job' = [job EXCEPT ![n] = R], R.st = "apply", R.why = r.why,
             R.port \in {None, r.port}
      PROVE  HInv'
  <2>1. job'[n] = R /\ \A m \in Names \ {n} : job'[m] = job[m]
    BY <1>2, JobEffect
  <2>3. \A l \in Loaders : Again(l) => HealOK(l, n, R)
    BY <1>2, HealsJob DEF HealOK, Excused
  <2> QED BY <1>0, <2>1, <2>3, JobStepH DEF OnlyJob
<1>3. CASE r.arg # BadAddr /\ r.arg = r.opts
  <2> DEFINE R == [r EXCEPT !.st = "apply"]
  <2>1. job' = [job EXCEPT ![n] = R]
    BY <1>3, JobTyped DEF JobLoad
  <2>2. R.st = "apply" /\ R.why = r.why /\ R.port = r.port
    BY <1>0 DEF JobType
  <2> HIDE DEF R
  <2> QED BY <1>2, <2>1, <2>2
<1>4. CASE r.arg # BadAddr /\ r.arg # r.opts
  <2> DEFINE R == [StopServer(r) EXCEPT !.st = "apply"]
  <2>1. job' = [job EXCEPT ![n] = R]
    BY <1>4, JobTyped DEF JobLoad
  <2>2. R.st = "apply" /\ R.why = r.why /\ R.port = None
    BY <1>0 DEF JobType, StopServer
  <2> HIDE DEF R
  <2> QED BY <1>2, <2>1, <2>2
<1> QED BY <1>1, <1>3, <1>4

\* Open finds a file system: the one of the loader that sent the options.
LEMMA JobApplyH ==
  ASSUME IInv, SInv, HInv, NEW n \in Names, JobApply(n)
  PROVE  HInv'
<1> DEFINE r == job[n]
           s == IF Kind[n] = "http" THEN fsys ELSE None
           R == [r EXCEPT !.st = "idle", !.opts = r.arg, !.arg = None, !.seen = s]
<1>0. r \in JobType /\ r.st = "apply" /\ OnlyJob
      /\ r.from \in Loaders /\ mu = r.from /\ n \in Given(r.from)
  BY JobTyped DEF JobApply, SInv, BusyInv, BusyOK
<1>1. pc[r.from] # "idle" /\ mu # None
  BY <1>0, ThreadsAssumption DEF Given
<1>2. fsys = r.from /\ fsys # None
  BY <1>0, <1>1, ThreadsAssumption DEF HInv, FsInv
<1>3. job' = [job EXCEPT ![n] = R]
  BY <1>2, JobTyped DEF JobApply
<1>4. job'[n] = R /\ \A m \in Names \ {n} : job'[m] = job[m]
  BY <1>3, JobEffect
<1>5. s \in {None, r.from}
  BY <1>2
<1> HIDE DEF s
<1>6. R.st = "idle" /\ R.why = r.why /\ R.port = r.port
  BY <1>0 DEF JobType
<1> HIDE DEF R
<1>8. \A l \in Loaders : Again(l) => HealOK(l, n, R)
  BY <1>6, HealsJob DEF HealOK, Excused
<1> QED BY <1>0, <1>1, <1>4, <1>8, JobStepH DEF OnlyJob

\* The address of a job is free, or the document is not loaded again.
LEMMA JobLoadedH ==
  ASSUME IInv, SInv, HInv, OneLoader, NEW n \in Names, JobLoaded(n)
  PROVE  HInv'
<1> DEFINE r == job[n]
<1>0. r \in JobType /\ r.st = "loaded" /\ OnlyJob /\ mu # None /\ n \in jobs
      /\ mu \in Loaders /\ pc[mu] \in {"loaded", "barrier"}
  BY JobTyped, ThreadsAssumption DEF JobLoaded, SInv, BusyInv, BusyOK, IInv, RemovedJobIsGone
<1>1. ASSUME NEW l \in Loaders, Again(l)
      PROVE  r.opts = cfg[l][n] /\ r.opts # None /\ (~r.server => Unused(r.opts))
  <2>1. l = mu
    BY <1>0 DEF OneLoader
  <2>2. n \in DOMAIN cfg[l] /\ cfg[l][n] \in Ports \ Foreign /\ Startable(n, cfg[l][n])
    BY <1>0, <1>1, AgainJob
  <2>3. n \in Given(l)
    BY <1>0, <2>1, <2>2 DEF Given
  <2>4. r.opts = cfg[l][n]
    BY <1>0, <2>2, <2>3 DEF IInv, GivenInv, Has
  <2>5. r.opts # None
    BY <2>2, <2>4, PortsAssumption DEF Options
  <2>6. ASSUME ~r.server, NEW m \in Names PROVE job[m].port # r.opts
    <3>1. CASE m = n
      BY <2>5, <2>6, <3>1 DEF SInv, ServerInv, ServerOK
    <3>2. CASE m # n
      <4>1. job[m].port # None => m \in jobs /\ job[m].port = cfg[l][m]
        BY <1>1, HealsJob DEF HealOK, Excused
      <4>2. m \in jobs => cfg[l][m] # cfg[l][n]
        BY <1>0, <1>1, <3>2, AgainJob
      <4> QED BY <2>4, <2>5, <4>1, <4>2
    <3> QED BY <3>1, <3>2
  <2> QED BY <2>2, <2>4, <2>5, <2>6 DEF Unused
<1>2. ASSUME NEW R, job' = [job EXCEPT ![n] = R], R.st = "idle", R.why = r.why,
             R.port \in {r.opts, r.port}
      PROVE  HInv'
  <2>1. job'[n] = R /\ \A m \in Names \ {n} : job'[m] = job[m]
    BY <1>2, JobEffect
  <2>3. ASSUME NEW l \in Loaders, Again(l) PROVE HealOK(l, n, R)
    <3>1. HealOK(l, n, r) /\ r.opts = cfg[l][n]
      BY <1>1, <2>3, HealsJob
    <3> QED BY <1>0, <1>2, <3>1 DEF HealOK, Excused
  <2> QED BY <1>0, <2>1, <2>3, JobStepH DEF OnlyJob
<1>3. CASE r.server
  <2> DEFINE R == [r EXCEPT !.st = "idle"]
  <2>1. job' = [job EXCEPT ![n] = R]
    BY <1>3, JobTyped DEF JobLoaded
  <2>2. R.st = "idle" /\ R.why = r.why /\ R.port = r.port
    BY <1>0 DEF JobType
  <2> HIDE DEF R
  <2> QED BY <1>2, <2>1, <2>2
<1>4. CASE ~r.server /\ (r.opts = None \/ Free(r.opts))
  <2> DEFINE R == [r EXCEPT !.st = "idle", !.server = TRUE, !.port = r.opts]
  <2>1. job' = [job EXCEPT ![n] = R]
    BY <1>4, JobTyped DEF JobLoaded
  <2>2. R.st = "idle" /\ R.why = r.why /\ R.port = r.opts
    BY <1>0 DEF JobType
  <2> HIDE DEF R
  <2> QED BY <1>2, <2>1, <2>2
<1>5. CASE ~r.server /\ ~(r.opts = None \/ Free(r.opts))
  <2> DEFINE cause == IF Unused(r.opts) THEN "linger" ELSE "listen"
             R == Returning(r, cause)
  <2>1. job' = [job EXCEPT ![n] = R]
    BY <1>5, JobTyped DEF JobLoaded
  <2>2. job'[n] = R /\ \A m \in Names \ {n} : job'[m] = job[m]
    BY <2>1, JobEffect
  <2>3. R.why = cause /\ R.port = r.port
    BY <1>0, ReturningFields DEF Causes
  <2>4. Unused(r.opts) => R.why = "linger"
    BY <2>3
  <2> HIDE DEF R, cause
  <2>5. ASSUME NEW l \in Loaders, Again(l) PROVE HealOK(l, n, R)
    <3>1. HealOK(l, n, r) /\ R.why = "linger"
      BY <1>1, <1>5, <2>4, <2>5, HealsJob
    <3> QED BY <2>3, <3>1 DEF HealOK, Excused
  <2> QED BY <1>0, <2>2, <2>5, JobStepH DEF OnlyJob
<1> QED BY <1>3, <1>4, <1>5

LEMMA JobEndH ==
  ASSUME IInv, SInv, HInv, NEW n \in Names, JobStopServer(n) \/ JobDone(n) \/ ServerFails(n)
  PROVE  HInv'
<1> DEFINE r == job[n]
<1>0. r \in JobType /\ UNCHANGED <<mu, fsys, jobs, pc, cfg, todo, cur, settled>>
  BY JobTyped DEF JobStopServer, JobDone, ServerFails, OnlyJob
<1>1. ASSUME JobStopServer(n) PROVE HInv'
  <2> DEFINE R == [StopServer(r) EXCEPT !.st = "stopped"]
  <2>1. job' = [job EXCEPT ![n] = R] /\ r.st = "exit"
    BY <1>1, JobTyped DEF JobStopServer
  <2>2. job'[n] = R /\ \A m \in Names \ {n} : job'[m] = job[m]
    BY <2>1, JobEffect
  <2>3. R.st = "stopped" /\ R.why = r.why /\ R.port = None
    BY <1>0 DEF JobType, StopServer
  <2> HIDE DEF R
  <2>5. \A l \in Loaders : Again(l) => HealOK(l, n, R)
    BY <2>1, <2>3, HealsJob DEF HealOK, Excused
  <2>6. mu = None => StillServes(r, R)
    BY <2>1, <2>3 DEF StillServes, IInv, Quiescent, Excused
  <2> QED BY <1>0, <2>2, <2>5, <2>6, JobStepH
<1>2. ASSUME JobDone(n) PROVE HInv'
  <2> DEFINE R == [r EXCEPT !.st = "done", !.cancelled = TRUE]
  <2>1. job' = [job EXCEPT ![n] = R] /\ r.st = "stopped"
    BY <1>0, <1>2, JobTyped DEF JobDone, JobType
  <2>2. job'[n] = R /\ \A m \in Names \ {n} : job'[m] = job[m]
    BY <2>1, JobEffect
  <2>3. R.st = "done" /\ R.why = r.why /\ R.port = r.port
    BY <1>0 DEF JobType
  <2> HIDE DEF R
  <2>5. \A l \in Loaders : Again(l) => HealOK(l, n, R)
    BY <2>1, <2>3, HealsJob DEF HealOK, Excused
  <2>6. mu = None => StillServes(r, R)
    BY <2>1, <2>3 DEF StillServes, IInv, Quiescent, Excused
  <2> QED BY <1>0, <2>2, <2>5, <2>6, JobStepH
<1>3. ASSUME ServerFails(n) PROVE HInv'
  <2> DEFINE R == [r EXCEPT !.down = TRUE, !.port = None]
  <2>1. job' = [job EXCEPT ![n] = R]
    BY <1>0, <1>3, JobTyped DEF ServerFails, JobType
  <2>2. job'[n] = R /\ \A m \in Names \ {n} : job'[m] = job[m]
    BY <2>1, JobEffect
  <2>3. /\ R.st = r.st /\ R.why = r.why /\ R.port = None
        /\ R.down
    BY <1>0 DEF JobType
  <2> HIDE DEF R
  <2>5. \A l \in Loaders : Again(l) => HealOK(l, n, R)
    BY <2>3, HealsJob DEF HealOK, Excused
  <2>6. StillServes(r, R)
    BY <2>3 DEF StillServes, Excused
  <2> QED BY <1>0, <2>2, <2>5, <2>6, JobStepH
<1> QED BY <1>1, <1>2, <1>3

LEMMA JobH ==
  ASSUME IInv, SInv, HInv, OneLoader, NEW n \in Names, JobStep(n) \/ ServerFails(n)
  PROVE  HInv'
BY JobStartH, JobCancelledH, JobServerDownH, JobLoadH, JobApplyH, JobLoadedH, JobEndH DEF JobStep

\* The steps of a caller outside its critical section.
LEMMA OutsideH ==
  ASSUME IInv, SInv, HInv, OneLoader,
         \/ \E l \in Loaders : \/ \E c \in Configs \cup {Malformed} : LoadBegin(l, c)
                               \/ LoadReject(l) \/ LoadEnd(l)
         \/ \E s \in Stoppers : StopBegin(s)
  PROVE  HInv'
<1>0. /\ UNCHANGED <<job, mu, settled>>
      /\ \A k \in Loaders : /\ pc'[k] # "idle" => fsys' = k
                            /\ pc'[k] \in Held => UNCHANGED <<pc[k], cfg[k], todo[k], cur[k], jobs>>
  <2>1. ASSUME NEW l \in Loaders, NEW c \in Configs \cup {Malformed}, LoadBegin(l, c) PROVE <1>0!:
    BY <2>1 DEF LoadBegin, OneLoader, IInv, TypeOK, Threads, Held
  <2>2. ASSUME NEW l \in Loaders, LoadReject(l) PROVE <1>0!:
    BY <2>2 DEF LoadReject, OneLoader, IInv, TypeOK, Threads, Held, HInv, FsInv
  <2>3. ASSUME NEW l \in Loaders, LoadEnd(l) PROVE <1>0!:
    BY <2>3 DEF LoadEnd, OneLoader, IInv, TypeOK, Threads, Held
  <2>4. ASSUME NEW s \in Stoppers, StopBegin(s) PROVE <1>0!:
    BY <2>4, ThreadsAssumption DEF StopBegin, IInv, TypeOK, Threads, HInv, FsInv
  <2> QED BY <2>1, <2>2, <2>3, <2>4
<1>1. FsInv'
  BY <1>0 DEF FsInv
<1>3. HealInv'
  <2> SUFFICES ASSUME NEW l \in Loaders, Again(l)'
               PROVE  (/\ jobs \subseteq DOMAIN cfg[l] /\ pc[l] # "await"
                       /\ pc[l] = "prune" => todo[l] = {}
                       /\ \A n \in Names : HealOK(l, n, job[n]))'
    BY DEF HealInv
  <2>1. UNCHANGED <<pc[l], cfg[l], todo[l], cur[l], jobs>>
    BY <1>0 DEF Again
  <2>2. Again(l) /\ Revived(l)' = Revived(l)
    BY <1>0, <2>1 DEF Again, Revived, Given
  <2> QED BY <1>0, <2>1, <2>2 DEF HInv, HealInv, HealOK, Excused
<1>4. SecondLoadHeals'
  BY <1>0 DEF HInv, SecondLoadHeals, Serving
<1> QED BY <1>1, <1>3, <1>4 DEF HInv

\* A loader goes on inside its section.
LEMMA InsideH ==
  ASSUME IInv, SInv, HInv, OneLoader, NEW l \in Loaders, pc[l] # "idle", mu' = l,
         UNCHANGED <<fsys, cfg, settled>>,
         Again(l)' => /\ jobs' \subseteq DOMAIN cfg[l] /\ pc'[l] # "await"
                      /\ pc'[l] = "prune" => todo'[l] = {}
                      /\ \A n \in Names : HealOK(l, n, job[n])'
  PROVE  HInv'
<1>1. FsInv'
  BY DEF HInv, FsInv, OneLoader
<1>3. HealInv'
  BY DEF HealInv, OneLoader
<1>4. SecondLoadHeals'
  BY ThreadsAssumption DEF SecondLoadHeals
<1> QED BY <1>1, <1>3, <1>4 DEF HInv

\* With the lock free, after a load of a sound document, the ports are the ones
\* of the document, and a job on its way out has lost its http.Server.
LEMMA SettledPorts ==
  ASSUME IInv, SInv, mu = None, settled.op = "load", Sound(settled.last), NEW n \in Names
  PROVE  /\ job[n].port # None => n \in jobs /\ job[n].port = settled.last[n]
         /\ job[n].st \in {"exit", "stopped"} => job[n].why = "down"
<1>1. job[n].st \in {"none", "idle", "done"} \/ job[n].why = "down"
  BY DEF IInv, Quiescent
<1>2. ASSUME job[n].port # None PROVE n \in jobs /\ job[n].port = settled.last[n]
  <2>1. n \in jobs
    BY <1>2 DEF IInv, RemovedJobIsGone
  <2>2. n \in DOMAIN settled.last
    BY <2>1 DEF IInv, ConfigApplied
  <2>3. Startable(n, settled.last[n])
    BY <2>1, <2>2, PortsAssumption DEF SInv, KindInv, Sound, Startable
  <2>4. ServerOK(job[n]) /\ Started(job[n])
    BY DEF SInv, ServerInv, StartedInv
  <2>5. job[n].st = "idle"
    BY <1>1, <1>2, <2>4 DEF IInv, JobInv, ServerOK
  <2>6. job[n].port = job[n].opts
    BY <1>2, <2>4, <2>5 DEF ServerOK, Started
  <2>7. job[n].opts = settled.last[n]
    BY <2>2, <2>3, <2>5 DEF IInv, ConfigApplied
  <2> QED BY <2>1, <2>6, <2>7
<1> QED BY <1>1, <1>2

\* Loading the same sound document again starts with its jobs in place.
LEMMA LoadLockH ==
  ASSUME IInv, SInv, HInv, OneLoader, NEW l \in Loaders, LoadLock(l)
  PROVE  HInv'
<1>0. /\ UNCHANGED <<fsys, jobs, job, cfg, settled>> /\ mu = None /\ mu' = l
      /\ pc[l] = "lock" /\ pc'[l] = "prune" /\ todo'[l] = jobs \ DOMAIN cfg[l]
  BY DEF LoadLock, IInv, TypeOK, Threads
<1>2. ASSUME Again(l)'
      PROVE  /\ jobs' \subseteq DOMAIN cfg[l] /\ pc'[l] # "await"
             /\ pc'[l] = "prune" => todo'[l] = {}
             /\ \A n \in Names : HealOK(l, n, job[n])'
  <2>1. settled.op = "load" /\ settled.last = cfg[l] /\ Sound(settled.last)
    BY <1>0, <1>2 DEF Again, Sound
  <2>2. jobs \subseteq DOMAIN cfg[l]
    BY <1>0, <2>1 DEF IInv, ConfigApplied
  <2>3. Revived(l)' = {}
    BY <1>0 DEF Revived, Given
  <2>4. \A n \in Names : HealOK(l, n, job[n])'
    BY <1>0, <2>1, <2>3, SettledPorts DEF HealOK, Excused
  <2> QED BY <1>0, <2>2, <2>4
<1> QED BY <1>0, <1>2, InsideH

\* Nothing is pruned: the document names every job there is.
LEMMA PruneH ==
  ASSUME IInv, SInv, HInv, OneLoader, NEW l \in Loaders,
         \/ \E n \in Names : PruneCancel(l, n)
         \/ PruneDelete(l) \/ PruneEnd(l)
  PROVE  HInv'
<1>1. ASSUME NEW n \in Names, PruneCancel(l, n) PROVE HInv'
  <2> DEFINE R == [job[n] EXCEPT !.cancelled = TRUE]
  <2>0. /\ UNCHANGED <<fsys, cfg, settled, mu>> /\ mu = l /\ pc[l] = "prune" /\ n \in todo[l]
    BY <1>1, Alone DEF PruneCancel, Threads, Held
  <2>1. job' = [job EXCEPT ![n] = R]
    BY <1>1, JobTyped DEF PruneCancel, JobType
  <2>3. ~Again(l)'
    <3>1. ~Again(l)
      BY <2>0 DEF HInv, HealInv
    <3> QED BY <2>0, <3>1 DEF Again, Held, Sound
  <2> QED BY <2>0, <2>3, InsideH
<1>2. ASSUME PruneDelete(l) PROVE HInv'
  <2>0. UNCHANGED <<fsys, cfg, settled, mu, job>> /\ mu = l /\ pc[l] = "await"
    BY <1>2, Alone DEF PruneDelete, Threads, Held
  <2>2. ~Again(l)'
    <3>1. ~Again(l)
      BY <2>0 DEF HInv, HealInv
    <3> QED BY <2>0, <3>1 DEF Again, Held, Sound
  <2> QED BY <2>0, <2>2, InsideH
<1>3. ASSUME PruneEnd(l) PROVE HInv'
  <2>0. /\ UNCHANGED <<fsys, cfg, settled, mu, job, jobs>> /\ mu = l
        /\ pc[l] = "prune" /\ pc'[l] = "options" /\ todo'[l] = DOMAIN cfg[l]
    BY <1>3, Alone DEF PruneEnd, Threads, Held, IInv, TypeOK
  <2>2. ASSUME Again(l)'
        PROVE  /\ jobs' \subseteq DOMAIN cfg[l] /\ pc'[l] # "await"
               /\ pc'[l] = "prune" => todo'[l] = {}
               /\ \A n \in Names : HealOK(l, n, job[n])'
    <3>1. Again(l)
      BY <2>0, <2>2 DEF Again, Held, Sound
    <3>2. Revived(l)' = {}
      BY <2>0 DEF Revived, Given
    <3>3. \A n \in Names : HealOK(l, n, job[n])'
      BY <2>0, <3>1, <3>2, HealsJob DEF HealOK, Excused
    <3> QED BY <2>0, <3>1, <3>3 DEF HInv, HealInv
  <2> QED BY <2>0, <2>2, InsideH
<1> QED BY <1>1, <1>2, <1>3

\* The options of a sound document are refused only for a name that is not of
\* a service.
LEMMA SetOptionsSkipH ==
  ASSUME IInv, SInv, HInv, OneLoader, NEW l \in Loaders, NEW n \in Names, SetOptionsSkip(l, n)
  PROVE  HInv'
<1>0. /\ UNCHANGED <<fsys, cfg, settled, mu, job, jobs>> /\ mu = l
      /\ pc[l] = "options" /\ pc'[l] = "options" /\ n \in todo[l]
      /\ todo'[l] = todo[l] \ {n} /\ ~Startable(n, cfg[l][n]) /\ n \in DOMAIN cfg[l]
  BY Alone DEF SetOptionsSkip, Threads, Held, IInv, TypeOK, LockInv
<1>2. ASSUME Again(l)'
      PROVE  /\ jobs' \subseteq DOMAIN cfg[l] /\ pc'[l] # "await"
             /\ pc'[l] = "prune" => todo'[l] = {}
             /\ \A m \in Names : HealOK(l, m, job[m])'
  <2>1. Again(l)
    BY <1>0, <1>2 DEF Again, Held, Sound
  <2>2. Revived(l)' = Revived(l) \cup {n}
    BY <1>0 DEF Revived, Given
  <2>3. Kind[n] \notin {"stream", "http"}
    BY <1>0, <2>1, PortsAssumption DEF Again, Sound, Startable
  <2>4. \A m \in Names : HealOK(l, m, job[m])'
    BY <1>0, <2>1, <2>2, <2>3, HealsJob DEF HealOK, Excused
  <2> QED BY <1>0, <2>1, <2>4 DEF HInv, HealInv
<1> QED BY <1>0, <1>2, InsideH

\* A job that had returned is started again.
LEMMA SetOptionsH ==
  ASSUME IInv, SInv, HInv, OneLoader, NEW l \in Loaders, NEW n \in Names, SetOptions(l, n)
  PROVE  HInv'
<1> DEFINE R == [NoJob EXCEPT !.st = "start"]
<1>0. /\ UNCHANGED <<fsys, cfg, settled, mu, todo>> /\ mu = l
      /\ pc[l] = "options" /\ pc'[l] = "send" /\ n \in todo[l] /\ cur'[l] = n
      /\ jobs' = jobs \cup {n} /\ n \in DOMAIN cfg[l]
  BY Alone DEF SetOptions, Threads, Held, IInv, TypeOK, LockInv
<1>1. /\ \A m \in Names : job'[m] = job[m] \/ (m = n /\ job'[m] = R)
      /\ job'[n] = R \/ job[n].st # "done"
  <2>1. (job' = job /\ job[n].st # "done") \/ job' = [job EXCEPT ![n] = R]
    BY DEF SetOptions
  <2> QED BY <2>1, JobEffect
<1>2. R.st = "start" /\ R.port = None /\ R.why = "none"
  BY DEF NoJob
<1> HIDE DEF R
<1>4. ASSUME Again(l)'
      PROVE  /\ jobs' \subseteq DOMAIN cfg[l] /\ pc'[l] # "await"
             /\ pc'[l] = "prune" => todo'[l] = {}
             /\ \A m \in Names : HealOK(l, m, job[m])'
  <2>1. Again(l)
    BY <1>0, <1>4 DEF Again, Held, Sound
  <2>2. Revived(l)' = Revived(l) \cup {n}
    BY <1>0 DEF Revived, Given
  <2>3. \A m \in Names : HealOK(l, m, job[m])'
    BY <1>0, <1>1, <1>2, <2>1, <2>2, HealsJob DEF HealOK, Excused
  <2> QED BY <1>0, <2>1, <2>3 DEF HInv, HealInv
<1> QED BY <1>0, <1>4, InsideH

\* It is handed its options.
LEMMA SendLoadH ==
  ASSUME IInv, SInv, HInv, OneLoader, NEW l \in Loaders, SendLoad(l)
  PROVE  HInv'
<1> DEFINE n == cur[l]
           R == [job[n] EXCEPT !.st = "load", !.arg = cfg[l][n], !.from = l, !.seen = None]
<1>0. /\ UNCHANGED <<fsys, cfg, settled, mu, jobs>> /\ mu = l
      /\ pc[l] = "send" /\ pc'[l] = "options" /\ n \in Names /\ n \in DOMAIN cfg[l]
      /\ todo'[l] = todo[l] \ {n}
  BY Alone DEF SendLoad, Threads, Held, IInv, TypeOK, LockInv
<1>1. \A m \in Names : job'[m] = job[m] \/ (m = n /\ job'[m] = R)
  <2>1. job' = job \/ job' = [job EXCEPT ![n] = R]
    BY JobTyped, <1>0 DEF SendLoad
  <2> QED BY <1>0, <2>1, JobEffect
<1>2. R.st = "load" /\ R.port = job[n].port /\ R.why = job[n].why
  BY <1>0, JobTyped DEF JobType
<1> HIDE DEF R
<1>4. ASSUME Again(l)'
      PROVE  /\ jobs' \subseteq DOMAIN cfg[l] /\ pc'[l] # "await"
             /\ pc'[l] = "prune" => todo'[l] = {}
             /\ \A m \in Names : HealOK(l, m, job[m])'
  <2>1. Again(l)
    BY <1>0, <1>4 DEF Again, Held, Sound
  <2>2. Revived(l)' \subseteq Revived(l)
    BY <1>0 DEF Revived, Given
  <2>3. \A m \in Names : HealOK(l, m, job[m])'
    BY <1>0, <1>1, <1>2, <2>1, <2>2, HealsJob DEF HealOK, Excused
  <2> QED BY <1>0, <2>1, <2>3 DEF HInv, HealInv
<1> QED BY <1>0, <1>4, InsideH

\* The loops that send the LoadedEvents and the nil events.
LEMMA LoopsH ==
  ASSUME IInv, SInv, HInv, OneLoader, NEW l \in Loaders,
         \/ OptionsEnd(l) \/ LoadedEnd(l)
         \/ \E n \in Names : SendLoaded(l, n) \/ Barrier(l, n)
  PROVE  HInv'
<1>0. /\ UNCHANGED <<fsys, cfg, settled, mu, jobs, cur>> /\ mu = l
      /\ pc[l] \in {"options", "loaded", "barrier"} /\ pc'[l] \in {"loaded", "barrier"}
      /\ pc[l] = "options" => todo[l] = {}
  BY Alone DEF OptionsEnd, SendLoaded, LoadedEnd, Barrier, Threads, Held, IInv, TypeOK
<1>1. \A m \in Names : \/ job'[m] = job[m]
                       \/ job[m].st = "idle" /\ job'[m] = [job[m] EXCEPT !.st = "loaded"]
  <2>1. ASSUME NEW n \in Names, SendLoaded(l, n) PROVE <1>1!:
    <3>1. job' = job \/ (job[n].st = "idle" /\ job' = [job EXCEPT ![n] = [job[n] EXCEPT !.st = "loaded"]])
      BY <2>1, JobTyped DEF SendLoaded, JobType
    <3> QED BY <3>1, JobEffect
  <2> QED BY <2>1 DEF OptionsEnd, LoadedEnd, Barrier
<1>2. \A m \in Names : /\ job'[m].st = job[m].st \/ job'[m].st = "loaded"
                       /\ job'[m].port = job[m].port /\ job'[m].why = job[m].why
  BY <1>1, JobTyped DEF JobType
<1>4. ASSUME Again(l)'
      PROVE  /\ jobs' \subseteq DOMAIN cfg[l] /\ pc'[l] # "await"
             /\ pc'[l] = "prune" => todo'[l] = {}
             /\ \A m \in Names : HealOK(l, m, job[m])'
  <2>1. Again(l)
    BY <1>0, <1>4 DEF Again, Held, Sound
  <2>2. Revived(l)' = Revived(l)
    BY <1>0 DEF Revived, Given
  <2>3. \A m \in Names : HealOK(l, m, job[m])'
    BY <1>0, <1>2, <2>1, <2>2, HealsJob DEF HealOK, Excused
  <2> QED BY <1>0, <2>1, <2>3 DEF HInv, HealInv
<1> QED BY <1>0, <1>4, InsideH

\* The second load of a sound document ends with every job of it serving.
LEMMA LoadUnlockH ==
  ASSUME IInv, SInv, HInv, OneLoader, NEW l \in Loaders, LoadUnlock(l)
  PROVE  HInv'
<1>0. /\ UNCHANGED <<fsys, cfg, job, jobs, todo>> /\ mu = l /\ pc[l] = "barrier"
      /\ pc'[l] = "clear" /\ todo[l] = {} /\ cfg[l] # Malformed
      /\ settled'.last = cfg[l]
      /\ settled'.before = IF settled.op = "load" THEN settled.last ELSE Malformed
  BY Alone DEF LoadUnlock, Threads, Held, IInv, TypeOK, LockInv
<1>1. FsInv'
  BY <1>0 DEF HInv, FsInv, OneLoader
<1>3. HealInv'
  BY <1>0 DEF HealInv, Again, Held, OneLoader
<1>4. SecondLoadHeals'
  <2> SUFFICES ASSUME settled'.last = settled'.before, Sound(cfg[l]),
                      NEW n \in DOMAIN cfg[l], Startable(n, cfg[l][n])
               PROVE  Serving(n, cfg[l][n]) \/ Excused(job[n]) \/ job[n].down
    BY <1>0 DEF SecondLoadHeals, Serving, Sound, Startable, Excused
  <2>1. Again(l)
    BY <1>0 DEF Again, Held
  <2>2. n \in Names
    BY <1>0, ConfigsAssumption DEF IInv, TypeOK
  <2>3. n \in Given(l) /\ n \in Revived(l)
    BY <1>0 DEF Given, Revived
  <2>4. Has(n, cfg[l][n]) /\ Calm(n)
    BY <1>0, <2>2, <2>3 DEF IInv, GivenInv, BarrierInv
  <2>5. Started(job[n]) /\ ServerOK(job[n])
    BY <1>0, <2>2 DEF SInv, StartedInv, ServerInv
  <2>6. CASE job[n].st = "idle"
    BY <2>4, <2>5, <2>6 DEF Has, Started, ServerOK, Serving
  <2>7. CASE job[n].st = "done"
    BY <2>1, <2>2, <2>3, <2>7, HealsJob DEF HealOK, Startable, Excused
  <2> QED BY <2>4, <2>6, <2>7 DEF Has, Calm, Excused
<1> QED BY <1>1, <1>3, <1>4 DEF HInv

\* StopJobs, while no loader is inside its section.
LEMMA StopH ==
  ASSUME IInv, SInv, HInv, NEW s \in Stoppers, StopCancel(s) \/ StopEnd(s)
  PROVE  HInv'
<1>0. /\ UNCHANGED <<fsys, cfg>>
      /\ mu' # None \/ settled'.op = "stop"
      /\ \A k \in Loaders : pc'[k] = pc[k] /\ pc[k] \notin Held
  <2>1. CASE StopCancel(s)
    BY <2>1, ThreadsAssumption DEF StopCancel, Threads, IInv, TypeOK, LockInv
  <2>2. CASE StopEnd(s)
    BY <2>2, ThreadsAssumption, Alone DEF StopEnd, Threads, Held, IInv, TypeOK
  <2> QED BY <2>1, <2>2
<1>1. FsInv'
  BY <1>0 DEF HInv, FsInv
<1>3. HealInv'
  BY <1>0 DEF HealInv, Again
<1>4. SecondLoadHeals'
  BY <1>0 DEF SecondLoadHeals
<1> QED BY <1>1, <1>3, <1>4 DEF HInv

LEMMA InitHInv == Init => HInv
<1> SUFFICES ASSUME Init PROVE HInv
  OBVIOUS
<1>1. FsInv /\ HealInv
  BY DEF Init, FsInv, HealInv, Again, Threads, Held
<1>4. SecondLoadHeals
  BY DEF Init, SecondLoadHeals
<1> QED BY <1>1, <1>4 DEF HInv

LEMMA NextHInv ==
  ASSUME OneLoader
  PROVE  IInv /\ SInv /\ HInv /\ [Next]_vars => HInv'
<1> SUFFICES ASSUME IInv, SInv, HInv, [Next]_vars PROVE HInv'
  OBVIOUS
<1>1. ASSUME NEW l \in Loaders,
             (\E c \in Configs \cup {Malformed} : LoadBegin(l, c)) \/ LoaderStep(l)
      PROVE  HInv'
  BY <1>1, OutsideH, LoadLockH, PruneH, SetOptionsSkipH, SetOptionsH, SendLoadH, LoopsH,
     LoadUnlockH DEF LoaderStep
<1>2. ASSUME NEW s \in Stoppers, StopBegin(s) \/ StopperStep(s) PROVE HInv'
  BY <1>2, OutsideH, StopH DEF StopperStep
<1>3. ASSUME NEW n \in Names, JobStep(n) \/ ServerFails(n) PROVE HInv'
  BY <1>3, JobH
<1>4. ASSUME UNCHANGED vars \/ \E p \in Ports : LateServe(p) PROVE HInv'
  <2>1. UNCHANGED <<mu, fsys, jobs, job, pc, cfg, todo, cur, settled>>
    BY <1>4 DEF vars, LateServe
  <2>2. \A l \in Loaders : Again(l)' = Again(l) /\ Revived(l)' = Revived(l)
    BY <2>1 DEF Again, Revived, Given
  <2>3. HealInv'
    BY <2>1, <2>2 DEF HInv, HealInv, HealOK, Excused
  <2> QED BY <2>1, <2>3 DEF HInv, FsInv, SecondLoadHeals, Serving
<1> QED BY <1>1, <1>2, <1>3, <1>4 DEF Next

LEMMA LoaderInvariance ==
  ASSUME OneLoader
  PROVE  Spec => []HInv
<1>1. Init => HInv
  BY InitHInv
<1>2. IInv /\ SInv /\ HInv /\ [Next]_vars => HInv'
  BY NextHInv
<1> QED BY <1>1, <1>2, Invariance, ServersInvariance, PTL DEF Spec

\* With one loader, the second load in a row of a document whose addresses can
\* all be listened to leaves every job of it serving, whatever ports the jobs
\* had taken from one another before the first, unless an http.Server failed
\* or one that was shut down before it served still holds its listener.
THEOREM SecondLoadAlwaysHeals ==
  ASSUME OneLoader
  PROVE  Spec => []SecondLoadHeals
<1>1. HInv => SecondLoadHeals
  BY DEF HInv
<1> QED BY <1>1, LoaderInvariance, PTL

=============================================================================
