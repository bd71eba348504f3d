------------------------------ MODULE Manager ------------------------------
(***************************************************************************)
(* The Manager of service.go and the jobs it runs.                         *)
(*                                                                         *)
(* A loader is a goroutine inside Load, LoadFile or LoadFS; a stopper is a *)
(* goroutine inside StopJobs (which Shutdown starts with). Both take m.mu. *)
(* A job is a goroutine inside Service.Run: every service of the           *)
(* repository runs the same event loop around one listener (tcptun.go is   *)
(* the plainest), and the services built on net/http also watch a          *)
(* serverDown channel and open files through Manager.Open.                 *)
(*                                                                         *)
(* At most one incarnation of a job name runs at a time, because a job is  *)
(* deleted or replaced only after its Done channel is closed, so the state *)
(* of a job is indexed by its name.                                        *)
(***************************************************************************)
EXTENDS Naturals, FiniteSets

CONSTANTS
    Loaders,       \* goroutines that call Load
    Stoppers,      \* goroutines that call StopJobs
    Names,         \* job names a configuration may contain
    Kind,          \* Kind[n]: the service findServiceName/Service find for n
    Ports,         \* addresses a job may listen to
    Foreign,       \* the ports held by other processes
    Configs,       \* documents that decode, as functions from names to options
    Malformed,     \* a document the decoder rejects
    BadAddr,       \* options whose ListenAddr net.SplitHostPort rejects
    Undecodable,   \* options the strict decoder of setOptions rejects
    None,          \* nil: no port, no goroutine, no file system
    MaxLoads,      \* bound: calls of Load by one loader
    MaxStops,      \* bound: calls of StopJobs by one stopper
    MaxFaults      \* bound: failures of a running http.Server

Options == Ports \cup {BadAddr, Undecodable}
Kinds == {"unknown", "dummy", "stream", "http"}

ASSUME ConfigsAssumption ==
    \A c \in Configs : /\ DOMAIN c \subseteq Names
                       /\ \A n \in DOMAIN c : c[n] \in Options
ASSUME MalformedAssumption == Malformed \notin Configs
ASSUME KindAssumption == Kind \in [Names -> Kinds]
ASSUME PortsAssumption ==
    /\ Foreign \subseteq Ports
    /\ BadAddr \notin Ports
    /\ Undecodable \notin Ports \cup {BadAddr}
    /\ None \notin Options
ASSUME ThreadsAssumption ==
    /\ Loaders \cap Stoppers = {}
    /\ None \notin Loaders \cup Stoppers
ASSUME BoundsAssumption == MaxLoads \in Nat /\ MaxStops \in Nat /\ MaxFaults \in Nat

VARIABLES
    mu,       \* m.mu: the goroutine that holds it, or None
    fsys,     \* m.fsys: the loader whose file system is stored, or None
    jobs,     \* the keys of m.jobs
    job,      \* the state of each job's goroutine
    pc,       \* where each loader and stopper is
    cfg,      \* the document each loader is loading
    todo,     \* the names the current range loop of a loader has not visited
    cur,      \* the name the current iteration is about
    calls,    \* how many calls each loader or stopper has started
    faults,   \* how many http.Servers have failed
    lingering,\* ports of the http.Servers shut down before they served
    settled   \* history: the critical sections that completed last

vars == <<mu, fsys, jobs, job, pc, cfg, todo, cur, calls, faults, lingering, settled>>

Threads == Loaders \cup Stoppers

JobStates == {"none",      \* no goroutine was started under this name
              "start",     \* StartService's goroutine has yet to reach the loop
              "idle",      \* at the select of the event loop
              "load",      \* received a LoadEvent
              "apply",     \* validated the options, has yet to store them
              "loaded",    \* received a LoadedEvent
              "exit",      \* Run is returning, stopServer has not run yet
              "stopped",   \* stopServer has run, done() has not
              "done"}      \* done() was called: Job.Done() is closed
Causes == {"none", "addr", "open", "listen", "linger", "down", "cancel"}

JobType == [st : JobStates,
            opts : Ports \cup {None},       \* what <-optsOut yields
            arg : Options \cup {None},      \* the LoadEvent being handled
            from : Loaders \cup {None},     \* who sent it
            seen : Loaders \cup {None},     \* what Open used when handling it
            port : Ports \cup {None},       \* the port server listens to
            server : BOOLEAN,               \* server # nil
            cancelled : BOOLEAN,            \* ctx.Done() is closed
            down : BOOLEAN,                 \* serverDown is closed
            why : Causes]                   \* history: why Run returned

PCs == {"idle", "lock", "prune", "await", "options", "send", "loaded",
        "barrier", "clear", "stop", "wait"}

NoJob == [st |-> "none", opts |-> None, arg |-> None, from |-> None,
          seen |-> None, port |-> None, server |-> FALSE,
          cancelled |-> FALSE, down |-> FALSE, why |-> "none"]

Init ==
    /\ mu = None
    /\ fsys = None
    /\ jobs = {}
    /\ job = [n \in Names |-> NoJob]
    /\ pc = [t \in Threads |-> "idle"]
    /\ cfg = [l \in Loaders |-> Malformed]
    /\ todo = [l \in Loaders |-> {}]
    /\ cur = [l \in Loaders |-> None]
    /\ calls = [t \in Threads |-> 0]
    /\ faults = 0
    /\ lingering = {}
    /\ settled = [op |-> "none", last |-> Malformed, before |-> Malformed]

-----------------------------------------------------------------------------
(***************************************************************************)
(* Loading a document: load, loadConfig and setOptions.                    *)
(***************************************************************************)

\* load stores the file system before loadConfig takes the lock.
LoadBegin(l, c) ==
    /\ pc[l] = "idle"
    /\ calls[l] < MaxLoads
    /\ calls' = [calls EXCEPT ![l] = @ + 1]
    /\ fsys' = l
    /\ cfg' = [cfg EXCEPT ![l] = c]
    /\ pc' = [pc EXCEPT ![l] = "lock"]
    /\ UNCHANGED <<mu, jobs, job, todo, cur, faults, lingering, settled>>

\* A document that does not decode is an early return: nothing has changed.
LoadReject(l) ==
    /\ pc[l] = "lock"
    /\ mu = None
    /\ cfg[l] = Malformed
    /\ pc' = [pc EXCEPT ![l] = "clear"]
    /\ UNCHANGED <<mu, fsys, jobs, job, cfg, todo, cur, calls, faults, lingering, settled>>

LoadLock(l) ==
    /\ pc[l] = "lock"
    /\ mu = None
    /\ cfg[l] # Malformed
    /\ mu' = l
    /\ pc' = [pc EXCEPT ![l] = "prune"]
    /\ todo' = [todo EXCEPT ![l] = jobs \ DOMAIN cfg[l]]
    /\ UNCHANGED <<fsys, jobs, job, cfg, cur, calls, faults, lingering, settled>>

\* job.Cancel() for a job the document no longer names ...
PruneCancel(l, n) ==
    /\ pc[l] = "prune"
    /\ n \in todo[l]
    /\ job' = [job EXCEPT ![n].cancelled = TRUE]
    /\ cur' = [cur EXCEPT ![l] = n]
    /\ pc' = [pc EXCEPT ![l] = "await"]
    /\ UNCHANGED <<mu, fsys, jobs, cfg, todo, calls, faults, lingering, settled>>

\* ... then <-job.Done() and the deletion from the map.
PruneDeleteAtOnce(l) ==   \* mutant: deletes without waiting for Done
    /\ pc[l] = "await"
    /\ jobs' = jobs \ {cur[l]}
    /\ todo' = [todo EXCEPT ![l] = @ \ {cur[l]}]
    /\ cur' = [cur EXCEPT ![l] = None]
    /\ pc' = [pc EXCEPT ![l] = "prune"]
    /\ UNCHANGED <<mu, fsys, job, cfg, calls, faults, lingering, settled>>

PruneDelete(l) ==
    /\ pc[l] = "await"
    /\ job[cur[l]].st = "done"
    /\ jobs' = jobs \ {cur[l]}
    /\ todo' = [todo EXCEPT ![l] = @ \ {cur[l]}]
    /\ cur' = [cur EXCEPT ![l] = None]
    /\ pc' = [pc EXCEPT ![l] = "prune"]
    /\ UNCHANGED <<mu, fsys, job, cfg, calls, faults, lingering, settled>>

PruneEnd(l) ==
    /\ pc[l] = "prune"
    /\ todo[l] = {}
    /\ todo' = [todo EXCEPT ![l] = DOMAIN cfg[l]]
    /\ pc' = [pc EXCEPT ![l] = "options"]
    /\ UNCHANGED <<mu, fsys, jobs, job, cfg, cur, calls, faults, lingering, settled>>

\* setOptions returns an error, or ignores a dummy service: a job of that
\* name that is running is left as it is.
Startable(n, o) == Kind[n] \in {"stream", "http"} /\ o # Undecodable

SetOptionsSkip(l, n) ==
    /\ pc[l] = "options"
    /\ n \in todo[l]
    /\ ~Startable(n, cfg[l][n])
    /\ todo' = [todo EXCEPT ![l] = @ \ {n}]
    /\ UNCHANGED <<mu, fsys, jobs, job, pc, cfg, cur, calls, faults, lingering, settled>>

\* setOptions starts the service when the name has no job or a dead one.
SetOptionsNoRestart(l, n) ==   \* mutant: a dead job counts as running
    /\ pc[l] = "options"
    /\ n \in todo[l]
    /\ Startable(n, cfg[l][n])
    /\ job' = IF n \notin jobs
              THEN [job EXCEPT ![n] = [NoJob EXCEPT !.st = "start"]]
              ELSE job
    /\ jobs' = jobs \cup {n}
    /\ cur' = [cur EXCEPT ![l] = n]
    /\ pc' = [pc EXCEPT ![l] = "send"]
    /\ UNCHANGED <<mu, fsys, cfg, todo, calls, faults, lingering, settled>>

SetOptions(l, n) ==
    /\ pc[l] = "options"
    /\ n \in todo[l]
    /\ Startable(n, cfg[l][n])
    /\ job' = IF n \notin jobs \/ job[n].st = "done"
              THEN [job EXCEPT ![n] = [NoJob EXCEPT !.st = "start"]]
              ELSE job
    /\ jobs' = jobs \cup {n}
    /\ cur' = [cur EXCEPT ![l] = n]
    /\ pc' = [pc EXCEPT ![l] = "send"]
    /\ UNCHANGED <<mu, fsys, cfg, todo, calls, faults, lingering, settled>>

\* SendEvent is a select of Done and of the unbuffered Event channel: it
\* hands the event over when the job is at its own select.
SendLoadOrDrop(l) ==   \* mutant: the select of SendEvent has a default case
    LET n == cur[l] IN
    /\ pc[l] = "send"
    /\ job' = IF job[n].st = "idle"
              THEN [job EXCEPT ![n].st = "load", ![n].arg = cfg[l][n],
                               ![n].from = l, ![n].seen = None]
              ELSE job
    /\ todo' = [todo EXCEPT ![l] = @ \ {n}]
    /\ cur' = [cur EXCEPT ![l] = None]
    /\ pc' = [pc EXCEPT ![l] = "options"]
    /\ UNCHANGED <<mu, fsys, jobs, cfg, calls, faults, lingering, settled>>

SendLoad(l) ==
    LET n == cur[l] IN
    /\ pc[l] = "send"
    /\ job[n].st \in {"idle", "done"}
    /\ job' = IF job[n].st = "idle"
              THEN [job EXCEPT ![n].st = "load", ![n].arg = cfg[l][n],
                               ![n].from = l, ![n].seen = None]
              ELSE job
    /\ todo' = [todo EXCEPT ![l] = @ \ {n}]
    /\ cur' = [cur EXCEPT ![l] = None]
    /\ pc' = [pc EXCEPT ![l] = "options"]
    /\ UNCHANGED <<mu, fsys, jobs, cfg, calls, faults, lingering, settled>>

OptionsEnd(l) ==
    /\ pc[l] = "options"
    /\ todo[l] = {}
    /\ todo' = [todo EXCEPT ![l] = jobs]
    /\ pc' = [pc EXCEPT ![l] = "loaded"]
    /\ UNCHANGED <<mu, fsys, jobs, job, cfg, cur, calls, faults, lingering, settled>>

SendLoadedBlindly(l, n) ==   \* mutant: SendEvent without the Done case
    /\ pc[l] = "loaded"
    /\ n \in todo[l]
    /\ job[n].st = "idle"
    /\ job' = [job EXCEPT ![n].st = "loaded"]
    /\ todo' = [todo EXCEPT ![l] = @ \ {n}]
    /\ UNCHANGED <<mu, fsys, jobs, pc, cfg, cur, calls, faults, lingering, settled>>

SendLoaded(l, n) ==
    /\ pc[l] = "loaded"
    /\ n \in todo[l]
    /\ job[n].st \in {"idle", "done"}
    /\ job' = IF job[n].st = "idle" THEN [job EXCEPT ![n].st = "loaded"] ELSE job
    /\ todo' = [todo EXCEPT ![l] = @ \ {n}]
    /\ UNCHANGED <<mu, fsys, jobs, pc, cfg, cur, calls, faults, lingering, settled>>

LoadedEndNoBarrier(l) ==   \* mutant: the loop sending nil events is missing
    /\ pc[l] = "loaded"
    /\ todo[l] = {}
    /\ pc' = [pc EXCEPT ![l] = "barrier"]
    /\ UNCHANGED <<mu, fsys, jobs, job, cfg, todo, cur, calls, faults, lingering, settled>>

LoadedEnd(l) ==
    /\ pc[l] = "loaded"
    /\ todo[l] = {}
    /\ todo' = [todo EXCEPT ![l] = jobs]
    /\ pc' = [pc EXCEPT ![l] = "barrier"]
    /\ UNCHANGED <<mu, fsys, jobs, job, cfg, cur, calls, faults, lingering, settled>>

\* job.SendEvent(nil): the job must come back to its select to receive it.
Barrier(l, n) ==
    /\ pc[l] = "barrier"
    /\ n \in todo[l]
    /\ job[n].st \in {"idle", "done"}
    /\ todo' = [todo EXCEPT ![l] = @ \ {n}]
    /\ UNCHANGED <<mu, fsys, jobs, job, pc, cfg, cur, calls, faults, lingering, settled>>

LoadUnlock(l) ==
    /\ pc[l] = "barrier"
    /\ todo[l] = {}
    /\ mu' = None
    /\ pc' = [pc EXCEPT ![l] = "clear"]
    /\ settled' = [op |-> "load", last |-> cfg[l],
                   before |-> IF settled.op = "load" THEN settled.last ELSE Malformed]
    /\ UNCHANGED <<fsys, jobs, job, cfg, todo, cur, calls, faults, lingering>>

\* load resets the file system after loadConfig has released the lock.
LoadEnd(l) ==
    /\ pc[l] = "clear"
    /\ fsys' = None
    /\ pc' = [pc EXCEPT ![l] = "idle"]
    /\ UNCHANGED <<mu, jobs, job, cfg, todo, cur, calls, faults, lingering, settled>>

-----------------------------------------------------------------------------
(***************************************************************************)
(* StopJobs: cancel every job, then wait for every job. The jobs stay in   *)
(* the map, dead.                                                          *)
(***************************************************************************)

StopBegin(s) ==
    /\ pc[s] = "idle"
    /\ calls[s] < MaxStops
    /\ calls' = [calls EXCEPT ![s] = @ + 1]
    /\ pc' = [pc EXCEPT ![s] = "stop"]
    /\ UNCHANGED <<mu, fsys, jobs, job, cfg, todo, cur, faults, lingering, settled>>

StopCancel(s) ==
    /\ pc[s] = "stop"
    /\ mu = None
    /\ mu' = s
    /\ job' = [n \in Names |-> IF n \in jobs THEN [job[n] EXCEPT !.cancelled = TRUE]
                                             ELSE job[n]]
    /\ pc' = [pc EXCEPT ![s] = "wait"]
    /\ UNCHANGED <<fsys, jobs, cfg, todo, cur, calls, faults, lingering, settled>>

StopEndAtOnce(s) ==   \* mutant: cancels but does not wait
    /\ pc[s] = "wait"
    /\ mu' = None
    /\ pc' = [pc EXCEPT ![s] = "idle"]
    /\ settled' = [op |-> "stop", last |-> Malformed, before |-> Malformed]
    /\ UNCHANGED <<fsys, jobs, job, cfg, todo, cur, calls, faults, lingering>>

StopEnd(s) ==
    /\ pc[s] = "wait"
    /\ \A n \in jobs : job[n].st = "done"
    /\ mu' = None
    /\ pc' = [pc EXCEPT ![s] = "idle"]
    /\ settled' = [op |-> "stop", last |-> Malformed, before |-> Malformed]
    /\ UNCHANGED <<fsys, jobs, job, cfg, todo, cur, calls, faults, lingering>>

-----------------------------------------------------------------------------
(***************************************************************************)
(* A job: the event loop of Service.Run.                                   *)
(***************************************************************************)

OnlyJob == UNCHANGED <<mu, fsys, jobs, pc, cfg, todo, cur, calls, faults, settled>>

\* What stopServer leaves of the listener, the server and its down channel ...
StopServer(r) == [r EXCEPT !.port = None, !.server = FALSE, !.down = FALSE]

\* ... and of the port: http.Server.Shutdown closes the listeners that Serve
\* has registered. When the server's goroutine has yet to call Serve, the
\* listener stays open until it does.
Release(n) ==
    \/ UNCHANGED lingering
    \/ /\ Kind[n] = "http" /\ job[n].port # None
       /\ lingering' = lingering \cup {job[n].port}

\* srv.Serve of a server that is shut down returns and closes its listener.
LateServe(p) ==
    /\ p \in lingering
    /\ lingering' = lingering \ {p}
    /\ UNCHANGED <<mu, fsys, jobs, job, pc, cfg, todo, cur, calls, faults, settled>>

Returning(r, cause) == [r EXCEPT !.st = "exit", !.why = cause]

JobStart(n) ==
    /\ job[n].st = "start"
    /\ job' = [job EXCEPT ![n].st = "idle"]
    /\ UNCHANGED lingering
    /\ OnlyJob

\* case <-ctx.Done()
JobCancelled(n) ==
    /\ job[n].st = "idle"
    /\ job[n].cancelled
    /\ job' = [job EXCEPT ![n] = Returning(@, "cancel")]
    /\ UNCHANGED lingering
    /\ OnlyJob

\* case <-serverDown, of the services built on http.Server
JobServerDown(n) ==
    /\ job[n].st = "idle"
    /\ job[n].down
    /\ job' = [job EXCEPT ![n] = Returning(@, "down")]
    /\ UNCHANGED lingering
    /\ OnlyJob

\* case LoadEvent, up to the release of a listener that is no longer wanted
JobLoadKeepServer(n) ==   \* mutant: the address is not compared with the old one
    /\ job[n].st = "load"
    /\ job' = [job EXCEPT ![n] = IF @.arg = BadAddr THEN Returning(@, "addr")
                                 ELSE [@ EXCEPT !.st = "apply"]]
    /\ UNCHANGED lingering
    /\ OnlyJob

JobLoad(n) ==
    /\ job[n].st = "load"
    /\ job' = [job EXCEPT ![n] =
                  IF @.arg = BadAddr THEN Returning(@, "addr")
                  ELSE IF @.arg = @.opts THEN [@ EXCEPT !.st = "apply"]
                  ELSE [StopServer(@) EXCEPT !.st = "apply"]]
    /\ IF job[n].arg \in {BadAddr, job[n].opts} THEN UNCHANGED lingering ELSE Release(n)
    /\ OnlyJob

\* A port is free unless another process or another job listens to it, or a
\* server that was shut down has yet to close its listener.
Unused(p) == p \notin Foreign /\ \A m \in Names : job[m].port # p
Free(p) == Unused(p) /\ p \notin lingering

\* case LoadEvent, the rest: an HTTP service reads its route files through
\* Manager.Open, which fails when no file system is stored; then optsIn <- new.
JobApply(n) ==
    /\ job[n].st = "apply"
    /\ job' = [job EXCEPT ![n] =
                  IF Kind[n] = "http" /\ fsys = None
                  THEN Returning(@, "open")
                  ELSE [@ EXCEPT !.st = "idle", !.opts = job[n].arg, !.arg = None,
                                 !.seen = IF Kind[n] = "http" THEN fsys ELSE None]]
    /\ UNCHANGED lingering
    /\ OnlyJob

\* case LoadedEvent: startServer does nothing when a server exists; before
\* any LoadEvent the address is empty, which net.Listen takes for any port.
JobLoaded(n) ==
    /\ job[n].st = "loaded"
    /\ job' = [job EXCEPT ![n] =
                  IF @.server THEN [@ EXCEPT !.st = "idle"]
                  ELSE IF @.opts = None \/ Free(@.opts)
                  THEN [@ EXCEPT !.st = "idle", !.server = TRUE, !.port = job[n].opts]
                  ELSE Returning(@, IF Unused(@.opts) THEN "linger" ELSE "listen")]
    /\ UNCHANGED lingering
    /\ OnlyJob

\* Run's deferred stopServer ...
JobStopServer(n) ==
    /\ job[n].st = "exit"
    /\ job' = [job EXCEPT ![n] = [StopServer(@) EXCEPT !.st = "stopped"]]
    /\ Release(n)
    /\ OnlyJob

\* ... and then StartService's deferred cancel and done.
JobDone(n) ==
    /\ job[n].st = "stopped"
    /\ job' = [job EXCEPT ![n].st = "done", ![n].cancelled = TRUE]
    /\ UNCHANGED lingering
    /\ OnlyJob

\* http.Server.Serve gives up (a permanent Accept error) and closes the
\* listener; the goroutine around it closes serverDown.
ServerFails(n) ==
    /\ Kind[n] = "http"
    /\ job[n].server /\ ~job[n].down
    /\ faults < MaxFaults
    /\ faults' = faults + 1
    /\ job' = [job EXCEPT ![n].down = TRUE, ![n].port = None]
    /\ UNCHANGED <<mu, fsys, jobs, pc, cfg, todo, cur, calls, lingering, settled>>

-----------------------------------------------------------------------------
LoaderStep(l) ==
    \/ LoadReject(l) \/ LoadLock(l)
    \/ \E n \in Names : PruneCancel(l, n)
    \/ PruneDelete(l) \/ PruneEnd(l)
    \/ \E n \in Names : SetOptionsSkip(l, n) \/ SetOptions(l, n)
    \/ SendLoad(l) \/ OptionsEnd(l)
    \/ \E n \in Names : SendLoaded(l, n)
    \/ LoadedEnd(l)
    \/ \E n \in Names : Barrier(l, n)
    \/ LoadUnlock(l) \/ LoadEnd(l)

StopperStep(s) == StopCancel(s) \/ StopEnd(s)

JobStep(n) ==
    \/ JobStart(n) \/ JobCancelled(n) \/ JobServerDown(n)
    \/ JobLoad(n) \/ JobApply(n) \/ JobLoaded(n)
    \/ JobStopServer(n) \/ JobDone(n)

Next ==
    \/ \E l \in Loaders : (\E c \in Configs \cup {Malformed} : LoadBegin(l, c)) \/ LoaderStep(l)
    \/ \E s \in Stoppers : StopBegin(s) \/ StopperStep(s)
    \/ \E n \in Names : JobStep(n) \/ ServerFails(n)
    \/ \E p \in Ports : LateServe(p)

Spec == Init /\ [][Next]_vars

\* Goroutines are scheduled fairly; nobody is obliged to call Load or
\* StopJobs, and no server is obliged to fail. sync.Mutex does not starve a
\* waiter, hence strong fairness on the two steps that lock it.
Fairness ==
    /\ \A l \in Loaders : WF_vars(LoaderStep(l)) /\ SF_vars(LoadReject(l) \/ LoadLock(l))
    /\ \A s \in Stoppers : WF_vars(StopperStep(s)) /\ SF_vars(StopCancel(s))
    /\ \A n \in Names : WF_vars(JobStep(n))

FairSpec == Spec /\ Fairness

-----------------------------------------------------------------------------
(***************************************************************************)
(* Correctness properties.                                                 *)
(***************************************************************************)

\* Every variable has its type, and a lock holder is inside its section.
TypeOK ==
    /\ mu \in Threads \cup {None}
    /\ fsys \in Loaders \cup {None}
    /\ jobs \subseteq Names
    /\ job \in [Names -> JobType]
    /\ pc \in [Threads -> PCs]
    /\ cfg \in [Loaders -> Configs \cup {Malformed}]
    /\ todo \in [Loaders -> SUBSET Names]
    /\ cur \in [Loaders -> Names \cup {None}]
    /\ calls \in [Threads -> Nat]
    /\ faults \in Nat
    /\ lingering \subseteq Ports
    /\ settled \in [op : {"none", "load", "stop"},
                    last : Configs \cup {Malformed}, before : Configs \cup {Malformed}]

\* "Make sure all events have been handled": whenever the lock is free, no
\* job is in the middle of an event; it is at its select or it has returned.
\* Only a job whose http.Server failed may be on its way out.
Quiescent ==
    mu = None => \A n \in Names :
        job[n].st \in {"none", "idle", "done"} \/ job[n].why = "down"

\* After a load, m.jobs holds only names of the document, and every job of
\* the document that setOptions could start is there and, if it is alive, has
\* exactly the options of the document: no LoadEvent is lost to a job that is
\* just starting, busy or dying.
ConfigApplied ==
    (mu = None /\ settled.op = "load") =>
        /\ jobs \subseteq DOMAIN settled.last
        /\ \A n \in DOMAIN settled.last :
              Startable(n, settled.last[n]) =>
                  /\ n \in jobs
                  /\ job[n].st = "idle" => job[n].opts = settled.last[n]

\* With the lock free, a live job listens exactly to the address of its
\* options, unless its http.Server has just failed.
ListensWhereTold ==
    mu = None => \A n \in Names :
        job[n].st = "idle" => job[n].down \/ job[n].port = job[n].opts

\* A name that is not in the map has no goroutine and no server: a job
\* removed by a reload has shut its server down before the new options of any
\* other job are handed out. (Only a listener nobody serves yet may linger.)
RemovedJobIsGone ==
    \A n \in Names \ jobs : job[n].st \in {"none", "done"} /\ job[n].port = None

\* Once StopJobs has released the lock every managed job has returned and
\* has shut its server down, until the next load takes the lock.
StopLeavesNothing ==
    (mu = None /\ settled.op = "stop") =>
        \A n \in Names : job[n].st \in {"none", "done"} /\ job[n].port = None

\* The documents whose jobs can all listen at the same time.
Sound(c) ==
    LET on == {n \in DOMAIN c : Kind[n] \in {"stream", "http"}} IN
    /\ \A n \in on : c[n] \in Ports \ Foreign
    /\ \A n, m \in on : n # m => c[n] # c[m]

Serving(n, o) == job[n].st = "idle" /\ job[n].opts = o /\ job[n].port = o

\* Loading a sound document twice in a row leaves every job of it serving
\* (a failed http.Server aside): a job that died in the first load because
\* its port was not yet free is restarted by the second. Nothing bounds how
\* long a listener that nobody serves lingers, so it is another exception.
SecondLoadHeals ==
    (mu = None /\ settled.op = "load" /\ settled.last = settled.before /\ Sound(settled.last)) =>
        \A n \in DOMAIN settled.last :
            Startable(n, settled.last[n]) =>
                Serving(n, settled.last[n]) \/ job[n].why \in {"down", "linger"} \/ job[n].down

\* LoadEvent: "If a job has acquired some system resources (for example,
\* listening to a port) but no longer needs them, this is the good chance to
\* release them, so other jobs can acquire them." So a load of a sound
\* document leaves no job that failed to listen.
ReleasedPortIsAcquired ==
    (mu = None /\ settled.op = "load" /\ Sound(settled.last)) =>
        \A n \in DOMAIN settled.last : job[n].why # "listen"

\* "Open is available for jobs started by Load(File|FS) methods when they are
\* handling options": it never fails for want of a file system, and it opens
\* files of the file system the document came from. One loader at a time keeps
\* it; of two, the one that returns first resets m.fsys for the other as well.
OpenAvailable ==
    \A n \in Names : /\ job[n].why # "open"
                     /\ job[n].seen \in {None, job[n].from}

\* Every Load and every StopJobs returns.
CallsReturn == \A t \in Threads : pc[t] # "idle" ~> pc[t] = "idle"
=============================================================================
