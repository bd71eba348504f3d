------------------------------ MODULE Serving ------------------------------
(***************************************************************************)
(* Serve and CloseConnections (serving.go), with the part of Shutdown      *)
(* (service.go) that calls them: a job's accept loop, the goroutine of     *)
(* each connection, and a shutdown that stops the job and then closes the  *)
(* connections found in the map.                                           *)
(***************************************************************************)
EXTENDS Naturals, FiniteSets

CONSTANTS
    Conns,      \* connections clients may open
    MinDelay,   \* the first sleep after a temporary Accept error
    MaxDelay,   \* the longest
    NoConn      \* nil

ASSUME DelayAssumption == MinDelay \in Nat \ {0} /\ MaxDelay \in Nat /\ MinDelay <= MaxDelay
ASSUME ConnAssumption == NoConn \notin Conns

VARIABLES
    serve,     \* the accept loop: see ServeStates
    cur,       \* the connection Accept has just returned
    delay,     \* tempDelay
    open,      \* the listener is open
    st,        \* the goroutine of each connection
    closed,    \* the connections that were closed
    map,       \* the keys of m.connections
    shut,      \* the goroutine that runs Shutdown
    todo,      \* keys the Range of CloseConnections has yet to visit
    owed       \* history: the keys in the map when CloseConnections began

servingVars == <<serve, cur, delay, open, st, closed, map, shut, todo, owed>>
serveVars == <<serve, cur, delay, open>>
shutVars == <<shut, todo, owed>>

ServeStates == {"accept", "accepted", "stored", "sleep", "returned"}
ConnStates == {"new", "accepted", "handling", "returned", "closed", "gone"}

ServeInit ==
    /\ serve = "accept" /\ cur = NoConn /\ delay = 0 /\ open = TRUE
    /\ st = [c \in Conns |-> "new"]
    /\ closed = {} /\ map = {}
    /\ shut = "none" /\ todo = {} /\ owed = {}

-----------------------------------------------------------------------------
(***************************************************************************)
(* Serve.                                                                  *)
(***************************************************************************)

Accept(c) ==
    /\ serve = "accept" /\ open
    /\ st[c] = "new"
    /\ serve' = "accepted" /\ cur' = c /\ delay' = 0
    /\ st' = [st EXCEPT ![c] = "accepted"]
    /\ UNCHANGED <<open, closed, map, shutVars>>

\* ln.Accept fails for a while (no file descriptors): sleep, twice as long
\* each time.
NextDelay ==
    LET d == IF delay = 0 THEN MinDelay ELSE 2 * delay
    IN IF d > MaxDelay THEN MaxDelay ELSE d

AcceptTemporaryError ==
    /\ serve = "accept" /\ open
    /\ serve' = "sleep" /\ delay' = NextDelay
    /\ UNCHANGED <<cur, open, st, closed, map, shutVars>>

Wake ==
    /\ serve = "sleep"
    /\ serve' = "accept"
    /\ UNCHANGED <<cur, delay, open, st, closed, map, shutVars>>


\* ln.Accept fails for good: the listener is closed, or broken.
AcceptError ==
    /\ serve = "accept"
    /\ serve' = "returned"
    /\ UNCHANGED <<cur, delay, open, st, closed, map, shutVars>>

Store ==
    /\ serve = "accepted"
    /\ map' = map \cup {cur}
    /\ serve' = "stored"
    /\ UNCHANGED <<cur, delay, open, st, closed, shutVars>>

\* go func() { ... fn(c) }()
Go ==
    /\ serve = "stored"
    /\ st' = [st EXCEPT ![cur] = "handling"]
    /\ serve' = "accept" /\ cur' = NoConn
    /\ UNCHANGED <<delay, open, closed, map, shutVars>>

-----------------------------------------------------------------------------
(***************************************************************************)
(* The goroutine of a connection.                                          *)
(***************************************************************************)

Handled(c) ==
    /\ st[c] = "handling"
    /\ st' = [st EXCEPT ![c] = "returned"]
    /\ UNCHANGED <<serveVars, closed, map, shutVars>>

\* The deferred c.Close() ...
Close(c) ==
    /\ st[c] = "returned"
    /\ closed' = closed \cup {c}
    /\ st' = [st EXCEPT ![c] = "closed"]
    /\ UNCHANGED <<serveVars, map, shutVars>>

Forget(c) ==   \* mutant: the connection stays in the map
    /\ st[c] = "closed"
    /\ st' = [st EXCEPT ![c] = "gone"]
    /\ UNCHANGED <<serveVars, closed, map, shutVars>>

\* ... and m.connections.Delete(c).
Delete(c) ==
    /\ st[c] = "closed"
    /\ map' = map \ {c}
    /\ st' = [st EXCEPT ![c] = "gone"]
    /\ UNCHANGED <<serveVars, closed, shutVars>>

-----------------------------------------------------------------------------
(***************************************************************************)
(* Shutdown: StopJobs, then CloseConnections.                              *)
(***************************************************************************)

\* StopJobs waits for the job, whose deferred stopServer closes the listener;
\* it does not wait for the goroutine inside Serve.
StopJobs ==
    /\ shut = "none"
    /\ open' = FALSE
    /\ shut' = "stopped"
    /\ UNCHANGED <<serve, cur, delay, st, closed, map, todo, owed>>

CloseConnections ==
    /\ shut = "stopped"
    /\ shut' = "closing"
    /\ todo' = map /\ owed' = map
    /\ UNCHANGED <<serveVars, st, closed, map>>

CloseFirst(c) ==   \* mutant: the callback returns false, which stops Range
    /\ shut = "closing"
    /\ c \in todo \cup map
    /\ c \notin closed \/ c \in todo
    /\ closed' = closed \cup {c}
    /\ todo' = {}
    /\ UNCHANGED <<serveVars, st, map, shut, owed>>

\* Range visits every key that stays in the map; a key that is stored or
\* deleted meanwhile may be visited or not.
CloseVisited(c) ==
    /\ shut = "closing"
    /\ c \in todo \cup map
    /\ c \notin closed \/ c \in todo
    /\ closed' = closed \cup {c}
    /\ todo' = todo \ {c}
    /\ UNCHANGED <<serveVars, st, map, shut, owed>>

SkipDeleted(c) ==
    /\ shut = "closing"
    /\ c \in todo \ map
    /\ todo' = todo \ {c}
    /\ UNCHANGED <<serveVars, st, closed, map, shut, owed>>

ShutdownReturns ==
    /\ shut = "closing" /\ todo = {}
    /\ shut' = "down"
    /\ UNCHANGED <<serveVars, st, closed, map, todo, owed>>

-----------------------------------------------------------------------------
ServeStep == Store \/ Go \/ Wake
ConnStep(c) == Close(c) \/ Delete(c)
ShutStep ==
    \/ CloseConnections \/ ShutdownReturns
    \/ \E c \in Conns : CloseVisited(c) \/ SkipDeleted(c)

ServeNext ==
    \/ \E c \in Conns : Accept(c)
    \/ AcceptTemporaryError \/ AcceptError \/ ServeStep
    \/ \E c \in Conns : Handled(c) \/ ConnStep(c)
    \/ StopJobs \/ ShutStep

ServeSpec == ServeInit /\ [][ServeNext]_servingVars

\* The goroutines make progress; Accept is obliged to fail once the listener is
\* closed, and a handler to return once its connection is closed, because every
\* read and write of it then fails.
ServeFairness ==
    /\ WF_servingVars(ServeStep) /\ WF_servingVars(~open /\ AcceptError) /\ WF_servingVars(ShutStep)
    /\ \A c \in Conns : WF_servingVars(ConnStep(c)) /\ WF_servingVars(c \in closed /\ Handled(c))

FairServeSpec == ServeSpec /\ ServeFairness

-----------------------------------------------------------------------------
(***************************************************************************)
(* Correctness properties.                                                 *)
(***************************************************************************)

\* Every connection that was in the map when CloseConnections began is closed
\* when it returns, also one whose handler was returning at the time.
ClosesWhatItFinds == shut = "down" => owed \subseteq closed

\* The map is exact: a connection whose goroutine is gone is closed and has
\* left the map, and one that is being handled can be found there.
MapExact ==
    \A c \in Conns : /\ st[c] = "gone" => c \in closed \ map
                     /\ st[c] \in {"handling", "returned"} => c \in map

=============================================================================
