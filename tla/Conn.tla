-------------------------------- MODULE Conn --------------------------------
(***************************************************************************)
(* One call of NewConn (conn.go): the goroutines and coroutines that dial  *)
(* a remote repeatedly, several attempts at a time, replay the request of  *)
(* the client to each of them, and relay the first one that responds.      *)
(*                                                                         *)
(* The coroutines run on one executor, so a coroutine step is atomic and   *)
(* is one action. The blocking calls (getRemote, Write, Read, Relay) and   *)
(* the timers run in goroutines; their result is handled by the executor.  *)
(* Where nothing can happen between a result and its handling that the     *)
(* handling depends on, the two are one action; the result of a Write is   *)
(* kept apart, because the bytes are out before sr.sent counts them.       *)
(*                                                                         *)
(* The client writes the bytes 1, 2, ... into the pipe, so what a remote   *)
(* received is a sequence of numbers. Relay is abstracted to copying the   *)
(* client's bytes and ending (module Relay has the rest).                  *)
(***************************************************************************)
EXTENDS Naturals, Sequences, FiniteSets

CONSTANTS
    MaxAttempts,   \* connOpts.MaxAttempts
    Parallel,      \* connOpts.Parallel
    MaxBytes,      \* bound: bytes the client sends
    MaxRequest     \* maxRequestSize

ASSUME OptionsAssumption == MaxAttempts \in Nat \ {0} /\ Parallel \in Nat \ {0}
ASSUME BytesAssumption == MaxBytes \in Nat /\ MaxRequest \in Nat \ {0}

VARIABLES
    clientClosed,  \* the client has closed pipeRight
    taken,         \* how many of the client's bytes were read from the pipe
    pipeExpired,   \* pipeLeft's read deadline is in the past
    rr,            \* readRequest: its coroutine, see RRStates
    req,           \* len(myState.rr.req.data)
    cl,            \* conn loop: stop, done, newconn and the interval timer
    n,             \* myState.cl.connections.n
    attempts,      \* myState.cl.attempts
    at,            \* the attempts
    winner,        \* the attempt that set hasWinner, 0 if none
    events,        \* the events sent to lifeCycleCh
    closed         \* Wait has returned; pipeLeft and lifeCycleCh are closed

vars == <<clientClosed, taken, pipeExpired, rr, req, cl, n, attempts, at, winner, events, closed>>
loopVars == <<cl, attempts, events>>
pipeVars == <<clientClosed, taken, pipeExpired, rr, req>>

Attempts == 1 .. MaxAttempts

\* A Read of the pipe that was issued before, or after, the deadline expired.
RRStates == {"reading", "late", "done"}

AttemptStates == {"none",
                  "dialing",   \* getRemote runs
                  "open",      \* waits for the first byte of the response
                  "winning",   \* waits for the other coroutines to stop
                  "relay",     \* m.Relay runs
                  "closing",   \* runs the deferred tasks
                  "ended"}
SenderStates == {"none", "wait", "busy", "posted", "done"}

NoAttempt == [st |-> "none",
              timer |-> "none",          \* the Timeout timer
              cancelled |-> FALSE,       \* ctx is done
              remote |-> "none",         \* the connection getRemote returned
              snd |-> "none",            \* the sendRequest coroutine
              srStop |-> FALSE,          \* sr.stop
              rdl |-> FALSE,             \* the remote's read deadline is in the past
              wdl |-> FALSE,             \* the remote's write deadline is in the past
              hi |-> 0,                  \* the Write in flight ends at this byte
              res |-> [k |-> 0, err |-> FALSE],   \* its result
              sent |-> 0,                \* sr.sent
              got |-> <<>>,              \* what the remote received
              af |-> "none"]             \* the context.AfterFunc of the attempt

AttemptType == [st : AttemptStates,
                timer : {"none", "running", "fired", "stopped"},
                cancelled : BOOLEAN,
                remote : {"none", "open", "closed"},
                snd : SenderStates,
                srStop : BOOLEAN,
                rdl : BOOLEAN,
                wdl : BOOLEAN,
                hi : 0 .. MaxBytes,
                res : [k : 0 .. MaxBytes, err : BOOLEAN],
                sent : 0 .. MaxBytes,
                got : Seq(1 .. MaxBytes),
                af : {"none", "armed", "ran", "stopped"}]

\* The bytes i+1 .. j of the client.
Bytes(i, j) == [k \in 1 .. (j - i) |-> i + k]

Init ==
    /\ clientClosed = FALSE
    /\ taken = 0
    /\ pipeExpired = FALSE
    /\ rr = "reading"
    /\ req = 0
    /\ cl = [stop |-> FALSE, done |-> FALSE, newconn |-> TRUE, timer |-> FALSE]
    /\ n = 0
    /\ attempts = 0
    /\ at = [i \in Attempts |-> NoAttempt]
    /\ winner = 0
    /\ events = <<>>
    /\ closed = FALSE

-----------------------------------------------------------------------------
(***************************************************************************)
(* The client, and readRequest.                                            *)
(***************************************************************************)

ClientClose ==
    /\ ~clientClosed
    /\ clientClosed' = TRUE
    /\ UNCHANGED <<taken, pipeExpired, rr, req, loopVars, n, at, winner, closed>>

\* A Read that succeeds: the data is appended; a request that is too large
\* ends the loop, whose deferred tasks stop the conn loop.
ReadRequest(k) ==
    /\ rr = "reading"
    /\ ~clientClosed
    /\ k \in 1 .. (MaxBytes - taken)
    /\ taken' = taken + k
    /\ req' = req + k
    /\ rr' = IF req' >= MaxRequest THEN "done"
             ELSE IF pipeExpired THEN "late" ELSE "reading"
    /\ cl' = [cl EXCEPT !.stop = @ \/ req' >= MaxRequest]
    /\ UNCHANGED <<clientClosed, pipeExpired, n, attempts, at, winner, events, closed>>

\* A Read that fails: the client has closed the pipe, or the deadline passed.
ReadRequestFails ==
    /\ rr # "done"
    /\ clientClosed \/ pipeExpired
    /\ rr' = "done"
    /\ cl' = [cl EXCEPT !.stop = TRUE]
    /\ UNCHANGED <<clientClosed, taken, pipeExpired, req, n, attempts, at, winner, events, closed>>

-----------------------------------------------------------------------------
(***************************************************************************)
(* The conn loop: startConnLoop.                                           *)
(***************************************************************************)

\* The deferred stopTimer, awaitTimer and cl.done.Set(true).
LoopDone == [cl EXCEPT !.done = TRUE, !.newconn = TRUE, !.timer = FALSE]

LoopReady == ~cl.done /\ ~cl.stop /\ cl.newconn /\ n < Parallel

CanStopLoop == ~cl.done /\ cl.stop
CanGiveUpEarly == LoopReady /\ attempts >= MaxAttempts   \* mutant: attempts in flight ignored
CanGiveUp == LoopReady /\ attempts >= MaxAttempts /\ n = 0
CanDial == LoopReady /\ attempts < MaxAttempts

LoopStops ==
    /\ CanStopLoop
    /\ cl' = LoopDone
    /\ UNCHANGED <<pipeVars, n, attempts, at, winner, events, closed>>

LoopGivesUp ==
    /\ CanGiveUp
    /\ events' = Append(events, "MaxAttempts")
    /\ cl' = LoopDone
    /\ UNCHANGED <<pipeVars, n, attempts, at, winner, closed>>

\* newConn, stopTimer, awaitTimer, startTimer.
NewConn ==
    /\ CanDial
    /\ n' = n + 1
    /\ attempts' = attempts + 1
    /\ at' = [at EXCEPT ![attempts + 1].st = "dialing", ![attempts + 1].timer = "running"]
    /\ cl' = [cl EXCEPT !.newconn = FALSE, !.timer = TRUE]
    /\ UNCHANGED <<pipeVars, winner, events, closed>>

IntervalFires ==
    /\ cl.timer
    /\ cl' = [cl EXCEPT !.newconn = TRUE, !.timer = FALSE]
    /\ UNCHANGED <<pipeVars, n, attempts, at, winner, events, closed>>

-----------------------------------------------------------------------------
(***************************************************************************)
(* One attempt: newConn.                                                   *)
(***************************************************************************)

Active(i) == at[i].st \notin {"none", "ended"}

\* The Timeout timer cancels the context of the attempt.
TimeoutLost(i) ==   \* mutant: the timer does not cancel the context
    /\ at[i].timer = "running"
    /\ at[i].st # "none"
    /\ at' = [at EXCEPT ![i].timer = "fired"]
    /\ UNCHANGED <<pipeVars, loopVars, n, winner, closed>>

TimeoutFires(i) ==
    /\ at[i].timer = "running"
    /\ at[i].st # "none"
    /\ at' = [at EXCEPT ![i].timer = "fired", ![i].cancelled = TRUE]
    /\ UNCHANGED <<pipeVars, loopVars, n, winner, closed>>

\* Once the conn loop is done, every attempt but the winner is cancelled.
CanCancel(i) == cl.done /\ Active(i) /\ winner # i /\ ~at[i].cancelled

CancelLoser(i) ==
    /\ CanCancel(i)
    /\ at' = [at EXCEPT ![i].cancelled = TRUE]
    /\ UNCHANGED <<pipeVars, loopVars, n, winner, closed>>

\* The deferred task of an attempt: close the remote, stop the timer, cancel.
FinishedLeaks(r) == [r EXCEPT !.st = "ended", !.cancelled = TRUE]   \* mutant: remote not closed

Finished(r) ==
    [r EXCEPT !.st = "ended", !.cancelled = TRUE,
              !.remote = IF @ = "open" THEN "closed" ELSE @,
              !.timer = IF @ = "running" THEN "stopped" ELSE @]

\* getRemote fails; with CloseConn it also stops the reading of the request.
DialFails(i, closeConn) ==
    /\ at[i].st = "dialing"
    /\ at' = [at EXCEPT ![i] = Finished(@)]
    /\ n' = n - 1
    /\ pipeExpired' = (pipeExpired \/ closeConn)
    /\ UNCHANGED <<clientClosed, taken, rr, req, loopVars, winner, closed>>

\* getRemote succeeds: sendRequest, AfterFunc and the read of the response
\* begin.
DialSucceeds(i) ==
    /\ at[i].st = "dialing"
    /\ at' = [at EXCEPT ![i].st = "open", ![i].remote = "open",
                        ![i].snd = "wait", ![i].af = "armed"]
    /\ UNCHANGED <<pipeVars, loopVars, n, winner, closed>>

\* sendRequest: stop, or write what was read of the request and not yet sent.
CanSenderStop(i) == at[i].snd = "wait" /\ at[i].srStop
CanSend(i) == at[i].snd = "wait" /\ ~at[i].srStop /\ at[i].sent # req

SenderStops(i) ==
    /\ CanSenderStop(i)
    /\ at' = [at EXCEPT ![i].snd = "done"]
    /\ UNCHANGED <<pipeVars, loopVars, n, winner, closed>>

WriteBegin(i) ==
    /\ CanSend(i)
    /\ at' = [at EXCEPT ![i].snd = "busy", ![i].hi = req]
    /\ UNCHANGED <<pipeVars, loopVars, n, winner, closed>>

\* Write returns: all of it, or less with an error (the write deadline that
\* stopSendingRequest sets, or a broken connection).
WriteReturns(i, k) ==
    /\ at[i].snd = "busy"
    /\ k \in 0 .. (at[i].hi - at[i].sent)
    /\ at' = [at EXCEPT ![i].snd = "posted",
                        ![i].res = [k |-> k, err |-> k < at[i].hi - at[i].sent],
                        ![i].got = @ \o Bytes(at[i].sent, at[i].sent + k)]
    /\ UNCHANGED <<pipeVars, loopVars, n, winner, closed>>

WriteCountedIfWhole(i) ==   \* mutant: a short write is not counted
    /\ at[i].snd = "posted"
    /\ at' = [at EXCEPT ![i].snd = IF at[i].res.err THEN "done" ELSE "wait",
                        ![i].sent = IF at[i].res.err THEN @ ELSE at[i].hi]
    /\ UNCHANGED <<pipeVars, loopVars, n, winner, closed>>

WriteCounted(i) ==
    /\ at[i].snd = "posted"
    /\ at' = [at EXCEPT ![i].snd = IF at[i].res.err THEN "done" ELSE "wait",
                        ![i].sent = @ + at[i].res.k]
    /\ UNCHANGED <<pipeVars, loopVars, n, winner, closed>>

\* context.AfterFunc: the read deadline of the remote expires.
AfterFuncRuns(i) ==
    /\ at[i].af = "armed"
    /\ at[i].cancelled
    /\ at' = [at EXCEPT ![i].af = "ran", ![i].rdl = TRUE]
    /\ UNCHANGED <<pipeVars, loopVars, n, winner, closed>>

\* stopSendingRequest and stopAfterFunc; stop() has no effect on an AfterFunc
\* whose context is done already.
StopSendingNot(r) ==   \* mutant: the sender is not told to stop
    [r EXCEPT !.af = IF @ = "armed" /\ ~r.cancelled THEN "stopped" ELSE @]

StopSending(r) ==
    [r EXCEPT !.srStop = TRUE, !.wdl = TRUE,
              !.af = IF @ = "armed" /\ ~r.cancelled THEN "stopped" ELSE @]

\* The read of the response fails: the remote closed, or the read deadline
\* that AfterFunc set has passed.
NoResponse(i) ==
    /\ at[i].st = "open"
    /\ at' = [at EXCEPT ![i] = [StopSending(@) EXCEPT !.st = "closing"]]
    /\ UNCHANGED <<pipeVars, loopVars, n, winner, closed>>

\* A response that comes too late: timer.Stop() is false, or another attempt
\* has won.
LateResponse(i) ==
    /\ at[i].st = "open"
    /\ at[i].timer = "fired" \/ winner # 0
    /\ at' = [at EXCEPT ![i] = [StopSending(@) EXCEPT !.st = "closing",
                   !.timer = IF at[i].timer = "running" THEN "stopped" ELSE at[i].timer]]
    /\ UNCHANGED <<pipeVars, loopVars, n, winner, closed>>

\* The first response: the attempt wins and asks the others to stop.
Response(i) ==
    /\ at[i].st = "open"
    /\ at[i].timer = "running"
    /\ winner = 0
    /\ winner' = i
    /\ events' = Append(events, "Response")
    /\ cl' = [cl EXCEPT !.stop = TRUE]
    /\ pipeExpired' = TRUE
    /\ at' = [at EXCEPT ![i] = [StopSending(@) EXCEPT !.st = "winning", !.timer = "stopped"]]
    /\ UNCHANGED <<clientClosed, taken, rr, req, n, attempts, closed>>

\* awaitSendingRequest and awaitAfterFunc.
QuietEarly(i) == at[i].snd = "done"   \* mutant: an AfterFunc that runs is not awaited

Quiet(i) == at[i].snd = "done" /\ at[i].af \in {"ran", "stopped"}

CanRelay(i) == at[i].st = "winning" /\ cl.done /\ rr = "done" /\ Quiet(i)

\* The winner clears the deadlines and relays, starting with the part of the
\* request it has not sent.
RelayBegins(i) ==
    /\ CanRelay(i)
    /\ pipeExpired' = FALSE
    /\ at' = [at EXCEPT ![i].st = "relay", ![i].rdl = FALSE, ![i].wdl = FALSE,
                        ![i].got = @ \o Bytes(at[i].sent, req)]
    /\ UNCHANGED <<clientClosed, taken, rr, req, loopVars, n, winner, closed>>

RelayCopies(i) ==
    /\ at[i].st = "relay"
    /\ ~clientClosed /\ ~pipeExpired /\ ~at[i].wdl
    /\ taken < MaxBytes
    /\ taken' = taken + 1
    /\ at' = [at EXCEPT ![i].got = Append(@, taken + 1)]
    /\ UNCHANGED <<clientClosed, pipeExpired, rr, req, loopVars, n, winner, closed>>

\* Relay returns; the deferred stopSendingRequest runs.
RelayEnds(i) ==
    /\ at[i].st = "relay"
    /\ at' = [at EXCEPT ![i] = [StopSending(@) EXCEPT !.st = "closing"]]
    /\ UNCHANGED <<pipeVars, loopVars, n, winner, closed>>

CanEnd(i) == at[i].st = "closing" /\ Quiet(i)

AttemptEndsUncounted(i) ==   \* mutant: connections.n is not decremented
    /\ CanEnd(i)
    /\ at' = [at EXCEPT ![i] = Finished(@)]
    /\ UNCHANGED <<pipeVars, loopVars, n, winner, closed>>

AttemptEnds(i) ==
    /\ CanEnd(i)
    /\ at' = [at EXCEPT ![i] = Finished(@)]
    /\ n' = n - 1
    /\ UNCHANGED <<pipeVars, loopVars, winner, closed>>

-----------------------------------------------------------------------------
(***************************************************************************)
(* The last goroutine: it waits for the WaitGroup, which counts every      *)
(* goroutine, every timer and AfterFunc that may still run, and the        *)
(* executor while some coroutine can run.                                  *)
(***************************************************************************)

Outstanding ==
    \/ rr # "done"
    \/ cl.timer
    \/ \E i \in Attempts : \/ at[i].st \in {"dialing", "open", "relay"}
                           \/ at[i].snd = "busy"
                           \/ at[i].af = "armed"

Runnable ==
    \/ CanStopLoop \/ CanGiveUp \/ CanDial
    \/ \E i \in Attempts : \/ CanCancel(i) \/ CanSenderStop(i) \/ CanSend(i)
                           \/ at[i].snd = "posted"
                           \/ CanRelay(i) \/ CanEnd(i)

WaitReturns ==
    /\ ~closed
    /\ ~Outstanding /\ ~Runnable
    /\ closed' = TRUE
    /\ UNCHANGED <<pipeVars, loopVars, n, at, winner>>

-----------------------------------------------------------------------------
Coroutines(i) ==
    \/ CancelLoser(i) \/ SenderStops(i) \/ WriteBegin(i) \/ WriteCounted(i)
    \/ RelayBegins(i) \/ AttemptEnds(i)

AttemptStep(i) ==
    \/ Coroutines(i) \/ TimeoutFires(i) \/ AfterFuncRuns(i)
    \/ \E c \in BOOLEAN : DialFails(i, c)
    \/ DialSucceeds(i)
    \/ \E k \in 0 .. MaxBytes : WriteReturns(i, k)
    \/ NoResponse(i) \/ LateResponse(i) \/ Response(i)
    \/ RelayCopies(i) \/ RelayEnds(i)

LoopStep == LoopStops \/ LoopGivesUp \/ NewConn \/ IntervalFires

Next ==
    \/ ClientClose
    \/ \E k \in 1 .. MaxBytes : ReadRequest(k)
    \/ ReadRequestFails
    \/ LoopStep
    \/ \E i \in Attempts : AttemptStep(i)
    \/ WaitReturns

Spec == Init /\ [][Next]_vars

\* The executor and the timers make progress. Of the blocking calls, Read and
\* Write return once their deadline is in the past: that is what net.Conn
\* promises. Nothing obliges getRemote to return when its context is done, nor
\* Relay to return when a peer has closed, and nobody has to respond or close.
Fairness ==
    /\ WF_vars(LoopStep) /\ WF_vars(ReadRequestFails) /\ WF_vars(WaitReturns)
    /\ \A i \in Attempts :
          /\ WF_vars(Coroutines(i)) /\ WF_vars(TimeoutFires(i)) /\ WF_vars(AfterFuncRuns(i))
          /\ WF_vars(at[i].wdl /\ \E k \in 0 .. MaxBytes : WriteReturns(i, k))
          /\ WF_vars(at[i].rdl /\ NoResponse(i))

FairSpec == Spec /\ Fairness
-----------------------------------------------------------------------------
(***************************************************************************)
(* Correctness properties.                                                 *)
(***************************************************************************)

\* connections.n counts exactly the attempts that have begun and not finished,
\* on every path an attempt can end.
CountExact == n = Cardinality({i \in Attempts : Active(i)})

\* "Parallel specifies the number of attempts that can be made at the same
\* time", and it does for attempts that are in flight, not only for their count.
ParallelRespected == Cardinality({i \in Attempts : Active(i)}) <= Parallel

\* Whatever was cut short by a deadline, what a remote has received is a
\* prefix of what the client sent: no byte missing, doubled or out of order;
\* and when the relay begins the winner has been given every byte read from
\* the client so far, so no byte is left with readRequest.
RequestWhole ==
    \A i \in Attempts :
        /\ at[i].got = Bytes(0, Len(at[i].got))
        /\ at[i].st = "relay" => at[i].got = Bytes(0, taken)

\* A remote that relays has no deadline left from the time before: not the
\* write deadline that stopped sendRequest, and not the read deadline that the
\* AfterFunc sets. That one races with the response: an attempt that is
\* cancelled because the conn loop is done (the request was too large, say)
\* wins all the same when its response comes before its AfterFunc has run.
RelayUncut ==
    \A i \in Attempts : at[i].st = "relay" => ~at[i].rdl /\ ~at[i].wdl

\* When the WaitGroup lets the last goroutine go, nothing is left behind:
\* both loops are done, every attempt has ended and its remote is closed, so
\* nothing is sent to the closed lifeCycleCh and no connection leaks.
ClosedMeansFinished ==
    closed => /\ rr = "done" /\ cl.done
              /\ \A i \in Attempts : ~Active(i) /\ at[i].remote # "open"

\* The life cycle reports at most one outcome: a response or that all
\* attempts were used up, never both, and never one of them twice.
OneOutcome == Len(events) <= 1

\* What nothing in NewConn can end: a relay, and a getRemote that goes on
\* although its context is done.
Stuck(i) == at[i].st = "dialing" /\ at[i].cancelled
Residue(i) == at[i].st = "relay" \/ Stuck(i)

\* The client has closed its end, or an attempt asked for the connection to be
\* closed (CloseConn) when none had won.
GaveUp == clientClosed \/ (pipeExpired /\ winner = 0)

\* From then on everything ends but what NewConn cannot end: when no relay and
\* no deaf getRemote is left, the pipe and the life cycle are closed; otherwise
\* all that remains is those, with both loops done.
ClientCloseEnds ==
    GaveUp ~> [](\/ closed
                 \/ /\ rr = "done" /\ cl.done
                    /\ \E i \in Attempts : Residue(i)
                    /\ \A i \in Attempts : Active(i) => Residue(i))

\* "tries to make a connection to remoteAddr repeatedly until success or the
\* maximum number of attempts has been made": it gets stuck before only if some
\* getRemote never returns although its attempt has timed out.
Decides ==
    <>(winner # 0 \/ cl.done) \/ \E i \in Attempts : <>[]Stuck(i)

=============================================================================
