------------------------------- MODULE Relay -------------------------------
(***************************************************************************)
(* One call of Relay (relay.go): two copying goroutines and the loop that  *)
(* watches over their idleness with a timer and a channel of capacity 1.   *)
(*                                                                         *)
(* Time is counted in ticks. The loop is prompt: no tick passes while the  *)
(* channel holds something it has yet to take.                             *)
(***************************************************************************)
EXTENDS Integers, Sequences

CONSTANTS
    ConnIdle,      \* opts.ConnIdle
    UplinkIdle,    \* opts.UplinkIdle
    DownlinkIdle,  \* opts.DownlinkIdle
    MaxReads,      \* bound: reads that return data, of both sides together
    MaxOverrides   \* bound: calls of setOutgoingConn or SetOutgoingTimeout

ASSUME IdleAssumption == ConnIdle \in Nat \ {0} /\ UplinkIdle \in Nat /\ DownlinkIdle \in Nat
ASSUME BoundAssumption == MaxReads \in Nat /\ MaxOverrides \in Nat

VARIABLES
    copy,       \* where the goroutine that reads from each side is
    past,       \* past[s]: the read deadline of side s is in the past
    reset,      \* the channel's buffer
    n,          \* how many copiers have called done
    closedCh,   \* reset is closed
    left,       \* ticks until the timer fires, 0 once it has
    td,         \* the current timeout
    expired,    \* the loop has seen the timer fire
    ended,      \* Relay has returned
    reads,      \* how many reads have returned data
    quiet,      \* history: ticks since the last read, or since an end of file was
                \* reported
    overrides   \* how many times the remote's deadline was reset from outside

vars == <<copy, past, reset, n, closedCh, left, td, expired, ended, reads, quiet, overrides>>

Sides == {"l", "r"}
Other(s) == IF s = "l" THEN "r" ELSE "l"

\* copy(l, r, UplinkIdle) reads from r, copy(r, l, DownlinkIdle) from l.
IdleAfter(s) == IF s = "r" THEN UplinkIdle ELSE DownlinkIdle

Activity == -1   \* what do sends; a timeout is never negative

CopyStates == {"read",     \* in src.Read
               "write",    \* in dst.Write
               "eof",      \* CopyBuffer returned nil, about to send idle
               "failed",   \* CopyBuffer returned an error
               "closing",  \* about to call done
               "done"}

Init ==
    /\ copy = [s \in Sides |-> "read"]
    /\ past = [s \in Sides |-> FALSE]
    /\ reset = <<>>
    /\ n = 0
    /\ closedCh = FALSE
    /\ left = ConnIdle
    /\ td = ConnIdle
    /\ expired = FALSE
    /\ ended = FALSE
    /\ reads = 0
    /\ quiet = 0
    /\ overrides = 0

-----------------------------------------------------------------------------
(***************************************************************************)
(* The goroutine that copies from side s to the other side.                *)
(***************************************************************************)

loopVars == <<left, td, expired, ended, overrides>>

Goto(s, st) == copy' = [copy EXCEPT ![s] = st]

ReadSilent(s) ==   \* mutant: reads are not reported
    /\ copy[s] = "read" /\ ~past[s]
    /\ reads < MaxReads
    /\ reads' = reads + 1
    /\ quiet' = 0
    /\ Goto(s, "write")
    /\ UNCHANGED <<past, reset, n, closedCh, loopVars>>

\* Read returns data: do(-1) is a send that gives up when the buffer is full.
ReadData(s) ==
    /\ copy[s] = "read" /\ ~past[s]
    /\ reads < MaxReads
    /\ reads' = reads + 1
    /\ quiet' = 0
    /\ reset' = IF reset = <<>> THEN <<Activity>> ELSE reset
    /\ Goto(s, "write")
    /\ UNCHANGED <<past, n, closedCh, loopVars>>

ReadEOF(s) ==
    /\ copy[s] = "read" /\ ~past[s]
    /\ Goto(s, "eof")
    /\ UNCHANGED <<past, reset, n, closedCh, reads, quiet, loopVars>>

\* Read fails: its deadline has passed, or the connection is broken.
ReadExpires(s) ==
    /\ copy[s] = "read"
    /\ past[s]
    /\ Goto(s, "failed")
    /\ UNCHANGED <<past, reset, n, closedCh, reads, quiet, loopVars>>

ReadFails(s) ==
    /\ copy[s] = "read"
    /\ Goto(s, "failed")
    /\ UNCHANGED <<past, reset, n, closedCh, reads, quiet, loopVars>>

WriteReturns(s) ==
    /\ copy[s] = "write"
    /\ Goto(s, "read")
    /\ UNCHANGED <<past, reset, n, closedCh, reads, quiet, loopVars>>

WriteFails(s) ==
    /\ copy[s] = "write"
    /\ Goto(s, "failed")
    /\ UNCHANGED <<past, reset, n, closedCh, reads, quiet, loopVars>>

\* reset <- idle blocks while the buffer is full.
SendIdle(s) ==
    /\ copy[s] = "eof"
    /\ reset = <<>>
    /\ reset' = <<IdleAfter(s)>>
    /\ quiet' = 0
    /\ Goto(s, "closing")
    /\ UNCHANGED <<past, n, closedCh, reads, loopVars>>

ExpireNobody(s) ==   \* mutant: a failure is not passed on
    /\ copy[s] = "failed"
    /\ Goto(s, "closing")
    /\ UNCHANGED <<past, reset, n, closedCh, reads, quiet, loopVars>>

\* dst.SetReadDeadline(aLongTimeAgo): dst is what the other copier reads.
ExpireOther(s) ==
    /\ copy[s] = "failed"
    /\ past' = [past EXCEPT ![Other(s)] = TRUE]
    /\ Goto(s, "closing")
    /\ UNCHANGED <<reset, n, closedCh, reads, quiet, loopVars>>

DoneEarly(s) ==   \* mutant: the first copier closes the channel
    /\ copy[s] = "closing"
    /\ n' = n + 1
    /\ closedCh' = TRUE
    /\ Goto(s, "done")
    /\ UNCHANGED <<past, reset, reads, quiet, loopVars>>

\* done: the second copier closes the channel.
Done(s) ==
    /\ copy[s] = "closing"
    /\ n' = n + 1
    /\ closedCh' = (n + 1 = 2)
    /\ Goto(s, "done")
    /\ UNCHANGED <<past, reset, reads, quiet, loopVars>>

-----------------------------------------------------------------------------
(***************************************************************************)
(* The loop, the timer, and the owner of the remote connection.            *)
(***************************************************************************)

copyVars == <<copy, n, closedCh, reads, quiet>>

Tick ==
    /\ ~ended
    /\ left > 0
    /\ reset = <<>>
    /\ left' = left - 1
    /\ quiet' = quiet + 1
    /\ UNCHANGED <<copy, past, reset, n, closedCh, td, expired, ended, reads, overrides>>

ExpireLocal ==   \* mutant: only the local side gets a deadline
    /\ ~ended /\ ~expired
    /\ left = 0
    /\ expired' = TRUE
    /\ past' = [past EXCEPT !["l"] = TRUE]
    /\ UNCHANGED <<copyVars, reset, left, td, ended, overrides>>

\* case <-t.C
Expire ==
    /\ ~ended /\ ~expired
    /\ left = 0
    /\ expired' = TRUE
    /\ past' = [s \in Sides |-> TRUE]
    /\ UNCHANGED <<copyVars, reset, left, td, ended, overrides>>

\* case d, ok := <-reset, with a value. Reset(td) restarts the timer and
\* discards a tick that was not received.
Take ==
    /\ ~ended
    /\ reset # <<>>
    /\ reset' = <<>>
    /\ td' = IF Head(reset) >= 0 THEN Head(reset) ELSE td
    /\ left' = IF expired THEN left ELSE td'
    /\ UNCHANGED <<copyVars, past, expired, ended, overrides>>

ReturnUncleared ==   \* mutant: the deadlines are left as they are
    /\ ~ended
    /\ closedCh /\ reset = <<>>
    /\ ended' = TRUE
    /\ UNCHANGED <<copyVars, past, reset, left, td, expired, overrides>>

\* case d, ok := <-reset, closed and drained
Return ==
    /\ ~ended
    /\ closedCh /\ reset = <<>>
    /\ ended' = TRUE
    /\ past' = [s \in Sides |-> FALSE]
    /\ UNCHANGED <<copyVars, reset, left, td, expired, overrides>>

\* Conn.setOutgoingConn, which NewConn calls after it has started Relay, and
\* Conn.SetOutgoingTimeout: with no timeout they clear the remote's deadline.
SetOutgoingConn ==
    /\ ~ended
    /\ overrides < MaxOverrides
    /\ overrides' = overrides + 1
    /\ past' = [past EXCEPT !["r"] = FALSE]
    /\ UNCHANGED <<copyVars, reset, left, td, expired, ended>>

-----------------------------------------------------------------------------
\* What a copier does by itself, without waiting for a peer.
CopyStep(s) == SendIdle(s) \/ ExpireOther(s) \/ Done(s) \/ ReadExpires(s)

LoopStep == Expire \/ Take \/ Return

Next ==
    \/ \E s \in Sides : \/ ReadData(s) \/ ReadEOF(s) \/ ReadFails(s)
                        \/ WriteReturns(s) \/ WriteFails(s)
                        \/ CopyStep(s)
    \/ Tick \/ LoopStep
    \/ SetOutgoingConn

Spec == Init /\ [][Next]_vars

\* The three goroutines make progress. No time needs to pass, peers may stop
\* sending, and a peer that does not read blocks a Write for as long as it likes:
\* Relay sets read deadlines only.
Fairness == WF_vars(LoopStep) /\ \A s \in Sides : WF_vars(CopyStep(s))

FairSpec == Spec /\ Fairness

-----------------------------------------------------------------------------
(***************************************************************************)
(* Correctness properties.                                                 *)
(***************************************************************************)

\* Every variable has its type.
TypeOK ==
    /\ copy \in [Sides -> CopyStates]
    /\ past \in [Sides -> BOOLEAN]
    /\ reset \in {<<>>} \cup {<<v>> : v \in {Activity, UplinkIdle, DownlinkIdle}}
    /\ n \in 0 .. 2
    /\ closedCh \in BOOLEAN /\ expired \in BOOLEAN /\ ended \in BOOLEAN
    /\ td \in {ConnIdle, UplinkIdle, DownlinkIdle}
    /\ left \in Nat /\ quiet \in Nat
    /\ reads \in 0 .. MaxReads /\ overrides \in 0 .. MaxOverrides

\* "remains idle (no reads) for the duration": when the timer has fired, no
\* side had been read from for the whole of the timeout in force, although
\* do(-1) drops its value when the buffer is full.
FiresOnlyWhenIdle == [][(left > 0 /\ left' = 0) => quiet' >= td']_vars

\* The channel is closed once, after the last send: no copier that may still
\* send to it finds it closed.
NoSendOnClosed == closedCh => \A s \in Sides : copy[s] = "done"

\* Relay returns only when both copiers are done, and from then on both
\* connections are free of the deadlines it set, for whoever uses them next.
ReturnsClean == ended => \A s \in Sides : copy[s] = "done" /\ ~past[s]

\* What can be left of a Relay that is to end: copiers whose peer does not read.
InWrite == \E s \in Sides : copy[s] = "write"

\* "If both connections remain idle (no reads) for the duration of ConnIdle, both
\* are closed and Relay ends": once the timer has struck, Relay returns.
ExpiredEnds == expired ~> ended

\* When the timer strikes, nothing but a Write can keep Relay from returning,
\* whichever side was being read or had ended, unless a read that was reported
\* just before restarts the timer or the owner of the remote resets its deadline.
ExpiredLeavesWrites ==
    \A k \in 0 .. MaxOverrides :
        (left = 0 /\ ~expired /\ overrides = k)
            ~> [](~expired \/ ended \/ InWrite \/ overrides > k)

\* When one direction fails, the other one ends too, without the idle timeout
\* having to pass (no fairness of Tick is assumed), and Relay returns, with the
\* same two provisos.
FailureEnds ==
    \A s \in Sides, k \in 0 .. MaxOverrides :
        (copy[s] = "failed" /\ overrides = k) ~> [](ended \/ InWrite \/ overrides > k)
=============================================================================
