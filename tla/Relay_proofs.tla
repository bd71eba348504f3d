---------------------------- MODULE Relay_proofs ----------------------------
(***************************************************************************)
(* Relay, for all idle timeouts and any number of reads: the channel of    *)
(* one call of Relay is never sent to once closed, Relay leaves no         *)
(* deadline behind, and the timer fires only after the whole of its        *)
(* timeout without a read.                                                 *)
(*                                                                         *)
(* Serving, for every set of connections and every back-off: the map of    *)
(* connections is exact, and CloseConnections closes what it finds in it.  *)
(***************************************************************************)
EXTENDS Relay, Serving, TLAPS

IsDone(s) == IF copy[s] = "done" THEN 1 ELSE 0

\* The counter that the copiers share counts the ones that are done, and the
\* channel is closed by the last.
CountInv ==
    /\ n = IsDone("l") + IsDone("r")
    /\ closedCh <=> n = 2

\* The loop returns after the channel is closed and drained; from then on
\* nobody is left to set a deadline.
EndInv == ended => closedCh /\ reset = <<>> /\ \A s \in Sides : ~past[s]

\* While the channel is empty the timer has not advanced further than the
\* silence has lasted. It need not hold while the channel holds something: then
\* the timer is about to be restarted.
TimerInv ==
    /\ expired => left = 0
    /\ (reset = <<>> /\ left > 0) => left + quiet >= td

IInv == TypeOK /\ CountInv /\ EndInv /\ TimerInv

LEMMA InitIInv == Init => IInv
<1> SUFFICES ASSUME Init PROVE IInv
  OBVIOUS
<1>1. TypeOK
  <2>1. copy \in [Sides -> CopyStates] /\ past \in [Sides -> BOOLEAN]
    BY DEF Init, CopyStates
  <2>2. left \in Nat /\ quiet \in Nat /\ reads \in 0 .. MaxReads /\ overrides \in 0 .. MaxOverrides
        /\ n \in 0 .. 2
    BY IdleAssumption, BoundAssumption DEF Init
  <2> QED BY <2>1, <2>2 DEF Init, TypeOK
<1>2. CountInv /\ EndInv /\ TimerInv
  BY IdleAssumption DEF Init, CountInv, IsDone, EndInv, TimerInv, Sides
<1> QED BY <1>1, <1>2 DEF IInv

\* What IdleAfter sends is a timeout, never the mark of activity.
LEMMA IdleAfterType ==
  ASSUME NEW s \in Sides
  PROVE  IdleAfter(s) \in {UplinkIdle, DownlinkIdle}
BY DEF IdleAfter

\* A copier that moves without being done, leaving the loop and the channel
\* alone.
LEMMA MoveKeeps ==
  ASSUME IInv, NEW s \in Sides, NEW place \in CopyStates \ {"done"},
         copy[s] # "done", Goto(s, place),
         UNCHANGED <<past, reset, n, closedCh, reads, quiet, loopVars>>
  PROVE  IInv'
<1>1. TypeOK'
  BY DEF IInv, TypeOK, Goto, loopVars
<1>2. CountInv'
  BY DEF IInv, TypeOK, CountInv, IsDone, Goto, Sides
<1>3. EndInv' /\ TimerInv'
  BY DEF IInv, EndInv, TimerInv, loopVars
<1> QED BY <1>1, <1>2, <1>3 DEF IInv

\* A copier that is not done can be sure that Relay has not returned.
LEMMA BusyNotEnded ==
  ASSUME IInv, NEW s \in Sides, copy[s] # "done"
  PROVE  ~closedCh /\ ~ended
BY DEF IInv, CountInv, IsDone, EndInv, Sides

LEMMA CopierKeeps ==
  ASSUME IInv, NEW s \in Sides,
         \/ ReadData(s) \/ ReadEOF(s) \/ ReadFails(s)
         \/ WriteReturns(s) \/ WriteFails(s) \/ CopyStep(s)
  PROVE  IInv'
<1>1. ASSUME ReadData(s) PROVE IInv'
  <2>1. copy[s] = "read" /\ copy' = [copy EXCEPT ![s] = "write"] /\ quiet' = 0
        /\ reset' = (IF reset = <<>> THEN <<Activity>> ELSE reset)
        /\ reads < MaxReads /\ reads' = reads + 1
        /\ UNCHANGED <<past, n, closedCh, left, td, expired, ended, overrides>>
    BY <1>1 DEF ReadData, Goto, loopVars
  <2>2. reset' # <<>>
    BY <2>1
  <2>3. TypeOK'
    BY <2>1, BoundAssumption DEF IInv, TypeOK, CopyStates
  <2>4. CountInv'
    BY <2>1 DEF IInv, TypeOK, CountInv, IsDone, Sides
  <2>5. EndInv' /\ TimerInv'
    BY <2>1, <2>2, BusyNotEnded DEF IInv, EndInv, TimerInv
  <2> QED BY <2>3, <2>4, <2>5 DEF IInv
<1>2. ASSUME SendIdle(s) PROVE IInv'
  <2>1. copy[s] = "eof" /\ copy' = [copy EXCEPT ![s] = "closing"] /\ quiet' = 0
        /\ reset' = <<IdleAfter(s)>>
        /\ UNCHANGED <<past, n, closedCh, reads, left, td, expired, ended, overrides>>
    BY <1>2 DEF SendIdle, Goto, loopVars
  <2>2. reset' # <<>>
    BY <2>1
  <2>3. TypeOK'
    BY <2>1, IdleAfterType DEF IInv, TypeOK, CopyStates
  <2>4. CountInv'
    BY <2>1 DEF IInv, TypeOK, CountInv, IsDone, Sides
  <2>5. EndInv' /\ TimerInv'
    BY <2>1, <2>2, BusyNotEnded DEF IInv, EndInv, TimerInv
  <2> QED BY <2>3, <2>4, <2>5 DEF IInv
<1>3. ASSUME ExpireOther(s) PROVE IInv'
  <2>1. copy[s] = "failed" /\ copy' = [copy EXCEPT ![s] = "closing"]
        /\ past' = [past EXCEPT ![Other(s)] = TRUE]
        /\ UNCHANGED <<reset, n, closedCh, reads, quiet, left, td, expired, ended, overrides>>
    BY <1>3 DEF ExpireOther, Goto, loopVars
  <2>2. TypeOK'
    BY <2>1 DEF IInv, TypeOK, CopyStates
  <2>3. CountInv'
    BY <2>1 DEF IInv, TypeOK, CountInv, IsDone, Sides
  <2>4. EndInv' /\ TimerInv'
    BY <2>1, BusyNotEnded DEF IInv, EndInv, TimerInv
  <2> QED BY <2>2, <2>3, <2>4 DEF IInv
<1>4. ASSUME Done(s) PROVE IInv'
  <2>1. copy[s] = "closing" /\ copy' = [copy EXCEPT ![s] = "done"]
        /\ n' = n + 1 /\ closedCh' = (n + 1 = 2)
        /\ UNCHANGED <<past, reset, reads, quiet, left, td, expired, ended, overrides>>
    BY <1>4 DEF Done, Goto, loopVars
  <2>2. n \in 0 .. 1
    BY <2>1 DEF IInv, CountInv, IsDone, Sides
  <2>3. TypeOK'
    BY <2>1, <2>2 DEF IInv, TypeOK, CopyStates
  <2>4. CountInv'
    <3>1. n' = IsDone("l")' + IsDone("r")'
      BY <2>1, <2>2 DEF IInv, TypeOK, CountInv, IsDone, Sides
    <3>2. closedCh' <=> n' = 2
      BY <2>1
    <3> QED BY <3>1, <3>2 DEF CountInv
  <2>5. EndInv' /\ TimerInv'
    BY <2>1, BusyNotEnded DEF IInv, EndInv, TimerInv
  <2> QED BY <2>3, <2>4, <2>5 DEF IInv
<1>5. ASSUME ReadEOF(s) \/ ReadFails(s) \/ ReadExpires(s) \/ WriteReturns(s) \/ WriteFails(s)
      PROVE  IInv'
  BY <1>5, MoveKeeps DEF ReadEOF, ReadFails, ReadExpires, WriteReturns, WriteFails, CopyStates
<1> QED BY <1>1, <1>2, <1>3, <1>4, <1>5 DEF CopyStep

\* The loop, the timer and the owner of the remote.
LEMMA LoopKeeps ==
  ASSUME IInv, Tick \/ LoopStep \/ SetOutgoingConn
  PROVE  IInv'
<1>1. ASSUME Tick PROVE IInv'
  <2>1. left > 0 /\ reset = <<>> /\ ~ended /\ left' = left - 1 /\ quiet' = quiet + 1
        /\ UNCHANGED <<copy, past, reset, n, closedCh, td, expired, ended, reads, overrides>>
    BY <1>1 DEF Tick
  <2>2. TypeOK' /\ TimerInv'
    BY <2>1, IdleAssumption DEF IInv, TypeOK, TimerInv
  <2>3. CountInv' /\ EndInv'
    BY <2>1 DEF IInv, CountInv, IsDone, EndInv
  <2> QED BY <2>2, <2>3 DEF IInv
<1>2. ASSUME Expire PROVE IInv'
  BY <1>2 DEF Expire, copyVars, IInv, TypeOK, CountInv, IsDone, EndInv, TimerInv
<1>3. ASSUME Take PROVE IInv'
  <2>1. ~ended /\ reset # <<>> /\ reset' = <<>>
        /\ td' = (IF Head(reset) >= 0 THEN Head(reset) ELSE td)
        /\ left' = (IF expired THEN left ELSE td')
        /\ UNCHANGED <<copy, n, closedCh, reads, quiet, past, expired, ended, overrides>>
    BY <1>3 DEF Take, copyVars
  <2>2. PICK v \in {Activity, UplinkIdle, DownlinkIdle} : reset = <<v>>
    BY <2>1 DEF IInv, TypeOK
  <2>3. td' \in {ConnIdle, UplinkIdle, DownlinkIdle}
    BY <2>1, <2>2, IdleAssumption DEF IInv, TypeOK, Activity
  <2>4. TypeOK' /\ TimerInv'
    BY <2>1, <2>3, IdleAssumption DEF IInv, TypeOK, TimerInv
  <2>5. CountInv' /\ EndInv'
    BY <2>1 DEF IInv, CountInv, IsDone, EndInv
  <2> QED BY <2>4, <2>5 DEF IInv
<1>4. ASSUME Return PROVE IInv'
  BY <1>4 DEF Return, copyVars, IInv, TypeOK, CountInv, IsDone, EndInv, TimerInv
<1>5. ASSUME SetOutgoingConn PROVE IInv'
  <2>1. ~ended /\ past' = [past EXCEPT !["r"] = FALSE]
        /\ overrides < MaxOverrides /\ overrides' = overrides + 1
        /\ UNCHANGED <<copy, n, closedCh, reads, quiet, reset, left, td, expired, ended>>
    BY <1>5 DEF SetOutgoingConn, copyVars
  <2>2. overrides' \in 0 .. MaxOverrides
    BY <2>1, BoundAssumption DEF IInv, TypeOK
  <2>3. past' \in [Sides -> BOOLEAN]
    BY <2>1 DEF IInv, TypeOK
  <2>4. TypeOK'
    BY <2>1, <2>2, <2>3 DEF IInv, TypeOK
  <2>5. CountInv' /\ EndInv' /\ TimerInv'
    BY <2>1 DEF IInv, CountInv, IsDone, EndInv, TimerInv
  <2> QED BY <2>4, <2>5 DEF IInv
<1> QED BY <1>1, <1>2, <1>3, <1>4, <1>5 DEF LoopStep

LEMMA StepIInv ==
  ASSUME IInv, [Next]_vars
  PROVE  IInv'
<1>1. CASE UNCHANGED vars
  BY <1>1 DEF vars, IInv, TypeOK, CountInv, IsDone, EndInv, TimerInv
<1>2. CASE Next
  BY <1>2, CopierKeeps, LoopKeeps DEF Next
<1> QED BY <1>1, <1>2

LEMMA SpecIInv == Spec => []IInv
<1>1. Init => IInv
  BY InitIInv
<1>2. IInv /\ [Next]_vars => IInv'
  BY StepIInv
<1> QED BY <1>1, <1>2, PTL DEF Spec

-----------------------------------------------------------------------------
\* No copier that may still report to the loop finds the channel closed: a
\* send on a closed channel would panic. The counter that done increments
\* under the mutex is exact (CountInv).
THEOREM NeverSendsOnClosed == Spec => []NoSendOnClosed
<1>1. IInv => NoSendOnClosed
  BY DEF IInv, CountInv, IsDone, NoSendOnClosed, Sides
<1> QED BY <1>1, SpecIInv, PTL

\* Once Relay has returned both copiers are done and neither connection has a
\* deadline that Relay has set, or will set.
THEOREM LeavesNoDeadline == Spec => []ReturnsClean
<1>1. IInv => ReturnsClean
  BY DEF IInv, CountInv, IsDone, EndInv, ReturnsClean, Sides
<1> QED BY <1>1, SpecIInv, PTL

\* The timer of Relay fires only when nothing was read for the whole of the
\* timeout in force, for every timeout: a report that do(-1) drops because the
\* channel is full is made up for by the one that fills it.
THEOREM FiresAfterTimeout == Spec => FiresOnlyWhenIdle
<1>1. ASSUME IInv, [Next]_vars, left > 0, left' = 0
      PROVE  quiet' >= td'
  <2>1. CASE Tick
    BY <1>1, <2>1, IdleAssumption DEF Tick, IInv, TypeOK, TimerInv
  <2>2. CASE Take
    <3>1. left' = td' /\ quiet' = quiet
      BY <1>1, <2>2 DEF Take, copyVars, IInv, TimerInv
    <3> QED BY <1>1, <3>1 DEF IInv, TypeOK
  <2>3. CASE UNCHANGED left
    BY <1>1, <2>3
  <2>4. Tick \/ Take \/ UNCHANGED left
    BY <1>1 DEF Next, CopyStep, LoopStep, vars, loopVars, ReadData, ReadEOF, ReadFails, WriteReturns,
                WriteFails, SendIdle, ExpireOther, Done, ReadExpires, Expire, Return, SetOutgoingConn
  <2> QED BY <2>1, <2>2, <2>3, <2>4
<1>2. IInv /\ [Next]_vars => [(left > 0 /\ left' = 0) => quiet' >= td']_vars
  BY <1>1
<1> QED BY <1>2, SpecIInv, PTL DEF Spec, FiresOnlyWhenIdle

-----------------------------------------------------------------------------
(***************************************************************************)
(* Serving: the accept loop, the goroutines and CloseConnections.          *)
(***************************************************************************)

ServingType ==
    /\ serve \in ServeStates
    /\ cur \in Conns \cup {NoConn}
    /\ st \in [Conns -> ConnStates]
    /\ map \subseteq Conns

\* The connection Accept has returned has no goroutine yet; it is in the map
\* before it gets one.
CurInv ==
    /\ serve \in {"accepted", "stored"} => cur \in Conns /\ st[cur] = "accepted"
    /\ serve = "stored" => cur \in map

\* A goroutine closes its connection before it removes it from the map.
ConnInv ==
    \A c \in Conns : /\ st[c] \in {"handling", "returned"} => c \in map
                     /\ st[c] \in {"closed", "gone"} => c \in closed
                     /\ st[c] = "gone" => c \notin map

\* What Range has yet to visit is owed; what is owed and was visited is closed,
\* and so is what has left the map meanwhile.
ShutInv ==
    /\ todo \subseteq owed
    /\ owed \subseteq Conns
    /\ owed \subseteq todo \cup closed
    /\ owed \subseteq map \cup closed
    /\ shut = "down" => todo = {}

ServingInv == ServingType /\ CurInv /\ ConnInv /\ ShutInv

LEMMA ServingInit == ServeInit => ServingInv
  BY DEF ServeInit, ServingInv, ServingType, CurInv, ConnInv, ShutInv, ServeStates, ConnStates

\* The accept loop.
LEMMA ServeKeeps ==
  ASSUME ServingInv,
         \/ AcceptTemporaryError \/ AcceptError \/ Wake \/ Store \/ Go
         \/ \E c \in Conns : Accept(c)
  PROVE  ServingInv'
<1>1. ASSUME NEW c \in Conns, Accept(c) PROVE ServingInv'
  <2>1. st' = [st EXCEPT ![c] = "accepted"] /\ st[c] = "new" /\ cur' = c /\ serve' = "accepted"
        /\ UNCHANGED <<map, closed, todo, owed, shut>>
    BY <1>1 DEF Accept, shutVars
  <2>2. ServingType'
    BY <2>1 DEF ServingInv, ServingType, ServeStates, ConnStates
  <2>3. CurInv'
    BY <2>1 DEF ServingInv, ServingType, CurInv
  <2>4. ConnInv'
    BY <2>1 DEF ServingInv, ServingType, ConnInv
  <2>5. ShutInv'
    BY <2>1 DEF ServingInv, ShutInv
  <2> QED BY <2>2, <2>3, <2>4, <2>5 DEF ServingInv
<1>2. ASSUME Store PROVE ServingInv'
  <2>1. map' = map \cup {cur} /\ serve = "accepted" /\ serve' = "stored"
        /\ UNCHANGED <<cur, st, closed, todo, owed, shut>>
    BY <1>2 DEF Store, shutVars
  <2>2. cur \in Conns /\ st[cur] = "accepted"
    BY <2>1 DEF ServingInv, CurInv
  <2>3. ServingType' /\ CurInv'
    BY <2>1, <2>2 DEF ServingInv, ServingType, CurInv, ServeStates
  <2>4. ConnInv'
    BY <2>1, <2>2 DEF ServingInv, ConnInv
  <2>5. ShutInv'
    BY <2>1 DEF ServingInv, ShutInv
  <2> QED BY <2>3, <2>4, <2>5 DEF ServingInv
<1>3. ASSUME Go PROVE ServingInv'
  <2>1. st' = [st EXCEPT ![cur] = "handling"] /\ serve = "stored" /\ serve' = "accept"
        /\ cur' = NoConn /\ UNCHANGED <<map, closed, todo, owed, shut>>
    BY <1>3 DEF Go, shutVars
  <2>2. cur \in Conns /\ cur \in map
    BY <2>1 DEF ServingInv, CurInv
  <2>3. ServingType' /\ CurInv'
    BY <2>1, <2>2 DEF ServingInv, ServingType, CurInv, ServeStates, ConnStates
  <2>4. ConnInv'
    BY <2>1, <2>2 DEF ServingInv, ServingType, ConnInv
  <2>5. ShutInv'
    BY <2>1 DEF ServingInv, ShutInv
  <2> QED BY <2>3, <2>4, <2>5 DEF ServingInv
<1>4. ASSUME AcceptTemporaryError \/ AcceptError \/ Wake PROVE ServingInv'
  BY <1>4 DEF AcceptTemporaryError, AcceptError, Wake, shutVars,
              ServingInv, ServingType, CurInv, ConnInv, ShutInv, ServeStates
<1> QED BY <1>1, <1>2, <1>3, <1>4

\* The goroutine of a connection.
LEMMA ConnKeeps ==
  ASSUME ServingInv, NEW c \in Conns, Handled(c) \/ ConnStep(c)
  PROVE  ServingInv'
<1>1. ASSUME Handled(c) PROVE ServingInv'
  <2>1. st[c] = "handling" /\ st' = [st EXCEPT ![c] = "returned"]
        /\ UNCHANGED <<serve, cur, map, closed, todo, owed, shut>>
    BY <1>1 DEF Handled, serveVars, shutVars
  <2>2. ServingType' /\ CurInv'
    BY <2>1 DEF ServingInv, ServingType, CurInv, ConnStates
  <2>3. ConnInv'
    BY <2>1 DEF ServingInv, ServingType, ConnInv
  <2>4. ShutInv'
    BY <2>1 DEF ServingInv, ShutInv
  <2> QED BY <2>2, <2>3, <2>4 DEF ServingInv
<1>2. ASSUME Close(c) PROVE ServingInv'
  <2>1. st[c] = "returned" /\ st' = [st EXCEPT ![c] = "closed"] /\ closed' = closed \cup {c}
        /\ UNCHANGED <<serve, cur, map, todo, owed, shut>>
    BY <1>2 DEF Close, serveVars, shutVars
  <2>2. ServingType' /\ CurInv'
    BY <2>1 DEF ServingInv, ServingType, CurInv, ConnStates
  <2>3. ConnInv'
    BY <2>1 DEF ServingInv, ServingType, ConnInv
  <2>4. ShutInv'
    BY <2>1 DEF ServingInv, ShutInv
  <2> QED BY <2>2, <2>3, <2>4 DEF ServingInv
<1>3. ASSUME Delete(c) PROVE ServingInv'
  <2>1. st[c] = "closed" /\ st' = [st EXCEPT ![c] = "gone"] /\ map' = map \ {c}
        /\ UNCHANGED <<serve, cur, closed, todo, owed, shut>>
    BY <1>3 DEF Delete, serveVars, shutVars
  <2>2. c \in closed
    BY <2>1 DEF ServingInv, ConnInv
  <2>3. ServingType' /\ CurInv'
    BY <2>1 DEF ServingInv, ServingType, CurInv, ConnStates
  <2>4. ConnInv'
    BY <2>1, <2>2 DEF ServingInv, ServingType, ConnInv
  <2>5. ShutInv'
    BY <2>1, <2>2 DEF ServingInv, ShutInv
  <2> QED BY <2>3, <2>4, <2>5 DEF ServingInv
<1> QED BY <1>1, <1>2, <1>3 DEF ConnStep

\* The goroutine that runs Shutdown.
LEMMA ShutKeeps ==
  ASSUME ServingInv, StopJobs \/ ShutStep
  PROVE  ServingInv'
<1>1. ASSUME StopJobs \/ CloseConnections \/ ShutdownReturns PROVE ServingInv'
  BY <1>1 DEF StopJobs, CloseConnections, ShutdownReturns, serveVars,
              ServingInv, ServingType, CurInv, ConnInv, ShutInv
<1>2. ASSUME NEW c \in Conns, CloseVisited(c) PROVE ServingInv'
  BY <1>2 DEF CloseVisited, serveVars, ServingInv, ServingType, CurInv, ConnInv, ShutInv
<1>3. ASSUME NEW c \in Conns, SkipDeleted(c) PROVE ServingInv'
  BY <1>3 DEF SkipDeleted, serveVars, ServingInv, ServingType, CurInv, ConnInv, ShutInv
<1> QED BY <1>1, <1>2, <1>3 DEF ShutStep

LEMMA ServingStep ==
  ASSUME ServingInv, [ServeNext]_servingVars
  PROVE  ServingInv'
<1>1. CASE UNCHANGED servingVars
  BY <1>1 DEF servingVars, ServingInv, ServingType, CurInv, ConnInv, ShutInv
<1>2. CASE ServeNext
  BY <1>2, ServeKeeps, ConnKeeps, ShutKeeps DEF ServeNext, ServeStep
<1> QED BY <1>1, <1>2

LEMMA ServingInductive == ServeSpec => []ServingInv
<1>1. ServeInit => ServingInv
  BY ServingInit
<1>2. ServingInv /\ [ServeNext]_servingVars => ServingInv'
  BY ServingStep
<1> QED BY <1>1, <1>2, PTL DEF ServeSpec

\* In Serve, a connection is stored before its goroutine starts and deleted
\* after it is closed: the map never lacks a connection that is being handled
\* and never keeps one that is over.
THEOREM MapIsExact == ServeSpec => []MapExact
<1>1. ServingInv => MapExact
  BY DEF ServingInv, ConnInv, MapExact
<1> QED BY <1>1, ServingInductive, PTL

\* CloseConnections closes every connection that it finds, although handlers
\* return and delete keys while Range goes on.
THEOREM ClosesAll == ServeSpec => []ClosesWhatItFinds
<1>1. ServingInv => ClosesWhatItFinds
  BY DEF ServingInv, ShutInv, ClosesWhatItFinds
<1> QED BY <1>1, ServingInductive, PTL
=============================================================================
