---------------------------- MODULE Conn_proofs -----------------------------
(***************************************************************************)
(* For every number of attempts, every Parallel and every request: one     *)
(* call of NewConn sends each remote the client's bytes in order, reports  *)
(* one outcome, and leaves nothing behind when its last goroutine ends.    *)
(***************************************************************************)
EXTENDS Conn, FiniteSetTheorems, SequenceTheorems, TLAPS

-----------------------------------------------------------------------------
(***************************************************************************)
(* The bytes of the client.                                                *)
(***************************************************************************)

LEMMA BytesType ==
  ASSUME NEW i \in Nat, NEW j \in i .. MaxBytes
  PROVE  /\ Bytes(i, j) \in Seq(1 .. MaxBytes)
         /\ Len(Bytes(i, j)) = j - i
<1>1. j \in Nat /\ j - i \in Nat
  BY BytesAssumption
<1>2. \A k \in 1 .. (j - i) : i + k \in 1 .. MaxBytes
  BY BytesAssumption
<1>3. Bytes(i, j) \in [1 .. (j - i) -> 1 .. MaxBytes]
  BY <1>2 DEF Bytes
<1>4. Bytes(i, j) \in Seq(1 .. MaxBytes)
  BY <1>1, <1>3, SeqDef
<1> QED BY <1>1, <1>3, <1>4, LenProperties

\* What was written continues what was written before.
LEMMA BytesCat ==
  ASSUME NEW i \in 0 .. MaxBytes, NEW j \in i .. MaxBytes
  PROVE  Bytes(0, i) \o Bytes(i, j) = Bytes(0, j)
<1> DEFINE a == Bytes(0, i)  b == Bytes(i, j)  c == Bytes(0, j)
<1>1. i \in Nat /\ j \in Nat /\ i <= j /\ j <= MaxBytes /\ MaxBytes \in Nat
  BY BytesAssumption
<1>2. a \in Seq(1 .. MaxBytes) /\ Len(a) = i
  BY <1>1, BytesType
<1>3. b \in Seq(1 .. MaxBytes) /\ Len(b) = j - i
  BY <1>1, BytesType
<1>4. c \in Seq(1 .. MaxBytes) /\ Len(c) = j
  BY <1>1, BytesType
<1> HIDE DEF a, b, c
<1>5. a \o b \in Seq(1 .. MaxBytes) /\ Len(a \o b) = j
  <2>1. a \o b \in Seq(1 .. MaxBytes) /\ Len(a \o b) = Len(a) + Len(b)
    BY <1>2, <1>3, ConcatProperties
  <2> QED BY <2>1, <1>1, <1>2, <1>3
<1>6. ASSUME NEW k \in 1 .. j PROVE (a \o b)[k] = c[k]
  <2>1. (a \o b)[k] = IF k <= i THEN a[k] ELSE b[k - i]
    BY <1>1, <1>2, <1>3, <1>5, ConcatProperties
  <2>2. c[k] = k
    BY <1>1 DEF Bytes, c
  <2>3. k <= i => a[k] = k
    BY <1>1 DEF Bytes, a
  <2>4. ~(k <= i) => b[k - i] = k
    BY <1>1 DEF Bytes, b
  <2> QED BY <2>1, <2>2, <2>3, <2>4
<1>7. a \o b = c
  BY <1>4, <1>5, <1>6, SeqEqual
<1> QED BY <1>7 DEF a, b, c

LEMMA BytesAppend ==
  ASSUME NEW i \in Nat, i < MaxBytes
  PROVE  Append(Bytes(0, i), i + 1) = Bytes(0, i + 1)
<1> DEFINE a == Bytes(0, i)  c == Bytes(0, i + 1)
<1>1. a \in Seq(1 .. MaxBytes) /\ Len(a) = i
  BY BytesType, BytesAssumption
<1>2. c \in Seq(1 .. MaxBytes) /\ Len(c) = i + 1
  BY BytesType, BytesAssumption
<1> HIDE DEF a, c
<1>3. Append(a, i + 1) \in Seq(1 .. MaxBytes) /\ Len(Append(a, i + 1)) = i + 1
  BY <1>1, BytesAssumption, AppendProperties
<1>4. ASSUME NEW k \in 1 .. (i + 1) PROVE Append(a, i + 1)[k] = c[k]
  <2>1. Append(a, i + 1)[k] = IF k <= i THEN a[k] ELSE i + 1
    BY <1>1, <1>3, BytesAssumption, AppendProperties
  <2>2. c[k] = k /\ (k <= i => a[k] = k)
    BY DEF Bytes, a, c
  <2>3. ~(k <= i) => k = i + 1
    OBVIOUS
  <2> QED BY <2>1, <2>2, <2>3
<1>5. Append(a, i + 1) = c
  BY <1>2, <1>3, <1>4, SeqEqual
<1> QED BY <1>5 DEF a, c

LEMMA BytesEmpty == Bytes(0, 0) = <<>>
  BY DEF Bytes

-----------------------------------------------------------------------------
(***************************************************************************)
(* The inductive invariant.                                                *)
(***************************************************************************)

TypeInv ==
    /\ taken \in 0 .. MaxBytes /\ req \in 0 .. MaxBytes
    /\ rr \in RRStates
    /\ cl \in [stop : BOOLEAN, done : BOOLEAN, newconn : BOOLEAN, timer : BOOLEAN]
    /\ attempts \in 0 .. MaxAttempts
    /\ n \in Nat
    /\ at \in [Attempts -> AttemptType]
    /\ winner \in 0 .. MaxAttempts

\* What the remote of an attempt has received, when no relay has begun.
Received(a) == IF a.snd = "posted" THEN a.sent + a.res.k ELSE a.sent

\* Where the coroutines of an attempt may be, by the state of the attempt. When
\* an attempt relays its AfterFunc has run or never will, and what it and
\* stopSendingRequest did to the deadlines has been undone.
StageInv ==
    \A i \in Attempts :
        /\ at[i].st \in {"none", "dialing"} =>
              /\ at[i].snd = "none" /\ at[i].remote = "none" /\ at[i].af = "none"
        /\ at[i].st \in {"open", "winning", "relay", "closing"} =>
              at[i].snd # "none" /\ at[i].af # "none"
        /\ at[i].st \in {"winning", "relay", "closing"} => at[i].srStop
        /\ at[i].st = "relay" => at[i].af # "armed" /\ ~at[i].rdl /\ ~at[i].wdl
        /\ at[i].st = "ended" => at[i].snd \in {"none", "done"} /\ at[i].remote # "open"

\* A sender is never ahead of the request.
SendInv ==
    \A i \in Attempts :
        /\ at[i].sent <= req
        /\ at[i].snd = "none" => at[i].sent = 0
        /\ at[i].snd = "busy" => at[i].sent <= at[i].hi /\ at[i].hi <= req
        /\ at[i].snd = "posted" => at[i].sent + at[i].res.k <= req

\* The winner has stopped its timer; it relays only after the request was read
\* and its own sender has stopped.
WinInv ==
    /\ winner # 0 => cl.stop
    /\ rr = "done" => cl.stop
    /\ \A i \in Attempts :
          /\ winner = i => /\ at[i].st \in {"winning", "relay", "closing", "ended"}
                           /\ at[i].timer = "stopped"
          /\ at[i].st \in {"winning", "relay"} => winner = i
          /\ winner = i /\ at[i].st # "winning" => rr = "done" /\ at[i].snd = "done"

\* Every byte read from the client is in the request, until a relay begins.
TakenInv ==
    \/ taken = req
    \/ \E i \in Attempts : winner = i /\ at[i].st # "winning"

\* What a remote received: the prefix that its sender accounts for, then, from
\* the beginning of a relay, everything read from the client.
GotInv ==
    \A i \in Attempts :
        /\ winner # i \/ at[i].st = "winning" => at[i].got = Bytes(0, Received(at[i]))
        /\ at[i].st = "relay" => at[i].got = Bytes(0, taken)
        /\ \E m \in 0 .. MaxBytes : at[i].got = Bytes(0, m)

ActiveSet == {i \in Attempts : Active(i)}

\* The attempts begin one after the other, and connections.n is exact.
CountInv ==
    /\ \A i \in Attempts : at[i].st = "none" <=> i > attempts
    /\ n = Cardinality(ActiveSet)
    /\ n <= Parallel

\* An outcome is reported by the winner, or when nobody can win any more.
OutcomeInv ==
    \/ events = <<>>
    \/ Len(events) = 1 /\ (winner # 0 \/ (cl.done /\ \A i \in Attempts : ~Active(i)))

SendPart == StageInv /\ SendInv
WinPart == WinInv /\ TakenInv
IInv == TypeInv /\ SendPart /\ WinPart /\ GotInv /\ CountInv /\ OutcomeInv /\ ClosedMeansFinished

-----------------------------------------------------------------------------
(***************************************************************************)
(* Steps that leave the number of attempts in flight alone.                *)
(***************************************************************************)

\* The step changes the record of attempt i only.
Only(i) ==
    /\ at' \in [Attempts -> AttemptType]
    /\ \A j \in Attempts \ {i} : at'[j] = at[j]

\* Attempt i was in flight before the step and is after it, or it has neither
\* changed state nor its remote.
StaysInFlight(i) ==
    \/ Active(i) /\ Active(i)'
    \/ at'[i].st = at[i].st /\ at'[i].remote = at[i].remote

LEMMA InFlightKeeps ==
  ASSUME IInv, NEW i \in Attempts, Only(i), StaysInFlight(i),
         UNCHANGED <<n, attempts, events, closed>>,
         rr = "done" => rr' = "done",
         cl.done => cl'.done,
         winner # 0 => winner' # 0
  PROVE  CountInv' /\ OutcomeInv' /\ ClosedMeansFinished'
<1>1. \A j \in Attempts : Active(j)' <=> Active(j)
  BY DEF Only, StaysInFlight, Active
<1>2. \A j \in Attempts : at'[j].st = "none" <=> at[j].st = "none"
  BY DEF Only, StaysInFlight, Active
<1>3. ActiveSet' = ActiveSet
  BY <1>1 DEF ActiveSet
<1>4. CountInv'
  BY <1>2, <1>3 DEF IInv, CountInv
<1>5. OutcomeInv'
  BY <1>1 DEF IInv, OutcomeInv
<1>6. ClosedMeansFinished'
  <2>1. SUFFICES ASSUME closed PROVE ClosedMeansFinished'
    BY DEF ClosedMeansFinished
  <2>2. rr' = "done" /\ cl'.done /\ \A j \in Attempts : ~Active(j)'
    BY <2>1, <1>1 DEF IInv, ClosedMeansFinished
  <2>3. \A j \in Attempts : at'[j].remote # "open"
    BY <2>1, <2>2 DEF IInv, ClosedMeansFinished, Only, StaysInFlight
  <2> QED BY <2>2, <2>3 DEF ClosedMeansFinished
<1> QED BY <1>4, <1>5, <1>6

LEMMA StopSendingType ==
  ASSUME NEW r \in AttemptType
  PROVE  StopSending(r) \in AttemptType
BY DEF AttemptType, StopSending

LEMMA FinishedType ==
  ASSUME NEW r \in AttemptType
  PROVE  Finished(r) \in AttemptType
BY DEF AttemptType, AttemptStates, Finished

-----------------------------------------------------------------------------
(***************************************************************************)
(* The timer, the cancellation and the AfterFunc of an attempt.            *)
(***************************************************************************)

LEMMA SignalKeeps ==
  ASSUME IInv, NEW i \in Attempts, TimeoutFires(i) \/ CancelLoser(i) \/ AfterFuncRuns(i)
  PROVE  IInv'
<1> DEFINE r == at[i]
<1>0. r \in AttemptType /\ at \in [Attempts -> AttemptType]
  BY DEF IInv, TypeInv
<1>1. PICK t \in AttemptType :
        /\ at' = [at EXCEPT ![i] = t]
        /\ t.st = r.st /\ t.snd = r.snd /\ t.srStop = r.srStop /\ t.remote = r.remote
        /\ t.hi = r.hi /\ t.res = r.res /\ t.sent = r.sent /\ t.got = r.got
        /\ r.timer = "stopped" => t.timer = "stopped"
        /\ t.af = "none" <=> r.af = "none"
        /\ r.af # "armed" => t.af # "armed" /\ (~r.rdl => ~t.rdl)
        /\ ~r.wdl => ~t.wdl
  <2>1. CASE TimeoutFires(i)
    <3> DEFINE u == [r EXCEPT !.timer = "fired", !.cancelled = TRUE]
    <3>1. u \in AttemptType /\ at' = [at EXCEPT ![i] = u]
      BY <2>1, <1>0 DEF TimeoutFires, AttemptType
    <3>2. /\ u.st = r.st /\ u.snd = r.snd /\ u.srStop = r.srStop /\ u.remote = r.remote
          /\ u.hi = r.hi /\ u.res = r.res /\ u.sent = r.sent /\ u.got = r.got
          /\ r.timer = "stopped" => u.timer = "stopped"
          /\ u.af = "none" <=> r.af = "none"
      BY <2>1, <1>0 DEF TimeoutFires, AttemptType
    <3>3. /\ r.af # "armed" => u.af # "armed" /\ (~r.rdl => ~u.rdl)
          /\ ~r.wdl => ~u.wdl
      BY <2>1, <1>0 DEF TimeoutFires, AttemptType
    <3> HIDE DEF u
    <3> QED BY <3>1, <3>2, <3>3
  <2>2. CASE CancelLoser(i)
    <3> DEFINE u == [r EXCEPT !.cancelled = TRUE]
    <3>1. u \in AttemptType /\ at' = [at EXCEPT ![i] = u]
      BY <2>2, <1>0 DEF CancelLoser, AttemptType
    <3>2. /\ u.st = r.st /\ u.snd = r.snd /\ u.srStop = r.srStop /\ u.remote = r.remote
          /\ u.hi = r.hi /\ u.res = r.res /\ u.sent = r.sent /\ u.got = r.got
          /\ r.timer = "stopped" => u.timer = "stopped"
          /\ u.af = "none" <=> r.af = "none"
      BY <2>2, <1>0 DEF CancelLoser, AttemptType
    <3>3. /\ r.af # "armed" => u.af # "armed" /\ (~r.rdl => ~u.rdl)
          /\ ~r.wdl => ~u.wdl
      BY <2>2, <1>0 DEF CancelLoser, AttemptType
    <3> HIDE DEF u
    <3> QED BY <3>1, <3>2, <3>3
  <2>3. CASE AfterFuncRuns(i)
    <3> DEFINE u == [r EXCEPT !.af = "ran", !.rdl = TRUE]
    <3>1. u \in AttemptType /\ at' = [at EXCEPT ![i] = u]
      BY <2>3, <1>0 DEF AfterFuncRuns, AttemptType
    <3>2. /\ u.st = r.st /\ u.snd = r.snd /\ u.srStop = r.srStop /\ u.remote = r.remote
          /\ u.hi = r.hi /\ u.res = r.res /\ u.sent = r.sent /\ u.got = r.got
          /\ r.timer = "stopped" => u.timer = "stopped"
          /\ u.af = "none" <=> r.af = "none"
      BY <2>3, <1>0 DEF AfterFuncRuns, AttemptType
    <3>3. /\ r.af # "armed" => u.af # "armed" /\ (~r.rdl => ~u.rdl)
          /\ ~r.wdl => ~u.wdl
      BY <2>3, <1>0 DEF AfterFuncRuns, AttemptType
    <3> HIDE DEF u
    <3> QED BY <3>1, <3>2, <3>3
  <2> QED BY <2>1, <2>2, <2>3
<1>2. UNCHANGED <<pipeVars, loopVars, n, winner, closed>>
  BY DEF TimeoutFires, CancelLoser, AfterFuncRuns
<1>3. TypeInv' /\ Only(i)
  BY <1>0, <1>1, <1>2 DEF IInv, TypeInv, Only, pipeVars, loopVars
<1>4. SendPart'
  BY <1>0, <1>1, <1>2 DEF IInv, SendPart, StageInv, SendInv, pipeVars
<1>5. WinPart'
  BY <1>0, <1>1, <1>2 DEF IInv, WinPart, WinInv, TakenInv, pipeVars, loopVars
<1>6. GotInv'
  BY <1>0, <1>1, <1>2 DEF IInv, GotInv, Received, pipeVars
<1>7. StaysInFlight(i)
  BY <1>0, <1>1 DEF StaysInFlight
<1>8. CountInv' /\ OutcomeInv' /\ ClosedMeansFinished'
  BY <1>2, <1>3, <1>7, InFlightKeeps DEF pipeVars, loopVars
<1> QED BY <1>3, <1>4, <1>5, <1>6, <1>8 DEF IInv

-----------------------------------------------------------------------------
(***************************************************************************)
(* sendRequest.                                                            *)
(***************************************************************************)

LEMMA SenderStopsKeeps ==
  ASSUME IInv, NEW i \in Attempts, SenderStops(i)
  PROVE  IInv'
<1> DEFINE r == at[i]
           t == [r EXCEPT !.snd = "done"]
<1>0. r \in AttemptType /\ at \in [Attempts -> AttemptType]
  BY DEF IInv, TypeInv
<1>1. t \in AttemptType
  BY <1>0 DEF AttemptType, SenderStates
<1>2. at' = [at EXCEPT ![i] = t] /\ UNCHANGED <<pipeVars, loopVars, n, winner, closed>>
      /\ r.snd = "wait"
  BY DEF SenderStops, CanSenderStop
<1>3. t.snd = "done" /\ t.st = r.st /\ t.srStop = r.srStop /\ t.remote = r.remote
      /\ t.sent = r.sent /\ t.got = r.got /\ t.timer = r.timer /\ t.af = r.af
      /\ t.rdl = r.rdl /\ t.wdl = r.wdl
  BY <1>0 DEF AttemptType
<1> HIDE DEF t
<1>4. TypeInv' /\ Only(i)
  BY <1>0, <1>1, <1>2 DEF IInv, TypeInv, Only, pipeVars, loopVars
<1>5. SendPart'
  BY <1>0, <1>2, <1>3 DEF IInv, SendPart, StageInv, SendInv, pipeVars
<1>6. WinPart'
  BY <1>0, <1>2, <1>3 DEF IInv, WinPart, WinInv, TakenInv, pipeVars, loopVars
<1>7. GotInv'
  BY <1>0, <1>2, <1>3 DEF IInv, GotInv, Received, pipeVars
<1>8. CountInv' /\ OutcomeInv' /\ ClosedMeansFinished'
  <2>1. StaysInFlight(i)
    BY <1>0, <1>2, <1>3 DEF StaysInFlight
  <2> QED BY <2>1, <1>2, <1>4, InFlightKeeps DEF pipeVars, loopVars
<1> QED BY <1>4, <1>5, <1>6, <1>7, <1>8 DEF IInv

LEMMA WriteBeginKeeps ==
  ASSUME IInv, NEW i \in Attempts, WriteBegin(i)
  PROVE  IInv'
<1> DEFINE r == at[i]
           t == [r EXCEPT !.snd = "busy", !.hi = req]
<1>0. r \in AttemptType /\ at \in [Attempts -> AttemptType] /\ req \in 0 .. MaxBytes
  BY DEF IInv, TypeInv
<1>1. t \in AttemptType
  BY <1>0 DEF AttemptType, SenderStates
<1>2. at' = [at EXCEPT ![i] = t] /\ UNCHANGED <<pipeVars, loopVars, n, winner, closed>>
      /\ r.snd = "wait" /\ ~r.srStop
  BY DEF WriteBegin, CanSend
<1>3. t.snd = "busy" /\ t.hi = req /\ t.st = r.st /\ t.srStop = r.srStop /\ t.remote = r.remote
      /\ t.sent = r.sent /\ t.got = r.got /\ t.timer = r.timer /\ t.af = r.af
      /\ t.rdl = r.rdl /\ t.wdl = r.wdl
  BY <1>0 DEF AttemptType
<1> HIDE DEF t
<1>4. TypeInv' /\ Only(i)
  BY <1>0, <1>1, <1>2 DEF IInv, TypeInv, Only, pipeVars, loopVars
<1>5. SendPart'
  BY <1>0, <1>2, <1>3 DEF IInv, SendPart, StageInv, SendInv, pipeVars
<1>6. WinPart'
  BY <1>0, <1>2, <1>3 DEF IInv, WinPart, WinInv, TakenInv, pipeVars, loopVars
<1>7. GotInv'
  BY <1>0, <1>2, <1>3 DEF IInv, GotInv, Received, pipeVars
<1>8. CountInv' /\ OutcomeInv' /\ ClosedMeansFinished'
  <2>1. StaysInFlight(i)
    BY <1>0, <1>2, <1>3 DEF StaysInFlight
  <2> QED BY <2>1, <1>2, <1>4, InFlightKeeps DEF pipeVars, loopVars
<1> QED BY <1>4, <1>5, <1>6, <1>7, <1>8 DEF IInv

\* The bytes of a Write that has returned are out before they are counted.
LEMMA WriteReturnsKeeps ==
  ASSUME IInv, NEW i \in Attempts, NEW k \in 0 .. MaxBytes, WriteReturns(i, k)
  PROVE  IInv'
<1> DEFINE r == at[i]
           b == r.got \o Bytes(r.sent, r.sent + k)
           t == [r EXCEPT !.snd = "posted", !.got = b,
                          !.res = [k |-> k, err |-> k < r.hi - r.sent]]
<1>0. r \in AttemptType /\ at \in [Attempts -> AttemptType] /\ req \in 0 .. MaxBytes /\ MaxBytes \in Nat
  BY BytesAssumption DEF IInv, TypeInv
<1>1. at' = [at EXCEPT ![i] = t] /\ UNCHANGED <<pipeVars, loopVars, n, winner, closed>>
      /\ r.snd = "busy" /\ k \in 0 .. (r.hi - r.sent)
  BY <1>0 DEF WriteReturns, AttemptType
<1>2. r.sent \in 0 .. MaxBytes /\ r.hi \in 0 .. MaxBytes /\ r.sent <= r.hi /\ r.hi <= req
  BY <1>0, <1>1 DEF IInv, SendPart, SendInv, AttemptType
<1>3. r.sent + k \in r.sent .. req
  BY <1>0, <1>1, <1>2
<1>4. r.st # "relay" /\ (winner # i \/ r.st = "winning")
  BY <1>1 DEF IInv, WinPart, WinInv
<1>5. b = Bytes(0, r.sent + k)
  <2>1. r.got = Bytes(0, r.sent)
    BY <1>1, <1>4 DEF IInv, GotInv, Received
  <2>2. r.sent \in 0 .. MaxBytes /\ r.sent + k \in r.sent .. MaxBytes
    BY <1>0, <1>2, <1>3
  <2>3. Bytes(0, r.sent) \o Bytes(r.sent, r.sent + k) = Bytes(0, r.sent + k)
    BY <2>2, BytesCat
  <2> QED BY <2>1, <2>3
<1>6. b \in Seq(1 .. MaxBytes)
  <2>1. r.sent + k \in 0 .. MaxBytes
    BY <1>0, <1>2, <1>3
  <2>2. Bytes(0, r.sent + k) \in Seq(1 .. MaxBytes)
    BY <2>1, BytesType
  <2> QED BY <1>5, <2>2
<1> HIDE DEF b
<1>7. t \in AttemptType
  <2>1. [k |-> k, err |-> k < r.hi - r.sent] \in [k : 0 .. MaxBytes, err : BOOLEAN]
    OBVIOUS
  <2> QED BY <1>0, <1>6, <2>1 DEF AttemptType, SenderStates
<1>8. t.snd = "posted" /\ t.got = b /\ t.res.k = k /\ t.st = r.st /\ t.srStop = r.srStop
      /\ t.remote = r.remote /\ t.sent = r.sent /\ t.timer = r.timer /\ t.af = r.af
      /\ t.rdl = r.rdl /\ t.wdl = r.wdl
  BY <1>0 DEF AttemptType
<1> HIDE DEF t
<1>9. TypeInv' /\ Only(i)
  BY <1>0, <1>1, <1>7 DEF IInv, TypeInv, Only, pipeVars, loopVars
<1>10. SendPart'
  BY <1>0, <1>1, <1>2, <1>3, <1>8 DEF IInv, SendPart, StageInv, SendInv, pipeVars
<1>11. WinPart'
  BY <1>0, <1>1, <1>8 DEF IInv, WinPart, WinInv, TakenInv, pipeVars, loopVars
<1>12. GotInv'
  <2>1. at'[i] = t /\ \A j \in Attempts \ {i} : at'[j] = at[j]
    BY <1>0, <1>1
  <2>2. Received(t) = r.sent + k
    BY <1>8 DEF Received
  <2>3. r.sent + k \in 0 .. MaxBytes
    BY <1>0, <1>2, <1>3
  <2> QED BY <1>1, <1>4, <1>5, <1>8, <2>1, <2>2, <2>3 DEF IInv, GotInv, pipeVars
<1>13. CountInv' /\ OutcomeInv' /\ ClosedMeansFinished'
  <2>1. StaysInFlight(i)
    BY <1>0, <1>1, <1>8 DEF StaysInFlight
  <2> QED BY <2>1, <1>1, <1>9, InFlightKeeps DEF pipeVars, loopVars
<1> QED BY <1>9, <1>10, <1>11, <1>12, <1>13 DEF IInv

LEMMA WriteCountedKeeps ==
  ASSUME IInv, NEW i \in Attempts, WriteCounted(i)
  PROVE  IInv'
<1> DEFINE r == at[i]
           t == [r EXCEPT !.snd = IF r.res.err THEN "done" ELSE "wait", !.sent = r.sent + r.res.k]
<1>0. r \in AttemptType /\ at \in [Attempts -> AttemptType] /\ req \in 0 .. MaxBytes /\ MaxBytes \in Nat
  BY BytesAssumption DEF IInv, TypeInv
<1>1. at' = [at EXCEPT ![i] = t] /\ UNCHANGED <<pipeVars, loopVars, n, winner, closed>>
      /\ r.snd = "posted"
  BY <1>0 DEF WriteCounted, AttemptType
<1>2. r.sent \in Nat /\ r.res.k \in Nat /\ r.sent + r.res.k <= req
  <2>1. r.sent \in 0 .. MaxBytes /\ r.res \in [k : 0 .. MaxBytes, err : BOOLEAN]
    BY <1>0 DEF AttemptType
  <2>2. r.sent + r.res.k <= req
    BY <1>1 DEF IInv, SendPart, SendInv
  <2> QED BY <2>1, <2>2
<1>3. t \in AttemptType
  <2>1. r.sent + r.res.k \in 0 .. MaxBytes
    BY <1>0, <1>2
  <2> QED BY <1>0, <2>1 DEF AttemptType, SenderStates
<1>4. t.snd \in {"wait", "done"} /\ t.sent = r.sent + r.res.k /\ t.got = r.got /\ t.st = r.st
      /\ t.srStop = r.srStop /\ t.remote = r.remote /\ t.timer = r.timer /\ t.af = r.af
      /\ t.rdl = r.rdl /\ t.wdl = r.wdl
  BY <1>0 DEF AttemptType
<1> HIDE DEF t
<1>5. TypeInv' /\ Only(i)
  BY <1>0, <1>1, <1>3 DEF IInv, TypeInv, Only, pipeVars, loopVars
<1>6. SendPart'
  BY <1>0, <1>1, <1>2, <1>4 DEF IInv, SendPart, StageInv, SendInv, pipeVars
<1>7. WinPart'
  BY <1>0, <1>1, <1>4 DEF IInv, WinPart, WinInv, TakenInv, pipeVars, loopVars
<1>8. GotInv'
  BY <1>0, <1>1, <1>4 DEF IInv, GotInv, Received, pipeVars
<1>9. CountInv' /\ OutcomeInv' /\ ClosedMeansFinished'
  <2>1. StaysInFlight(i)
    BY <1>0, <1>1, <1>4 DEF StaysInFlight
  <2> QED BY <2>1, <1>1, <1>5, InFlightKeeps DEF pipeVars, loopVars
<1> QED BY <1>5, <1>6, <1>7, <1>8, <1>9 DEF IInv

-----------------------------------------------------------------------------
(***************************************************************************)
(* The life of an attempt, from getRemote to the end of the relay.         *)
(***************************************************************************)

LEMMA DialSucceedsKeeps ==
  ASSUME IInv, NEW i \in Attempts, DialSucceeds(i)
  PROVE  IInv'
<1> DEFINE r == at[i]
           t == [r EXCEPT !.st = "open", !.remote = "open", !.snd = "wait", !.af = "armed"]
<1>0. r \in AttemptType /\ at \in [Attempts -> AttemptType]
  BY DEF IInv, TypeInv
<1>1. t \in AttemptType
  BY <1>0 DEF AttemptType, AttemptStates, SenderStates
<1>2. at' = [at EXCEPT ![i] = t] /\ UNCHANGED <<pipeVars, loopVars, n, winner, closed>>
      /\ r.st = "dialing"
  BY DEF DialSucceeds
<1>3. t.st = "open" /\ t.remote = "open" /\ t.snd = "wait" /\ t.af = "armed"
      /\ t.sent = r.sent /\ t.got = r.got /\ t.timer = r.timer
  BY <1>0 DEF AttemptType
<1> HIDE DEF t
<1>4. r.snd = "none" /\ winner # i
  BY <1>2 DEF IInv, SendPart, StageInv, WinPart, WinInv
<1>5. TypeInv' /\ Only(i)
  BY <1>0, <1>1, <1>2 DEF IInv, TypeInv, Only, pipeVars, loopVars
<1>6. SendPart'
  BY <1>0, <1>2, <1>3, <1>4 DEF IInv, SendPart, StageInv, SendInv, pipeVars
<1>7. WinPart'
  BY <1>0, <1>2, <1>3, <1>4 DEF IInv, WinPart, WinInv, TakenInv, pipeVars, loopVars
<1>8. GotInv'
  BY <1>0, <1>2, <1>3, <1>4 DEF IInv, GotInv, Received, pipeVars
<1>9. CountInv' /\ OutcomeInv' /\ ClosedMeansFinished'
  <2>1. StaysInFlight(i)
    BY <1>0, <1>2, <1>3 DEF StaysInFlight, Active
  <2> QED BY <2>1, <1>2, <1>5, InFlightKeeps DEF pipeVars, loopVars
<1> QED BY <1>5, <1>6, <1>7, <1>8, <1>9 DEF IInv

\* The response does not come, or comes too late.
LEMMA LosesKeeps ==
  ASSUME IInv, NEW i \in Attempts, NoResponse(i) \/ LateResponse(i)
  PROVE  IInv'
<1> DEFINE r == at[i]
<1>0. r \in AttemptType /\ at \in [Attempts -> AttemptType]
  BY DEF IInv, TypeInv
<1>1. PICK t \in AttemptType :
        /\ at' = [at EXCEPT ![i] = t]
        /\ t.st = "closing" /\ t.srStop /\ t.snd = r.snd /\ t.remote = r.remote
        /\ t.hi = r.hi /\ t.res = r.res /\ t.sent = r.sent /\ t.got = r.got
        /\ t.af = "none" <=> r.af = "none"
  <2> DEFINE q == StopSending(r)
  <2>1. q \in AttemptType
    BY <1>0, StopSendingType
  <2>2. q.srStop /\ q.snd = r.snd /\ q.remote = r.remote /\ q.hi = r.hi /\ q.res = r.res
        /\ q.sent = r.sent /\ q.got = r.got /\ (q.af = "none" <=> r.af = "none")
    BY <1>0 DEF StopSending, AttemptType
  <2> HIDE DEF q
  <2>3. CASE NoResponse(i)
    <3>1. [q EXCEPT !.st = "closing"] \in AttemptType
      BY <2>1 DEF AttemptType, AttemptStates
    <3>2. at' = [at EXCEPT ![i] = [q EXCEPT !.st = "closing"]]
      BY <2>3 DEF NoResponse, q
    <3> QED BY <2>1, <2>2, <3>1, <3>2 DEF AttemptType
  <2>4. CASE LateResponse(i)
    <3> DEFINE u == [q EXCEPT !.st = "closing",
                           !.timer = IF r.timer = "running" THEN "stopped" ELSE r.timer]
    <3>1. u \in AttemptType
      BY <1>0, <2>1 DEF AttemptType, AttemptStates
    <3>2. at' = [at EXCEPT ![i] = u]
      BY <2>4 DEF LateResponse, q
    <3>3. u.st = "closing" /\ u.srStop /\ u.snd = r.snd /\ u.remote = r.remote /\ u.hi = r.hi
          /\ u.res = r.res /\ u.sent = r.sent /\ u.got = r.got /\ (u.af = "none" <=> r.af = "none")
      BY <2>1, <2>2 DEF AttemptType
    <3> HIDE DEF u
    <3> QED BY <3>1, <3>2, <3>3
  <2> QED BY <2>3, <2>4
<1>2. UNCHANGED <<pipeVars, loopVars, n, winner, closed>> /\ r.st = "open"
  BY DEF NoResponse, LateResponse
<1>3. winner # i
  BY <1>2 DEF IInv, WinPart, WinInv
<1>4. TypeInv' /\ Only(i)
  BY <1>0, <1>1, <1>2 DEF IInv, TypeInv, Only, pipeVars, loopVars
<1>5. SendPart'
  BY <1>0, <1>1, <1>2 DEF IInv, SendPart, StageInv, SendInv, pipeVars
<1>6. WinPart'
  BY <1>0, <1>1, <1>2, <1>3 DEF IInv, WinPart, WinInv, TakenInv, pipeVars, loopVars
<1>7. GotInv'
  BY <1>0, <1>1, <1>2, <1>3 DEF IInv, GotInv, Received, pipeVars
<1>8. CountInv' /\ OutcomeInv' /\ ClosedMeansFinished'
  <2>1. StaysInFlight(i)
    BY <1>0, <1>1, <1>2 DEF StaysInFlight, Active
  <2> QED BY <2>1, <1>2, <1>4, InFlightKeeps DEF pipeVars, loopVars
<1> QED BY <1>4, <1>5, <1>6, <1>7, <1>8 DEF IInv

\* The first response in time. Nothing was reported before, because attempt i
\* is in flight and nobody has won.
LEMMA ResponseKeeps ==
  ASSUME IInv, NEW i \in Attempts, Response(i)
  PROVE  IInv'
<1> DEFINE r == at[i]
           q == StopSending(r)
           t == [q EXCEPT !.st = "winning", !.timer = "stopped"]
<1>0. r \in AttemptType /\ at \in [Attempts -> AttemptType] /\ i \in 1 .. MaxAttempts
  BY DEF IInv, TypeInv, Attempts
<1>1. q \in AttemptType
  BY <1>0, StopSendingType
<1>2. q.srStop /\ q.snd = r.snd /\ q.remote = r.remote /\ q.hi = r.hi /\ q.res = r.res
      /\ q.sent = r.sent /\ q.got = r.got /\ (q.af = "none" <=> r.af = "none")
  BY <1>0 DEF StopSending, AttemptType
<1>3. /\ at' = [at EXCEPT ![i] = t] /\ r.st = "open"
      /\ winner = 0 /\ winner' = i /\ events' = Append(events, "Response")
      /\ cl' = [cl EXCEPT !.stop = TRUE]
      /\ UNCHANGED <<taken, rr, req, n, attempts, closed>>
  BY DEF Response
<1> HIDE DEF q
<1>4. t \in AttemptType
  BY <1>1 DEF AttemptType, AttemptStates
<1>5. t.st = "winning" /\ t.timer = "stopped" /\ t.srStop /\ t.snd = r.snd /\ t.remote = r.remote
      /\ t.hi = r.hi /\ t.res = r.res /\ t.sent = r.sent /\ t.got = r.got
      /\ (t.af = "none" <=> r.af = "none")
  BY <1>1, <1>2 DEF AttemptType
<1> HIDE DEF t
<1>6. cl' \in [stop : BOOLEAN, done : BOOLEAN, newconn : BOOLEAN, timer : BOOLEAN]
      /\ cl'.stop /\ cl'.done = cl.done
  BY <1>3 DEF IInv, TypeInv
<1>7. TypeInv' /\ Only(i)
  BY <1>0, <1>3, <1>4, <1>6 DEF IInv, TypeInv, Only
<1>8. SendPart'
  BY <1>0, <1>3, <1>5 DEF IInv, SendPart, StageInv, SendInv
<1>9. WinPart'
  BY <1>0, <1>3, <1>5, <1>6 DEF IInv, WinPart, WinInv, TakenInv, Attempts
<1>10. GotInv'
  BY <1>0, <1>3, <1>5 DEF IInv, GotInv, Received, Attempts
<1>11. Active(i)
  BY <1>3 DEF Active
<1>12. OutcomeInv'
  <2>1. events = <<>>
    BY <1>3, <1>11 DEF IInv, OutcomeInv
  <2>2. Len(events') = 1
    BY <1>3, <2>1
  <2> QED BY <1>0, <1>3, <2>2 DEF OutcomeInv
<1>13. CountInv'
  <2>1. ActiveSet' = ActiveSet
    BY <1>0, <1>3, <1>5 DEF ActiveSet, Active
  <2> QED BY <1>0, <1>3, <1>5, <2>1 DEF IInv, CountInv
<1>14. ClosedMeansFinished'
  BY <1>3, <1>11 DEF IInv, ClosedMeansFinished
<1> QED BY <1>7, <1>8, <1>9, <1>10, <1>12, <1>13, <1>14 DEF IInv

\* The winner sends what its sender has not sent; what was read from the client
\* is all of it in the request, because the reader was awaited.
LEMMA RelayBeginsKeeps ==
  ASSUME IInv, NEW i \in Attempts, RelayBegins(i)
  PROVE  IInv'
<1> DEFINE r == at[i]
           b == r.got \o Bytes(r.sent, req)
           t == [r EXCEPT !.st = "relay", !.rdl = FALSE, !.wdl = FALSE, !.got = b]
<1>0. r \in AttemptType /\ at \in [Attempts -> AttemptType] /\ req \in 0 .. MaxBytes /\ MaxBytes \in Nat
  BY BytesAssumption DEF IInv, TypeInv
<1>1. at' = [at EXCEPT ![i] = t] /\ UNCHANGED <<clientClosed, taken, rr, req, loopVars, n, winner, closed>>
      /\ r.st = "winning" /\ cl.done /\ rr = "done" /\ r.snd = "done" /\ r.af # "armed"
  BY <1>0 DEF RelayBegins, CanRelay, Quiet, AttemptType
<1>2. winner = i /\ taken = req
  BY <1>1 DEF IInv, WinPart, WinInv, TakenInv
<1>3. b = Bytes(0, req) /\ b \in Seq(1 .. MaxBytes)
  <2>1. r.got = Bytes(0, r.sent)
    BY <1>1 DEF IInv, GotInv, Received
  <2>2. r.sent \in 0 .. MaxBytes /\ r.sent <= req
    BY <1>0 DEF IInv, SendPart, SendInv, AttemptType
  <2>3. r.sent \in 0 .. MaxBytes /\ req \in r.sent .. MaxBytes
    BY <1>0, <2>2
  <2>4. Bytes(0, r.sent) \o Bytes(r.sent, req) = Bytes(0, req)
    BY <2>3, BytesCat
  <2>5. Bytes(0, req) \in Seq(1 .. MaxBytes)
    BY <1>0, BytesType
  <2> QED BY <2>1, <2>4, <2>5
<1> HIDE DEF b
<1>4. t \in AttemptType
  BY <1>0, <1>3 DEF AttemptType, AttemptStates
<1>5. t.st = "relay" /\ t.got = b /\ t.snd = r.snd /\ t.srStop = r.srStop /\ t.remote = r.remote
      /\ t.sent = r.sent /\ t.timer = r.timer /\ t.af = r.af /\ ~t.rdl /\ ~t.wdl
  BY <1>0 DEF AttemptType
<1> HIDE DEF t
<1>6. TypeInv' /\ Only(i)
  BY <1>0, <1>1, <1>4 DEF IInv, TypeInv, Only, loopVars
<1>7. SendPart'
  BY <1>0, <1>1, <1>5 DEF IInv, SendPart, StageInv, SendInv
<1>8. WinPart'
  BY <1>0, <1>1, <1>2, <1>5 DEF IInv, WinPart, WinInv, TakenInv, loopVars
<1>9. GotInv'
  BY <1>0, <1>1, <1>2, <1>3, <1>5 DEF IInv, GotInv, Received
<1>10. CountInv' /\ OutcomeInv' /\ ClosedMeansFinished'
  <2>1. StaysInFlight(i)
    BY <1>0, <1>1, <1>5 DEF StaysInFlight, Active
  <2> QED BY <2>1, <1>1, <1>6, InFlightKeeps DEF loopVars
<1> QED BY <1>6, <1>7, <1>8, <1>9, <1>10 DEF IInv

LEMMA RelayCopiesKeeps ==
  ASSUME IInv, NEW i \in Attempts, RelayCopies(i)
  PROVE  IInv'
<1> DEFINE r == at[i]
           b == Append(r.got, taken + 1)
           t == [r EXCEPT !.got = b]
<1>0. r \in AttemptType /\ at \in [Attempts -> AttemptType] /\ taken \in 0 .. MaxBytes /\ MaxBytes \in Nat
  BY BytesAssumption DEF IInv, TypeInv
<1>1. at' = [at EXCEPT ![i] = t] /\ UNCHANGED <<clientClosed, rr, req, loopVars, n, winner, closed>>
      /\ r.st = "relay" /\ taken < MaxBytes /\ taken' = taken + 1
  BY <1>0 DEF RelayCopies, AttemptType
<1>2. taken' \in 0 .. MaxBytes
  BY <1>0, <1>1
<1>3. winner = i
  BY <1>1 DEF IInv, WinPart, WinInv
<1>4. b = Bytes(0, taken') /\ b \in Seq(1 .. MaxBytes)
  <2>1. r.got = Bytes(0, taken)
    BY <1>1 DEF IInv, GotInv
  <2>2. Append(Bytes(0, taken), taken + 1) = Bytes(0, taken + 1)
    BY <1>0, <1>1, BytesAppend
  <2>3. Bytes(0, taken') \in Seq(1 .. MaxBytes)
    BY <1>2, BytesType
  <2> QED BY <2>1, <2>2, <2>3, <1>1
<1> HIDE DEF b
<1>5. t \in AttemptType
  BY <1>0, <1>4 DEF AttemptType
<1>6. t.got = b /\ t.st = r.st /\ t.snd = r.snd /\ t.srStop = r.srStop /\ t.remote = r.remote
      /\ t.hi = r.hi /\ t.res = r.res /\ t.sent = r.sent /\ t.timer = r.timer /\ t.af = r.af
      /\ t.rdl = r.rdl /\ t.wdl = r.wdl
  BY <1>0 DEF AttemptType
<1> HIDE DEF t
<1>7. TypeInv' /\ Only(i)
  BY <1>0, <1>1, <1>2, <1>5 DEF IInv, TypeInv, Only, loopVars
<1>8. SendPart'
  BY <1>0, <1>1, <1>6 DEF IInv, SendPart, StageInv, SendInv
<1>9. WinPart'
  BY <1>0, <1>1, <1>3, <1>6 DEF IInv, WinPart, WinInv, TakenInv, loopVars
<1>10. GotInv'
  <2>1. \A j \in Attempts \ {i} : at[j].st # "relay"
    BY <1>3 DEF IInv, WinPart, WinInv
  <2> QED BY <1>0, <1>1, <1>2, <1>3, <1>4, <1>6, <2>1 DEF IInv, GotInv, Received
<1>11. CountInv' /\ OutcomeInv' /\ ClosedMeansFinished'
  <2>1. StaysInFlight(i)
    BY <1>0, <1>1, <1>6 DEF StaysInFlight
  <2> QED BY <2>1, <1>1, <1>7, InFlightKeeps DEF loopVars
<1> QED BY <1>7, <1>8, <1>9, <1>10, <1>11 DEF IInv

LEMMA RelayEndsKeeps ==
  ASSUME IInv, NEW i \in Attempts, RelayEnds(i)
  PROVE  IInv'
<1> DEFINE r == at[i]
           q == StopSending(r)
           t == [q EXCEPT !.st = "closing"]
<1>0. r \in AttemptType /\ at \in [Attempts -> AttemptType]
  BY DEF IInv, TypeInv
<1> q \in AttemptType
  BY <1>0, StopSendingType
<1>1. t \in AttemptType
  BY DEF AttemptType, AttemptStates
<1>2. at' = [at EXCEPT ![i] = t] /\ UNCHANGED <<pipeVars, loopVars, n, winner, closed>>
      /\ r.st = "relay"
  BY DEF RelayEnds
<1>3. t.st = "closing" /\ t.got = r.got /\ t.snd = r.snd /\ t.srStop /\ t.remote = r.remote
      /\ t.hi = r.hi /\ t.res = r.res /\ t.sent = r.sent /\ t.timer = r.timer
      /\ (t.af = "none" <=> r.af = "none")
  <2>1. q.got = r.got /\ q.snd = r.snd /\ q.srStop /\ q.remote = r.remote /\ q.hi = r.hi
        /\ q.res = r.res /\ q.sent = r.sent /\ q.timer = r.timer /\ (q.af = "none" <=> r.af = "none")
    BY <1>0 DEF StopSending, AttemptType
  <2> QED BY <2>1 DEF AttemptType
<1> HIDE DEF q, t
<1>4. TypeInv' /\ Only(i)
  BY <1>0, <1>1, <1>2 DEF IInv, TypeInv, Only, pipeVars, loopVars
<1>5. SendPart'
  BY <1>0, <1>2, <1>3 DEF IInv, SendPart, StageInv, SendInv, pipeVars
<1>6. WinPart'
  BY <1>0, <1>2, <1>3 DEF IInv, WinPart, WinInv, TakenInv, pipeVars, loopVars
<1>7. GotInv'
  <2>1. winner = i
    BY <1>2 DEF IInv, WinPart, WinInv
  <2> QED BY <1>0, <1>2, <1>3, <2>1 DEF IInv, GotInv, Received, pipeVars
<1>8. CountInv' /\ OutcomeInv' /\ ClosedMeansFinished'
  <2>1. StaysInFlight(i)
    BY <1>0, <1>2, <1>3 DEF StaysInFlight, Active
  <2> QED BY <2>1, <1>2, <1>4, InFlightKeeps DEF pipeVars, loopVars
<1> QED BY <1>4, <1>5, <1>6, <1>7, <1>8 DEF IInv

-----------------------------------------------------------------------------
(***************************************************************************)
(* Steps that change the number of attempts in flight.                     *)
(***************************************************************************)

LEMMA ActiveFinite == IsFiniteSet(ActiveSet)
<1>1. IsFiniteSet(Attempts)
  BY OptionsAssumption, FS_Interval DEF Attempts
<1>2. ActiveSet \in SUBSET Attempts
  BY DEF ActiveSet
<1> QED BY <1>1, <1>2, FS_Subset

\* The deferred task of an attempt that is in flight.
LEMMA FinishedKeeps ==
  ASSUME IInv, NEW i \in Attempts, Active(i),
         at' = [at EXCEPT ![i] = Finished(at[i])],
         n' = n - 1,
         at[i].st = "dialing" \/ (at[i].st = "closing" /\ at[i].snd = "done"),
         UNCHANGED <<clientClosed, taken, rr, req, loopVars, winner, closed>>
  PROVE  IInv'
<1> DEFINE r == at[i]
           t == Finished(r)
<1>0. r \in AttemptType /\ at \in [Attempts -> AttemptType]
  BY DEF IInv, TypeInv
<1>1. t \in AttemptType
  BY <1>0, FinishedType
<1>2. t.st = "ended" /\ t.got = r.got /\ t.snd = r.snd /\ t.srStop = r.srStop /\ t.remote # "open"
      /\ t.hi = r.hi /\ t.res = r.res /\ t.sent = r.sent /\ t.af = r.af
      /\ (r.timer = "stopped" => t.timer = "stopped")
  BY <1>0 DEF Finished, AttemptType
<1>3. r.snd \in {"none", "done"}
  BY DEF IInv, SendPart, StageInv
<1> HIDE DEF t
<1>4. at' = [at EXCEPT ![i] = t]
  BY DEF t
<1>5. ActiveSet' = ActiveSet \ {i} /\ i \in ActiveSet
  BY <1>0, <1>2, <1>4 DEF ActiveSet, Active
<1>6. Cardinality(ActiveSet') = Cardinality(ActiveSet) - 1 /\ Cardinality(ActiveSet') \in Nat
  BY <1>5, ActiveFinite, FS_RemoveElement, FS_CardinalityType
<1>7. n' = Cardinality(ActiveSet') /\ n' \in Nat /\ n' <= Parallel
  BY <1>6, OptionsAssumption DEF IInv, TypeInv, CountInv
<1>8. TypeInv'
  BY <1>0, <1>1, <1>4, <1>7 DEF IInv, TypeInv, loopVars
<1>9. SendPart'
  BY <1>0, <1>2, <1>3, <1>4 DEF IInv, SendPart, StageInv, SendInv
<1>10. WinPart'
  BY <1>0, <1>2, <1>3, <1>4 DEF IInv, WinPart, WinInv, TakenInv, loopVars
<1>11. GotInv'
  BY <1>0, <1>2, <1>4 DEF IInv, GotInv, Received
<1>12. CountInv'
  BY <1>0, <1>2, <1>4, <1>7 DEF IInv, CountInv, loopVars
<1>13. OutcomeInv' /\ ClosedMeansFinished'
  BY <1>0, <1>2, <1>4 DEF IInv, OutcomeInv, ClosedMeansFinished, Active, loopVars
<1> QED BY <1>8, <1>9, <1>10, <1>11, <1>12, <1>13 DEF IInv

LEMMA EndsKeeps ==
  ASSUME IInv, NEW i \in Attempts, AttemptEnds(i) \/ \E c \in BOOLEAN : DialFails(i, c)
  PROVE  IInv'
<1>1. CASE AttemptEnds(i)
  BY <1>1, FinishedKeeps DEF AttemptEnds, CanEnd, Quiet, Active, pipeVars
<1>2. CASE \E c \in BOOLEAN : DialFails(i, c)
  BY <1>2, FinishedKeeps DEF DialFails, Active
<1> QED BY <1>1, <1>2

\* newConn: an attempt that has not begun is put in flight.
LEMMA NewConnKeeps ==
  ASSUME IInv, NewConn
  PROVE  IInv'
<1> DEFINE i == attempts + 1
           r == at[i]
           t == [r EXCEPT !.st = "dialing", !.timer = "running"]
<1>0. at \in [Attempts -> AttemptType] /\ attempts \in 0 .. MaxAttempts /\ MaxAttempts \in Nat
  BY OptionsAssumption DEF IInv, TypeInv
<1>1. /\ attempts < MaxAttempts /\ n < Parallel /\ ~cl.done /\ ~cl.stop
      /\ n' = n + 1 /\ attempts' = i
      /\ cl' = [cl EXCEPT !.newconn = FALSE, !.timer = TRUE]
      /\ UNCHANGED <<pipeVars, winner, events, closed>>
  BY DEF NewConn, CanDial, LoopReady
<1>2. i \in Attempts /\ attempts' \in 0 .. MaxAttempts
  BY <1>0, <1>1 DEF Attempts
<1>3. at' = [at EXCEPT ![i] = t]
  BY <1>0, <1>2 DEF NewConn, AttemptType
<1>4. r.st = "none" /\ r \in AttemptType
  BY <1>0, <1>2 DEF IInv, CountInv
<1>5. t \in AttemptType
  BY <1>4 DEF AttemptType, AttemptStates
<1>6. t.st = "dialing" /\ t.got = r.got /\ t.snd = r.snd /\ t.srStop = r.srStop /\ t.remote = r.remote
      /\ t.sent = r.sent /\ t.af = r.af
  BY <1>4 DEF AttemptType
<1>7. r.snd = "none" /\ r.remote = "none" /\ r.af = "none" /\ winner # i
  BY <1>2, <1>4 DEF IInv, SendPart, StageInv, WinPart, WinInv
<1>8. cl' \in [stop : BOOLEAN, done : BOOLEAN, newconn : BOOLEAN, timer : BOOLEAN]
      /\ cl'.stop = cl.stop /\ cl'.done = cl.done
  BY <1>1 DEF IInv, TypeInv
<1>9. \A j \in Attempts : at[j].st = "none" <=> j > attempts
  BY DEF IInv, CountInv
<1> HIDE DEF t
<1>10. ActiveSet' = ActiveSet \cup {i} /\ i \notin ActiveSet
  BY <1>0, <1>2, <1>3, <1>4, <1>6 DEF ActiveSet, Active
<1>11. n' = Cardinality(ActiveSet') /\ n' \in Nat /\ n' <= Parallel
  <2>1. Cardinality(ActiveSet') = Cardinality(ActiveSet) + 1
    BY <1>10, ActiveFinite, FS_AddElement
  <2> QED BY <2>1, <1>1, OptionsAssumption DEF IInv, TypeInv, CountInv
<1>12. TypeInv'
  BY <1>0, <1>1, <1>2, <1>3, <1>5, <1>8, <1>11 DEF IInv, TypeInv, pipeVars
<1>13. SendPart'
  BY <1>0, <1>1, <1>2, <1>3, <1>6, <1>7 DEF IInv, SendPart, StageInv, SendInv, pipeVars
<1>14. WinPart'
  BY <1>0, <1>1, <1>2, <1>3, <1>6, <1>7, <1>8 DEF IInv, WinPart, WinInv, TakenInv, pipeVars
<1>15. GotInv'
  BY <1>0, <1>1, <1>2, <1>3, <1>6, <1>7 DEF IInv, GotInv, Received, pipeVars
<1>16. CountInv'
  <2>1. \A j \in Attempts : at'[j].st = "none" <=> j > attempts'
    <3>1. TAKE j \in Attempts
    <3>2. j \in Nat
      BY <1>0 DEF Attempts
    <3>3. CASE j = i
      BY <1>0, <1>1, <1>2, <1>3, <1>6, <3>3
    <3>4. CASE j # i
      BY <1>0, <1>1, <1>2, <1>3, <1>9, <3>2, <3>4
    <3> QED BY <3>3, <3>4
  <2> QED BY <2>1, <1>11 DEF CountInv
<1>17. OutcomeInv' /\ ClosedMeansFinished'
  BY <1>1 DEF IInv, OutcomeInv, ClosedMeansFinished
<1> QED BY <1>12, <1>13, <1>14, <1>15, <1>16, <1>17 DEF IInv

-----------------------------------------------------------------------------
(***************************************************************************)
(* Steps that leave the attempts alone.                                    *)
(***************************************************************************)

LEMMA RequestKeeps ==
  ASSUME IInv, ClientClose \/ ReadRequestFails \/ \E k \in 1 .. MaxBytes : ReadRequest(k)
  PROVE  IInv'
<1> DEFINE ClType == [stop : BOOLEAN, done : BOOLEAN, newconn : BOOLEAN, timer : BOOLEAN]
<1>0. /\ at \in [Attempts -> AttemptType] /\ cl \in ClType
      /\ taken \in 0 .. MaxBytes /\ req \in 0 .. MaxBytes /\ MaxBytes \in Nat
  BY BytesAssumption DEF IInv, TypeInv
<1>1. UNCHANGED <<n, attempts, at, winner, events, closed>>
  BY DEF ClientClose, ReadRequestFails, ReadRequest, loopVars
<1> DEFINE ClFits == cl' \in ClType /\ (cl.stop => cl'.stop) /\ cl'.done = cl.done
           RRFits == /\ rr' \in RRStates
                     /\ rr' = "done" => rr = "done" \/ cl'.stop
                     /\ rr = "done" => rr' = "done"
<1>2. ClFits /\ RRFits
  <2>1. CASE ClientClose
    BY <1>0, <2>1 DEF ClientClose, loopVars, IInv, TypeInv
  <2>2. CASE ReadRequestFails
    BY <1>0, <2>2 DEF ReadRequestFails, RRStates
  <2>3. ASSUME NEW k \in 1 .. MaxBytes, ReadRequest(k) PROVE ClFits /\ RRFits
    <3>1. cl' \in ClType /\ (cl.stop => cl'.stop) /\ cl'.done = cl.done
      BY <1>0, <2>3 DEF ReadRequest
    <3>2. rr' \in RRStates /\ (rr' = "done" => cl'.stop) /\ rr # "done"
      BY <1>0, <2>3 DEF ReadRequest, RRStates
    <3> QED BY <3>1, <3>2
  <2> QED BY <2>1, <2>2, <2>3
<1> DEFINE BothGrow == /\ rr # "done" /\ taken' = taken + (req' - req)
                       /\ taken' \in 0 .. MaxBytes /\ req' \in Nat /\ req <= req'
<1>3. UNCHANGED <<taken, req>> \/ BothGrow
  <2>1. ASSUME NEW k \in 1 .. MaxBytes, ReadRequest(k) PROVE BothGrow
    BY <1>0, <2>1 DEF ReadRequest
  <2> QED BY <2>1 DEF ClientClose, ReadRequestFails
<1>4. rr # "done" => taken = req
  BY DEF IInv, WinPart, WinInv, TakenInv
<1>5. /\ taken' \in 0 .. MaxBytes /\ req' \in 0 .. MaxBytes /\ req <= req'
      /\ taken = req => taken' = req'
      /\ rr = "done" => taken' = taken
  BY <1>0, <1>3, <1>4
<1>6. TypeInv'
  BY <1>0, <1>1, <1>2, <1>5 DEF IInv, TypeInv
<1>7. SendPart'
  <2>1. StageInv'
    BY <1>1 DEF IInv, SendPart, StageInv
  <2>2. \A i \in Attempts : at[i].sent \in 0 .. MaxBytes /\ at[i].hi \in 0 .. MaxBytes
                            /\ at[i].res.k \in 0 .. MaxBytes
    BY <1>0 DEF AttemptType
  <2>3. SendInv'
    BY <1>0, <1>1, <1>5, <2>2 DEF IInv, SendPart, SendInv
  <2> QED BY <2>1, <2>3 DEF SendPart
<1>8. WinPart'
  BY <1>1, <1>2, <1>5 DEF IInv, WinPart, WinInv, TakenInv
<1>9. GotInv'
  <2>1. \A i \in Attempts : at[i].st = "relay" => rr = "done"
    BY DEF IInv, WinPart, WinInv
  <2> QED BY <1>1, <1>5, <2>1 DEF IInv, GotInv
<1>10. CountInv'
  <2>1. ActiveSet' = ActiveSet
    BY <1>1 DEF ActiveSet, Active
  <2> QED BY <1>1, <2>1 DEF IInv, CountInv
<1>11. OutcomeInv' /\ ClosedMeansFinished'
  BY <1>1, <1>2 DEF IInv, OutcomeInv, ClosedMeansFinished, Active
<1> QED BY <1>6, <1>7, <1>8, <1>9, <1>10, <1>11 DEF IInv

\* The conn loop ends, or its interval has passed. It gives up only when no
\* attempt is in flight, so that none can respond afterwards.
LEMMA LoopKeeps ==
  ASSUME IInv, LoopStops \/ LoopGivesUp \/ IntervalFires
  PROVE  IInv'
<1> DEFINE ClType == [stop : BOOLEAN, done : BOOLEAN, newconn : BOOLEAN, timer : BOOLEAN]
<1>1. UNCHANGED <<pipeVars, n, attempts, at, winner, closed>>
  BY DEF LoopStops, LoopGivesUp, IntervalFires
<1>2. cl' \in ClType /\ cl'.stop = cl.stop /\ (cl.done => cl'.done)
  BY DEF IInv, TypeInv, LoopStops, LoopGivesUp, IntervalFires, LoopDone
<1>3. ActiveSet' = ActiveSet
  BY <1>1 DEF ActiveSet, Active
<1>4. TypeInv' /\ SendPart' /\ CountInv'
  BY <1>1, <1>2, <1>3 DEF IInv, TypeInv, SendPart, StageInv, SendInv, CountInv, pipeVars
<1>5. WinPart' /\ GotInv'
  BY <1>1, <1>2 DEF IInv, WinPart, WinInv, TakenInv, GotInv, pipeVars
<1>6. ClosedMeansFinished'
  BY <1>1, <1>2 DEF IInv, ClosedMeansFinished, Active, pipeVars
<1>7. OutcomeInv'
  <2>1. CASE LoopStops \/ IntervalFires
    BY <1>1, <1>2, <2>1 DEF LoopStops, IntervalFires, IInv, OutcomeInv, Active
  <2>2. CASE LoopGivesUp
    <3>1. ~cl.done /\ ~cl.stop /\ n = 0 /\ events' = Append(events, "MaxAttempts") /\ cl' = LoopDone
      BY <2>2 DEF LoopGivesUp, CanGiveUp, LoopReady
    <3>2. events = <<>>
      BY <3>1 DEF IInv, OutcomeInv, WinPart, WinInv
    <3>3. Len(events') = 1
      BY <3>1, <3>2
    <3>4. ActiveSet = {}
      BY <3>1, ActiveFinite, FS_EmptySet DEF IInv, CountInv
    <3>5. cl'.done
      BY <3>1 DEF IInv, TypeInv, LoopDone
    <3>6. \A i \in Attempts : ~Active(i)'
      BY <1>1, <3>4 DEF ActiveSet, Active
    <3> QED BY <3>3, <3>5, <3>6 DEF OutcomeInv
  <2> QED BY <2>1, <2>2
<1> QED BY <1>4, <1>5, <1>6, <1>7 DEF IInv

\* When nothing is outstanding and no coroutine can run, everything has ended:
\* an attempt that has not is waited for, or some coroutine of it can run.
LEMMA NothingRunsMeansEnded ==
  ASSUME IInv, ~Outstanding, ~Runnable
  PROVE  rr = "done" /\ cl.done /\ \A i \in Attempts : ~Active(i) /\ at[i].remote # "open"
<1>1. rr = "done"
  BY DEF Outstanding
<1>2. cl.done
  BY <1>1 DEF Runnable, CanStopLoop, IInv, WinPart, WinInv
<1>3. ASSUME NEW i \in Attempts PROVE ~Active(i) /\ at[i].remote # "open"
  <2>0. at[i] \in AttemptType
    BY DEF IInv, TypeInv
  <2>1. at[i].st \notin {"dialing", "open", "relay"} /\ at[i].snd \notin {"busy", "posted"}
        /\ at[i].af # "armed"
    BY DEF Outstanding, Runnable
  <2>2. at[i].st \in {"winning", "closing"} => Quiet(i)
    <3>1. SUFFICES ASSUME at[i].st \in {"winning", "closing"} PROVE Quiet(i)
      OBVIOUS
    <3>2. at[i].snd # "none" /\ at[i].af # "none" /\ at[i].srStop
      BY <3>1 DEF IInv, SendPart, StageInv
    <3>3. at[i].snd # "wait"
      BY <3>2 DEF Runnable, CanSenderStop
    <3> QED BY <2>0, <2>1, <3>2, <3>3 DEF Quiet, AttemptType, SenderStates
  <2>3. at[i].st \notin {"winning", "closing"}
    BY <1>1, <1>2, <2>2 DEF Runnable, CanRelay, CanEnd
  <2>4. at[i].st \in {"none", "ended"}
    BY <2>0, <2>1, <2>3 DEF AttemptType, AttemptStates
  <2> QED BY <2>4 DEF Active, IInv, SendPart, StageInv
<1> QED BY <1>1, <1>2, <1>3

LEMMA WaitKeeps ==
  ASSUME IInv, WaitReturns
  PROVE  IInv'
<1>1. UNCHANGED <<pipeVars, loopVars, n, at, winner>>
  BY DEF WaitReturns
<1>2. ActiveSet' = ActiveSet
  BY <1>1 DEF ActiveSet, Active
<1>3. ClosedMeansFinished'
  BY <1>1, NothingRunsMeansEnded DEF WaitReturns, ClosedMeansFinished, Active, pipeVars, loopVars
<1>4. TypeInv' /\ SendPart' /\ CountInv' /\ OutcomeInv'
  BY <1>1, <1>2
  DEF IInv, TypeInv, SendPart, StageInv, SendInv, CountInv, OutcomeInv, Active, pipeVars, loopVars
<1>5. WinPart' /\ GotInv'
  BY <1>1 DEF IInv, WinPart, WinInv, TakenInv, GotInv, pipeVars, loopVars
<1> QED BY <1>3, <1>4, <1>5 DEF IInv

-----------------------------------------------------------------------------
LEMMA InitIInv == Init => IInv
<1> SUFFICES ASSUME Init PROVE IInv
  OBVIOUS
<1>1. \A i \in Attempts : at[i] = NoAttempt
  BY DEF Init
<1>2. NoAttempt \in AttemptType
  BY BytesAssumption DEF NoAttempt, AttemptType, AttemptStates, SenderStates
<1>3. TypeInv
  BY <1>2, OptionsAssumption, BytesAssumption DEF Init, TypeInv, RRStates
<1>4. SendPart /\ WinPart
  BY <1>1, BytesAssumption
  DEF Init, SendPart, StageInv, SendInv, WinPart, WinInv, TakenInv, NoAttempt, Attempts
<1>5. GotInv
  BY <1>1, BytesEmpty, BytesAssumption DEF Init, GotInv, Received, NoAttempt
<1>6. CountInv
  <2>1. ActiveSet = {}
    BY <1>1 DEF ActiveSet, Active, NoAttempt
  <2>2. \A i \in Attempts : at[i].st = "none" <=> i > attempts
    BY <1>1 DEF Init, NoAttempt, Attempts
  <2> QED BY <2>1, <2>2, FS_EmptySet, OptionsAssumption DEF Init, CountInv
<1>7. OutcomeInv /\ ClosedMeansFinished
  BY DEF Init, OutcomeInv, ClosedMeansFinished
<1> QED BY <1>3, <1>4, <1>5, <1>6, <1>7 DEF IInv

LEMMA StepIInv ==
  ASSUME IInv, [Next]_vars
  PROVE  IInv'
<1>1. CASE UNCHANGED vars
  <2>1. ActiveSet' = ActiveSet
    BY <1>1 DEF vars, ActiveSet, Active
  <2>2. TypeInv' /\ SendPart' /\ CountInv' /\ OutcomeInv'
    BY <1>1, <2>1
    DEF vars, IInv, TypeInv, SendPart, StageInv, SendInv, CountInv, OutcomeInv, Active
  <2>3. WinPart' /\ GotInv' /\ ClosedMeansFinished'
    BY <1>1 DEF vars, IInv, WinPart, WinInv, TakenInv, GotInv, ClosedMeansFinished, Active
  <2> QED BY <2>2, <2>3 DEF IInv
<1>2. ASSUME NEW i \in Attempts, AttemptStep(i) PROVE IInv'
  BY <1>2, SignalKeeps, SenderStopsKeeps, WriteBeginKeeps, WriteReturnsKeeps, WriteCountedKeeps,
     DialSucceedsKeeps, LosesKeeps, ResponseKeeps, RelayBeginsKeeps, RelayCopiesKeeps,
     RelayEndsKeeps, EndsKeeps
  DEF AttemptStep, Coroutines
<1>3. CASE Next
  BY <1>2, <1>3, RequestKeeps, LoopKeeps, NewConnKeeps, WaitKeeps DEF Next, LoopStep
<1> QED BY <1>1, <1>3

LEMMA SpecIInv == Spec => []IInv
<1>1. Init => IInv
  BY InitIInv
<1>2. IInv /\ [Next]_vars => IInv'
  BY StepIInv
<1> QED BY <1>1, <1>2, PTL DEF Spec

-----------------------------------------------------------------------------
(***************************************************************************)
(* The theorems.                                                           *)
(***************************************************************************)

\* connections.n is exact on every path an attempt can end.
THEOREM CountAlwaysExact == Spec => []CountExact
<1>1. IInv => CountExact
  BY DEF IInv, CountInv, ActiveSet, CountExact
<1> QED BY <1>1, SpecIInv, PTL

\* NewConn never has more than Parallel attempts in flight, for every Parallel
\* and every MaxAttempts, because it goes by a count that is exact.
THEOREM ParallelAlwaysRespected == Spec => []ParallelRespected
<1>1. IInv => ParallelRespected
  BY DEF IInv, CountInv, ActiveSet, ParallelRespected
<1> QED BY <1>1, SpecIInv, PTL

\* However the Writes of sendRequest are cut short, each remote has received a
\* prefix of the client's bytes, and the winner has all of them when its relay
\* begins, for requests of every length.
THEOREM RequestAlwaysWhole == Spec => []RequestWhole
<1>1. ASSUME IInv PROVE RequestWhole
  <2>1. ASSUME NEW i \in Attempts PROVE at[i].got = Bytes(0, Len(at[i].got))
    <3>1. PICK m \in 0 .. MaxBytes : at[i].got = Bytes(0, m)
      BY <1>1 DEF IInv, GotInv
    <3>2. Len(Bytes(0, m)) = m
      BY BytesType, BytesAssumption
    <3> QED BY <3>1, <3>2
  <2>2. \A i \in Attempts : at[i].st = "relay" => at[i].got = Bytes(0, taken)
    BY <1>1 DEF IInv, GotInv
  <2> QED BY <2>1, <2>2 DEF RequestWhole
<1> QED BY <1>1, SpecIInv, PTL

\* A remote that relays has no deadline left from the time before, although the
\* AfterFunc that sets one races with the response.
THEOREM RelayNeverCut == Spec => []RelayUncut
<1>1. IInv => RelayUncut
  BY DEF IInv, SendPart, StageInv, RelayUncut
<1> QED BY <1>1, SpecIInv, PTL

\* When the WaitGroup lets the last goroutine close the pipe, both loops are
\* done, every attempt has ended, and every remote is closed.
THEOREM NothingLeftBehind == Spec => []ClosedMeansFinished
<1>1. IInv => ClosedMeansFinished
  BY DEF IInv
<1> QED BY <1>1, SpecIInv, PTL

\* lifeCycleCh gets at most one of the two outcomes.
THEOREM AtMostOneOutcome == Spec => []OneOutcome
<1>1. IInv => OneOutcome
  BY DEF IInv, OutcomeInv, OneOutcome
<1> QED BY <1>1, SpecIInv, PTL
=============================================================================
