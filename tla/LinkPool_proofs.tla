-------------------------- MODULE LinkPool_proofs ---------------------------
(***************************************************************************)
(* Proofs about LinkPool, for every length of the list and every size of   *)
(* the pool: its types, that a send of a worker neither blocks nor panics, *)
(* that the order of the source never leaves the loop over errCh, that     *)
(* every link is handled and counted once, that the pool implements        *)
(* ForkJoin, and that its steps run out, at the return or in that loop.    *)
(*                                                                         *)
(* The argument counts workers.  A link whose error is on errCh, or may    *)
(* still be sent, is one that was received, and at most numLinks were; a   *)
(* worker that may still send its counters has not yet sent them; and the  *)
(* WaitGroup's counter is the number of workers that are left, so that it  *)
(* is 0 only when none of them can send.  A sum over the workers or over   *)
(* what is on statsCh is the cardinality of a set of pairs, so that it can *)
(* be reasoned about without induction.                                    *)
(***************************************************************************)
EXTENDS LinkPool, FiniteSetTheorems, SequenceTheorems, TLAPS

Holding == {"process", "sendErr"}
Running == {"recv", "process", "sendErr", "sendStats"}
Alive == Running \cup {"done"}

\* The number of workers at one of the statements pcs.
CountAt(f, pcs) == Cardinality({v \in Workers : f[v] \in pcs})

Idle ==
    /\ wg = 0
    /\ fed = 0
    /\ taken = 0
    /\ errCh = <<>>
    /\ statsCh = <<>>
    /\ worker = [w \in Workers |-> "none"]

TypeInv ==
    /\ numLinks \in 0..MaxLinks
    /\ deferredClose \in BOOLEAN
    /\ caller \in CallerPCs
    /\ wg \in Int
    /\ fed \in 0..numLinks
    /\ taken \in 0..fed
    /\ workClosed \in BOOLEAN
    /\ closed \in BOOLEAN
    /\ errCh \in Seq(Links)
    /\ statsCh \in Seq(Stats)
    /\ worker \in [Workers -> WorkerPCs]
    /\ holds \in [Workers -> 0..MaxLinks]
    /\ \A w \in Workers : worker[w] \in Holding => holds[w] \in Links
    /\ stats \in [Workers -> Stats]
    /\ outcome \in [Links -> Outcomes]
    /\ errs \in Seq(Links)
    /\ total \in Stats

CountInv ==
    /\ caller = "enter" => Idle
    /\ wg = CountAt(worker, Alive)
    /\ Len(errCh) + CountAt(worker, Holding) <= taken
    /\ Len(statsCh) + CountAt(worker, Running) <= WorkerCount
    /\ Joined => wg = 0
    /\ closed => Joined

DrainInv ==
    (deferredClose /\ numLinks > 0) =>
        /\ caller \in {"enter", "feed", "wait", "drainErrs"}
        /\ ~closed

IInv == TypeInv /\ CountInv /\ DrainInv

-----------------------------------------------------------------------------
(***************************************************************************)
(* Counting workers.                                                       *)
(***************************************************************************)

\* The pool is a finite set of DefaultWorkerCount workers.
LEMMA WorkersFinite ==
    IsFiniteSet(Workers) /\ Cardinality(Workers) = DefaultWorkerCount
BY LinkPoolAssumption, FS_Interval DEF Workers

\* A count is a number between 0 and the size of the pool, and is positive as
\* soon as one worker is counted.
LEMMA CountRange ==
    ASSUME NEW f, NEW pcs
    PROVE  /\ CountAt(f, pcs) \in 0..DefaultWorkerCount
           /\ \A w \in Workers : f[w] \in pcs => CountAt(f, pcs) > 0
<1> DEFINE C == {v \in Workers : f[v] \in pcs}
<1>1. IsFiniteSet(C) /\ Cardinality(C) <= DefaultWorkerCount
  <2>1. C \in SUBSET Workers
    OBVIOUS
  <2> QED
    BY <2>1, WorkersFinite, FS_Subset
<1>2. Cardinality(C) \in Nat
  BY <1>1, FS_CardinalityType
<1>3. Cardinality(C) = 0 <=> C = {}
  BY <1>1, FS_EmptySet
<1> QED
  BY <1>1, <1>2, <1>3, LinkPoolAssumption DEF CountAt

\* Moving one worker from a statement to another changes a count by what that
\* worker contributes to it before and after.
LEMMA CountMove ==
    ASSUME NEW f, NEW g, NEW w \in Workers, NEW pcs,
           \A v \in Workers \ {w} : g[v] = f[v]
    PROVE  CountAt(g, pcs) = CountAt(f, pcs) + (IF g[w] \in pcs THEN 1 ELSE 0)
                                             - (IF f[w] \in pcs THEN 1 ELSE 0)
<1> DEFINE C == {v \in Workers : f[v] \in pcs}
           D == {v \in Workers : g[v] \in pcs}
           Rest == C \ {w}
<1>1. IsFiniteSet(C) /\ Cardinality(C) \in Nat
  <2>1. C \in SUBSET Workers
    OBVIOUS
  <2>2. IsFiniteSet(C)
    BY <2>1, WorkersFinite, FS_Subset
  <2> QED
    BY <2>2, FS_CardinalityType
<1>2. /\ IsFiniteSet(Rest)
      /\ Cardinality(Rest) = Cardinality(C) - (IF f[w] \in pcs THEN 1 ELSE 0)
  <2>1. w \in C <=> f[w] \in pcs
    OBVIOUS
  <2>2. /\ IsFiniteSet(C \ {w})
        /\ Cardinality(C \ {w}) = IF w \in C THEN Cardinality(C) - 1
                                            ELSE Cardinality(C)
    <3> HIDE DEF C
    <3> QED
      BY <1>1, FS_RemoveElement
  <2> QED
    BY <1>1, <2>1, <2>2
<1>3. Cardinality(Rest) \in Nat
  BY <1>2, FS_CardinalityType
<1>4. D = IF g[w] \in pcs THEN Rest \cup {w} ELSE Rest
  OBVIOUS
<1>5. Cardinality(D) = Cardinality(Rest) + (IF g[w] \in pcs THEN 1 ELSE 0)
  <2>1. w \notin Rest
    OBVIOUS
  <2>2. Cardinality(Rest \cup {w}) = Cardinality(Rest) + 1
    BY <1>2, <2>1, FS_AddElement
  <2> QED
    BY <1>3, <1>4, <2>2
<1> QED
  BY <1>1, <1>2, <1>3, <1>5 DEF CountAt

\* The three counts the invariant uses, when one worker moves.
LEMMA CountsMove ==
    ASSUME NEW w \in Workers, \A v \in Workers \ {w} : worker'[v] = worker[v]
    PROVE  /\ CountAt(worker', Alive) = CountAt(worker, Alive)
                + (IF worker'[w] \in Alive THEN 1 ELSE 0)
                - (IF worker[w] \in Alive THEN 1 ELSE 0)
           /\ CountAt(worker', Running) = CountAt(worker, Running)
                + (IF worker'[w] \in Running THEN 1 ELSE 0)
                - (IF worker[w] \in Running THEN 1 ELSE 0)
           /\ CountAt(worker', Holding) = CountAt(worker, Holding)
                + (IF worker'[w] \in Holding THEN 1 ELSE 0)
                - (IF worker[w] \in Holding THEN 1 ELSE 0)
<1>1. CountAt(worker', Alive) = CountAt(worker, Alive)
        + (IF worker'[w] \in Alive THEN 1 ELSE 0)
        - (IF worker[w] \in Alive THEN 1 ELSE 0)
  BY CountMove
<1>2. CountAt(worker', Running) = CountAt(worker, Running)
        + (IF worker'[w] \in Running THEN 1 ELSE 0)
        - (IF worker[w] \in Running THEN 1 ELSE 0)
  BY CountMove
<1>3. CountAt(worker', Holding) = CountAt(worker, Holding)
        + (IF worker'[w] \in Holding THEN 1 ELSE 0)
        - (IF worker[w] \in Holding THEN 1 ELSE 0)
  BY CountMove
<1> QED
  BY <1>1, <1>2, <1>3

\* The workers that are started are WorkerCount of them.
LEMMA CountStarted ==
    ASSUME NEW pcs, NEW n \in 0..DefaultWorkerCount,
           "none" \notin pcs
    PROVE  CountAt([v \in Workers |-> IF v <= n THEN "recv" ELSE "none"], pcs)
             = IF "recv" \in pcs THEN n ELSE 0
<1> DEFINE C == {v \in Workers : (IF v <= n THEN "recv" ELSE "none") \in pcs}
<1>1. C = IF "recv" \in pcs THEN 1..n ELSE {}
  BY LinkPoolAssumption DEF Workers
<1>2. Cardinality(1..n) = n
  BY FS_Interval, LinkPoolAssumption
<1>3. Cardinality({}) = 0
  BY FS_EmptySet
<1>4. CountAt([v \in Workers |-> IF v <= n THEN "recv" ELSE "none"], pcs) = Cardinality(C)
  BY DEF CountAt
<1> QED
  BY <1>1, <1>2, <1>3, <1>4

\* A pool is not larger than it may be, nor than the list.
LEMMA WorkerCountRange ==
    ASSUME numLinks \in 0..MaxLinks
    PROVE  WorkerCount \in 0..DefaultWorkerCount
BY LinkPoolAssumption DEF WorkerCount

-----------------------------------------------------------------------------
(***************************************************************************)
(* The invariant holds initially and every step preserves it.              *)
(***************************************************************************)

\* No worker is counted before the pool is started.
LEMMA InitInv == Init => IInv
<1> SUFFICES ASSUME Init
             PROVE  IInv
  OBVIOUS
<1>1. TypeInv
  <2>1. /\ worker \in [Workers -> WorkerPCs]
        /\ holds \in [Workers -> 0..MaxLinks]
        /\ \A w \in Workers : worker[w] \in Holding => holds[w] \in Links
    BY LinkPoolAssumption DEF Init, WorkerPCs, Holding
  <2>2. /\ stats \in [Workers -> Stats]
        /\ total \in Stats
        /\ outcome \in [Links -> Outcomes]
    BY DEF Init, Stats, NoStats, Outcomes
  <2>3. errCh \in Seq(Links) /\ statsCh \in Seq(Stats) /\ errs \in Seq(Links)
    BY DEF Init
  <2>4. /\ numLinks \in 0..MaxLinks
        /\ deferredClose \in BOOLEAN
        /\ wg \in Int
        /\ fed \in 0..numLinks
        /\ taken \in 0..fed
    BY LinkPoolAssumption DEF Init
  <2>5. caller \in CallerPCs /\ workClosed \in BOOLEAN /\ closed \in BOOLEAN
    BY DEF Init, CallerPCs
  <2> QED
    BY <2>1, <2>2, <2>3, <2>4, <2>5 DEF TypeInv
<1>2. CountAt(worker, Alive) = 0 /\ CountAt(worker, Holding) = 0 /\ CountAt(worker, Running) = 0
  <2>1. /\ {v \in Workers : worker[v] \in Alive} = {}
        /\ {v \in Workers : worker[v] \in Holding} = {}
        /\ {v \in Workers : worker[v] \in Running} = {}
    BY DEF Init, Alive, Running, Holding
  <2> QED
    BY <2>1, FS_EmptySet DEF CountAt
<1>3. WorkerCount \in 0..DefaultWorkerCount
  BY <1>1, WorkerCountRange DEF TypeInv
<1>4. CountInv
  BY <1>2, <1>3, LinkPoolAssumption DEF Init, CountInv, Idle, Joined
<1>5. DrainInv
  BY DEF Init, DrainInv
<1> QED
  BY <1>1, <1>4, <1>5 DEF IInv

\* Each action keeps the types.
LEMMA TypeStep == TypeInv /\ CountInv /\ [Next]_vars => TypeInv'
<1> SUFFICES ASSUME TypeInv, CountInv, [Next]_vars
             PROVE  TypeInv'
  OBVIOUS
<1> USE LinkPoolAssumption DEF TypeInv, call, callerVars, workerVars
<1>0. WorkerCount \in 0..DefaultWorkerCount
  BY WorkerCountRange
<1>1. CASE ReturnEmpty
  BY <1>0, <1>1 DEF ReturnEmpty, CallerPCs
<1>2. CASE StartLinkWorkers
  BY <1>0, <1>2 DEF StartLinkWorkers, CallerPCs, CountInv, Idle, WorkerPCs, Holding
<1>3. CASE Feed
  BY <1>0, <1>3 DEF Feed, CallerPCs
<1>4. CASE CloseWork
  BY <1>0, <1>4 DEF CloseWork, CallerPCs
<1>5. CASE Wait
  BY <1>0, <1>5 DEF Wait, CallerPCs
<1>6. CASE DrainErr
  BY <1>0, <1>6 DEF DrainErr, CallerPCs
<1>7. CASE EndErrs
  BY <1>0, <1>7 DEF EndErrs, CallerPCs
<1>8. CASE DrainStats
  <2>1. Head(statsCh) \in Stats /\ Tail(statsCh) \in Seq(Stats)
    BY <1>8 DEF DrainStats
  <2>2. total' \in Stats
    <3>1. \A t, u \in Stats : Plus(t, u) \in Stats
      BY DEF Plus, Stats
    <3> QED
      BY <1>8, <2>1, <3>1 DEF DrainStats
  <2> QED
    BY <1>8, <2>1, <2>2 DEF DrainStats, CallerPCs
<1>9. CASE EndStats
  BY <1>0, <1>9 DEF EndStats, CallerPCs
<1>10. CASE CloseChannels
  BY <1>0, <1>10 DEF CloseChannels, CallerPCs
<1>11. ASSUME NEW w \in Workers, Receive(w)
      PROVE  TypeInv'
  BY <1>11 DEF Receive, Links, Holding, WorkerPCs
<1>12. ASSUME NEW w \in Workers, ProcessLink(w)
      PROVE  TypeInv'
  <2>1. /\ worker' \in [Workers -> WorkerPCs] /\ outcome' \in [Links -> Outcomes]
        /\ \A v \in Workers : worker'[v] \in Holding => worker[v] \in Holding
    BY <1>12 DEF ProcessLink, Outcomes, Holding, WorkerPCs
  <2>2. stats' \in [Workers -> Stats]
    <3>1. PICK p \in {0, 1}, f \in {0, 1} :
            stats' = [stats EXCEPT ![w] = Plus(@, [processed |-> p, failed |-> f])]
      BY <1>12 DEF ProcessLink
    <3>2. stats[w].processed + p \in Nat /\ stats[w].failed + f \in Nat
      BY DEF Stats
    <3>3. Plus(stats[w], [processed |-> p, failed |-> f]) \in Stats
      BY <3>2 DEF Plus, Stats
    <3> QED
      BY <3>1, <3>3
  <2> QED
    BY <1>12, <2>1, <2>2 DEF ProcessLink
<1>13. ASSUME NEW w \in Workers, SendErr(w)
      PROVE  TypeInv'
  BY <1>13 DEF SendErr, Holding, WorkerPCs
<1>14. ASSUME NEW w \in Workers, EndWork(w)
      PROVE  TypeInv'
  BY <1>14 DEF EndWork, Holding, WorkerPCs
<1>15. ASSUME NEW w \in Workers, SendStats(w)
      PROVE  TypeInv'
  BY <1>15 DEF SendStats, Holding, WorkerPCs
<1>16. ASSUME NEW w \in Workers, WgDone(w)
      PROVE  TypeInv'
  BY <1>16 DEF WgDone, Holding, WorkerPCs
<1>17. CASE Terminated \/ UNCHANGED vars
  BY <1>17 DEF Terminated, vars
<1> QED
  BY <1>1, <1>2, <1>3, <1>4, <1>5, <1>6, <1>7, <1>8, <1>9, <1>10, <1>11, <1>12, <1>13,
     <1>14, <1>15, <1>16, <1>17
  DEF Next, Caller, Worker

\* Each action keeps the counts.
LEMMA CountStep == TypeInv /\ CountInv /\ [Next]_vars => CountInv'
<1> SUFFICES ASSUME TypeInv, CountInv, [Next]_vars
             PROVE  CountInv'
  OBVIOUS
<1> USE LinkPoolAssumption DEF call, callerVars, workerVars
<1>0. /\ WorkerCount \in 0..DefaultWorkerCount
      /\ CountAt(worker, Alive) \in 0..DefaultWorkerCount
      /\ CountAt(worker, Running) \in 0..DefaultWorkerCount
      /\ CountAt(worker, Holding) \in 0..DefaultWorkerCount
      /\ Len(errCh) \in Nat
      /\ Len(statsCh) \in Nat
      /\ taken \in Nat
  BY WorkerCountRange, CountRange DEF TypeInv
<1>1. CASE ReturnEmpty
  BY <1>0, <1>1 DEF ReturnEmpty, TypeInv, CountInv, Idle, Joined, WorkerCount
<1>2. CASE StartLinkWorkers
  <2>1. WorkerCount' = WorkerCount
    BY <1>2 DEF StartLinkWorkers, WorkerCount
  <2>2. /\ CountAt(worker', Alive) = WorkerCount
        /\ CountAt(worker', Running) = WorkerCount
        /\ CountAt(worker', Holding) = 0
    <3>1. worker' = [v \in Workers |-> IF v <= WorkerCount THEN "recv" ELSE "none"]
      BY <1>2 DEF StartLinkWorkers
    <3> QED
      BY <1>0, <3>1, CountStarted DEF Alive, Running, Holding
  <2> QED
    BY <1>0, <1>2, <2>1, <2>2 DEF StartLinkWorkers, CountInv, Idle, Joined
<1>3. CASE Feed
  BY <1>0, <1>3 DEF Feed, TypeInv, CountInv, Idle, Joined, WorkerCount
<1>4. CASE CloseWork
  BY <1>0, <1>4 DEF CloseWork, TypeInv, CountInv, Idle, Joined, WorkerCount
<1>5. CASE Wait
  BY <1>0, <1>5 DEF Wait, TypeInv, CountInv, Idle, Joined, WorkerCount
<1>6. CASE DrainErr
  BY <1>0, <1>6 DEF DrainErr, TypeInv, CountInv, Idle, Joined, WorkerCount
<1>7. CASE EndErrs
  BY <1>0, <1>7 DEF EndErrs, TypeInv, CountInv, Idle, Joined, WorkerCount
<1>8. CASE DrainStats
  BY <1>0, <1>8 DEF DrainStats, TypeInv, CountInv, Idle, Joined, WorkerCount
<1>9. CASE EndStats
  BY <1>0, <1>9 DEF EndStats, TypeInv, CountInv, Idle, Joined, WorkerCount
<1>10. CASE CloseChannels
  BY <1>0, <1>10 DEF CloseChannels, TypeInv, CountInv, Idle, Joined, WorkerCount
<1>11. ASSUME NEW w \in Workers, Receive(w)
      PROVE  CountInv'
  <2>1. worker'[w] = "process" /\ \A v \in Workers \ {w} : worker'[v] = worker[v]
    BY <1>11 DEF Receive, TypeInv
  <2>2. worker[w] = "recv"
    BY <1>11 DEF Receive
  <2>3. /\ CountAt(worker', Alive) = CountAt(worker, Alive)
        /\ CountAt(worker', Running) = CountAt(worker, Running)
        /\ CountAt(worker', Holding) = CountAt(worker, Holding) + 1
    <3>1. /\ worker[w] \in Alive /\ worker[w] \in Running /\ worker[w] \notin Holding
          /\ worker'[w] \in Alive /\ worker'[w] \in Running /\ worker'[w] \in Holding
      BY <2>1, <2>2 DEF Alive, Running, Holding
    <3> QED
      BY <1>0, <2>1, <3>1, CountsMove
  <2>4. CountAt(worker, Alive) > 0
    BY <2>2, CountRange DEF Alive, Running
  <2>5. caller # "enter"
    BY <2>2 DEF CountInv, Idle
  <2>6. ~Joined /\ ~closed
    BY <1>0, <2>4 DEF CountInv
  <2>7. /\ taken' = taken + 1 /\ WorkerCount' = WorkerCount
        /\ UNCHANGED <<caller, wg, closed, errCh, statsCh>>
    BY <1>11 DEF Receive, WorkerCount
  <2> QED
    BY <1>0, <2>3, <2>5, <2>6, <2>7 DEF CountInv, Joined
<1>12. ASSUME NEW w \in Workers, ProcessLink(w)
      PROVE  CountInv'
  <2>1. /\ worker'[w] \in {"sendErr", "recv"}
        /\ \A v \in Workers \ {w} : worker'[v] = worker[v]
    BY <1>12 DEF ProcessLink, TypeInv
  <2>2. worker[w] = "process"
    BY <1>12 DEF ProcessLink
  <2>3. /\ CountAt(worker', Alive) = CountAt(worker, Alive)
        /\ CountAt(worker', Running) = CountAt(worker, Running)
        /\ CountAt(worker', Holding) <= CountAt(worker, Holding)
    BY <1>0, <2>1, <2>2, CountsMove DEF Alive, Running, Holding
  <2>4. CountAt(worker, Alive) > 0
    BY <2>2, CountRange DEF Alive, Running
  <2>5. caller # "enter"
    BY <2>2 DEF CountInv, Idle
  <2>6. ~Joined /\ ~closed
    BY <1>0, <2>4 DEF CountInv
  <2>7. UNCHANGED <<call, caller, wg, closed, errCh, statsCh, taken>>
    BY <1>12 DEF ProcessLink
  <2>8. /\ CountAt(worker', Alive) \in Nat
        /\ CountAt(worker', Running) \in Nat
        /\ CountAt(worker', Holding) \in Nat
    BY CountRange
  <2> QED
    BY <1>0, <2>3, <2>5, <2>6, <2>7, <2>8
    DEF CountInv, Joined, WorkerCount
<1>13. ASSUME NEW w \in Workers, SendErr(w)
      PROVE  CountInv'
  <2>1. worker'[w] = "recv" /\ \A v \in Workers \ {w} : worker'[v] = worker[v]
    BY <1>13 DEF SendErr, TypeInv
  <2>2. worker[w] = "sendErr"
    BY <1>13 DEF SendErr
  <2>3. /\ CountAt(worker', Alive) = CountAt(worker, Alive)
        /\ CountAt(worker', Running) = CountAt(worker, Running)
        /\ CountAt(worker', Holding) = CountAt(worker, Holding) - 1
    <3>1. /\ worker[w] \in Alive /\ worker[w] \in Running /\ worker[w] \in Holding
          /\ worker'[w] \in Alive /\ worker'[w] \in Running /\ worker'[w] \notin Holding
      BY <2>1, <2>2 DEF Alive, Running, Holding
    <3> QED
      BY <1>0, <2>1, <3>1, CountsMove
  <2>4. CountAt(worker, Alive) > 0
    BY <2>2, CountRange DEF Alive, Running
  <2>5. caller # "enter"
    BY <2>2 DEF CountInv, Idle
  <2>6. ~Joined /\ ~closed
    BY <1>0, <2>4 DEF CountInv
  <2> QED
    BY <1>0, <1>13, <2>3, <2>5, <2>6
    DEF SendErr, TypeInv, CountInv, Joined, WorkerCount
<1>14. ASSUME NEW w \in Workers, EndWork(w)
      PROVE  CountInv'
  <2>1. worker'[w] = "sendStats" /\ \A v \in Workers \ {w} : worker'[v] = worker[v]
    BY <1>14 DEF EndWork, TypeInv
  <2>2. worker[w] = "recv"
    BY <1>14 DEF EndWork
  <2>3. /\ CountAt(worker', Alive) = CountAt(worker, Alive)
        /\ CountAt(worker', Running) = CountAt(worker, Running)
        /\ CountAt(worker', Holding) = CountAt(worker, Holding)
    <3>1. /\ worker[w] \in Alive /\ worker'[w] \in Alive
          /\ worker[w] \in Running /\ worker'[w] \in Running
          /\ worker[w] \notin Holding /\ worker'[w] \notin Holding
      BY <2>1, <2>2 DEF Alive, Running, Holding
    <3> QED
      BY <1>0, <2>1, <3>1, CountsMove
  <2>4. CountAt(worker, Alive) > 0
    BY <2>2, CountRange DEF Alive, Running
  <2>5. caller # "enter"
    BY <2>2 DEF CountInv, Idle
  <2>6. ~Joined /\ ~closed
    BY <1>0, <2>4 DEF CountInv
  <2> QED
    BY <1>0, <1>14, <2>3, <2>5, <2>6
    DEF EndWork, TypeInv, CountInv, Joined, WorkerCount
<1>15. ASSUME NEW w \in Workers, SendStats(w)
      PROVE  CountInv'
  <2>1. worker'[w] = "done" /\ \A v \in Workers \ {w} : worker'[v] = worker[v]
    BY <1>15 DEF SendStats, TypeInv
  <2>2. worker[w] = "sendStats"
    BY <1>15 DEF SendStats
  <2>3. /\ CountAt(worker', Alive) = CountAt(worker, Alive)
        /\ CountAt(worker', Running) = CountAt(worker, Running) - 1
        /\ CountAt(worker', Holding) = CountAt(worker, Holding)
    <3>1. /\ worker[w] \in Alive /\ worker'[w] \in Alive
          /\ worker[w] \in Running /\ worker'[w] \notin Running
          /\ worker[w] \notin Holding /\ worker'[w] \notin Holding
      BY <2>1, <2>2 DEF Alive, Running, Holding
    <3> QED
      BY <1>0, <2>1, <3>1, CountsMove
  <2>4. CountAt(worker, Alive) > 0
    BY <2>2, CountRange DEF Alive, Running
  <2>5. caller # "enter"
    BY <2>2 DEF CountInv, Idle
  <2>6. ~Joined /\ ~closed
    BY <1>0, <2>4 DEF CountInv
  <2> QED
    BY <1>0, <1>15, <2>3, <2>5, <2>6
    DEF SendStats, TypeInv, CountInv, Joined, WorkerCount
<1>16. ASSUME NEW w \in Workers, WgDone(w)
      PROVE  CountInv'
  <2>1. worker'[w] = "gone" /\ \A v \in Workers \ {w} : worker'[v] = worker[v]
    BY <1>16 DEF WgDone, TypeInv
  <2>2. worker[w] = "done"
    BY <1>16 DEF WgDone
  <2>3. /\ CountAt(worker', Alive) = CountAt(worker, Alive) - 1
        /\ CountAt(worker', Running) = CountAt(worker, Running)
        /\ CountAt(worker', Holding) = CountAt(worker, Holding)
    <3>1. /\ worker[w] \in Alive /\ worker'[w] \notin Alive
          /\ worker[w] \notin Running /\ worker'[w] \notin Running
          /\ worker[w] \notin Holding /\ worker'[w] \notin Holding
      BY <2>1, <2>2 DEF Alive, Running, Holding
    <3> QED
      BY <1>0, <2>1, <3>1, CountsMove
  <2>4. CountAt(worker, Alive) > 0
    BY <2>2, CountRange DEF Alive, Running
  <2>5. caller # "enter"
    BY <2>2 DEF CountInv, Idle
  <2>6. ~Joined /\ ~closed
    BY <1>0, <2>4 DEF CountInv
  <2> QED
    BY <1>0, <1>16, <2>3, <2>5, <2>6
    DEF WgDone, TypeInv, CountInv, Joined, WorkerCount
<1>17. CASE Terminated \/ UNCHANGED vars
  BY <1>17 DEF Terminated, vars, CountInv, Idle, Joined, WorkerCount
<1> QED
  BY <1>1, <1>2, <1>3, <1>4, <1>5, <1>6, <1>7, <1>8, <1>9, <1>10, <1>11, <1>12, <1>13,
     <1>14, <1>15, <1>16, <1>17
  DEF Next, Caller, Worker

\* In the order of the source only the end of the loop over errCh would let the
\* caller go on, and that needs the channel closed.
LEMMA DrainStep == TypeInv /\ DrainInv /\ [Next]_vars => DrainInv'
<1> SUFFICES ASSUME TypeInv, DrainInv, [Next]_vars
             PROVE  DrainInv'
  OBVIOUS
<1> USE DEF TypeInv, DrainInv, call, callerVars, workerVars
<1>1. CASE Caller
  <2>1. CASE ReturnEmpty
    BY <2>1 DEF ReturnEmpty
  <2>2. CASE StartLinkWorkers \/ Feed \/ CloseWork \/ DrainErr \/ DrainStats
    BY <2>2 DEF StartLinkWorkers, Feed, CloseWork, DrainErr, DrainStats
  <2>3. CASE Wait
    BY <2>3 DEF Wait
  <2>4. CASE EndErrs \/ EndStats
    BY <2>4 DEF EndErrs, EndStats
  <2>5. CASE CloseChannels
    BY <2>5 DEF CloseChannels
  <2> QED
    BY <1>1, <2>1, <2>2, <2>3, <2>4, <2>5 DEF Caller
<1>2. ASSUME NEW w \in Workers, Worker(w)
      PROVE  DrainInv'
  BY <1>2
  DEF Worker, Receive, ProcessLink, SendErr, EndWork, SendStats, WgDone
<1>3. CASE Terminated \/ UNCHANGED vars
  BY <1>3 DEF Terminated, vars
<1> QED
  BY <1>1, <1>2, <1>3 DEF Next

\* The invariant holds in every reachable state.
THEOREM Invariant == Spec => []IInv
<1>1. IInv /\ [Next]_vars => IInv'
  BY TypeStep, CountStep, DrainStep DEF IInv
<1> QED
  BY InitInv, <1>1, PTL DEF Spec

-----------------------------------------------------------------------------
(***************************************************************************)
(* What the invariant says.                                                *)
(***************************************************************************)

\* The types: in particular the WaitGroup never goes below zero.
THEOREM TypeCorrect == Spec => []TypeOK
<1>1. IInv => TypeOK
  <2>1. CountAt(worker, Alive) \in 0..DefaultWorkerCount
    BY CountRange
  <2> QED
    BY <2>1 DEF IInv, TypeInv, CountInv, TypeOK
<1> QED
  BY Invariant, <1>1, PTL

\* A worker about to send finds room on its channel, and the channel open.
LEMMA SendsGoOn == IInv => SendsSucceed
<1> SUFFICES ASSUME IInv, NEW w \in Workers
             PROVE  /\ worker[w] = "sendErr" => ~closed /\ Len(errCh) < ErrCap
                    /\ worker[w] = "sendStats" => ~closed /\ Len(statsCh) < StatsCap
  BY DEF SendsSucceed
<1>1. /\ CountAt(worker, Holding) \in Nat
      /\ CountAt(worker, Running) \in Nat
      /\ worker[w] = "sendErr" => CountAt(worker, Holding) > 0
      /\ worker[w] = "sendStats" => CountAt(worker, Running) > 0
  BY CountRange DEF Holding, Running
<1>2. WorkerCount \in Nat
  BY WorkerCountRange DEF IInv, TypeInv
<1>3. closed => worker[w] \notin Alive
  BY CountRange DEF IInv, CountInv
<1> QED
  BY <1>1, <1>2, <1>3, LinkPoolAssumption
  DEF IInv, TypeInv, CountInv, ErrCap, StatsCap, Alive, Running

\* A worker never waits for room on errCh or statsCh, whatever the number of
\* links and workers: the capacities of applyToLinks are enough.  And it never
\* sends on a closed one, in the order of the source and in the repaired one.
THEOREM SendsSucceedHolds == Spec => []SendsSucceed
BY Invariant, SendsGoOn, PTL

\* The order of the source: whatever the links, the workers and their
\* schedule, applyToLinks does not get past the loop over errCh.
THEOREM NeverPastDrainHolds == Spec => []NeverPastDrain
<1>1. IInv => NeverPastDrain
  BY DEF IInv, DrainInv, NeverPastDrain
<1> QED
  BY Invariant, <1>1, PTL

-----------------------------------------------------------------------------
(***************************************************************************)
(* The links.  A received link is at one worker until it has a result, and *)
(* a failed one is at its worker until its error is on errCh, from where   *)
(* the caller moves it to errs.                                            *)
(***************************************************************************)
Ended == {"sendStats", "done", "gone"}
Sending == {"sendErr"}

ReceivedInv ==
    /\ \A l \in Links : l > taken => outcome[l] = "none"
    /\ \A w \in Workers : worker[w] \in Holding =>
         /\ holds[w] \in 1..taken
         /\ outcome[holds[w]] = IF worker[w] = "process" THEN "none" ELSE "failed"
    /\ \A v, w \in Workers :
         worker[v] \in Holding /\ worker[w] \in Holding /\ v # w => holds[v] # holds[w]
    /\ \A l \in 1..taken : outcome[l] = "none" =>
         \E w \in Workers : worker[w] = "process" /\ holds[w] = l

EndInv ==
    /\ workClosed => fed = numLinks
    /\ \A w \in Workers : worker[w] \in Ended => workClosed /\ taken = numLinks
    /\ caller # "enter" => \A w \in Workers : worker[w] = "none" <=> w > WorkerCount
    /\ caller = "enter" => errs = <<>>
    /\ \/ caller \in {"drainStats", "returned"}
       \/ caller = "close" /\ deferredClose
       => errCh = <<>>

SendingErr == {w \in Workers : worker[w] \in Sending}

ErrInv ==
    /\ {CollectedErrs[i] : i \in DOMAIN CollectedErrs} \cup {holds[w] : w \in SendingErr}
         = Failed
    /\ Len(CollectedErrs) + CountAt(worker, Sending) = Cardinality(Failed)

LinkInv == ReceivedInv /\ EndInv /\ ErrInv

\* A worker that is still at work keeps the caller in front of the join.
LEMMA AliveNotJoined ==
    ASSUME TypeInv, CountInv, NEW w \in Workers, worker[w] \in Alive
    PROVE  ~Joined /\ caller # "enter"
<1>1. CountAt(worker, Alive) > 0
  BY CountRange
<1>2. CountAt(worker, Alive) \in Nat
  BY CountRange, LinkPoolAssumption
<1> QED
  BY <1>1, <1>2 DEF CountInv, Idle, Alive, Running

\* Receiving moves the head of errCh to the end of errs, and sending adds to
\* the end of errCh: together they only grow at the end.
LEMMA CollectedMoves ==
    ASSUME NEW S, NEW s \in Seq(S), NEW t \in Seq(S)
    PROVE  /\ t # <<>> => Append(s, Head(t)) \o Tail(t) = s \o t
           /\ \A e \in S : s \o Append(t, e) = Append(s \o t, e)
<1>1. ASSUME t # <<>>
      PROVE  Append(s, Head(t)) \o Tail(t) = s \o t
  <2> DEFINE a == Append(s, Head(t))
             u == Tail(t)
  <2>1. Len(s) \in Nat /\ Len(t) \in Nat /\ Head(t) \in S /\ Head(t) = t[1]
    BY <1>1
  <2>2. /\ a \in Seq(S) /\ Len(a) = Len(s) + 1
        /\ \A i \in 1..Len(s) : a[i] = s[i]
        /\ a[Len(s) + 1] = t[1]
    BY <2>1, AppendProperties
  <2>3. /\ u \in Seq(S) /\ Len(u) = Len(t) - 1
        /\ \A i \in 1..(Len(t) - 1) : u[i] = t[i + 1]
    BY <1>1, <2>1, HeadTailProperties
  <2> HIDE DEF a, u
  <2>4. /\ s \o t \in Seq(S) /\ Len(s \o t) = Len(s) + Len(t)
        /\ \A i \in 1..(Len(s) + Len(t)) :
             (s \o t)[i] = IF i <= Len(s) THEN s[i] ELSE t[i - Len(s)]
    BY ConcatProperties
  <2>5. /\ a \o u \in Seq(S) /\ Len(a \o u) = Len(a) + Len(u)
        /\ \A i \in 1..(Len(a) + Len(u)) :
             (a \o u)[i] = IF i <= Len(a) THEN a[i] ELSE u[i - Len(a)]
    BY <2>2, <2>3, ConcatProperties
  <2>6. Len(a) + Len(u) = Len(s) + Len(t)
    BY <2>1, <2>2, <2>3
  <2>7. ASSUME NEW i \in 1..(Len(s) + Len(t))
        PROVE  (a \o u)[i] = (s \o t)[i]
    <3>1. i \in Int /\ 1 <= i /\ i <= Len(s) + Len(t)
      BY <2>1
    <3>2. (a \o u)[i] = IF i <= Len(s) + 1 THEN a[i] ELSE u[i - (Len(s) + 1)]
      BY <2>2, <2>5, <2>6
    <3>3. CASE i <= Len(s)
      BY <2>1, <2>2, <2>4, <3>1, <3>2, <3>3
    <3>4. CASE i = Len(s) + 1
      BY <2>1, <2>2, <2>4, <3>2, <3>4
    <3>5. CASE i > Len(s) + 1
      <4> DEFINE j == i - (Len(s) + 1)
      <4>1. j \in 1..(Len(t) - 1) /\ j + 1 = i - Len(s)
        BY <2>1, <3>1, <3>5
      <4>2. u[j] = t[j + 1]
        BY <2>3, <4>1
      <4>3. (a \o u)[i] = u[j] /\ (s \o t)[i] = t[i - Len(s)]
        BY <2>1, <2>4, <3>1, <3>2, <3>5
      <4> QED
        BY <4>1, <4>2, <4>3
    <3>6. i <= Len(s) \/ i = Len(s) + 1 \/ i > Len(s) + 1
      BY <2>1, <3>1
    <3> QED
      BY <3>3, <3>4, <3>5, <3>6
  <2>8. a \o u = s \o t
    BY <2>4, <2>5, <2>6, <2>7, SeqEqual
  <2> QED
    BY <2>8 DEF a, u
<1>2. ASSUME NEW e \in S
      PROVE  s \o Append(t, e) = Append(s \o t, e)
  BY <1>2
<1> QED
  BY <1>1, <1>2

\* What is on the end of a sequence is all that Append adds to it.
LEMMA AppendedRange ==
    ASSUME NEW S, NEW s \in Seq(S), NEW e \in S
    PROVE  {Append(s, e)[i] : i \in DOMAIN Append(s, e)} = {s[i] : i \in DOMAIN s} \cup {e}
<1>1. /\ DOMAIN s = 1..Len(s) /\ Len(s) \in Nat
      /\ DOMAIN Append(s, e) = 1..(Len(s) + 1)
      /\ \A i \in 1..Len(s) : Append(s, e)[i] = s[i]
      /\ Append(s, e)[Len(s) + 1] = e
  OBVIOUS
<1>2. 1..(Len(s) + 1) = (1..Len(s)) \cup {Len(s) + 1}
  BY <1>1
<1> QED
  BY <1>1, <1>2

\* The failed links are finitely many.
LEMMA FailedFinite ==
    ASSUME TypeInv
    PROVE  IsFiniteSet(Failed) /\ Cardinality(Failed) \in Nat
<1>1. IsFiniteSet(1..numLinks)
  BY LinkPoolAssumption, FS_Interval DEF TypeInv
<1>2. Failed \in SUBSET (1..numLinks)
  BY DEF Failed
<1> QED
  BY <1>1, <1>2, FS_Subset, FS_CardinalityType

-----------------------------------------------------------------------------
\* Before the first link is received nothing is claimed of any.
LEMMA LinkInit == Init => LinkInv
<1> SUFFICES ASSUME Init
             PROVE  LinkInv
  OBVIOUS
<1>1. ReceivedInv
  BY DEF Init, ReceivedInv, Holding
<1>2. EndInv
  BY DEF Init, EndInv, Ended
<1>3. ErrInv
  <2>1. Failed = {} /\ SendingErr = {} /\ CollectedErrs = <<>>
    <3>1. \A l \in 1..numLinks : outcome[l] = "none"
      BY LinkPoolAssumption DEF Init, Links
    <3>2. CollectedErrs = <<>>
      BY DEF Init, CollectedErrs
    <3>3. SendingErr = {}
      BY DEF Init, SendingErr, Sending
    <3> QED
      BY <3>1, <3>2, <3>3 DEF Failed
  <2>2. CountAt(worker, Sending) = 0
    <3>1. {v \in Workers : worker[v] \in Sending} = {}
      BY DEF Init, Sending
    <3> QED
      BY <3>1, FS_EmptySet DEF CountAt
  <2>3. Cardinality(Failed) = 0
    BY <2>1, FS_EmptySet
  <2> QED
    BY <2>1, <2>2, <2>3 DEF ErrInv
<1> QED
  BY <1>1, <1>2, <1>3 DEF LinkInv

\* Where each received link is.
LEMMA ReceivedStep == TypeInv /\ CountInv /\ ReceivedInv /\ [Next]_vars => ReceivedInv'
<1> SUFFICES ASSUME TypeInv, CountInv, ReceivedInv, [Next]_vars
             PROVE  ReceivedInv'
  OBVIOUS
<1> USE LinkPoolAssumption DEF ReceivedInv, TypeInv, call, callerVars, workerVars
<1>1. CASE Caller \/ Terminated \/ UNCHANGED vars
  <2>1. UNCHANGED <<taken, holds, outcome>>
    BY <1>1 DEF Caller, Terminated, vars, ReturnEmpty, StartLinkWorkers, Feed, CloseWork,
                Wait, DrainErr, EndErrs, DrainStats, EndStats, CloseChannels
  <2>2. worker' = worker \/ StartLinkWorkers
    BY <1>1 DEF Caller, Terminated, vars, ReturnEmpty, Feed, CloseWork,
                Wait, DrainErr, EndErrs, DrainStats, EndStats, CloseChannels
  <2>3. CASE worker' = worker
    BY <2>1, <2>3
  <2>4. CASE StartLinkWorkers
    BY <2>1, <2>4 DEF StartLinkWorkers, Holding, CountInv, Idle
  <2> QED
    BY <2>2, <2>3, <2>4
<1>2. ASSUME NEW w \in Workers, Receive(w)
      PROVE  ReceivedInv'
  BY <1>2 DEF Receive, Holding, Links
<1>3. ASSUME NEW w \in Workers, ProcessLink(w)
      PROVE  ReceivedInv'
  BY <1>3 DEF ProcessLink, Holding, Links
<1>4. ASSUME NEW w \in Workers, SendErr(w) \/ EndWork(w) \/ SendStats(w) \/ WgDone(w)
      PROVE  ReceivedInv'
  <2>1. UNCHANGED <<taken, holds, outcome>>
    BY <1>4 DEF SendErr, EndWork, SendStats, WgDone
  <2>2. /\ worker[w] # "process" /\ worker'[w] \notin Holding
        /\ \A v \in Workers \ {w} : worker'[v] = worker[v]
    BY <1>4 DEF SendErr, EndWork, SendStats, WgDone, Holding
  <2>3. \A v \in Workers : worker'[v] \in Holding => worker'[v] = worker[v]
    BY <2>2
  <2>4. \A v \in Workers : worker[v] = "process" => worker'[v] = "process"
    BY <2>2
  <2>5. \A l \in 1..taken' : outcome'[l] = "none" =>
          \E v \in Workers : worker'[v] = "process" /\ holds'[v] = l
    BY <2>1, <2>4
  <2> QED
    BY <2>1, <2>3, <2>5
<1> QED
  BY <1>1, <1>2, <1>3, <1>4 DEF Next, Worker

\* Where the workers and the caller end.
LEMMA EndStep == TypeInv /\ CountInv /\ EndInv /\ [Next]_vars => EndInv'
<1> SUFFICES ASSUME TypeInv, CountInv, EndInv, [Next]_vars
             PROVE  EndInv'
  OBVIOUS
<1> USE LinkPoolAssumption DEF EndInv, TypeInv, call, callerVars, workerVars
<1>1. CASE Caller
  <2>1. CASE ReturnEmpty
    BY <2>1 DEF ReturnEmpty, CountInv, Idle, Ended, WorkerCount, Workers
  <2>2. CASE StartLinkWorkers
    <3>1. worker' = [w \in Workers |-> IF w <= WorkerCount THEN "recv" ELSE "none"]
      BY <2>2 DEF StartLinkWorkers
    <3>2. WorkerCount \in Int /\ WorkerCount' = WorkerCount
      BY <2>2, WorkerCountRange DEF StartLinkWorkers, WorkerCount
    <3>3. \A w \in Workers : worker'[w] \notin Ended
      BY <3>1, <3>2 DEF Ended, Workers
    <3>4. \A w \in Workers : worker'[w] = "none" <=> w > WorkerCount'
      BY <3>1, <3>2 DEF Workers
    <3> QED
      BY <2>2, <3>3, <3>4 DEF StartLinkWorkers
  <2>3. CASE Feed
    BY <2>3 DEF Feed, WorkerCount, Ended
  <2>4. CASE CloseWork \/ Wait
    BY <2>4 DEF CloseWork, Wait, WorkerCount
  <2>5. CASE DrainErr \/ EndErrs
    BY <2>5 DEF DrainErr, EndErrs, WorkerCount
  <2>6. CASE DrainStats \/ EndStats
    BY <2>6 DEF DrainStats, EndStats, WorkerCount
  <2>7. CASE CloseChannels
    BY <2>7 DEF CloseChannels, WorkerCount
  <2> QED
    BY <1>1, <2>1, <2>2, <2>3, <2>4, <2>5, <2>6, <2>7 DEF Caller
<1>2. ASSUME NEW w \in Workers, Worker(w)
      PROVE  EndInv'
  <2>1. worker[w] \in Alive
    BY <1>2 DEF Worker, Receive, ProcessLink, SendErr, EndWork, SendStats, WgDone,
                Alive, Running
  <2>2. ~Joined /\ caller # "enter"
    BY <2>1, AliveNotJoined
  <2>3. UNCHANGED <<numLinks, deferredClose, caller, fed, workClosed, errs>>
    BY <1>2 DEF Worker, Receive, ProcessLink, SendErr, EndWork, SendStats, WgDone
  <2>4. /\ \A v \in Workers \ {w} : worker'[v] = worker[v]
        /\ worker[w] # "none" /\ worker'[w] # "none"
    BY <1>2 DEF Worker, Receive, ProcessLink, SendErr, EndWork, SendStats, WgDone
  <2>5. \A v \in Workers : worker'[v] \in Ended => workClosed' /\ taken' = numLinks
    BY <1>2 DEF Worker, Receive, ProcessLink, SendErr, EndWork, SendStats, WgDone, Ended
  <2> QED
    BY <2>2, <2>3, <2>4, <2>5 DEF Joined, WorkerCount
<1>3. CASE Terminated \/ UNCHANGED vars
  BY <1>3 DEF Terminated, vars, WorkerCount
<1> QED
  BY <1>1, <1>2, <1>3 DEF Next

\* The errors collected and those still at their workers.
LEMMA ErrStep ==
    TypeInv /\ CountInv /\ ReceivedInv /\ EndInv /\ ErrInv /\ [Next]_vars => ErrInv'
<1> SUFFICES ASSUME TypeInv, CountInv, ReceivedInv, EndInv, ErrInv, [Next]_vars
             PROVE  ErrInv'
  OBVIOUS
<1> USE LinkPoolAssumption DEF call, callerVars, workerVars
<1>0. /\ CollectedErrs \in Seq(Links) /\ Len(CollectedErrs) \in Nat
      /\ CountAt(worker, Sending) \in Nat
      /\ IsFiniteSet(Failed) /\ Cardinality(Failed) \in Nat
  <2>1. CollectedErrs \in Seq(Links)
    BY ConcatProperties DEF TypeInv, CollectedErrs
  <2>2. CountAt(worker, Sending) \in Nat
    BY CountRange
  <2> QED
    BY <2>1, <2>2, LenProperties, FailedFinite
<1>1. ASSUME UNCHANGED <<numLinks, holds, outcome>>, CollectedErrs' = CollectedErrs,
             SendingErr' = SendingErr
      PROVE  ErrInv'
  <2>1. Failed' = Failed
    BY <1>1 DEF Failed
  <2>2. {holds'[w] : w \in SendingErr'} = {holds[w] : w \in SendingErr}
    BY <1>1
  <2>3. CountAt(worker', Sending) = CountAt(worker, Sending)
    BY <1>1 DEF SendingErr, CountAt
  <2> QED
    BY <1>1, <2>1, <2>2, <2>3 DEF ErrInv
<1>2. CASE DrainErr
  <2>1. CollectedErrs' = CollectedErrs
    <3>1. errs' = Append(errs, Head(errCh)) /\ errCh' = Tail(errCh) /\ errCh # <<>>
      BY <1>2 DEF DrainErr
    <3>2. errs \in Seq(Links) /\ errCh \in Seq(Links)
      BY DEF TypeInv
    <3> QED
      BY <3>1, <3>2, CollectedMoves DEF CollectedErrs
  <2>2. UNCHANGED <<numLinks, holds, outcome, worker>>
    BY <1>2 DEF DrainErr
  <2> QED
    BY <1>1, <2>1, <2>2 DEF SendingErr
<1>3. CASE StartLinkWorkers
  <2>1. SendingErr = {} /\ SendingErr' = {}
    BY <1>3 DEF StartLinkWorkers, CountInv, Idle, SendingErr, Sending
  <2> QED
    BY <1>1, <1>3, <2>1 DEF StartLinkWorkers, CollectedErrs
<1>4. CASE \/ ReturnEmpty \/ Feed \/ CloseWork \/ Wait \/ EndErrs \/ DrainStats
           \/ EndStats \/ CloseChannels \/ Terminated \/ UNCHANGED vars
  <2>1. UNCHANGED <<numLinks, holds, outcome, worker, errs, errCh>>
    BY <1>4 DEF Terminated, vars, ReturnEmpty, Feed, CloseWork,
                Wait, EndErrs, DrainStats, EndStats, CloseChannels
  <2> QED
    BY <1>1, <2>1 DEF SendingErr, CollectedErrs
<1>5. ASSUME NEW w \in Workers,
             Receive(w) \/ EndWork(w) \/ SendStats(w) \/ WgDone(w)
      PROVE  ErrInv'
  <2>1. UNCHANGED <<numLinks, outcome, errs, errCh>>
    BY <1>5 DEF Receive, EndWork, SendStats, WgDone
  <2>2. SendingErr' = SendingErr /\ \A v \in SendingErr : holds'[v] = holds[v]
    BY <1>5 DEF Receive, EndWork, SendStats, WgDone, SendingErr, TypeInv, Sending
  <2>3. {holds'[v] : v \in SendingErr'} = {holds[v] : v \in SendingErr}
    BY <2>2
  <2>4. CountAt(worker', Sending) = CountAt(worker, Sending)
    BY <2>2 DEF SendingErr, CountAt
  <2>5. CollectedErrs' = CollectedErrs /\ Failed' = Failed
    BY <2>1 DEF CollectedErrs, Failed
  <2> QED
    BY <2>3, <2>4, <2>5 DEF ErrInv
<1>6. ASSUME NEW w \in Workers, ProcessLink(w)
      PROVE  ErrInv'
  <2> DEFINE l == holds[w]
  <2>1. PICK o \in {"skipped", "ok", "failed"} :
          /\ outcome' = [outcome EXCEPT ![l] = o]
          /\ worker' = [worker EXCEPT ![w] = IF o = "failed" THEN "sendErr" ELSE "recv"]
    BY <1>6 DEF ProcessLink
  <2>2. UNCHANGED <<numLinks, holds, errs, errCh>> /\ worker[w] = "process"
    BY <1>6 DEF ProcessLink
  <2>3. l \in Links /\ l \in 1..numLinks /\ outcome[l] = "none" /\ l \notin Failed
    BY <2>2 DEF ReceivedInv, TypeInv, Holding, Failed, Links
  <2>4. CollectedErrs' = CollectedErrs
    BY <2>2 DEF CollectedErrs
  <2>5. CountAt(worker', Sending) = CountAt(worker, Sending)
          + (IF o = "failed" THEN 1 ELSE 0)
    <3>1. \A v \in Workers \ {w} : worker'[v] = worker[v]
      BY <2>1 DEF TypeInv
    <3>2. worker'[w] = IF o = "failed" THEN "sendErr" ELSE "recv"
      BY <2>1 DEF TypeInv
    <3>3. CountAt(worker', Sending) = CountAt(worker, Sending)
            + (IF worker'[w] \in Sending THEN 1 ELSE 0)
            - (IF worker[w] \in Sending THEN 1 ELSE 0)
      BY <3>1, CountMove
    <3> QED
      BY <1>0, <2>2, <3>2, <3>3 DEF Sending
  <2>6. CASE o = "failed"
    <3>1. Failed' = Failed \cup {l}
      BY <2>1, <2>2, <2>3, <2>6 DEF Failed, TypeInv, Links
    <3>2. Cardinality(Failed') = Cardinality(Failed) + 1
      BY <1>0, <2>3, <3>1, FS_AddElement
    <3>3. SendingErr' = SendingErr \cup {w}
      BY <2>1, <2>6 DEF SendingErr, TypeInv, Sending
    <3>4. {holds'[v] : v \in SendingErr'} = {holds[v] : v \in SendingErr} \cup {l}
      BY <2>2, <3>3
    <3>5. Len(CollectedErrs') + CountAt(worker', Sending) = Cardinality(Failed')
      BY <1>0, <2>4, <2>5, <2>6, <3>2 DEF ErrInv
    <3>6. {CollectedErrs'[i] : i \in DOMAIN CollectedErrs'}
            \cup {holds'[v] : v \in SendingErr'} = Failed'
      BY <2>4, <3>1, <3>4 DEF ErrInv
    <3> QED
      BY <3>5, <3>6 DEF ErrInv
  <2>7. CASE o # "failed"
    <3>1. Failed' = Failed
      BY <2>1, <2>2, <2>3, <2>7 DEF Failed, TypeInv, Links
    <3>2. SendingErr' = SendingErr
      BY <2>1, <2>2, <2>7 DEF SendingErr, TypeInv, Sending
    <3> QED
      BY <1>0, <2>2, <2>4, <2>5, <2>7, <3>1, <3>2 DEF ErrInv
  <2> QED
    BY <2>6, <2>7
<1>7. ASSUME NEW w \in Workers, SendErr(w)
      PROVE  ErrInv'
  <2>1. /\ UNCHANGED <<numLinks, holds, outcome, errs>> /\ worker[w] = "sendErr"
        /\ errCh' = Append(errCh, holds[w])
        /\ worker' = [worker EXCEPT ![w] = "recv"]
    BY <1>7 DEF SendErr
  <2>2. holds[w] \in Links
    BY <2>1 DEF TypeInv, Holding
  <2>3. CollectedErrs' = Append(CollectedErrs, holds[w])
    <3>1. errs \in Seq(Links) /\ errCh \in Seq(Links)
      BY DEF TypeInv
    <3> QED
      BY <2>1, <2>2, <3>1, CollectedMoves DEF CollectedErrs
  <2>4. /\ {CollectedErrs'[i] : i \in DOMAIN CollectedErrs'}
             = {CollectedErrs[i] : i \in DOMAIN CollectedErrs} \cup {holds[w]}
        /\ Len(CollectedErrs') = Len(CollectedErrs) + 1
    BY <1>0, <2>2, <2>3, AppendedRange, AppendProperties
  <2>5. CountAt(worker', Sending) = CountAt(worker, Sending) - 1
    <3>1. worker'[w] = "recv" /\ \A v \in Workers \ {w} : worker'[v] = worker[v]
      BY <2>1 DEF TypeInv
    <3>2. CountAt(worker', Sending) = CountAt(worker, Sending)
            + (IF worker'[w] \in Sending THEN 1 ELSE 0)
            - (IF worker[w] \in Sending THEN 1 ELSE 0)
      BY <3>1, CountMove
    <3> QED
      BY <1>0, <2>1, <3>1, <3>2 DEF Sending
  <2>6. SendingErr' = SendingErr \ {w} /\ w \in SendingErr
    BY <2>1 DEF SendingErr, TypeInv, Sending
  <2>7. {holds[v] : v \in SendingErr} = {holds[v] : v \in SendingErr \ {w}} \cup {holds[w]}
    BY <2>6
  <2>8. Failed' = Failed
    BY <2>1 DEF Failed
  <2>9. Len(CollectedErrs') + CountAt(worker', Sending) = Cardinality(Failed')
    BY <1>0, <2>4, <2>5, <2>8 DEF ErrInv
  <2>10. {CollectedErrs'[i] : i \in DOMAIN CollectedErrs'}
           \cup {holds'[v] : v \in SendingErr'} = Failed'
    <3>1. {holds'[v] : v \in SendingErr'} = {holds[v] : v \in SendingErr \ {w}}
      BY <2>1, <2>6
    <3> QED
      BY <2>4, <2>7, <2>8, <3>1 DEF ErrInv
  <2> QED
    BY <2>9, <2>10 DEF ErrInv
<1> QED
  BY <1>2, <1>3, <1>4, <1>5, <1>6, <1>7 DEF Next, Caller, Worker

\* Both invariants hold in every reachable state.
THEOREM LinksInvariant == Spec => [](IInv /\ LinkInv)
<1>1. IInv /\ LinkInv /\ [Next]_vars => LinkInv'
  BY ReceivedStep, EndStep, ErrStep DEF IInv, LinkInv
<1> QED
  BY LinkInit, Invariant, <1>1, PTL DEF Spec

\* After the join every link has a result, and nothing is at a worker.
LEMMA AfterJoin ==
    ASSUME IInv, LinkInv, Joined
    PROVE  /\ \A l \in 1..numLinks : outcome[l] # "none"
           /\ {CollectedErrs[i] : i \in DOMAIN CollectedErrs} = Failed
           /\ Len(CollectedErrs) = Cardinality(Failed)
<1>1. \A w \in Workers : worker[w] \notin Alive
  BY AliveNotJoined DEF IInv
<1>2. taken = numLinks
  <2>1. CASE numLinks = 0
    BY <2>1 DEF IInv, TypeInv
  <2>2. CASE numLinks # 0
    <3>1. 1 \in Workers /\ 1 <= WorkerCount
      BY <2>2, LinkPoolAssumption DEF IInv, TypeInv, Workers, WorkerCount
    <3>2. worker[1] # "none"
      <4>1. ~(1 > WorkerCount)
        BY <3>1, WorkerCountRange DEF IInv, TypeInv
      <4> QED
        BY <3>1, <4>1 DEF LinkInv, EndInv, Joined
    <3>3. worker[1] = "gone"
      BY <1>1, <3>1, <3>2 DEF IInv, TypeInv, WorkerPCs, Alive, Running
    <3> QED
      BY <3>1, <3>3 DEF LinkInv, EndInv, Ended
  <2> QED
    BY <2>1, <2>2
<1>3. SendingErr = {} /\ CountAt(worker, Sending) = 0
  <2>1. {v \in Workers : worker[v] \in Sending} = {}
    BY <1>1 DEF Alive, Running, Sending
  <2> QED
    BY <1>1, <2>1, FS_EmptySet DEF SendingErr, CountAt, Alive, Running, Sending
<1>4. \A l \in 1..numLinks : outcome[l] # "none"
  BY <1>1, <1>2 DEF LinkInv, ReceivedInv, Alive, Running
<1>5. Len(CollectedErrs) \in Nat /\ Cardinality(Failed) \in Nat
  <2>1. CollectedErrs \in Seq(Links)
    BY ConcatProperties DEF IInv, TypeInv, CollectedErrs
  <2> QED
    BY <2>1, LenProperties, FailedFinite DEF IInv
<1> QED
  BY <1>3, <1>4, <1>5 DEF LinkInv, ErrInv

\* No error is lost or counted twice between a worker and the caller, whatever
\* the number of links and workers.
THEOREM ErrorsConservedHolds == Spec => []ErrorsConserved
<1>1. IInv /\ LinkInv => ErrorsConserved
  BY AfterJoin DEF ErrorsConserved
<1> QED
  BY LinksInvariant, <1>1, PTL

-----------------------------------------------------------------------------
(***************************************************************************)
(* Sums.                                                                   *)
(***************************************************************************)

\* The sum of the numbers f[d] for d in D, as the number of pairs of a d and a number
\* up to f[d]: no recursion, and no order of adding up.
Pairs(D, f) == UNION {{d} \X (1..f[d]) : d \in D}
SumOver(D, f) == Cardinality(Pairs(D, f))

\* A pair belongs to the element it names.
LEMMA InPairs ==
    ASSUME NEW D, NEW f, NEW p
    PROVE  p \in Pairs(D, f) <=> \E d \in D, k \in Int : k \in 1..f[d] /\ p = <<d, k>>
BY DEF Pairs

\* One element adds f[d] pairs.
LEMMA PairsOfOne ==
    ASSUME NEW d, NEW n \in Nat
    PROVE  IsFiniteSet({d} \X (1..n)) /\ Cardinality({d} \X (1..n)) = n
<1>1. IsFiniteSet({d}) /\ Cardinality({d}) = 1
  BY FS_Singleton
<1>2. IsFiniteSet(1..n) /\ Cardinality(1..n) = n
  BY FS_Interval
<1>3. /\ IsFiniteSet({d} \X (1..n))
      /\ Cardinality({d} \X (1..n)) = Cardinality({d}) * Cardinality(1..n)
  BY <1>1, <1>2, FS_Product
<1> QED
  BY <1>1, <1>2, <1>3

\* The sum of numbers over a finite set is a number.
LEMMA SumType ==
    ASSUME NEW D, IsFiniteSet(D), NEW f, \A d \in D : f[d] \in Nat
    PROVE  IsFiniteSet(Pairs(D, f)) /\ SumOver(D, f) \in Nat
<1> DEFINE Slices == {{d} \X (1..f[d]) : d \in D}
           s == [d \in D |-> {d} \X (1..f[d])]
<1>1. s \in Surjection(D, Slices)
  BY DEF Surjection
<1>2. IsFiniteSet(Slices)
  BY <1>1, FS_Surjection
<1>3. ASSUME NEW T \in Slices
      PROVE  IsFiniteSet(T)
  <2>1. PICK d \in D : T = {d} \X (1..f[d])
    OBVIOUS
  <2> QED
    BY <2>1, PairsOfOne
<1>4. IsFiniteSet(UNION Slices)
  BY <1>2, <1>3, FS_UNION
<1> QED
  BY <1>4, FS_CardinalityType DEF Pairs, SumOver

\* The sum over nothing, and the sum of zeros, is zero.
LEMMA SumZero ==
    ASSUME NEW D, NEW f, \A d \in D : f[d] = 0
    PROVE  SumOver(D, f) = 0
<1>1. Pairs(D, f) = {}
  BY DEF Pairs
<1> QED
  BY <1>1, FS_EmptySet DEF SumOver

\* Only the numbers of the elements of D count.
LEMMA SumSame ==
    ASSUME NEW D, NEW f, NEW g, \A d \in D : f[d] = g[d]
    PROVE  SumOver(D, f) = SumOver(D, g)
<1>1. Pairs(D, f) = Pairs(D, g)
  BY DEF Pairs
<1> QED
  BY <1>1 DEF SumOver

\* An element that is taken out takes its number with it.
LEMMA SumWithout ==
    ASSUME NEW D, IsFiniteSet(D), NEW f, \A d \in D : f[d] \in Nat, NEW x \in D
    PROVE  SumOver(D, f) = SumOver(D \ {x}, f) + f[x]
<1> DEFINE A == Pairs(D \ {x}, f)
           B == {x} \X (1..f[x])
<1>1. IsFiniteSet(A) /\ Cardinality(A) \in Nat
  <2>1. IsFiniteSet(D \ {x}) /\ \A d \in D \ {x} : f[d] \in Nat
    BY FS_RemoveElement
  <2> QED
    BY <2>1, SumType DEF SumOver
<1>2. IsFiniteSet(B) /\ Cardinality(B) = f[x]
  BY PairsOfOne
<1>3. Pairs(D, f) = A \cup B
  BY DEF Pairs
<1>4. A \cap B = {}
  BY DEF Pairs
<1>5. Cardinality(A \cup B) = Cardinality(A) + Cardinality(B) - Cardinality(A \cap B)
  <2> HIDE DEF A, B
  <2> QED
    BY <1>1, <1>2, FS_Union
<1>6. Cardinality(A \cap B) = 0
  BY <1>4, FS_EmptySet
<1> QED
  BY <1>1, <1>2, <1>3, <1>5, <1>6 DEF SumOver

\* When one element changes, the sum changes as much.
LEMMA SumMove ==
    ASSUME NEW D, IsFiniteSet(D), NEW f, NEW g, NEW x \in D,
           \A d \in D : f[d] \in Nat /\ g[d] \in Nat,
           \A d \in D : d # x => f[d] = g[d]
    PROVE  SumOver(D, g) = SumOver(D, f) + g[x] - f[x]
<1>1. SumOver(D, f) = SumOver(D \ {x}, f) + f[x] /\ SumOver(D, g) = SumOver(D \ {x}, g) + g[x]
  BY SumWithout
<1>2. SumOver(D \ {x}, f) = SumOver(D \ {x}, g)
  BY SumSame
<1>3. SumOver(D \ {x}, f) \in Nat
  <2>1. IsFiniteSet(D \ {x})
    BY FS_RemoveElement
  <2> QED
    BY <2>1, SumType
<1> QED
  BY <1>1, <1>2, <1>3

\* What a sequence without its first element adds up to.
LEMMA SumShift ==
    ASSUME NEW n \in Nat, NEW f, NEW g,
           \A i \in 1..n : f[i+1] \in Nat /\ g[i] = f[i + 1]
    PROVE  SumOver(2..(n + 1), f) = SumOver(1..n, g)
<1> DEFINE A == Pairs(1..n, g)
           B == Pairs(2..(n + 1), f)
           h == [p \in A |-> <<p[1] + 1, p[2]>>]
<1>1. IsFiniteSet(A)
  <2>1. IsFiniteSet(1..n)
    BY FS_Interval
  <2> QED
    BY <2>1, SumType
<1>2. h \in [A -> B]
  <2> SUFFICES ASSUME NEW p \in A
               PROVE  <<p[1] + 1, p[2]>> \in B
    OBVIOUS
  <2>1. PICK i \in 1..n, k \in Int : k \in 1..g[i] /\ p = <<i, k>>
    BY InPairs
  <2>2. i + 1 \in 2..(n + 1) /\ k \in 1..f[i + 1] /\ <<p[1] + 1, p[2]>> = <<i + 1, k>>
    BY <2>1
  <2> QED
    BY <2>2, InPairs
<1>3. h \in Injection(A, B)
  <2> SUFFICES ASSUME NEW p \in A, NEW q \in A, h[p] = h[q]
               PROVE  p = q
    BY <1>2 DEF Injection, IsInjective
  <2>1. PICK i \in 1..n, k \in Int : k \in 1..g[i] /\ p = <<i, k>>
    BY InPairs
  <2>2. PICK j \in 1..n, m \in Int : m \in 1..g[j] /\ q = <<j, m>>
    BY InPairs
  <2>3. <<i + 1, k>> = <<j + 1, m>>
    <3>1. h[p] = <<p[1] + 1, p[2]>> /\ h[q] = <<q[1] + 1, q[2]>>
      OBVIOUS
    <3> HIDE DEF h
    <3> QED
      BY <2>1, <2>2, <3>1
  <2> QED
    BY <2>1, <2>2, <2>3
<1>4. h \in Surjection(A, B)
  <2> SUFFICES ASSUME NEW q \in B
               PROVE  \E p \in A : h[p] = q
    BY <1>2 DEF Surjection
  <2>1. PICK j \in 2..(n + 1), k \in Int : k \in 1..f[j] /\ q = <<j, k>>
    BY InPairs
  <2>2. j - 1 \in 1..n /\ (j - 1) + 1 = j
    BY <2>1
  <2>3. <<j - 1, k>> \in A
    BY <2>1, <2>2, InPairs
  <2>4. h[<<j - 1, k>>] = <<(j - 1) + 1, k>>
    BY <2>3
  <2> QED
    BY <2>1, <2>2, <2>3, <2>4
<1>5. ExistsBijection(A, B)
  BY <1>3, <1>4 DEF ExistsBijection, Bijection
<1> QED
  BY <1>1, <1>5, FS_Bijection DEF SumOver

\* A sequence of numbers that gets one more adds it to the sum.
LEMMA SumAppended ==
    ASSUME NEW n \in Nat, NEW f, NEW g,
           \A i \in 1..n : f[i] \in Nat /\ g[i] = f[i], g[n + 1] \in Nat
    PROVE  SumOver(1..(n + 1), g) = SumOver(1..n, f) + g[n + 1]
<1>1. IsFiniteSet(1..(n + 1)) /\ n + 1 \in 1..(n + 1)
  BY FS_Interval
<1>2. \A i \in 1..(n + 1) : g[i] \in Nat
  OBVIOUS
<1>3. SumOver(1..(n + 1), g) = SumOver((1..(n + 1)) \ {n + 1}, g) + g[n + 1]
  BY <1>1, <1>2, SumWithout
<1>4. (1..(n + 1)) \ {n + 1} = 1..n
  OBVIOUS
<1>5. SumOver(1..n, g) = SumOver(1..n, f)
  BY SumSame
<1> QED
  BY <1>3, <1>4, <1>5

\* One that loses its first takes it from the sum.
LEMMA SumTail ==
    ASSUME NEW n \in Nat, NEW f, NEW g,
           \A i \in 1..(n + 1) : f[i] \in Nat, \A i \in 1..n : g[i] = f[i + 1]
    PROVE  SumOver(1..(n + 1), f) = SumOver(1..n, g) + f[1]
<1>1. IsFiniteSet(1..(n + 1)) /\ 1 \in 1..(n + 1)
  BY FS_Interval
<1> DEFINE D == 1..(n + 1)
<1>2. SumOver(D, f) = SumOver(D \ {1}, f) + f[1]
  <2>1. \A d \in D : f[d] \in Nat
    OBVIOUS
  <2>2. IsFiniteSet(D) /\ 1 \in D
    BY <1>1
  <2> HIDE DEF D
  <2> QED
    BY <2>1, <2>2, SumWithout
<1>3. (1..(n + 1)) \ {1} = 2..(n + 1)
  OBVIOUS
<1>4. SumOver(2..(n + 1), f) = SumOver(1..n, g)
  <2>1. \A i \in 1..n : f[i + 1] \in Nat /\ g[i] = f[i + 1]
    OBVIOUS
  <2> QED
    BY <2>1, SumShift, Z3
<1> QED
  BY <1>2, <1>3, <1>4

-----------------------------------------------------------------------------
(***************************************************************************)
(* The counters.  What the workers have counted is with a worker that has  *)
(* not sent it, on statsCh or in total, and never in two of these places.  *)
(***************************************************************************)

Counters == {"processed", "failed"}
Counted(c) == IF c = "failed" THEN Failed ELSE Processed

Unsent == {w \in Workers : worker[w] \notin {"done", "gone"}}

OnChannel(c) == SumOver(1..Len(statsCh), [i \in 1..Len(statsCh) |-> statsCh[i][c]])
AtWorkers(c) == SumOver(Unsent, [w \in Workers |-> stats[w][c]])

SumInv ==
    /\ \A c \in Counters :
         total[c] + OnChannel(c) + AtWorkers(c) = Cardinality(Counted(c))
    /\ \A w \in Workers : worker[w] = "none" => stats[w] = NoStats
    /\ \/ caller = "returned"
       \/ caller = "close" /\ deferredClose
       => statsCh = <<>>

\* What is counted is finite, and the sums are numbers.
LEMMA SumTypes ==
    ASSUME TypeInv, NEW c \in Counters
    PROVE  /\ total[c] \in Nat /\ OnChannel(c) \in Nat /\ AtWorkers(c) \in Nat
           /\ IsFiniteSet(Counted(c)) /\ Cardinality(Counted(c)) \in Nat
           /\ IsFiniteSet(Unsent)
           /\ Len(statsCh) \in Nat /\ \A i \in 1..Len(statsCh) : statsCh[i][c] \in Nat
           /\ \A w \in Workers : stats[w][c] \in Nat
<1>1. \A t \in Stats : t[c] \in Nat
  BY DEF Stats, Counters
<1>2. Len(statsCh) \in Nat /\ \A i \in 1..Len(statsCh) : statsCh[i] \in Stats
  BY LenProperties DEF TypeInv
<1>3. \A i \in 1..Len(statsCh) : statsCh[i][c] \in Nat
  BY <1>1, <1>2
<1>4. \A w \in Workers : stats[w][c] \in Nat
  BY <1>1 DEF TypeInv
<1>5. total[c] \in Nat
  BY <1>1 DEF TypeInv
<1>6. OnChannel(c) \in Nat
  <2>1. IsFiniteSet(1..Len(statsCh))
    BY <1>2, FS_Interval
  <2> QED
    BY <1>3, <2>1, SumType DEF OnChannel
<1>7. IsFiniteSet(Unsent)
  <2>1. Unsent \in SUBSET Workers
    BY DEF Unsent
  <2> QED
    BY <2>1, WorkersFinite, FS_Subset
<1>8. AtWorkers(c) \in Nat
  <2>1. \A w \in Unsent : [v \in Workers |-> stats[v][c]][w] \in Nat
    BY <1>4 DEF Unsent
  <2> QED
    BY <1>7, <2>1, SumType DEF AtWorkers
<1>9. IsFiniteSet(Counted(c)) /\ Cardinality(Counted(c)) \in Nat
  <2>1. IsFiniteSet(1..numLinks)
    BY LinkPoolAssumption, FS_Interval DEF TypeInv
  <2>2. Counted(c) \in SUBSET (1..numLinks)
    BY DEF Counted, Failed, Processed
  <2> QED
    BY <2>1, <2>2, FS_Subset, FS_CardinalityType
<1> QED
  BY <1>2, <1>3, <1>4, <1>5, <1>6, <1>7, <1>8, <1>9

\* Nothing is counted at the start.
LEMMA SumInit == Init => SumInv
<1> SUFFICES ASSUME Init
             PROVE  SumInv
  OBVIOUS
<1>1. ASSUME NEW c \in Counters
      PROVE  total[c] + OnChannel(c) + AtWorkers(c) = Cardinality(Counted(c))
  <2>1. NoStats[c] = 0
    BY <1>1 DEF NoStats, Counters
  <2>2. total[c] = 0 /\ \A w \in Unsent : [v \in Workers |-> stats[v][c]][w] = 0
    BY <2>1 DEF Init, Unsent
  <2>3. AtWorkers(c) = 0
    BY <2>2, SumZero DEF AtWorkers
  <2>4. 1..Len(statsCh) = {}
    BY DEF Init
  <2>5. OnChannel(c) = 0
    BY <2>4, SumZero DEF OnChannel
  <2>6. Counted(c) = {}
    BY LinkPoolAssumption DEF Init, Counted, Failed, Processed, Links
  <2>7. Cardinality(Counted(c)) = 0
    BY <2>6, FS_EmptySet
  <2> QED
    BY <2>2, <2>3, <2>5, <2>7
<1> QED
  BY <1>1 DEF Init, SumInv

\* One case for every action that moves or makes a count.
LEMMA SumStep ==
    TypeInv /\ CountInv /\ ReceivedInv /\ SumInv /\ [Next]_vars => SumInv'
<1> SUFFICES ASSUME TypeInv, CountInv, ReceivedInv, SumInv, [Next]_vars
             PROVE  SumInv'
  OBVIOUS
<1> USE LinkPoolAssumption DEF call, callerVars, workerVars
<1>1. ASSUME UNCHANGED <<numLinks, outcome, statsCh, total>>, Unsent' = Unsent,
             \A w \in Unsent : stats'[w] = stats[w],
             \A w \in Workers : worker'[w] = "none" => stats'[w] = NoStats,
             \/ caller' = "returned"
             \/ caller' = "close" /\ deferredClose'
             => statsCh = <<>>
      PROVE  SumInv'
  <2>1. ASSUME NEW c \in Counters
        PROVE  (total[c] + OnChannel(c) + AtWorkers(c) = Cardinality(Counted(c)))'
    <3>1. Counted(c)' = Counted(c)
      BY <1>1 DEF Counted, Failed, Processed
    <3>2. OnChannel(c)' = OnChannel(c)
      BY <1>1 DEF OnChannel
    <3>3. AtWorkers(c)' = AtWorkers(c)
      <4>1. \A w \in Unsent :
              [v \in Workers |-> stats'[v][c]][w] = [v \in Workers |-> stats[v][c]][w]
        BY <1>1 DEF Unsent
      <4> QED
        BY <1>1, <4>1, SumSame DEF AtWorkers
    <3> QED
      BY <1>1, <3>1, <3>2, <3>3 DEF SumInv
  <2> QED
    BY <1>1, <2>1 DEF SumInv
<1>2. CASE StartLinkWorkers
  <2>1. Unsent = Workers /\ Unsent' = Workers
    BY <1>2 DEF StartLinkWorkers, CountInv, Idle, Unsent
  <2>2. \A w \in Workers : stats[w] = NoStats
    BY <1>2 DEF StartLinkWorkers, CountInv, Idle, SumInv
  <2> QED
    BY <1>1, <1>2, <2>1, <2>2 DEF StartLinkWorkers
<1>3. CASE \/ ReturnEmpty \/ Feed \/ CloseWork \/ Wait \/ DrainErr \/ EndErrs
           \/ EndStats \/ CloseChannels \/ Terminated \/ UNCHANGED vars
  <2>1. UNCHANGED <<numLinks, outcome, statsCh, total, stats, worker>>
    BY <1>3 DEF Terminated, vars, ReturnEmpty, Feed, CloseWork, Wait, DrainErr, EndErrs,
                EndStats, CloseChannels
  <2>2. \/ caller' = "returned"
        \/ caller' = "close" /\ deferredClose'
        => statsCh = <<>>
    BY <1>3 DEF Terminated, vars, ReturnEmpty, Feed, CloseWork, Wait, DrainErr, EndErrs,
                EndStats, CloseChannels, SumInv, CountInv, Idle
  <2> QED
    BY <1>1, <2>1, <2>2 DEF Unsent, SumInv
<1>4. ASSUME NEW w \in Workers, Receive(w) \/ SendErr(w) \/ EndWork(w) \/ WgDone(w)
      PROVE  SumInv'
  <2>1. UNCHANGED <<numLinks, deferredClose, caller, outcome, statsCh, total, stats>>
    BY <1>4 DEF Receive, SendErr, EndWork, WgDone
  <2>2. Unsent' = Unsent /\ \A v \in Workers : worker'[v] = "none" => worker[v] = "none"
    BY <1>4 DEF Receive, SendErr, EndWork, WgDone, Unsent, TypeInv
  <2> QED
    BY <1>1, <2>1, <2>2 DEF SumInv
<1>5. ASSUME NEW w \in Workers, ProcessLink(w)
      PROVE  SumInv'
  <2> DEFINE l == holds[w]
  <2>1. PICK o \in {"skipped", "ok", "failed"} :
          /\ outcome' = [outcome EXCEPT ![l] = o]
          /\ stats' = [stats EXCEPT
               ![w] = Plus(@, [processed |-> IF o = "skipped" THEN 0 ELSE 1,
                               failed |-> IF o = "failed" THEN 1 ELSE 0])]
          /\ worker' = [worker EXCEPT ![w] = IF o = "failed" THEN "sendErr" ELSE "recv"]
    BY <1>5 DEF ProcessLink
  <2>2. /\ UNCHANGED <<numLinks, deferredClose, caller, statsCh, total>>
        /\ worker[w] = "process"
    BY <1>5 DEF ProcessLink
  <2>3. l \in Links /\ l \in 1..numLinks /\ outcome[l] = "none"
    BY <2>2 DEF ReceivedInv, TypeInv, Holding
  <2>4. Unsent' = Unsent /\ w \in Unsent
    BY <2>1, <2>2 DEF Unsent, TypeInv
  <2>5. ASSUME NEW c \in Counters
        PROVE  (total[c] + OnChannel(c) + AtWorkers(c) = Cardinality(Counted(c)))'
    <3> DEFINE more == IF o = "failed" \/ (o = "ok" /\ c = "processed") THEN 1 ELSE 0
               f == [v \in Workers |-> stats[v][c]]
               g == [v \in Workers |-> stats'[v][c]]
    <3>1. stats'[w][c] = stats[w][c] + more /\ \A v \in Workers \ {w} : stats'[v] = stats[v]
      <4>1. stats[w].processed \in Nat /\ stats[w].failed \in Nat
        BY DEF TypeInv, Stats
      <4>2. /\ stats'[w].processed = stats[w].processed + (IF o = "skipped" THEN 0 ELSE 1)
            /\ stats'[w].failed = stats[w].failed + (IF o = "failed" THEN 1 ELSE 0)
            /\ \A v \in Workers \ {w} : stats'[v] = stats[v]
        BY <2>1 DEF Plus, TypeInv
      <4>3. CASE c = "failed"
        BY <4>1, <4>2, <4>3
      <4>4. CASE c = "processed"
        BY <4>1, <4>2, <4>4
      <4> QED
        BY <4>2, <4>3, <4>4 DEF Counters
    <3>2. AtWorkers(c)' = AtWorkers(c) + more
      <4>1. /\ \A v \in Unsent : f[v] \in Nat /\ g[v] \in Nat
            /\ \A v \in Unsent : v # w => f[v] = g[v]
            /\ f[w] \in Nat /\ g[w] = f[w] + more
        <5>1. more \in Nat /\ \A v \in Workers : stats[v][c] \in Nat
          BY SumTypes
        <5> HIDE DEF more
        <5> QED
          BY <3>1, <5>1 DEF Unsent
      <4>2. IsFiniteSet(Unsent) /\ SumOver(Unsent, f) \in Nat
        BY SumTypes DEF AtWorkers
      <4>3. SumOver(Unsent, g) = SumOver(Unsent, f) + g[w] - f[w]
        <5> HIDE DEF f, g, more
        <5> QED
          BY <2>4, <4>1, <4>2, SumMove, Z3
      <4>4. SumOver(Unsent, g) = SumOver(Unsent, f) + more
        <5> HIDE DEF f, g
        <5> QED
          BY <4>1, <4>2, <4>3
      <4> QED
        BY <2>4, <4>4 DEF AtWorkers
    <3>3. Counted(c)' = IF more = 1 THEN Counted(c) \cup {l} ELSE Counted(c)
      <4>1. /\ outcome'[l] = o /\ \A k \in 1..numLinks \ {l} : outcome'[k] = outcome[k]
            /\ numLinks' = numLinks
        BY <2>1, <2>2, <2>3 DEF TypeInv, Links
      <4>2. CASE c = "failed"
        <5>1. Failed' = IF o = "failed" THEN Failed \cup {l} ELSE Failed
          BY <2>3, <4>1 DEF Failed
        <5> QED
          BY <4>2, <5>1 DEF Counted
      <4>3. CASE c = "processed"
        <5>1. Processed' = IF o \in {"ok", "failed"} THEN Processed \cup {l} ELSE Processed
          BY <2>3, <4>1 DEF Processed
        <5> QED
          BY <4>3, <5>1 DEF Counted
      <4> QED
        BY <4>2, <4>3 DEF Counters
    <3>4. l \notin Counted(c)
      BY <2>3 DEF Counted, Failed, Processed
    <3>5. Cardinality(Counted(c)') = Cardinality(Counted(c)) + more
      <4>1. /\ Cardinality(Counted(c) \cup {l}) = Cardinality(Counted(c)) + 1
            /\ Cardinality(Counted(c)) \in Nat
        BY <3>4, SumTypes, FS_AddElement
      <4> QED
        BY <3>3, <4>1
    <3>6. OnChannel(c)' = OnChannel(c)
      BY <2>2 DEF OnChannel
    <3>7. more \in Nat
      OBVIOUS
    <3> HIDE DEF more
    <3> QED
      BY <2>2, <3>2, <3>5, <3>6, <3>7, SumTypes DEF SumInv
  <2>6. \A v \in Workers : worker'[v] = "none" => stats'[v] = NoStats
    BY <2>1, <2>2 DEF TypeInv, SumInv
  <2> QED
    BY <2>2, <2>5, <2>6 DEF SumInv
<1>6. ASSUME NEW w \in Workers, SendStats(w)
      PROVE  SumInv'
  <2>1. /\ UNCHANGED <<numLinks, deferredClose, caller, outcome, total, stats>>
        /\ worker[w] = "sendStats"
        /\ statsCh' = Append(statsCh, stats[w])
        /\ worker' = [worker EXCEPT ![w] = "done"]
    BY <1>6 DEF SendStats
  <2>2. Unsent' = Unsent \ {w} /\ w \in Unsent
    BY <2>1 DEF Unsent, TypeInv
  <2>3. ~Joined
    BY <2>1, AliveNotJoined DEF Alive, Running
  <2>4. ASSUME NEW c \in Counters
        PROVE  (total[c] + OnChannel(c) + AtWorkers(c) = Cardinality(Counted(c)))'
    <3> DEFINE n == Len(statsCh)
               f == [i \in 1..n |-> statsCh[i][c]]
               g == [i \in 1..(n + 1) |-> statsCh'[i][c]]
    <3>1. /\ Len(statsCh') = n + 1 /\ statsCh'[n + 1] = stats[w]
          /\ \A i \in 1..n : statsCh'[i] = statsCh[i]
      BY <2>1, AppendProperties DEF TypeInv
    <3>2. OnChannel(c)' = OnChannel(c) + stats[w][c]
      <4>1. /\ n \in Nat /\ \A i \in 1..n : f[i] \in Nat /\ g[i] = f[i]
            /\ g[n + 1] \in Nat /\ g[n + 1] = stats[w][c]
        BY <3>1, SumTypes
      <4>2. SumOver(1..(n + 1), g) = SumOver(1..n, f) + g[n + 1]
        <5> HIDE DEF f, g, n
        <5> QED
          BY <4>1, SumAppended
      <4> QED
        BY <3>1, <4>1, <4>2 DEF OnChannel
    <3>3. AtWorkers(c)' + stats[w][c] = AtWorkers(c)
      <4> DEFINE h == [v \in Workers |-> stats[v][c]]
      <4>1. (\A v \in Unsent : h[v] \in Nat) /\ h[w] = stats[w][c]
        BY SumTypes DEF Unsent
      <4>2. SumOver(Unsent, h) = SumOver(Unsent \ {w}, h) + h[w]
        <5>1. IsFiniteSet(Unsent)
          BY SumTypes
        <5> HIDE DEF h
        <5> QED
          BY <2>2, <4>1, <5>1, SumWithout
      <4> QED
        BY <2>1, <2>2, <4>1, <4>2 DEF AtWorkers
    <3>4. Counted(c)' = Counted(c)
      BY <2>1 DEF Counted, Failed, Processed
    <3>5. AtWorkers(c)' \in Nat
      <4>1. Unsent' \in SUBSET Unsent
        BY <2>2
      <4>2. IsFiniteSet(Unsent')
        BY <4>1, SumTypes, FS_Subset
      <4>3. \A v \in Unsent' : [u \in Workers |-> stats'[u][c]][v] \in Nat
        BY <2>1, SumTypes DEF Unsent
      <4> QED
        BY <4>2, <4>3, SumType DEF AtWorkers
    <3>6. /\ total[c] \in Nat /\ stats[w][c] \in Nat /\ OnChannel(c) \in Nat
          /\ total[c] + OnChannel(c) + AtWorkers(c) = Cardinality(Counted(c))
      BY SumTypes DEF SumInv
    <3> QED
      BY <2>1, <3>2, <3>3, <3>4, <3>5, <3>6
  <2>5. \A v \in Workers : worker'[v] = "none" => stats'[v] = NoStats
    BY <2>1 DEF TypeInv, SumInv
  <2> QED
    BY <2>1, <2>3, <2>4, <2>5 DEF SumInv, Joined
<1>7. CASE DrainStats
  <2>1. /\ UNCHANGED <<numLinks, deferredClose, caller, outcome, stats, worker>>
        /\ caller = "drainStats" /\ statsCh # <<>>
        /\ total' = Plus(total, Head(statsCh)) /\ statsCh' = Tail(statsCh)
    BY <1>7 DEF DrainStats
  <2>2. ASSUME NEW c \in Counters
        PROVE  (total[c] + OnChannel(c) + AtWorkers(c) = Cardinality(Counted(c)))'
    <3> DEFINE n == Len(statsCh) - 1
               f == [i \in 1..(n + 1) |-> statsCh[i][c]]
               g == [i \in 1..n |-> statsCh'[i][c]]
    <3>1. /\ n \in Nat /\ Len(statsCh) = n + 1 /\ Len(statsCh') = n
          /\ Head(statsCh) = statsCh[1]
          /\ \A i \in 1..n : statsCh'[i] = statsCh[i + 1]
      <4>1. statsCh \in Seq(Stats)
        BY DEF TypeInv
      <4> QED
        BY <2>1, <4>1, HeadTailProperties
    <3>2. total'[c] = total[c] + statsCh[1][c]
      <4>1. statsCh[1] \in Stats
        BY <3>1, LenProperties DEF TypeInv
      <4>2. /\ total'.processed = total.processed + statsCh[1].processed
            /\ total'.failed = total.failed + statsCh[1].failed
        BY <2>1, <3>1 DEF Plus
      <4> QED
        BY <4>1, <4>2 DEF Counters
    <3>3. OnChannel(c) = OnChannel(c)' + statsCh[1][c]
      <4>1. /\ \A i \in 1..(n + 1) : f[i] \in Nat
            /\ \A i \in 1..n : g[i] = f[i + 1]
            /\ f[1] = statsCh[1][c]
        BY <3>1, SumTypes
      <4>2. SumOver(1..(n + 1), f) = SumOver(1..n, g) + f[1]
        <5> HIDE DEF f, g, n
        <5> QED
          BY <3>1, <4>1, SumTail
      <4> QED
        BY <3>1, <4>1, <4>2 DEF OnChannel
    <3>4. OnChannel(c)' \in Nat
      <4>1. IsFiniteSet(1..n)
        BY <3>1, FS_Interval
      <4>2. \A i \in 1..n : g[i] \in Nat
        BY <3>1, SumTypes
      <4>3. SumOver(1..n, g) \in Nat
        BY <4>1, <4>2, SumType
      <4> QED
        BY <3>1, <4>3 DEF OnChannel
    <3>5. AtWorkers(c)' = AtWorkers(c) /\ Counted(c)' = Counted(c)
      BY <2>1 DEF AtWorkers, Unsent, Counted, Failed, Processed
    <3>6. statsCh[1][c] \in Nat
      BY <3>1, SumTypes
    <3>7. /\ total[c] \in Nat /\ AtWorkers(c) \in Nat
          /\ total[c] + OnChannel(c) + AtWorkers(c) = Cardinality(Counted(c))
      BY SumTypes DEF SumInv
    <3> QED
      BY <3>2, <3>3, <3>4, <3>5, <3>6, <3>7
  <2> QED
    BY <2>1, <2>2 DEF SumInv
<1> QED
  BY <1>2, <1>3, <1>4, <1>5, <1>6, <1>7 DEF Next, Caller, Worker

\* What applyToLinks reports counts every link that failed or was processed
\* exactly once, for every number of links and workers and however the links
\* are spread over them.
THEOREM SummaryExactHolds == Spec => []SummaryExact
<1>1. IInv /\ LinkInv /\ SumInv /\ [Next]_vars => SumInv'
  BY SumStep DEF IInv, LinkInv
<1>2. IInv /\ LinkInv /\ SumInv => SummaryExact
  <2> SUFFICES ASSUME IInv, LinkInv, SumInv, caller = "returned"
               PROVE  /\ total.failed = Cardinality(Failed)
                      /\ total.processed = Cardinality(Processed)
                      /\ Len(errs) = total.failed
    BY DEF SummaryExact
  <2>1. Joined
    BY DEF Joined
  <2>2. ASSUME NEW c \in Counters
        PROVE  total[c] = Cardinality(Counted(c))
    <3>1. OnChannel(c) = 0
      <4>1. 1..Len(statsCh) = {}
        BY DEF SumInv
      <4> QED
        BY <4>1, SumZero DEF OnChannel
    <3>2. AtWorkers(c) = 0
      <4>1. \A w \in Unsent : stats[w] = NoStats
        BY <2>1, AliveNotJoined DEF IInv, TypeInv, SumInv, Unsent, WorkerPCs, Alive, Running
      <4>2. \A w \in Unsent : [v \in Workers |-> stats[v][c]][w] = 0
        BY <4>1 DEF NoStats, Counters, Unsent
      <4> QED
        BY <4>2, SumZero DEF AtWorkers
    <3> QED
      BY <3>1, <3>2, SumTypes DEF IInv, SumInv
  <2>3. total.failed = Cardinality(Failed) /\ total.processed = Cardinality(Processed)
    BY <2>2 DEF Counters, Counted
  <2>4. CollectedErrs = errs
    BY DEF CollectedErrs, IInv, TypeInv, LinkInv, EndInv
  <2> QED
    BY <2>1, <2>3, <2>4, AfterJoin
<1> QED
  BY LinksInvariant, SumInit, <1>1, <1>2, PTL DEF Spec

-----------------------------------------------------------------------------
(***************************************************************************)
(* The refinement.                                                         *)
(***************************************************************************)

\* The pool implements ForkJoin: a link's result is one Handle, the return of
\* applyToLinks is the Report, and nothing else is seen.
THEOREM HandlesEachOnceHolds == Spec => HandlesEachOnce
<1>1. Init => FJ!Init
  <2> SUFFICES ASSUME Init
               PROVE  FJ!Init
    OBVIOUS
  <2>1. \A l \in 1..numLinks : outcome[l] = "none"
    BY LinkPoolAssumption DEF Init, Links
  <2> QED
    BY <2>1 DEF Init, FJ!Init
<1>2. IInv /\ LinkInv /\ [Next]_vars => [FJ!Next]_(FJ!vars)
  <2> SUFFICES ASSUME IInv, LinkInv, [Next]_vars
               PROVE  FJ!Next \/ UNCHANGED FJ!vars
    OBVIOUS
  <2> USE DEF call, callerVars, workerVars
  <2>1. ASSUME UNCHANGED <<numLinks, outcome>>, caller # "returned", caller' # "returned"
        PROVE  UNCHANGED FJ!vars
    BY <2>1 DEF FJ!vars
  <2>2. ASSUME UNCHANGED <<numLinks, outcome, errs>>, caller # "returned",
               caller' = "returned", Errs = Failed, \A l \in 1..numLinks : outcome[l] # "none"
        PROVE  FJ!Report
    BY <2>2 DEF FJ!Report, Failed, Errs
  <2>3. CASE Terminated \/ UNCHANGED vars
    BY <2>3 DEF Terminated, vars, FJ!vars, Errs
  <2>4. CASE ReturnEmpty
    <3>1. numLinks = 0 /\ errs = <<>> /\ Failed = {} /\ Errs = {}
      BY <2>4 DEF ReturnEmpty, LinkInv, EndInv, Failed, Errs
    <3> QED
      BY <2>2, <2>4, <3>1 DEF ReturnEmpty, FJ!Next
  <2>5. CASE EndStats \/ CloseChannels
    <3>1. UNCHANGED <<numLinks, outcome, errs>> /\ caller # "returned" /\ Joined
      BY <2>5 DEF EndStats, CloseChannels, Joined
    <3>2. CASE caller' = "returned"
      <4>1. errCh = <<>>
        BY <2>5, <3>2 DEF EndStats, CloseChannels, LinkInv, EndInv
      <4>2. CollectedErrs = errs
        BY <4>1 DEF CollectedErrs, IInv, TypeInv
      <4>3. Errs = Failed /\ \A l \in 1..numLinks : outcome[l] # "none"
        BY <3>1, <4>2, AfterJoin DEF Errs
      <4> QED
        BY <2>2, <3>1, <3>2, <4>3 DEF FJ!Next
    <3> QED
      BY <2>1, <3>1, <3>2
  <2>6. CASE StartLinkWorkers \/ Feed \/ CloseWork \/ Wait \/ DrainErr \/ EndErrs \/ DrainStats
    BY <2>1, <2>6 DEF StartLinkWorkers, Feed, CloseWork, Wait, DrainErr, EndErrs, DrainStats
  <2>7. ASSUME NEW w \in Workers, Worker(w)
        PROVE  FJ!Next \/ UNCHANGED FJ!vars
    <3>1. worker[w] \in Alive
      BY <2>7 DEF Worker, Receive, ProcessLink, SendErr, EndWork, SendStats, WgDone,
                  Alive, Running
    <3>2. caller # "returned" /\ caller' = caller /\ numLinks' = numLinks
      <4>1. ~Joined
        BY <3>1, AliveNotJoined DEF IInv
      <4> QED
        BY <2>7, <4>1
        DEF Joined, Worker, Receive, ProcessLink, SendErr, EndWork, SendStats, WgDone
    <3>3. CASE outcome' = outcome
      BY <2>1, <3>2, <3>3
    <3>4. CASE ProcessLink(w)
      <4> DEFINE l == holds[w]
      <4>1. PICK o \in {"skipped", "ok", "failed"} : outcome' = [outcome EXCEPT ![l] = o]
        BY <3>4 DEF ProcessLink
      <4>2. l \in 1..numLinks /\ outcome[l] = "none" /\ l \in Links /\ 1..numLinks \subseteq Links
        BY <3>4, LinkPoolAssumption
        DEF ProcessLink, IInv, TypeInv, LinkInv, ReceivedInv, Holding, Links
      <4>3. [k \in 1..numLinks |-> outcome'[k]] =
              [[k \in 1..numLinks |-> outcome[k]] EXCEPT ![l] = o]
        BY <4>1, <4>2 DEF IInv, TypeInv
      <4>4. FJ!Handle(l)
        BY <3>2, <4>1, <4>2, <4>3 DEF FJ!Handle, FJ!Results
      <4> QED
        BY <4>2, <4>4 DEF FJ!Next, FJ!Handle
    <3> QED
      BY <2>7, <3>3, <3>4 DEF Worker, Receive, SendErr, EndWork, SendStats, WgDone
  <2> QED
    BY <2>3, <2>4, <2>5, <2>6, <2>7 DEF Next, Caller, FJ!Next
<1> QED
  BY LinksInvariant, <1>1, <1>2, PTL DEF Spec, HandlesEachOnce, FJ!Spec


-----------------------------------------------------------------------------
(***************************************************************************)
(* Where the pool ends.  Every step takes from what is left to do, so that *)
(* a behaviour has at most a known number of them; and as long as the      *)
(* caller has not returned there is a next step, but for the caller in the *)
(* loop over errCh, in the order of the source.                            *)
(***************************************************************************)
AtLink == {"recv", "process", "sendErr"}
AtProcess == {"process"}

\* Steps left to the caller, but for what it sends and drains.
CallerLeft ==
    CASE caller = "enter"      -> 4 * DefaultWorkerCount + 7
      [] caller = "feed"       -> 6
      [] caller = "wait"       -> 5
      [] caller = "close"      -> IF deferredClose THEN 2 ELSE 4
      [] caller = "drainErrs"  -> IF deferredClose THEN 4 ELSE 3
      [] caller = "drainStats" -> IF deferredClose THEN 3 ELSE 2
      [] caller = "returned"   -> 0

\* Steps left to the workers, with those that take what they send from its channel.
WorkersLeft ==
    CountAt(worker, Alive) + 2 * CountAt(worker, Running) + CountAt(worker, AtLink)
      + 2 * CountAt(worker, Holding) + CountAt(worker, AtProcess)

Left ==
    CallerLeft + WorkersLeft + (numLinks - fed) + 4 * (numLinks - taken)
      + Len(errCh) + Len(statsCh)

MaxSteps == 5 * numLinks + 4 * DefaultWorkerCount + 7

\* A worker's share of WorkersLeft.
Share(pc) ==
    CASE pc = "recv"      -> 4
      [] pc = "process"   -> 7
      [] pc = "sendErr"   -> 6
      [] pc = "sendStats" -> 3
      [] pc = "done"      -> 1
      [] pc = "gone"      -> 0
      [] pc = "none"      -> 0

LEMMA ShareMove ==
    ASSUME NEW w \in Workers, worker[w] \in WorkerPCs, worker'[w] \in WorkerPCs,
           \A v \in Workers \ {w} : worker'[v] = worker[v]
    PROVE  WorkersLeft' = WorkersLeft + Share(worker'[w]) - Share(worker[w])
<1> DEFINE In(f, pcs) == IF f[w] \in pcs THEN 1 ELSE 0
<1>1. /\ CountAt(worker', Alive) =
           CountAt(worker, Alive) + In(worker', Alive) - In(worker, Alive)
      /\ CountAt(worker', Running) =
           CountAt(worker, Running) + In(worker', Running) - In(worker, Running)
      /\ CountAt(worker', Holding) =
           CountAt(worker, Holding) + In(worker', Holding) - In(worker, Holding)
  BY CountsMove
<1>2. CountAt(worker', AtLink) =
        CountAt(worker, AtLink) + In(worker', AtLink) - In(worker, AtLink)
  BY CountMove
<1>3. CountAt(worker', AtProcess) =
        CountAt(worker, AtProcess) + In(worker', AtProcess) - In(worker, AtProcess)
  BY CountMove
<1> DEFINE Sum(f) == In(f, Alive) + 2 * In(f, Running) + In(f, AtLink) + 2 * In(f, Holding)
                       + In(f, AtProcess)
<1>4. Sum(worker) = Share(worker[w])
  BY DEF Share, Alive, Running, AtLink, Holding, AtProcess, WorkerPCs
<1>5. Sum(worker') = Share(worker'[w])
  BY DEF Share, Alive, Running, AtLink, Holding, AtProcess, WorkerPCs
<1>6. /\ CountAt(worker, Alive) \in Int /\ CountAt(worker, Running) \in Int
      /\ CountAt(worker, AtLink) \in Int /\ CountAt(worker, Holding) \in Int
      /\ CountAt(worker, AtProcess) \in Int
  BY CountRange, LinkPoolAssumption
<1>7. \A f, pcs : In(f, pcs) \in Int
  OBVIOUS
<1>8. WorkersLeft' = WorkersLeft + Sum(worker') - Sum(worker)
  <2> HIDE DEF In
  <2> QED
    BY <1>1, <1>2, <1>3, <1>6, <1>7 DEF WorkersLeft
<1> HIDE DEF Sum
<1> QED
  BY <1>4, <1>5, <1>8

\* What is left is a number, and not more than the program begins with.
LEMMA LeftTypes ==
    ASSUME TypeInv, CountInv
    PROVE  /\ CallerLeft \in Nat /\ WorkersLeft \in Nat /\ Left \in Nat
           /\ Len(errCh) \in Nat /\ Len(statsCh) \in Nat
           /\ numLinks \in Nat /\ fed \in 0..numLinks /\ taken \in 0..fed
<1>1. CallerLeft \in Nat
  BY LinkPoolAssumption DEF CallerLeft, TypeInv, CallerPCs
<1>2. /\ CountAt(worker, Alive) \in Nat /\ CountAt(worker, Running) \in Nat
      /\ CountAt(worker, AtLink) \in Nat /\ CountAt(worker, Holding) \in Nat
      /\ CountAt(worker, AtProcess) \in Nat
  BY CountRange, LinkPoolAssumption
<1>3. WorkersLeft \in Nat
  BY <1>2 DEF WorkersLeft
<1>4. /\ Len(errCh) \in Nat /\ Len(statsCh) \in Nat
      /\ numLinks \in Nat /\ fed \in 0..numLinks /\ taken \in 0..fed
  BY LinkPoolAssumption DEF TypeInv
<1>5. Left \in Nat
  BY <1>1, <1>3, <1>4 DEF Left
<1> QED
  BY <1>1, <1>3, <1>4, <1>5

LEMMA LeftInit == Init => Left = MaxSteps
<1> SUFFICES ASSUME Init
             PROVE  Left = MaxSteps
  OBVIOUS
<1>1. \A pcs : "none" \notin pcs => CountAt(worker, pcs) = 0
  <2> SUFFICES ASSUME NEW pcs, "none" \notin pcs
               PROVE  CountAt(worker, pcs) = 0
    OBVIOUS
  <2>1. {v \in Workers : worker[v] \in pcs} = {}
    BY DEF Init
  <2> QED
    BY <2>1, FS_EmptySet DEF CountAt
<1>2. WorkersLeft = 0
  BY <1>1 DEF WorkersLeft, Alive, Running, AtLink, Holding, AtProcess
<1>3. CallerLeft = 4 * DefaultWorkerCount + 7
  BY DEF Init, CallerLeft
<1>4. numLinks \in Nat /\ fed = 0 /\ taken = 0 /\ Len(errCh) = 0 /\ Len(statsCh) = 0
  BY LinkPoolAssumption DEF Init
<1> QED
  BY <1>2, <1>3, <1>4, LinkPoolAssumption DEF Left, MaxSteps

\* Each step takes from it: the start of the pool, whose workers come with theirs,
\* a step of the caller or one of a worker.
LEMMA LeftStep ==
    ASSUME IInv, IInv', Next, ~UNCHANGED vars
    PROVE  Left' < Left
<1>0. TypeInv /\ CountInv /\ TypeInv' /\ CountInv'
  BY DEF IInv
<1>1. /\ CallerLeft \in Nat /\ WorkersLeft \in Nat
      /\ Len(errCh) \in Nat /\ Len(statsCh) \in Nat
      /\ numLinks \in Nat /\ fed \in 0..numLinks /\ taken \in 0..fed
  BY <1>0, LeftTypes
<1>2. DefaultWorkerCount \in Nat
  BY LinkPoolAssumption
<1> USE DEF call, callerVars, workerVars
<1>3. CASE StartLinkWorkers
  <2>1. WorkerCount \in 0..DefaultWorkerCount
    BY <1>0, WorkerCountRange DEF TypeInv
  <2>2. /\ CountAt(worker', Alive) = WorkerCount
        /\ CountAt(worker', Running) = WorkerCount
        /\ CountAt(worker', AtLink) = WorkerCount
        /\ CountAt(worker', Holding) = 0
        /\ CountAt(worker', AtProcess) = 0
    <3>1. worker' = [v \in Workers |-> IF v <= WorkerCount THEN "recv" ELSE "none"]
      BY <1>3 DEF StartLinkWorkers
    <3> QED
      BY <2>1, <3>1, CountStarted DEF Alive, Running, AtLink, Holding, AtProcess
  <2>3. WorkersLeft' = 4 * WorkerCount
    BY <2>1, <2>2 DEF WorkersLeft
  <2>4. CallerLeft = 4 * DefaultWorkerCount + 7 /\ CallerLeft' = 6
    BY <1>3 DEF StartLinkWorkers, CallerLeft
  <2>5. UNCHANGED <<numLinks, fed, taken, errCh, statsCh>>
    BY <1>3 DEF StartLinkWorkers
  <2>6. Left' = 6 + 4 * WorkerCount + (numLinks - fed) + 4 * (numLinks - taken)
                  + Len(errCh) + Len(statsCh)
    BY <2>3, <2>4, <2>5 DEF Left
  <2> QED
    BY <1>1, <1>2, <2>1, <2>4, <2>6 DEF Left
<1>4. CASE Caller /\ ~StartLinkWorkers
  <2>1. WorkersLeft' = WorkersLeft /\ UNCHANGED <<numLinks, deferredClose, taken>>
    BY <1>4
    DEF Caller, ReturnEmpty, Feed, CloseWork, Wait, DrainErr, EndErrs, DrainStats, EndStats,
        CloseChannels, WorkersLeft
  <2>2. CASE ReturnEmpty \/ CloseWork \/ Wait \/ EndErrs \/ EndStats \/ CloseChannels
    <3>1. UNCHANGED <<fed, errCh, statsCh>>
      BY <2>2 DEF ReturnEmpty, CloseWork, Wait, EndErrs, EndStats, CloseChannels
    <3>2. CallerLeft' \in Nat /\ CallerLeft' < CallerLeft
      <4>1. deferredClose \in BOOLEAN
        BY <1>0 DEF TypeInv
      <4>2. CASE ReturnEmpty \/ CloseWork
        BY <1>2, <4>2 DEF ReturnEmpty, CloseWork, CallerLeft
      <4>3. CASE Wait
        BY <2>1, <4>1, <4>3 DEF Wait, CallerLeft
      <4>4. CASE EndErrs
        BY <2>1, <4>1, <4>4 DEF EndErrs, CallerLeft
      <4>5. CASE EndStats
        BY <2>1, <4>1, <4>5 DEF EndStats, CallerLeft
      <4>6. CASE CloseChannels
        BY <2>1, <4>1, <4>6 DEF CloseChannels, CallerLeft
      <4> QED
        BY <2>2, <4>2, <4>3, <4>4, <4>5, <4>6
    <3> QED
      BY <1>1, <2>1, <3>1, <3>2 DEF Left
  <2>3. CASE Feed
    <3>1. fed' = fed + 1 /\ UNCHANGED <<caller, errCh, statsCh>>
      BY <2>3 DEF Feed
    <3>2. CallerLeft' = CallerLeft
      BY <2>1, <3>1 DEF CallerLeft
    <3> QED
      BY <1>1, <2>1, <3>1, <3>2 DEF Left
  <2>4. CASE DrainErr
    <3>1. Len(errCh') = Len(errCh) - 1 /\ UNCHANGED <<caller, fed, statsCh>>
      BY <2>4, <1>0 DEF DrainErr, TypeInv
    <3>2. CallerLeft' = CallerLeft
      BY <2>1, <3>1 DEF CallerLeft
    <3> QED
      BY <1>1, <2>1, <3>1, <3>2 DEF Left
  <2>5. CASE DrainStats
    <3>1. Len(statsCh') = Len(statsCh) - 1 /\ UNCHANGED <<caller, fed, errCh>>
      BY <2>5, <1>0 DEF DrainStats, TypeInv
    <3>2. CallerLeft' = CallerLeft
      BY <2>1, <3>1 DEF CallerLeft
    <3> QED
      BY <1>1, <2>1, <3>1, <3>2 DEF Left
  <2> QED
    BY <1>4, <2>2, <2>3, <2>4, <2>5 DEF Caller
<1>5. ASSUME NEW w \in Workers, Worker(w)
      PROVE  Left' < Left
  <2>1. /\ worker \in [Workers -> WorkerPCs]
        /\ worker' \in [Workers -> WorkerPCs]
        /\ \A v \in Workers \ {w} : worker'[v] = worker[v]
    BY <1>0, <1>5
    DEF TypeInv, Worker, Receive, ProcessLink, SendErr, EndWork, SendStats, WgDone
  <2>2. WorkersLeft' = WorkersLeft + Share(worker'[w]) - Share(worker[w])
    BY <2>1, ShareMove
  <2>3. UNCHANGED <<numLinks, deferredClose, caller, fed>>
    BY <1>5 DEF Worker, Receive, ProcessLink, SendErr, EndWork, SendStats, WgDone
  <2>4. CallerLeft' = CallerLeft
    BY <2>3 DEF CallerLeft
  <2>5. CASE Receive(w)
    <3>1. Share(worker'[w]) = 7 /\ Share(worker[w]) = 4
      BY <2>1, <2>5 DEF Receive, Share
    <3>2. taken' = taken + 1 /\ UNCHANGED <<errCh, statsCh>>
      BY <2>5 DEF Receive
    <3>3. WorkersLeft' = WorkersLeft + 3
      BY <1>1, <2>2, <3>1
    <3>4. Left' = CallerLeft + (WorkersLeft + 3) + (numLinks - fed) + 4 * (numLinks - (taken + 1))
                    + Len(errCh) + Len(statsCh)
      BY <2>3, <2>4, <3>2, <3>3 DEF Left
    <3> QED
      BY <1>1, <3>4 DEF Left
  <2>6. CASE ProcessLink(w) \/ EndWork(w) \/ WgDone(w)
    <3>1. Share(worker'[w]) \in Nat /\ Share(worker[w]) \in Nat
      BY <2>1, <2>6 DEF ProcessLink, EndWork, WgDone, Share
    <3>2. Share(worker'[w]) < Share(worker[w])
      BY <2>1, <2>6 DEF ProcessLink, EndWork, WgDone, Share
    <3>3. UNCHANGED <<taken, errCh, statsCh>>
      BY <2>6 DEF ProcessLink, EndWork, WgDone
    <3>4. WorkersLeft' \in Int /\ WorkersLeft' < WorkersLeft
      BY <1>1, <2>2, <3>1, <3>2
    <3> DEFINE rest == (numLinks - fed) + 4 * (numLinks - taken) + Len(errCh) + Len(statsCh)
    <3>5. rest \in Int /\ Left = CallerLeft + WorkersLeft + rest
      BY <1>1 DEF Left
    <3>6. Left' = CallerLeft + WorkersLeft' + rest
      BY <1>1, <2>3, <2>4, <3>3, <3>4 DEF Left
    <3>7. CallerLeft \in Int /\ WorkersLeft \in Int
      BY <1>1
    <3>8. \A a, b, c, d \in Int : b < c => a + b + d < a + c + d
      OBVIOUS
    <3> HIDE DEF rest
    <3>9. CallerLeft + WorkersLeft' + rest < CallerLeft + WorkersLeft + rest
      BY <3>4, <3>5, <3>7, <3>8
    <3> QED
      BY <3>5, <3>6, <3>9
  <2>7. CASE SendErr(w)
    <3>1. Share(worker'[w]) = 4 /\ Share(worker[w]) = 6
      BY <2>1, <2>7 DEF SendErr, Share
    <3>2. UNCHANGED <<taken, statsCh>>
      BY <2>7 DEF SendErr
    <3>3. Len(errCh') = Len(errCh) + 1
      <4>1. errCh \in Seq(Links) /\ holds[w] \in Links
        BY <1>0, <2>7 DEF SendErr, TypeInv, Holding
      <4>2. errCh' = Append(errCh, holds[w])
        BY <2>7 DEF SendErr
      <4> QED
        BY <4>1, <4>2, AppendProperties
    <3>4. WorkersLeft' = WorkersLeft - 2
      BY <1>1, <2>2, <3>1
    <3>5. Left' = CallerLeft + (WorkersLeft - 2) + (numLinks - fed) + 4 * (numLinks - taken)
                    + (Len(errCh) + 1) + Len(statsCh)
      BY <2>3, <2>4, <3>2, <3>3, <3>4 DEF Left
    <3> QED
      BY <1>1, <3>5 DEF Left
  <2>8. CASE SendStats(w)
    <3>1. Share(worker'[w]) = 1 /\ Share(worker[w]) = 3
      BY <2>1, <2>8 DEF SendStats, Share
    <3>2. UNCHANGED <<taken, errCh>>
      BY <2>8 DEF SendStats
    <3>3. Len(statsCh') = Len(statsCh) + 1
      <4>1. statsCh \in Seq(Stats) /\ stats[w] \in Stats
        BY <1>0 DEF TypeInv
      <4>2. statsCh' = Append(statsCh, stats[w])
        BY <2>8 DEF SendStats
      <4> QED
        BY <4>1, <4>2, AppendProperties
    <3>4. WorkersLeft' = WorkersLeft - 2
      BY <1>1, <2>2, <3>1
    <3>5. Left' = CallerLeft + (WorkersLeft - 2) + (numLinks - fed) + 4 * (numLinks - taken)
                    + Len(errCh) + (Len(statsCh) + 1)
      BY <2>3, <2>4, <3>2, <3>3, <3>4 DEF Left
    <3> QED
      BY <1>1, <3>5 DEF Left
  <2> QED
    BY <1>5, <2>5, <2>6, <2>7, <2>8 DEF Worker
<1> QED
  BY <1>3, <1>4, <1>5 DEF Next, Terminated

\* However its goroutines are scheduled, the pool takes at most 5 steps for a link,
\* 4 for a worker and 7 for itself: nothing in it can spin.
THEOREM StepsRunOut == Spec => [](Left \in 0..MaxSteps) /\ [][Left' < Left]_vars
<1>1. IInv /\ IInv' /\ [Next]_vars => [Left' < Left]_vars
  BY LeftStep
<1>2. IInv => Left \in Nat /\ MaxSteps \in Nat
  BY LeftTypes, LinkPoolAssumption DEF IInv, TypeInv, MaxSteps
<1>3. Init => Left <= MaxSteps
  BY LeftInit, <1>2, InitInv
<1>4. [Next]_vars => MaxSteps' = MaxSteps
  <2>1. [Next]_vars => numLinks' = numLinks
    BY DEF Next, Terminated, vars, call, Caller, ReturnEmpty, StartLinkWorkers, Feed,
           CloseWork, Wait, DrainErr, EndErrs, DrainStats, EndStats, CloseChannels,
           Worker, Receive, ProcessLink, SendErr, EndWork, SendStats, WgDone
  <2> QED
    BY <2>1 DEF MaxSteps
<1>5. UNCHANGED vars => Left' = Left
  BY DEF vars, call, callerVars, workerVars, Left, CallerLeft, WorkersLeft
<1>6. /\ IInv /\ Left <= MaxSteps /\ (Left \in Nat)'
      /\ [Next]_vars /\ [Left' < Left]_vars
      => (Left <= MaxSteps)'
  BY <1>2, <1>4, <1>5
<1>7. Spec => []IInv /\ [][Left' < Left]_vars /\ [](Left \in Nat)
  BY Invariant, <1>1, <1>2, PTL DEF Spec
<1>8. Spec => [](Left <= MaxSteps)
  BY <1>3, <1>6, <1>7, PTL DEF Spec
<1>9. IInv /\ Left <= MaxSteps => Left \in 0..MaxSteps
  BY <1>2
<1> QED
  BY <1>7, <1>8, <1>9, PTL

\* What the caller and the workers can do, from the guards of their statements.
CanMove ==
    \/ caller \in {"enter", "feed", "close"}
    \/ caller = "wait" /\ wg = 0
    \/ caller = "drainErrs" /\ (errCh # <<>> \/ closed)
    \/ caller = "drainStats" /\ (statsCh # <<>> \/ closed)
    \/ \E w \in Workers :
         \/ worker[w] = "recv" /\ (taken < fed \/ (taken = fed /\ workClosed))
         \/ worker[w] \in {"process", "done"}
         \/ worker[w] = "sendErr" /\ Len(errCh) < ErrCap
         \/ worker[w] = "sendStats" /\ Len(statsCh) < StatsCap

\* The caller waits for another value or the close of errCh, whose sender and
\* closer is the caller.
Hangs ==
    /\ deferredClose /\ numLinks > 0
    /\ caller = "drainErrs" /\ errCh = <<>> /\ ~closed
    /\ \A w \in Workers : worker[w] \in {"none", "gone"}

\* workCh is closed before the wait, and the other two before the loops over them
\* if they are not closed by defer.
CloseInv ==
    /\ caller = "wait" => workClosed
    /\ ~deferredClose /\ caller \in {"drainErrs", "drainStats"} => closed
    /\ numLinks = 0 => caller \in {"enter", "returned"}

LEMMA CloseStep == TypeInv /\ CloseInv /\ [Next]_vars => CloseInv'
<1> SUFFICES ASSUME TypeInv, CloseInv, [Next]_vars
             PROVE  CloseInv'
  OBVIOUS
<1> USE DEF call, callerVars, workerVars, CloseInv
<1>1. /\ deferredClose \in BOOLEAN /\ closed \in BOOLEAN /\ workClosed \in BOOLEAN
      /\ numLinks \in Nat /\ fed \in 0..numLinks
  BY LinkPoolAssumption DEF TypeInv
<1>2. CASE ReturnEmpty \/ StartLinkWorkers \/ Feed
  BY <1>1, <1>2 DEF ReturnEmpty, StartLinkWorkers, Feed
<1>3. CASE CloseWork \/ Wait
  BY <1>1, <1>3 DEF CloseWork, Wait
<1>4. CASE DrainErr \/ EndErrs \/ DrainStats \/ EndStats \/ CloseChannels
  BY <1>1, <1>4 DEF DrainErr, EndErrs, DrainStats, EndStats, CloseChannels
<1>5. ASSUME NEW w \in Workers, Worker(w)
      PROVE  CloseInv'
  BY <1>5 DEF Worker, Receive, ProcessLink, SendErr, EndWork, SendStats, WgDone
<1>6. CASE Terminated \/ UNCHANGED vars
  BY <1>6 DEF Terminated, vars
<1> QED
  BY <1>2, <1>3, <1>4, <1>5, <1>6 DEF Next, Caller

\* As long as the caller has not returned, it or a worker can go on, but for one
\* state: the order of the source has brought the caller to the end of errCh, which
\* nobody is left to fill and which only the caller's return would close.
THEOREM OnlyTheDrainHangs == Spec => [](caller = "returned" \/ CanMove \/ Hangs)
<1>1. Init => CloseInv
  BY DEF Init, CloseInv
<1>2. IInv /\ CloseInv /\ [Next]_vars => CloseInv'
  BY CloseStep DEF IInv
<1>3. IInv /\ CloseInv => (caller = "returned" \/ CanMove \/ Hangs)
  <2> SUFFICES ASSUME IInv, CloseInv, caller # "returned", ~CanMove
               PROVE  Hangs
    OBVIOUS
  <2>1. /\ caller \in {"wait", "drainErrs", "drainStats"}
        /\ deferredClose \in BOOLEAN /\ closed \in BOOLEAN
    BY DEF CanMove, IInv, TypeInv, CallerPCs
  <2>2. numLinks > 0
    BY <2>1, LinkPoolAssumption DEF CloseInv, IInv, TypeInv
  <2>3. caller # "wait"
    <3> SUFFICES ASSUME caller = "wait"
                 PROVE  FALSE
      OBVIOUS
    <3>1. workClosed /\ wg # 0
      BY DEF CloseInv, CanMove
    <3>2. PICK w \in Workers : worker[w] \in Alive
      <4>1. CountAt(worker, Alive) # 0
        BY <3>1 DEF IInv, CountInv
      <4>2. {v \in Workers : worker[v] \in Alive} # {}
        BY <4>1, FS_EmptySet DEF CountAt
      <4> QED
        BY <4>2
    <3>3. worker[w] # "recv"
      <4>1. fed \in Int /\ taken \in 0..fed
        BY LinkPoolAssumption DEF IInv, TypeInv
      <4> QED
        BY <3>1, <4>1 DEF CanMove
    <3>4. worker[w] \in {"sendErr", "sendStats"}
      BY <3>2, <3>3 DEF CanMove, Alive, Running
    <3> QED
      BY <3>4, SendsGoOn DEF CanMove, SendsSucceed
  <2>4. caller = "drainErrs"
    BY <2>1, <2>2, <2>3 DEF CanMove, CloseInv, IInv, DrainInv
  <2>5. errCh = <<>> /\ ~closed /\ deferredClose
    BY <2>1, <2>4 DEF CanMove, CloseInv
  <2>6. \A w \in Workers : worker[w] \in {"none", "gone"}
    BY <2>4, AliveNotJoined DEF Joined, IInv, TypeInv, WorkerPCs, Alive, Running
  <2> QED
    BY <2>2, <2>4, <2>5, <2>6 DEF Hangs
<1> QED
  BY Invariant, <1>1, <1>2, <1>3, PTL DEF Spec

\* The caller never leaves that state: applyToLinks does not return, and the daemon
\* does not get to its watch loop.
THEOREM HangsForGood == Spec => [][~Hangs]_vars
<1>1. IInv /\ [Next]_vars => [~Hangs]_vars
  <2> SUFFICES ASSUME IInv, Next, Hangs
               PROVE  UNCHANGED vars
    OBVIOUS
  <2>1. ~Caller
    BY DEF Hangs, Caller, ReturnEmpty, StartLinkWorkers, Feed, CloseWork, Wait, DrainErr,
           EndErrs, DrainStats, EndStats, CloseChannels
  <2>2. \A w \in Workers : ~Worker(w)
    BY DEF Hangs, Worker, Receive, ProcessLink, SendErr, EndWork, SendStats, WgDone
  <2> QED
    BY <2>1, <2>2 DEF Next, Terminated
<1> QED
  BY Invariant, <1>1, PTL DEF Spec
=============================================================================
