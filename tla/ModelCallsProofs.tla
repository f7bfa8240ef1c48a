-------------------------- MODULE ModelCallsProofs --------------------------
(***************************************************************************)
(* Theorems about ModelCalls, for every number of slots, instances and     *)
(* calls, every lease that outlives an attempt, and any number of crashes. *)
(***************************************************************************)
EXTENDS ModelCalls, SequenceTheorems, FiniteSetTheorems, TLAPS

----------------------------------------------------------------------------
(* What a step does to the calls.                                          *)

\* All calls but that of r are left alone.
OnlyMoves(r) == \A d \in Request \ {r} : req'[d] = req[d]

\* Numbers are numbers.
LEMMA Numbers ==
  /\ Limit \in Nat \ {0} /\ Lease \in Nat /\ AttemptTimeout \in Nat /\ Lag \in Nat
  /\ StageBudget \in Nat /\ MaxAttempts \in Nat \ {0} /\ MaxTime \in Nat /\ MaxFaults \in Nat
  /\ Lag + AttemptTimeout < Lease
BY ModelCallsAssumption

\* The concluded attempt leaves a call that is done, or failed, or starts over.
LEMMA ConcludeMoves ==
  ASSUME TypeOK, NEW r \in Request, NEW ok, Conclude(r, ok)
  PROVE  /\ req' \in [Request -> Calls]
         /\ req'[r].pc \in {"done", "failed", "start"}
         /\ OnlyMoves(r)
<1> DEFINE new == IF ok THEN [Blank EXCEPT !.pc = "done"]
                  ELSE IF req[r].attempt = MaxAttempts \/ req[r].deadline <= clock
                       THEN [Blank EXCEPT !.pc = "failed"]
                  ELSE [Blank EXCEPT !.pc = "start", !.on = req[r].on,
                                     !.deadline = req[r].deadline,
                                     !.attempt = req[r].attempt + 1]
<1>1. req' = [req EXCEPT ![r] = new]
  BY DEF Conclude
<1>2. Blank \in Calls
  BY Numbers DEF Blank, Calls, PC, Over, Slot
<1>3. [Blank EXCEPT !.pc = "done"] \in Calls /\ [Blank EXCEPT !.pc = "failed"] \in Calls
  BY <1>2 DEF Blank, Calls, PC, Over
<1>4. req[r].attempt # MaxAttempts =>
        [Blank EXCEPT !.pc = "start", !.on = req[r].on, !.deadline = req[r].deadline,
                      !.attempt = req[r].attempt + 1] \in Calls
  <2>1. req[r] \in Calls
    BY DEF TypeOK
  <2>2. req[r].attempt # MaxAttempts => req[r].attempt + 1 \in 1..MaxAttempts
    BY <2>1, Numbers DEF Calls
  <2> QED
    BY <1>2, <2>1, <2>2 DEF Blank, Calls, PC
<1>5. new \in Calls /\ new.pc \in {"done", "failed", "start"}
  BY <1>3, <1>4 DEF Blank
<1> HIDE DEF new
<1> QED
  BY <1>1, <1>5 DEF TypeOK, OnlyMoves

\* A call that goes on keeps the rest of its record.
LEMMA GotoMoves ==
  ASSUME TypeOK, NEW r \in Request, NEW p \in PC, Goto(r, p)
  PROVE  /\ req' \in [Request -> Calls]
         /\ req'[r] = [req[r] EXCEPT !.pc = p]
         /\ req'[r].pc = p
         /\ OnlyMoves(r)
BY DEF TypeOK, Goto, Calls, OnlyMoves

----------------------------------------------------------------------------
(* Types.                                                                  *)

\* The types hold in the beginning.
LEMMA TypeInit == Init => TypeOK
<1>1. Blank \in Calls
  BY Numbers DEF Blank, Calls, PC, Slot
<1>2. 0 \in Time /\ 0 \in 0..MaxFaults
  BY Numbers DEF Time
<1>3. <<>> \in Seq(Request)
  BY EmptySeq
<1> QED
  BY <1>1, <1>2, <1>3 DEF Init, TypeOK

\* A lease has its type.
LEMMA LeaseTypes ==
  ASSUME TypeOK, NEW r \in Request
  PROVE  OwnLease(r) \in LeaseId
BY DEF TypeOK, Calls, OwnLease, LeaseId

\* The head of a queue is a call.
LEMMA QueueTypes ==
  ASSUME TypeOK, NEW i \in Instance, queue[i] # <<>>
  PROVE  Head(queue[i]) \in Request /\ Tail(queue[i]) \in Seq(Request)
BY HeadTailProperties DEF TypeOK

\* Every step keeps the types.
LEMMA TypeStep ==
  ASSUME TypeOK, [Next]_vars
  PROVE  TypeOK'
<1>0. \A r \in Request : req[r] \in Calls
  BY DEF TypeOK
<1>1. ASSUME NEW r \in Request, NEW i \in Instance, Submit(r, i)
      PROVE  TypeOK'
  <2>1. clock + StageBudget \in Nat
    BY Numbers DEF TypeOK, Time
  <2>2. req' = [req EXCEPT ![r] = [req[r] EXCEPT !.pc = "start", !.on = i,
                                                 !.deadline = clock + StageBudget]]
    BY <1>1 DEF Submit
  <2>3. [req[r] EXCEPT !.pc = "start", !.on = i, !.deadline = clock + StageBudget] \in Calls
    BY <1>0, <2>1 DEF Calls, PC
  <2> QED
    BY <1>1, <2>2, <2>3 DEF Submit, TypeOK
<1>2. ASSUME NEW r \in Request, Enqueue(r)
      PROVE  TypeOK'
  <2>1. CASE clock >= req[r].deadline
    BY <1>2, <2>1, ConcludeMoves DEF Enqueue, TypeOK
  <2>2. CASE ~(clock >= req[r].deadline)
    <3>1. req' \in [Request -> Calls]
      BY <1>2, <2>2, GotoMoves DEF Enqueue, PC, Waiting
    <3>2. \A i \in Instance : Append(queue[i], r) \in Seq(Request)
      BY AppendProperties DEF TypeOK
    <3> DEFINE on == req[r].on
    <3>3. queue' = [queue EXCEPT ![on] = Append(queue[on], r)]
      BY <1>2, <2>2 DEF Enqueue
    <3> HIDE DEF on
    <3>4. queue' \in [Instance -> Seq(Request)]
      BY <3>2, <3>3 DEF TypeOK
    <3> QED
      BY <1>2, <3>1, <3>4 DEF Enqueue, TypeOK
  <2> QED
    BY <2>1, <2>2
<1>3. ASSUME NEW i \in Instance, Drain(i)
      PROVE  TypeOK'
  <2> DEFINE r == Head(queue[i])
  <2>1. r \in Request /\ Tail(queue[i]) \in Seq(Request)
    BY <1>3, QueueTypes DEF Drain
  <2>2. queue' \in [Instance -> Seq(Request)]
    BY <1>3, <2>1 DEF Drain, TypeOK
  <2>3. req' \in [Request -> Calls]
    BY <1>3, <2>1, ConcludeMoves, GotoMoves DEF Drain, PC, Waiting
  <2>4. head' \in [Instance -> Request \cup {None}]
    BY <1>3, <2>1 DEF Drain, TypeOK
  <2> QED
    BY <1>3, <2>2, <2>3, <2>4 DEF Drain, TypeOK
<1>4. ASSUME NEW r \in Request, Poll(r)
      PROVE  TypeOK'
  <2>1. CASE clock < req[r].deadline
    <3>1. req' = [req EXCEPT ![r] = [req[r] EXCEPT !.pc = "claiming", !.acquired = clock]]
      BY <1>4, <2>1 DEF Poll
    <3>2. clock \in Nat /\ "claiming" \in PC
      BY Numbers DEF PC, Waiting, TypeOK, Time
    <3>3. [req[r] EXCEPT !.pc = "claiming", !.acquired = clock] \in Calls
      BY <1>0, <3>2 DEF Calls
    <3> QED
      BY <1>4, <2>1, <3>1, <3>3 DEF Poll, TypeOK
  <2>2. CASE ~(clock < req[r].deadline)
    BY <1>4, <2>2, ConcludeMoves DEF Poll, TypeOK
  <2> QED
    BY <2>1, <2>2
<1>5. ASSUME NEW r \in Request, Claim(r)
      PROVE  TypeOK'
  <2>1. ASSUME NEW s \in Slot, Take(r, s)
        PROVE  TypeOK'
    <3>1. req' = [req EXCEPT ![r] = [req[r] EXCEPT !.pc = "granted", !.slot = s]]
      BY <2>1 DEF Take
    <3>2. [req[r] EXCEPT !.pc = "granted", !.slot = s] \in Calls
      BY <1>0 DEF Calls, PC, Permitted
    <3>3. [lease |-> OwnLease(r), expires |-> req[r].acquired + Lease] \in SlotRow
      BY <1>0, LeaseTypes, Numbers DEF Calls, SlotRow
    <3>4. slots' \in [Slot -> SlotRow \cup {None}]
      BY <2>1, <3>3 DEF Take, Occupy, TypeOK
    <3> QED
      BY <1>5, <2>1, <3>1, <3>2, <3>4 DEF Claim, Take, TypeOK
  <2>2. CASE Sleep(r)
    BY <1>5, <2>2, GotoMoves DEF Claim, Sleep, PC, Waiting, TypeOK
  <2> QED
    BY <1>5, <2>1, <2>2 DEF Claim
<1>6. ASSUME NEW r \in Request, ClaimFails(r)
      PROVE  TypeOK'
  BY <1>6, ConcludeMoves DEF ClaimFails, Refuse, TypeOK
<1>14. ASSUME NEW r \in Request, ClaimUnanswered(r)
       PROVE  TypeOK'
  <2>1. faults' \in 0..MaxFaults
    BY <1>14, Numbers DEF ClaimUnanswered, TypeOK
  <2>2. [lease |-> OwnLease(r), expires |-> req[r].acquired + Lease] \in SlotRow
    BY <1>0, LeaseTypes, Numbers DEF Calls, SlotRow
  <2>3. slots' \in [Slot -> SlotRow \cup {None}]
    BY <1>14, <2>2 DEF ClaimUnanswered, Occupy, TypeOK
  <2>4. req' \in [Request -> Calls] /\ head' \in [Instance -> Request \cup {None}]
    BY <1>14, ConcludeMoves DEF ClaimUnanswered, Refuse, TypeOK
  <2> QED
    BY <1>14, <2>1, <2>3, <2>4, LeaseTypes DEF ClaimUnanswered, TypeOK
<1>7. ASSUME NEW r \in Request, Fetch(r)
      PROVE  TypeOK'
  <2>1. CASE clock < req[r].deadline
    <3> DEFINE ends == Earlier(clock + AttemptTimeout, req[r].deadline)
    <3>1. req' = [req EXCEPT ![r] = [req[r] EXCEPT !.pc = "fetching", !.ends = ends]]
      BY <1>7, <2>1 DEF Fetch
    <3>2. ends \in Nat
      BY <1>0, Numbers DEF Calls, Earlier, TypeOK, Time
    <3> HIDE DEF ends
    <3>3. [req[r] EXCEPT !.pc = "fetching", !.ends = ends] \in Calls
      BY <1>0, <3>2 DEF Calls, PC, Permitted
    <3> QED
      BY <1>7, <3>1, <3>3 DEF Fetch, TypeOK
  <2>2. CASE ~(clock < req[r].deadline)
    BY <1>7, <2>2, GotoMoves DEF Fetch, PC, Permitted, TypeOK
  <2> QED
    BY <2>1, <2>2
<1>8. ASSUME NEW r \in Request, NEW ok \in BOOLEAN, Answer(r, ok)
      PROVE  TypeOK'
  <2>1. req' = [req EXCEPT ![r] = [req[r] EXCEPT !.pc = "releasing", !.ok = ok]]
    BY <1>8 DEF Answer
  <2>2. [req[r] EXCEPT !.pc = "releasing", !.ok = ok] \in Calls
    BY <1>0 DEF Calls, PC, Permitted
  <2> QED
    BY <1>8, <2>1, <2>2 DEF Answer, TypeOK
<1>9. ASSUME NEW r \in Request, Release(r)
      PROVE  TypeOK'
  <2>1. slots' \in [Slot -> SlotRow \cup {None}]
    BY <1>9 DEF Release, TypeOK
  <2> QED
    BY <1>9, <2>1, ConcludeMoves DEF Release, TypeOK
<1>10. ASSUME NEW r \in Request, ReleaseUncertain(r)
       PROVE  TypeOK'
  <2>1. faults' \in 0..MaxFaults
    BY <1>10, Numbers DEF ReleaseUncertain, TypeOK
  <2> QED
    BY <1>10, <2>1, ConcludeMoves, LeaseTypes DEF ReleaseUncertain, TypeOK
<1>11. ASSUME NEW i \in Instance, Crash(i)
       PROVE  TypeOK'
  <2>1. faults' \in 0..MaxFaults
    BY <1>11, Numbers DEF Crash, TypeOK
  <2>2. <<>> \in Seq(Request)
    BY EmptySeq
  <2>3. \A r \in Request : /\ [req[r] EXCEPT !.pc = "orphan"] \in Calls
                           /\ [req[r] EXCEPT !.pc = "lost"] \in Calls
    BY <1>0 DEF Calls, PC, Over
  <2>4. \A r \in Request : req'[r] \in {req[r], [req[r] EXCEPT !.pc = "orphan"],
                                        [req[r] EXCEPT !.pc = "lost"]}
    BY <1>11 DEF Crash
  <2>5. req' \in [Request -> Calls]
    <3>1. req' = [r \in Request |-> req'[r]]
      BY <1>11 DEF Crash
    <3> QED
      BY <1>0, <2>3, <2>4, <3>1
  <2> QED
    BY <1>11, <2>1, <2>2, <2>5 DEF Crash, TypeOK
<1>12. ASSUME Tick
       PROVE  TypeOK'
  <2>1. clock' \in Time
    BY <1>12, Numbers DEF Tick, TypeOK, Time
  <2> QED
    BY <1>12, <2>1 DEF Tick, TypeOK
<1>13. ASSUME UNCHANGED vars
       PROVE  TypeOK'
  BY <1>13 DEF vars, TypeOK
<1> QED
  BY <1>1, <1>2, <1>3, <1>4, <1>5, <1>6, <1>7, <1>8, <1>9, <1>10, <1>11, <1>12, <1>13,
     <1>14 DEF Next, Step

\* The types hold in every behaviour.
THEOREM TypeInvariant == Spec => []TypeOK
<1>1. TypeOK /\ [Next]_vars => TypeOK'
  BY TypeStep
<1> QED
  BY TypeInit, <1>1, PTL DEF Spec

----------------------------------------------------------------------------
(* Who is at work holds a slot.                                            *)

\* What the invariant says of one call.
AtWork(r) == At(r, "granted") \/ r \in InFlight
Sound(r) == LeaseOutlives(r) /\ (AtWork(r) => Holds(r))

\* The invariant by calls and slots.
LEMMA InvParts ==
  /\ ModelCallsInv <=> /\ TypeOK /\ QueuedOnce
                       /\ \A r \in Request : Sound(r)
                       /\ \A s \in Slot : Traced(s)
  /\ ModelCallsInv' <=> /\ TypeOK' /\ QueuedOnce'
                        /\ \A r \in Request : Sound(r)'
                        /\ \A s \in Slot : Traced(s)'
BY DEF ModelCallsInv, Sound, AtWork

\* Times are numbers.
LEMMA Times ==
  ASSUME TypeOK, NEW r \in Request
  PROVE  /\ clock \in Nat /\ req[r].acquired \in Nat /\ req[r].ends \in Nat
         /\ req[r].deadline \in Nat /\ req[r].slot \in Slot
BY Numbers DEF TypeOK, Calls, Time

\* The lease of a call at work is not over.
LEMMA LeaseLasts ==
  ASSUME TypeOK, NEW r \in Request, LeaseOutlives(r), AtWork(r)
  PROVE  clock < req[r].acquired + Lease
<1>1. CASE At(r, "granted")
  BY <1>1, Times, Numbers DEF LeaseOutlives, At
<1>2. CASE At(r, "fetching")
  BY <1>2, Times, Numbers DEF LeaseOutlives, At
<1>3. CASE At(r, "orphan") /\ clock < req[r].ends
  BY <1>3, Times, Numbers DEF LeaseOutlives, At
<1> QED
  BY <1>1, <1>2, <1>3 DEF AtWork, InFlight

\* A call that does not move stays sound as long as its slot does.
LEMMA OthersSound ==
  ASSUME NEW r \in Request, Sound(r), req'[r] = req[r], clock' = clock,
         AtWork(r) => slots'[req[r].slot] = slots[req[r].slot]
  PROVE  Sound(r)'
<1>1. AtWork(r)' <=> AtWork(r)
  BY DEF AtWork, InFlight, At
<1>2. LeaseOutlives(r)'
  BY DEF Sound, LeaseOutlives, At
<1>3. AtWork(r) => Holds(r)'
  BY DEF Sound, Holds, OwnLease
<1> QED
  BY <1>1, <1>2, <1>3 DEF Sound

\* A call that is neither near the store nor at the provider is sound.
LEMMA AwaySound ==
  ASSUME NEW r \in Request, req'[r].pc \notin {"claiming", "granted", "fetching", "orphan"}
  PROVE  Sound(r)'
BY DEF Sound, AtWork, InFlight, LeaseOutlives, At

\* A row that stays is still traced when another call moves, or one that had
\* only abandoned rows, or one that keeps its permit.
LEMMA TracedStays ==
  ASSUME TypeOK, NEW r \in Request, OnlyMoves(r), NEW s \in Slot, Traced(s),
         slots'[s] = slots[s], abandoned \subseteq abandoned',
         \/ req[r].pc \notin Permitted \cup {"lost", "orphan"}
         \/ /\ req[r].pc \notin {"lost", "orphan"}
            /\ req'[r].pc \in Permitted
            /\ req'[r].attempt = req[r].attempt /\ req'[r].slot = req[r].slot
         \/ /\ req[r].pc \notin {"lost", "orphan"}
            /\ slots[s] # None /\ slots[s].lease = OwnLease(r) => OwnLease(r) \in abandoned'
  PROVE  Traced(s)'
<1> SUFFICES ASSUME slots[s] # None
             PROVE  Traced(s)'
  BY DEF Traced
<1> DEFINE q == slots[s].lease[1]
<1>1. q \in Request
  BY DEF TypeOK, SlotRow, LeaseId
<1>2. \/ req[q].pc \in Permitted /\ slots[s].lease = OwnLease(q) /\ req[q].slot = s
      \/ req[q].pc \in {"lost", "orphan"}
      \/ slots[s].lease \in abandoned
  BY DEF Traced
<1>3. \/ req'[q].pc \in Permitted /\ slots[s].lease = <<q, req'[q].attempt>>
           /\ req'[q].slot = s
      \/ req'[q].pc \in {"lost", "orphan"}
      \/ slots[s].lease \in abandoned'
  <2>1. CASE q # r
    BY <1>1, <1>2, <2>1 DEF OnlyMoves, OwnLease
  <2>2. CASE q = r
    BY <1>2, <2>2 DEF OwnLease
  <2> QED
    BY <2>1, <2>2
<1> QED
  BY <1>3 DEF Traced, OwnLease

\* Queues are left alone by a call that is not in one.
LEMMA QueueStays ==
  ASSUME TypeOK, QueuedOnce, NEW r \in Request, OnlyMoves(r), ~At(r, "queued"),
         queue' = queue
  PROVE  QueuedOnce'
<1>1. \A i \in Instance : \A k \in DOMAIN queue[i] :
        queue[i][k] \in Request /\ queue[i][k] # r
  BY ElementOfSeq DEF TypeOK, QueuedOnce
<1> QED
  BY <1>1 DEF QueuedOnce, OnlyMoves, At

\* A row is not an empty slot.
LEMMA RowIsThere ==
  ASSUME TypeOK, NEW r \in Request
  PROVE  [lease |-> OwnLease(r), expires |-> req[r].acquired + Lease] # None
<1>1. [lease |-> OwnLease(r), expires |-> req[r].acquired + Lease] \in SlotRow
  BY LeaseTypes, Times, Numbers DEF SlotRow
<1> QED
  BY <1>1, NoneAssumption

\* The invariant holds in the beginning.
LEMMA InvInit == Init => ModelCallsInv
<1> SUFFICES ASSUME Init
             PROVE  ModelCallsInv
  OBVIOUS
<1>1. QueuedOnce
  BY DEF Init, QueuedOnce
<1>2. \A r \in Request : Sound(r)
  BY DEF Init, Sound, LeaseOutlives, AtWork, InFlight, At, Blank
<1>3. \A s \in Slot : Traced(s)
  BY DEF Init, Traced
<1> QED
  BY TypeInit, <1>1, <1>2, <1>3, InvParts

\* A step of one call that leaves the queues and the store alone, and does not
\* bring it to work.
LEMMA PlainStep ==
  ASSUME ModelCallsInv, TypeOK', NEW r \in Request, OnlyMoves(r), Sound(r)',
         ~At(r, "queued"), UNCHANGED <<clock, slots, queue>>, abandoned \subseteq abandoned',
         \/ req[r].pc \notin Permitted \cup {"lost", "orphan"}
         \/ /\ req[r].pc \notin {"lost", "orphan"}
            /\ req'[r].pc \in Permitted
            /\ req'[r].attempt = req[r].attempt /\ req'[r].slot = req[r].slot
         \/ /\ req[r].pc \notin {"lost", "orphan"}
            /\ OwnLease(r) \in abandoned'
  PROVE  ModelCallsInv'
<1>0. /\ TypeOK /\ QueuedOnce /\ \A d \in Request : Sound(d)
      /\ \A s \in Slot : Traced(s)
  BY InvParts
<1>1. QueuedOnce'
  BY <1>0, QueueStays
<1>2. \A d \in Request : Sound(d)'
  BY <1>0, OthersSound DEF OnlyMoves
<1>3. \A s \in Slot : Traced(s)'
  BY <1>0, TracedStays
<1> QED
  BY <1>1, <1>2, <1>3, InvParts

\* A slot that a claim finds free is not that of a call at work: its lease
\* would not be over.
LEMMA FreeIsUnused ==
  ASSUME ModelCallsInv, NEW r \in Request, req[r].pc = "claiming",
         NEW s \in Slot, Free(s, req[r].acquired), NEW d \in Request, AtWork(d)
  PROVE  req[d].slot # s
<1>0. TypeOK /\ Sound(d) /\ Sound(r)
  BY InvParts
<1>1. clock < req[d].acquired + Lease /\ Holds(d)
  BY <1>0, LeaseLasts DEF Sound
<1>2. req[r].acquired <= clock
  BY <1>0 DEF Sound, LeaseOutlives
<1>3. SUFFICES ASSUME req[d].slot = s
               PROVE  FALSE
  OBVIOUS
<1>4. slots[s] # None => slots[s].expires <= req[r].acquired
  BY DEF Free
<1>5. slots[s].expires = req[d].acquired + Lease
  BY <1>1, <1>3 DEF Holds
<1>6. slots[s] # None
  BY <1>0, <1>1, <1>3, RowIsThere DEF Holds
<1> QED
  BY <1>0, <1>1, <1>2, <1>4, <1>5, <1>6, Times, Numbers

\* A call waits for the store, and gets a slot or sleeps.
LEMMA ClaimStep ==
  ASSUME ModelCallsInv, TypeOK', NEW r \in Request, Claim(r)
  PROVE  ModelCallsInv'
<1>0. /\ TypeOK /\ QueuedOnce /\ \A d \in Request : Sound(d)
      /\ \A s \in Slot : Traced(s)
      /\ req[r] \in Calls /\ req[r].pc = "claiming"
  BY InvParts DEF TypeOK, Claim, At
<1>1. ASSUME NEW s \in Slot, Take(r, s)
      PROVE  ModelCallsInv'
  <2> DEFINE row == [lease |-> OwnLease(r), expires |-> req[r].acquired + Lease]
  <2>1. /\ req' = [req EXCEPT ![r] = [req[r] EXCEPT !.pc = "granted", !.slot = s]]
        /\ slots' = [slots EXCEPT ![s] = row]
        /\ Free(s, req[r].acquired)
        /\ UNCHANGED <<clock, queue, abandoned>>
    BY <1>1 DEF Take, Occupy, Claim
  <2> HIDE DEF row
  <2>2. /\ req'[r] = [req[r] EXCEPT !.pc = "granted", !.slot = s] /\ OnlyMoves(r)
        /\ slots'[s] = row /\ \A t \in Slot \ {s} : slots'[t] = slots[t]
    BY <2>1, <1>0 DEF TypeOK, OnlyMoves
  <2>3. /\ req'[r].pc = "granted" /\ req'[r].slot = s
        /\ req'[r].acquired = req[r].acquired /\ req'[r].attempt = req[r].attempt
    BY <2>2, <1>0 DEF Calls
  <2>4. QueuedOnce'
    BY <1>0, <2>1, <2>2, QueueStays DEF At
  <2>5. ASSUME NEW d \in Request
        PROVE  Sound(d)'
    <3>1. CASE d = r
      <4>1. Holds(r)'
        BY <2>2, <2>3 DEF Holds, OwnLease, row
      <4>2. LeaseOutlives(r)'
        BY <1>0, <2>1, <2>3 DEF Sound, LeaseOutlives, At
      <4> QED
        BY <3>1, <4>1, <4>2 DEF Sound
    <3>2. CASE d # r
      <4>1. SUFFICES ASSUME AtWork(d)
                     PROVE  req[d].slot # s
        BY <3>2, <1>0, <2>1, <2>2, Times, OthersSound DEF OnlyMoves
      <4> QED
        BY <4>1, <1>0, <2>1, FreeIsUnused
    <3> QED
      BY <3>1, <3>2
  <2>6. ASSUME NEW t \in Slot
        PROVE  Traced(t)'
    <3>1. CASE t = s
      <4>1. slots'[s].lease = <<r, req'[r].attempt>> /\ slots'[s].lease[1] = r
        BY <2>2, <2>3 DEF row, OwnLease
      <4> QED
        BY <3>1, <2>3, <4>1 DEF Traced, OwnLease, Permitted
    <3>2. CASE t # s
      BY <3>2, <1>0, <2>1, <2>2, TracedStays DEF Permitted
    <3> QED
      BY <3>1, <3>2
  <2> QED
    BY <2>4, <2>5, <2>6, InvParts
<1>2. CASE Sleep(r)
  <2>1. Goto(r, "polling") /\ UNCHANGED <<clock, slots, queue, abandoned>>
    BY <1>2 DEF Sleep, Claim
  <2>2. OnlyMoves(r) /\ req'[r].pc = "polling"
    <3>1. "polling" \in PC
      BY DEF PC, Waiting
    <3> QED
      BY <2>1, <1>0, <3>1, GotoMoves
  <2>3. Sound(r)'
    BY <2>2, AwaySound
  <2> QED
    BY <1>0, <2>1, <2>2, <2>3, PlainStep DEF At, Permitted
<1> QED
  BY <1>1, <1>2 DEF Claim


\* A slot taken without the call knowing is left to its expiry.
LEMMA UnansweredStep ==
  ASSUME ModelCallsInv, TypeOK', NEW r \in Request, ClaimUnanswered(r)
  PROVE  ModelCallsInv'
<1>0. /\ TypeOK /\ QueuedOnce /\ \A d \in Request : Sound(d)
      /\ \A s \in Slot : Traced(s)
      /\ req[r].pc = "claiming"
  BY InvParts DEF ClaimUnanswered, At
<1> DEFINE row == [lease |-> OwnLease(r), expires |-> req[r].acquired + Lease]
<1>1. PICK s \in Slot : /\ Free(s, req[r].acquired)
                        /\ slots' = [slots EXCEPT ![s] = row]
  BY DEF ClaimUnanswered, Occupy
<1>2. row.lease = OwnLease(r)
  OBVIOUS
<1> HIDE DEF row
<1>3. slots'[s] = row /\ \A t \in Slot \ {s} : slots'[t] = slots[t]
  BY <1>0, <1>1 DEF TypeOK
<1>4. /\ UNCHANGED <<clock, queue>>
      /\ abandoned \subseteq abandoned' /\ OwnLease(r) \in abandoned'
  BY DEF ClaimUnanswered
<1>5. /\ OnlyMoves(r)
      /\ req' = req \/ req'[r].pc \in {"done", "failed", "start"}
  BY <1>0, ConcludeMoves DEF ClaimUnanswered, Refuse, OnlyMoves
<1>6. QueuedOnce'
  BY <1>0, <1>4, <1>5, QueueStays DEF At
<1>7. ASSUME NEW d \in Request
      PROVE  Sound(d)'
  <2>1. AtWork(d) => slots'[req[d].slot] = slots[req[d].slot]
    BY <1>0, <1>1, <1>3, FreeIsUnused, Times
  <2>2. CASE req'[d] = req[d]
    BY <1>0, <1>4, <2>1, <2>2, OthersSound
  <2>3. CASE req'[d] # req[d]
    <3>1. d = r /\ req'[r].pc \in {"done", "failed", "start"}
      BY <1>5, <2>3 DEF OnlyMoves
    <3> QED
      BY <3>1, AwaySound
  <2> QED
    BY <2>2, <2>3
<1>8. ASSUME NEW t \in Slot
      PROVE  Traced(t)'
  <2>1. CASE t = s
    BY <1>2, <1>3, <1>4, <2>1 DEF Traced
  <2>2. CASE t # s
    BY <1>0, <1>3, <1>4, <1>5, <2>2, TracedStays DEF Permitted
  <2> QED
    BY <2>1, <2>2
<1> QED
  BY <1>6, <1>7, <1>8, InvParts

\* The slot is given back, if it still is this lease's.
LEMMA ReleaseStep ==
  ASSUME ModelCallsInv, TypeOK', NEW r \in Request, Release(r)
  PROVE  ModelCallsInv'
<1>0. /\ TypeOK /\ QueuedOnce /\ \A d \in Request : Sound(d)
      /\ \A s \in Slot : Traced(s)
      /\ req[r].pc = "releasing"
  BY InvParts DEF Release, At
<1> DEFINE mine == req[r].slot
<1>1. /\ slots' = [slots EXCEPT ![mine] = IF slots[mine] # None
                                               /\ slots[mine].lease = OwnLease(r)
                                           THEN None ELSE slots[mine]]
      /\ UNCHANGED <<clock, queue, abandoned>>
      /\ Conclude(r, req[r].ok)
  BY DEF Release
<1>2. OnlyMoves(r) /\ req'[r].pc \in {"done", "failed", "start"}
  BY <1>0, <1>1, ConcludeMoves
<1>3. mine \in Slot
  BY <1>0, Times
<1>4. /\ \A t \in Slot : slots'[t] # slots[t] =>
             t = mine /\ slots[t] # None /\ slots[t].lease = OwnLease(r) /\ slots'[t] = None
      /\ slots[mine] # None /\ slots[mine].lease = OwnLease(r) => slots'[mine] = None
  BY <1>0, <1>1, <1>3 DEF TypeOK
<1> HIDE DEF mine
<1>5. QueuedOnce'
  BY <1>0, <1>1, <1>2, QueueStays DEF At
<1>6. ASSUME NEW d \in Request
      PROVE  Sound(d)'
  <2>1. CASE d = r
    BY <1>2, <2>1, AwaySound
  <2>2. CASE d # r
    <3>1. SUFFICES ASSUME AtWork(d), slots'[req[d].slot] # slots[req[d].slot]
                   PROVE  FALSE
      BY <1>0, <1>1, <1>2, <2>2, OthersSound DEF OnlyMoves
    <3>2. Holds(d) /\ req[d].slot \in Slot
      BY <1>0, <3>1, Times DEF Sound
    <3>3. slots[req[d].slot].lease = OwnLease(d)
      BY <3>2 DEF Holds
    <3> QED
      BY <1>4, <2>2, <3>1, <3>2, <3>3 DEF OwnLease
  <2> QED
    BY <2>1, <2>2
<1>7. ASSUME NEW t \in Slot
      PROVE  Traced(t)'
  <2>1. CASE slots'[t] # slots[t]
    BY <1>4, <2>1 DEF Traced
  <2>2. CASE slots'[t] = slots[t]
    <3>1. CASE slots[t] # None /\ slots[t].lease = OwnLease(r)
      <4>1. slots[t].lease[1] = r
        BY <3>1 DEF OwnLease
      <4>2. OwnLease(r) \in abandoned \/ t = mine
        BY <1>0, <3>1, <4>1 DEF Traced, mine
      <4>3. OwnLease(r) \in abandoned'
        BY <1>1, <1>4, <2>2, <3>1, <4>2
      <4> QED
        BY <1>0, <1>1, <1>2, <2>2, <4>3, TracedStays
    <3>2. CASE ~(slots[t] # None /\ slots[t].lease = OwnLease(r))
      BY <1>0, <1>1, <1>2, <2>2, <3>2, TracedStays
    <3> QED
      BY <3>1, <3>2
  <2> QED
    BY <2>1, <2>2
<1> QED
  BY <1>5, <1>6, <1>7, InvParts

\* A crash leaves rows and requests behind.
LEMMA CrashStep ==
  ASSUME ModelCallsInv, TypeOK', NEW i \in Instance, Crash(i)
  PROVE  ModelCallsInv'
<1>0. /\ TypeOK /\ QueuedOnce /\ \A d \in Request : Sound(d)
      /\ \A s \in Slot : Traced(s)
  BY InvParts
<1>1. /\ queue' = [queue EXCEPT ![i] = <<>>]
      /\ UNCHANGED <<clock, slots, abandoned>>
      /\ \A r \in Request : req'[r] =
           IF req[r].on # i \/ req[r].pc \in Over THEN req[r]
           ELSE [req[r] EXCEPT !.pc = IF req[r].pc = "fetching" THEN "orphan" ELSE "lost"]
  BY DEF Crash
<1>2. ASSUME NEW r \in Request
      PROVE  \/ req'[r] = req[r]
             \/ /\ req[r].pc = "fetching" /\ req'[r] = [req[r] EXCEPT !.pc = "orphan"]
                /\ req'[r].pc = "orphan"
             \/ req'[r] = [req[r] EXCEPT !.pc = "lost"] /\ req'[r].pc = "lost"
  <2>1. req[r] \in Calls
    BY <1>0 DEF TypeOK
  <2> QED
    BY <1>1, <2>1 DEF Calls
<1>3. QueuedOnce'
  <2>1. ASSUME NEW j \in Instance, j # i
        PROVE  /\ queue'[j] = queue[j]
               /\ \A k \in DOMAIN queue[j] : req'[queue[j][k]] = req[queue[j][k]]
    <3>1. \A k \in DOMAIN queue[j] : queue[j][k] \in Request /\ req[queue[j][k]].on = j
      BY <1>0, ElementOfSeq DEF TypeOK, QueuedOnce
    <3> QED
      BY <1>0, <1>1, <2>1, <3>1 DEF TypeOK
  <2>2. queue'[i] = <<>>
    BY <1>0, <1>1 DEF TypeOK
  <2> QED
    BY <1>0, <2>1, <2>2 DEF QueuedOnce, At
<1>4. ASSUME NEW r \in Request
      PROVE  Sound(r)'
  <2>1. CASE req'[r] = req[r]
    BY <1>0, <1>1, <2>1, OthersSound
  <2>2. CASE req[r].pc = "fetching" /\ req'[r] = [req[r] EXCEPT !.pc = "orphan"]
             /\ req'[r].pc = "orphan"
    <3>1. /\ req'[r].acquired = req[r].acquired /\ req'[r].ends = req[r].ends
          /\ req'[r].slot = req[r].slot /\ req'[r].attempt = req[r].attempt
      BY <1>0, <2>2 DEF TypeOK, Calls
    <3>2. LeaseOutlives(r) /\ Holds(r)
      BY <1>0, <2>2 DEF Sound, AtWork, InFlight, At
    <3>3. LeaseOutlives(r)'
      BY <2>2, <3>1, <3>2 DEF LeaseOutlives, At
    <3>4. Holds(r)'
      BY <1>1, <3>1, <3>2 DEF Holds, OwnLease
    <3> QED
      BY <3>3, <3>4 DEF Sound
  <2>3. CASE req'[r].pc = "lost"
    BY <2>3, AwaySound
  <2> QED
    BY <1>2, <2>1, <2>2, <2>3
<1>5. ASSUME NEW s \in Slot
      PROVE  Traced(s)'
  <2> SUFFICES ASSUME slots[s] # None
               PROVE  Traced(s)'
    BY <1>1 DEF Traced
  <2> DEFINE q == slots[s].lease[1]
  <2>1. q \in Request
    BY <1>0 DEF TypeOK, SlotRow, LeaseId
  <2>2. \/ req[q].pc \in Permitted /\ slots[s].lease = OwnLease(q) /\ req[q].slot = s
        \/ req[q].pc \in {"lost", "orphan"}
        \/ slots[s].lease \in abandoned
    BY <1>0 DEF Traced
  <2>3. req'[q] = req[q] \/ req'[q].pc \in {"lost", "orphan"}
    BY <1>2, <2>1
  <2> QED
    BY <1>1, <2>2, <2>3 DEF Traced, OwnLease
<1> QED
  BY <1>3, <1>4, <1>5, InvParts

\* A call joins its queue, unless its time is over.
LEMMA EnqueueStep ==
  ASSUME ModelCallsInv, TypeOK', NEW r \in Request, Enqueue(r)
  PROVE  ModelCallsInv'
<1>0. /\ TypeOK /\ QueuedOnce /\ \A d \in Request : Sound(d)
      /\ \A s \in Slot : Traced(s)
      /\ req[r].pc = "start" /\ req[r] \in Calls
  BY InvParts DEF Enqueue, At, TypeOK
<1>1. CASE clock >= req[r].deadline
  <2>1. OnlyMoves(r) /\ req'[r].pc \in {"done", "failed", "start"}
    BY <1>0, <1>1, ConcludeMoves DEF Enqueue
  <2>2. Sound(r)'
    BY <2>1, AwaySound
  <2> QED
    BY <1>0, <1>1, <2>1, <2>2, PlainStep DEF Enqueue, At, Permitted
<1>2. CASE ~(clock >= req[r].deadline)
  <2> DEFINE on == req[r].on
  <2>1. /\ OnlyMoves(r)
        /\ req'[r] = [req[r] EXCEPT !.pc = "queued"] /\ req'[r].pc = "queued"
        /\ queue' = [queue EXCEPT ![on] = Append(queue[on], r)]
        /\ UNCHANGED <<clock, slots, abandoned>>
    <3>1. "queued" \in PC
      BY DEF PC, Waiting
    <3> QED
      BY <1>0, <1>2, <3>1, GotoMoves DEF Enqueue
  <2>2. \A d \in Request : Sound(d)'
    BY <1>0, <2>1, OthersSound, AwaySound DEF OnlyMoves
  <2>3. \A s \in Slot : Traced(s)'
    BY <1>0, <2>1, TracedStays DEF Permitted
  <2>4. req'[r].on = on
    BY <1>0, <2>1 DEF Calls
  <2>5. ASSUME NEW i \in Instance
        PROVE  \A k \in DOMAIN queue'[i] :
                 /\ req'[queue'[i][k]].pc = "queued" /\ req'[queue'[i][k]].on = i
                 /\ \A l \in DOMAIN queue'[i] : queue'[i][k] = queue'[i][l] => k = l
    <3>1. \A k \in DOMAIN queue[i] : queue[i][k] \in Request /\ queue[i][k] # r
      BY <1>0, ElementOfSeq DEF TypeOK, QueuedOnce, At
    <3>2. \A k \in DOMAIN queue[i] :
            /\ req'[queue[i][k]].pc = "queued" /\ req'[queue[i][k]].on = i
            /\ \A l \in DOMAIN queue[i] : queue[i][k] = queue[i][l] => k = l
      BY <1>0, <2>1, <3>1 DEF QueuedOnce, OnlyMoves, At
    <3>3. CASE i # on
      BY <1>0, <2>1, <3>2, <3>3 DEF TypeOK
    <3>4. CASE i = on
      <4> DEFINE old == queue[i]
                 new == queue'[i]
      <4>1. old \in Seq(Request) /\ new = Append(old, r)
        BY <1>0, <2>1, <3>4 DEF TypeOK
      <4>2. /\ Len(new) = Len(old) + 1 /\ new \in Seq(Request)
            /\ \A k \in 1..Len(old) : new[k] = old[k]
            /\ new[Len(old) + 1] = r
        BY <4>1, AppendProperties
      <4>3. /\ DOMAIN old = 1..Len(old) /\ DOMAIN new = 1..Len(new) /\ Len(old) \in Nat
        BY <4>1, <4>2, LenProperties
      <4>4. /\ \A k \in 1..Len(old) : /\ new[k] # r
                                      /\ req'[new[k]].pc = "queued" /\ req'[new[k]].on = i
            /\ \A k, l \in 1..Len(old) : new[k] = new[l] => k = l
        BY <3>1, <3>2, <4>2, <4>3
      <4> HIDE DEF old, new
      <4>5. \A k \in 1..Len(new) : k \in 1..Len(old) \/ k = Len(old) + 1
        BY <4>2, <4>3
      <4>6. \A k \in DOMAIN new :
              /\ req'[new[k]].pc = "queued" /\ req'[new[k]].on = i
              /\ \A l \in DOMAIN new : new[k] = new[l] => k = l
        BY <2>1, <2>4, <3>4, <4>2, <4>3, <4>4, <4>5
      <4> QED
        BY <4>6 DEF new
    <3> QED
      BY <3>3, <3>4
  <2>6. QueuedOnce'
    BY <2>5 DEF QueuedOnce, At
  <2> QED
    BY <2>2, <2>3, <2>6, InvParts
<1> QED
  BY <1>1, <1>2

\* The drain takes the entry before all others.
LEMMA DrainStep ==
  ASSUME ModelCallsInv, TypeOK', NEW i \in Instance, Drain(i)
  PROVE  ModelCallsInv'
<1> DEFINE r == Head(queue[i])
           old == queue[i]
<1>0. /\ TypeOK /\ QueuedOnce /\ \A d \in Request : Sound(d)
      /\ \A s \in Slot : Traced(s)
      /\ old \in Seq(Request) /\ old # <<>>
  BY InvParts DEF Drain, TypeOK
<1>1. /\ r \in Request /\ Tail(old) \in Seq(Request) /\ r = old[1]
      /\ Len(Tail(old)) = Len(old) - 1
      /\ \A k \in 1..Len(Tail(old)) : Tail(old)[k] = old[k + 1]
      /\ Len(old) \in Nat \ {0}
  BY <1>0, HeadTailProperties, EmptySeq, LenProperties
<1>2. DOMAIN old = 1..Len(old) /\ DOMAIN Tail(old) = 1..Len(Tail(old))
  BY <1>0, <1>1, LenProperties
<1>3. req[r].pc = "queued" /\ req[r].on = i
  BY <1>0, <1>1, <1>2 DEF QueuedOnce, At
<1>4. /\ queue' = [queue EXCEPT ![i] = Tail(old)]
      /\ UNCHANGED <<clock, slots, abandoned>>
      /\ Conclude(r, FALSE) \/ Goto(r, "polling")
  BY DEF Drain
<1>5. OnlyMoves(r) /\ req'[r].pc \in {"done", "failed", "start", "polling"}
  <2>1. "polling" \in PC
    BY DEF PC, Waiting
  <2> QED
    BY <1>0, <1>1, <1>4, <2>1, ConcludeMoves, GotoMoves
<1>6. \A d \in Request : Sound(d)'
  BY <1>0, <1>4, <1>5, OthersSound, AwaySound DEF OnlyMoves
<1>7. \A s \in Slot : Traced(s)'
  BY <1>0, <1>1, <1>3, <1>4, <1>5, TracedStays DEF Permitted
<1>8. ASSUME NEW j \in Instance
      PROVE  \A k \in DOMAIN queue'[j] :
               /\ req'[queue'[j][k]].pc = "queued" /\ req'[queue'[j][k]].on = j
               /\ \A l \in DOMAIN queue'[j] : queue'[j][k] = queue'[j][l] => k = l
  <2>1. \A k \in DOMAIN queue[j] : queue[j][k] \in Request
    BY <1>0, ElementOfSeq DEF TypeOK
  <2>2. \A k \in DOMAIN queue[j] :
          /\ queue[j][k] # r =>
               req'[queue[j][k]].pc = "queued" /\ req'[queue[j][k]].on = j
          /\ \A l \in DOMAIN queue[j] : queue[j][k] = queue[j][l] => k = l
    BY <1>0, <1>5, <2>1 DEF QueuedOnce, OnlyMoves, At
  <2>3. CASE j # i
    <3>1. \A k \in DOMAIN queue[j] : queue[j][k] # r
      BY <1>0, <1>3, <2>3 DEF QueuedOnce
    <3> QED
      BY <1>0, <1>4, <2>2, <2>3, <3>1 DEF TypeOK
  <2>4. CASE j = i
    <3> DEFINE new == Tail(old)
    <3>1. queue'[j] = new
      BY <1>0, <1>4, <2>4 DEF TypeOK
    <3>2. \A k \in 1..Len(new) : new[k] = old[k + 1] /\ k + 1 \in 1..Len(old) /\ k + 1 # 1
      BY <1>1
    <3>3. \A k \in 1..Len(new) : new[k] # r
      BY <1>1, <1>2, <2>2, <2>4, <3>2
    <3>4. \A k \in 1..Len(new) :
            /\ req'[new[k]].pc = "queued" /\ req'[new[k]].on = j
            /\ \A l \in 1..Len(new) : new[k] = new[l] => k = l
      BY <1>2, <2>2, <2>4, <3>2, <3>3
    <3> QED
      BY <1>2, <3>1, <3>4
  <2> QED
    BY <2>3, <2>4
<1>9. QueuedOnce'
  BY <1>8 DEF QueuedOnce, At
<1> QED
  BY <1>6, <1>7, <1>9, InvParts

\* Time passes only while nobody overstays.
LEMMA TickStep ==
  ASSUME ModelCallsInv, TypeOK', Tick
  PROVE  ModelCallsInv'
<1>0. /\ TypeOK /\ QueuedOnce /\ \A d \in Request : Sound(d)
      /\ \A s \in Slot : Traced(s)
  BY InvParts
<1>1. clock' = clock + 1 /\ UNCHANGED <<slots, queue, req, abandoned>>
  BY DEF Tick
<1>2. QueuedOnce' /\ \A s \in Slot : Traced(s)'
  BY <1>0, <1>1 DEF QueuedOnce, Traced, OwnLease, At
<1>3. ASSUME NEW r \in Request
      PROVE  Sound(r)'
  <2>1. /\ req[r].pc \in {"claiming", "granted"} => clock < req[r].acquired + Lag
        /\ At(r, "fetching") => clock < req[r].ends
    BY DEF Tick
  <2>2. LeaseOutlives(r) /\ (AtWork(r) => Holds(r))
    BY <1>0 DEF Sound
  <2>3. LeaseOutlives(r)'
    BY <1>0, <1>1, <2>1, <2>2, Times, Numbers DEF LeaseOutlives, At
  <2>4. AtWork(r)' => AtWork(r)
    BY <1>0, <1>1, Times DEF AtWork, InFlight, At
  <2>5. Holds(r)' <=> Holds(r)
    BY <1>1 DEF Holds, OwnLease
  <2> QED
    BY <2>2, <2>3, <2>4, <2>5 DEF Sound
<1> QED
  BY <1>2, <1>3, InvParts

\* Every step keeps the invariant.
LEMMA InvStep ==
  ASSUME ModelCallsInv, [Next]_vars
  PROVE  ModelCallsInv'
<1>0. /\ TypeOK /\ TypeOK' /\ QueuedOnce /\ \A d \in Request : Sound(d)
      /\ \A r \in Request : req[r] \in Calls
  BY TypeStep, InvParts DEF TypeOK
<1>1. ASSUME NEW r \in Request, NEW i \in Instance, Submit(r, i)
      PROVE  ModelCallsInv'
  <2>1. OnlyMoves(r) /\ req'[r].pc = "start" /\ req[r].pc = "new"
    BY <1>0, <1>1 DEF Submit, TypeOK, Calls, OnlyMoves, At
  <2> QED
    BY <1>0, <1>1, <2>1, AwaySound, PlainStep DEF Submit, At, Permitted
<1>2. ASSUME NEW r \in Request, Poll(r)
      PROVE  ModelCallsInv'
  <2>1. CASE clock < req[r].deadline
    <3>1. /\ OnlyMoves(r) /\ req[r].pc = "polling"
          /\ req'[r].pc = "claiming" /\ req'[r].acquired = clock
      BY <1>0, <1>2, <2>1 DEF Poll, TypeOK, Calls, OnlyMoves, At
    <3>2. clock' = clock /\ clock \in Nat
      BY <1>0, <1>2, Numbers DEF Poll, TypeOK, Time
    <3>3. Sound(r)'
      BY <3>1, <3>2, Numbers DEF Sound, LeaseOutlives, AtWork, InFlight, At
    <3> QED
      BY <1>0, <1>2, <3>1, <3>3, PlainStep DEF Poll, At, Permitted
  <2>2. CASE ~(clock < req[r].deadline)
    <3>1. /\ OnlyMoves(r) /\ req[r].pc = "polling"
          /\ req'[r].pc \in {"done", "failed", "start"}
      BY <1>0, <1>2, <2>2, ConcludeMoves DEF Poll, At
    <3> QED
      BY <1>0, <1>2, <3>1, AwaySound, PlainStep DEF Poll, At, Permitted
  <2> QED
    BY <2>1, <2>2
<1>3. ASSUME NEW r \in Request, ClaimFails(r)
      PROVE  ModelCallsInv'
  <2>1. /\ OnlyMoves(r) /\ req[r].pc = "claiming"
        /\ req'[r].pc \in {"done", "failed", "start"}
    BY <1>0, <1>3, ConcludeMoves DEF ClaimFails, Refuse, At
  <2> QED
    BY <1>0, <1>3, <2>1, AwaySound, PlainStep DEF ClaimFails, At, Permitted
<1>4. ASSUME NEW r \in Request, Fetch(r)
      PROVE  ModelCallsInv'
  <2>1. req[r].pc = "granted" /\ UNCHANGED <<clock, slots, queue, abandoned>>
    BY <1>4 DEF Fetch, At
  <2>2. LeaseOutlives(r) /\ Holds(r)
    BY <1>0, <2>1 DEF Sound, AtWork, At
  <2>3. CASE clock < req[r].deadline
    <3> DEFINE ends == Earlier(clock + AttemptTimeout, req[r].deadline)
    <3>1. /\ req' = [req EXCEPT ![r] = [req[r] EXCEPT !.pc = "fetching", !.ends = ends]]
      BY <1>4, <2>3 DEF Fetch
    <3>2. ends <= clock + AttemptTimeout /\ clock <= ends /\ ends \in Nat
      BY <1>0, <2>3, Times, Numbers DEF Earlier
    <3> HIDE DEF ends
    <3>3. /\ OnlyMoves(r)
          /\ req'[r].pc = "fetching" /\ req'[r].ends = ends
          /\ req'[r].acquired = req[r].acquired /\ req'[r].slot = req[r].slot
          /\ req'[r].attempt = req[r].attempt
      BY <1>0, <3>1 DEF TypeOK, Calls, OnlyMoves
    <3>4. ends <= req[r].acquired + Lag + AttemptTimeout
      BY <1>0, <2>1, <2>2, <3>2, Times, Numbers DEF LeaseOutlives
    <3>5. LeaseOutlives(r)'
      BY <2>1, <3>2, <3>3, <3>4 DEF LeaseOutlives, At
    <3>6. Holds(r)'
      BY <2>1, <2>2, <3>3 DEF Holds, OwnLease
    <3>7. Sound(r)'
      BY <3>5, <3>6 DEF Sound
    <3> QED
      BY <1>0, <2>1, <3>3, <3>7, PlainStep DEF At, Permitted
  <2>4. CASE ~(clock < req[r].deadline)
    <3>1. "releasing" \in PC
      BY DEF PC, Permitted
    <3>2. OnlyMoves(r) /\ req'[r] = [req[r] EXCEPT !.pc = "releasing"]
          /\ req'[r].pc = "releasing"
      BY <1>0, <1>4, <2>4, <3>1, GotoMoves DEF Fetch
    <3>3. req'[r].slot = req[r].slot /\ req'[r].attempt = req[r].attempt
      BY <1>0, <3>2 DEF Calls
    <3> QED
      BY <1>0, <2>1, <3>2, <3>3, AwaySound, PlainStep DEF At, Permitted
  <2> QED
    BY <2>3, <2>4
<1>5. ASSUME NEW r \in Request, NEW ok \in BOOLEAN, Answer(r, ok)
      PROVE  ModelCallsInv'
  <2>1. /\ OnlyMoves(r) /\ req[r].pc = "fetching" /\ req'[r].pc = "releasing"
        /\ req'[r].slot = req[r].slot /\ req'[r].attempt = req[r].attempt
    BY <1>0, <1>5 DEF Answer, TypeOK, Calls, OnlyMoves, At
  <2> QED
    BY <1>0, <1>5, <2>1, AwaySound, PlainStep DEF Answer, At, Permitted
<1>6. ASSUME NEW r \in Request, ReleaseUncertain(r)
      PROVE  ModelCallsInv'
  <2>1. /\ OnlyMoves(r) /\ req[r].pc = "releasing"
        /\ req'[r].pc \in {"done", "failed", "start"}
    BY <1>0, <1>6, ConcludeMoves DEF ReleaseUncertain, At
  <2>2. abandoned \subseteq abandoned' /\ OwnLease(r) \in abandoned'
    BY <1>6 DEF ReleaseUncertain
  <2> QED
    BY <1>0, <1>6, <2>1, <2>2, AwaySound, PlainStep DEF ReleaseUncertain, At
<1>7. ASSUME UNCHANGED vars
      PROVE  ModelCallsInv'
  <2>1. UNCHANGED <<clock, slots, queue, req, abandoned>>
    BY <1>7 DEF vars
  <2>2. QueuedOnce' /\ \A s \in Slot : Traced(s)'
    BY <2>1, InvParts DEF QueuedOnce, Traced, OwnLease, At
  <2>3. \A r \in Request : Sound(r)'
    BY <1>0, <2>1, OthersSound
  <2> QED
    BY <1>0, <2>2, <2>3, InvParts
<1> QED
  BY <1>0, <1>1, <1>2, <1>3, <1>4, <1>5, <1>6, <1>7, EnqueueStep, DrainStep, ClaimStep,
     UnansweredStep, ReleaseStep, CrashStep, TickStep DEF Next, Step

\* The invariant holds in every behaviour.
THEOREM ModelCallsInvariant == Spec => []ModelCallsInv
BY InvInit, InvStep, PTL DEF Spec

\* The slots of those at work are different ones, so there are no more of them
\* than slots: the limit holds with every number of crashes, for a lease that
\* outlives an attempt.
THEOREM ProviderLimit == Spec => []WithinLimit
<1>1. ASSUME ModelCallsInv
      PROVE  WithinLimit
  <2> DEFINE f == [r \in InFlight |-> req[r].slot]
  <2>0. TypeOK /\ \A r \in Request : Sound(r)
    BY <1>1, InvParts
  <2>1. ASSUME NEW r \in InFlight
        PROVE  /\ r \in Request /\ req[r].slot \in Slot
               /\ slots[req[r].slot].lease = OwnLease(r)
    <3>1. r \in Request
      BY DEF InFlight
    <3>2. Holds(r)
      BY <2>0, <3>1 DEF Sound, AtWork
    <3> QED
      BY <2>0, <3>1, <3>2, Times DEF Holds
  <2>2. \A r, q \in InFlight : f[r] = f[q] => r = q
    BY <2>1 DEF OwnLease
  <2>3. f \in Injection(InFlight, Slot)
    BY <2>1, <2>2 DEF Injection, IsInjective
  <2>4. IsFiniteSet(Slot) /\ Cardinality(Slot) = Limit
    BY Numbers, FS_Interval DEF Slot
  <2>5. Cardinality(InFlight) <= Cardinality(Slot)
    BY <2>3, <2>4, FS_Injection
  <2> QED
    BY <2>4, <2>5 DEF WithinLimit
<1> QED
  BY <1>1, ModelCallsInvariant, PTL

\* A permit is held to its end, and every row is in use or can be explained.
THEOREM PermitHeld == Spec => [](PermitIsHeld /\ SlotsAreUsed)
<1>1. ASSUME ModelCallsInv
      PROVE  PermitIsHeld /\ SlotsAreUsed
  <2>0. TypeOK /\ (\A r \in Request : Sound(r)) /\ \A s \in Slot : Traced(s)
    BY <1>1, InvParts
  <2>1. PermitIsHeld
    <3> SUFFICES ASSUME NEW r \in Request, req[r].pc \in {"granted", "fetching"}
                 PROVE  slots[req[r].slot] # None /\ slots[req[r].slot].lease = OwnLease(r)
      BY DEF PermitIsHeld
    <3>1. Holds(r)
      BY <2>0 DEF Sound, AtWork, InFlight, At
    <3> QED
      BY <2>0, <3>1, RowIsThere DEF Holds
  <2>2. SlotsAreUsed
    BY <2>0 DEF Traced, SlotsAreUsed
  <2> QED
    BY <2>1, <2>2
<1> QED
  BY <1>1, ModelCallsInvariant, PTL
=============================================================================
