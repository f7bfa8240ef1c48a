----------------------------- MODULE ModelCalls -----------------------------
(***************************************************************************)
(* The calls to the model provider: the stage budget with its retries      *)
(* (packages/model, createBudgetedModelPort), one provider attempt         *)
(* (VertexGeminiModel.generateStructured), the first-in first-out queue of *)
(* an instance (FifoModelConcurrencyLimiter) and the slots that all        *)
(* instances share (packages/cloud-firestore,                              *)
(* FirestoreModelConcurrencyLimiter).                                      *)
(*                                                                         *)
(* A step is what runs between two awaits; one transaction is one step.    *)
(* Instances read one clock.  It waits for an attempt whose time is over,  *)
(* and for a call between the reading of the clock for its lease and the   *)
(* sending of its request, which takes at most Lag.                        *)
(***************************************************************************)
EXTENDS Integers, Sequences, FiniteSets

CONSTANTS
  Instance,       \* instances of agent-runtime
  Request,        \* stages of workflows that ask the model, once each
  None,
  Limit,          \* slots
  Lease,          \* leaseMs
  AttemptTimeout, \* attemptTimeoutMs
  StageBudget,    \* stageBudgetMs, or what the workflow has left
  MaxAttempts,    \* maxAttempts
  Lag,            \* from the reading of the clock for a lease to the request
  MaxTime,        \* bound of the clock
  MaxFaults       \* bound: crashes, and claims and releases whose outcome is unknown

ASSUME ModelCallsAssumption ==
  /\ Limit \in Nat \ {0} /\ Lease \in Nat /\ AttemptTimeout \in Nat /\ Lag \in Nat
  /\ StageBudget \in Nat /\ MaxAttempts \in Nat \ {0}
  /\ MaxTime \in Nat /\ MaxFaults \in Nat
  /\ None \notin Request
  \* 90 s against attempts of at most 55 s
  /\ Lag + AttemptTimeout < Lease

Slot == 1..Limit
Time == 0..MaxTime
\* leaseId is a random UUID, one for every attempt that gets a slot.
LeaseId == Request \X (1..MaxAttempts)
SlotRow == [lease : LeaseId, expires : Nat]

ASSUME NoneAssumption == None \notin SlotRow

VARIABLES
  clock,
  slots,     \* modelConcurrencySlots
  queue,     \* the entries of each instance's queue
  head,      \* the entry that each instance's drain is waiting for
  req,       \* the calls
  abandoned, \* history: leases that nobody is sure to have given back
  faults

vars == <<clock, slots, queue, head, req, abandoned, faults>>

Waiting == {"queued", "polling", "claiming"}
Permitted == {"granted", "fetching", "releasing"}
\* orphan: its instance is gone, the provider is still at work on it.
Over == {"done", "failed", "lost", "orphan"}
PC == {"new", "start"} \cup Waiting \cup Permitted \cup Over
Calls == [pc : PC, on : Instance \cup {None}, attempt : 1..MaxAttempts, deadline : Nat,
          acquired : Nat, slot : Slot, ends : Nat, ok : BOOLEAN]
Blank == [pc |-> "new", on |-> None, attempt |-> 1, deadline |-> 0,
          acquired |-> 0, slot |-> 1, ends |-> 0, ok |-> FALSE]

TypeOK ==
  /\ clock \in Time
  /\ slots \in [Slot -> SlotRow \cup {None}]
  /\ queue \in [Instance -> Seq(Request)]
  /\ head \in [Instance -> Request \cup {None}]
  /\ req \in [Request -> Calls]
  /\ abandoned \subseteq LeaseId
  /\ faults \in 0..MaxFaults

Init ==
  /\ clock = 0
  /\ slots = [s \in Slot |-> None]
  /\ queue = [i \in Instance |-> <<>>]
  /\ head = [i \in Instance |-> None]
  /\ req = [r \in Request |-> Blank]
  /\ abandoned = {}
  /\ faults = 0

-----------------------------------------------------------------------------
At(r, p) == req[r].pc = p
Goto(r, p) == req' = [req EXCEPT ![r].pc = p]
Earlier(s, t) == IF s <= t THEN s ELSE t
OwnLease(r) == <<r, req[r].attempt>>

\* The answer of one attempt.  Every error of it may be tried again while the
\* budget and the number of attempts last.
Conclude(r, ok) ==
  req' = [req EXCEPT ![r] =
    IF ok THEN [Blank EXCEPT !.pc = "done"]
    ELSE IF @.attempt = MaxAttempts \/ @.deadline <= clock THEN [Blank EXCEPT !.pc = "failed"]
    ELSE [Blank EXCEPT !.pc = "start", !.on = req[r].on, !.deadline = req[r].deadline,
                       !.attempt = req[r].attempt + 1]]

-----------------------------------------------------------------------------
\* A stage begins, with a deadline of its own.
Submit(r, i) ==
  /\ At(r, "new")
  /\ clock + StageBudget <= MaxTime
  /\ req' = [req EXCEPT ![r].pc = "start", ![r].on = i, ![r].deadline = clock + StageBudget]
  /\ UNCHANGED <<clock, slots, queue, head, abandoned, faults>>

\* acquire: the entry is queued, and drain runs if it does not run yet.
Enqueue(r) ==
  /\ At(r, "start")
  /\ IF clock >= req[r].deadline
       THEN Conclude(r, FALSE) /\ UNCHANGED queue
       ELSE Goto(r, "queued") /\ queue' = [queue EXCEPT ![req[r].on] = Append(@, r)]
  /\ UNCHANGED <<clock, slots, head, abandoned, faults>>

\* Fault: an entry that is too late stays at the head.
DrainKeepsHead(i) ==
  /\ head[i] = None /\ queue[i] # <<>>
  /\ LET r == Head(queue[i]) IN
       /\ queue' = [queue EXCEPT ![i] = Tail(@)]
       /\ head' = [head EXCEPT ![i] = r]
       /\ IF clock >= req[r].deadline THEN Conclude(r, FALSE) ELSE Goto(r, "polling")
  /\ UNCHANGED <<clock, slots, abandoned, faults>>
\* The loop of drain: one entry at a time.
Drain(i) ==
  /\ head[i] = None /\ queue[i] # <<>>
  /\ LET r == Head(queue[i]) IN
       /\ queue' = [queue EXCEPT ![i] = Tail(@)]
       /\ IF clock >= req[r].deadline
            THEN Conclude(r, FALSE) /\ UNCHANGED head
            ELSE Goto(r, "polling") /\ head' = [head EXCEPT ![i] = r]
  /\ UNCHANGED <<clock, slots, abandoned, faults>>

\* acquireLease: the clock is read for the lease, or the deadline has come.
Poll(r) ==
  /\ At(r, "polling")
  /\ IF clock < req[r].deadline
       THEN req' = [req EXCEPT ![r].pc = "claiming", ![r].acquired = clock] /\ UNCHANGED head
       ELSE Conclude(r, FALSE) /\ head' = [head EXCEPT ![req[r].on] = None]
  /\ UNCHANGED <<clock, slots, queue, abandoned, faults>>

\* Fault: a lease is over as soon as the clock has moved.
FreeWhenOlder(s, now) == slots[s] # None => slots[s].expires - Lease < now
\* The transaction takes a slot that is free or whose lease is over; which of
\* them depends on a hash of the request.  If there is none the loop sleeps.
Free(s, now) == slots[s] # None => slots[s].expires <= now
Occupy(r, s) ==
  /\ Free(s, req[r].acquired)
  /\ slots' = [slots EXCEPT ![s] = [lease |-> OwnLease(r), expires |-> req[r].acquired + Lease]]
Take(r, s) ==
  /\ Occupy(r, s)
  /\ req' = [req EXCEPT ![r].pc = "granted", ![r].slot = s]
  /\ head' = [head EXCEPT ![req[r].on] = None]
Sleep(r) ==
  /\ \A s \in Slot : ~Free(s, req[r].acquired)
  /\ Goto(r, "polling")
  /\ UNCHANGED <<slots, head>>
Claim(r) ==
  /\ At(r, "claiming")
  /\ (\E s \in Slot : Take(r, s)) \/ Sleep(r)
  /\ UNCHANGED <<clock, queue, abandoned, faults>>
\* The transaction throws: the attempt is over.
Refuse(r) == Conclude(r, FALSE) /\ head' = [head EXCEPT ![req[r].on] = None]
ClaimFails(r) ==
  /\ At(r, "claiming")
  /\ Refuse(r)
  /\ UNCHANGED <<clock, slots, queue, abandoned, faults>>
\* A commit that took a slot is not acknowledged: nobody will give the slot
\* back.  The store's client runs the transaction again, or it throws.
ClaimUnanswered(r) ==
  /\ At(r, "claiming")
  /\ faults < MaxFaults
  /\ faults' = faults + 1
  /\ abandoned' = abandoned \cup {OwnLease(r)}
  /\ \E s \in Slot : Occupy(r, s)
  /\ Refuse(r) \/ UNCHANGED <<req, head>>
  /\ UNCHANGED <<clock, queue>>

\* Fault: too late, the permit is kept.
FetchOrLeave(r) ==
  /\ At(r, "granted")
  /\ IF clock < req[r].deadline
       THEN req' = [req EXCEPT ![r].pc = "fetching",
                               ![r].ends = Earlier(clock + AttemptTimeout, req[r].deadline)]
       ELSE Conclude(r, FALSE)
  /\ UNCHANGED <<clock, slots, queue, head, abandoned, faults>>
\* The request is sent, with a signal that aborts it; too late, the permit is
\* given back unused.
Fetch(r) ==
  /\ At(r, "granted")
  /\ IF clock < req[r].deadline
       THEN req' = [req EXCEPT ![r].pc = "fetching",
                               ![r].ends = Earlier(clock + AttemptTimeout, req[r].deadline)]
       ELSE Goto(r, "releasing")
  /\ UNCHANGED <<clock, slots, queue, head, abandoned, faults>>

\* An answer, an error, or the signal.
Answer(r, ok) ==
  /\ At(r, "fetching")
  /\ req' = [req EXCEPT ![r].pc = "releasing", ![r].ok = ok]
  /\ UNCHANGED <<clock, slots, queue, head, abandoned, faults>>

\* release deletes the slot's row if it still is this lease's.
Release(r) ==
  /\ At(r, "releasing")
  /\ slots' = [slots EXCEPT ![req[r].slot] =
                 IF @ # None /\ @.lease = OwnLease(r) THEN None ELSE @]
  /\ Conclude(r, req[r].ok)
  /\ UNCHANGED <<clock, queue, head, abandoned, faults>>

\* The transaction of the release throws; the call goes on.
ReleaseUncertain(r) ==
  /\ At(r, "releasing")
  /\ faults < MaxFaults
  /\ faults' = faults + 1
  /\ abandoned' = abandoned \cup {OwnLease(r)}
  /\ Conclude(r, req[r].ok)
  /\ UNCHANGED <<clock, slots, queue, head>>

-----------------------------------------------------------------------------
\* An instance is lost with its queue and its calls; another takes its place.
Crash(i) ==
  /\ faults < MaxFaults
  /\ faults' = faults + 1
  /\ queue' = [queue EXCEPT ![i] = <<>>]
  /\ head' = [head EXCEPT ![i] = None]
  /\ req' = [r \in Request |->
       IF req[r].on # i \/ req[r].pc \in Over THEN req[r]
       ELSE [req[r] EXCEPT !.pc = IF @ = "fetching" THEN "orphan" ELSE "lost"]]
  /\ UNCHANGED <<clock, slots, abandoned>>

Tick ==
  /\ clock < MaxTime
  /\ \A r \in Request :
       /\ req[r].pc \in {"claiming", "granted"} => clock < req[r].acquired + Lag
       /\ At(r, "fetching") => clock < req[r].ends
  /\ clock' = clock + 1
  /\ UNCHANGED <<slots, queue, head, req, abandoned, faults>>

-----------------------------------------------------------------------------
\* What a call does if nothing breaks.
Step(r) ==
  \/ Enqueue(r) \/ Poll(r) \/ Claim(r) \/ Fetch(r) \/ Release(r)
  \/ \E ok \in BOOLEAN : Answer(r, ok)

Next ==
  \/ \E r \in Request :
       \/ \E i \in Instance : Submit(r, i)
       \/ Step(r) \/ ClaimFails(r) \/ ClaimUnanswered(r) \/ ReleaseUncertain(r)
  \/ \E i \in Instance : Drain(i) \/ Crash(i)
  \/ Tick

\* Running code goes on and time passes.
Fairness ==
  /\ \A r \in Request : WF_vars(Step(r))
  /\ \A i \in Instance : WF_vars(Drain(i))
  /\ WF_vars(Tick)
Spec == Init /\ [][Next]_vars /\ Fairness

-----------------------------------------------------------------------------
\* What the provider is working on, whoever still waits for it.
InFlight == {r \in Request : At(r, "fetching") \/ (At(r, "orphan") /\ clock < req[r].ends)}

\* The provider never works on more requests than there are slots, crashes,
\* expired leases, lost claims and lost releases included ("A crashed owner cannot
\* oversubscribe the provider", model-concurrency-limiter.ts:44).
WithinLimit == Cardinality(InFlight) <= Limit

\* Until its lease is over, a call that was given a slot keeps it: no late release
\* and no other claim takes it away (model-concurrency-limiter.ts:104).
PermitIsHeld ==
  \A r \in Request : req[r].pc \in {"granted", "fetching"} /\ clock < req[r].acquired + Lease
    => slots[req[r].slot] # None /\ slots[req[r].slot].lease = OwnLease(r)

\* A slot is taken by a call that uses it or is about to give it back; only a
\* crash, or a claim or release that was not acknowledged, leaves one to its
\* expiry.
SlotsAreUsed ==
  \A s \in Slot : slots[s] # None =>
    LET r == slots[s].lease[1] IN
      \/ req[r].pc \in Permitted /\ slots[s].lease = OwnLease(r)
      \/ req[r].pc \in {"lost", "orphan"}
      \/ slots[s].lease \in abandoned

\* An entry is queued once, on the instance of its call.
QueuedOnce ==
  \A i \in Instance : \A k \in DOMAIN queue[i] :
    /\ At(queue[i][k], "queued") /\ req[queue[i][k]].on = i
    /\ \A l \in DOMAIN queue[i] : queue[i][k] = queue[i][l] => k = l

\* A lease is dated at most Lag before the request, and so outlives it.
LeaseOutlives(r) ==
  /\ req[r].pc \in {"claiming", "granted"} =>
       req[r].acquired <= clock /\ clock <= req[r].acquired + Lag
  /\ At(r, "fetching") => clock <= req[r].ends
  /\ req[r].pc \in {"fetching", "orphan"} =>
       req[r].ends <= req[r].acquired + Lag + AttemptTimeout

\* The slot of r holds its lease, as r wrote it.
Holds(r) ==
  slots[req[r].slot] = [lease |-> OwnLease(r), expires |-> req[r].acquired + Lease]

\* A row can be traced to a call, or nobody will remove it.
Traced(s) ==
  slots[s] # None =>
    LET r == slots[s].lease[1] IN
      \/ req[r].pc \in Permitted /\ slots[s].lease = OwnLease(r) /\ req[r].slot = s
      \/ req[r].pc \in {"lost", "orphan"}
      \/ slots[s].lease \in abandoned

\* The inductive invariant: whoever may be at the provider holds its slot.
ModelCallsInv ==
  /\ TypeOK
  /\ QueuedOnce
  /\ \A r \in Request : LeaseOutlives(r)
  /\ \A r \in Request : At(r, "granted") \/ r \in InFlight => Holds(r)
  /\ \A s \in Slot : Traced(s)

\* Every stage comes to an end, also when all slots are lost to crashes and when
\* the entries before it in the queue wait until their deadlines.
EveryCallEnds == \A r \in Request : (~At(r, "new")) ~> (req[r].pc \in Over)
=============================================================================
