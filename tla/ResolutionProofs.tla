-------------------------- MODULE ResolutionProofs --------------------------
(***************************************************************************)
(* Theorems about ResolutionCase, for any number of instances, requests,   *)
(* remedies, issues, deliveries and restarts.                              *)
(***************************************************************************)
EXTENDS ResolutionCase, TLAPS

----------------------------------------------------------------------------
(* Types and the pure functions.                                           *)

\* A case that is not under verification is not resolved by a legal move.
LEMMA ResolvedFromVerifying ==
  ASSUME NEW s \in CaseState \cup {"NONE"}, s \notin Verifying
  PROVE  ~MayMove(s, "RESOLVED")
BY DEF CaseState, Verifying, MayMove, Allowed

\* States that a move leads to.
LEMMA StatesAreStates ==
  /\ {"OPEN", "ANALYZING", "REMEDY_PROPOSED", "AWAITING_AUTHORITY", "REMEDIATING",
      "VERIFYING_REMEDY", "RESOLVED", "ESCALATED"} \subseteq CaseState
  /\ \A s \in {"OPEN", "ANALYZING", "REMEDY_PROPOSED", "AWAITING_AUTHORITY",
               "REMEDIATING", "ESCALATED", "NONE"} : s \notin Verifying
BY DEF CaseState, Verifying

\* A mandate is none, or has a status and the number of its issue.
LEMMA MandateTypes ==
  /\ NoMandate \in Mandate /\ NoMandate.status = "NONE" /\ NoMandate.issue = 0
  /\ \A m \in Mandate : /\ m.status \in {"NONE", "ACTIVE", "CONSUMED"} /\ m.issue \in Nat
                        /\ m # NoMandate => m.status # "NONE" /\ m.issue # 0
                        /\ m.status # "NONE" => m # NoMandate
  /\ \A s \in {"ACTIVE", "CONSUMED"}, n \in Nat \ {0} :
       LET m == [status |-> s, issue |-> n]
       IN m \in Mandate /\ m # NoMandate /\ m.status = s /\ m.issue = n
BY DEF Mandate, NoMandate

\* Plans, and rows with them.
LEMMA RowTypes ==
  /\ Unplanned \in Plan /\ Unplanned.bound = {} /\ NoRow \in Row
  /\ NoRow.state = "NONE" /\ NoRow.plan = Unplanned
  /\ \A b \in SUBSET Remedy : LET p == [made |-> TRUE, bound |-> b]
                              IN p \in Plan /\ p.bound = b
  /\ \A s \in CaseState \cup {"NONE"}, p \in Plan :
       RowOf(s, p) \in Row /\ RowOf(s, p).state = s /\ RowOf(s, p).plan = p
  /\ \A w \in Row : w.state \in CaseState \cup {"NONE"} /\ w.plan \in Plan
  /\ \A p \in Plan : p.bound \subseteq Remedy
BY DEF Unplanned, Plan, NoRow, Row, RowOf

\* Memories.
LEMMA LocalTypes ==
  /\ NoLocal \in Local /\ NoLocal.case = "NONE"
  /\ NoLocal.plan = Unplanned /\ NoLocal.carried = Unplanned
  /\ \A l \in Local : /\ l.case \in CaseState \cup {"NONE"} /\ l.plan \in Plan
                      /\ l.carried \in Plan /\ PlanOf(l) \in Plan
                      /\ PlanOf(l) \in {l.plan, l.carried} /\ l.attempts \in Nat
BY RowTypes DEF NoLocal, Local, PlanOf

\* The writes that a request starts hold the rows it gives them, and taking
\* over writes changes none of their rows.
LEMMA WriteTypes ==
  ASSUME NEW c \in Call, call[c].at \in Instance, NEW rows \in SUBSET Row,
         NEW ws \in SUBSET Write
  PROVE  /\ Begun(c, rows) \subseteq Write
         /\ \A w \in Begun(c, rows) : w.row \in rows
         /\ Taken(c, ws) \subseteq Write
         /\ \A w \in Taken(c, ws) : \E v \in ws : w.row = v.row
<1>1. Begun(c, rows) \subseteq Write /\ \A w \in Begun(c, rows) : w.row \in rows
  BY DEF Begun, Write
<1>2. \A w \in Taken(c, ws) : w \in Write /\ \E v \in ws : w.row = v.row
  <2> SUFFICES ASSUME NEW v \in ws
               PROVE  LET w == IF v.at = call[c].at /\ v.by = None THEN [v EXCEPT !.by = c]
                               ELSE v
                      IN  w \in Write /\ w.row = v.row
    BY DEF Taken
  <2>1. v \in Write
    OBVIOUS
  <2>2. [v EXCEPT !.by = c] \in Write /\ [v EXCEPT !.by = c].row = v.row
    BY <2>1 DEF Write
  <2> QED
    BY <2>1, <2>2
<1> QED
  BY <1>1, <1>2

\* The idle request has its type.
LEMMA IdleTypes ==
  /\ Idle \in Calls /\ Idle.pc = "idle" /\ Idle.at = None /\ Idle.remedy = None
  /\ Idle.seen = NoRow /\ Idle.copy = NoMandate /\ Idle.then = "idle"
<1>1. NoRow \in Row /\ NoMandate \in Mandate
  BY RowTypes, MandateTypes
<1> QED
  BY <1>1 DEF Idle, Calls, PC, Kind

\* So does a request with a new place, copy or row.
LEMMA CallTypes ==
  ASSUME NEW k \in Calls, NEW pc \in PC, NEW m \in Mandate, NEW w \in Row,
         NEW t \in {"idle", "start"}
  PROVE  /\ [k EXCEPT !.pc = pc] \in Calls
         /\ [k EXCEPT !.pc = pc, !.copy = m] \in Calls
         /\ [k EXCEPT !.pc = pc, !.seen = w] \in Calls
         /\ [k EXCEPT !.pc = pc, !.then = t] \in Calls
         /\ [k EXCEPT !.pc = pc, !.then = t, !.copy = m] \in Calls
BY DEF Calls

----------------------------------------------------------------------------
(* What holds of one request and of the stores after a step.               *)

\* All requests but c are left alone.
OnlyMoves(c) == \A d \in Call \ {c} : call'[d] = call[d]

\* What is stored of mandates, claims, artifacts and payments stays.
Grows ==
  /\ paid \subseteq paid'
  /\ \A r \in Remedy :
       /\ mandates[r] # NoMandate => mandates'[r] # NoMandate
       /\ claims[r] # "NONE" => claims'[r] # "NONE"
       /\ artifacts[r].action # 0 => artifacts'[r].action = artifacts[r].action
       /\ artifacts[r].proof # "NONE" => artifacts'[r].proof = artifacts[r].proof
Remembers(i) ==
  \A r \in Remedy : known[i][r] # NoMandate => known'[i][r] # NoMandate

\* Rows, memories and requests that are sound after the step.
PlanNext(p) == \A r \in p.bound : mandates'[r] # NoMandate
StateNext(s) == paid' = {} => s \notin Verifying
RowNext(w) == StateNext(w.state) /\ PlanNext(w.plan)
LocalNext(l) == StateNext(l.case) /\ PlanNext(l.plan) /\ PlanNext(l.carried)
PaidNext(r, copy) == copy.status = "CONSUMED" => r \in paid'
CallNext(k) ==
  /\ k.pc # "idle" => k.at \in Instance
  /\ NeedsRemedy(k) => k.remedy \in Remedy
  /\ k.then = "start" => k.pc = "flushing"
  /\ k.pc \in HasCopy => k.copy # NoMandate /\ mandates'[k.remedy] # NoMandate
  /\ k.remedy \in Remedy => PaidNext(k.remedy, k.copy)
  /\ k.pc \in PaymentPC => known'[k.at][k.remedy] # NoMandate
  /\ k.pc \in PastClaim => claims'[k.remedy] # "NONE"
  /\ k.pc \in PastAction => artifacts'[k.remedy].action = k.copy.issue
  /\ k.pc \in PastProof => artifacts'[k.remedy].proof = k.copy.status
  /\ k.pc \in Settled => k.remedy \in paid'
  /\ RowNext(k.seen)

\* Being sound after the step is being sound, after the step.
LEMMA CallPrimed ==
  ASSUME NEW c \in Call, CallNext(call'[c])
  PROVE  CallIsSound(call[c])'
BY DEF CallNext, CallIsSound, RowNext, StateNext, PlanNext, PaidNext, SoundRow, Sound,
       Backed, PaidIfConsumed, NeedsRemedy

LEMMA RowsPrimed ==
  ASSUME RowNext(row'), \A w \in writes' : RowNext(w.row),
         \A i \in Instance : LocalNext(local'[i])
  PROVE  RowsAreSound'
BY DEF RowsAreSound, SoundRow, SoundLocal, Sound, Backed, RowNext, LocalNext, StateNext,
       PlanNext

\* What was sound is sound after a step that loses nothing.
LEMMA RowStays ==
  ASSUME Grows, NEW w \in Row, SoundRow(w)
  PROVE  RowNext(w)
<1>1. w.plan.bound \subseteq Remedy
  BY RowTypes
<1> QED
  BY <1>1 DEF Grows, RowNext, StateNext, PlanNext, SoundRow, Sound, Backed

LEMMA LocalStays ==
  ASSUME Grows, NEW l \in Local, SoundLocal(l)
  PROVE  LocalNext(l)
<1>1. l.plan.bound \subseteq Remedy /\ l.carried.bound \subseteq Remedy
  BY RowTypes, LocalTypes
<1> QED
  BY <1>1 DEF Grows, LocalNext, StateNext, PlanNext, SoundLocal, Sound, Backed

\* A request that works with a mandate, and where it is.
LEMMA PlacesNeed ==
  ASSUME NEW k
  PROVE  /\ k.pc \in HasCopy \cup PaymentPC \cup PastClaim \cup PastAction \cup PastProof
                       \cup Settled => NeedsRemedy(k) /\ k.pc # "idle"
         /\ k.pc \in PastAction \cup PastProof => k.pc \in HasCopy
BY DEF NeedsRemedy, HasCopy, PaymentPC, PortPC, PastClaim, PastAction, PastProof, Settled

LEMMA CallStays ==
  ASSUME Grows, NEW k \in Calls, CallIsSound(k),
         k.pc \in PaymentPC => Remembers(k.at)
  PROVE  CallNext(k)
<1>1. k.copy \in Mandate /\ k.seen \in Row
  BY DEF Calls
<1>2. RowNext(k.seen)
  BY <1>1, RowStays DEF CallIsSound
<1>3. k.copy # NoMandate => k.copy.issue # 0 /\ k.copy.status # "NONE"
  BY <1>1, MandateTypes
<1>4. k.pc \in PastAction => artifacts'[k.remedy].action = k.copy.issue
  <2> SUFFICES ASSUME k.pc \in PastAction
               PROVE  artifacts'[k.remedy].action = k.copy.issue
    OBVIOUS
  <2>1. k.remedy \in Remedy /\ k.copy # NoMandate
        /\ artifacts[k.remedy].action = k.copy.issue
    BY PlacesNeed DEF CallIsSound
  <2> QED
    BY <1>3, <2>1 DEF Grows
<1>5. k.pc \in PastProof => artifacts'[k.remedy].proof = k.copy.status
  <2> SUFFICES ASSUME k.pc \in PastProof
               PROVE  artifacts'[k.remedy].proof = k.copy.status
    OBVIOUS
  <2>1. k.remedy \in Remedy /\ k.copy # NoMandate
        /\ artifacts[k.remedy].proof = k.copy.status
    BY PlacesNeed DEF CallIsSound
  <2> QED
    BY <1>3, <2>1 DEF Grows
<1>6. /\ k.pc \in HasCopy => k.copy # NoMandate /\ mandates'[k.remedy] # NoMandate
      /\ k.pc \in PaymentPC => known'[k.at][k.remedy] # NoMandate
      /\ k.pc \in PastClaim => claims'[k.remedy] # "NONE"
      /\ k.pc \in Settled => k.remedy \in paid'
      /\ k.remedy \in Remedy => PaidNext(k.remedy, k.copy)
  <2>1. k.pc \in HasCopy \cup PaymentPC \cup PastClaim \cup Settled => k.remedy \in Remedy
    BY PlacesNeed DEF CallIsSound
  <2> QED
    BY <2>1 DEF CallIsSound, Grows, Remembers, PaidNext, PaidIfConsumed
<1> QED
  BY <1>2, <1>4, <1>5, <1>6 DEF CallNext, CallIsSound

\* An idle request is sound.
LEMMA IdleNext == CallNext(Idle)
<1>1. ~NeedsRemedy(Idle)
  BY IdleTypes DEF NeedsRemedy, PaymentPC, PortPC
<1>2. Idle.pc \notin HasCopy \cup PaymentPC \cup PastClaim \cup PastAction \cup PastProof
                       \cup Settled
  BY <1>1, PlacesNeed
<1>3. RowNext(NoRow)
  BY RowTypes, StatesAreStates DEF RowNext, StateNext, PlanNext
<1>4. Idle.remedy \notin Remedy
  BY IdleTypes, ResolutionAssumption
<1> QED
  BY <1>1, <1>2, <1>3, <1>4, IdleTypes DEF CallNext

\* What the invariant says of the rows after a step that loses nothing.
LEMMA OldRows ==
  ASSUME ResolutionInv, Grows
  PROVE  /\ RowNext(row)
         /\ \A w \in writes : RowNext(w.row)
         /\ \A i \in Instance : LocalNext(local[i])
<1>1. row \in Row /\ (\A w \in writes : w.row \in Row) /\ \A i \in Instance : local[i] \in Local
  BY DEF ResolutionInv, TypeOK, Write
<1> QED
  BY <1>1, RowStays, LocalStays DEF ResolutionInv, RowsAreSound

\* The request that moved, and the rest of the state.
LEMMA StepParts ==
  ASSUME ResolutionInv, TypeOK', NEW c \in Call, OnlyMoves(c), CallNext(call'[c]), Grows,
         \A i \in Instance : Remembers(i),
         PaymentsAreClaimed', CopiesAreStored', RowsAreSound', ArtifactsAgree'
  PROVE  ResolutionInv'
<1>1. \A d \in Call \ {c} : CallIsSound(call[d])'
  <2> SUFFICES ASSUME NEW d \in Call \ {c} PROVE CallIsSound(call[d])'
    OBVIOUS
  <2>1. call[d] \in Calls /\ CallIsSound(call[d])
    BY DEF ResolutionInv, TypeOK
  <2>2. call[d].pc \in PaymentPC => Remembers(call[d].at)
    BY <2>1, PlacesNeed DEF CallIsSound
  <2>3. CallNext(call'[d])
    BY <2>1, <2>2, CallStays DEF OnlyMoves
  <2> QED
    BY <2>3, CallPrimed
<1>2. CallIsSound(call[c])'
  BY CallPrimed
<1> QED
  BY <1>1, <1>2 DEF ResolutionInv

\* A step that leaves the stores, the copies and the gateway alone.
LEMMA StoresStay ==
  ASSUME ResolutionInv, UNCHANGED <<mandates, claims, artifacts, known, held, asked, paid>>
  PROVE  /\ Grows /\ \A i \in Instance : Remembers(i)
         /\ PaymentsAreClaimed' /\ CopiesAreStored' /\ ArtifactsAgree'
BY DEF ResolutionInv, Grows, Remembers, PaymentsAreClaimed, PaidIfConsumed, CopiesAreStored,
       ArtifactsAgree

\* A step of c that changes nothing but rows, the writes and one memory.
LEMMA LocalStep ==
  ASSUME ResolutionInv, TypeOK', NEW c \in Call, OnlyMoves(c), CallNext(call'[c]),
         UNCHANGED <<row, mandates, claims, artifacts, known, held, asked, paid>>,
         NEW i \in Instance,
         \A j \in Instance \ {i} : local'[j] = local[j],
         LocalNext(local'[i]),
         \A w \in writes' : RowNext(w.row)
  PROVE  ResolutionInv'
<1>1. /\ Grows /\ \A j \in Instance : Remembers(j)
      /\ PaymentsAreClaimed' /\ CopiesAreStored' /\ ArtifactsAgree'
  BY StoresStay
<1>2. RowsAreSound'
  BY <1>1, OldRows, RowsPrimed
<1> QED
  BY <1>1, <1>2, StepParts

\* A step of c that changes nothing but the request, and perhaps the writes.
LEMMA PlainStep ==
  ASSUME ResolutionInv, TypeOK', NEW c \in Call, OnlyMoves(c), CallNext(call'[c]),
         UNCHANGED <<row, mandates, claims, artifacts, local, known, held, asked, paid>>,
         \A w \in writes' : RowNext(w.row)
  PROVE  ResolutionInv'
<1>1. /\ Grows /\ \A j \in Instance : Remembers(j)
      /\ PaymentsAreClaimed' /\ CopiesAreStored' /\ ArtifactsAgree'
  BY StoresStay
<1>2. RowsAreSound'
  BY <1>1, OldRows, RowsPrimed
<1> QED
  BY <1>1, <1>2, StepParts

\* A step of c that leaves the rows alone.
LEMMA StoreStep ==
  ASSUME ResolutionInv, TypeOK', NEW c \in Call, OnlyMoves(c), CallNext(call'[c]), Grows,
         \A i \in Instance : Remembers(i),
         UNCHANGED <<row, local, writes>>,
         PaymentsAreClaimed', CopiesAreStored', ArtifactsAgree'
  PROVE  ResolutionInv'
<1>1. RowsAreSound'
  BY OldRows, RowsPrimed
<1> QED
  BY <1>1, StepParts

----------------------------------------------------------------------------
(* Requests that move, writes that begin, memories that change.            *)

\* What is known of a request under way.
LEMMA CallFacts ==
  ASSUME ResolutionInv, NEW c \in Call, call[c].pc # "idle"
  PROVE  /\ TypeOK /\ CallIsSound(call[c]) /\ call[c] \in Calls
         /\ call[c].at \in Instance /\ Here(c) \in Local /\ SoundLocal(Here(c))
         /\ call[c].copy \in Mandate /\ call[c].seen \in Row
         /\ NeedsRemedy(call[c]) => call[c].remedy \in Remedy
BY DEF ResolutionInv, CallIsSound, TypeOK, Here, RowsAreSound, Calls

\* One request changes.
LEMMA CallUpdate ==
  ASSUME TypeOK, NEW c \in Call, NEW n \in Calls, call' = [call EXCEPT ![c] = n]
  PROVE  call' \in [Call -> Calls] /\ OnlyMoves(c) /\ call'[c] = n
BY DEF TypeOK, OnlyMoves

\* One instance's memory changes.
LEMMA MemoryUpdate ==
  ASSUME TypeOK, NEW i \in Instance, NEW l \in Local, local' = [local EXCEPT ![i] = l]
  PROVE  /\ local' \in [Instance -> Local] /\ local'[i] = l
         /\ \A j \in Instance \ {i} : local'[j] = local[j]
BY DEF TypeOK

\* One instance's copy of one mandate changes.
LEMMA CopyUpdate ==
  ASSUME TypeOK, NEW i \in Instance, NEW r \in Remedy, NEW m \in Mandate,
         known' = [known EXCEPT ![i][r] = m]
  PROVE  /\ known' \in [Instance -> [Remedy -> Mandate]]
         /\ known'[i][r] = m
         /\ \A j \in Instance, q \in Remedy : known'[j][q] = known[j][q] \/ (j = i /\ q = r)
BY DEF TypeOK

\* A request that ends.
LEMMA EndMoves ==
  ASSUME TypeOK, NEW c \in Call, End(c)
  PROVE  call' \in [Call -> Calls] /\ OnlyMoves(c) /\ CallNext(call'[c])
BY IdleTypes, IdleNext, CallUpdate DEF End

\* The places where a request needs nothing but an instance.
Easy == {"existing", "insert", "raced", "take", "put", "opened", "planning", "plan",
         "verify", "flush", "flushing"}

LEMMA EasyNext ==
  ASSUME NEW k, k.pc \in Easy, k.at \in Instance, k.then = "idle", RowNext(k.seen),
         k.remedy \in Remedy => PaidNext(k.remedy, k.copy)
  PROVE  CallNext(k)
<1>1. ~NeedsRemedy(k)
  BY DEF NeedsRemedy, Easy, PaymentPC, PortPC
<1>2. k.pc \notin HasCopy \cup PaymentPC \cup PastClaim \cup PastAction \cup PastProof
                       \cup Settled
  BY <1>1, PlacesNeed
<1> QED
  BY <1>1, <1>2 DEF CallNext

\* What a request has, after a step that loses nothing.
LEMMA Kept ==
  ASSUME ResolutionInv, Grows, NEW c \in Call, call[c].pc # "idle"
  PROVE  /\ RowNext(call[c].seen)
         /\ call[c].remedy \in Remedy => PaidNext(call[c].remedy, call[c].copy)
         /\ call[c].pc # "flushing" => call[c].then = "idle"
<1>1. CallIsSound(call[c]) /\ call[c] \in Calls /\ call[c].seen \in Row
  BY CallFacts
<1> QED
  BY <1>1, RowStays DEF CallIsSound, Grows, PaidNext, PaidIfConsumed, Calls

\* A request that goes on to such a place.
LEMMA GotoEasy ==
  ASSUME ResolutionInv, Grows, NEW c \in Call, call[c].pc \notin {"idle", "flushing"},
         NEW pc \in Easy, Goto(c, pc)
  PROVE  call' \in [Call -> Calls] /\ OnlyMoves(c) /\ CallNext(call'[c])
<1> DEFINE n == [call[c] EXCEPT !.pc = pc]
<1>1. TypeOK /\ call[c] \in Calls /\ call[c].at \in Instance
  BY CallFacts
<1>2. pc \in PC
  BY DEF Easy, PC, Kind, OpenPC
<1>3. n \in Calls /\ n.pc = pc /\ n.at = call[c].at /\ n.remedy = call[c].remedy
      /\ n.copy = call[c].copy /\ n.seen = call[c].seen /\ n.then = call[c].then
  BY <1>1, <1>2 DEF Calls
<1>4. call' = [call EXCEPT ![c] = n]
  BY DEF Goto
<1> HIDE DEF n
<1>5. CallNext(n)
  BY <1>1, <1>3, Kept, EasyNext
<1> QED
  BY <1>1, <1>3, <1>4, <1>5, CallUpdate

\* Writes that are started or taken over.
LEMMA WritesGrow ==
  ASSUME ResolutionInv, Grows, NEW c \in Call, call[c].at \in Instance,
         NEW rows \in SUBSET Row, \A x \in rows : RowNext(x),
         \/ UNCHANGED writes
         \/ Persist(c, rows)
         \/ PersistAndFlush(c, rows)
         \/ writes' = Taken(c, writes)
  PROVE  writes' \subseteq Write /\ \A w \in writes' : RowNext(w.row)
<1> DEFINE ws == writes \cup Begun(c, rows)
<1>1. writes \subseteq Write /\ \A w \in writes : RowNext(w.row)
  BY OldRows DEF ResolutionInv, TypeOK
<1>2. Begun(c, rows) \subseteq Write /\ \A w \in Begun(c, rows) : w.row \in rows
  BY <1>1, WriteTypes
<1>3. ws \in SUBSET Write /\ \A w \in ws : RowNext(w.row)
  BY <1>1, <1>2
<1> HIDE DEF ws
<1>4. Taken(c, ws) \subseteq Write /\ \A w \in Taken(c, ws) : \E v \in ws : w.row = v.row
  BY <1>3, WriteTypes
<1>5. Taken(c, writes) \subseteq Write
      /\ \A w \in Taken(c, writes) : \E v \in writes : w.row = v.row
  BY <1>1, WriteTypes
<1>6. writes' \in {writes, ws, Taken(c, ws), Taken(c, writes)}
  BY DEF ws, Persist, PersistAndFlush
<1> QED
  BY <1>1, <1>3, <1>4, <1>5, <1>6

----------------------------------------------------------------------------
(* Opening the case.                                                       *)

\* Steps that only move the request to an easy place, or end it.
LEMMA MoveStep ==
  ASSUME ResolutionInv, NEW c \in Call,
         \/ InsertTrigger(c) \/ ListRemedies(c) \/ RefuseExecution(c)
         \/ Flushed(c) /\ call[c].then = "idle"
  PROVE  ResolutionInv'
<1>1. call[c].pc # "idle" /\ TypeOK
  BY DEF InsertTrigger, ListRemedies, Flushed, RefuseExecution, ResolutionInv
<1>2. /\ UNCHANGED <<row, mandates, claims, artifacts, issued, local, known, held, writes,
                     asked, paid, requests, restarts>>
      /\ trigger' \in BOOLEAN
  BY <1>1 DEF InsertTrigger, ListRemedies, Flushed, RefuseExecution, durable, memory,
     gateway, bounds, TypeOK
<1>3. Grows
  BY <1>2, StoresStay
<1>4. \/ End(c)
      \/ /\ call[c].pc # "flushing"
         /\ \E pc \in {"raced", "put", "planning", "flush"} : Goto(c, pc)
  BY DEF InsertTrigger, ListRemedies, Flushed, RefuseExecution
<1>5. call' \in [Call -> Calls] /\ OnlyMoves(c) /\ CallNext(call'[c])
  BY <1>1, <1>3, <1>4, EndMoves, GotoEasy DEF Easy
<1>6. TypeOK'
  BY <1>1, <1>2, <1>5 DEF TypeOK
<1>7. \A w \in writes' : RowNext(w.row)
  BY <1>2, <1>3, OldRows
<1> QED
  BY <1>2, <1>5, <1>6, <1>7, PlainStep

\* The recorded case is looked for: it is here, was read, or is not there.
LEMMA LookStep ==
  ASSUME ResolutionInv, NEW c \in Call, OpenExisting(c) \/ OpenRaced(c)
  PROVE  ResolutionInv'
<1> DEFINE i == call[c].at
           n == [call[c] EXCEPT !.pc = "take", !.seen = row]
           l == [local[i] EXCEPT !.knows = @ \/ Here(c).case \notin Terminal]
<1>1. call[c].pc \notin {"idle", "flushing"} /\ TypeOK /\ call[c] \in Calls /\ i \in Instance
      /\ local[i] \in Local /\ row \in Row
  BY CallFacts DEF OpenExisting, OpenRaced, Here, TypeOK
<1>2. UNCHANGED <<trigger, row, mandates, claims, artifacts, issued, known, held, writes,
                  asked, paid, requests, restarts>>
  BY DEF OpenExisting, OpenRaced, durable, memory, gateway, bounds
<1>3. Grows
  BY <1>2, StoresStay
<1>4. call' \in [Call -> Calls] /\ OnlyMoves(c) /\ CallNext(call'[c])
  <2>1. \/ End(c) \/ Goto(c, "insert") \/ Goto(c, "put")
        \/ call' = [call EXCEPT ![c] = n]
    BY DEF OpenExisting, OpenRaced
  <2>2. /\ n \in Calls /\ n.pc = "take" /\ n.at = i /\ n.remedy = call[c].remedy
        /\ n.copy = call[c].copy /\ n.seen = row /\ n.then = call[c].then
    BY <1>1 DEF Calls, PC, OpenPC
  <2>3. RowNext(row)
    BY <1>3, OldRows
  <2> HIDE DEF n
  <2>4. CallNext(n)
    BY <1>1, <1>3, <2>2, <2>3, Kept, EasyNext DEF Easy
  <2> QED
    BY <1>1, <1>3, <2>1, <2>2, <2>4, EndMoves, GotoEasy, CallUpdate DEF Easy
<1>5. local' = local \/ local' = [local EXCEPT ![i] = l]
  BY DEF OpenExisting, OpenRaced, memory
<1>6. l \in Local /\ l.case = local[i].case /\ l.plan = local[i].plan
      /\ l.carried = local[i].carried
  BY <1>1 DEF Local
<1> HIDE DEF l
<1>7. local' \in [Instance -> Local] /\ local'[i] \in {local[i], l}
      /\ \A j \in Instance \ {i} : local'[j] = local[j]
  BY <1>1, <1>5, <1>6, MemoryUpdate DEF TypeOK
<1>8. LocalNext(local[i]) /\ \A w \in writes' : RowNext(w.row)
  BY <1>1, <1>2, <1>3, OldRows
<1>9. LocalNext(local'[i])
  BY <1>6, <1>7, <1>8 DEF LocalNext
<1>10. TypeOK'
  BY <1>1, <1>2, <1>4, <1>7 DEF TypeOK
<1> QED
  BY <1>1, <1>2, <1>4, <1>7, <1>8, <1>9, <1>10, LocalStep

\* A memory l takes the place of the one the request found, which ends.
LEMMA TakenIn ==
  ASSUME ResolutionInv, NEW c \in Call, call[c].pc # "idle", NEW l \in Local,
         LocalNext(l), local' = [local EXCEPT ![call[c].at] = l], End(c),
         UNCHANGED <<durable, known, held, writes, gateway, bounds>>
  PROVE  ResolutionInv'
<1>1. TypeOK /\ call[c].at \in Instance
  BY CallFacts
<1>2. UNCHANGED <<trigger, row, mandates, claims, artifacts, issued, known, held, writes,
                  asked, paid, requests, restarts>>
  BY DEF durable, gateway, bounds
<1>3. call' \in [Call -> Calls] /\ OnlyMoves(c) /\ CallNext(call'[c])
  BY <1>1, EndMoves
<1>4. /\ local' \in [Instance -> Local] /\ local'[call[c].at] = l
      /\ \A j \in Instance \ {call[c].at} : local'[j] = local[j]
  BY <1>1, MemoryUpdate
<1>5. \A w \in writes' : RowNext(w.row)
  BY <1>2, StoresStay, OldRows
<1>6. TypeOK'
  BY <1>1, <1>2, <1>3, <1>4 DEF TypeOK
<1> QED
  BY <1>1, <1>2, <1>3, <1>4, <1>5, <1>6, LocalStep

\* The row that was read becomes the case.
LEMMA TakeStep ==
  ASSUME ResolutionInv, NEW c \in Call, TakeCase(c)
  PROVE  ResolutionInv'
<1> DEFINE i == call[c].at
           w == call[c].seen
           l == [local[i] EXCEPT !.case = w.state, !.carried = w.plan, !.knows = TRUE]
<1>1. call[c].pc # "idle" /\ i \in Instance /\ local[i] \in Local /\ w \in Row
  BY CallFacts DEF TakeCase, Here
<1>2. Grows
  BY StoresStay DEF TakeCase, durable, gateway
<1>3. RowNext(w) /\ LocalNext(local[i])
  BY <1>1, <1>2, Kept, OldRows
<1>4. w.state \in CaseState \cup {"NONE"} /\ w.plan \in Plan
  BY <1>1, RowTypes
<1>5. /\ l \in Local /\ l.case = w.state /\ l.plan = local[i].plan /\ l.carried = w.plan
  BY <1>1, <1>4 DEF Local
<1>6. LocalNext(l)
  BY <1>3, <1>5 DEF LocalNext, RowNext
<1>7. local' = [local EXCEPT ![i] = l] /\ End(c)
  BY DEF TakeCase, Here
<1> QED
  BY <1>1, <1>5, <1>6, <1>7, TakenIn DEF TakeCase

\* The opened case is taken into memory.
LEMMA OpenedStep ==
  ASSUME ResolutionInv, NEW c \in Call, Opened(c)
  PROVE  ResolutionInv'
<1> DEFINE i == call[c].at
           l == [case |-> "OPEN", plan |-> local[i].plan, carried |-> Unplanned,
                 counted |-> TRUE, attempts |-> 0, knows |-> TRUE]
<1>1. call[c].pc # "idle" /\ i \in Instance /\ local[i] \in Local
  BY CallFacts DEF Opened, Here
<1>2. Grows
  BY StoresStay DEF Opened, durable, gateway
<1>3. LocalNext(local[i])
  BY <1>1, <1>2, OldRows
<1>4. /\ l \in Local /\ l.case = "OPEN" /\ l.plan = local[i].plan /\ l.carried = Unplanned
  BY <1>1, RowTypes, LocalTypes, StatesAreStates DEF Local
<1>5. LocalNext(l)
  BY <1>3, <1>4, RowTypes, StatesAreStates DEF LocalNext, PlanNext, StateNext
<1>6. local' = [local EXCEPT ![i] = l] /\ End(c)
  BY DEF Opened, Here
<1> QED
  BY <1>1, <1>4, <1>5, <1>6, TakenIn DEF Opened

\* The opened case is stored.
LEMMA PutCaseStep ==
  ASSUME ResolutionInv, NEW c \in Call, PutCase(c)
  PROVE  ResolutionInv'
<1>1. call[c].pc \notin {"idle", "flushing"} /\ TypeOK
  BY DEF PutCase, ResolutionInv
<1>2. UNCHANGED <<trigger, mandates, claims, artifacts, issued, local, known, held, writes,
                  asked, paid, requests, restarts>>
  BY DEF PutCase, memory, gateway, bounds
<1>3. /\ Grows /\ \A j \in Instance : Remembers(j)
      /\ PaymentsAreClaimed' /\ CopiesAreStored' /\ ArtifactsAgree'
  BY <1>2, StoresStay
<1>4. call' \in [Call -> Calls] /\ OnlyMoves(c) /\ CallNext(call'[c])
  BY <1>1, <1>3, GotoEasy DEF Easy, PutCase
<1>5. row' \in Row /\ RowNext(row')
  <2>1. row' = RowOf("OPEN", Unplanned)
    BY DEF PutCase
  <2>2. row' \in Row /\ row'.state = "OPEN" /\ row'.plan = Unplanned
    BY <2>1, RowTypes, StatesAreStates
  <2> QED
    BY <2>2, RowTypes, StatesAreStates DEF RowNext, StateNext, PlanNext
<1>6. TypeOK'
  BY <1>1, <1>2, <1>4, <1>5 DEF TypeOK
<1>7. RowsAreSound'
  BY <1>2, <1>3, <1>5, OldRows, RowsPrimed
<1> QED
  BY <1>3, <1>4, <1>6, <1>7, StepParts

----------------------------------------------------------------------------
(* Planning, mandates and their binding.                                   *)

\* A memory that takes in a sound row.
LEMMA HydratedSound ==
  ASSUME NEW l \in Local, NEW w \in Row, RowNext(w), LocalNext(l)
  PROVE  Hydrated(l, w) \in Local /\ LocalNext(Hydrated(l, w))
<1> DEFINE p == IF w.plan.made THEN w.plan ELSE l.plan
           h == [l EXCEPT !.case = w.state, !.carried = Unplanned, !.counted = TRUE,
                          !.plan = p]
<1>1. p \in Plan /\ PlanNext(p) /\ w.state \in CaseState \cup {"NONE"}
  BY RowTypes, LocalTypes DEF RowNext, LocalNext
<1>2. Unplanned \in Plan /\ PlanNext(Unplanned)
  BY RowTypes DEF PlanNext
<1>3. Hydrated(l, w) = h
  BY DEF Hydrated
<1> HIDE DEF p
<1>4. h \in Local /\ h.case = w.state /\ h.carried = Unplanned /\ h.plan = p
  BY <1>1, <1>2 DEF Local
<1> QED
  BY <1>1, <1>2, <1>3, <1>4 DEF RowNext, LocalNext

\* The case is read from the store.
LEMMA HydrateStep ==
  ASSUME ResolutionInv, NEW c \in Call, HydrateCase(c)
  PROVE  ResolutionInv'
<1> DEFINE i == call[c].at
           l == Hydrated(local[i], call[c].seen)
           n == [Idle EXCEPT !.pc = call[c].kind, !.at = i, !.remedy = call[c].remedy]
<1>1. call[c].pc = "hydrate" /\ call[c].pc # "idle" /\ TypeOK /\ call[c] \in Calls
      /\ i \in Instance /\ local[i] \in Local /\ call[c].seen \in Row
      /\ (NeedsRemedy(call[c]) => call[c].remedy \in Remedy)
  BY CallFacts DEF HydrateCase, Here
<1>2. UNCHANGED <<trigger, row, mandates, claims, artifacts, issued, known, held, writes,
                  asked, paid, requests, restarts>>
  BY DEF HydrateCase, durable, gateway, bounds
<1>3. Grows
  BY <1>2, StoresStay
<1>4. /\ local' = [local EXCEPT ![i] = l]
      /\ call' = [call EXCEPT ![c] = n]
  BY DEF HydrateCase, Here
<1>5. l \in Local /\ LocalNext(l)
  BY <1>1, <1>3, Kept, OldRows, HydratedSound
<1>6. /\ n \in Calls /\ n.pc = call[c].kind /\ n.at = i /\ n.remedy = call[c].remedy
      /\ n.seen = NoRow /\ n.then = "idle" /\ n.copy = NoMandate /\ n.pc \in Kind
  BY <1>1, IdleTypes DEF Calls, Idle, PC
<1> HIDE DEF n, l
<1>7. CallNext(n)
  <2>1. NeedsRemedy(n) => n.remedy \in Remedy
    BY <1>1, <1>6 DEF NeedsRemedy, PaymentPC, PortPC, Kind
  <2>2. n.pc \notin {"idle"} \cup HasCopy \cup PaymentPC \cup PastClaim \cup PastAction
                        \cup PastProof \cup Settled
    BY <1>6 DEF Kind, HasCopy, PaymentPC, PortPC, PastClaim, PastAction, PastProof, Settled
  <2>3. RowNext(NoRow) /\ PaidNext(n.remedy, NoMandate)
    BY RowTypes, MandateTypes, StatesAreStates DEF RowNext, StateNext, PlanNext, PaidNext
  <2> QED
    BY <1>1, <1>6, <2>1, <2>2, <2>3 DEF CallNext
<1>8. call' \in [Call -> Calls] /\ OnlyMoves(c) /\ call'[c] = n
  BY <1>1, <1>4, <1>6, CallUpdate
<1>9. /\ local' \in [Instance -> Local] /\ local'[i] = l
      /\ \A j \in Instance \ {i} : local'[j] = local[j]
  BY <1>1, <1>4, <1>5, MemoryUpdate
<1>10. \A w \in writes' : RowNext(w.row)
  BY <1>2, <1>3, OldRows
<1>11. TypeOK'
  BY <1>1, <1>2, <1>8, <1>9 DEF TypeOK
<1> QED
  BY <1>1, <1>2, <1>5, <1>7, <1>8, <1>9, <1>10, <1>11, LocalStep

\* Remedies are planned and the case moves to REMEDY_PROPOSED, if it may.
LEMMA PlanRemediesStep ==
  ASSUME ResolutionInv, NEW c \in Call, PlanRemedies(c)
  PROVE  ResolutionInv'
<1> DEFINE i == call[c].at
           s == local[i].case
           legal == s = "OPEN" \/ MayMove(s, "REMEDY_PROPOSED")
           path == IF s = "OPEN" THEN {"ANALYZING", "REMEDY_PROPOSED"} ELSE {"REMEDY_PROPOSED"}
           t == IF legal THEN "REMEDY_PROPOSED" ELSE s
           fresh == [made |-> TRUE, bound |-> {}]
           l == [local[i] EXCEPT !.plan = fresh, !.case = t]
           rows == {RowOf(u, fresh) : u \in path}
<1>1. call[c].pc \notin {"idle", "flushing"} /\ call[c].pc # "idle" /\ TypeOK
      /\ i \in Instance /\ local[i] \in Local
  BY CallFacts DEF PlanRemedies, Here
<1>2. UNCHANGED <<trigger, row, mandates, claims, artifacts, issued, known, held,
                  asked, paid, requests, restarts>>
  BY DEF PlanRemedies, durable, gateway, bounds
<1>3. Grows
  BY <1>2, StoresStay
<1>4. /\ local' = [local EXCEPT ![i] = l]
      /\ \/ PersistAndFlush(c, rows) /\ Goto(c, "flushing")
         \/ End(c) /\ UNCHANGED writes
  BY DEF PlanRemedies, Here
<1>5. fresh \in Plan /\ fresh.bound = {} /\ PlanNext(fresh)
  BY RowTypes DEF PlanNext
<1>6. LocalNext(local[i])
  BY <1>1, <1>3, OldRows
<1>7. t \in CaseState \cup {"NONE"} /\ StateNext(t)
  BY <1>1, <1>6, LocalTypes, StatesAreStates DEF LocalNext, StateNext
<1>8. rows \in SUBSET Row /\ \A x \in rows : RowNext(x)
  <2> HIDE DEF fresh
  <2> SUFFICES ASSUME NEW u \in {"ANALYZING", "REMEDY_PROPOSED"}
               PROVE  RowOf(u, fresh) \in Row /\ RowNext(RowOf(u, fresh))
    OBVIOUS
  <2>1. u \in CaseState /\ StateNext(u)
    BY StatesAreStates DEF StateNext
  <2> QED
    BY <1>5, <2>1, RowTypes DEF RowNext
<1> HIDE DEF t, fresh
<1>9. l \in Local /\ l.case = t /\ l.plan = fresh /\ l.carried = local[i].carried
  BY <1>1, <1>5, <1>7 DEF Local
<1>10. LocalNext(l)
  BY <1>5, <1>6, <1>7, <1>9 DEF LocalNext
<1> HIDE DEF l, rows
<1>11. call' \in [Call -> Calls] /\ OnlyMoves(c) /\ CallNext(call'[c])
  BY <1>1, <1>3, <1>4, EndMoves, GotoEasy DEF Easy
<1>12. /\ local' \in [Instance -> Local] /\ local'[i] = l
       /\ \A j \in Instance \ {i} : local'[j] = local[j]
  BY <1>1, <1>4, <1>9, MemoryUpdate
<1>13. writes' \subseteq Write /\ \A w \in writes' : RowNext(w.row)
  BY <1>1, <1>3, <1>4, <1>8, WritesGrow
<1>14. TypeOK'
  BY <1>1, <1>2, <1>11, <1>12, <1>13 DEF TypeOK
<1> QED
  BY <1>1, <1>2, <1>10, <1>11, <1>12, <1>13, <1>14, LocalStep

\* A request with a copy and a remedy goes on to a place past none of the
\* stores.
LEMMA HoldsCopy ==
  ASSUME NEW k, k.pc \in {"issued", "fetched", "flushing", "start"}, k.at \in Instance,
         k.then = "start" => k.pc = "flushing", RowNext(k.seen), k.remedy \in Remedy,
         k.copy # NoMandate, mandates'[k.remedy] # NoMandate, PaidNext(k.remedy, k.copy)
  PROVE  CallNext(k)
<1>1. k.pc \notin PaymentPC \cup PastClaim \cup PastAction \cup PastProof \cup Settled
  BY DEF PaymentPC, PortPC, PastClaim, PastAction, PastProof, Settled
<1> QED
  BY <1>1 DEF CallNext

\* A mandate is stored over what was there.
LEMMA IssueStep ==
  ASSUME ResolutionInv, NEW c \in Call, IssueMandate(c)
  PROVE  ResolutionInv'
<1> DEFINE r == call[c].remedy
           m == [status |-> "ACTIVE", issue |-> issued[r] + 1]
           n == [call[c] EXCEPT !.pc = "issued", !.copy = m]
<1>1. call[c].pc = "issue" /\ call[c].pc \notin {"idle", "flushing"} /\ TypeOK
      /\ call[c] \in Calls /\ call[c].at \in Instance /\ r \in Remedy
  BY CallFacts DEF IssueMandate, NeedsRemedy
<1>2. UNCHANGED <<trigger, row, claims, artifacts, local, known, held, writes,
                  asked, paid, requests, restarts>>
  BY DEF IssueMandate, memory, gateway, bounds
<1>3. CASE End(c) /\ UNCHANGED <<issued, mandates>>
  <2>1. call' \in [Call -> Calls] /\ OnlyMoves(c) /\ CallNext(call'[c])
    BY <1>1, <1>3, EndMoves
  <2>2. TypeOK'
    BY <1>1, <1>2, <1>3, <2>1 DEF TypeOK
  <2>3. \A w \in writes' : RowNext(w.row)
    BY <1>2, <1>3, StoresStay, OldRows
  <2> QED
    BY <1>2, <1>3, <2>1, <2>2, <2>3, PlainStep
<1>4. CASE /\ issued' = [issued EXCEPT ![r] = @ + 1]
           /\ mandates' = [mandates EXCEPT ![r] = m]
           /\ call' = [call EXCEPT ![c] = n]
  <2>1. issued[r] \in Nat /\ issued' \in [Remedy -> Nat]
    BY <1>1, <1>4 DEF TypeOK
  <2>2. m \in Mandate /\ m # NoMandate /\ m.status = "ACTIVE"
    BY <2>1, MandateTypes
  <2> HIDE DEF m
  <2>3. mandates' \in [Remedy -> Mandate] /\ mandates'[r] = m
        /\ \A q \in Remedy \ {r} : mandates'[q] = mandates[q]
    BY <1>1, <1>4, <2>2 DEF TypeOK
  <2>4. Grows /\ \A i \in Instance : Remembers(i)
    BY <1>2, <2>2, <2>3 DEF Grows, Remembers
  <2>5. /\ n \in Calls /\ n.pc = "issued" /\ n.copy = m /\ n.at = call[c].at
        /\ n.remedy = r /\ n.seen = call[c].seen /\ n.then = call[c].then
    BY <1>1, <2>2 DEF Calls, PC
  <2> HIDE DEF n
  <2>6. CallNext(n)
    BY <1>1, <2>2, <2>3, <2>4, <2>5, Kept, HoldsCopy DEF PaidNext
  <2>7. call' \in [Call -> Calls] /\ OnlyMoves(c) /\ call'[c] = n
    BY <1>1, <1>4, <2>5, CallUpdate
  <2>8. TypeOK'
    BY <1>1, <1>2, <2>1, <2>3, <2>7 DEF TypeOK
  <2>9. PaymentsAreClaimed' /\ CopiesAreStored' /\ ArtifactsAgree'
    <3>1. PaymentsAreClaimed'
      BY <1>2, <2>2, <2>3 DEF ResolutionInv, PaymentsAreClaimed, PaidIfConsumed
    <3>2. CopiesAreStored'
      BY <1>2, <2>4 DEF ResolutionInv, CopiesAreStored, Grows
    <3>3. ArtifactsAgree'
      BY <1>2 DEF ResolutionInv, ArtifactsAgree
    <3> QED
      BY <3>1, <3>2, <3>3
  <2> QED
    BY <1>2, <2>4, <2>6, <2>7, <2>8, <2>9, StoreStep
<1> QED
  BY <1>1, <1>3, <1>4 DEF IssueMandate

\* An instance takes a copy of a mandate that is stored, and what goes with
\* it in its memory.
LEMMA CopyStep ==
  ASSUME ResolutionInv, TypeOK', NEW c \in Call, OnlyMoves(c), CallNext(call'[c]),
         NEW i \in Instance, NEW r \in Remedy, NEW m \in Mandate, m # NoMandate,
         mandates[r] # NoMandate, PaidIfConsumed(r, m),
         known' = [known EXCEPT ![i][r] = m],
         UNCHANGED <<row, mandates, claims, artifacts, held, asked, paid>>,
         \A j \in Instance : LocalNext(local'[j]),
         \A w \in writes' : RowNext(w.row)
  PROVE  ResolutionInv'
<1>1. TypeOK
  BY DEF ResolutionInv
<1>2. /\ known'[i][r] = m
      /\ \A j \in Instance, q \in Remedy : known'[j][q] = known[j][q] \/ (j = i /\ q = r)
  BY <1>1, CopyUpdate
<1>3. Grows /\ \A j \in Instance : Remembers(j)
  BY <1>2 DEF Grows, Remembers
<1>4. PaymentsAreClaimed'
  BY <1>2 DEF ResolutionInv, PaymentsAreClaimed, PaidIfConsumed
<1>5. CopiesAreStored'
  BY <1>2 DEF ResolutionInv, CopiesAreStored
<1>6. ArtifactsAgree'
  BY DEF ResolutionInv, ArtifactsAgree
<1>7. RowsAreSound'
  BY <1>3, OldRows, RowsPrimed
<1> QED
  BY <1>3, <1>4, <1>5, <1>6, <1>7, StepParts
\* The remedy is bound to the issued mandate and the case moved.
LEMMA MandateIssuedStep ==
  ASSUME ResolutionInv, NEW c \in Call, MandateIssued(c)
  PROVE  ResolutionInv'
<1> DEFINE i == call[c].at
           r == call[c].remedy
           m == call[c].copy
           s == local[i].case
           t == IF MayMove(s, "AWAITING_AUTHORITY") THEN "AWAITING_AUTHORITY" ELSE s
           p == [made |-> TRUE, bound |-> local[i].plan.bound \cup {r}]
           l == [local[i] EXCEPT !.plan = p, !.case = t]
           rows == {RowOf(s, p), RowOf(t, p)}
<1>1. call[c].pc = "issued" /\ call[c].pc # "idle" /\ TypeOK /\ i \in Instance
      /\ local[i] \in Local /\ r \in Remedy /\ m \in Mandate /\ CallIsSound(call[c])
  BY CallFacts DEF MandateIssued, Here, NeedsRemedy
<1>2. m # NoMandate /\ mandates[r] # NoMandate /\ PaidIfConsumed(r, m)
  BY <1>1 DEF CallIsSound, HasCopy
<1>3. UNCHANGED <<trigger, row, mandates, claims, artifacts, issued, held,
                  asked, paid, requests, restarts>>
  BY DEF MandateIssued, durable, gateway, bounds
<1>4. /\ known' = [known EXCEPT ![i][r] = m]
      /\ local' = [local EXCEPT ![i] = l]
      /\ Persist(c, rows)
      /\ End(c)
  BY DEF MandateIssued, Here
<1>5. /\ known' \in [Instance -> [Remedy -> Mandate]] /\ known'[i][r] = m
      /\ \A j \in Instance, q \in Remedy : known'[j][q] = known[j][q] \/ (j = i /\ q = r)
  <2>1. TypeOK /\ i \in Instance /\ r \in Remedy /\ m \in Mandate
    BY <1>1
  <2>2. known' = [known EXCEPT ![i][r] = m]
    BY <1>4
  <2> HIDE DEF i, r, m
  <2> QED
    BY <2>1, <2>2, CopyUpdate
<1>6. Grows
  BY <1>3 DEF Grows
<1>7. \A j \in Instance : LocalNext(local[j])
  BY <1>6, OldRows
<1>8. p \in Plan /\ PlanNext(p)
  <2>1. local[i].plan.bound \subseteq Remedy
    BY <1>1, RowTypes, LocalTypes
  <2>2. local[i].plan.bound \cup {r} \in SUBSET Remedy
    BY <1>1, <2>1
  <2>3. p \in Plan /\ p.bound = local[i].plan.bound \cup {r}
    BY <2>2, RowTypes
  <2> QED
    BY <1>1, <1>2, <1>3, <1>7, <2>3 DEF LocalNext, PlanNext
<1>9. /\ s \in CaseState \cup {"NONE"} /\ StateNext(s)
      /\ t \in CaseState \cup {"NONE"} /\ StateNext(t)
  BY <1>1, <1>7, LocalTypes, StatesAreStates DEF LocalNext, StateNext
<1> HIDE DEF t, p
<1>10. rows \in SUBSET Row /\ \A x \in rows : RowNext(x)
  <2>1. \A u \in {s, t} : RowOf(u, p) \in Row /\ RowNext(RowOf(u, p))
    BY <1>8, <1>9, RowTypes DEF RowNext
  <2> QED
    BY <2>1
<1>11. l \in Local /\ l.case = t /\ l.plan = p /\ l.carried = local[i].carried
  BY <1>1, <1>8, <1>9 DEF Local
<1>12. LocalNext(l)
  BY <1>1, <1>7, <1>8, <1>9, <1>11 DEF LocalNext
<1> HIDE DEF l, rows
<1>13. call' \in [Call -> Calls] /\ OnlyMoves(c) /\ CallNext(call'[c])
  BY <1>1, <1>4, EndMoves
<1>14. /\ local' \in [Instance -> Local] /\ local'[i] = l
       /\ \A j \in Instance \ {i} : local'[j] = local[j]
  BY <1>1, <1>4, <1>11, MemoryUpdate
<1>15. writes' \subseteq Write /\ \A w \in writes' : RowNext(w.row)
  BY <1>1, <1>4, <1>6, <1>10, WritesGrow
<1>16. TypeOK'
  BY <1>1, <1>3, <1>5, <1>13, <1>14, <1>15 DEF TypeOK
<1>17. \A j \in Instance : LocalNext(local'[j])
  BY <1>7, <1>12, <1>14
<1> QED
  BY <1>1, <1>2, <1>3, <1>4, <1>13, <1>15, <1>16, <1>17, CopyStep

\* A remedy is bound to a mandate that is stored, which the instance keeps.
LEMMA BindStep ==
  ASSUME ResolutionInv, NEW c \in Call, call[c].pc \notin {"idle", "flushing"},
         call[c].remedy \in Remedy, mandates[call[c].remedy] # NoMandate,
         NEW m \in Mandate, m # NoMandate, PaidIfConsumed(call[c].remedy, m),
         Bind(c, m), known' = [known EXCEPT ![call[c].at][call[c].remedy] = m],
         UNCHANGED <<durable, held, gateway, bounds>>
  PROVE  ResolutionInv'
<1> DEFINE i == call[c].at
           r == call[c].remedy
           p == [made |-> TRUE, bound |-> local[i].plan.bound \cup {r}]
           l == [local[i] EXCEPT !.plan = p]
           rows == IF r \in local[i].plan.bound THEN {} ELSE {RowOf(local[i].case, p)}
           n == [call[c] EXCEPT !.pc = "flushing", !.then = "start", !.copy = m]
<1>1. TypeOK /\ call[c] \in Calls /\ i \in Instance /\ local[i] \in Local
  BY CallFacts DEF Here
<1>2. UNCHANGED <<trigger, row, mandates, claims, artifacts, issued, held,
                  asked, paid, requests, restarts>>
  BY DEF durable, gateway, bounds
<1>3. /\ local' = [local EXCEPT ![i] = l]
      /\ PersistAndFlush(c, rows)
      /\ call' = [call EXCEPT ![c] = n]
  BY DEF Bind, Here
<1>4. Grows
  BY <1>2 DEF Grows
<1>5. \A j \in Instance : LocalNext(local[j])
  BY <1>4, OldRows
<1>6. p \in Plan /\ PlanNext(p)
  <2>1. local[i].plan.bound \subseteq Remedy
    BY <1>1, RowTypes, LocalTypes
  <2>2. local[i].plan.bound \cup {r} \in SUBSET Remedy
    BY <2>1
  <2>3. p \in Plan /\ p.bound = local[i].plan.bound \cup {r}
    BY <2>2, RowTypes
  <2> QED
    BY <1>1, <1>2, <1>5, <2>3 DEF LocalNext, PlanNext
<1> HIDE DEF p
<1>7. rows \in SUBSET Row /\ \A x \in rows : RowNext(x)
  <2>1. local[i].case \in CaseState \cup {"NONE"} /\ StateNext(local[i].case)
    BY <1>1, <1>5, LocalTypes DEF LocalNext
  <2>2. RowOf(local[i].case, p) \in Row /\ RowNext(RowOf(local[i].case, p))
    BY <1>6, <2>1, RowTypes DEF RowNext
  <2> QED
    BY <2>2
<1>8. l \in Local /\ l.case = local[i].case /\ l.plan = p /\ l.carried = local[i].carried
  BY <1>1, <1>6 DEF Local
<1>9. LocalNext(l)
  BY <1>1, <1>5, <1>6, <1>8 DEF LocalNext
<1>10. /\ n \in Calls /\ n.pc = "flushing" /\ n.then = "start" /\ n.copy = m /\ n.at = i
       /\ n.remedy = r /\ n.seen = call[c].seen
  BY <1>1 DEF Calls, PC
<1> HIDE DEF l, rows, n
<1>11. CallNext(n)
  BY <1>1, <1>2, <1>4, <1>10, Kept, HoldsCopy DEF PaidNext, PaidIfConsumed
<1>12. call' \in [Call -> Calls] /\ OnlyMoves(c) /\ call'[c] = n
  BY <1>1, <1>3, <1>10, CallUpdate
<1>13. /\ local' \in [Instance -> Local] /\ local'[i] = l
       /\ \A j \in Instance \ {i} : local'[j] = local[j]
  BY <1>1, <1>3, <1>8, MemoryUpdate
<1>14. known' \in [Instance -> [Remedy -> Mandate]]
  BY <1>1, CopyUpdate
<1>15. writes' \subseteq Write /\ \A w \in writes' : RowNext(w.row)
  BY <1>1, <1>3, <1>4, <1>7, WritesGrow
<1>16. TypeOK'
  BY <1>1, <1>2, <1>12, <1>13, <1>14, <1>15 DEF TypeOK
<1>17. \A j \in Instance : LocalNext(local'[j])
  BY <1>5, <1>9, <1>13
<1> QED
  BY <1>1, <1>2, <1>11, <1>12, <1>15, <1>16, <1>17, CopyStep

\* The mandate is looked for in memory, then in the store.
LEMMA GetMandateStep ==
  ASSUME ResolutionInv, NEW c \in Call, GetMandate(c)
  PROVE  ResolutionInv'
<1> DEFINE r == call[c].remedy
           m == mandates[r]
           n == [call[c] EXCEPT !.pc = "fetched", !.copy = m]
<1>1. call[c].pc = "execute" /\ call[c].pc \notin {"idle", "flushing"} /\ TypeOK
      /\ call[c] \in Calls /\ call[c].at \in Instance /\ r \in Remedy
  BY CallFacts DEF GetMandate, NeedsRemedy
<1>2. UNCHANGED <<durable, known, held, gateway, bounds>>
  BY DEF GetMandate
<1>3. UNCHANGED <<trigger, row, mandates, claims, artifacts, issued, known, held,
                  asked, paid, requests, restarts>>
  BY <1>2 DEF durable, gateway, bounds
<1>4. Grows
  BY <1>3 DEF Grows
<1>5. CASE Knows(c) # NoMandate /\ Bind(c, Knows(c))
  <2>1. Knows(c) \in Mandate /\ Knows(c) = known[call[c].at][r]
    BY <1>1 DEF Knows, TypeOK
  <2>2. known' = [known EXCEPT ![call[c].at][r] = Knows(c)]
    BY <1>1, <1>3, <2>1 DEF TypeOK
  <2>3. mandates[r] # NoMandate /\ PaidIfConsumed(r, Knows(c))
    BY <1>1, <1>5, <2>1 DEF ResolutionInv, CopiesAreStored, PaymentsAreClaimed
  <2> QED
    BY <1>1, <1>2, <1>5, <2>1, <2>2, <2>3, BindStep
<1>6. CASE UNCHANGED <<local, writes>> /\ (End(c) \/ (m # NoMandate
                                                       /\ call' = [call EXCEPT ![c] = n]))
  <2>1. m \in Mandate
    BY <1>1 DEF TypeOK
  <2>2. /\ n \in Calls /\ n.pc = "fetched" /\ n.copy = m /\ n.at = call[c].at
        /\ n.remedy = r /\ n.seen = call[c].seen /\ n.then = call[c].then
    BY <1>1, <2>1 DEF Calls, PC
  <2>3. PaidNext(r, m)
    BY <1>1, <1>3 DEF ResolutionInv, PaymentsAreClaimed, PaidIfConsumed, PaidNext
  <2> HIDE DEF n
  <2>4. m # NoMandate => CallNext(n)
    BY <1>1, <1>3, <1>4, <2>2, <2>3, Kept, HoldsCopy
  <2>5. call' \in [Call -> Calls] /\ OnlyMoves(c) /\ CallNext(call'[c])
    BY <1>1, <1>6, <2>2, <2>4, EndMoves, CallUpdate
  <2>6. TypeOK'
    BY <1>1, <1>3, <1>6, <2>5 DEF TypeOK
  <2>7. \A w \in writes' : RowNext(w.row)
    BY <1>4, <1>6, OldRows
  <2> QED
    BY <1>3, <1>6, <2>5, <2>6, <2>7, PlainStep
<1> QED
  BY <1>5, <1>6 DEF GetMandate

\* The stored mandate arrives and is kept.
LEMMA FetchedStep ==
  ASSUME ResolutionInv, NEW c \in Call, MandateFetched(c)
  PROVE  ResolutionInv'
<1>1. call[c].pc = "fetched" /\ call[c].pc \notin {"idle", "flushing"}
      /\ call[c].remedy \in Remedy /\ call[c].copy \in Mandate /\ CallIsSound(call[c])
  BY CallFacts DEF MandateFetched, NeedsRemedy
<1>2. /\ call[c].copy # NoMandate /\ mandates[call[c].remedy] # NoMandate
      /\ PaidIfConsumed(call[c].remedy, call[c].copy)
  BY <1>1 DEF CallIsSound, HasCopy
<1> QED
  BY <1>1, <1>2, BindStep DEF MandateFetched

----------------------------------------------------------------------------
(* Flushing and verifying.                                                 *)

\* A call takes over the writes that nobody waits for.
LEMMA FlushStep ==
  ASSUME ResolutionInv, NEW c \in Call, Flush(c)
  PROVE  ResolutionInv'
<1>1. call[c].pc \notin {"idle", "flushing"} /\ call[c].pc # "idle" /\ TypeOK
      /\ call[c].at \in Instance
  BY CallFacts DEF Flush
<1>2. UNCHANGED <<trigger, row, mandates, claims, artifacts, issued, local, known, held,
                  asked, paid, requests, restarts>>
  BY DEF Flush, durable, memory, gateway, bounds
<1>3. Grows
  BY <1>2 DEF Grows
<1>4. call' \in [Call -> Calls] /\ OnlyMoves(c) /\ CallNext(call'[c])
  BY <1>1, <1>3, GotoEasy DEF Flush, Easy
<1>5. writes' \subseteq Write /\ \A w \in writes' : RowNext(w.row)
  <2>1. {} \in SUBSET Row /\ \A x \in {} : RowNext(x)
    OBVIOUS
  <2>2. writes' = Taken(c, writes)
    BY DEF Flush
  <2> QED
    BY <1>1, <1>3, <2>1, <2>2, WritesGrow
<1>6. TypeOK'
  BY <1>1, <1>2, <1>4, <1>5 DEF TypeOK
<1> QED
  BY <1>2, <1>4, <1>5, <1>6, PlainStep

\* A call that has bound its mandate goes on when its writes have landed.
LEMMA FlushedStep ==
  ASSUME ResolutionInv, NEW c \in Call, Flushed(c)
  PROVE  ResolutionInv'
<1>1. CASE call[c].then = "idle"
  BY <1>1, MoveStep
<1>2. CASE call[c].then # "idle"
  <2> DEFINE n == [call[c] EXCEPT !.pc = "start", !.then = "idle"]
  <2>1. call[c].pc = "flushing" /\ call[c].pc # "idle" /\ TypeOK /\ call[c] \in Calls
        /\ call[c].then = "start" /\ call[c].remedy \in Remedy /\ call[c].at \in Instance
    BY <1>2, CallFacts DEF Flushed, NeedsRemedy
  <2>2. UNCHANGED <<trigger, row, mandates, claims, artifacts, issued, local, known, held,
                    writes, asked, paid, requests, restarts>>
        /\ call' = [call EXCEPT ![c] = n]
    BY <2>1 DEF Flushed, durable, memory, gateway, bounds
  <2>3. Grows
    BY <2>2 DEF Grows
  <2>4. /\ n \in Calls /\ n.pc = "start" /\ n.then = "idle" /\ n.at = call[c].at
        /\ n.remedy = call[c].remedy /\ n.seen = call[c].seen /\ n.copy = call[c].copy
    BY <2>1 DEF Calls, PC
  <2> HIDE DEF n
  <2>5. CallNext(n)
    <3>1. n.pc \notin PaymentPC \cup PastClaim \cup PastAction \cup PastProof \cup Settled
                       \cup HasCopy
      BY <2>4 DEF PaymentPC, PortPC, PastClaim, PastAction, PastProof, Settled, HasCopy
    <3> QED
      BY <2>1, <2>3, <2>4, <3>1, Kept DEF CallNext
  <2>6. call' \in [Call -> Calls] /\ OnlyMoves(c) /\ call'[c] = n
    BY <2>1, <2>2, <2>4, CallUpdate
  <2>7. TypeOK'
    BY <2>1, <2>2, <2>6 DEF TypeOK
  <2>8. \A w \in writes' : RowNext(w.row)
    BY <2>2, <2>3, OldRows
  <2> QED
    BY <2>2, <2>5, <2>6, <2>7, <2>8, PlainStep
<1> QED
  BY <1>1, <1>2
\* The case of an instance moves on and its row is written.
LEMMA CaseMoves ==
  ASSUME ResolutionInv, Grows, NEW c \in Call, call[c].at \in Instance,
         NEW t \in CaseState, StateNext(t), MoveCase(c, t)
  PROVE  /\ local' \in [Instance -> Local] /\ LocalNext(local'[call[c].at])
         /\ \A j \in Instance \ {call[c].at} : local'[j] = local[j]
         /\ writes' \subseteq Write /\ \A w \in writes' : RowNext(w.row)
<1> DEFINE i == call[c].at
           p == PlanOf(local[i])
           l == [local[i] EXCEPT !.case = t]
           rows == {RowOf(t, p)}
<1>1. TypeOK /\ local[i] \in Local
  BY DEF ResolutionInv, TypeOK
<1>2. LocalNext(local[i])
  BY OldRows
<1>3. local' = [local EXCEPT ![i] = l] /\ Persist(c, rows)
  BY DEF MoveCase, Here
<1>4. p \in Plan /\ PlanNext(p)
  BY <1>1, <1>2, LocalTypes DEF LocalNext
<1> HIDE DEF p
<1>5. rows \in SUBSET Row /\ \A x \in rows : RowNext(x)
  BY <1>4, RowTypes DEF RowNext
<1>6. l \in Local /\ l.case = t /\ l.plan = local[i].plan /\ l.carried = local[i].carried
  BY <1>1 DEF Local
<1>7. LocalNext(l)
  BY <1>2, <1>6 DEF LocalNext
<1> HIDE DEF l, rows
<1>8. /\ local' \in [Instance -> Local] /\ local'[i] = l
      /\ \A j \in Instance \ {i} : local'[j] = local[j]
  BY <1>1, <1>3, <1>6, MemoryUpdate
<1>9. writes' \subseteq Write /\ \A w \in writes' : RowNext(w.row)
  BY <1>3, <1>5, WritesGrow
<1> QED
  BY <1>7, <1>8, <1>9

\* The verification resolves or escalates the case, or leaves it.
LEMMA VerifyStep ==
  ASSUME ResolutionInv, NEW c \in Call, Verify(c)
  PROVE  ResolutionInv'
<1> DEFINE i == call[c].at
<1>1. call[c].pc \notin {"idle", "flushing"} /\ call[c].pc # "idle" /\ TypeOK /\ i \in Instance
      /\ Here(c) \in Local /\ SoundLocal(Here(c))
  BY CallFacts DEF Verify
<1>2. UNCHANGED <<trigger, row, mandates, claims, artifacts, issued, known, held,
                  asked, paid, requests, restarts>>
  BY DEF Verify, durable, gateway, bounds
<1>3. Grows
  BY <1>2 DEF Grows
<1>4. call' \in [Call -> Calls] /\ OnlyMoves(c) /\ CallNext(call'[c])
  BY <1>1, <1>3, GotoEasy DEF Verify, Easy
<1>5. /\ local' \in [Instance -> Local] /\ LocalNext(local'[i])
      /\ \A j \in Instance \ {i} : local'[j] = local[j]
      /\ writes' \subseteq Write /\ \A w \in writes' : RowNext(w.row)
  <2>1. CASE MayMove(Here(c).case, "RESOLVED") /\ MoveCase(c, "RESOLVED")
    <3>1. Here(c).case \in Verifying
      BY <1>1, <2>1, LocalTypes, ResolvedFromVerifying
    <3>2. StateNext("RESOLVED")
      BY <1>1, <1>2, <3>1 DEF SoundLocal, Sound, StateNext
    <3>3. "RESOLVED" \in CaseState
      BY StatesAreStates
    <3> QED
      BY <1>1, <1>3, <2>1, <3>2, <3>3, CaseMoves
  <2>2. CASE MoveCase(c, "ESCALATED")
    <3>1. StateNext("ESCALATED") /\ "ESCALATED" \in CaseState
      BY StatesAreStates DEF StateNext
    <3> QED
      BY <1>1, <1>3, <2>2, <3>1, CaseMoves
  <2>3. CASE UNCHANGED <<local, writes>>
    BY <1>1, <1>3, <2>3, OldRows DEF TypeOK
  <2> QED
    BY <2>1, <2>2, <2>3 DEF Verify
<1>6. TypeOK'
  BY <1>1, <1>2, <1>4, <1>5 DEF TypeOK
<1> QED
  BY <1>1, <1>2, <1>4, <1>5, <1>6, LocalStep

----------------------------------------------------------------------------
(* The execution of a remedy.                                              *)

\* A request with a remedy goes on to a place it has everything for.
LEMMA GoesOn ==
  ASSUME ResolutionInv, Grows, NEW c \in Call, call[c].pc \notin {"idle", "flushing"},
         call[c].remedy \in Remedy, NEW m \in Mandate, PaidNext(call[c].remedy, m),
         NEW pc \in PC, pc # "idle",
         \/ Goto(c, pc) /\ m = call[c].copy
         \/ call' = [call EXCEPT ![c].pc = pc, ![c].copy = m],
         pc \in HasCopy => m # NoMandate /\ mandates'[call[c].remedy] # NoMandate,
         pc \in PaymentPC => known'[call[c].at][call[c].remedy] # NoMandate,
         pc \in PastClaim => claims'[call[c].remedy] # "NONE",
         pc \in PastAction => artifacts'[call[c].remedy].action = m.issue,
         pc \in PastProof => artifacts'[call[c].remedy].proof = m.status,
         pc \in Settled => call[c].remedy \in paid'
  PROVE  call' \in [Call -> Calls] /\ OnlyMoves(c) /\ CallNext(call'[c])
<1> DEFINE n == [call[c] EXCEPT !.pc = pc, !.copy = m]
<1>1. TypeOK /\ call[c] \in Calls /\ call[c].at \in Instance
  BY CallFacts
<1>2. call' = [call EXCEPT ![c] = n]
  <2>1. CASE Goto(c, pc) /\ m = call[c].copy
    <3>1. n = [call[c] EXCEPT !.pc = pc]
      BY <1>1, <2>1 DEF Calls
    <3> QED
      BY <2>1, <3>1 DEF Goto
  <2> QED
    BY <2>1
<1>3. n \in Calls /\ n.pc = pc /\ n.at = call[c].at /\ n.remedy = call[c].remedy
      /\ n.copy = m /\ n.seen = call[c].seen /\ n.then = call[c].then
  BY <1>1 DEF Calls
<1>4. RowNext(call[c].seen) /\ call[c].then = "idle"
  BY Kept
<1> HIDE DEF n
<1>5. CallNext(n)
  BY <1>1, <1>3, <1>4 DEF CallNext
<1> QED
  BY <1>1, <1>2, <1>3, <1>5, CallUpdate

\* The execution starts: the case moves to REMEDIATING.
LEMMA StartStep ==
  ASSUME ResolutionInv, NEW c \in Call, StartExecution(c)
  PROVE  ResolutionInv'
<1> DEFINE i == call[c].at
           r == call[c].remedy
           pc == IF held[i][r] = "CLAIMED" THEN "stub" ELSE "claim"
<1>1. call[c].pc \notin {"idle", "flushing"} /\ call[c].pc # "idle" /\ TypeOK /\ i \in Instance
      /\ r \in Remedy /\ call[c].copy \in Mandate
  BY CallFacts DEF StartExecution, NeedsRemedy
<1>2. UNCHANGED <<trigger, row, mandates, claims, artifacts, issued, known, held,
                  asked, paid, requests, restarts>>
  BY DEF StartExecution, durable, gateway, bounds
<1>3. Grows
  BY <1>2 DEF Grows
<1>4. known[i][r] # NoMandate
  BY MandateTypes DEF StartExecution, MayExecute, Knows
<1>5. pc = "stub" => claims[r] # "NONE"
  BY <1>1 DEF ResolutionInv, CopiesAreStored
<1>6. Goto(c, pc)
  BY DEF StartExecution
<1>7. PaidNext(r, call[c].copy)
  BY <1>1, <1>3, Kept
<1>8. pc \in {"stub", "claim"}
  OBVIOUS
<1> HIDE DEF pc
<1>9. /\ pc \in PC /\ pc # "idle" /\ pc \in PaymentPC
      /\ pc \notin HasCopy \cup PastAction \cup PastProof \cup Settled
      /\ pc \in PastClaim => pc = "stub"
  BY <1>8 DEF PC, PaymentPC, PortPC, HasCopy, PastAction, PastProof, Settled, PastClaim
<1>10. call' \in [Call -> Calls] /\ OnlyMoves(c) /\ CallNext(call'[c])
  BY <1>1, <1>2, <1>3, <1>4, <1>5, <1>6, <1>7, <1>9, GoesOn
<1>11. StateNext("REMEDIATING") /\ "REMEDIATING" \in CaseState
  BY StatesAreStates DEF StateNext
<1>12. /\ local' \in [Instance -> Local] /\ LocalNext(local'[i])
       /\ \A j \in Instance \ {i} : local'[j] = local[j]
       /\ writes' \subseteq Write /\ \A w \in writes' : RowNext(w.row)
  BY <1>1, <1>3, <1>11, CaseMoves DEF StartExecution
<1>13. TypeOK'
  BY <1>1, <1>2, <1>10, <1>12 DEF TypeOK
<1> QED
  BY <1>1, <1>2, <1>10, <1>12, <1>13, LocalStep

\* The claim is stored and kept.
LEMMA ClaimStep ==
  ASSUME ResolutionInv, NEW c \in Call, ClaimMandate(c)
  PROVE  ResolutionInv'
<1> DEFINE i == call[c].at
           r == call[c].remedy
<1>1. call[c].pc = "claim" /\ call[c].pc \notin {"idle", "flushing"} /\ TypeOK
      /\ i \in Instance /\ r \in Remedy /\ call[c].copy \in Mandate /\ CallIsSound(call[c])
  BY CallFacts DEF ClaimMandate, NeedsRemedy, PaymentPC
<1>2. UNCHANGED <<trigger, row, mandates, artifacts, issued, local, known, writes,
                  asked, paid, requests, restarts>>
  BY DEF ClaimMandate, gateway, bounds
<1>3. /\ claims' \in [Remedy -> ClaimStatus] /\ claims'[r] # "NONE"
      /\ \A q \in Remedy : claims[q] # "NONE" => claims'[q] # "NONE"
  BY <1>1 DEF ClaimMandate, TypeOK, ClaimStatus
<1>4. /\ held' \in [Instance -> [Remedy -> ClaimStatus]]
      /\ \A j \in Instance, q \in Remedy : held'[j][q] = held[j][q] \/ q = r
  BY <1>1 DEF ClaimMandate, TypeOK, ClaimStatus
<1>5. Grows /\ \A j \in Instance : Remembers(j)
  BY <1>2, <1>3 DEF Grows, Remembers
<1>6. known[i][r] # NoMandate /\ PaidNext(r, call[c].copy)
  BY <1>1, <1>5, Kept DEF CallIsSound, PaymentPC
<1>7. /\ "stub" \in PC
      /\ "stub" \notin HasCopy \cup PastAction \cup PastProof \cup Settled
  BY DEF PC, PaymentPC, PortPC, HasCopy, PastAction, PastProof, Settled
<1>8. call' \in [Call -> Calls] /\ OnlyMoves(c) /\ CallNext(call'[c])
  BY <1>1, <1>2, <1>3, <1>5, <1>6, <1>7, GoesOn DEF ClaimMandate
<1>9. TypeOK'
  BY <1>1, <1>2, <1>3, <1>4, <1>8 DEF TypeOK
<1>10. PaymentsAreClaimed'
  BY <1>2, <1>3 DEF ResolutionInv, PaymentsAreClaimed, PaidIfConsumed
<1>11. CopiesAreStored'
  BY <1>2, <1>3, <1>4 DEF ResolutionInv, CopiesAreStored
<1>12. ArtifactsAgree'
  BY <1>2 DEF ResolutionInv, ArtifactsAgree
<1> QED
  BY <1>2, <1>5, <1>8, <1>9, <1>10, <1>11, <1>12, StoreStep

\* The port begins with the copy the instance has by now, or the execution
\* ends.
LEMMA StubStep ==
  ASSUME ResolutionInv, NEW c \in Call, CreateStub(c)
  PROVE  ResolutionInv'
<1> DEFINE i == call[c].at
           r == call[c].remedy
           m == known[i][r]
<1>1. call[c].pc = "stub" /\ call[c].pc \notin {"idle", "flushing"} /\ TypeOK
      /\ i \in Instance /\ r \in Remedy /\ CallIsSound(call[c])
  BY CallFacts DEF CreateStub, NeedsRemedy, PaymentPC
<1>2. UNCHANGED <<trigger, row, mandates, claims, artifacts, issued, local, known, held,
                  writes, asked, paid, requests, restarts>>
  BY DEF CreateStub, durable, memory, gateway, bounds
<1>3. Grows
  BY <1>2 DEF Grows
<1>4. /\ m \in Mandate /\ m # NoMandate /\ mandates[r] # NoMandate /\ claims[r] # "NONE"
      /\ PaidNext(r, m)
  <2>1. m # NoMandate /\ claims[r] # "NONE"
    BY <1>1 DEF CallIsSound, PaymentPC, PastClaim
  <2>2. mandates[r] # NoMandate /\ PaidNext(r, m)
    BY <1>1, <1>2, <2>1 DEF ResolutionInv, CopiesAreStored, PaymentsAreClaimed,
       PaidIfConsumed, PaidNext
  <2> QED
    BY <1>1, <2>1, <2>2 DEF TypeOK
<1>5. call' \in [Call -> Calls] /\ OnlyMoves(c) /\ CallNext(call'[c])
  <2>1. CASE Goto(c, "flush")
    BY <1>1, <1>3, <2>1, GotoEasy DEF Easy
  <2>2. CASE call' = [call EXCEPT ![c].pc = "action", ![c].copy = m]
    <3>1. "action" \in PC /\ "action" \notin PastAction \cup PastProof \cup Settled
      BY DEF PC, PaymentPC, PortPC, PastAction, PastProof, Settled
    <3> HIDE DEF m
    <3>2. known'[i][r] = m
      BY <1>2 DEF m
    <3> QED
      BY <1>1, <1>2, <1>3, <1>4, <2>2, <3>1, <3>2, GoesOn
  <2> QED
    BY <2>1, <2>2 DEF CreateStub, Knows
<1>6. TypeOK'
  BY <1>1, <1>2, <1>5 DEF TypeOK
<1>7. \A w \in writes' : RowNext(w.row)
  BY <1>2, <1>3, OldRows
<1> QED
  BY <1>2, <1>5, <1>6, <1>7, PlainStep
----------------------------------------------------------------------------
(* The port.                                                               *)

\* What a request that has begun the port has.
LEMMA PortFacts ==
  ASSUME ResolutionInv, NEW c \in Call, call[c].pc \in PortPC
  PROVE  /\ call[c].pc \notin {"idle", "flushing"} /\ call[c].pc # "idle" /\ TypeOK
         /\ call[c].at \in Instance /\ call[c].remedy \in Remedy
         /\ call[c].copy \in Mandate /\ call[c].copy # NoMandate
         /\ call[c].copy.issue \in Nat \ {0} /\ call[c].copy.status \in {"ACTIVE", "CONSUMED"}
         /\ mandates[call[c].remedy] # NoMandate /\ claims[call[c].remedy] # "NONE"
         /\ known[call[c].at][call[c].remedy] # NoMandate
         /\ PaidIfConsumed(call[c].remedy, call[c].copy)
<1>1. call[c].pc \notin {"idle", "flushing"} /\ NeedsRemedy(call[c])
  BY DEF PortPC, NeedsRemedy, PaymentPC
<1>2. CallIsSound(call[c]) /\ TypeOK /\ call[c].at \in Instance /\ call[c].remedy \in Remedy
      /\ call[c].copy \in Mandate
  BY <1>1, CallFacts
<1>3. call[c].pc \in HasCopy /\ call[c].pc \in PaymentPC /\ call[c].pc \in PastClaim
  BY DEF HasCopy, PaymentPC, PastClaim, PortPC
<1>4. call[c].copy # NoMandate /\ mandates[call[c].remedy] # NoMandate
      /\ claims[call[c].remedy] # "NONE" /\ known[call[c].at][call[c].remedy] # NoMandate
      /\ PaidIfConsumed(call[c].remedy, call[c].copy)
  BY <1>2, <1>3 DEF CallIsSound
<1>5. call[c].copy.issue \in Nat \ {0} /\ call[c].copy.status \in {"ACTIVE", "CONSUMED"}
  BY <1>2, <1>4, MandateTypes
<1> QED
  BY <1>1, <1>2, <1>4, <1>5

\* A request of the port goes on to the release of its claim.
LEMMA ToRelease ==
  ASSUME ResolutionInv, Grows, \A i \in Instance : Remembers(i), NEW c \in Call,
         call[c].pc \in PortPC, Goto(c, "release")
  PROVE  call' \in [Call -> Calls] /\ OnlyMoves(c) /\ CallNext(call'[c])
<1>1. "release" \in PC /\ "release" \notin HasCopy \cup PastAction \cup PastProof \cup Settled
  BY DEF PC, PaymentPC, PortPC, HasCopy, PastAction, PastProof, Settled
<1>2. /\ known'[call[c].at][call[c].remedy] # NoMandate
      /\ claims'[call[c].remedy] # "NONE"
      /\ PaidNext(call[c].remedy, call[c].copy)
  BY PortFacts, Kept DEF Grows, Remembers
<1> QED
  BY <1>1, <1>2, PortFacts, GoesOn

\* A service on the way fails.
LEMMA PortFailsStep ==
  ASSUME ResolutionInv, NEW c \in Call, PortFails(c)
  PROVE  ResolutionInv'
<1>1. UNCHANGED <<trigger, row, mandates, claims, artifacts, issued, local, known, held,
                  writes, asked, paid, requests, restarts>>
  BY DEF PortFails, durable, memory, gateway, bounds
<1>2. Grows /\ \A i \in Instance : Remembers(i)
  BY <1>1 DEF Grows, Remembers
<1>3. call' \in [Call -> Calls] /\ OnlyMoves(c) /\ CallNext(call'[c])
  BY <1>2, ToRelease DEF PortFails
<1>4. TypeOK'
  BY <1>1, <1>3 DEF ResolutionInv, TypeOK
<1>5. \A w \in writes' : RowNext(w.row)
  BY <1>1, <1>2, OldRows
<1> QED
  BY <1>1, <1>3, <1>4, <1>5, PlainStep

\* Artifacts change, and only where there were none.
LEMMA ArtifactStep ==
  ASSUME ResolutionInv, TypeOK', NEW c \in Call, OnlyMoves(c), CallNext(call'[c]), Grows,
         UNCHANGED <<row, mandates, claims, local, known, held, writes, asked, paid>>,
         \A r \in Remedy :
           /\ artifacts'[r].proof # "CONSUMED"
           /\ artifacts'[r].proof # "NONE" => artifacts'[r].action # 0
  PROVE  ResolutionInv'
<1>1. \A i \in Instance : Remembers(i)
  BY DEF Remembers
<1>2. PaymentsAreClaimed'
  BY DEF ResolutionInv, PaymentsAreClaimed, PaidIfConsumed, Grows
<1>3. CopiesAreStored'
  BY DEF ResolutionInv, CopiesAreStored
<1>4. ArtifactsAgree'
  <2> SUFFICES ASSUME NEW a \in asked
               PROVE  /\ a.issue = artifacts'[a.remedy].action
                      /\ a.status = "ACTIVE" /\ artifacts'[a.remedy].proof = "ACTIVE"
    BY DEF ArtifactsAgree
  <2>1. a.remedy \in Remedy
    BY DEF ResolutionInv, TypeOK, Asked
  <2>2. /\ a.issue = artifacts[a.remedy].action /\ a.status = "ACTIVE"
        /\ artifacts[a.remedy].proof = "ACTIVE" /\ artifacts[a.remedy].action # 0
    BY <2>1 DEF ResolutionInv, ArtifactsAgree
  <2> QED
    BY <2>1, <2>2 DEF Grows
<1> QED
  BY <1>1, <1>2, <1>3, <1>4, StoreStep

\* One artifact of one remedy changes.
LEMMA ActionUpdate ==
  ASSUME TypeOK, NEW r \in Remedy, NEW n \in Nat,
         artifacts' = [artifacts EXCEPT ![r].action = n]
  PROVE  /\ artifacts' \in [Remedy -> Artifacts] /\ artifacts'[r].action = n
         /\ artifacts'[r].proof = artifacts[r].proof
         /\ \A q \in Remedy \ {r} : artifacts'[q] = artifacts[q]
<1>1. artifacts \in [Remedy -> Artifacts] /\ artifacts[r] \in Artifacts
  BY DEF TypeOK
<1>2. LET a == [artifacts[r] EXCEPT !.action = n]
      IN a \in Artifacts /\ a.action = n /\ a.proof = artifacts[r].proof
  BY <1>1 DEF Artifacts
<1> QED
  BY <1>1, <1>2

LEMMA ProofUpdate ==
  ASSUME TypeOK, NEW r \in Remedy, NEW s \in {"NONE", "ACTIVE", "CONSUMED"},
         artifacts' = [artifacts EXCEPT ![r].proof = s]
  PROVE  /\ artifacts' \in [Remedy -> Artifacts] /\ artifacts'[r].proof = s
         /\ artifacts'[r].action = artifacts[r].action
         /\ \A q \in Remedy \ {r} : artifacts'[q] = artifacts[q]
<1>1. artifacts \in [Remedy -> Artifacts] /\ artifacts[r] \in Artifacts
  BY DEF TypeOK
<1>2. LET a == [artifacts[r] EXCEPT !.proof = s]
      IN a \in Artifacts /\ a.proof = s /\ a.action = artifacts[r].action
  BY <1>1 DEF Artifacts
<1> QED
  BY <1>1, <1>2

\* The first ACTION is kept; another issue's is refused.
LEMMA PutActionStep ==
  ASSUME ResolutionInv, NEW c \in Call, PutAction(c)
  PROVE  ResolutionInv'
<1> DEFINE i == call[c].at
           r == call[c].remedy
           n == call[c].copy.issue
<1>1. call[c].pc = "action" /\ call[c].pc \in PortPC
  BY DEF PutAction, PortPC
<1>2. UNCHANGED <<trigger, row, mandates, claims, issued, local, known, held,
                  writes, asked, paid, requests, restarts>>
  BY DEF PutAction, memory, gateway, bounds
<1>3. TypeOK /\ r \in Remedy /\ n \in Nat \ {0}
  BY <1>1, PortFacts
<1>4. CASE UNCHANGED artifacts /\ Goto(c, "release")
  <2>1. Grows /\ \A j \in Instance : Remembers(j)
    BY <1>2, <1>4 DEF Grows, Remembers
  <2>2. call' \in [Call -> Calls] /\ OnlyMoves(c) /\ CallNext(call'[c])
    BY <1>1, <1>4, <2>1, ToRelease
  <2>3. TypeOK'
    BY <1>2, <1>3, <1>4, <2>2 DEF TypeOK
  <2>4. \A w \in writes' : RowNext(w.row)
    BY <1>2, <2>1, OldRows
  <2> QED
    BY <1>2, <1>4, <2>2, <2>3, <2>4, PlainStep
<1>5. CASE /\ artifacts[r].action \in {0, n} /\ Goto(c, "proof")
           /\ artifacts' = [artifacts EXCEPT ![r].action = n]
  <2> HIDE DEF n
  <2>1. /\ artifacts' \in [Remedy -> Artifacts] /\ artifacts'[r].action = n
        /\ artifacts'[r].proof = artifacts[r].proof
        /\ \A q \in Remedy \ {r} : artifacts'[q] = artifacts[q]
    BY <1>3, <1>5, ActionUpdate
  <2>2. Grows
    BY <1>2, <1>5, <2>1 DEF Grows
  <2>3. \A q \in Remedy : /\ artifacts'[q].proof # "CONSUMED"
                          /\ artifacts'[q].proof # "NONE" => artifacts'[q].action # 0
    BY <1>3, <2>1 DEF ResolutionInv, ArtifactsAgree
  <2>4. "proof" \in PC /\ "proof" \notin PastProof \cup Settled
    BY DEF PC, PaymentPC, PortPC, PastAction, PastProof, Settled
  <2>5. PaidNext(r, call[c].copy)
    BY <1>1, <2>2, PortFacts, Kept
  <2>6. call' \in [Call -> Calls] /\ OnlyMoves(c) /\ CallNext(call'[c])
    BY <1>1, <1>2, <1>5, <2>1, <2>2, <2>4, <2>5, PortFacts, GoesOn DEF n
  <2>7. TypeOK'
    BY <1>2, <1>3, <2>1, <2>6 DEF TypeOK
  <2> QED
    BY <1>2, <2>2, <2>3, <2>6, <2>7, ArtifactStep
<1> QED
  BY <1>4, <1>5 DEF PutAction

\* So is the first PROOF: a copy that was consumed comes after an ACTIVE one.
LEMMA PutProofStep ==
  ASSUME ResolutionInv, NEW c \in Call, PutProof(c)
  PROVE  ResolutionInv'
<1> DEFINE i == call[c].at
           r == call[c].remedy
           s == call[c].copy.status
<1>1. call[c].pc = "proof" /\ call[c].pc \in PortPC /\ call[c].pc \in PastAction
  BY DEF PutProof, PortPC, PastAction
<1>2. UNCHANGED <<trigger, row, mandates, claims, issued, local, known, held,
                  writes, asked, paid, requests, restarts>>
  BY DEF PutProof, memory, gateway, bounds
<1>3. TypeOK /\ r \in Remedy /\ s \in {"ACTIVE", "CONSUMED"}
  BY <1>1, PortFacts
<1>4. CASE UNCHANGED artifacts /\ Goto(c, "release")
  <2>1. Grows /\ \A j \in Instance : Remembers(j)
    BY <1>2, <1>4 DEF Grows, Remembers
  <2>2. call' \in [Call -> Calls] /\ OnlyMoves(c) /\ CallNext(call'[c])
    BY <1>1, <1>4, <2>1, ToRelease
  <2>3. TypeOK'
    BY <1>2, <1>3, <1>4, <2>2 DEF TypeOK
  <2>4. \A w \in writes' : RowNext(w.row)
    BY <1>2, <2>1, OldRows
  <2> QED
    BY <1>2, <1>4, <2>2, <2>3, <2>4, PlainStep
<1>5. CASE /\ artifacts[r].proof \in {"NONE", s} /\ Goto(c, "evaluate")
           /\ artifacts' = [artifacts EXCEPT ![r].proof = s]
  <2>1. s = "ACTIVE"
    <3>1. s = "CONSUMED" => artifacts[r].proof = "ACTIVE"
      BY <1>1, <1>3, PortFacts DEF PaidIfConsumed, ResolutionInv, PaymentsAreClaimed
    <3> QED
      BY <1>3, <1>5, <3>1
  <2>2. artifacts[r].action = call[c].copy.issue /\ call[c].copy.issue # 0
    <3>1. CallIsSound(call[c])
      BY <1>1, PortFacts, CallFacts
    <3> QED
      BY <1>1, <3>1, PortFacts DEF CallIsSound
  <2> HIDE DEF s
  <2>3. /\ artifacts' \in [Remedy -> Artifacts] /\ artifacts'[r].proof = s
        /\ artifacts'[r].action = artifacts[r].action
        /\ \A q \in Remedy \ {r} : artifacts'[q] = artifacts[q]
    BY <1>3, <1>5, ProofUpdate
  <2>4. Grows
    BY <1>2, <1>5, <2>3 DEF Grows
  <2>5. \A q \in Remedy : /\ artifacts'[q].proof # "CONSUMED"
                          /\ artifacts'[q].proof # "NONE" => artifacts'[q].action # 0
    BY <2>1, <2>2, <2>3 DEF ResolutionInv, ArtifactsAgree
  <2>6. "evaluate" \in PC /\ "evaluate" \notin Settled
    BY DEF PC, PaymentPC, PortPC, Settled
  <2>7. PaidNext(r, call[c].copy)
    BY <1>1, <2>4, PortFacts, Kept
  <2>8. call' \in [Call -> Calls] /\ OnlyMoves(c) /\ CallNext(call'[c])
    <3>1. /\ artifacts'[r].action = call[c].copy.issue
          /\ artifacts'[r].proof = call[c].copy.status
      BY <2>2, <2>3 DEF s
    <3>2. /\ known'[i][r] # NoMandate /\ mandates'[r] # NoMandate /\ claims'[r] # "NONE"
      BY <1>1, <1>2, PortFacts
    <3> QED
      BY <1>1, <1>5, <2>4, <2>6, <2>7, <3>1, <3>2, PortFacts, GoesOn
  <2>9. TypeOK'
    BY <1>2, <1>3, <2>3, <2>8 DEF TypeOK
  <2> QED
    BY <1>2, <2>4, <2>5, <2>8, <2>9, ArtifactStep
<1> QED
  BY <1>4, <1>5 DEF PutProof
\* An instance is asked for the mandate, and takes it in.
LEMMA EvaluateStep ==
  ASSUME ResolutionInv, NEW c \in Call, Evaluate(c)
  PROVE  ResolutionInv'
<1> DEFINE r == call[c].remedy
           copy(j) == IF known[j][r] # NoMandate THEN known[j][r] ELSE mandates[r]
<1>1. call[c].pc = "evaluate" /\ call[c].pc \in PortPC /\ call[c].pc \in PastAction
      /\ call[c].pc \in PastProof
  BY DEF Evaluate, PortPC, PastAction, PastProof
<1>2. UNCHANGED <<trigger, row, mandates, claims, artifacts, issued, local, held,
                  writes, asked, paid, requests, restarts>>
  BY DEF Evaluate, durable, gateway, bounds
<1>3. PICK j \in Instance : /\ copy(j).status = "ACTIVE"
                           /\ known' = [known EXCEPT ![j][r] = copy(j)]
  BY DEF Evaluate
<1>4. TypeOK /\ r \in Remedy /\ mandates[r] # NoMandate
  BY <1>1, PortFacts
<1>5. copy(j) \in Mandate
  BY <1>4 DEF TypeOK
<1>6. PICK m \in Mandate : m.status = "ACTIVE" /\ known' = [known EXCEPT ![j][r] = m]
  <2> HIDE DEF copy
  <2> QED
    BY <1>3, <1>5
<1>7. m # NoMandate /\ PaidIfConsumed(r, m)
  BY <1>6, MandateTypes DEF PaidIfConsumed
<1>8. /\ known' \in [Instance -> [Remedy -> Mandate]] /\ known'[j][r] = m
      /\ \A k \in Instance, q \in Remedy : known'[k][q] = known[k][q] \/ (k = j /\ q = r)
  <2>1. TypeOK /\ r \in Remedy /\ known' = [known EXCEPT ![j][r] = m]
    BY <1>4, <1>6
  <2> HIDE DEF r
  <2> QED
    BY <2>1, CopyUpdate
<1>9. Grows
  BY <1>2 DEF Grows
<1>10. call' \in [Call -> Calls] /\ OnlyMoves(c) /\ CallNext(call'[c])
  <2>1. "binding" \in PC /\ "binding" \notin Settled
    BY DEF PC, PaymentPC, PortPC, Settled
  <2>2. known'[call[c].at][r] # NoMandate
    BY <1>1, <1>4, <1>7, <1>8, PortFacts
  <2>3. PaidNext(r, call[c].copy) /\ CallIsSound(call[c])
    BY <1>1, <1>9, PortFacts, Kept, CallFacts
  <2>4. /\ artifacts'[r].action = call[c].copy.issue
        /\ artifacts'[r].proof = call[c].copy.status
    BY <1>1, <1>2, <2>3 DEF CallIsSound
  <2>5. mandates'[r] # NoMandate /\ claims'[r] # "NONE" /\ Goto(c, "binding")
    BY <1>1, <1>2, PortFacts DEF Evaluate
  <2> QED
    BY <1>1, <1>9, <2>1, <2>2, <2>3, <2>4, <2>5, PortFacts, GoesOn
<1>11. TypeOK'
  BY <1>2, <1>4, <1>8, <1>10 DEF TypeOK
<1>12. /\ \A k \in Instance : LocalNext(local'[k])
       /\ \A w \in writes' : RowNext(w.row)
  BY <1>2, <1>9, OldRows
<1> QED
  BY <1>2, <1>4, <1>6, <1>7, <1>10, <1>11, <1>12, CopyStep

\* An instance is asked for the case and the remedy, and may hydrate.
LEMMA EvaluateBindingStep ==
  ASSUME ResolutionInv, NEW c \in Call, EvaluateBinding(c)
  PROVE  ResolutionInv'
<1> DEFINE r == call[c].remedy
           h(j) == IF local[j].case # "NONE" THEN local[j] ELSE Hydrated(local[j], row)
<1>1. call[c].pc = "binding" /\ call[c].pc \in PortPC /\ call[c].pc \in PastAction
      /\ call[c].pc \in PastProof
  BY DEF EvaluateBinding, PortPC, PastAction, PastProof
<1>2. UNCHANGED <<trigger, row, mandates, claims, artifacts, issued, known, held,
                  writes, asked, paid, requests, restarts>>
  BY DEF EvaluateBinding, durable, gateway, bounds
<1>3. PICK j \in Instance : local' = [local EXCEPT ![j] = h(j)]
  BY DEF EvaluateBinding
<1>4. TypeOK /\ r \in Remedy /\ row \in Row /\ local[j] \in Local
  BY <1>1, PortFacts DEF TypeOK
<1>5. Grows
  BY <1>2 DEF Grows
<1>6. h(j) \in Local /\ LocalNext(h(j))
  BY <1>4, <1>5, OldRows, HydratedSound
<1> HIDE DEF h
<1>7. /\ local' \in [Instance -> Local] /\ local'[j] = h(j)
      /\ \A k \in Instance \ {j} : local'[k] = local[k]
  BY <1>3, <1>4, <1>6, MemoryUpdate
<1>8. call' \in [Call -> Calls] /\ OnlyMoves(c) /\ CallNext(call'[c])
  <2>1. "commit" \in PC /\ "commit" \notin Settled
    BY DEF PC, PaymentPC, PortPC, Settled
  <2>2. PaidNext(r, call[c].copy) /\ CallIsSound(call[c])
    BY <1>1, <1>5, PortFacts, Kept, CallFacts
  <2>3. /\ artifacts'[r].action = call[c].copy.issue
        /\ artifacts'[r].proof = call[c].copy.status
    BY <1>1, <1>2, <2>2 DEF CallIsSound
  <2>4. known'[call[c].at][r] # NoMandate /\ mandates'[r] # NoMandate /\ claims'[r] # "NONE"
        /\ Goto(c, "commit")
    BY <1>1, <1>2, PortFacts DEF EvaluateBinding
  <2> QED
    BY <1>1, <1>5, <2>1, <2>2, <2>3, <2>4, PortFacts, GoesOn
<1>9. TypeOK'
  BY <1>2, <1>4, <1>7, <1>8 DEF TypeOK
<1>10. \A w \in writes' : RowNext(w.row)
  BY <1>2, <1>5, OldRows
<1> QED
  BY <1>2, <1>6, <1>7, <1>8, <1>9, <1>10, LocalStep

\* The gateway is asked, with a copy that is the mandate of the artifacts.
LEMMA AskStep ==
  ASSUME ResolutionInv, NEW c \in Call, AskGateway(c)
  PROVE  ResolutionInv'
<1> DEFINE r == call[c].remedy
           m == call[c].copy
           a == [remedy |-> r, issue |-> m.issue, status |-> m.status]
<1>1. call[c].pc = "commit" /\ call[c].pc \in PortPC /\ call[c].pc \in PastAction
      /\ call[c].pc \in PastProof
  BY DEF AskGateway, PortPC, PastAction, PastProof
<1>2. UNCHANGED <<trigger, row, mandates, claims, artifacts, issued, local, known, held,
                  writes, requests, restarts>>
  BY DEF AskGateway, durable, memory, bounds
<1>3. TypeOK /\ r \in Remedy /\ m.issue \in Nat \ {0} /\ m.status \in {"ACTIVE", "CONSUMED"}
      /\ claims[r] # "NONE" /\ CallIsSound(call[c])
  BY <1>1, PortFacts, CallFacts
<1>4. artifacts[r].action = m.issue /\ artifacts[r].proof = "ACTIVE" /\ m.status = "ACTIVE"
  <2>1. artifacts[r].action = m.issue /\ artifacts[r].proof = m.status
    BY <1>1, <1>3 DEF CallIsSound
  <2>2. artifacts[r].proof # "CONSUMED"
    BY <1>3 DEF ResolutionInv, ArtifactsAgree
  <2> QED
    BY <1>3, <2>1, <2>2
<1>5. /\ asked' = asked \cup {a}
      /\ \/ paid' = paid \cup {r} /\ Goto(c, "paid")
         \/ paid' \in {paid, paid \cup {r}} /\ Goto(c, "release")
  BY DEF AskGateway, Ask, MayBePaid
<1>6. a \in Asked /\ a.remedy = r /\ a.issue = m.issue /\ a.status = m.status
  BY <1>3 DEF Asked
<1> HIDE DEF a
<1>7. asked' \subseteq Asked /\ paid' \subseteq Remedy
  BY <1>3, <1>5, <1>6 DEF TypeOK
<1>8. Grows /\ \A i \in Instance : Remembers(i)
  BY <1>2, <1>5 DEF Grows, Remembers
<1>9. call' \in [Call -> Calls] /\ OnlyMoves(c) /\ CallNext(call'[c])
  <2>1. CASE Goto(c, "release")
    BY <1>1, <1>8, <2>1, ToRelease
  <2>2. CASE paid' = paid \cup {r} /\ Goto(c, "paid")
    <3>1. "paid" \in PC /\ "paid" \notin HasCopy \cup PastAction \cup PastProof
      BY DEF PC, PaymentPC, PortPC, HasCopy, PastAction, PastProof
    <3>2. PaidNext(r, m)
      BY <1>1, <1>8, PortFacts, Kept
    <3>3. known'[call[c].at][r] # NoMandate /\ claims'[r] # "NONE" /\ r \in paid'
      BY <1>1, <1>2, <2>2, PortFacts
    <3> QED
      BY <1>1, <1>8, <2>2, <3>1, <3>2, <3>3, PortFacts, GoesOn
  <2> QED
    BY <1>5, <2>1, <2>2
<1>10. TypeOK'
  BY <1>2, <1>3, <1>7, <1>9 DEF TypeOK
<1>11. PaymentsAreClaimed'
  <2>1. \A q \in Remedy : q \in paid' => q \in paid \/ q = r
    BY <1>5
  <2> QED
    BY <1>2, <1>3, <1>4, <1>8, <2>1
    DEF ResolutionInv, PaymentsAreClaimed, PaidIfConsumed, Grows
<1>12. CopiesAreStored'
  BY <1>2 DEF ResolutionInv, CopiesAreStored
<1>13. ArtifactsAgree'
  BY <1>2, <1>4, <1>5, <1>6 DEF ResolutionInv, ArtifactsAgree
<1> QED
  BY <1>2, <1>8, <1>9, <1>10, <1>11, <1>12, <1>13, StoreStep

\* A success is observed: the case may go on to its verification.
LEMMA ObserveStep ==
  ASSUME ResolutionInv, NEW c \in Call, ObserveSuccess(c)
  PROVE  ResolutionInv'
<1> DEFINE i == call[c].at
           r == call[c].remedy
           n == local[i].attempts + 1
           to == IF n > MaxAttempts THEN "ESCALATED" ELSE "VERIFYING_REMEDY"
           p == PlanOf(local[i])
           rows == {RowOf(to, p)}
           m == [status |-> "CONSUMED", issue |-> known[i][r].issue]
           moved == [local[i] EXCEPT !.attempts = n, !.case = to]
           counted == [local[i] EXCEPT !.attempts = n]
<1>1. call[c].pc = "paid" /\ call[c].pc \notin {"idle", "flushing"} /\ TypeOK
      /\ i \in Instance /\ r \in Remedy /\ CallIsSound(call[c]) /\ local[i] \in Local
  BY CallFacts DEF ObserveSuccess, NeedsRemedy, PaymentPC, Here
<1>2. UNCHANGED <<trigger, row, mandates, claims, artifacts, issued, known, held,
                  asked, paid, requests, restarts>>
  BY DEF ObserveSuccess, durable, gateway, bounds
<1>3. Grows /\ LocalNext(local[i])
  BY <1>1, <1>2, OldRows DEF Grows
<1>4. /\ r \in paid /\ known[i][r] # NoMandate /\ claims[r] # "NONE"
      /\ known[i][r] \in Mandate /\ mandates[r] # NoMandate
  BY <1>1 DEF CallIsSound, PaymentPC, PastClaim, Settled, TypeOK, ResolutionInv,
     CopiesAreStored
<1>5. m \in Mandate /\ m # NoMandate /\ m.status = "CONSUMED"
  <2>1. known[i][r].issue \in Nat \ {0}
    BY <1>4, MandateTypes
  <2> QED
    BY <2>1, MandateTypes
<1>6. n \in Nat /\ p \in Plan /\ PlanNext(p)
  BY <1>1, <1>3, LocalTypes DEF LocalNext
<1>7. to \in CaseState /\ StateNext(to)
  BY <1>2, <1>4, StatesAreStates DEF StateNext
<1>8. \/ End(c) /\ UNCHANGED <<local, writes>>
      \/ /\ local' = [local EXCEPT ![i] = moved]
         /\ Persist(c, rows)
         /\ call' = [call EXCEPT ![c].pc = "consume", ![c].copy = m]
      \/ /\ local' = [local EXCEPT ![i] = counted]
         /\ Goto(c, "flush")
         /\ UNCHANGED writes
      \/ Goto(c, "flush") /\ UNCHANGED <<local, writes>>
  BY DEF ObserveSuccess, Here, Knows
<1> HIDE DEF n, to, p, m
<1>9. /\ moved \in Local /\ moved.case = to
      /\ moved.plan = local[i].plan /\ moved.carried = local[i].carried
      /\ counted \in Local /\ counted.case = local[i].case
      /\ counted.plan = local[i].plan /\ counted.carried = local[i].carried
  BY <1>1, <1>6, <1>7 DEF Local
<1>10. LocalNext(moved) /\ LocalNext(counted)
  BY <1>3, <1>7, <1>9 DEF LocalNext
<1>11. rows \in SUBSET Row /\ \A x \in rows : RowNext(x)
  <2>1. RowOf(to, p) \in Row /\ RowNext(RowOf(to, p))
    BY <1>6, <1>7, RowTypes DEF RowNext
  <2> QED
    BY <2>1
<1> HIDE DEF moved, counted, rows
<1>12. /\ local' \in [Instance -> Local] /\ LocalNext(local'[i])
       /\ \A j \in Instance \ {i} : local'[j] = local[j]
  <2>1. CASE UNCHANGED local
    BY <1>1, <1>3, <2>1 DEF TypeOK
  <2>2. CASE local' = [local EXCEPT ![i] = moved]
    BY <1>1, <1>9, <1>10, <2>2, MemoryUpdate
  <2>3. CASE local' = [local EXCEPT ![i] = counted]
    BY <1>1, <1>9, <1>10, <2>3, MemoryUpdate
  <2> QED
    BY <1>8, <2>1, <2>2, <2>3
<1>13. writes' \subseteq Write /\ \A w \in writes' : RowNext(w.row)
  BY <1>1, <1>3, <1>8, <1>11, WritesGrow
<1>14. call' \in [Call -> Calls] /\ OnlyMoves(c) /\ CallNext(call'[c])
  <2>1. CASE call' = [call EXCEPT ![c].pc = "consume", ![c].copy = m]
    <3>1. /\ "consume" \in PC
          /\ "consume" \notin PastAction \cup PastProof
      BY DEF PC, PaymentPC, PortPC, PastAction, PastProof
    <3>2. PaidNext(r, m) /\ mandates'[r] # NoMandate /\ known'[i][r] # NoMandate
          /\ claims'[r] # "NONE" /\ r \in paid'
      BY <1>2, <1>4 DEF PaidNext
    <3> QED
      BY <1>1, <1>3, <1>5, <2>1, <3>1, <3>2, GoesOn
  <2>2. CASE End(c) \/ Goto(c, "flush")
    BY <1>1, <1>3, <2>2, EndMoves, GotoEasy DEF Easy
  <2> QED
    BY <1>8, <2>1, <2>2
<1>15. TypeOK'
  BY <1>1, <1>2, <1>12, <1>13, <1>14 DEF TypeOK
<1> QED
  BY <1>1, <1>2, <1>12, <1>13, <1>14, <1>15, LocalStep

\* The mandate is marked as consumed in the store...
LEMMA ConsumeStep ==
  ASSUME ResolutionInv, NEW c \in Call, ConsumeMandate(c)
  PROVE  ResolutionInv'
<1> DEFINE i == call[c].at
           r == call[c].remedy
           m == call[c].copy
<1>1. call[c].pc = "consume" /\ call[c].pc \notin {"idle", "flushing"} /\ TypeOK
      /\ i \in Instance /\ r \in Remedy /\ m \in Mandate /\ CallIsSound(call[c])
  BY CallFacts DEF ConsumeMandate, NeedsRemedy, PaymentPC
<1>2. UNCHANGED <<trigger, row, claims, artifacts, issued, local, known, held, writes,
                  asked, paid, requests, restarts>>
  BY DEF ConsumeMandate, memory, gateway, bounds
<1>3. m # NoMandate /\ r \in paid /\ known[i][r] # NoMandate /\ claims[r] # "NONE"
  BY <1>1 DEF CallIsSound, HasCopy, Settled, PaymentPC, PastClaim
<1>4. /\ mandates' \in [Remedy -> Mandate] /\ mandates'[r] = m
      /\ \A q \in Remedy \ {r} : mandates'[q] = mandates[q]
  BY <1>1 DEF ConsumeMandate, TypeOK
<1>5. Grows /\ \A j \in Instance : Remembers(j)
  BY <1>2, <1>3, <1>4 DEF Grows, Remembers
<1>6. call' \in [Call -> Calls] /\ OnlyMoves(c) /\ CallNext(call'[c])
  <2>1. "consumed" \in PC /\ "consumed" \notin PastAction \cup PastProof
    BY DEF PC, PaymentPC, PortPC, PastAction, PastProof
  <2>2. PaidNext(r, m) /\ mandates'[r] # NoMandate /\ known'[i][r] # NoMandate
        /\ claims'[r] # "NONE" /\ r \in paid' /\ Goto(c, "consumed")
    BY <1>2, <1>3, <1>4 DEF PaidNext, ConsumeMandate
  <2> QED
    BY <1>1, <1>3, <1>5, <2>1, <2>2, GoesOn
<1>7. TypeOK'
  BY <1>1, <1>2, <1>4, <1>6 DEF TypeOK
<1>8. PaymentsAreClaimed'
  BY <1>2, <1>3, <1>4 DEF ResolutionInv, PaymentsAreClaimed, PaidIfConsumed
<1>9. CopiesAreStored'
  BY <1>2, <1>5 DEF ResolutionInv, CopiesAreStored, Grows
<1>10. ArtifactsAgree'
  BY <1>2 DEF ResolutionInv, ArtifactsAgree
<1> QED
  BY <1>2, <1>5, <1>6, <1>7, <1>8, <1>9, <1>10, StoreStep

\* ...and then in memory.
LEMMA ConsumedStep ==
  ASSUME ResolutionInv, NEW c \in Call, MandateConsumed(c)
  PROVE  ResolutionInv'
<1> DEFINE i == call[c].at
           r == call[c].remedy
           m == call[c].copy
<1>1. call[c].pc = "consumed" /\ call[c].pc \notin {"idle", "flushing"} /\ TypeOK
      /\ i \in Instance /\ r \in Remedy /\ m \in Mandate /\ CallIsSound(call[c])
  BY CallFacts DEF MandateConsumed, NeedsRemedy, PaymentPC
<1>2. UNCHANGED <<trigger, row, mandates, claims, artifacts, issued, local, held, writes,
                  asked, paid, requests, restarts>>
      /\ known' = [known EXCEPT ![i][r] = m] /\ Goto(c, "flush")
  BY DEF MandateConsumed, durable, gateway, bounds
<1>3. m # NoMandate /\ mandates[r] # NoMandate /\ PaidIfConsumed(r, m)
  BY <1>1 DEF CallIsSound, HasCopy
<1>4. Grows
  BY <1>2 DEF Grows
<1>5. call' \in [Call -> Calls] /\ OnlyMoves(c) /\ CallNext(call'[c])
  BY <1>1, <1>2, <1>4, GotoEasy DEF Easy
<1>6. TypeOK'
  BY <1>1, <1>2, <1>5, CopyUpdate DEF TypeOK
<1>7. /\ \A j \in Instance : LocalNext(local'[j])
      /\ \A w \in writes' : RowNext(w.row)
  BY <1>2, <1>4, OldRows
<1> QED
  BY <1>1, <1>2, <1>3, <1>5, <1>6, <1>7, CopyStep

\* The claim is released, wherever it is kept.
LEMMA ReleaseStep ==
  ASSUME ResolutionInv, NEW c \in Call, ReleaseClaim(c)
  PROVE  ResolutionInv'
<1> DEFINE i == call[c].at
           r == call[c].remedy
<1>1. call[c].pc = "release" /\ call[c].pc \notin {"idle", "flushing"} /\ TypeOK
      /\ i \in Instance /\ r \in Remedy /\ CallIsSound(call[c])
  BY CallFacts DEF ReleaseClaim, NeedsRemedy, PaymentPC
<1>2. UNCHANGED <<trigger, row, mandates, artifacts, issued, local, known, writes,
                  asked, paid, requests, restarts>>
  BY DEF ReleaseClaim, gateway, bounds
<1>3. /\ claims' \in [Remedy -> ClaimStatus] /\ claims'[r] # "NONE"
      /\ \A q \in Remedy : claims[q] # "NONE" => claims'[q] # "NONE"
  BY <1>1 DEF ReleaseClaim, TypeOK, ClaimStatus
<1>4. /\ held' \in [Instance -> [Remedy -> ClaimStatus]]
      /\ \A j \in Instance, q \in Remedy : held'[j][q] = held[j][q] \/ q = r
  BY <1>1 DEF ReleaseClaim, TypeOK, ClaimStatus
<1>5. Grows /\ \A j \in Instance : Remembers(j)
  BY <1>2, <1>3 DEF Grows, Remembers
<1>6. call' \in [Call -> Calls] /\ OnlyMoves(c) /\ CallNext(call'[c])
  BY <1>1, <1>5, GotoEasy DEF ReleaseClaim, Easy
<1>7. TypeOK'
  BY <1>1, <1>2, <1>3, <1>4, <1>6 DEF TypeOK
<1>8. PaymentsAreClaimed'
  BY <1>2, <1>3 DEF ResolutionInv, PaymentsAreClaimed, PaidIfConsumed
<1>9. CopiesAreStored'
  BY <1>2, <1>3, <1>4 DEF ResolutionInv, CopiesAreStored
<1>10. ArtifactsAgree'
  BY <1>2 DEF ResolutionInv, ArtifactsAgree
<1> QED
  BY <1>2, <1>5, <1>6, <1>7, <1>8, <1>9, <1>10, StoreStep
----------------------------------------------------------------------------
(* Arrivals, writes that land, instances that are recycled.                *)

\* A request that arrives at an instance has the remedy it needs and nothing
\* else but, perhaps, the row it has read.
LEMMA ArriveSound ==
  ASSUME ResolutionInv, Grows, NEW n \in Calls, n.at \in Instance,
         n.pc \in Kind \cup {"hydrate", "existing", "insert"}, n.seen \in {NoRow, row},
         n.pc \in {"issue", "execute"} => n.remedy \in Remedy,
         n.pc = "hydrate" /\ n.kind \in {"issue", "execute"} => n.remedy \in Remedy,
         n.copy = NoMandate, n.then = "idle"
  PROVE  CallNext(n)
<1>1. RowNext(row) /\ RowNext(NoRow)
  BY OldRows, RowTypes, StatesAreStates DEF RowNext, StateNext, PlanNext
<1>2. n.pc \notin {"idle"} \cup HasCopy \cup PaymentPC \cup PastClaim \cup PastAction
                       \cup PastProof \cup Settled
  BY DEF HasCopy, PaymentPC, PortPC, PastClaim, PastAction, PastProof, Settled, Kind
<1>3. NeedsRemedy(n) => n.remedy \in Remedy
  BY <1>2 DEF NeedsRemedy, Kind
<1>4. PaidNext(n.remedy, n.copy)
  BY MandateTypes DEF PaidNext
<1> QED
  BY <1>1, <1>2, <1>3, <1>4 DEF CallNext

\* An outcome event is delivered.
LEMMA DeliverStep ==
  ASSUME ResolutionInv, NEW c \in Call, NEW i \in Instance, Deliver(c, i)
  PROVE  ResolutionInv'
<1> DEFINE seen == local[i].knows \/ trigger
           pc == IF seen THEN "existing" ELSE "insert"
           n == [Idle EXCEPT !.pc = pc, !.at = i]
           l == [local[i] EXCEPT !.knows = seen]
<1>1. TypeOK /\ local[i] \in Local /\ seen \in BOOLEAN
  BY DEF ResolutionInv, TypeOK, Local
<1>2. UNCHANGED <<trigger, row, mandates, claims, artifacts, issued, known, held, writes,
                  asked, paid, restarts>> /\ requests' \in Nat
  BY <1>1 DEF Deliver, durable, gateway, Arriving, TypeOK
<1>3. Grows
  BY <1>2 DEF Grows
<1>4. /\ call' = [call EXCEPT ![c] = n]
      /\ local' = [local EXCEPT ![i] = l]
  BY DEF Deliver
<1>5. n \in Calls /\ CallNext(n)
  <2>1. pc \in {"existing", "insert"}
    OBVIOUS
  <2> HIDE DEF pc
  <2>2. pc \in PC
    BY <2>1 DEF PC, OpenPC
  <2>3. /\ n \in Calls /\ n.pc = pc /\ n.at = i /\ n.copy = NoMandate
        /\ n.seen = NoRow /\ n.then = "idle"
    BY <2>2, IdleTypes DEF Calls
  <2>4. n.pc \notin {"issue", "execute", "hydrate"}
    BY <2>1, <2>3
  <2> HIDE DEF n
  <2> QED
    BY <1>3, <2>1, <2>3, <2>4, ArriveSound
<1>6. l \in Local /\ l.case = local[i].case /\ l.plan = local[i].plan
      /\ l.carried = local[i].carried
  BY <1>1 DEF Local
<1>7. LocalNext(local[i]) /\ \A w \in writes' : RowNext(w.row)
  BY <1>2, <1>3, OldRows
<1>8. LocalNext(l)
  BY <1>6, <1>7 DEF LocalNext
<1> HIDE DEF n, l
<1>9. call' \in [Call -> Calls] /\ OnlyMoves(c) /\ call'[c] = n
  BY <1>1, <1>4, <1>5, CallUpdate
<1>10. /\ local' \in [Instance -> Local] /\ local'[i] = l
       /\ \A j \in Instance \ {i} : local'[j] = local[j]
  BY <1>1, <1>4, <1>6, MemoryUpdate
<1>11. TypeOK'
  BY <1>1, <1>2, <1>9, <1>10 DEF TypeOK
<1> QED
  BY <1>2, <1>5, <1>7, <1>8, <1>9, <1>10, <1>11, LocalStep

\* A route is called.
LEMMA RequestStep ==
  ASSUME ResolutionInv, NEW c \in Call, NEW i \in Instance, NEW k \in Kind,
         NEW r \in Remedy \cup {None}, Request(c, i, k, r)
  PROVE  ResolutionInv'
<1> DEFINE got == [Idle EXCEPT !.at = i, !.remedy = r]
           here == [got EXCEPT !.pc = k]
           gone == [got EXCEPT !.pc = "hydrate", !.kind = k, !.seen = row]
<1>1. TypeOK
  BY DEF ResolutionInv
<1>2. UNCHANGED <<trigger, row, mandates, claims, artifacts, issued, local, known, held,
                  writes, asked, paid, restarts>> /\ requests' \in Nat
  BY <1>1 DEF Request, durable, memory, gateway, Arriving, TypeOK
<1>3. Grows
  BY <1>2 DEF Grows
<1>4. k \in {"issue", "execute"} => r \in Remedy
  BY DEF Request
<1>5. call' = [call EXCEPT ![c] = here] \/ call' = [call EXCEPT ![c] = gone]
  BY DEF Request
<1>6. here \in Calls /\ CallNext(here) /\ gone \in Calls /\ CallNext(gone)
  <2>1. k \in PC /\ "hydrate" \in PC /\ row \in Row
    BY <1>1 DEF PC, Kind, TypeOK
  <2>2. got \in Calls /\ got.at = i /\ got.remedy = r /\ got.copy = NoMandate
        /\ got.seen = NoRow /\ got.then = "idle"
    BY IdleTypes DEF Calls
  <2> HIDE DEF got
  <2>3. /\ here \in Calls /\ here.pc = k /\ here.at = i /\ here.remedy = r
        /\ here.copy = NoMandate /\ here.seen = NoRow /\ here.then = "idle"
    BY <2>1, <2>2 DEF Calls
  <2>4. /\ gone \in Calls /\ gone.pc = "hydrate" /\ gone.kind = k /\ gone.at = i
        /\ gone.remedy = r /\ gone.copy = NoMandate /\ gone.seen = row
        /\ gone.then = "idle"
    BY <2>1, <2>2 DEF Calls
  <2> HIDE DEF here, gone
  <2>5. CallNext(here)
    BY <1>3, <1>4, <2>3, ArriveSound DEF Kind
  <2>6. CallNext(gone)
    BY <1>3, <1>4, <2>4, ArriveSound DEF Kind
  <2> QED
    BY <2>3, <2>4, <2>5, <2>6
<1> HIDE DEF here, gone
<1>7. call' \in [Call -> Calls] /\ OnlyMoves(c) /\ CallNext(call'[c])
  BY <1>1, <1>5, <1>6, CallUpdate
<1>8. TypeOK'
  BY <1>1, <1>2, <1>7 DEF TypeOK
<1>9. \A w \in writes' : RowNext(w.row)
  BY <1>2, <1>3, OldRows
<1> QED
  BY <1>2, <1>7, <1>8, <1>9, PlainStep

\* A write of the row lands.
LEMMA LandStep ==
  ASSUME ResolutionInv, NEW w \in writes, Land(w)
  PROVE  ResolutionInv'
<1>1. UNCHANGED <<trigger, mandates, claims, artifacts, issued, local, known, held, call,
                  asked, paid, requests, restarts>>
      /\ row' = w.row /\ writes' \subseteq writes
  BY DEF Land, memory, gateway, bounds
<1>2. /\ Grows /\ \A i \in Instance : Remembers(i)
      /\ PaymentsAreClaimed' /\ CopiesAreStored' /\ ArtifactsAgree'
  BY <1>1, StoresStay
<1>3. RowsAreSound'
  BY <1>1, <1>2, OldRows, RowsPrimed
<1>4. TypeOK'
  BY <1>1 DEF ResolutionInv, TypeOK, Write
<1>5. \A c \in Call : CallIsSound(call[c])'
  <2> SUFFICES ASSUME NEW c \in Call PROVE CallIsSound(call[c])'
    OBVIOUS
  <2>1. call[c] \in Calls /\ CallIsSound(call[c])
    BY DEF ResolutionInv, TypeOK
  <2>2. call[c].pc \in PaymentPC => Remembers(call[c].at)
    BY <1>2, <2>1, PlacesNeed DEF CallIsSound
  <2>3. CallNext(call'[c])
    BY <1>1, <1>2, <2>1, <2>2, CallStays
  <2> QED
    BY <2>3, CallPrimed
<1> QED
  BY <1>2, <1>3, <1>4, <1>5 DEF ResolutionInv

\* An instance is recycled: its memory, its calls and its writes are gone.
LEMMA RestartStep ==
  ASSUME ResolutionInv, NEW i \in Instance, Restart(i)
  PROVE  ResolutionInv'
<1> DEFINE empty == [r \in Remedy |-> NoMandate]
           free == [r \in Remedy |-> "NONE"]
<1>1. TypeOK
  BY DEF ResolutionInv
<1>2. UNCHANGED <<trigger, row, mandates, claims, artifacts, issued, asked, paid, requests>>
      /\ restarts' \in Nat /\ writes' \subseteq writes
  BY <1>1 DEF Restart, durable, gateway, TypeOK
<1>3. /\ local' \in [Instance -> Local] /\ local'[i] = NoLocal
      /\ \A j \in Instance \ {i} : local'[j] = local[j]
  <2>1. local' = [local EXCEPT ![i] = NoLocal]
    BY DEF Restart
  <2> QED
    BY <1>1, <2>1, LocalTypes, MemoryUpdate
<1>4. /\ known' \in [Instance -> [Remedy -> Mandate]] /\ known'[i] = empty
      /\ \A j \in Instance \ {i} : known'[j] = known[j]
  BY <1>1, MandateTypes DEF Restart, TypeOK
<1>5. /\ held' \in [Instance -> [Remedy -> ClaimStatus]] /\ held'[i] = free
      /\ \A j \in Instance \ {i} : held'[j] = held[j]
  BY <1>1 DEF Restart, TypeOK, ClaimStatus
<1>6. \A c \in Call : /\ call'[c] = Idle \/ (call[c].at # i /\ call'[c] = call[c])
                      /\ call'[c] \in Calls
  BY <1>1, IdleTypes DEF Restart, TypeOK
<1>7. call' \in [Call -> Calls]
  BY <1>6 DEF Restart
<1>8. Grows /\ \A j \in Instance \ {i} : Remembers(j)
  BY <1>2, <1>4 DEF Grows, Remembers
<1>9. TypeOK'
  BY <1>1, <1>2, <1>3, <1>4, <1>5, <1>7 DEF TypeOK
<1>10. PaymentsAreClaimed'
  BY <1>2, <1>4, MandateTypes DEF ResolutionInv, PaymentsAreClaimed, PaidIfConsumed
<1>11. CopiesAreStored'
  BY <1>2, <1>4, <1>5 DEF ResolutionInv, CopiesAreStored
<1>12. ArtifactsAgree'
  BY <1>2 DEF ResolutionInv, ArtifactsAgree
<1>13. RowsAreSound'
  <2>1. LocalNext(NoLocal)
    BY LocalTypes, RowTypes, StatesAreStates DEF LocalNext, StateNext, PlanNext
  <2> QED
    BY <1>2, <1>3, <1>8, <2>1, OldRows, RowsPrimed
<1>14. \A c \in Call : CallIsSound(call[c])'
  <2> SUFFICES ASSUME NEW c \in Call PROVE CallIsSound(call[c])'
    OBVIOUS
  <2>1. CASE call'[c] = Idle
    BY <2>1, IdleNext, CallPrimed
  <2>2. CASE call[c].at # i /\ call'[c] = call[c]
    <3>1. call[c] \in Calls /\ CallIsSound(call[c])
      BY DEF ResolutionInv, TypeOK
    <3>2. call[c].pc \in PaymentPC => Remembers(call[c].at)
      BY <1>8, <2>2, <3>1, PlacesNeed DEF CallIsSound
    <3>3. CallNext(call'[c])
      BY <1>8, <2>2, <3>1, <3>2, CallStays
    <3> QED
      BY <3>3, CallPrimed
  <2> QED
    BY <1>6, <2>1, <2>2
<1> QED
  BY <1>9, <1>10, <1>11, <1>12, <1>13, <1>14 DEF ResolutionInv

----------------------------------------------------------------------------
(* The theorems.                                                           *)

\* At first nothing is stored, held or under way.
LEMMA InitSound == Init => ResolutionInv
<1> SUFFICES ASSUME Init PROVE ResolutionInv
  OBVIOUS
<1>1. /\ \A c \in Call : call[c] = Idle
      /\ \A i \in Instance : local[i] = NoLocal
      /\ \A i \in Instance, r \in Remedy : known[i][r] = NoMandate /\ held[i][r] = "NONE"
      /\ row = NoRow /\ writes = {} /\ asked = {} /\ paid = {}
      /\ \A r \in Remedy : mandates[r] = NoMandate /\ artifacts[r] = NoArtifacts
  BY DEF Init, Started
<1>2. TypeOK
  <2>1. NoArtifacts \in Artifacts
    BY DEF NoArtifacts, Artifacts
  <2> QED
    BY <2>1, IdleTypes, LocalTypes, RowTypes, MandateTypes
    DEF Init, Started, TypeOK, ClaimStatus
<1>3. PaymentsAreClaimed /\ CopiesAreStored
  BY <1>1, MandateTypes DEF PaymentsAreClaimed, PaidIfConsumed, CopiesAreStored
<1>4. RowsAreSound
  BY <1>1, LocalTypes, RowTypes, StatesAreStates
  DEF RowsAreSound, SoundRow, SoundLocal, Sound, Backed
<1>5. ArtifactsAgree
  BY <1>1 DEF ArtifactsAgree, NoArtifacts
<1>6. CallIsSound(Idle)
  <2>1. ~NeedsRemedy(Idle)
    BY IdleTypes DEF NeedsRemedy, PaymentPC, PortPC
  <2>2. Idle.pc \notin HasCopy \cup PaymentPC \cup PastClaim \cup PastAction \cup PastProof
                         \cup Settled
    BY <2>1, PlacesNeed
  <2>3. SoundRow(NoRow) /\ Idle.remedy \notin Remedy
    BY IdleTypes, RowTypes, StatesAreStates, ResolutionAssumption
    DEF SoundRow, Sound, Backed
  <2> QED
    BY <2>1, <2>2, <2>3, IdleTypes DEF CallIsSound
<1> QED
  BY <1>1, <1>2, <1>3, <1>4, <1>5, <1>6 DEF ResolutionInv

\* Every step keeps the invariant.
LEMMA NextKeepsSound ==
  ASSUME ResolutionInv, [Next]_vars
  PROVE  ResolutionInv'
<1>1. CASE UNCHANGED vars
  <2>1. UNCHANGED <<trigger, row, mandates, claims, artifacts, issued, local, known, held,
                    writes, call, asked, paid, requests, restarts>>
    BY <1>1 DEF vars, durable, memory, gateway, bounds
  <2> QED
    BY <2>1 DEF ResolutionInv, TypeOK, PaymentsAreClaimed, PaidIfConsumed, CopiesAreStored,
       RowsAreSound, SoundRow, SoundLocal, Sound, Backed, ArtifactsAgree, CallIsSound
<1>2. CASE \E c \in Call : Arrive(c)
  BY <1>2, DeliverStep, RequestStep DEF Arrive
<1>3. CASE \E c \in Call : Open(c)
  BY <1>3, LookStep, MoveStep, TakeStep, PutCaseStep, OpenedStep DEF Open
<1>4. CASE \E c \in Call : Prepare(c)
  BY <1>4, HydrateStep, MoveStep, PlanRemediesStep, IssueStep, MandateIssuedStep,
     GetMandateStep, FetchedStep, FlushStep, FlushedStep, VerifyStep DEF Prepare
<1>5. CASE \E c \in Call : Execute(c)
  BY <1>5, StartStep, MoveStep, ClaimStep, StubStep, ObserveStep, ConsumeStep,
     ConsumedStep, ReleaseStep DEF Execute
<1>6. CASE \E c \in Call : Port(c)
  BY <1>6, PutActionStep, PutProofStep, EvaluateStep, EvaluateBindingStep, AskStep,
     PortFailsStep DEF Port
<1>7. CASE \E w \in writes : Land(w)
  BY <1>7, LandStep
<1>8. CASE \E i \in Instance : Restart(i)
  BY <1>8, RestartStep
<1> QED
  BY <1>1, <1>2, <1>3, <1>4, <1>5, <1>6, <1>7, <1>8 DEF Next

\* What is remembered of mandates and claims is stored, a proof rests on an
\* action and on an active mandate, a request of the port works with the
\* artifacts of its own copy, and no row is verified before a payment
\* (remedy-pipeline.ts, remedy-execution-port.ts): the inductive invariant.
THEOREM ResolutionInvariant == Spec => []ResolutionInv
<1>1. ResolutionInv /\ [Next]_vars => ResolutionInv'
  BY NextKeepsSound
<1> QED
  BY InitSound, <1>1, PTL DEF Spec

\* Every variable keeps its type.
THEOREM TypeInvariant == Spec => []TypeOK
<1>1. ResolutionInv => TypeOK
  BY DEF ResolutionInv
<1> QED
  BY ResolutionInvariant, <1>1, PTL

\* However often the mandate of a remedy is issued again, over one that is
\* executed, in doubt or consumed, the gateway is asked to pay under one
\* issue of it only, and an active one: the artifacts of the first attempt
\* stay, and every later attempt has to repeat them.
THEOREM OneIssue == Spec => []OneIssuePays
<1>1. ResolutionInv => OneIssuePays
  BY DEF ResolutionInv, ArtifactsAgree, OneIssuePays
<1> QED
  BY ResolutionInvariant, <1>1, PTL

\* Neither in the store nor in a write under way nor in the memory of an
\* instance is the case verified or resolved before a remedy was paid for.
THEOREM ResolvedPaid == Spec => []ResolvedOnlyPaid
<1>1. ResolutionInv => ResolvedOnlyPaid
  BY DEF ResolutionInv, ResolvedOnlyPaid, RowsAreSound, SoundRow, SoundLocal, Sound
<1> QED
  BY ResolutionInvariant, <1>1, PTL

\* A mandate that is consumed, stored or remembered, stands for a payment,
\* and a payment for a claim and an active proof that were stored before it.
THEOREM PaymentsClaimed == Spec => []PaymentsAreClaimed
<1>1. ResolutionInv => PaymentsAreClaimed
  BY DEF ResolutionInv
<1> QED
  BY ResolutionInvariant, <1>1, PTL

\* Whatever the order in which rows land, instances restart and mandates are
\* issued again, a remedy is bound only to a mandate that is stored.
THEOREM MandatesExist == Spec => []BoundMandatesExist
<1>1. ResolutionInv => BoundMandatesExist
  BY DEF ResolutionInv, BoundMandatesExist, RowsAreSound, SoundRow, SoundLocal
<1> QED
  BY ResolutionInvariant, <1>1, PTL
=============================================================================
