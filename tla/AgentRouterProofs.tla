--------------------------- MODULE AgentRouterProofs ---------------------------
(***************************************************************************)
(* The safety properties of AgentRouter for every set of runs, providers,  *)
(* tools, tokens, costs and thresholds.                                    *)
(***************************************************************************)
EXTENDS AgentRouter, TLAPS

(* BreakersConsistent for one breaker. *)
Consistent(b) ==
  /\ b.state = "closed" => b.failures < FailureThreshold
  /\ b.state = "open" => b.failures > 0

LEMMA Counters ==
  /\ 0 \in 0..FailureThreshold /\ 0 < FailureThreshold
  /\ FailureThreshold \in 0..FailureThreshold
  /\ 0 \in 0..HalfOpenMaxCalls
BY BreakerAssumption

(* Every uninterrupted stretch of a method keeps the breaker's type and    *)
(* consistency, whatever the breaker was when it began.  The count of      *)
(* probes is bounded because call checks it before it counts.              *)
LEMMA NewBreakerSound ==
  NewBreaker \in Breaker /\ Consistent(NewBreaker)
BY Counters DEF NewBreaker, Breaker, Consistent

LEMMA HalfOpenSound ==
  ASSUME NEW b \in Breaker, Consistent(b)
  PROVE  HalfOpened(b) \in Breaker /\ Consistent(HalfOpened(b))
<1> DEFINE h == [b EXCEPT !.state = "half_open", !.probes = 0]
<1>1. h \in Breaker /\ h.state = "half_open"
  BY Counters DEF Breaker
<1>2. CASE b.cooled
  <2>1. HalfOpened(b) = h
    BY <1>2 DEF HalfOpened
  <2> HIDE DEF h
  <2> QED
    BY <1>1, <2>1 DEF Consistent
<1>3. CASE ~b.cooled
  BY <1>3 DEF HalfOpened
<1> QED
  BY <1>2, <1>3

LEMMA AdmittedSound ==
  ASSUME NEW b \in Breaker, Consistent(b), ~Rejects(b)
  PROVE  Admitted(b) \in Breaker /\ Consistent(Admitted(b))
<1> DEFINE h == [b EXCEPT !.probes = @ + 1]
<1>1. CASE b.state = "half_open"
  <2>1. b.probes + 1 \in 0..HalfOpenMaxCalls
    BY <1>1, BreakerAssumption DEF Rejects, Breaker
  <2>2. h \in Breaker /\ h.state = b.state /\ h.failures = b.failures
    BY <2>1 DEF Breaker
  <2>3. Admitted(b) = h
    BY <1>1 DEF Admitted
  <2> HIDE DEF h
  <2> QED
    BY <2>2, <2>3 DEF Consistent
<1>2. CASE b.state # "half_open"
  BY <1>2 DEF Admitted
<1> QED
  BY <1>1, <1>2

LEMMA SuccessSound ==
  ASSUME NEW b \in Breaker
  PROVE  OnSuccess(b) \in Breaker /\ Consistent(OnSuccess(b))
<1> DEFINE h == [b EXCEPT !.state = "closed", !.failures = 0, !.probes = 0]
<1>1. h \in Breaker /\ h.state = "closed" /\ h.failures = 0
  BY Counters DEF Breaker
<1> HIDE DEF h
<1> QED
  BY <1>1, Counters DEF OnSuccess, Consistent, h

LEMMA FailureSound ==
  ASSUME NEW b \in Breaker
  PROVE  OnFailure(b) \in Breaker /\ Consistent(OnFailure(b))
<1> DEFINE n == IF b.failures < FailureThreshold THEN b.failures + 1
                                                 ELSE FailureThreshold
           opened == [b EXCEPT !.failures = n, !.state = "open"]
           counted == [b EXCEPT !.failures = n]
<1>1. /\ n \in 0..FailureThreshold /\ n > 0
      /\ ~Opens(b) => n < FailureThreshold
  BY BreakerAssumption DEF Breaker, Opens
<1>2. CASE Opens(b)
  <2>1. OnFailure(b) = opened
    BY <1>2 DEF OnFailure
  <2> HIDE DEF n
  <2>2. opened \in Breaker /\ opened.state = "open" /\ opened.failures = n
    BY <1>1 DEF Breaker
  <2> HIDE DEF opened
  <2> QED
    BY <1>1, <2>1, <2>2 DEF Consistent
<1>3. CASE ~Opens(b)
  <2>1. OnFailure(b) = counted
    BY <1>3 DEF OnFailure
  <2> HIDE DEF n
  <2>2. counted \in Breaker /\ counted.failures = n
    BY <1>1 DEF Breaker
  <2> HIDE DEF counted
  <2> QED
    BY <1>1, <1>3, <2>1, <2>2 DEF Consistent
<1> QED
  BY <1>2, <1>3

LEMMA StampedSound ==
  ASSUME NEW b \in Breaker, Consistent(b)
  PROVE  Stamped(b) \in Breaker /\ Consistent(Stamped(b))
<1> DEFINE h == [b EXCEPT !.cooled = FALSE]
<1>1. h \in Breaker /\ h.state = b.state /\ h.failures = b.failures
  BY DEF Breaker
<1>2. Stamped(b) = h
  BY DEF Stamped
<1> HIDE DEF h
<1> QED
  BY <1>1, <1>2 DEF Consistent

LEMMA CooledSound ==
  ASSUME NEW b \in Breaker, Consistent(b)
  PROVE  Cooled(b) \in Breaker /\ Consistent(Cooled(b))
<1> DEFINE h == [b EXCEPT !.cooled = TRUE]
<1>1. h \in Breaker /\ h.state = b.state /\ h.failures = b.failures
  BY DEF Breaker
<1>2. Cooled(b) = h
  BY DEF Cooled
<1> HIDE DEF h
<1> QED
  BY <1>1, <1>2 DEF Consistent

-----------------------------------------------------------------------------
(* The properties of one run and of one call, as the invariant has them.   *)
Flagged(s) ==
  /\ s.http402 => s.spent > Cap
  /\ s.spent > Cap => s.http402 \/ s.spent \in Resumed
  /\ s.status = "budget_exceeded" => s.http402

Confirmed(s, c) ==
  /\ s.confirmed \subseteq Verified
  /\ c.tool # Nil /\ c.tool \in Destructive => s.confirmed # {}

(* Every run, call and breaker is sound by itself: no property needs more  *)
(* than what one dispatch leaves behind, whatever the others do meanwhile. *)
IInv ==
  /\ TypeOK
  /\ \A r \in Runs : Flagged(run[r]) /\ Confirmed(run[r], call[r])
  /\ \A p \in Providers : Consistent(breaker[p])

LEMMA InitIInv == Init => IInv
<1> SUFFICES ASSUME Init PROVE IInv
  OBVIOUS
<1>1. \A r \in Runs : run[r] \in Run /\ Flagged(run[r])
                      /\ run[r].confirmed = {}
  <2> DEFINE s0(s) == [status |-> "running", spent |-> s, http402 |-> FALSE,
                       pending |-> Nil, queued |-> {}, confirmed |-> {}]
  <2> SUFFICES ASSUME NEW s \in Resumed
               PROVE  s0(s) \in Run /\ Flagged(s0(s)) /\ s0(s).confirmed = {}
    BY DEF Init
  <2>1. s \in 0..MaxSpend
    BY RouterAssumption
  <2> QED
    BY <2>1 DEF Run, Flagged
<1>2. run \in [Runs -> Run]
  BY <1>1 DEF Init
<1>3. NoCall \in Call
  BY DEF NoCall, Call
<1>4. call \in [Runs -> Call] /\ \A r \in Runs : call[r].tool = Nil
  BY <1>3 DEF Init, NoCall
<1>5. breaker \in [Providers -> Breaker]
      /\ \A p \in Providers : Consistent(breaker[p])
  BY NewBreakerSound DEF Init
<1>6. ticket \in [Tickets -> {"none", "pending", "approved", "denied"}]
  BY DEF Init
<1> QED
  BY <1>1, <1>2, <1>4, <1>5, <1>6 DEF IInv, TypeOK, Confirmed

-----------------------------------------------------------------------------
(* What the parts of a dispatch do to a run. *)
LEMMA TripSound ==
  ASSUME NEW s \in Run, s.spent > Cap
  PROVE  /\ Trip(s) \in Run /\ Flagged(Trip(s))
         /\ Trip(s).confirmed = s.confirmed
BY DEF Trip, Run, Flagged

LEMMA ConfirmSound ==
  ASSUME NEW r \in Runs, NEW q \in Request, NEW s \in Run, Flagged(s),
         s.confirmed \subseteq Verified, Gate(r, q) = "dispatch"
  PROVE  /\ Confirm(s, q) \in Run /\ Flagged(Confirm(s, q))
         /\ Confirm(s, q).confirmed \subseteq Verified
         /\ s.confirmed \subseteq Confirm(s, q).confirmed
         /\ q.tool \in Destructive => Confirm(s, q).confirmed # {}
<1>1. CASE q.tool \in Destructive /\ q.evidence # Nil
  <2> DEFINE c == [s EXCEPT !.confirmed = @ \cup {q.evidence}]
  <2>1. q.evidence \in Verified
    BY <1>1 DEF Gate
  <2>2. /\ c \in Run /\ c.confirmed = s.confirmed \cup {q.evidence}
        /\ c.http402 = s.http402 /\ c.spent = s.spent /\ c.status = s.status
    BY <2>1, RouterAssumption DEF Run
  <2>3. Confirm(s, q) = c
    BY <1>1 DEF Confirm
  <2> HIDE DEF c
  <2> QED
    BY <2>1, <2>2, <2>3 DEF Flagged
<1>2. CASE ~(q.tool \in Destructive /\ q.evidence # Nil)
  <2>1. q.tool \notin Destructive
    BY <1>2 DEF Gate
  <2> QED
    BY <1>2, <2>1 DEF Confirm
<1> QED
  BY <1>1, <1>2

LEMMA QueueSound ==
  ASSUME NEW s \in Run, Flagged(s), NEW tool \in Tools
  PROVE  /\ Queue(s, tool) \in Run /\ Flagged(Queue(s, tool))
         /\ Queue(s, tool).confirmed = s.confirmed
<1> DEFINE c == [s EXCEPT !.status = "degraded", !.queued = @ \cup {tool}]
<1>1. /\ c \in Run /\ c.confirmed = s.confirmed /\ c.http402 = s.http402
      /\ c.spent = s.spent /\ c.status = "degraded"
  BY DEF Run
<1>2. Queue(s, tool) = c
  BY DEF Queue
<1> HIDE DEF c
<1> QED
  BY <1>1, <1>2 DEF Flagged

-----------------------------------------------------------------------------
(* A step changes one run, its call and perhaps breakers and tickets. *)
TicketsTyped == ticket \in [Tickets -> {"none", "pending", "approved", "denied"}]

BreakersSound ==
  /\ breaker \in [Providers -> Breaker]
  /\ \A p \in Providers : Consistent(breaker[p])

LEMMA OneRun ==
  ASSUME IInv, NEW r \in Runs,
         NEW s, s \in Run, Flagged(s), NEW c, c \in Call, Confirmed(s, c),
         run' = [run EXCEPT ![r] = s], call' = [call EXCEPT ![r] = c],
         TicketsTyped', BreakersSound'
  PROVE  IInv'
<1>1. run' \in [Runs -> Run] /\ call' \in [Runs -> Call]
  BY DEF IInv, TypeOK
<1>2. ASSUME NEW q \in Runs
      PROVE  Flagged(run[q])' /\ Confirmed(run[q], call[q])'
  <2>1. CASE q = r
    <3>1. run'[q] = s /\ call'[q] = c
      BY <2>1 DEF IInv, TypeOK
    <3> QED
      BY <3>1 DEF Flagged, Confirmed
  <2>2. CASE q # r
    <3>1. run'[q] = run[q] /\ call'[q] = call[q]
      BY <2>2 DEF IInv, TypeOK
    <3> QED
      BY <3>1 DEF IInv, Flagged, Confirmed
  <2> QED
    BY <2>1, <2>2
<1> QED
  BY <1>1, <1>2 DEF IInv, TypeOK, TicketsTyped, BreakersSound

LEMMA OneBreaker ==
  ASSUME IInv, NEW p \in Providers, NEW b, b \in Breaker, Consistent(b),
         breaker' = [breaker EXCEPT ![p] = b]
  PROVE  BreakersSound'
<1>1. breaker' \in [Providers -> Breaker]
  BY DEF IInv, TypeOK
<1>2. ASSUME NEW q \in Providers PROVE Consistent(breaker[q])'
  <2>1. CASE q = p
    <3>1. breaker'[q] = b
      BY <2>1 DEF IInv, TypeOK
    <3> QED
      BY <3>1 DEF Consistent
  <2>2. CASE q # p
    <3>1. breaker'[q] = breaker[q]
      BY <2>2 DEF IInv, TypeOK
    <3> QED
      BY <3>1 DEF IInv, Consistent
  <2> QED
    BY <2>1, <2>2
<1> QED
  BY <1>1, <1>2 DEF BreakersSound

(* What a step leaves alone stays sound. *)
LEMMA Kept ==
  ASSUME IInv
  PROVE  /\ UNCHANGED ticket => TicketsTyped'
         /\ UNCHANGED breaker => BreakersSound'
         /\ UNCHANGED call =>
              \A r \in Runs : call' = [call EXCEPT ![r] = call[r]]
         /\ UNCHANGED run =>
              \A r \in Runs : run' = [run EXCEPT ![r] = run[r]]
<1>1. UNCHANGED breaker => BreakersSound'
  BY DEF IInv, TypeOK, BreakersSound, Consistent
<1> QED
  BY <1>1 DEF IInv, TypeOK, TicketsTyped

LEMMA AtRun ==
  ASSUME IInv, NEW r \in Runs
  PROVE  /\ run[r] \in Run /\ Flagged(run[r]) /\ call[r] \in Call
         /\ Confirmed(run[r], call[r]) /\ run[r].confirmed \subseteq Verified
BY DEF IInv, TypeOK, Confirmed

LEMMA AtBreaker ==
  ASSUME IInv, NEW p \in Providers
  PROVE  breaker[p] \in Breaker /\ Consistent(breaker[p])
BY DEF IInv, TypeOK

-----------------------------------------------------------------------------
LEMMA ChargeIInv ==
  ASSUME IInv, NEW r \in Runs, NEW c \in Costs, Charge(r, c)
  PROVE  IInv'
<1> DEFINE s == [run[r] EXCEPT !.spent = @ + c]
           t == IF Over(s.spent) THEN Trip(s) ELSE s
<1>1. run[r] \in Run /\ Confirmed(run[r], call[r]) /\ call[r] \in Call
  BY AtRun
<1>2. run[r].spent \in Nat /\ run[r].spent + c \in Nat /\ c \in Nat
  BY <1>1, RouterAssumption DEF Run
<1>3. s.spent = run[r].spent + c /\ s.confirmed = run[r].confirmed
      /\ s.status = run[r].status /\ s.http402 = run[r].http402
  BY <1>1 DEF Run
<1>4. s \in Run
  <2>1. run[r].spent + c \in 0..MaxSpend
    BY <1>2, <1>3, RouterAssumption DEF Charge
  <2> QED
    BY <1>1, <2>1 DEF Run
<1>5. run' = [run EXCEPT ![r] = t] /\ UNCHANGED <<call, ticket, breaker>>
  BY DEF Charge
<1>6. t \in Run /\ Flagged(t) /\ t.confirmed = run[r].confirmed
  <2>1. CASE Over(s.spent)
    <3> HIDE DEF s
    <3>1. t = Trip(s) /\ s.spent > Cap
      BY <2>1 DEF Over
    <3> QED
      BY <1>3, <1>4, <3>1, TripSound
  <2>2. CASE ~Over(s.spent)
    <3>1. run[r].status # "budget_exceeded" /\ Flagged(run[r])
      BY AtRun DEF Charge
    <3>2. ~(s.spent > Cap) /\ ~run[r].http402
      BY <1>2, <1>3, <2>2, <3>1, RouterAssumption DEF Over, Flagged
    <3> HIDE DEF s
    <3>3. t = s
      BY <2>2
    <3> QED
      BY <1>3, <1>4, <3>1, <3>2, <3>3 DEF Flagged
  <2> QED
    BY <2>1, <2>2
<1> HIDE DEF t
<1>7. Confirmed(t, call[r])
  BY <1>1, <1>6 DEF Confirmed
<1> QED
  BY <1>1, <1>5, <1>6, <1>7, Kept, OneRun

LEMMA StoppedIInv ==
  ASSUME IInv, NEW r \in Runs, Stopped(r)
  PROVE  IInv'
<1>1. run[r] \in Run /\ Confirmed(run[r], call[r]) /\ call[r] \in Call
  BY AtRun
<1>2. run[r].spent > Cap
  BY AtRun DEF Stopped, Tripped, Flagged
<1>3. /\ Trip(run[r]) \in Run /\ Flagged(Trip(run[r]))
      /\ Trip(run[r]).confirmed = run[r].confirmed
  BY <1>1, <1>2, TripSound
<1>4. Confirmed(Trip(run[r]), call[r])
  BY <1>1, <1>3 DEF Confirmed
<1>5. run' = [run EXCEPT ![r] = Trip(run[r])]
      /\ UNCHANGED <<call, ticket, breaker>>
  BY DEF Stopped
<1> QED
  BY <1>1, <1>3, <1>4, <1>5, Kept, OneRun

(* The early returns change the status and what a pause or a queue needs. *)
LEMMA Returned ==
  ASSUME IInv, NEW r \in Runs, ~Tripped(run[r]), NEW s, s \in Run,
         s.spent = run[r].spent, s.http402 = run[r].http402,
         s.confirmed = run[r].confirmed, s.status # "budget_exceeded",
         run' = [run EXCEPT ![r] = s], UNCHANGED <<call, breaker>>,
         TicketsTyped'
  PROVE  IInv'
<1>1. Confirmed(run[r], call[r]) /\ call[r] \in Call /\ Flagged(run[r])
  BY AtRun
<1>2. Flagged(s) /\ Confirmed(s, call[r])
  BY <1>1 DEF Flagged, Confirmed, Tripped
<1> QED
  BY <1>1, <1>2, Kept, OneRun

LEMMA BlockedIInv ==
  ASSUME IInv, NEW r \in Runs, ~Tripped(run[r]), NEW q \in Request,
         Blocked(r, q)
  PROVE  IInv'
<1> DEFINE s == [run[r] EXCEPT !.status = "failed"]
<1>1. /\ s \in Run /\ s.spent = run[r].spent /\ s.http402 = run[r].http402
      /\ s.confirmed = run[r].confirmed /\ s.status # "budget_exceeded"
  BY AtRun DEF Run
<1>2. run' = [run EXCEPT ![r] = s] /\ UNCHANGED <<call, ticket, breaker>>
  BY DEF Blocked
<1> HIDE DEF s
<1> QED
  BY <1>1, <1>2, Kept, Returned

LEMMA PausedIInv ==
  ASSUME IInv, NEW r \in Runs, ~Tripped(run[r]), NEW q \in Request,
         Paused(r, q)
  PROVE  IInv'
<1> PICK t \in Tickets :
      /\ ticket' = [ticket EXCEPT ![t] = "pending"]
      /\ run' = [run EXCEPT ![r].status = "awaiting_hitl", ![r].pending = t]
  BY DEF Paused
<1> DEFINE s == [run[r] EXCEPT !.status = "awaiting_hitl", !.pending = t]
<1>1. /\ s \in Run /\ s.spent = run[r].spent /\ s.http402 = run[r].http402
      /\ s.confirmed = run[r].confirmed /\ s.status # "budget_exceeded"
  BY AtRun DEF Run
<1>2. run' = [run EXCEPT ![r] = s] /\ UNCHANGED <<call, breaker>>
  BY DEF Paused, IInv, TypeOK
<1>3. TicketsTyped'
  BY DEF IInv, TypeOK, TicketsTyped
<1> HIDE DEF s
<1> QED
  BY <1>1, <1>2, <1>3, Returned

LEMMA DegradedIInv ==
  ASSUME IInv, NEW r \in Runs, ~Tripped(run[r]), NEW q \in Request,
         Degraded(r, q)
  PROVE  IInv'
<1> DEFINE u == IF Handler \/ q.tool \in ReadOnly
                THEN run[r].queued ELSE run[r].queued \cup {q.tool}
           s == [run[r] EXCEPT !.status = "degraded", !.queued = u]
<1>1. run[r] \in Run /\ u \in SUBSET Tools
  BY AtRun DEF Run, Request
<1>2. run' = [run EXCEPT ![r] = s] /\ UNCHANGED <<call, ticket, breaker>>
  BY DEF Degraded, IInv, TypeOK
<1> HIDE DEF u
<1>3. /\ s \in Run /\ s.spent = run[r].spent /\ s.http402 = run[r].http402
      /\ s.confirmed = run[r].confirmed /\ s.status # "budget_exceeded"
  BY <1>1 DEF Run
<1> HIDE DEF s
<1> QED
  BY <1>2, <1>3, Kept, Returned

(* What the gate lets through to the breaker is confirmed. *)
LEMMA Passed ==
  ASSUME IInv, NEW r \in Runs, NEW q \in Request, Gate(r, q) = "dispatch"
  PROVE  /\ q.tool \in Tools /\ q.provider \in Providers
         /\ Confirm(run[r], q) \in Run /\ Flagged(Confirm(run[r], q))
         /\ Confirm(run[r], q).confirmed \subseteq Verified
         /\ run[r].confirmed \subseteq Confirm(run[r], q).confirmed
         /\ \A end \in {"waking", "running"} :
              /\ Started(q, end) \in Call
              /\ Confirmed(Confirm(run[r], q), Started(q, end))
<1>1. q.tool \in Tools /\ q.provider \in Providers
  BY DEF Request
<1> DEFINE s == Confirm(run[r], q)
<1>2. /\ s \in Run /\ Flagged(s) /\ s.confirmed \subseteq Verified
      /\ run[r].confirmed \subseteq s.confirmed
      /\ q.tool \in Destructive => s.confirmed # {}
  BY AtRun, ConfirmSound
<1> HIDE DEF s
<1>3. ASSUME NEW end \in {"waking", "running"}
      PROVE  Started(q, end) \in Call /\ Confirmed(s, Started(q, end))
  <2>1. Started(q, end) \in Call /\ Started(q, end).tool = q.tool
    BY <1>1 DEF Call, Started
  <2> QED
    BY <1>2, <2>1 DEF Confirmed
<1> QED
  BY <1>1, <1>2, <1>3 DEF s

LEMMA CircuitRejectsIInv ==
  ASSUME IInv, NEW r \in Runs, NEW q \in Request, CircuitRejects(r, q)
  PROVE  IInv'
<1> DEFINE c == Confirm(run[r], q)
           s == Queue(c, q.tool)
<1>1. /\ q.tool \in Tools /\ c \in Run /\ Flagged(c)
      /\ c.confirmed \subseteq Verified
      /\ run[r].confirmed \subseteq c.confirmed
  BY Passed DEF CircuitRejects
<1>2. run' = [run EXCEPT ![r] = s] /\ UNCHANGED <<call, ticket, breaker>>
  BY DEF CircuitRejects
<1> HIDE DEF c
<1>3. s \in Run /\ Flagged(s) /\ s.confirmed = c.confirmed
  BY <1>1, QueueSound
<1> HIDE DEF s
<1>4. Confirmed(s, call[r]) /\ call[r] \in Call
  BY <1>1, <1>3, AtRun DEF Confirmed
<1> QED
  BY <1>2, <1>3, <1>4, Kept, OneRun

LEMMA InvokeIInv ==
  ASSUME IInv, NEW r \in Runs, NEW q \in Request, Invoke(r, q)
  PROVE  IInv'
<1> DEFINE s == Confirm(run[r], q)
           b == breaker[q.provider]
           c == Started(q, "running")
<1>1. /\ q.provider \in Providers /\ s \in Run /\ Flagged(s)
      /\ c \in Call /\ Confirmed(s, c)
  BY Passed DEF Invoke
<1>2. b \in Breaker /\ Consistent(b) /\ ~Rejects(b)
  BY <1>1, AtBreaker DEF Invoke
<1>3. /\ run' = [run EXCEPT ![r] = s] /\ call' = [call EXCEPT ![r] = c]
      /\ breaker' = [breaker EXCEPT ![q.provider] = Admitted(b)]
      /\ UNCHANGED ticket
  BY DEF Invoke
<1> HIDE DEF s, b, c
<1>4. Admitted(b) \in Breaker /\ Consistent(Admitted(b))
  BY <1>2, AdmittedSound
<1>5. BreakersSound'
  BY <1>1, <1>3, <1>4, OneBreaker
<1> QED
  BY <1>1, <1>3, <1>5, Kept, OneRun

LEMMA FindsOpenIInv ==
  ASSUME IInv, NEW r \in Runs, NEW q \in Request, FindsOpen(r, q)
  PROVE  IInv'
<1> DEFINE s == Confirm(run[r], q)
           c == Started(q, "waking")
<1>1. s \in Run /\ Flagged(s) /\ c \in Call /\ Confirmed(s, c)
  BY Passed DEF FindsOpen
<1>2. /\ run' = [run EXCEPT ![r] = s] /\ call' = [call EXCEPT ![r] = c]
      /\ UNCHANGED <<ticket, breaker>>
  BY DEF FindsOpen
<1> HIDE DEF s, c
<1> QED
  BY <1>1, <1>2, Kept, OneRun

LEMMA DispatchIInv ==
  ASSUME IInv, NEW r \in Runs, Dispatch(r)
  PROVE  IInv'
<1>1. CASE Stopped(r)
  BY <1>1, StoppedIInv
<1>2. ASSUME ~Tripped(run[r]), NEW q \in Request,
             Blocked(r, q) \/ Paused(r, q) \/ Degraded(r, q)
               \/ CircuitRejects(r, q) \/ Invoke(r, q) \/ FindsOpen(r, q)
      PROVE  IInv'
  BY <1>2, BlockedIInv, PausedIInv, DegradedIInv, CircuitRejectsIInv,
     InvokeIInv, FindsOpenIInv
<1> QED
  BY <1>1, <1>2 DEF Dispatch, DispatchAmong

-----------------------------------------------------------------------------
(* The timeout and the end of the tool function change the call alone. *)
LEMMA CallIInv ==
  ASSUME IInv, NEW r \in Runs, NEW c, c \in Call, c.tool = call[r].tool,
         call' = [call EXCEPT ![r] = c], UNCHANGED <<run, ticket, breaker>>
  PROVE  IInv'
<1>1. run[r] \in Run /\ Flagged(run[r]) /\ Confirmed(run[r], c)
  BY AtRun DEF Confirmed
<1> QED
  BY <1>1, Kept, OneRun

LEMMA TimerFiresIInv ==
  ASSUME IInv, NEW r \in Runs, TimerFires(r)
  PROVE  IInv'
<1> DEFINE c == [call[r] EXCEPT !.late = TRUE]
<1>1. c \in Call /\ c.tool = call[r].tool
  BY AtRun DEF Call
<1>2. call' = [call EXCEPT ![r] = c] /\ UNCHANGED <<run, ticket, breaker>>
  BY DEF TimerFires
<1> HIDE DEF c
<1> QED
  BY <1>1, <1>2, CallIInv

LEMMA FnEndsIInv ==
  ASSUME IInv, NEW r \in Runs,
         NEW how \in {"ok", "error", "timeout"} \cup Escapes, FnEnds(r, how)
  PROVE  IInv'
<1> DEFINE c == [call[r] EXCEPT !.end = how]
<1>1. c \in Call /\ c.tool = call[r].tool
  BY AtRun DEF Call
<1>2. call' = [call EXCEPT ![r] = c] /\ UNCHANGED <<run, ticket, breaker>>
  BY DEF FnEnds
<1> HIDE DEF c
<1> QED
  BY <1>1, <1>2, CallIInv

(* A breaker that a step puts a sound one in the place of.  The breaker    *)
(* methods are sound for the provider of any call under way.               *)
LEMMA BreakerStep ==
  ASSUME IInv, NEW p, NEW b, breaker' = [breaker EXCEPT ![p] = b],
         p \in Providers => b \in Breaker /\ Consistent(b)
  PROVE  BreakersSound'
<1>1. CASE p \in Providers
  BY <1>1, OneBreaker
<1>2. CASE p \notin Providers
  <2>1. breaker' = breaker
    BY <1>2 DEF IInv, TypeOK
  <2> QED
    BY <2>1, Kept
<1> QED
  BY <1>1, <1>2

(* A call is over: what its run becomes keeps the confirmations. *)
LEMMA CallOver ==
  ASSUME IInv, NEW r \in Runs, NEW s, s \in Run, Flagged(s),
         s.confirmed = run[r].confirmed, run' = [run EXCEPT ![r] = s],
         call' = [call EXCEPT ![r] = NoCall], UNCHANGED ticket, BreakersSound'
  PROVE  IInv'
<1>1. NoCall \in Call
  BY DEF NoCall, Call
<1>2. Confirmed(s, NoCall)
  BY AtRun DEF Confirmed, NoCall
<1> QED
  BY <1>1, <1>2, Kept, OneRun

(* What a call under way is, and what its status may become. *)
LEMMA UnderWay ==
  ASSUME IInv, NEW r \in Runs, Busy(r)
  PROVE  /\ call[r].tool \in Tools
         /\ run[r] \in Run /\ Flagged(run[r])
         /\ \A st \in {run[r].status, "failed"} :
              /\ [run[r] EXCEPT !.status = st] \in Run
              /\ Flagged([run[r] EXCEPT !.status = st])
              /\ [run[r] EXCEPT !.status = st].confirmed = run[r].confirmed
<1>1. call[r].tool \in Tools /\ run[r] \in Run /\ Flagged(run[r])
  BY AtRun DEF Busy, Call
<1>2. ASSUME NEW st \in {run[r].status, "failed"}
      PROVE  /\ [run[r] EXCEPT !.status = st] \in Run
             /\ Flagged([run[r] EXCEPT !.status = st])
             /\ [run[r] EXCEPT !.status = st].confirmed = run[r].confirmed
  <2> DEFINE s == [run[r] EXCEPT !.status = st]
  <2>1. /\ s \in Run /\ s.status = st /\ s.confirmed = run[r].confirmed
        /\ s.http402 = run[r].http402 /\ s.spent = run[r].spent
    BY <1>1 DEF Run
  <2> HIDE DEF s
  <2>2. Flagged(s)
    BY <1>1, <2>1 DEF Flagged
  <2> QED
    BY <2>1, <2>2 DEF s
<1> QED
  BY <1>1, <1>2

LEMMA WakeIInv ==
  ASSUME IInv, NEW r \in Runs, Wake(r)
  PROVE  IInv'
<1> DEFINE p == call[r].provider
           b == HalfOpened(breaker[p])
<1>1. /\ call[r].tool \in Tools /\ run[r] \in Run /\ Flagged(run[r])
      /\ UNCHANGED ticket
  BY UnderWay DEF Wake
<1>2. p \in Providers => b \in Breaker /\ Consistent(b)
  BY AtBreaker, HalfOpenSound
<1>3. CASE StillRejected(r)
  <2> DEFINE s == Queue(run[r], call[r].tool)
  <2>1. s \in Run /\ Flagged(s) /\ s.confirmed = run[r].confirmed
    BY <1>1, QueueSound
  <2>2. /\ run' = [run EXCEPT ![r] = s] /\ call' = [call EXCEPT ![r] = NoCall]
        /\ breaker' = [breaker EXCEPT ![p] = b]
    BY <1>3 DEF StillRejected
  <2> HIDE DEF s, b, p
  <2>3. BreakersSound'
    BY <1>2, <2>2, BreakerStep
  <2> QED
    BY <1>1, <2>1, <2>2, <2>3, CallOver
<1>4. CASE NowInvoked(r)
  <2> DEFINE c == [call[r] EXCEPT !.end = "running"]
  <2>1. c \in Call /\ Confirmed(run[r], c)
    <3>1. c \in Call /\ c.tool = call[r].tool
      BY AtRun DEF Call
    <3> HIDE DEF c
    <3> QED
      BY <3>1, AtRun DEF Confirmed
  <2>2. /\ ~Rejects(b) /\ UNCHANGED run /\ call' = [call EXCEPT ![r] = c]
        /\ breaker' = [breaker EXCEPT ![p] = Admitted(b)]
    BY <1>4 DEF NowInvoked
  <2> HIDE DEF c, b, p
  <2>3. p \in Providers => Admitted(b) \in Breaker /\ Consistent(Admitted(b))
    BY <1>2, <2>2, AdmittedSound
  <2>4. BreakersSound'
    BY <2>2, <2>3, BreakerStep
  <2> QED
    BY <1>1, <2>1, <2>2, <2>4, Kept, OneRun
<1> QED
  BY <1>3, <1>4 DEF Wake

LEMMA OpenBreakerIInv ==
  ASSUME IInv, NEW r \in Runs, OpenBreaker(r)
  PROVE  IInv'
<1> DEFINE p == call[r].provider
           b == OnFailure(breaker[p])
           c == [call[r] EXCEPT !.end = "opened", !.late = TimedOut(r)]
<1>1. c \in Call /\ Confirmed(run[r], c) /\ run[r] \in Run /\ Flagged(run[r])
  <2>1. TimedOut(r) \in BOOLEAN
    BY AtRun DEF TimedOut, Call
  <2>2. c \in Call /\ c.tool = call[r].tool
    BY <2>1, AtRun DEF Call
  <2> HIDE DEF c
  <2> QED
    BY <2>2, AtRun DEF Confirmed
<1>2. /\ UNCHANGED <<run, ticket>> /\ call' = [call EXCEPT ![r] = c]
      /\ breaker' = [breaker EXCEPT ![p] = b]
  BY DEF OpenBreaker
<1>3. p \in Providers => b \in Breaker /\ Consistent(b)
  BY AtBreaker, FailureSound
<1> HIDE DEF c, b, p
<1>4. BreakersSound'
  BY <1>2, <1>3, BreakerStep
<1> QED
  BY <1>1, <1>2, <1>4, Kept, OneRun

LEMMA FinishIInv ==
  ASSUME IInv, NEW r \in Runs, Finish(r)
  PROVE  IInv'
<1> DEFINE p == call[r].provider
<1>1. Busy(r)
  BY DEF Finish, Ended, RaiseOpened
<1>2. /\ run[r] \in Run /\ Flagged(run[r]) /\ call[r].tool \in Tools
      /\ call' = [call EXCEPT ![r] = NoCall] /\ UNCHANGED ticket
  BY <1>1, UnderWay DEF Finish
<1>3. p \in Providers =>
        /\ OnSuccess(breaker[p]) \in Breaker /\ Consistent(OnSuccess(breaker[p]))
        /\ OnFailure(breaker[p]) \in Breaker /\ Consistent(OnFailure(breaker[p]))
        /\ Stamped(breaker[p]) \in Breaker /\ Consistent(Stamped(breaker[p]))
  BY AtBreaker, SuccessSound, FailureSound, StampedSound
<1>4. ASSUME UNCHANGED run, BreakersSound'
      PROVE  IInv'
  BY <1>2, <1>4, CallOver, Kept
<1>5. ASSUME NEW st \in {run[r].status, "failed"},
             run' = [run EXCEPT ![r].status = st], BreakersSound'
      PROVE  IInv'
  <2> DEFINE s == [run[r] EXCEPT !.status = st]
  <2>1. s \in Run /\ Flagged(s) /\ s.confirmed = run[r].confirmed
    BY <1>1, UnderWay
  <2>2. run' = [run EXCEPT ![r] = s]
    BY <1>5 DEF IInv, TypeOK
  <2> HIDE DEF s
  <2> QED
    BY <1>2, <1>5, <2>1, <2>2, CallOver
<1>6. CASE Return(r)
  <2>1. breaker' = [breaker EXCEPT ![p] = OnSuccess(breaker[p])] /\ UNCHANGED run
    BY <1>6 DEF Return
  <2> QED
    BY <1>3, <1>4, <2>1, BreakerStep
<1>7. CASE RaiseError(r)
  <2>1. breaker' = [breaker EXCEPT ![p] = OnFailure(breaker[p])] /\ UNCHANGED run
    BY <1>7 DEF RaiseError
  <2> QED
    BY <1>3, <1>4, <2>1, BreakerStep
<1>8. CASE RaiseTimeout(r)
  <2>1. /\ breaker' = [breaker EXCEPT ![p] = OnFailure(breaker[p])]
        /\ run' = [run EXCEPT ![r].status = "failed"]
    BY <1>8 DEF RaiseTimeout
  <2>2. BreakersSound'
    BY <1>3, <2>1, BreakerStep
  <2> QED
    BY <1>5, <2>1, <2>2
<1>9. CASE RaiseCircuitOpen(r)
  <2> DEFINE s == Queue(run[r], call[r].tool)
  <2>1. s \in Run /\ Flagged(s) /\ s.confirmed = run[r].confirmed
    BY <1>2, QueueSound
  <2>2. run' = [run EXCEPT ![r] = s] /\ UNCHANGED breaker
    BY <1>9 DEF RaiseCircuitOpen
  <2> HIDE DEF s
  <2> QED
    BY <1>2, <2>1, <2>2, CallOver, Kept
<1>10. CASE RaiseInterrupt(r)
  BY <1>4, <1>10, Kept DEF RaiseInterrupt
<1>11. CASE RaiseOpened(r)
  <2> DEFINE st == IF call[r].late THEN "failed" ELSE run[r].status
  <2>1. /\ breaker' = [breaker EXCEPT ![p] = Stamped(breaker[p])]
        /\ run' = [run EXCEPT ![r].status = st]
    BY <1>11 DEF RaiseOpened
  <2>2. BreakersSound'
    BY <1>3, <2>1, BreakerStep
  <2>3. st \in {run[r].status, "failed"}
    OBVIOUS
  <2> HIDE DEF st
  <2> QED
    BY <1>5, <2>1, <2>2, <2>3
<1> QED
  BY <1>6, <1>7, <1>8, <1>9, <1>10, <1>11 DEF Finish

LEMMA DecideIInv ==
  ASSUME IInv, NEW t \in Tickets, NEW d \in {"approved", "denied"}, Decide(t, d)
  PROVE  IInv'
BY DEF IInv, TypeOK, Decide, Flagged, Confirmed, Consistent

LEMMA CoolIInv ==
  ASSUME IInv, NEW p \in Providers, Cool(p)
  PROVE  IInv'
<1>1. BreakersSound'
  BY AtBreaker, CooledSound, OneBreaker DEF Cool
<1>2. UNCHANGED <<run, call, ticket>>
  BY DEF Cool
<1> QED
  BY <1>1, <1>2 DEF IInv, TypeOK, BreakersSound, Flagged, Confirmed

LEMMA NextIInv == IInv /\ [Next]_vars => IInv'
<1> SUFFICES ASSUME IInv, [Next]_vars PROVE IInv'
  OBVIOUS
<1>1. CASE UNCHANGED vars
  BY <1>1 DEF vars, IInv, TypeOK, Flagged, Confirmed, Consistent
<1>2. CASE Next
  BY <1>2, DispatchIInv, WakeIInv, TimerFiresIInv, OpenBreakerIInv, FinishIInv,
     ChargeIInv, FnEndsIInv, DecideIInv, CoolIInv DEF Next, Meanwhile
<1> QED
  BY <1>1, <1>2

-----------------------------------------------------------------------------
(* The invariant holds in every reachable state. *)
THEOREM InductiveInvariant == Spec => []IInv
BY InitIInv, NextIInv, PTL DEF Spec

(* Every variable keeps its type; the probes of a half-open breaker never  *)
(* pass half_open_max_calls.                                               *)
THEOREM TypeCorrect == Spec => []TypeOK
<1>1. IInv => TypeOK
  BY DEF IInv
<1> QED
  BY <1>1, InductiveInvariant, PTL

(* charge, intercept and dispatch agree on which runs are out of budget.   *)
THEOREM OverspendIsFlagged == Spec => []OverspendFlagged
<1>1. IInv => OverspendFlagged
  BY DEF IInv, Flagged, OverspendFlagged
<1> QED
  BY <1>1, InductiveInvariant, PTL

(* No destructive tool runs without accepted confirmation evidence.        *)
THEOREM CallsConfirmed == Spec => []ConfirmedCalls
<1>1. IInv => ConfirmedCalls
  BY DEF IInv, Confirmed, ConfirmedCalls, Busy
<1> QED
  BY <1>1, InductiveInvariant, PTL

(* Overlapping calls, and what their threads write late, leave no breaker  *)
(* closed at its threshold and none open without a failure.                *)
THEOREM BreakersSoundness == Spec => []BreakersConsistent
<1>1. IInv => BreakersConsistent
  BY DEF IInv, Consistent, BreakersConsistent
<1> QED
  BY <1>1, InductiveInvariant, PTL

(* A run stopped by HTTP 402 never calls a provider again.                 *)
THEOREM HardStop == Spec => StoppedRunsStayStopped
<1> DEFINE Stays == \A r \in Runs : run[r].http402 /\ ~Busy(r) => ~Busy(r)'
<1>1. IInv /\ [Next]_vars => [Stays]_vars
  <2> SUFFICES ASSUME IInv, Next, NEW r \in Runs, run[r].http402, ~Busy(r)
               PROVE  ~Busy(r)'
    BY DEF Stays
  <2>1. run[r].spent > Cap
    BY DEF IInv, Flagged
  <2>2. Tripped(run[r])
    BY <2>1 DEF Tripped
  <2>3. ASSUME NEW q \in Runs, Dispatch(q) PROVE ~Busy(r)'
    <3>1. CASE UNCHANGED call
      BY <3>1 DEF Busy
    <3>2. ASSUME ~Tripped(run[q]), NEW x \in Request,
                 Invoke(q, x) \/ FindsOpen(q, x)
          PROVE  ~Busy(r)'
      <4>1. q # r
        BY <2>2, <3>2
      <4>2. call'[r] = call[r]
        BY <3>2, <4>1 DEF Invoke, FindsOpen, IInv, TypeOK
      <4> QED
        BY <4>2 DEF Busy
    <3> QED
      BY <2>3, <3>1, <3>2
      DEF Dispatch, DispatchAmong, Stopped, Blocked, Paused, Degraded,
          CircuitRejects
  <2>4. ASSUME NEW q \in Runs,
               Wake(q) \/ TimerFires(q) \/ OpenBreaker(q) \/ Finish(q)
                 \/ \E how \in {"ok", "error", "timeout"} \cup Escapes :
                      FnEnds(q, how)
        PROVE  ~Busy(r)'
    <3>1. Busy(q)
      BY <2>4 DEF Wake, TimerFires, OpenBreaker, Finish, RaiseOpened, Ended, FnEnds
    <3>2. q # r
      BY <3>1
    <3>3. call'[r] = call[r]
      BY <2>4, <3>2 DEF Wake, StillRejected, NowInvoked, TimerFires, OpenBreaker,
                        Finish, FnEnds, IInv, TypeOK
    <3> QED
      BY <3>3 DEF Busy
  <2>5. ASSUME UNCHANGED call PROVE ~Busy(r)'
    BY <2>5 DEF Busy
  <2> QED
    BY <2>3, <2>4, <2>5 DEF Next, Meanwhile, Charge, Decide, Cool
<1> QED
  BY <1>1, InductiveInvariant, PTL DEF Spec, StoppedRunsStayStopped, Stays

=============================================================================
