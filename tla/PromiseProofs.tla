---------------------------- MODULE PromiseProofs ---------------------------
(***************************************************************************)
(* The system implements PaymentPromise, and what follows from that. The   *)
(* inductive invariant is DecisionsAreSound (module KielSyncProofs) and    *)
(* beside it NewsInOrder: no answer and no event is ahead of the gateway.  *)
(***************************************************************************)
EXTENDS KielSyncProofs

(* The gateway's answers change only into newer ones, and what is stored   *)
(* of an event's news never changes.                                       *)
GatewayGrows ==
  \A r \in References : gw'[r] = gw[r] \/ gw'[r].version > gw[r].version

EventsStay ==
  \A e \in EventIds :
    event[e].state # "ABSENT" => event'[e].at = event[e].at /\ event'[e].state # "ABSENT"

(* What was known of an answer stays true while the gateway moves on.      *)
LEMMA AnswerKept ==
  ASSUME TypeOK, TypeOK', GatewayGrows, NEW v \in Verification, AnswerOK(v)
  PROVE  AnswerOK(v)'
<1>1. v.asked \in References /\ v.version \in Nat
  BY DEF Verification
<1>2. gw[v.asked].version \in Nat /\ gw'[v.asked].version \in Nat
  BY <1>1 DEF TypeOK, GatewayTypeOK, Answer
<1>3. gw'[v.asked] = gw[v.asked] \/ gw'[v.asked].version > gw[v.asked].version
  BY <1>1 DEF GatewayGrows
<1>4. QED
  BY <1>1, <1>2, <1>3 DEF AnswerOK

(* A request that does not move, or only takes the lock, stays in order.   *)
LEMMA HandlerStaysInOrder ==
  ASSUME DecisionsAreSound, TypeOK', GatewayGrows, EventsStay, NEW h \in Handlers,
         HandlerInOrder(h),
         \/ hpc'[h] = "idle"
         \/ /\ job'[h] = job[h] /\ hanswer'[h] = hanswer[h]
            /\ hpc'[h] = hpc[h] \/ (hpc[h] = "verified" /\ hpc'[h] = "locked")
  PROVE  HandlerInOrder(h)'
<1>1. TypeOK /\ HandlerOK(h)
  BY DEF DecisionsAreSound
<1>2. CASE hpc'[h] = "idle"
  BY <1>2 DEF HandlerInOrder
<1>3. CASE hpc'[h] # "idle"
  <2>1. /\ hpc[h] # "idle" /\ job[h] \in EventIds
        /\ job'[h] = job[h] /\ hanswer'[h] = hanswer[h]
        /\ hpc'[h] \in {"verified", "locked"} => hpc[h] \in {"verified", "locked"}
    BY <1>1, <1>3 DEF HandlerOK
  <2>2. event'[job[h]].at = event[job[h]].at /\ event'[job[h]].state # "ABSENT"
    BY <2>1 DEF HandlerInOrder, EventsStay
  <2>3. ASSUME hpc'[h] \in {"verified", "locked"}
        PROVE  AnswerOK(hanswer[h])' /\ hanswer[h].version >= event[job[h]].at
    <3>1. hanswer[h] \in Verification /\ AnswerOK(hanswer[h])
      BY <1>1, <2>1, <2>3 DEF HandlerOK, HandlerInOrder
    <3>2. PICK v \in Verification : v = hanswer[h] /\ v = hanswer'[h]
      BY <2>1, <3>1
    <3>3. AnswerOK(v)'
      BY <1>1, <3>1, <3>2, AnswerKept
    <3>4. QED
      BY <2>1, <2>3, <3>2, <3>3 DEF HandlerInOrder, AnswerOK
  <2>4. QED
    BY <2>1, <2>2, <2>3 DEF HandlerInOrder, AnswerOK
<1>4. QED
  BY <1>2, <1>3

(* The same of a run.                                                      *)
LEMMA SweeperStaysInOrder ==
  ASSUME DecisionsAreSound, TypeOK', GatewayGrows, NEW s \in Sweepers, SweeperInOrder(s),
         \/ spc'[s] \notin {"verified", "locked"}
         \/ /\ sanswer'[s] = sanswer[s]
            /\ spc'[s] = spc[s] \/ (spc[s] = "verified" /\ spc'[s] = "locked")
  PROVE  SweeperInOrder(s)'
<1>1. CASE spc'[s] \in {"verified", "locked"}
  <2>1. sanswer[s] \in Verification /\ AnswerOK(sanswer[s]) /\ sanswer'[s] = sanswer[s]
    BY <1>1 DEF DecisionsAreSound, SweeperOK, SweeperInOrder
  <2>2. PICK v \in Verification : v = sanswer[s] /\ v = sanswer'[s]
    BY <2>1
  <2>3. AnswerOK(v)'
    BY <2>1, <2>2, AnswerKept DEF DecisionsAreSound
  <2>4. QED
    BY <2>2, <2>3 DEF SweeperInOrder, AnswerOK
<1>2. CASE spc'[s] \notin {"verified", "locked"}
  BY <1>2 DEF SweeperInOrder
<1>3. QED
  BY <1>1, <1>2

(* What the gateway says now is as known of it as anything can be.         *)
LEMMA VerifyInOrder ==
  ASSUME TypeOK, NewsInOrder, NEW r \in References, NEW v \in Verification, v = Verify(r)
  PROVE  AnswerOK(v) /\ v.version = gw[r].version
<1>1. gw[r].version \in Nat /\ (gw[r].status # "PENDING" <=> gw[r].version > 0)
  BY DEF TypeOK, GatewayTypeOK, Answer, NewsInOrder
<1>2. /\ v.asked = r /\ v.ref = Reported[r] /\ v.status = gw[r].status
      /\ v.version = gw[r].version
  BY DEF Verify
<1>3. QED
  BY <1>1, <1>2 DEF AnswerOK

(* How the others see a step of a request: the gateway, the runs and what  *)
(* the events tell stand still, and so does every other request.           *)
LEMMA HandlerStepInOrder ==
  ASSUME LedgerAssumption, GatewayAssumption, KielSyncAssumption, DecisionsAreSound, TypeOK',
         NewsInOrder, NEW h \in Handlers, OfHandler(HandlerStep(h))
  PROVE  NewsInOrder'
<1>1. TypeOK /\ HandlerOK(h) /\ HandlerInOrder(h)
  BY DEF DecisionsAreSound, NewsInOrder
<1>2. gw' = gw /\ spc' = spc /\ sanswer' = sanswer /\ GatewayGrows
  BY DEF OfHandler, gatewayVars, sweeperVars, GatewayGrows
<1>3. \A x \in Handlers \ {h} : hpc'[x] = hpc[x] /\ job'[x] = job[x] /\ hanswer'[x] = hanswer[x]
  BY <1>1 DEF OfHandler, HandlerStep, Receive, AcknowledgeDuplicate, HandlerVerify,
              LeaveForSweeper, HandlerLock, HandlerCommit, HandlerDone, TypeOK, HandlerTypeOK
<1>4. /\ EventsStay
      /\ \A e \in EventIds : EventInOrder(e)'
      /\ HandlerInOrder(h)'
  <2>1. ASSUME NEW e \in EventIds, Receive(h, e)
        PROVE  EventsStay /\ (\A x \in EventIds : EventInOrder(x)') /\ HandlerInOrder(h)'
    <3>1. PICK news \in Nat :
            /\ EventRef[e] # NoRef => news <= gw[EventRef[e]].version
            /\ event' = IF event[e].state = "ABSENT"
                        THEN [event EXCEPT ![e] = [state |-> "UNPROCESSED", at |-> news]]
                        ELSE event
      <4>1. CASE EventRef[e] = NoRef
        BY <2>1, <4>1 DEF Receive
      <4>2. CASE EventRef[e] # NoRef
        <5>1. gw[EventRef[e]].version \in Nat
          BY <1>1, <4>2 DEF LedgerAssumption, TypeOK, GatewayTypeOK, Answer
        <5>2. QED
          BY <2>1, <4>2, <5>1 DEF Receive
      <4>3. QED
        BY <4>1, <4>2
    <3>2. event \in [EventIds -> Event]
      BY <1>1 DEF TypeOK, LedgerTypeOK
    <3>3. EventsStay /\ event'[e].state # "ABSENT"
      BY <3>1, <3>2 DEF EventsStay
    <3>4. \A x \in EventIds : EventInOrder(x)'
      BY <1>2, <3>1, <3>2 DEF NewsInOrder, EventInOrder
    <3>5. hpc'[h] = "stored" /\ job'[h] = e
      BY <1>1, <2>1 DEF Receive, TypeOK, HandlerTypeOK
    <3>6. QED
      BY <3>3, <3>4, <3>5 DEF HandlerInOrder
  <2>2. ASSUME HandlerVerify(h), UNCHANGED gatewayVars
        PROVE  EventsStay /\ (\A x \in EventIds : EventInOrder(x)') /\ HandlerInOrder(h)'
    <3>1. /\ job[h] \in EventIds /\ JobRef(h) # NoRef /\ event' = event /\ job' = job
          /\ event[job[h]].state # "ABSENT"
      BY <1>1, <2>2 DEF HandlerVerify, HandlerOK, HandlerInOrder, ledgerVars
    <3>2. JobRef(h) \in References /\ JobRef(h) = EventRef[job[h]]
      BY <3>1 DEF JobRef, LedgerAssumption
    <3>3. PICK v \in Verification : v = Verify(JobRef(h)) /\ v.asked = JobRef(h)
      BY <3>2, VerifyIsSound
    <3>4. AnswerOK(v) /\ v.version = gw[JobRef(h)].version
      BY <1>1, <3>2, <3>3, VerifyInOrder
    <3>5. hanswer'[h] = v
      BY <1>1, <2>2, <3>3 DEF HandlerVerify, TypeOK, HandlerTypeOK
    <3>6. AnswerOK(v)'
      BY <1>1, <1>2, <3>4, AnswerKept
    <3>7. v.version >= event[job[h]].at
      <4>1. event[job[h]].at <= gw[EventRef[job[h]]].version
        BY <3>1, <3>2 DEF NewsInOrder, EventInOrder
      <4>2. event[job[h]].at \in Nat /\ gw[EventRef[job[h]]].version \in Nat
        BY <1>1, <3>1, <3>2 DEF TypeOK, LedgerTypeOK, GatewayTypeOK, Event, Answer
      <4>3. QED
        BY <3>2, <3>4, <4>1, <4>2
    <3>8. HandlerInOrder(h)'
      BY <3>1, <3>5, <3>6, <3>7 DEF HandlerInOrder, AnswerOK
    <3>9. QED
      BY <1>2, <3>1, <3>8 DEF EventsStay, NewsInOrder, EventInOrder
  <2>3. ASSUME \/ \E e \in EventIds : AcknowledgeDuplicate(h, e)
               \/ LeaveForSweeper(h) \/ HandlerLock(h) \/ HandlerCommit(h)
        PROVE  EventsStay /\ (\A x \in EventIds : EventInOrder(x)') /\ HandlerInOrder(h)'
    <3>1. \/ event' = event
          \/ job[h] \in EventIds /\ event' = [event EXCEPT ![job[h]].state = "PROCESSED"]
      BY <1>1, <2>3 DEF AcknowledgeDuplicate, LeaveForSweeper, HandlerLock, HandlerCommit,
                        HandlerOK, ledgerVars
    <3>2. event \in [EventIds -> Event]
      BY <1>1 DEF TypeOK, LedgerTypeOK
    <3>3. \A e \in EventIds : event'[e].at = event[e].at /\ (event[e].state # "ABSENT" =>
                                                             event'[e].state # "ABSENT")
      BY <3>1, <3>2 DEF Event
    <3>4. \/ hpc'[h] = "idle"
          \/ /\ job'[h] = job[h] /\ hanswer'[h] = hanswer[h]
             /\ hpc'[h] = hpc[h] \/ (hpc[h] = "verified" /\ hpc'[h] = "locked")
      BY <1>1, <2>3 DEF AcknowledgeDuplicate, LeaveForSweeper, HandlerLock, HandlerCommit,
                        HandlerDone, TypeOK, HandlerTypeOK
    <3>5. EventsStay
      BY <3>3 DEF EventsStay
    <3>6. QED
      BY <1>1, <1>2, <3>3, <3>4, <3>5, HandlerStaysInOrder DEF NewsInOrder, EventInOrder
  <2>4. QED
    BY <2>1, <2>2, <2>3 DEF OfHandler, HandlerStep
<1>5. ASSUME NEW x \in Handlers PROVE HandlerInOrder(x)'
  BY <1>2, <1>3, <1>4, HandlerStaysInOrder DEF NewsInOrder
<1>6. ASSUME NEW s \in Sweepers PROVE SweeperInOrder(s)'
  BY <1>2, SweeperStaysInOrder DEF NewsInOrder
<1>7. QED
  BY <1>2, <1>4, <1>5, <1>6 DEF NewsInOrder

(* The same of a step of a run.                                            *)
LEMMA SweeperStepInOrder ==
  ASSUME LedgerAssumption, GatewayAssumption, KielSyncAssumption, DecisionsAreSound, TypeOK',
         NewsInOrder, NEW s \in Sweepers, OfSweeper(SweeperStep(s))
  PROVE  NewsInOrder'
<1>1. TypeOK /\ SweeperOK(s) /\ SweeperInOrder(s)
  BY DEF DecisionsAreSound, NewsInOrder
<1>2. gw' = gw /\ UNCHANGED handlerVars /\ GatewayGrows
  BY DEF OfSweeper, gatewayVars, GatewayGrows
<1>3. \A x \in Sweepers \ {s} : spc'[x] = spc[x] /\ sanswer'[x] = sanswer[x]
  BY <1>1 DEF OfSweeper, SweeperStep, StartRun, NextItem, MaybeAbandon, SweepVerify, SweepLock,
              SkipLocked, SweepCommit, ItemFails, EndRun, RunDone, ItemDone, TypeOK, SweeperTypeOK
<1>4. \A e \in EventIds : event'[e].at = event[e].at /\ (event[e].state # "ABSENT" =>
                                                         event'[e].state # "ABSENT")
  <2>1. event \in [EventIds -> Event]
    BY <1>1 DEF TypeOK, LedgerTypeOK
  <2>2. CASE SweepCommit(s)
    <3>1. PICK res : event' = EventsAfter(target[s], res)
      BY <2>2 DEF SweepCommit
    <3>2. QED
      BY <2>1, <3>1 DEF EventsAfter, Event
  <2>3. CASE ~SweepCommit(s)
    <3>1. event' = event
      BY <2>3 DEF OfSweeper, SweeperStep, StartRun, NextItem, MaybeAbandon, SweepVerify, SweepLock,
                  SkipLocked, ItemFails, EndRun, RunDone, ledgerVars
    <3>2. QED
      BY <3>1
  <2>4. QED
    BY <2>2, <2>3
<1>5. EventsStay /\ \A e \in EventIds : EventInOrder(e)'
  BY <1>2, <1>4 DEF EventsStay, NewsInOrder, EventInOrder
<1>6. SweeperInOrder(s)'
  <2>1. CASE SweepVerify(s)
    <3>1. target[s] \in References
      BY <1>1, <2>1 DEF SweepVerify, SweeperOK
    <3>2. PICK v \in Verification : v = Verify(target[s])
      BY <3>1, VerifyIsSound
    <3>3. sanswer'[s] = v
      BY <1>1, <2>1, <3>2 DEF SweepVerify, TypeOK, SweeperTypeOK
    <3>4. AnswerOK(v)'
      BY <1>1, <1>2, <3>1, <3>2, VerifyInOrder, AnswerKept
    <3>5. QED
      BY <3>3, <3>4 DEF SweeperInOrder, AnswerOK
  <2>2. CASE ~SweepVerify(s)
    <3>1. \/ spc'[s] \notin {"verified", "locked"}
          \/ sanswer'[s] = sanswer[s] /\ spc[s] = "verified" /\ spc'[s] = "locked"
      BY <1>1, <2>2 DEF OfSweeper, SweeperStep, StartRun, NextItem, MaybeAbandon, SweepLock,
              SkipLocked, SweepCommit, ItemFails, EndRun, RunDone, TypeOK, SweeperTypeOK
    <3>2. QED
      BY <1>1, <1>2, <3>1, SweeperStaysInOrder
  <2>3. QED
    BY <2>1, <2>2
<1>7. ASSUME NEW h \in Handlers PROVE HandlerInOrder(h)'
  BY <1>2, <1>5, HandlerStaysInOrder DEF NewsInOrder, handlerVars
<1>8. ASSUME NEW x \in Sweepers PROVE SweeperInOrder(x)'
  BY <1>2, <1>3, <1>6, SweeperStaysInOrder DEF NewsInOrder
<1>9. QED
  BY <1>2, <1>5, <1>7, <1>8 DEF NewsInOrder

(* A step that moves neither requests nor runs nor events.                 *)
LEMMA OtherStepInOrder ==
  ASSUME DecisionsAreSound, TypeOK', NewsInOrder, GatewayGrows,
         UNCHANGED <<handlerVars, event, spc, sanswer>>,
         \A r \in References :
           gw'[r] = gw[r] \/ (gw'[r].version > 0 /\ gw'[r].status # "PENDING")
  PROVE  NewsInOrder'
<1>1. TypeOK /\ EventsStay
  BY DEF DecisionsAreSound, EventsStay
<1>2. \A r \in References : gw'[r].status # "PENDING" <=> gw'[r].version > 0
  BY DEF NewsInOrder
<1>3. ASSUME NEW e \in EventIds PROVE EventInOrder(e)'
  <2>1. CASE EventRef[e] = NoRef
    BY <2>1 DEF EventInOrder
  <2>2. CASE EventRef[e] # NoRef /\ EventRef[e] \in References
    <3>1. /\ event[e].at \in Nat /\ gw[EventRef[e]].version \in Nat
          /\ gw'[EventRef[e]].version \in Nat
      BY <1>1, <2>2 DEF TypeOK, LedgerTypeOK, GatewayTypeOK, Event, Answer
    <3>2. event[e].at <= gw[EventRef[e]].version
      BY <2>2 DEF NewsInOrder, EventInOrder
    <3>3. gw'[EventRef[e]] = gw[EventRef[e]] \/ gw'[EventRef[e]].version > gw[EventRef[e]].version
      BY <2>2 DEF GatewayGrows
    <3>4. QED
      BY <3>1, <3>2, <3>3 DEF EventInOrder
  <2>3. QED
    BY <2>1, <2>2, LedgerAssumption DEF LedgerAssumption
<1>4. ASSUME NEW h \in Handlers PROVE HandlerInOrder(h)'
  BY <1>1, HandlerStaysInOrder DEF NewsInOrder, handlerVars
<1>5. ASSUME NEW s \in Sweepers PROVE SweeperInOrder(s)'
  BY SweeperStaysInOrder DEF NewsInOrder
<1>6. QED
  BY <1>2, <1>3, <1>4, <1>5 DEF NewsInOrder

LEMMA NextInOrder ==
  ASSUME LedgerAssumption, GatewayAssumption, SweeperAssumption, KielSyncAssumption,
         DecisionsAreSound, NewsInOrder, [Next]_vars
  PROVE  NewsInOrder'
<1>1. TypeOK /\ TypeOK'
  BY NextSound, StutterSound DEF DecisionsAreSound
<1>2. ASSUME NEW r \in References, GatewayDecides(r),
             UNCHANGED <<ledgerVars, handlerVars, sweeperVars, crashes>>
      PROVE  NewsInOrder'
  <2>1. \E answer : /\ gw' = [gw EXCEPT ![r] = answer]
                    /\ answer.version = gw[r].version + 1 /\ answer.status # "PENDING"
    <3>0. PICK status \in GatewayMoves[gw[r].status] : \E m :
            gw' = [gw EXCEPT ![r] = [status |-> status, amount |-> m.amount,
                                     currency |-> m.currency, version |-> gw[r].version + 1]]
      BY <1>2 DEF GatewayDecides
    <3>1. PICK m :
            gw' = [gw EXCEPT ![r] = [status |-> status, amount |-> m.amount,
                                     currency |-> m.currency, version |-> gw[r].version + 1]]
      BY <3>0
    <3>2. PICK answer : answer = [status |-> status, amount |-> m.amount,
                                  currency |-> m.currency, version |-> gw[r].version + 1]
      OBVIOUS
    <3>3. gw' = [gw EXCEPT ![r] = answer] /\ answer.version = gw[r].version + 1
      BY <3>1, <3>2
    <3>4. answer.status # "PENDING"
      BY <1>1, <3>1, <3>2 DEF TypeOK, GatewayTypeOK, Answer, GatewayMoves, PaymentStatus
    <3>5. QED
      BY <3>3, <3>4
  <2>2. gw \in [References -> Answer] /\ gw[r].version \in Nat
    BY <1>1 DEF TypeOK, GatewayTypeOK, Answer
  <2>3. \A q \in References : \/ gw'[q] = gw[q]
                              \/ /\ gw'[q].version > gw[q].version /\ gw'[q].version > 0
                                 /\ gw'[q].status # "PENDING"
    BY <2>1, <2>2
  <2>4. QED
    BY <1>1, <1>2, <2>3, OtherStepInOrder DEF GatewayGrows, ledgerVars, sweeperVars
<1>3. ASSUME NEW h \in Handlers, HandlerCrash(h), gw' = gw, UNCHANGED sweeperVars
      PROVE  NewsInOrder'
  <2>1. EventsStay /\ event' = event /\ GatewayGrows /\ spc' = spc /\ sanswer' = sanswer
    BY <1>3 DEF HandlerCrash, EventsStay, GatewayGrows, sweeperVars
  <2>2. ASSUME NEW x \in Handlers PROVE HandlerInOrder(x)'
    <3>1. hpc'[x] = "idle" \/ (hpc'[x] = hpc[x] /\ job'[x] = job[x] /\ hanswer'[x] = hanswer[x])
      BY <1>1, <1>3 DEF HandlerCrash, HandlerDone, TypeOK, HandlerTypeOK
    <3>2. QED
      BY <1>1, <2>1, <3>1, HandlerStaysInOrder DEF NewsInOrder
  <2>3. ASSUME NEW s \in Sweepers PROVE SweeperInOrder(s)'
    BY <1>1, <2>1, SweeperStaysInOrder DEF NewsInOrder
  <2>4. QED
    BY <1>3, <2>1, <2>2, <2>3 DEF NewsInOrder, EventInOrder
<1>4. ASSUME NEW s \in Sweepers, SweeperCrash(s), gw' = gw, UNCHANGED handlerVars
      PROVE  NewsInOrder'
  <2>1. EventsStay /\ event' = event /\ GatewayGrows
    BY <1>4 DEF SweeperCrash, RunDone, EventsStay, GatewayGrows
  <2>2. ASSUME NEW h \in Handlers PROVE HandlerInOrder(h)'
    BY <1>1, <1>4, <2>1, HandlerStaysInOrder DEF NewsInOrder, handlerVars
  <2>3. ASSUME NEW x \in Sweepers PROVE SweeperInOrder(x)'
    <3>1. spc'[x] = "idle" \/ (spc'[x] = spc[x] /\ sanswer'[x] = sanswer[x])
      BY <1>1, <1>4 DEF SweeperCrash, RunDone, ItemDone, TypeOK, SweeperTypeOK
    <3>2. QED
      BY <1>1, <2>1, <3>1, SweeperStaysInOrder DEF NewsInOrder
  <2>4. QED
    BY <1>4, <2>1, <2>2, <2>3 DEF NewsInOrder, EventInOrder
<1>5. ASSUME \/ Tick \/ UNCHANGED vars
             \/ HostStep /\ UNCHANGED <<gatewayVars, handlerVars, sweeperVars, crashes>>
      PROVE  NewsInOrder'
  <2>1. UNCHANGED <<handlerVars, event, spc, sanswer>> /\ gw' = gw
    BY <1>5 DEF Tick, vars, ledgerVars, gatewayVars, sweeperVars, HostStep, CreateAttempt,
                AdvanceByHost, BeginPayment, Review
  <2>2. QED
    BY <1>1, <2>1, OtherStepInOrder DEF GatewayGrows
<1>6. QED
  BY <1>1, <1>2, <1>3, <1>4, <1>5, HandlerStepInOrder, SweeperStepInOrder
     DEF Next, OfHandler, OfSweeper, Crash, gatewayVars

LEMMA InitInOrder ==
  ASSUME LedgerAssumption, Init
  PROVE  NewsInOrder
BY DEF Init, LedgerInit, GatewayInit, HandlerInit, SweeperInit, NewsInOrder, EventInOrder,
       HandlerInOrder, SweeperInOrder, LedgerAssumption

(* No answer that is held and no event that is stored tells of more than   *)
(* the gateway says, for any number of requests, runs and events.          *)
THEOREM NewsStaysInOrder == Spec => [](DecisionsAreSound /\ NewsInOrder)
<1> USE LedgerAssumption, GatewayAssumption, SweeperAssumption, KielSyncAssumption
<1>1. Init => NewsInOrder
  BY InitInOrder
<1>2. DecisionsAreSound /\ NewsInOrder /\ [Next]_vars => NewsInOrder'
  BY NextInOrder
<1>3. QED
  BY <1>1, <1>2, Soundness, PTL DEF Spec
-----------------------------------------------------------------------------
(* The refinement, step by step.                                           *)

(* Everything resolve_transaction may do to a row, by the answer it has.   *)
Resolved(t, old, v, new) ==
  \/ new = old
  \/ /\ old.status = "PENDING" /\ v.status = "SUCCESS" /\ ~Mismatch(t, v)
     /\ new = [status |-> "SUCCESS", recon |-> "MATCHED"]
  \/ /\ old.status = "PENDING" /\ v.status = "FAILED"
     /\ new = [old EXCEPT !.status = "FAILED"]
  \/ /\ v.status = "SUCCESS" \/ (old.status = "SUCCESS" /\ v.status = "FAILED")
     /\ new = [old EXCEPT !.recon = "MISMATCHED"]

LEMMA ResolvedRow ==
  ASSUME NEW t, NEW old \in Row, NEW v, v.status \in AnswerStatus
  PROVE  Resolved(t, old, v, RowAfter(old, old, Resolve(t, old, v)))
BY DEF Resolved, RowAfter, Resolve, AnswerStatus, Row, perform_transition, TransactionStatus,
       TRANSACTION_TRANSITIONS

PromiseStep == [Promise!Next]_(Promise!promiseVars)

(* An answer that was held is something the gateway has said.              *)
LEMMA AnswerWasSaid ==
  ASSUME LedgerAssumption, TypeOK, NewsInOrder, NEW v \in Verification, AnswerOK(v),
         v.status # "PENDING"
  PROVE  TxOf[v.asked] \in HasSaid(v.status)
<1>1. v.asked \in References /\ v.version \in Nat /\ gw[v.asked].version \in Nat
  BY DEF Verification, TypeOK, GatewayTypeOK, Answer
<1>2. v.version > 0 /\ v.version <= gw[v.asked].version
  BY DEF AnswerOK
<1>3. gw[v.asked].version > 0 /\ (gw[v.asked].status = v.status \/ gw[v.asked].version > 1)
  BY <1>1, <1>2 DEF AnswerOK
<1>4. QED
  BY <1>1, <1>3 DEF HasSaid

(* The commit of a request or of a run is Credit, Fail, Flag or a stutter. *)
LEMMA CommitKeepsPromise ==
  ASSUME LedgerAssumption, TypeOK, NewsInOrder, NEW v \in Verification, AnswerOK(v),
         Paid(v.asked, v) => v.asked \in settled,
         NEW t \in Transactions, t = TxOf[v.asked],
         NEW new, new = RowAfter(txn[t], txn[t], Resolve(t, txn[t], v)),
         txn' = [txn EXCEPT ![t] = new], UNCHANGED gatewayVars
  PROVE  PromiseStep
<1> USE DEF PromiseStep, Promise!Next, Promise!promiseVars
<1>1. txn \in [Transactions -> Row] /\ txn[t] \in Row /\ v.status \in AnswerStatus
  BY DEF TypeOK, LedgerTypeOK, Verification, PaymentStatus, AnswerStatus
<1>2. gw' = gw /\ settled' = settled
  BY DEF gatewayVars
<1>3. /\ HasSaid("SUCCESS")' = HasSaid("SUCCESS") /\ HasSaid("FAILED")' = HasSaid("FAILED")
      /\ PaidDeals' = PaidDeals
  BY <1>2 DEF HasSaid, PaidDeals
<1>4. v.status # "PENDING" => t \in HasSaid(v.status)
  BY AnswerWasSaid
<1>5. CASE new = txn[t]
  <2>1. txn' = txn
    BY <1>1, <1>5
  <2>2. QED
    BY <1>3, <2>1
<1>6. CASE /\ txn[t].status = "PENDING" /\ v.status = "SUCCESS" /\ ~Mismatch(t, v)
           /\ new = [status |-> "SUCCESS", recon |-> "MATCHED"]
  <2>1. t \in PaidDeals
    BY <1>6 DEF Paid, PaidDeals
  <2>2. Promise!Credit(t)
    BY <1>3, <1>6, <2>1 DEF Promise!Credit, Promise!Moves
  <2>3. QED
    BY <2>2
<1>7. CASE /\ txn[t].status = "PENDING" /\ v.status = "FAILED"
           /\ new = [txn[t] EXCEPT !.status = "FAILED"]
  <2>1. Promise!Fail(t)
    BY <1>3, <1>4, <1>7 DEF Promise!Fail, Promise!Moves
  <2>2. QED
    BY <2>1
<1>8. CASE /\ v.status = "SUCCESS" \/ (txn[t].status = "SUCCESS" /\ v.status = "FAILED")
           /\ new = [txn[t] EXCEPT !.recon = "MISMATCHED"]
  <2>1. Promise!Flag(t)
    BY <1>3, <1>4, <1>8 DEF Promise!Flag, Promise!Moves
  <2>2. QED
    BY <2>1
<1>9. QED
  <2>1. Resolved(t, txn[t], v, new)
    BY <1>1, ResolvedRow
  <2>2. QED
    BY <1>5, <1>6, <1>7, <1>8, <2>1 DEF Resolved

(* So is abandoning a row: WriteOff.                                       *)
LEMMA AbandonKeepsPromise ==
  ASSUME NEW t \in Transactions, txn[t].status = "PENDING", UNCHANGED gatewayVars,
         txn' = [txn EXCEPT ![t] = [txn[t] EXCEPT !.status = "ABANDONED"]]
  PROVE  PromiseStep
<1>1. /\ HasSaid("SUCCESS")' = HasSaid("SUCCESS") /\ HasSaid("FAILED")' = HasSaid("FAILED")
      /\ PaidDeals' = PaidDeals
  BY DEF HasSaid, PaidDeals, gatewayVars
<1>2. Promise!WriteOff(t)
  BY <1>1 DEF Promise!WriteOff, Promise!Moves
<1>3. QED
  BY <1>2 DEF PromiseStep, Promise!Next

(* A step that moves neither a row nor the gateway is a stutter.           *)
LEMMA QuietKeepsPromise ==
  ASSUME txn' = txn, UNCHANGED gatewayVars
  PROVE  PromiseStep
BY DEF PromiseStep, Promise!promiseVars, HasSaid, PaidDeals, gatewayVars

LEMMA HandlerStepKeepsPromise ==
  ASSUME LedgerAssumption, DecisionsAreSound, NewsInOrder, NEW h \in Handlers,
         OfHandler(HandlerStep(h))
  PROVE  PromiseStep
<1>1. UNCHANGED gatewayVars /\ TypeOK
  BY DEF OfHandler, DecisionsAreSound
<1>2. CASE HandlerCommit(h)
  <2>1. hpc[h] = "locked"
    BY <1>2 DEF HandlerCommit
  <2>2. PICK v \in Verification : v = hanswer[h]
    BY <2>1, LockedHandler
  <2>3. PICK t \in Transactions : t = JobTx(h) /\ t = TxOf[v.asked] /\ hcopy[h] = txn[t]
    BY <2>1, <2>2, LockedHandler DEF JobTx, DecisionsAreSound, HandlerOK
  <2>4. AnswerOK(v) /\ (Paid(v.asked, v) => v.asked \in settled)
    BY <2>1, <2>2 DEF DecisionsAreSound, HandlerOK, NewsInOrder, HandlerInOrder
  <2>5. PICK new : new = RowAfter(txn[t], txn[t], Resolve(t, txn[t], v))
    OBVIOUS
  <2>6. txn' = [txn EXCEPT ![t] = new]
    BY <1>2, <2>2, <2>3, <2>5 DEF HandlerCommit
  <2>7. QED
    BY <1>1, <2>3, <2>4, <2>5, <2>6, CommitKeepsPromise
<1>3. CASE ~HandlerCommit(h)
  <2>1. txn' = txn
    BY <1>3 DEF OfHandler, HandlerStep, Receive, AcknowledgeDuplicate, HandlerVerify,
                LeaveForSweeper, HandlerLock, ledgerVars
  <2>2. QED
    BY <1>1, <2>1, QuietKeepsPromise
<1>4. QED
  BY <1>2, <1>3

LEMMA SweeperStepKeepsPromise ==
  ASSUME LedgerAssumption, DecisionsAreSound, NewsInOrder, NEW s \in Sweepers,
         OfSweeper(SweeperStep(s))
  PROVE  PromiseStep
<1>1. UNCHANGED gatewayVars /\ TypeOK /\ SweeperOK(s)
  BY DEF OfSweeper, DecisionsAreSound
<1>2. CASE SweepCommit(s)
  <2>1. spc[s] = "locked"
    BY <1>2 DEF SweepCommit
  <2>2. PICK v \in Verification : v = sanswer[s]
    BY <2>1, LockedSweeper
  <2>3. PICK t \in Transactions : t = item[s] /\ t = TxOf[v.asked] /\ scopy[s] = txn[t]
    BY <1>1, <2>1, <2>2, LockedSweeper DEF SweeperOK
  <2>4. AnswerOK(v) /\ (Paid(v.asked, v) => v.asked \in settled)
    BY <1>1, <2>1, <2>2 DEF SweeperOK, NewsInOrder, SweeperInOrder
  <2>5. PICK res, new : res = Resolve(t, txn[t], v) /\ new = RowAfter(txn[t], txn[t], res)
    OBVIOUS
  <2>6. PICK ended : ended = [new EXCEPT !.status = perform_transition(@, "ABANDONED",
                                                       TRANSACTION_TRANSITIONS)]
    OBVIOUS
  <2>7. \/ txn' = [txn EXCEPT ![t] = new]
        \/ /\ res \in {"PENDING", "NO_CHANGE"} /\ new.status = "PENDING"
           /\ txn' = [txn EXCEPT ![t] = ended]
    BY <1>2, <2>2, <2>3, <2>5, <2>6 DEF SweepCommit
  <2>8. CASE txn' = [txn EXCEPT ![t] = new]
    BY <1>1, <2>3, <2>4, <2>5, <2>8, CommitKeepsPromise
  <2>9. CASE /\ res \in {"PENDING", "NO_CHANGE"} /\ new.status = "PENDING"
             /\ txn' = [txn EXCEPT ![t] = ended]
    <3>1. new = txn[t]
      BY <2>5, <2>9 DEF RowAfter
    <3>2. ended = [txn[t] EXCEPT !.status = "ABANDONED"]
      BY <2>6, <2>9, <3>1 DEF perform_transition, TRANSACTION_TRANSITIONS, TransactionStatus
    <3>3. QED
      BY <1>1, <2>9, <3>1, <3>2, AbandonKeepsPromise
  <2>10. QED
    BY <2>7, <2>8, <2>9
<1>3. CASE MaybeAbandon(s)
  <2>1. item[s] \in Transactions
    BY <1>1, <1>3 DEF MaybeAbandon, SweeperOK
  <2>2. \/ txn' = txn
        \/ /\ txn[item[s]].status = "PENDING"
           /\ txn' = [txn EXCEPT ![item[s]] = [txn[item[s]] EXCEPT !.status = "ABANDONED"]]
    BY <1>3 DEF MaybeAbandon
  <2>3. QED
    BY <1>1, <2>1, <2>2, AbandonKeepsPromise, QuietKeepsPromise
<1>4. CASE ~SweepCommit(s) /\ ~MaybeAbandon(s)
  <2>1. txn' = txn
    BY <1>4 DEF OfSweeper, SweeperStep, StartRun, NextItem, SweepVerify, SweepLock, SkipLocked,
                ItemFails, EndRun, RunDone, ledgerVars
  <2>2. QED
    BY <1>1, <2>1, QuietKeepsPromise
<1>5. QED
  BY <1>2, <1>3, <1>4

(* The host begins payments and reviews flagged ones.                      *)
LEMMA HostStepKeepsPromise ==
  ASSUME TypeOK, HostStep, UNCHANGED gatewayVars
  PROVE  PromiseStep
<1> USE DEF PromiseStep, Promise!Next, Promise!Moves
<1>1. /\ HasSaid("SUCCESS")' = HasSaid("SUCCESS") /\ HasSaid("FAILED")' = HasSaid("FAILED")
      /\ PaidDeals' = PaidDeals
  BY DEF HasSaid, PaidDeals, gatewayVars
<1>2. ASSUME NEW t \in Transactions, BeginPayment(t) PROVE PromiseStep
  <2>1. txn[t].status = "CREATED"
    BY <1>2 DEF BeginPayment
  <2>2. perform_transition(txn[t].status, "PENDING", TRANSACTION_TRANSITIONS) = "PENDING"
    BY <2>1 DEF perform_transition, TRANSACTION_TRANSITIONS, TransactionStatus
  <2>3. txn' = [txn EXCEPT ![t] = [txn[t] EXCEPT !.status = "PENDING"]]
    BY <1>2, <2>2 DEF BeginPayment
  <2>4. Promise!Begin(t)
    BY <1>1, <2>1, <2>3 DEF Promise!Begin
  <2>5. QED
    BY <2>4
<1>3. ASSUME NEW t \in Transactions, Review(t) PROVE PromiseStep
  <2>1. Promise!Review(t)
    BY <1>1, <1>3 DEF Review, Promise!Review
  <2>2. QED
    BY <2>1
<1>4. CASE txn' = txn
  BY <1>4, QuietKeepsPromise
<1>5. QED
  BY <1>2, <1>3, <1>4 DEF HostStep, CreateAttempt, AdvanceByHost

(* The gateway says something new: Hear, of the payment it is about.       *)
LEMMA GatewayKeepsPromise ==
  ASSUME LedgerAssumption, TypeOK, NewsInOrder, txn' = txn,
         NEW r \in References, GatewayDecides(r)
  PROVE  PromiseStep
<1>0. PICK status \in GatewayMoves[gw[r].status] : \E m :
        LET answer == [status |-> status, amount |-> m.amount,
                       currency |-> m.currency, version |-> gw[r].version + 1]
        IN  /\ gw' = [gw EXCEPT ![r] = answer]
            /\ settled' = IF Paid(r, answer) THEN settled \cup {r} ELSE settled
  BY DEF GatewayDecides
<1>1. PICK m :
        LET answer == [status |-> status, amount |-> m.amount,
                       currency |-> m.currency, version |-> gw[r].version + 1]
        IN  /\ gw' = [gw EXCEPT ![r] = answer]
            /\ settled' = IF Paid(r, answer) THEN settled \cup {r} ELSE settled
  BY <1>0
<1>2. PICK answer : /\ answer.status = status /\ answer.version = gw[r].version + 1
                    /\ gw' = [gw EXCEPT ![r] = answer]
                    /\ settled' = IF Paid(r, answer) THEN settled \cup {r} ELSE settled
  BY <1>1
<1>3. /\ gw \in [References -> Answer] /\ gw[r].version \in Nat /\ TxOf[r] \in Transactions
      /\ gw[r].status \in PaymentStatus
  BY DEF TypeOK, GatewayTypeOK, Answer, LedgerAssumption
<1>4. status \in {"SUCCESS", "FAILED"} /\ status # gw[r].status
  BY <1>1, <1>3 DEF GatewayMoves, PaymentStatus
<1>5. gw[r].status # "PENDING" <=> gw[r].version > 0
  BY DEF NewsInOrder
<1>6. ASSUME NEW word \in {"SUCCESS", "FAILED"}
      PROVE  HasSaid(word)' = IF word = status THEN HasSaid(word) \cup {TxOf[r]} ELSE HasSaid(word)
  <2>1. \A q \in References \ {r} : gw'[q] = gw[q]
    BY <1>2, <1>3
  <2>2. gw'[r].status = status /\ gw'[r].version = gw[r].version + 1
    BY <1>2, <1>3
  <2>3. CASE word = status
    <3>1. gw'[r].version > 0 /\ gw'[r].status = word
      BY <1>3, <2>2, <2>3
    <3>2. {q \in References : gw'[q].version > 0 /\ (gw'[q].status = word \/ gw'[q].version > 1)}
            = {q \in References : gw[q].version > 0 /\ (gw[q].status = word \/ gw[q].version > 1)}
              \cup {r}
      BY <2>1, <3>1
    <3>3. HasSaid(word)' = HasSaid(word) \cup {TxOf[r]}
      BY <3>2 DEF HasSaid
    <3>4. QED
      BY <2>3, <3>3
  <2>4. CASE word # status
    <3>1. (gw'[r].version > 0 /\ (gw'[r].status = word \/ gw'[r].version > 1))
            <=> (gw[r].version > 0 /\ (gw[r].status = word \/ gw[r].version > 1))
      BY <1>3, <1>4, <1>5, <2>2, <2>4 DEF PaymentStatus
    <3>2. {q \in References : gw'[q].version > 0 /\ (gw'[q].status = word \/ gw'[q].version > 1)}
            = {q \in References : gw[q].version > 0 /\ (gw[q].status = word \/ gw[q].version > 1)}
      BY <2>1, <3>1
    <3>3. HasSaid(word)' = HasSaid(word)
      BY <3>2 DEF HasSaid
    <3>4. QED
      BY <2>4, <3>3
  <2>5. QED
    BY <2>3, <2>4
<1>7. PaidDeals' = IF Paid(r, answer) THEN PaidDeals \cup {TxOf[r]} ELSE PaidDeals
  BY <1>2 DEF PaidDeals
<1>8. Paid(r, answer) => status = "SUCCESS"
  BY <1>2 DEF Paid
<1>9. Promise!Hear(TxOf[r])
  <2>1. CASE status = "SUCCESS"
    BY <1>6, <1>7, <2>1 DEF Promise!Hear
  <2>2. CASE status = "FAILED"
    BY <1>6, <1>7, <1>8, <2>2 DEF Promise!Hear
  <2>3. QED
    BY <1>4, <2>1, <2>2
<1>10. QED
  BY <1>3, <1>9 DEF PromiseStep, Promise!Next

LEMMA NextKeepsPromise ==
  ASSUME LedgerAssumption, DecisionsAreSound, NewsInOrder, [Next]_vars
  PROVE  PromiseStep
<1>1. TypeOK
  BY DEF DecisionsAreSound
<1>2. CASE Tick \/ Crash \/ UNCHANGED vars
  <2>1. txn' = txn /\ UNCHANGED gatewayVars
    BY <1>2 DEF Tick, Crash, HandlerCrash, SweeperCrash, RunDone, vars, ledgerVars
  <2>2. QED
    BY <2>1, QuietKeepsPromise
<1>3. QED
  BY <1>1, <1>2, HandlerStepKeepsPromise, SweeperStepKeepsPromise, HostStepKeepsPromise,
     GatewayKeepsPromise DEF Next, OfHandler, OfSweeper, ledgerVars

LEMMA InitKeepsPromise ==
  ASSUME Init
  PROVE  Promise!Init
BY DEF Init, LedgerInit, GatewayInit, Promise!Init, HasSaid, PaidDeals

(* The system implements PaymentPromise, for every number of payments,     *)
(* attempts, events, requests and runs.                                    *)
THEOREM SystemKeepsPromise == Spec => KeepsPromise
<1> USE LedgerAssumption
<1>1. Init => Promise!Init
  BY InitKeepsPromise
<1>2. DecisionsAreSound /\ NewsInOrder /\ [Next]_vars => [Promise!Next]_(Promise!promiseVars)
  BY NextKeepsPromise DEF PromiseStep
<1>3. Spec => Promise!Spec
  BY <1>1, <1>2, NewsStaysInOrder, PTL DEF Spec, Promise!Spec
<1>4. QED
  BY <1>3 DEF KeepsPromise
-----------------------------------------------------------------------------
(* What PaymentPromise says of every row, the system's rows keep.          *)

(* How a row may differ after a step: it is begun, failed or written off,  *)
(* credited, or flagged.                                                   *)
RowStep(old, new) ==
  \/ new = old
  \/ old.status \in {"CREATED", "PENDING"} /\ new.status # "SUCCESS" /\ new.recon = old.recon
  \/ old.status = "PENDING" /\ new = [status |-> "SUCCESS", recon |-> "MATCHED"]
  \/ new.status = old.status /\ new.recon \in {"MISMATCHED", "MANUAL_REVIEW"}

LEMMA PromiseRows ==
  ASSUME TypeOK, PromiseStep
  PROVE  \A t \in Transactions : RowStep(txn[t], txn'[t])
<1>1. txn \in [Transactions -> Row]
  BY DEF TypeOK, LedgerTypeOK
<1>2. ASSUME NEW t \in Transactions, NEW new, Promise!Moves(t, new), RowStep(txn[t], new)
      PROVE  \A u \in Transactions : RowStep(txn[u], txn'[u])
  BY <1>1, <1>2 DEF Promise!Moves, RowStep
<1>3. ASSUME NEW t \in Transactions,
             \/ Promise!Begin(t) \/ Promise!Credit(t) \/ Promise!Fail(t)
             \/ Promise!WriteOff(t) \/ Promise!Flag(t) \/ Promise!Review(t)
      PROVE  \A u \in Transactions : RowStep(txn[u], txn'[u])
  <2>1. PICK old \in Row : old = txn[t]
    BY <1>1
  <2>2. \A word \in {"PENDING", "FAILED", "ABANDONED"} :
          old.status \in {"CREATED", "PENDING"} => RowStep(old, [old EXCEPT !.status = word])
    BY DEF RowStep, Row
  <2>3. \A word \in {"MISMATCHED", "MANUAL_REVIEW"} : RowStep(old, [old EXCEPT !.recon = word])
    BY DEF RowStep, Row
  <2>4. old.status = "PENDING" => RowStep(old, [status |-> "SUCCESS", recon |-> "MATCHED"])
    BY DEF RowStep
  <2>5. CASE Promise!Begin(t)
    BY <1>2, <2>1, <2>2, <2>5 DEF Promise!Begin
  <2>6. CASE Promise!Credit(t)
    BY <1>2, <2>1, <2>4, <2>6 DEF Promise!Credit
  <2>7. CASE Promise!Fail(t)
    BY <1>2, <2>1, <2>2, <2>7 DEF Promise!Fail
  <2>8. CASE Promise!WriteOff(t)
    BY <1>2, <2>1, <2>2, <2>8 DEF Promise!WriteOff
  <2>9. CASE Promise!Flag(t)
    BY <1>2, <2>1, <2>3, <2>9 DEF Promise!Flag
  <2>10. CASE Promise!Review(t)
    BY <1>2, <2>1, <2>3, <2>10 DEF Promise!Review
  <2>11. QED
    BY <1>3, <2>5, <2>6, <2>7, <2>8, <2>9, <2>10
<1>4. CASE txn' = txn
  BY <1>4 DEF RowStep
<1>5. QED
  BY <1>3, <1>4 DEF PromiseStep, Promise!Next, Promise!Hear, Promise!promiseVars

(* A credited payment is reconciled, and MATCHED says it is credited.      *)
THEOREM CreditedStaysReconciled == Spec => []CreditedIsReconciled
<1> USE LedgerAssumption
<1>1. Init => CreditedIsReconciled
  BY DEF Init, LedgerInit, CreditedIsReconciled
<1>2. ASSUME DecisionsAreSound, NewsInOrder, CreditedIsReconciled, [Next]_vars
      PROVE  CreditedIsReconciled'
  <2>1. \A t \in Transactions : RowStep(txn[t], txn'[t])
    BY <1>2, NextKeepsPromise, PromiseRows DEF DecisionsAreSound
  <2>2. ASSUME NEW t \in Transactions
        PROVE  /\ txn'[t].recon = "MATCHED" => txn'[t].status = "SUCCESS"
               /\ txn'[t].status = "SUCCESS" => txn'[t].recon # "UNRECONCILED"
    <3>1. RowStep(txn[t], txn'[t])
      BY <2>1
    <3>2. /\ txn[t].recon = "MATCHED" => txn[t].status = "SUCCESS"
          /\ txn[t].status = "SUCCESS" => txn[t].recon # "UNRECONCILED"
      BY <1>2 DEF CreditedIsReconciled
    <3>3. QED
      BY <3>1, <3>2 DEF RowStep
  <2>3. QED
    BY <2>2 DEF CreditedIsReconciled
<1>3. QED
  BY <1>1, <1>2, NewsStaysInOrder, PTL DEF Spec

KeepsFlags ==
  \A t \in Transactions : Flagged(t) /\ ~Flagged(t)' =>
    /\ txn[t].status = "PENDING"
    /\ txn'[t] = [status |-> "SUCCESS", recon |-> "MATCHED"]

(* A flag that is raised is dropped by nothing but the credit of an open   *)
(* payment.                                                                *)
THEOREM FlagsStay == Spec => FlagsAreKept
<1> USE LedgerAssumption
<1>1. ASSUME DecisionsAreSound, NewsInOrder, [Next]_vars
      PROVE  KeepsFlags
  <2>1. \A t \in Transactions : RowStep(txn[t], txn'[t])
    BY <1>1, NextKeepsPromise, PromiseRows DEF DecisionsAreSound
  <2>2. QED
    BY <2>1 DEF RowStep, KeepsFlags, Flagged
<1>2. Spec => [][KeepsFlags]_vars
  BY <1>1, NewsStaysInOrder, PTL DEF Spec
<1>3. QED
  BY <1>2 DEF FlagsAreKept, KeepsFlags

(* Behind the verdicts: money that was paid was called a success.          *)
Backed == PaidDeals \subseteq HasSaid("SUCCESS") /\ VerdictsAreGrounded

LEMMA BackedInit ==
  ASSUME Init PROVE Backed
BY DEF Init, LedgerInit, GatewayInit, Backed, PaidDeals, VerdictsAreGrounded, Promise!Grounded

(* PaymentPromise alone sees to it, whoever implements it.                 *)
LEMMA BackedNext ==
  ASSUME TypeOK, Backed, PromiseStep
  PROVE  Backed'
<1> DEFINE yes == HasSaid("SUCCESS")
           no == HasSaid("FAILED")
<1>1. txn \in [Transactions -> Row] /\ PaidDeals \subseteq yes
  BY DEF TypeOK, LedgerTypeOK, Backed
<1>2. ASSUME NEW t \in Transactions
      PROVE  /\ txn[t].status = "SUCCESS" => t \in PaidDeals
             /\ txn[t].status = "FAILED" => t \in no
             /\ txn[t].recon \in {"MISMATCHED", "MANUAL_REVIEW"} => t \in yes
  BY DEF Backed, VerdictsAreGrounded, Promise!Grounded
<1>3. ASSUME PaidDeals' \subseteq yes', PaidDeals \subseteq PaidDeals', yes \subseteq yes',
             no \subseteq no',
             \A t \in Transactions :
               \/ txn'[t] = txn[t]
               \/ /\ txn'[t].status = "SUCCESS" => t \in PaidDeals
                  /\ txn'[t].status = "FAILED" => t \in no
                  /\ txn'[t].recon \in {"MISMATCHED", "MANUAL_REVIEW"} => t \in yes
      PROVE  Backed'
  <2>1. ASSUME NEW t \in Transactions
        PROVE  /\ txn'[t].status = "SUCCESS" => t \in PaidDeals'
               /\ txn'[t].status = "FAILED" => t \in no'
               /\ txn'[t].recon \in {"MISMATCHED", "MANUAL_REVIEW"} => t \in yes'
    BY <1>2, <1>3
  <2>2. QED
    BY <1>3, <2>1 DEF Backed, VerdictsAreGrounded, Promise!Grounded
<1>4. ASSUME NEW d \in Transactions, Promise!Hear(d) PROVE Backed'
  <2>1. /\ PaidDeals' \subseteq yes' /\ PaidDeals \subseteq PaidDeals' /\ yes \subseteq yes'
        /\ no \subseteq no' /\ txn' = txn
    BY <1>1, <1>4 DEF Promise!Hear
  <2>2. QED
    BY <1>3, <2>1
<1>5. ASSUME NEW d \in Transactions, NEW new, Promise!Moves(d, new),
             new.status = "SUCCESS" => d \in PaidDeals,
             new.status = "FAILED" => d \in no,
             new.recon \in {"MISMATCHED", "MANUAL_REVIEW"} => d \in yes
      PROVE  Backed'
  <2>1. /\ PaidDeals' = PaidDeals /\ yes' = yes /\ no' = no
        /\ txn' = [txn EXCEPT ![d] = new]
    BY <1>5 DEF Promise!Moves
  <2>2. \A t \in Transactions : txn'[t] = txn[t] \/ (t = d /\ txn'[t] = new)
    BY <1>1, <2>1
  <2>3. QED
    BY <1>1, <1>3, <1>5, <2>1, <2>2
<1>6. ASSUME NEW d \in Transactions,
             \/ Promise!Begin(d) \/ Promise!Credit(d) \/ Promise!Fail(d)
             \/ Promise!WriteOff(d) \/ Promise!Flag(d) \/ Promise!Review(d)
      PROVE  Backed'
  <2>1. PICK old \in Row : old = txn[d]
    BY <1>1
  <2>2. \A word : /\ [old EXCEPT !.status = word].status = word
                 /\ [old EXCEPT !.status = word].recon = old.recon
                 /\ [old EXCEPT !.recon = word].recon = word
                 /\ [old EXCEPT !.recon = word].status = old.status
    BY DEF Row
  <2>3. /\ old.status = "SUCCESS" => d \in PaidDeals /\ d \in yes
        /\ old.status = "FAILED" => d \in no
        /\ old.recon \in {"MISMATCHED", "MANUAL_REVIEW"} => d \in yes
    BY <1>1, <1>2, <2>1
  <2> DEFINE Backs(new) ==
        /\ new.status = "SUCCESS" => d \in PaidDeals
        /\ new.status = "FAILED" => d \in no
        /\ new.recon \in {"MISMATCHED", "MANUAL_REVIEW"} => d \in yes
  <2>4. \A word \in {"PENDING", "ABANDONED"} : Backs([old EXCEPT !.status = word])
    BY <2>2, <2>3
  <2>5. d \in no => Backs([old EXCEPT !.status = "FAILED"])
    BY <2>2, <2>3
  <2>6. d \in yes => \A word : Backs([old EXCEPT !.recon = word])
    BY <2>2, <2>3
  <2>7. d \in PaidDeals => Backs([status |-> "SUCCESS", recon |-> "MATCHED"])
    OBVIOUS
  <2> HIDE DEF Backs
  <2>8. PICK new : Promise!Moves(d, new) /\ Backs(new)
    <3>1. CASE Promise!Begin(d) \/ Promise!WriteOff(d)
      BY <2>1, <2>4, <3>1 DEF Promise!Begin, Promise!WriteOff
    <3>2. CASE Promise!Credit(d)
      BY <2>1, <2>7, <3>2 DEF Promise!Credit
    <3>3. CASE Promise!Fail(d)
      BY <2>1, <2>5, <3>3 DEF Promise!Fail
    <3>4. CASE Promise!Flag(d) \/ Promise!Review(d)
      BY <2>1, <2>3, <2>6, <3>4 DEF Promise!Flag, Promise!Review
    <3>5. QED
      BY <1>6, <3>1, <3>2, <3>3, <3>4
  <2>9. QED
    BY <1>5, <2>8 DEF Backs
<1>7. CASE UNCHANGED <<PaidDeals, yes, no, txn>>
  BY <1>1, <1>3, <1>7
<1>8. QED
  BY <1>4, <1>6, <1>7 DEF PromiseStep, Promise!Next, Promise!promiseVars

(* No verdict and no flag without the gateway's word, which follows from   *)
(* the refinement: PaymentPromise has none either.                         *)
THEOREM VerdictsStayGrounded == Spec => []VerdictsAreGrounded
<1> USE LedgerAssumption
<1>1. Init => Backed
  BY BackedInit
<1>2. ASSUME DecisionsAreSound, NewsInOrder, Backed, [Next]_vars
      PROVE  Backed'
  BY <1>2, NextKeepsPromise, BackedNext DEF DecisionsAreSound
<1>3. Backed => VerdictsAreGrounded
  BY DEF Backed
<1>4. QED
  BY <1>1, <1>2, <1>3, NewsStaysInOrder, PTL DEF Spec
=============================================================================
