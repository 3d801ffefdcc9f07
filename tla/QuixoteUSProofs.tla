--------------------------- MODULE QuixoteUSProofs ---------------------------
(* Theorems about QuixoteUS, for any workload, any number of events and of  *)
(* points, whatever fails and whoever interrupts.                           *)
EXTENDS QuixoteUS, SequenceTheorems, TLAPS

-----------------------------------------------------------------------------
(* What is on its way from the kernel to the agent is a description.       *)

FlightTypes == queue \in Seq(Exports) /\ carried \in Seq(Exports)
               /\ pipe \in Seq(Exports) /\ batch \in Seq(Exports)

LEMMA FlightTypesStep == FlightTypes /\ [Next]_vars => FlightTypes'
<1> SUFFICES ASSUME FlightTypes, [Next]_vars PROVE FlightTypes'
  OBVIOUS
<1> USE DEF FlightTypes
<1>1. ASSUME NEW p \in Procs, NEW pt \in Points,
             SecurityEvent(p, pt) \/ AtomicEvent(p, pt) \/ LoggedEvent(p, pt)
      PROVE  FlightTypes'
  <2>1. PICK type \in {"event", "async_event", "log"} : CausesEvent(p, Export(type, p, pt))
    BY <1>1 DEF SecurityEvent, AtomicEvent, LoggedEvent
  <2>2. Export(type, p, pt) \in Exports
    BY DEF Export, Exports
  <2>3. QED
    BY <2>1, <2>2 DEF CausesEvent, monVars
<1>2. ASSUME NEW p \in Procs, Die(p) PROVE FlightTypes'
  BY <1>2 DEF Die
<1>3. CASE Runc \/ Interrupt
  BY <1>3 DEF Runc, RuncExit, Interrupt
<1>4. CASE Monitor
  <2>1. CASE MonitorRead
    <3>1. CASE queue = <<>>
      BY <2>1, <3>1 DEF MonitorRead, MonitorStep
    <3>2. CASE queue # <<>>
      <4>1. Head(queue) \in Exports /\ Tail(queue) \in Seq(Exports)
        BY <3>2, HeadTailProperties
      <4>2. <<Head(queue)>> \in Seq(Exports)
        BY <4>1
      <4>3. carried' = <<Head(queue)>> /\ queue' = Tail(queue) /\ UNCHANGED <<pipe, batch>>
        BY <2>1, <3>2 DEF MonitorRead, MonitorStep
      <4>4. QED
        BY <4>1, <4>2, <4>3
    <3>3. QED
      BY <3>1, <3>2
  <2>2. CASE MonitorWrite
    <3>1. pipe \o carried \in Seq(Exports)
      BY ConcatProperties
    <3>2. <<>> \in Seq(Exports)
      OBVIOUS
    <3>3. pipe' \in {pipe, pipe \o carried} /\ carried' = <<>> /\ UNCHANGED <<queue, batch>>
      BY <2>2 DEF MonitorWrite, MonitorStep
    <3>4. QED
      BY <3>1, <3>2, <3>3
  <2>3. CASE MonitorCheck \/ MonitorPoll \/ MonitorWake \/ MonitorReap \/ MonitorExit
    BY <2>3 DEF MonitorCheck, MonitorPoll, MonitorWake, MonitorReap, MonitorExit, MonitorStep
  <2>4. QED
    BY <1>4, <2>1, <2>2, <2>3 DEF Monitor
<1>5. ASSUME NEW command \in BOOLEAN, PollReturns(command) PROVE FlightTypes'
  <2>1. UNCHANGED <<queue, carried>> /\ (UNCHANGED <<batch, pipe>> \/ ReadPipe)
    BY <1>5 DEF PollReturns, OrchestratorStep, monVars
  <2>2. <<>> \in Seq(Exports)
    OBVIOUS
  <2>3. QED
    BY <2>1, <2>2 DEF ReadPipe
<1>6. CASE ProcessEvent
  <2>1. CASE UNCHANGED <<queue, carried, pipe>> /\ batch # <<>> /\ batch' = Tail(batch)
    BY <2>1, HeadTailProperties
  <2>2. QED
    BY <1>6, <2>1 DEF ProcessEvent, add_aggregate, AddEventInError, AddEvent, AddAsyncEvent,
      AddAsyncEventInError, ModelUpdateFails, add_log, InBatch, Processed, ProcessingFails,
      ShutWorkloadDown, OrchestratorStep, monVars
<1>7. CASE PollBlocks \/ Interrupted \/ WaitForRunc \/ CommandSeal \/ CommandShow \/ CommandFails \/ Finish
  BY <1>7 DEF PollBlocks, Interrupted, WaitForRunc, CommandSeal, CommandShow, CommandFails,
    Finish, OrchestratorStep, monVars
<1>8. CASE UNCHANGED vars
  BY <1>8 DEF vars
<1>9. QED
  BY <1>1, <1>2, <1>3, <1>4, <1>5, <1>6, <1>7, <1>8 DEF Next, Workload, Orchestrator

\* The event at the head of the batch is of a process, and has a point.
LEMMA HeadIsEvent ==
  ASSUME FlightTypes, batch # <<>>, Head(batch).type # "aggregate"
  PROVE  Head(batch).pid \in Procs /\ Head(batch).point \in Points
<1>1. Head(batch) \in Exports
  BY DEF FlightTypes
<1>2. QED
  BY <1>1 DEF Exports, AggregateExport

-----------------------------------------------------------------------------
(* Who is trusted.                                                         *)

\* The part of the state that trust depends on.
TrustTypes ==
  /\ status \in [Points -> {"unknown", "valid", "invalid"}]
  /\ sealed \in BOOLEAN
  /\ Model_Error \in BOOLEAN
  /\ proc \in [Procs -> {"running", "waiting", "dead"}]
  /\ trust \in [Procs -> {"trusted", "untrusted"}]
  /\ done \in [Procs -> SUBSET Points]

\* An agent whose model is not sealed has no reason to refuse anything, ...
UnsealedIsValid == ~sealed => \A pt \in Points : status[pt] # "invalid"

\* ... and it is never an untrusted process that the next verdict is on: a
\* violation is not forgiven.
WaitingIsTrusted == \A p \in Procs : proc[p] = "waiting" => trust[p] = "trusted"

TrustInv == TrustTypes /\ UnsealedIsValid /\ WaitingIsTrusted /\ TrustedMeansValid

\* The agent's part of a step: what is classified keeps its class, and the
\* class of what is not says whether the model is sealed.
Classifies ==
  \/ UNCHANGED <<status, sealed>>
  \/ sealed' = TRUE /\ UNCHANGED status
  \/ \E pt \in Points : status' = [status EXCEPT ![pt] = Agent!Class(pt)] /\ UNCHANGED sealed

LEMMA ClassifiesKeepsClasses ==
  ASSUME TrustTypes, UnsealedIsValid, Classifies
  PROVE  /\ status' \in [Points -> {"unknown", "valid", "invalid"}]
         /\ sealed' \in BOOLEAN
         /\ UnsealedIsValid'
         /\ \A pt \in Points : status[pt] = "valid" => status'[pt] = "valid"
BY DEF TrustTypes, UnsealedIsValid, Classifies, Agent!Class

\* A step that lets nobody through an event.
LEMMA LetsNobodyThrough ==
  ASSUME TrustInv, Classifies, UNCHANGED <<trust, done>>,
         proc' \in [Procs -> {"running", "waiting", "dead"}],
         \A p \in Procs : proc'[p] = "waiting" => proc[p] = "waiting" \/ trust[p] = "trusted",
         Model_Error' \in {Model_Error, TRUE}
  PROVE  TrustInv'
BY ClassifiesKeepsClasses DEF TrustInv, TrustTypes, WaitingIsTrusted, TrustedMeansValid

\* Whatever processing an event fails at is an error of the model.
LEMMA ErrorsStay ==
  ASSUME Model_Error \in BOOLEAN, Processed \/ ProcessingFails
  PROVE  Model_Error' \in {Model_Error, TRUE}
BY DEF Processed, ProcessingFails

LEMMA AddEventStep ==
  ASSUME TrustInv, FlightTypes, AddEvent
  PROVE  TrustInv'
<1> DEFINE e == Head(batch)
<1>1. e.pid \in Procs /\ e.point \in Points
  BY HeadIsEvent DEF AddEvent, InBatch
<1>2. /\ status' = [status EXCEPT ![e.point] = Agent!Class(e.point)]
      /\ UNCHANGED sealed
      /\ verdict'.discipline = (Agent!Class(e.point) = "invalid")
      /\ verdict'.sealed = sealed
  BY DEF AddEvent, Agent!Judge
<1>3. Classifies
  BY <1>1, <1>2 DEF Classifies
<1>4. Model_Error' \in {Model_Error, TRUE}
  BY ErrorsStay DEF AddEvent, TrustInv, TrustTypes
<1>5. CASE UNCHANGED <<proc, trust, done>>
  BY <1>3, <1>4, <1>5, LetsNobodyThrough DEF TrustInv, TrustTypes
<1>6. ASSUME NEW new \in {"trusted", "untrusted"},
             new = "trusted" => ~(sealed /\ Agent!Class(e.point) = "invalid"),
             proc[e.pid] = "waiting",
             proc' = [proc EXCEPT ![e.pid] = "running"],
             trust' = [trust EXCEPT ![e.pid] = new],
             done' = [done EXCEPT ![e.pid] = @ \cup {e.point}]
      PROVE  TrustInv'
  <2>1. trust[e.pid] = "trusted"
    BY <1>1, <1>6 DEF TrustInv, WaitingIsTrusted
  <2>2. new = "trusted" => status'[e.point] = "valid"
    BY <1>1, <1>2, <1>6 DEF TrustInv, TrustTypes, UnsealedIsValid, Agent!Class
  <2>3. TrustTypes' /\ UnsealedIsValid' /\ WaitingIsTrusted'
    BY ZenonT(60), <1>1, <1>3, <1>4, <1>6, ClassifiesKeepsClasses DEF TrustInv, TrustTypes,
      WaitingIsTrusted
  <2>4. ASSUME ~Model_Error', NEW p \in Procs, trust'[p] = "trusted", NEW pt \in done'[p]
        PROVE  status'[pt] = "valid"
    <3>1. ~Model_Error
      BY <1>4, <2>4 DEF TrustInv, TrustTypes
    <3>2. trust[p] = "trusted"
      BY <1>6, <2>1, <2>4 DEF TrustInv, TrustTypes
    <3>3. pt \in done[p] => status[pt] = "valid" /\ pt \in Points
      BY <3>1, <3>2 DEF TrustInv, TrustTypes, TrustedMeansValid
    <3>4. CASE pt \in done[p]
      BY <1>3, <3>3, <3>4, ClassifiesKeepsClasses DEF TrustInv
    <3>5. CASE pt \notin done[p]
      BY <1>1, <1>6, <2>2, <2>4, <3>5 DEF TrustInv, TrustTypes
    <3>6. QED
      BY <3>4, <3>5
  <2>5. QED
    BY <2>3, <2>4 DEF TrustInv, TrustedMeansValid
<1>7. QED
  BY <1>2, <1>5, <1>6 DEF AddEvent, Answer, release, discipline, SetTrust, Accepted

\* After an error processes are released unmodelled: TrustedMeansValid is not
\* about them, and the types and the rest are kept.
LEMMA AddEventInErrorStep ==
  ASSUME TrustInv, FlightTypes, AddEventInError
  PROVE  TrustInv'
<1> DEFINE e == Head(batch)
<1>1. e.pid \in Procs /\ e.point \in Points
  BY HeadIsEvent DEF AddEventInError, InBatch
<1>2. Model_Error' = TRUE /\ UNCHANGED <<status, sealed>>
  BY DEF AddEventInError, Processed, ProcessingFails, agentVars
<1>3. \/ UNCHANGED <<proc, trust, done>>
      \/ /\ proc' = [proc EXCEPT ![e.pid] = "running"]
         /\ trust' = [trust EXCEPT ![e.pid] = "trusted"]
         /\ done' = [done EXCEPT ![e.pid] = @ \cup {e.point}]
  BY DEF AddEventInError, release, SetTrust
<1>4. QED
  BY <1>1, <1>2, <1>3 DEF TrustInv, TrustTypes, UnsealedIsValid, WaitingIsTrusted,
    TrustedMeansValid

LEMMA TrustInvStep == TrustInv /\ FlightTypes /\ [Next]_vars => TrustInv'
<1> SUFFICES ASSUME TrustInv, FlightTypes, [Next]_vars PROVE TrustInv'
  OBVIOUS
<1> DEFINE Lets == /\ Classifies
                   /\ UNCHANGED <<trust, done>>
                   /\ proc' \in [Procs -> {"running", "waiting", "dead"}]
                   /\ \A p \in Procs : proc'[p] = "waiting" => proc[p] = "waiting" \/ trust[p] = "trusted"
                   /\ Model_Error' \in {Model_Error, TRUE}
<1>0. Lets => TrustInv'
  BY LetsNobodyThrough
<1> HIDE DEF Lets
<1>a. UNCHANGED <<status, sealed, proc, trust, done>> /\ Model_Error' \in {Model_Error, TRUE} => Lets
  BY DEF Lets, Classifies, TrustInv, TrustTypes
<1>1. ASSUME NEW p \in Procs, NEW pt \in Points,
             SecurityEvent(p, pt) \/ AtomicEvent(p, pt) \/ LoggedEvent(p, pt)
      PROVE  TrustInv'
  BY <1>0, <1>1 DEF Lets, Classifies, SecurityEvent, AtomicEvent, LoggedEvent, CausesEvent, agentVars,
    TrustInv, TrustTypes
<1>2. ASSUME NEW p \in Procs, Die(p) PROVE TrustInv'
  BY <1>0, <1>2 DEF Lets, Classifies, Die, Kill, agentVars, TrustInv, TrustTypes
<1>3. CASE Runc
  BY <1>0, <1>3 DEF Lets, Classifies, Runc, RuncExit, Kill, agentVars, TrustInv, TrustTypes
<1>4. CASE Interrupt
  BY <1>0, <1>a, <1>4 DEF Interrupt, agentVars, workloadVars
<1>5. CASE Monitor
  <2>1. PICK from, to : MonitorStep(from, to)
    BY <1>5 DEF Monitor, MonitorCheck, MonitorPoll, MonitorWake, MonitorRead, MonitorWrite,
      MonitorReap, MonitorExit
  <2>2. QED
    BY <1>0, <1>a, <2>1 DEF MonitorStep, agentVars, workloadVars
<1>6. CASE PollBlocks \/ PollReturns(TRUE) \/ PollReturns(FALSE) \/ Interrupted \/ WaitForRunc
           \/ CommandShow \/ Finish
  BY <1>0, <1>a, <1>6 DEF PollBlocks, PollReturns, Interrupted, WaitForRunc, CommandShow, Finish,
    OutsideModelling, agentVars
<1>7. CASE add_aggregate
  BY <1>0, <1>a, <1>7, ErrorsStay DEF add_aggregate, agentVars, Agent!Collapse, TrustInv, TrustTypes
<1>8. CASE AddAsyncEvent
  <2>1. Head(batch).point \in Points
    BY <1>8, HeadIsEvent DEF AddAsyncEvent, InBatch
  <2>2. Model_Error' \in {Model_Error, TRUE}
    BY <1>8, ErrorsStay DEF AddAsyncEvent, ShutWorkloadDown, TrustInv, TrustTypes
  <2>3. QED
    BY <1>0, <1>8, <2>1, <2>2 DEF Lets, Classifies, AddAsyncEvent, Agent!Judge, TrustInv, TrustTypes
<1>9. CASE AddAsyncEventInError \/ add_log
  BY <1>0, <1>a, <1>9, ErrorsStay DEF AddAsyncEventInError, add_log, OutsideModelling, agentVars,
    TrustInv, TrustTypes
<1>10. CASE ModelUpdateFails
  <2>1. Head(batch).point \in Points
    BY <1>10, HeadIsEvent DEF ModelUpdateFails, InBatch
  <2>2. QED
    BY <1>0, <1>10, <2>1, ErrorsStay DEF Lets, Classifies, ModelUpdateFails, Agent!Fail, TrustInv,
      TrustTypes
<1>11. CASE CommandSeal \/ CommandFails
  BY <1>0, <1>11 DEF Lets, Classifies, CommandSeal, CommandFails, Agent!Seal, agentVars, TrustInv,
    TrustTypes
<1>12. CASE UNCHANGED vars
  BY <1>0, <1>a, <1>12 DEF vars
<1>13. QED
  BY <1>1, <1>2, <1>3, <1>4, <1>5, <1>6, <1>7, <1>8, <1>9, <1>10, <1>11, <1>12,
    AddEventStep, AddEventInErrorStep DEF Next, Workload, Orchestrator, ProcessEvent

\* Of any workload, no process that is still trusted was let through an event
\* that the agent does not hold valid, as long as no error has occurred: not
\* when the console seals the model while events wait in the kernel, in the
\* monitor or in the pipe, nor when the kernel refuses a release.
THEOREM TrustIsEarned == Spec => []TrustedMeansValid
<1>1. Init => TrustInv /\ FlightTypes
  <2> SUFFICES ASSUME Init PROVE TrustInv /\ FlightTypes
    OBVIOUS
  <2>1. TrustTypes /\ UnsealedIsValid
    BY DEF Init, TrustTypes, UnsealedIsValid
  <2>2. WaitingIsTrusted /\ TrustedMeansValid
    BY DEF Init, WaitingIsTrusted, TrustedMeansValid
  <2>3. AggregateExport \in Exports
    BY DEF Exports
  <2>4. FlightTypes
    BY <2>3 DEF Init, FlightTypes
  <2>5. QED
    BY <2>1, <2>2, <2>4 DEF TrustInv
<1>2. TrustInv => TrustedMeansValid
  BY DEF TrustInv
<1>3. QED
  BY <1>1, <1>2, TrustInvStep, FlightTypesStep, PTL DEF Spec

-----------------------------------------------------------------------------
(* What a process waits for: how often its event occurs in a sequence of   *)
(* descriptions that is empty, has one element, or is put together.        *)

LEMMA EmptyHasNone == \A p : Never(<<>>, p) /\ ~Once(<<>>, p)
BY DEF Never, Once

LEMMA OneIsOnce ==
  \A e, p : /\ Never(<<e>>, p) <=> ~IsEventOf(e, p)
            /\ Once(<<e>>, p) <=> IsEventOf(e, p)
BY DEF Never, Once

LEMMA ConcatCounts ==
  ASSUME NEW s \in Seq(Exports), NEW t \in Seq(Exports), NEW p
  PROVE  /\ Never(s \o t, p) <=> Never(s, p) /\ Never(t, p)
         /\ Never(s, p) /\ Once(t, p) => Once(s \o t, p)
         /\ Once(s, p) /\ Never(t, p) => Once(s \o t, p)
         /\ Once(s \o t, p) => (Never(s, p) /\ Once(t, p)) \/ (Once(s, p) /\ Never(t, p))
<1> DEFINE u == s \o t
<1>1. /\ Len(u) = Len(s) + Len(t) /\ Len(s) \in Nat /\ Len(t) \in Nat
      /\ \A i \in 1..Len(s) : u[i] = s[i]
      /\ \A i \in 1..Len(t) : u[Len(s) + i] = t[i]
      /\ \A i \in 1..Len(u) : i \notin 1..Len(s) => i - Len(s) \in 1..Len(t) /\ u[i] = t[i - Len(s)]
  BY ConcatProperties, LenProperties
<1> HIDE DEF u
<1>2. Never(u, p) <=> Never(s, p) /\ Never(t, p)
  <2>1. ASSUME Never(u, p) PROVE Never(s, p) /\ Never(t, p)
    <3>1. \A i \in 1..Len(s) : i \in 1..Len(u)
      BY <1>1
    <3>2. \A i \in 1..Len(t) : Len(s) + i \in 1..Len(u)
      BY <1>1
    <3>3. QED
      BY <1>1, <2>1, <3>1, <3>2 DEF Never
  <2>2. ASSUME Never(s, p), Never(t, p) PROVE Never(u, p)
    BY <1>1, <2>2 DEF Never
  <2>3. QED
    BY <2>1, <2>2
<1>3. ASSUME Never(s, p), Once(t, p) PROVE Once(u, p)
  <2>1. PICK k \in 1..Len(t) : IsEventOf(t[k], p) /\ \A j \in 1..Len(t) : IsEventOf(t[j], p) => j = k
    BY <1>3 DEF Once
  <2>2. Len(s) + k \in 1..Len(u) /\ IsEventOf(u[Len(s) + k], p)
    BY <1>1, <2>1
  <2>3. ASSUME NEW j \in 1..Len(u), IsEventOf(u[j], p) PROVE j = Len(s) + k
    <3>1. j \notin 1..Len(s)
      BY <1>1, <1>3, <2>3 DEF Never
    <3>2. j - Len(s) \in 1..Len(t) /\ IsEventOf(t[j - Len(s)], p)
      BY <1>1, <2>3, <3>1
    <3>3. j - Len(s) = k
      BY <2>1, <3>2
    <3>4. QED
      BY <1>1, <3>3
  <2>4. QED
    BY <2>2, <2>3 DEF Once
<1>4. ASSUME Once(s, p), Never(t, p) PROVE Once(u, p)
  <2>1. PICK k \in 1..Len(s) : IsEventOf(s[k], p) /\ \A j \in 1..Len(s) : IsEventOf(s[j], p) => j = k
    BY <1>4 DEF Once
  <2>2. k \in 1..Len(u) /\ IsEventOf(u[k], p)
    BY <1>1, <2>1
  <2>3. ASSUME NEW j \in 1..Len(u), IsEventOf(u[j], p) PROVE j = k
    <3>1. j \in 1..Len(s)
      BY <1>1, <1>4, <2>3 DEF Never
    <3>2. QED
      BY <1>1, <2>1, <2>3, <3>1
  <2>4. QED
    BY <2>2, <2>3 DEF Once
<1>5. ASSUME Once(u, p)
      PROVE  (Never(s, p) /\ Once(t, p)) \/ (Once(s, p) /\ Never(t, p))
  <2>1. PICK k \in 1..Len(u) : IsEventOf(u[k], p) /\ \A j \in 1..Len(u) : IsEventOf(u[j], p) => j = k
    BY <1>5 DEF Once
  <2>2. CASE k \in 1..Len(s)
    <3>1. \A j \in 1..Len(s) : IsEventOf(s[j], p) => j = k
      BY <1>1, <2>1
    <3>2. \A j \in 1..Len(t) : ~IsEventOf(t[j], p)
      <4>1. ASSUME NEW j \in 1..Len(t), IsEventOf(t[j], p) PROVE FALSE
        <5>1. Len(s) + j \in 1..Len(u) /\ IsEventOf(u[Len(s) + j], p)
          BY <1>1, <4>1
        <5>2. Len(s) + j = k
          BY <2>1, <5>1
        <5>3. QED
          BY <1>1, <2>2, <5>2
      <4>2. QED
        BY <4>1
    <3>3. QED
      BY <1>1, <2>1, <2>2, <3>1, <3>2 DEF Once, Never
  <2>3. CASE k \notin 1..Len(s)
    <3>1. k - Len(s) \in 1..Len(t) /\ IsEventOf(t[k - Len(s)], p)
      BY <1>1, <2>1, <2>3
    <3>2. ASSUME NEW j \in 1..Len(t), IsEventOf(t[j], p) PROVE j = k - Len(s)
      <4>1. Len(s) + j \in 1..Len(u) /\ IsEventOf(u[Len(s) + j], p)
        BY <1>1, <3>2
      <4>2. Len(s) + j = k
        BY <2>1, <4>1
      <4>3. QED
        BY <1>1, <4>2
    <3>3. Never(s, p)
      <4>1. ASSUME NEW j \in 1..Len(s), IsEventOf(s[j], p) PROVE FALSE
        <5>1. j \in 1..Len(u) /\ IsEventOf(u[j], p)
          BY <1>1, <4>1
        <5>2. j = k
          BY <2>1, <5>1
        <5>3. QED
          BY <2>3, <4>1, <5>2
      <4>2. QED
        BY <4>1 DEF Never
    <3>4. QED
      BY <3>1, <3>2, <3>3 DEF Once
  <2>4. QED
    BY <2>2, <2>3
<1>6. QED
  BY <1>2, <1>3, <1>4, <1>5 DEF u

-----------------------------------------------------------------------------
(* The event of a process that waits.                                      *)

\* Nothing is carried but by a monitor about to write; the batch is taken from
\* the pipe when the last one is finished; the orchestrator finishes after the
\* monitor, so that what the monitor writes is always read.
HandsOver ==
  /\ mon # "write" => carried = <<>>
  /\ pc \in {"poll", "blocked", "interrupted", "mgmt"} => batch = <<>>
  /\ pc = "finished" => mon = "exited"

LEMMA HandsOverStep == FlightTypes /\ HandsOver /\ [Next]_vars => HandsOver'
<1> SUFFICES ASSUME FlightTypes, HandsOver, [Next]_vars PROVE HandsOver'
  OBVIOUS
<1> USE DEF HandsOver
<1>1. ASSUME NEW p \in Procs, NEW pt \in Points,
             SecurityEvent(p, pt) \/ AtomicEvent(p, pt) \/ LoggedEvent(p, pt)
      PROVE  HandsOver'
  BY <1>1 DEF SecurityEvent, AtomicEvent, LoggedEvent, CausesEvent, monVars
<1>2. ASSUME NEW p \in Procs, Die(p) PROVE HandsOver'
  BY <1>2 DEF Die, Kill, InterruptMonitor
<1>3. CASE Runc
  BY <1>3 DEF Runc, RuncExit, Kill, InterruptMonitor, SignalOrchestrator, InterruptOrchestrator
<1>4. CASE Interrupt
  BY <1>4 DEF Interrupt, InterruptMonitor, InterruptOrchestrator
<1>5. CASE Monitor
  <2>1. CASE MonitorRead
    BY <2>1 DEF MonitorRead, MonitorStep
  <2>2. CASE MonitorWrite
    BY <2>2 DEF MonitorWrite, MonitorStep
  <2>3. CASE MonitorExit
    BY <2>3 DEF MonitorExit, MonitorStep, SignalOrchestrator, InterruptOrchestrator
  <2>4. CASE MonitorCheck \/ MonitorPoll \/ MonitorWake \/ MonitorReap
    BY <2>4 DEF MonitorCheck, MonitorPoll, MonitorWake, MonitorReap, MonitorStep
  <2>5. QED
    BY <1>5, <2>1, <2>2, <2>3, <2>4 DEF Monitor
<1>6. ASSUME NEW command \in BOOLEAN, PollReturns(command) PROVE HandsOver'
  BY <1>6 DEF PollReturns, OrchestratorStep, monVars, ReadPipe
<1>7. CASE ProcessEvent
  <2>1. UNCHANGED <<mon, carried>> /\ pc' # "finished"
    BY <1>7 DEF ProcessEvent, add_aggregate, AddEventInError, AddEvent, AddAsyncEvent,
      AddAsyncEventInError, ModelUpdateFails, add_log, InBatch, Processed, ProcessingFails,
      ShutWorkloadDown, OrchestratorStep, monVars, Continue
  <2>2. pc' \in {"poll", "blocked", "interrupted", "mgmt"} => batch' = <<>>
    BY <1>7 DEF ProcessEvent, add_aggregate, AddEventInError, AddEvent, AddAsyncEvent,
      AddAsyncEventInError, ModelUpdateFails, add_log, InBatch, Processed, ProcessingFails,
      ShutWorkloadDown, OrchestratorStep, monVars, Continue
  <2>3. QED
    BY <2>1, <2>2
<1>8. CASE PollBlocks \/ Interrupted \/ WaitForRunc \/ CommandSeal \/ CommandShow \/ CommandFails \/ Finish
  BY <1>8 DEF PollBlocks, Interrupted, WaitForRunc, CommandSeal, CommandShow, CommandFails,
    Finish, OrchestratorStep, monVars, Continue
<1>9. CASE UNCHANGED vars
  BY <1>9 DEF vars
<1>10. QED
  BY <1>1, <1>2, <1>3, <1>4, <1>5, <1>6, <1>7, <1>8, <1>9 DEF Next, Workload, Orchestrator

Nowhere(p) == \A n \in 1..4 : Never(Places[n], p)

\* A process that runs has no event on its way, one that waits has one.
Tracked == \A p \in Procs : /\ proc[p] = "waiting" => InOnePlace(p)
                            /\ proc[p] = "running" => Nowhere(p)

FlightInv == pc # "failed" /\ ~jammed => Tracked

FlightShape == /\ proc \in [Procs -> {"running", "waiting", "dead"}]
               /\ jammed \in BOOLEAN

LEMMA PlacesOf ==
  ASSUME NEW p
  PROVE  /\ Nowhere(p) <=> /\ Never(queue, p) /\ Never(carried, p)
                           /\ Never(pipe, p) /\ Never(batch, p)
         /\ InOnePlace(p) <=>
              \/ Once(queue, p) /\ Never(carried, p) /\ Never(pipe, p) /\ Never(batch, p)
              \/ Never(queue, p) /\ Once(carried, p) /\ Never(pipe, p) /\ Never(batch, p)
              \/ Never(queue, p) /\ Never(carried, p) /\ Once(pipe, p) /\ Never(batch, p)
              \/ Never(queue, p) /\ Never(carried, p) /\ Never(pipe, p) /\ Once(batch, p)
BY DEF Nowhere, InOnePlace, Places

LEMMA PlacesAfter ==
  ASSUME NEW p
  PROVE  /\ Nowhere(p)' <=> /\ Never(queue', p) /\ Never(carried', p)
                            /\ Never(pipe', p) /\ Never(batch', p)
         /\ InOnePlace(p)' <=>
              \/ Once(queue', p) /\ Never(carried', p) /\ Never(pipe', p) /\ Never(batch', p)
              \/ Never(queue', p) /\ Once(carried', p) /\ Never(pipe', p) /\ Never(batch', p)
              \/ Never(queue', p) /\ Never(carried', p) /\ Once(pipe', p) /\ Never(batch', p)
              \/ Never(queue', p) /\ Never(carried', p) /\ Never(pipe', p) /\ Once(batch', p)
BY DEF Nowhere, InOnePlace, Places, Never, Once

LEMMA FailureStays ==
  FlightShape /\ [Next]_vars =>
    (pc' # "failed" /\ ~jammed' => pc # "failed" /\ ~jammed) /\ FlightShape'
<1> SUFFICES ASSUME FlightShape, [Next]_vars
             PROVE  (pc' # "failed" /\ ~jammed' => pc # "failed" /\ ~jammed) /\ FlightShape'
  OBVIOUS
<1> DEFINE Goal == (pc' # "failed" /\ ~jammed' => pc # "failed" /\ ~jammed) /\ FlightShape'
<1> SUFFICES Goal
  OBVIOUS
<1>1. ASSUME NEW p \in Procs, NEW pt \in Points,
             SecurityEvent(p, pt) \/ AtomicEvent(p, pt) \/ LoggedEvent(p, pt)
      PROVE  Goal
  BY <1>1 DEF SecurityEvent, AtomicEvent, LoggedEvent, CausesEvent, FlightShape
<1>2. ASSUME NEW p \in Procs, Die(p) PROVE Goal
  BY <1>2 DEF Die, Kill, FlightShape
<1>3. CASE Runc
  BY <1>3 DEF Runc, RuncExit, Kill, SignalOrchestrator, InterruptOrchestrator, FlightShape
<1>4. CASE Interrupt
  BY <1>4 DEF Interrupt, workloadVars, InterruptOrchestrator, FlightShape
<1>5. CASE Monitor
  <2>1. UNCHANGED <<proc, jammed>> /\ (UNCHANGED pc \/ InterruptOrchestrator)
    BY <1>5 DEF Monitor, MonitorCheck, MonitorPoll, MonitorWake, MonitorRead, MonitorWrite,
      MonitorReap, MonitorExit, MonitorStep, workloadVars, SignalOrchestrator
  <2>2. QED
    BY <2>1 DEF InterruptOrchestrator, FlightShape
<1>6. CASE PollBlocks \/ PollReturns(TRUE) \/ PollReturns(FALSE) \/ Interrupted \/ WaitForRunc
           \/ CommandSeal \/ CommandShow \/ CommandFails \/ Finish
  <2>1. UNCHANGED <<proc, jammed>> /\ pc # "failed"
    BY <1>6 DEF PollBlocks, PollReturns, Interrupted, WaitForRunc, CommandSeal, CommandShow,
      CommandFails, Finish, OrchestratorStep, OutsideModelling
  <2>2. QED
    BY <2>1 DEF FlightShape
<1>7. CASE ProcessEvent
  <2>1. pc # "failed"
    BY <1>7 DEF ProcessEvent, add_aggregate, AddEventInError, AddEvent, AddAsyncEvent,
      AddAsyncEventInError, ModelUpdateFails, add_log, InBatch
  <2>2. CASE AddEvent \/ AddEventInError
    <3>1. PICK new \in {"trusted", "untrusted"} :
            SetTrust(Head(batch).pid, Head(batch).point, new) \/ UNCHANGED <<proc, trust, done, jammed>>
      BY <2>2 DEF AddEvent, AddEventInError, Answer, release, discipline
    <3>2. \/ UNCHANGED <<proc, jammed>>
          \/ proc' = [proc EXCEPT ![Head(batch).pid] = "running"] /\ UNCHANGED jammed
          \/ UNCHANGED proc /\ jammed' \in {jammed, TRUE}
      BY <3>1 DEF SetTrust
    <3>3. QED
      BY <2>1, <3>2 DEF FlightShape
  <2>3. CASE add_aggregate \/ AddAsyncEvent \/ AddAsyncEventInError \/ ModelUpdateFails \/ add_log
    <3>1. UNCHANGED <<proc, jammed>>
      BY <2>3 DEF add_aggregate, AddAsyncEvent, AddAsyncEventInError, ModelUpdateFails, add_log,
        OutsideModelling
    <3>2. QED
      BY <2>1, <3>1 DEF FlightShape
  <2>4. QED
    BY <1>7, <2>2, <2>3 DEF ProcessEvent
<1>8. CASE UNCHANGED vars
  BY <1>8 DEF vars, FlightShape
<1>9. QED
  BY <1>1, <1>2, <1>3, <1>4, <1>5, <1>6, <1>7, <1>8 DEF Next, Workload, Orchestrator

\* A step that moves descriptions on and at most kills processes.
Moves == /\ \A p \in Procs : /\ InOnePlace(p) => InOnePlace(p)'
                             /\ Nowhere(p) => Nowhere(p)'
         /\ \A p \in Procs : proc'[p] \in {proc[p], "dead"}

LEMMA MovesKeepTrack == Tracked /\ Moves => Tracked'
BY DEF Tracked, Moves

\* An event is caused and exported.
LEMMA ExportKeepsTrack ==
  ASSUME FlightTypes, FlightShape, Tracked, NEW p \in Procs, NEW pt \in Points,
         SecurityEvent(p, pt) \/ AtomicEvent(p, pt) \/ LoggedEvent(p, pt)
  PROVE  Tracked'
<1>1. PICK type \in {"event", "async_event", "log"} :
        /\ CausesEvent(p, Export(type, p, pt))
        /\ proc' = IF type = "event" THEN [proc EXCEPT ![p] = "waiting"] ELSE proc
  BY DEF SecurityEvent, AtomicEvent, LoggedEvent
<1> DEFINE e == Export(type, p, pt)
<1>2. proc[p] = "running" /\ queue' = Append(queue, e) /\ UNCHANGED <<carried, pipe, batch>>
  BY <1>1 DEF CausesEvent, monVars
<1>3. e \in Exports /\ e.type = type /\ e.pid = p
  BY DEF Export, Exports
<1> HIDE DEF e
<1>4. <<e>> \in Seq(Exports) /\ queue' = queue \o <<e>>
  BY <1>2, <1>3, AppendIsConcat DEF FlightTypes
<1>5. ASSUME NEW q \in Procs
      PROVE  /\ proc'[q] = "waiting" => InOnePlace(q)'
             /\ proc'[q] = "running" => Nowhere(q)'
  <2>1. CASE type = "event" /\ q = p
    <3>1. Nowhere(p)
      BY <1>2 DEF Tracked
    <3>2. Once(<<e>>, p)
      BY <1>3, <2>1, OneIsOnce DEF IsEventOf
    <3>3. Once(queue', p)
      BY <1>4, <3>1, <3>2, ConcatCounts, PlacesOf DEF FlightTypes
    <3>4. InOnePlace(p)'
      BY <1>2, <3>1, <3>3, PlacesOf, PlacesAfter
    <3>5. proc'[p] = "waiting"
      BY <1>1, <2>1 DEF FlightShape
    <3>6. QED
      BY <2>1, <3>4, <3>5
  <2>2. CASE type # "event" \/ q # p
    <3>1. Never(<<e>>, q)
      BY <1>3, <2>2, OneIsOnce DEF IsEventOf
    <3>2. (Never(queue, q) => Never(queue', q)) /\ (Once(queue, q) => Once(queue', q))
      BY <1>4, <3>1, ConcatCounts DEF FlightTypes
    <3>3. (InOnePlace(q) => InOnePlace(q)') /\ (Nowhere(q) => Nowhere(q)')
      BY <1>2, <3>2, PlacesOf, PlacesAfter
    <3>4. proc'[q] = proc[q]
      BY <1>1, <2>2 DEF FlightShape
    <3>5. QED
      BY <3>3, <3>4 DEF Tracked
  <2>3. QED
    BY <2>1, <2>2
<1>6. QED
  BY <1>5 DEF Tracked

LEMMA HeadThenTail ==
  ASSUME NEW s \in Seq(Exports), s # <<>>
  PROVE  /\ Head(s) \in Exports
         /\ <<Head(s)>> \in Seq(Exports)
         /\ Tail(s) \in Seq(Exports)
         /\ s = <<Head(s)>> \o Tail(s)
<1>1. /\ Head(s) \in Exports
      /\ Tail(s) \in Seq(Exports)
      /\ Len(Tail(s)) = Len(s) - 1
      /\ \A i \in 1..Len(Tail(s)) : Tail(s)[i] = s[i + 1]
  BY HeadTailProperties
<1>2. <<Head(s)>> \in Seq(Exports)
  BY <1>1
<1> DEFINE t == <<Head(s)>> \o Tail(s)
<1>3. /\ t \in Seq(Exports)
      /\ Len(t) = 1 + Len(Tail(s))
      /\ t[1] = Head(s)
      /\ \A i \in 1..Len(t) : i # 1 => t[i] = Tail(s)[i - 1]
  <2>1. Len(<<Head(s)>>) = 1 /\ <<Head(s)>>[1] = Head(s)
    OBVIOUS
  <2>2. QED
    BY <1>1, <1>2, <2>1, ConcatProperties, LenProperties
<1> HIDE DEF t
<1>4. Len(t) = Len(s)
  BY <1>1, <1>3, LenProperties
<1>5. ASSUME NEW i \in 1..Len(s) PROVE t[i] = s[i]
  <2>1. CASE i = 1
    BY <1>3, <2>1
  <2>2. CASE i # 1
    <3>1. i - 1 \in 1..Len(Tail(s)) /\ (i - 1) + 1 = i
      BY <1>1, <2>2, LenProperties
    <3>2. Tail(s)[i - 1] = s[i]
      BY <1>1, <3>1
    <3>3. QED
      BY <1>3, <1>4, <2>2, <3>2
  <2>3. QED
    BY <2>1, <2>2
<1>6. t = s
  BY <1>3, <1>4, <1>5, SeqEqual
<1>7. QED
  BY <1>1, <1>2, <1>6 DEF t

\* What is read from the front of a sequence is no more in it.
LEMMA FrontCounts ==
  ASSUME NEW s \in Seq(Exports), s # <<>>, NEW p
  PROVE  /\ IsEventOf(Head(s), p) => ~Never(s, p) /\ (Once(s, p) => Never(Tail(s), p))
         /\ ~IsEventOf(Head(s), p) =>
              /\ Never(s, p) => Never(Tail(s), p)
              /\ Once(s, p) => Once(Tail(s), p)
<1>1. /\ <<Head(s)>> \in Seq(Exports) /\ Tail(s) \in Seq(Exports)
      /\ s = <<Head(s)>> \o Tail(s)
  BY HeadThenTail
<1>2. /\ Never(s, p) => Never(<<Head(s)>>, p) /\ Never(Tail(s), p)
      /\ Once(s, p) => \/ Never(<<Head(s)>>, p) /\ Once(Tail(s), p)
                       \/ Once(<<Head(s)>>, p) /\ Never(Tail(s), p)
  <2> DEFINE h == <<Head(s)>>
             t == Tail(s)
  <2> HIDE DEF h, t
  <2>1. h \in Seq(Exports) /\ t \in Seq(Exports) /\ s = h \o t
    BY <1>1 DEF h, t
  <2>2. /\ Never(s, p) => Never(h, p) /\ Never(t, p)
        /\ Once(s, p) => (Never(h, p) /\ Once(t, p)) \/ (Once(h, p) /\ Never(t, p))
    BY <2>1, ConcatCounts
  <2>3. QED
    BY <2>2 DEF h, t
<1>3. /\ Never(<<Head(s)>>, p) <=> ~IsEventOf(Head(s), p)
      /\ Once(<<Head(s)>>, p) <=> IsEventOf(Head(s), p)
  BY OneIsOnce
<1>4. QED
  BY <1>2, <1>3

\* A description read from the kernel is the monitor's.
LEMMA ReadMoves ==
  ASSUME FlightTypes, HandsOver, MonitorRead, NEW p
  PROVE  (InOnePlace(p) => InOnePlace(p)') /\ (Nowhere(p) => Nowhere(p)')
<1>1. CASE queue = <<>>
  <2>1. UNCHANGED <<queue, carried, pipe, batch>>
    BY <1>1 DEF MonitorRead, MonitorStep
  <2>2. QED
    BY <2>1, PlacesOf, PlacesAfter
<1>2. CASE queue # <<>>
  <2>1. /\ carried = <<>> /\ carried' = <<Head(queue)>> /\ queue' = Tail(queue)
        /\ UNCHANGED <<pipe, batch>>
    BY <1>2 DEF MonitorRead, MonitorStep, HandsOver
  <2>2. /\ IsEventOf(Head(queue), p) => ~Never(queue, p) /\ (Once(queue, p) => Never(queue', p))
        /\ ~IsEventOf(Head(queue), p) => /\ Never(queue, p) => Never(queue', p)
                                         /\ Once(queue, p) => Once(queue', p)
    BY <1>2, <2>1, FrontCounts DEF FlightTypes
  <2>3. /\ Never(carried, p) /\ ~Once(carried, p)
        /\ Never(carried', p) <=> ~IsEventOf(Head(queue), p)
        /\ Once(carried', p) <=> IsEventOf(Head(queue), p)
    BY <2>1, EmptyHasNone, OneIsOnce
  <2>4. /\ Never(pipe', p) <=> Never(pipe, p) 
        /\ Once(pipe', p) <=> Once(pipe, p)
        /\ Never(batch', p) <=> Never(batch, p) 
        /\ Once(batch', p) <=> Once(batch, p)
    BY <2>1
  <2>5. QED
    BY <2>2, <2>3, <2>4, PlacesOf, PlacesAfter
<1>3. QED
  BY <1>1, <1>2

\* A description the monitor writes is in the pipe, if anybody reads the pipe.
LEMMA WriteMoves ==
  ASSUME FlightTypes, HandsOver, MonitorWrite, pc # "failed", NEW p
  PROVE  (InOnePlace(p) => InOnePlace(p)') /\ (Nowhere(p) => Nowhere(p)')
<1>1. /\ carried' = <<>> /\ pipe' = pipe \o carried
      /\ UNCHANGED <<queue, batch>>
  BY DEF MonitorWrite, MonitorStep, HandsOver
<1>2. /\ Never(pipe, p) /\ Never(carried, p) => Never(pipe', p)
      /\ Never(pipe, p) /\ Once(carried, p) => Once(pipe', p)
      /\ Once(pipe, p) /\ Never(carried, p) => Once(pipe', p)
  BY <1>1, ConcatCounts DEF FlightTypes
<1>3. Never(carried', p)
  BY <1>1, EmptyHasNone
<1>4. /\ Never(queue', p) <=> Never(queue, p) 
      /\ Once(queue', p) <=> Once(queue, p)
      /\ Never(batch', p) <=> Never(batch, p) 
      /\ Once(batch', p) <=> Once(batch, p)
  BY <1>1
<1>5. QED
  BY <1>2, <1>3, <1>4, PlacesOf, PlacesAfter

\* What is in the pipe becomes the batch, which was finished.
LEMMA PollMoves ==
  ASSUME HandsOver, NEW command \in BOOLEAN, PollReturns(command), NEW p
  PROVE  (InOnePlace(p) => InOnePlace(p)') /\ (Nowhere(p) => Nowhere(p)')
<1>1. UNCHANGED <<queue, carried>> /\ (UNCHANGED <<batch, pipe>> \/ ReadPipe) /\ batch = <<>>
  BY DEF PollReturns, OrchestratorStep, monVars, HandsOver
<1>2. Never(batch, p) /\ ~Once(batch, p)
  BY <1>1, EmptyHasNone
<1>3. \/ UNCHANGED <<batch, pipe>>
      \/ batch' = pipe /\ Never(pipe', p)
  BY <1>1, EmptyHasNone DEF ReadPipe
<1>4. QED
  BY <1>1, <1>2, <1>3, PlacesOf, PlacesAfter

\* A description leaves the batch.
LEMMA DropCounts ==
  ASSUME FlightTypes, batch # <<>>, batch' = Tail(batch), UNCHANGED <<queue, carried, pipe>>, NEW p
  PROVE  /\ ~IsEventOf(Head(batch), p) =>
              (InOnePlace(p) => InOnePlace(p)') /\ (Nowhere(p) => Nowhere(p)')
         /\ IsEventOf(Head(batch), p) =>
              ~Nowhere(p) /\ (InOnePlace(p) => Nowhere(p)')
<1>1. /\ IsEventOf(Head(batch), p) => ~Never(batch, p) /\ (Once(batch, p) => Never(batch', p))
      /\ ~IsEventOf(Head(batch), p) => /\ Never(batch, p) => Never(batch', p)
                                       /\ Once(batch, p) => Once(batch', p)
  BY FrontCounts DEF FlightTypes
<1>2. QED
  BY <1>1, PlacesOf, PlacesAfter

\* The process of an event the orchestrator has done with does not wait any more.
LEMMA AnswerKeepsTrack ==
  ASSUME FlightTypes, FlightShape, Tracked, ~jammed, AddEvent \/ AddEventInError
  PROVE  Tracked'
<1> DEFINE e == Head(batch)
<1>1. batch # <<>> /\ batch' = Tail(batch) /\ UNCHANGED <<queue, carried, pipe>> /\ e.type = "event"
  BY DEF AddEvent, AddEventInError, InBatch, Processed, ProcessingFails, OrchestratorStep, monVars
<1>2. e.pid \in Procs
  BY <1>1, HeadIsEvent
<1>3. PICK new \in {"trusted", "untrusted"} : SetTrust(e.pid, e.point, new)
  BY DEF AddEvent, AddEventInError, Answer, release, discipline
<1>4. proc' = IF proc[e.pid] = "waiting" THEN [proc EXCEPT ![e.pid] = "running"] ELSE proc
  BY <1>3 DEF SetTrust, Accepted
<1>5. ASSUME NEW q \in Procs
      PROVE  /\ proc'[q] = "waiting" => InOnePlace(q)'
             /\ proc'[q] = "running" => Nowhere(q)'
  <2>1. CASE q = e.pid
    <3>1. IsEventOf(e, q)
      BY <1>1, <2>1 DEF IsEventOf
    <3>2. ~Nowhere(q) /\ (InOnePlace(q) => Nowhere(q)')
      BY <1>1, <3>1, DropCounts
    <3>3. proc[q] # "running" /\ (proc[q] = "waiting" => Nowhere(q)')
      BY <3>2 DEF Tracked
    <3>4. /\ proc'[q] # "waiting"
          /\ proc'[q] = "running" => proc[q] \in {"waiting", "running"}
      BY <1>4, <2>1 DEF FlightShape
    <3>5. QED
      BY <3>3, <3>4
  <2>2. CASE q # e.pid
    <3>1. ~IsEventOf(e, q)
      BY <2>2 DEF IsEventOf
    <3>2. (InOnePlace(q) => InOnePlace(q)') /\ (Nowhere(q) => Nowhere(q)')
      BY <1>1, <3>1, DropCounts
    <3>3. proc'[q] = proc[q]
      BY <1>2, <1>4, <2>2 DEF FlightShape
    <3>4. QED
      BY <3>2, <3>3 DEF Tracked
  <2>3. QED
    BY <2>1, <2>2
<1>6. QED
  BY <1>5 DEF Tracked

LEMMA FlightInvStep ==
  FlightTypes /\ FlightShape /\ HandsOver /\ FlightInv /\ [Next]_vars => FlightInv'
<1> SUFFICES ASSUME FlightTypes, FlightShape, HandsOver, FlightInv, [Next]_vars,
                    pc' # "failed", ~jammed'
             PROVE  Tracked'
  BY DEF FlightInv
<1> DEFINE Still == UNCHANGED <<queue, carried, pipe, batch>> /\ \A p \in Procs : proc'[p] \in {proc[p], "dead"}
<1>a. pc # "failed" /\ ~jammed /\ Tracked
  BY FailureStays DEF FlightInv
<1>b. Still => Tracked'
  <2> SUFFICES ASSUME Still PROVE Moves
    BY <1>a, MovesKeepTrack
  <2>1. \A p : (InOnePlace(p) => InOnePlace(p)') /\ (Nowhere(p) => Nowhere(p)')
    BY PlacesOf, PlacesAfter
  <2>2. QED
    BY <2>1 DEF Moves
<1>c. UNCHANGED proc /\ (\A p : (InOnePlace(p) => InOnePlace(p)') /\ (Nowhere(p) => Nowhere(p)'))
        => Tracked'
  BY <1>a, MovesKeepTrack DEF Moves
<1> HIDE DEF Still
<1>1. ASSUME NEW p \in Procs, NEW pt \in Points,
             SecurityEvent(p, pt) \/ AtomicEvent(p, pt) \/ LoggedEvent(p, pt)
      PROVE  Tracked'
  BY <1>a, <1>1, ExportKeepsTrack
<1>2. ASSUME NEW p \in Procs, Die(p) PROVE Tracked'
  BY <1>b, <1>2 DEF Still, Die, Kill
<1>3. CASE Runc
  BY <1>b, <1>3 DEF Still, Runc, RuncExit, Kill
<1>4. CASE Interrupt
  BY <1>b, <1>4 DEF Still, Interrupt, workloadVars
<1>5. CASE Monitor
  <2>1. UNCHANGED proc
    BY <1>5 DEF Monitor, MonitorCheck, MonitorPoll, MonitorWake, MonitorRead, MonitorWrite,
      MonitorReap, MonitorExit, MonitorStep, workloadVars
  <2>2. CASE MonitorRead
    BY <1>c, <2>1, <2>2, ReadMoves
  <2>3. CASE MonitorWrite
    BY <1>a, <1>c, <2>1, <2>3, WriteMoves
  <2>4. CASE MonitorCheck \/ MonitorPoll \/ MonitorWake \/ MonitorReap \/ MonitorExit
    BY <1>b, <2>1, <2>4 DEF Still, MonitorCheck, MonitorPoll, MonitorWake, MonitorReap, MonitorExit,
      MonitorStep
  <2>5. QED
    BY <1>5, <2>2, <2>3, <2>4 DEF Monitor
<1>6. ASSUME NEW command \in BOOLEAN, PollReturns(command) PROVE Tracked'
  <2>1. UNCHANGED proc
    BY <1>6 DEF PollReturns, OutsideModelling
  <2>2. QED
    BY <1>6, <1>c, <2>1, PollMoves
<1>7. CASE PollBlocks \/ Interrupted \/ WaitForRunc \/ CommandSeal \/ CommandShow \/ CommandFails \/ Finish
  BY <1>7, <1>b DEF Still, PollBlocks, Interrupted, WaitForRunc, CommandSeal, CommandShow,
    CommandFails, Finish, OrchestratorStep, OutsideModelling, monVars
<1>8. CASE ProcessEvent
  <2>1. CASE AddEvent \/ AddEventInError
    BY <1>a, <2>1, AnswerKeepsTrack
  <2>2. CASE ModelUpdateFails
    BY <2>2 DEF ModelUpdateFails, ProcessingFails, OrchestratorStep
  <2>3. CASE add_aggregate \/ AddAsyncEvent \/ AddAsyncEventInError \/ add_log
    <3>1. /\ batch # <<>> /\ batch' = Tail(batch) /\ UNCHANGED <<queue, carried, pipe, proc>>
          /\ Head(batch).type # "event"
      BY <2>3 DEF add_aggregate, AddAsyncEvent, AddAsyncEventInError, add_log, InBatch, Processed,
        ProcessingFails, ShutWorkloadDown, OrchestratorStep, OutsideModelling, monVars
    <3>2. \A p : ~IsEventOf(Head(batch), p)
      BY <3>1 DEF IsEventOf
    <3>3. QED
      BY <1>c, <3>1, <3>2, DropCounts
  <2>4. QED
    BY <1>8, <2>1, <2>2, <2>3 DEF ProcessEvent
<1>9. CASE UNCHANGED vars
  BY <1>9, <1>b DEF Still, vars
<1>10. QED
  BY <1>1, <1>2, <1>3, <1>4, <1>5, <1>6, <1>7, <1>8, <1>9 DEF Next, Workload, Orchestrator

\* Whatever the schedule of the monitor, the orchestrator, the runcs and the
\* signals, the event a process waits for is in exactly one of the kernel's
\* queue, the monitor's hands, the pipe and the batch, until the orchestrator
\* gives up or the kernel refuses a command.
THEOREM EventIsOnItsWay == Spec => []WaitingIsInFlight
<1>1. Init => FlightTypes /\ FlightShape /\ HandsOver /\ FlightInv
  <2> SUFFICES ASSUME Init PROVE FlightTypes /\ FlightShape /\ HandsOver /\ FlightInv
    OBVIOUS
  <2>1. AggregateExport \in Exports
    BY DEF Exports
  <2>2. FlightTypes
    BY <2>1 DEF Init, FlightTypes
  <2>3. FlightShape
    BY DEF Init, FlightShape
  <2>4. HandsOver
    BY DEF Init, HandsOver
  <2>5. ASSUME NEW p \in Procs PROVE Nowhere(p)
    <3>1. ~IsEventOf(AggregateExport, p)
      BY DEF IsEventOf, AggregateExport
    <3>2. queue = <<AggregateExport>> /\ carried = <<>> /\ pipe = <<>> /\ batch = <<>>
      BY DEF Init
    <3>3. Never(queue, p) /\ Never(carried, p) /\ Never(pipe, p) /\ Never(batch, p)
      BY <3>1, <3>2, OneIsOnce, EmptyHasNone
    <3>4. QED
      BY <3>3, PlacesOf
  <2>6. \A p \in Procs : proc[p] = "running"
    BY DEF Init
  <2>7. FlightInv
    BY <2>5, <2>6 DEF FlightInv, Tracked
  <2>8. QED
    BY <2>2, <2>3, <2>4, <2>7
<1>2. FlightShape /\ [Next]_vars => FlightShape'
  BY FailureStays
<1>3. FlightInv => WaitingIsInFlight
  BY DEF FlightInv, Tracked, WaitingIsInFlight
<1>4. QED
  BY <1>1, <1>2, <1>3, FlightTypesStep, HandsOverStep, FlightInvStep, PTL DEF Spec
=============================================================================
