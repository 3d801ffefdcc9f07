-------------------------- MODULE QuixoteExportProofs --------------------------
(***************************************************************************)
(* Theorems about the exporter of module QuixoteExport, for any number of  *)
(* events, any size of the pipe, every mode and whatever fails; and about  *)
(* the other parts of module MCExporters, as they are composed there: the  *)
(* control file, the utility for the root namespace, and the enclave.      *)
(***************************************************************************)
EXTENDS MCExporters, SequenceTheorems, FiniteSetTheorems, WellFoundedInduction, TLAPS

-----------------------------------------------------------------------------
(* Sequences of events.                                                    *)

\* Concatenation as a name, whose meaning the provers need not look into.
Cat(x, y) == x \o y

LEMMA CatAssoc ==
  /\ \A x, y \in Seq(Nat) : Cat(x, y) \in Seq(Nat)
  /\ \A x, y, z \in Seq(Nat) : Cat(Cat(x, y), z) = Cat(x, Cat(y, z))
<1>1. ASSUME NEW x \in Seq(Nat), NEW y \in Seq(Nat) PROVE Cat(x, y) \in Seq(Nat)
  BY ConcatProperties DEF Cat
<1>2. ASSUME NEW x \in Seq(Nat), NEW y \in Seq(Nat), NEW z \in Seq(Nat)
      PROVE  Cat(Cat(x, y), z) = Cat(x, Cat(y, z))
  BY SMTT(30), ConcatAssociative DEF Cat
<1>3. QED
  BY <1>1, <1>2

LEMMA HeadAndTail ==
  ASSUME NEW s \in Seq(Nat), s # <<>>
  PROVE  s = <<Head(s)>> \o Tail(s)
<1>1. Len(s) \in Nat \ {0} /\ 1 \in 1..Len(s) /\ Len(s) \in 1..Len(s)
  BY EmptySeq
<1>2. SubSeq(s, 1, Len(s)) = <<s[1]>> \o SubSeq(s, 1 + 1, Len(s))
  BY <1>1, SubSeqRecursiveFirst
<1>3. SubSeq(s, 1, Len(s)) = s
  BY SubSeqFull
<1>4. Tail(s) = SubSeq(s, 2, Len(s))
  BY TailIsSubSeq
<1>5. Head(s) = s[1] /\ 1 + 1 = 2
  OBVIOUS
<1>6. QED
  BY <1>2, <1>3, <1>4, <1>5

\* What is taken from the front of one sequence and put at the end of another.
LEMMA HeadMoves ==
  ASSUME NEW a \in Seq(Nat), NEW s \in Seq(Nat), s # <<>>
  PROVE  /\ Append(a, Head(s)) \in Seq(Nat) /\ Tail(s) \in Seq(Nat)
         /\ Append(a, Head(s)) \o Tail(s) = a \o s
<1>1. Head(s) \in Nat /\ Tail(s) \in Seq(Nat) /\ <<Head(s)>> \in Seq(Nat)
  BY HeadTailProperties
<1>2. Append(a, Head(s)) = a \o <<Head(s)>> /\ Append(a, Head(s)) \in Seq(Nat)
  BY <1>1, AppendIsConcat, AppendProperties
<1>3. (a \o <<Head(s)>>) \o Tail(s) = a \o (<<Head(s)>> \o Tail(s))
  <2>1. Cat(Cat(a, <<Head(s)>>), Tail(s)) = Cat(a, Cat(<<Head(s)>>, Tail(s)))
    BY ZenonT(60), <1>1, CatAssoc
  <2>2. QED
    BY <2>1 DEF Cat
<1>4. QED
  BY <1>1, <1>2, <1>3, HeadAndTail

LEMMA AppendMoves ==
  ASSUME NEW s \in Seq(Nat), NEW t \in Seq(Nat), NEW n \in Nat
  PROVE  s \o Append(t, n + 1) = Append(s \o t, n + 1)
<1>1. n + 1 \in Nat /\ <<n + 1>> \in Seq(Nat) /\ s \o t \in Seq(Nat)
  BY ConcatProperties
<1>2. /\ Append(t, n + 1) = t \o <<n + 1>>
      /\ Append(s \o t, n + 1) = (s \o t) \o <<n + 1>>
  BY <1>1, AppendIsConcat
<1>3. Cat(Cat(s, t), <<n + 1>>) = Cat(s, Cat(t, <<n + 1>>))
  BY ZenonT(60), <1>1, CatAssoc
<1>4. (s \o t) \o <<n + 1>> = s \o (t \o <<n + 1>>)
  BY <1>3 DEF Cat
<1>5. QED
  BY <1>2, <1>4

\* The front of a sequence that is followed by another.
LEMMA HeadOfConcat ==
  ASSUME NEW s \in Seq(Nat), s # <<>>, NEW t \in Seq(Nat)
  PROVE  /\ s \o t \in Seq(Nat) /\ s \o t # <<>>
         /\ Head(s \o t) = Head(s) /\ Tail(s \o t) = Tail(s) \o t
<1>1. /\ Len(s) \in Nat \ {0} /\ Len(t) \in Nat
      /\ Tail(s) \in Seq(Nat) /\ Len(Tail(s)) = Len(s) - 1
      /\ \A i \in 1..Len(Tail(s)) : Tail(s)[i] = s[i + 1]
  BY HeadTailProperties, EmptySeq
<1> DEFINE u == s \o t  v == Tail(s)
<1>2. /\ u \in Seq(Nat) /\ Len(u) = Len(s) + Len(t)
      /\ \A i \in 1..(Len(s) + Len(t)) : u[i] = IF i <= Len(s) THEN s[i] ELSE t[i - Len(s)]
  BY ConcatProperties
<1>3. v \in Seq(Nat) /\ Len(v) = Len(s) - 1 /\ \A i \in 1..Len(v) : v[i] = s[i + 1]
  BY <1>1
<1> HIDE DEF u, v
<1>4. u # <<>> /\ Head(u) = u[1] /\ u[1] = s[1] /\ Head(s) = s[1]
  BY <1>1, <1>2
<1>5. /\ Tail(u) \in Seq(Nat) /\ Len(Tail(u)) = Len(u) - 1
      /\ \A i \in 1..Len(Tail(u)) : Tail(u)[i] = u[i + 1]
  BY <1>2, <1>4, HeadTailProperties
<1>6. /\ v \o t \in Seq(Nat) /\ Len(v \o t) = Len(v) + Len(t)
      /\ \A i \in 1..(Len(v) + Len(t)) : (v \o t)[i] = IF i <= Len(v) THEN v[i] ELSE t[i - Len(v)]
  BY <1>3, ConcatProperties
<1>7. Len(Tail(u)) = Len(v \o t)
  BY <1>1, <1>2, <1>3, <1>5, <1>6
<1>8. ASSUME NEW i \in 1..Len(Tail(u)) PROVE Tail(u)[i] = (v \o t)[i]
  <2>1. i \in Nat /\ i + 1 \in 1..(Len(s) + Len(t)) /\ i \in 1..(Len(v) + Len(t))
    BY <1>1, <1>2, <1>3, <1>5
  <2>2. Tail(u)[i] = IF i + 1 <= Len(s) THEN s[i + 1] ELSE t[i + 1 - Len(s)]
    BY SMTT(30), <1>2, <1>5, <2>1
  <2>3. (v \o t)[i] = IF i <= Len(s) - 1 THEN s[i + 1] ELSE t[i - (Len(s) - 1)]
    BY SMTT(30), <1>1, <1>3, <1>6, <2>1
  <2>4. QED
    BY SMTT(30), <1>1, <2>1, <2>2, <2>3
<1>9. Tail(u) = v \o t
  BY ZenonT(60), <1>5, <1>6, <1>7, <1>8, SeqEqual
<1>10. QED
  BY <1>2, <1>4, <1>9 DEF u, v

-----------------------------------------------------------------------------
(* How the processes end.                                                  *)

\* An orchestrator that waits ends after the monitor, a monitor that has not
\* failed after the workload; one that is not about to write, or has failed at
\* it, has nothing in its hands.
EndInv ==
  /\ pc = "ended" => MonitorEnded
  /\ mon = "exited" => workload # "running"
  /\ mon = "setup" => workload = "none"
  /\ pc = "fetch" => batch # <<>>
  /\ mon \notin {"write", "failed"} => carried = <<>>

FlowTypes ==
  /\ {file, carried, pipe, batch, output} \subseteq Seq(Nat)
  /\ generated \in Nat

LEMMA EndStep ==
  ASSUME FlowTypes, EndInv, [Next]_vars PROVE EndInv'
<1>1. CASE generate
  BY <1>1 DEF generate, monVars, mainVars, EndInv, MonitorEnded
<1>2. CASE exit
  BY <1>2 DEF exit, WorkloadEnds, MonWoken, mainVars, EndInv, MonitorEnded
<1>3. CASE Monitor \/ MonitorFails
  <2>1. CASE monitor_exit \/ monitor_reap
    BY <2>1 DEF monitor_exit, monitor_reap, MonitorStep, MonitorEnds, Woken, workVars, mainVars, EndInv,
       MonitorEnded
  <2>2. CASE launch \/ set_user \/ monitor_stop \/ monitor_poll \/ monitor_wake
    BY <2>2 DEF launch, set_user, monitor_stop, monitor_poll, monitor_wake, MonitorStep,
       workVars, mainVars, EndInv, MonitorEnded
  <2>3. CASE monitor_read \/ monitor_write \/ monitor_term
    BY <2>3 DEF monitor_read, monitor_write, monitor_term, MonitorStep, Woken, workVars, mainVars, EndInv,
       MonitorEnded
  <2>4. CASE MonitorFails
    BY <2>4 DEF MonitorFails, launch_fails, set_user_fails, monitor_read_fails, MonitorEnds, Woken, workVars,
       EndInv, MonitorEnded
  <2>5. QED
    BY <1>3, <2>1, <2>2, <2>3, <2>4 DEF Monitor
<1>4. CASE Main \/ MainFails
  <2>1. CASE read_event
    <3>1. batch \o pipe # <<>>
      BY <2>1, ConcatEqualIffEmpty DEF read_event, FlowTypes
    <3>2. QED
      BY <2>1, <3>1 DEF read_event, Others, workVars, monVars, EndInv, MonitorEnded
  <2>2. CASE output_event
    <3>0. batch \in Seq(Nat) /\ batch # <<>>
      BY <2>2 DEF output_event, MainStep, EndInv, FlowTypes
    <3>1. Len(batch) > 1 => Tail(batch) # <<>>
      <4>1. Tail(batch) \in Seq(Nat) /\ Len(Tail(batch)) = Len(batch) - 1 /\ Len(batch) \in Nat
        BY <3>0, HeadTailProperties
      <4>2. \A t \in Seq(Nat) : t = <<>> => Len(t) = 0
        BY EmptySeq
      <4>3. Tail(batch) = <<>> => Len(Tail(batch)) = 0
        BY <4>1, <4>2
      <4>4. Len(batch) > 1 => Len(Tail(batch)) # 0
        BY SMTT(30), <4>1
      <4>5. QED
        BY <4>3, <4>4
    <3>2. QED
      BY <2>2, <3>1 DEF output_event, MainStep, Others, workVars, monVars, EndInv, MonitorEnded
  <2>3. CASE drop_root \/ poll_blocks \/ poll_interrupted \/ poll_hangup \/ wait \/ MainFails
    BY <2>3 DEF drop_root, poll_blocks, poll_interrupted, Interrupted, poll_hangup, wait, MainFails,
       drop_root_fails, read_event_fails, fetch_event_fails, output_fails, MainStep, Others, workVars, monVars,
       EndInv, MonitorEnded
  <2>4. CASE kill_process
    BY <2>4 DEF kill_process, Then, MainStep, MonWoken, workVars, EndInv, MonitorEnded
  <2>5. CASE kill_runc \/ kill_runc_later
    BY <2>5 DEF kill_runc, kill_runc_later, RuncKills, Then, MainStep, MonWoken, Others, workVars, monVars,
       EndInv, MonitorEnded
  <2>6. QED
    BY <1>4, <2>1, <2>2, <2>3, <2>4, <2>5 DEF Main
<1>5. CASE signal \/ runc_kills
  BY <1>5 DEF signal, runc_kills, RuncKills, Woken, MonWoken, workVars, EndInv, MonitorEnded
<1>6. CASE UNCHANGED vars
  BY <1>6 DEF vars, workVars, monVars, mainVars, EndInv, MonitorEnded
<1>7. QED
  BY <1>1, <1>2, <1>3, <1>4, <1>5, <1>6 DEF Next

LEMMA InitEnds == Init => EndInv /\ FlowTypes
BY DEF Init, EndInv, FlowTypes, MonitorEnded

-----------------------------------------------------------------------------
(* What is on the way.                                                     *)

OnTheWay == batch \o (pipe \o (carried \o file))

\* What a step does to the events: nothing, or one is generated, written, or
\* lost by a failure of the orchestrator.
Moved ==
  \/ UNCHANGED <<output, OnTheWay, generated>> /\ (failed' \/ UNCHANGED failed)
  \/ /\ OnTheWay' = Append(OnTheWay, generated + 1) /\ generated' = generated + 1
     /\ UNCHANGED <<output, failed>>
  \/ /\ OnTheWay # <<>> /\ OnTheWay' = Tail(OnTheWay)
     /\ UNCHANGED generated
     /\ \/ output' = Append(output, Head(OnTheWay)) /\ UNCHANGED failed
        \/ UNCHANGED output /\ failed'

LEMMA WayIsSeq ==
  FlowTypes => /\ OnTheWay \in Seq(Nat)
               /\ carried \o file \in Seq(Nat) /\ pipe \o (carried \o file) \in Seq(Nat)
BY ConcatProperties DEF FlowTypes, OnTheWay

LEMMA MoveStep ==
  ASSUME FlowTypes, EndInv, [Next]_vars PROVE Moved /\ FlowTypes'
<1> DEFINE rest == pipe \o (carried \o file)
<1>0. rest \in Seq(Nat) /\ carried \o file \in Seq(Nat)
  BY WayIsSeq
<1>1. ASSUME UNCHANGED <<file, carried, pipe, batch, output, generated>>, failed' \/ UNCHANGED failed
      PROVE  Moved /\ FlowTypes'
  BY <1>1 DEF Moved, OnTheWay, FlowTypes
<1>2. CASE generate
  <2>1. /\ file' = Append(file, generated + 1) /\ generated' = generated + 1
        /\ UNCHANGED <<carried, pipe, batch, output, failed>>
    BY <1>2 DEF generate, monVars, mainVars
  <2>2. file' \in Seq(Nat)
    BY <2>1, AppendProperties DEF FlowTypes
  <2>3. \A s \in Seq(Nat), t \in Seq(Nat) : s \o Append(t, generated + 1) = Append(s \o t, generated + 1)
    BY AppendMoves DEF FlowTypes
  <2>4. carried \o file' = Append(carried \o file, generated + 1)
    BY <2>1, <2>3 DEF FlowTypes
  <2>5. pipe \o (carried \o file') = Append(rest, generated + 1)
    <3>1. pipe \in Seq(Nat) /\ carried \o file \in Seq(Nat)
      BY <1>0 DEF FlowTypes
    <3>2. pipe \o Append(carried \o file, generated + 1) = Append(rest, generated + 1)
      BY <2>3, <3>1
    <3>3. QED
      BY <2>4, <3>2
  <2>6. OnTheWay' = Append(OnTheWay, generated + 1)
    <3>1. batch \in Seq(Nat)
      BY DEF FlowTypes
    <3>2. batch \o Append(rest, generated + 1) = Append(batch \o rest, generated + 1)
      BY <1>0, <2>3, <3>1
    <3>3. QED
      BY <2>1, <2>5, <3>2 DEF OnTheWay
  <2>7. QED
    BY <2>1, <2>2, <2>6 DEF Moved, FlowTypes
<1>3. CASE exit
  BY <1>1, <1>3 DEF exit, WorkloadEnds, mainVars
<1>4. CASE monitor_read /\ file # <<>>
  <2>1. /\ carried' = <<Head(file)>> /\ file' = Tail(file) /\ carried = <<>>
        /\ UNCHANGED <<pipe, batch, output, generated, failed>>
    BY <1>4 DEF monitor_read, MonitorStep, workVars, mainVars, EndInv
  <2>2. /\ Head(file) \in Nat /\ Tail(file) \in Seq(Nat) /\ <<Head(file)>> \o Tail(file) = file
    BY <1>4, HeadTailProperties, HeadAndTail DEF FlowTypes
  <2>3. carried' \o file' = carried \o file
    BY <2>1, <2>2, ConcatEmptySeq DEF FlowTypes
  <2>4. OnTheWay' = OnTheWay
    BY <2>1, <2>3 DEF OnTheWay
  <2>5. carried' \in Seq(Nat)
    BY <2>1, <2>2
  <2>6. QED
    BY <2>1, <2>2, <2>4, <2>5 DEF Moved, FlowTypes
<1>5. CASE monitor_write /\ ~UNCHANGED <<carried, pipe>>
  <2>1. /\ carried' = <<>> /\ pipe' = pipe \o carried
        /\ UNCHANGED <<file, batch, output, generated, failed>>
    BY <1>5 DEF monitor_write, MonitorStep, workVars, mainVars, EndInv
  <2>2. pipe' \o (carried' \o file') = rest
    <3>1. carried' \o file' = file
      BY <2>1, ConcatEmptySeq DEF FlowTypes
    <3>2. (pipe \o carried) \o file = rest
      <4>1. Cat(Cat(pipe, carried), file) = Cat(pipe, Cat(carried, file))
        BY CatAssoc DEF FlowTypes
      <4>2. QED
        BY <4>1 DEF Cat
    <3>3. QED
      BY <2>1, <3>1, <3>2
  <2>3. OnTheWay' = OnTheWay
    BY <2>1, <2>2 DEF OnTheWay
  <2>4. pipe' \in Seq(Nat) /\ carried' \in Seq(Nat)
    BY <2>1, ConcatProperties DEF FlowTypes
  <2>5. QED
    BY <2>1, <2>3, <2>4 DEF Moved, FlowTypes
<1>6. CASE \/ monitor_read /\ file = <<>>
           \/ monitor_write /\ UNCHANGED <<carried, pipe>>
           \/ launch \/ set_user \/ monitor_stop \/ monitor_term \/ monitor_exit \/ monitor_poll
           \/ monitor_wake \/ monitor_reap \/ MonitorFails
  BY <1>1, <1>6 DEF monitor_read, monitor_write, launch, set_user, monitor_stop, monitor_term, monitor_exit,
     monitor_poll, monitor_wake, monitor_reap, MonitorFails, launch_fails, set_user_fails, monitor_read_fails,
     MonitorStep, MonitorEnds, workVars, mainVars
<1>7. CASE read_event
  <2>1. /\ batch' = batch \o pipe /\ pipe' = <<>>
        /\ UNCHANGED <<file, carried, output, generated, failed>>
    BY <1>7 DEF read_event, Others, workVars, monVars
  <2>2. OnTheWay' = OnTheWay
    <3>1. pipe' \o (carried' \o file') = carried \o file
      BY <1>0, <2>1, ConcatEmptySeq
    <3>2. (batch \o pipe) \o (carried \o file) = OnTheWay
      <4>1. batch \in Seq(Nat) /\ pipe \in Seq(Nat)
        BY DEF FlowTypes
      <4>2. Cat(Cat(batch, pipe), carried \o file) = Cat(batch, Cat(pipe, carried \o file))
        BY <1>0, <4>1, CatAssoc
      <4>3. QED
        BY <4>2 DEF Cat, OnTheWay
    <3>3. QED
      BY <2>1, <3>1, <3>2 DEF OnTheWay
  <2>3. batch' \in Seq(Nat) /\ pipe' \in Seq(Nat)
    BY <2>1, ConcatProperties DEF FlowTypes
  <2>4. QED
    BY <2>1, <2>2, <2>3 DEF Moved, FlowTypes
<1>8. CASE output_event \/ output_fails \/ fetch_event_fails
  <2>1. /\ batch # <<>> /\ batch' = Tail(batch)
        /\ UNCHANGED <<file, carried, pipe, generated>>
        /\ \/ output' = Append(output, Head(batch)) /\ UNCHANGED failed
           \/ UNCHANGED output /\ failed'
    BY <1>8 DEF output_event, output_fails, fetch_event_fails, MainStep, Others, workVars, monVars, EndInv
  <2>2. /\ OnTheWay # <<>> /\ Head(OnTheWay) = Head(batch) /\ Tail(OnTheWay) = Tail(batch) \o rest
    BY <1>0, <2>1, HeadOfConcat DEF FlowTypes, OnTheWay
  <2>3. OnTheWay' = Tail(batch) \o rest
    BY <2>1 DEF OnTheWay
  <2>4. Head(batch) \in Nat /\ Tail(batch) \in Seq(Nat)
    BY <2>1, HeadTailProperties DEF FlowTypes
  <2>5. output' \in Seq(Nat) /\ batch' \in Seq(Nat)
    <3>1. output \in Seq(Nat)
      BY DEF FlowTypes
    <3>2. Append(output, Head(batch)) \in Seq(Nat)
      BY <2>4, <3>1, AppendProperties
    <3>3. QED
      BY <2>1, <2>4, <3>1, <3>2
  <2>6. Moved
    BY <2>1, <2>2, <2>3 DEF Moved
  <2>7. QED
    BY <2>1, <2>5, <2>6 DEF FlowTypes
<1>9. CASE \/ drop_root \/ poll_blocks \/ poll_interrupted \/ poll_hangup \/ drop_root_fails
           \/ read_event_fails \/ kill_process \/ kill_runc \/ kill_runc_later \/ runc_kills \/ wait \/ signal
  BY <1>1, <1>9 DEF drop_root, poll_blocks, poll_interrupted, poll_hangup, drop_root_fails, read_event_fails,
     kill_process, kill_runc, kill_runc_later, runc_kills, RuncKills, wait, signal, Others, workVars, monVars
<1>10. CASE UNCHANGED vars
  BY <1>1, <1>10 DEF vars, workVars, monVars, mainVars
<1>11. QED
  BY <1>2, <1>3, <1>4, <1>5, <1>6, <1>7, <1>8, <1>9, <1>10 DEF Next, Monitor, Main, MainFails

-----------------------------------------------------------------------------
(* Nothing is lost.                                                        *)

\* Taken together, what was written and what is on the way are the events, as
\* long as the orchestrator has not failed to read or to write one; whatever
\* fails, they come in order and none of them was not generated.
Increasing(s) == \A i, j \in 1..Len(s) : i < j => s[i] < s[j]

FlowInv ==
  /\ ~failed => output \o OnTheWay = Numbers(1, generated)
  /\ Increasing(output \o OnTheWay)
  /\ \A i \in 1..Len(output \o OnTheWay) : (output \o OnTheWay)[i] <= generated

LEMMA NumbersGrow ==
  ASSUME NEW n \in Nat
  PROVE  /\ Numbers(1, n) \in Seq(Nat) /\ Len(Numbers(1, n)) = n
         /\ Append(Numbers(1, n), n + 1) = Numbers(1, n + 1)
<1>1. \A k \in Nat : /\ Numbers(1, k) \in Seq(Nat) /\ Len(Numbers(1, k)) = k
                     /\ \A i \in 1..k : Numbers(1, k)[i] = i
  <2> SUFFICES ASSUME NEW k \in Nat
               PROVE  /\ Numbers(1, k) \in Seq(Nat) /\ Len(Numbers(1, k)) = k
                      /\ \A i \in 1..k : Numbers(1, k)[i] = i
    OBVIOUS
  <2>1. k - 1 + 1 = k /\ \A i \in 1..k : i \in Nat /\ 1 + i - 1 = i
    OBVIOUS
  <2>2. Numbers(1, k) = [i \in 1..k |-> i]
    BY <2>1 DEF Numbers
  <2>3. [i \in 1..k |-> i] \in Seq(Nat)
    BY <2>1, IsASeq
  <2>4. QED
    BY <2>2, <2>3
<1> DEFINE s == Append(Numbers(1, n), n + 1)  t == Numbers(1, n + 1)
<1>2. n + 1 \in Nat /\ \A i \in 1..(n + 1) : i \in 1..n \/ i = n + 1
  OBVIOUS
<1>3. /\ s \in Seq(Nat) /\ Len(s) = n + 1
      /\ \A i \in 1..n : s[i] = i
      /\ s[n + 1] = n + 1
  BY <1>1, <1>2, AppendProperties
<1>4. t \in Seq(Nat) /\ Len(t) = n + 1 /\ \A i \in 1..(n + 1) : t[i] = i
  BY <1>1, <1>2
<1> HIDE DEF s, t
<1>5. \A i \in 1..(n + 1) : s[i] = t[i]
  BY <1>2, <1>3, <1>4
<1>6. s = t
  BY <1>3, <1>4, <1>5, SeqEqual
<1>7. QED
  BY <1>1, <1>6 DEF s, t

Ordered(s, n) == Increasing(s) /\ \A i \in 1..Len(s) : s[i] <= n

LEMMA OrderedAppend ==
  ASSUME NEW s \in Seq(Nat), NEW n \in Nat, Ordered(s, n)
  PROVE  Ordered(Append(s, n + 1), n + 1)
<1> DEFINE t == Append(s, n + 1)
<1>1. /\ t \in Seq(Nat) /\ Len(t) = Len(s) + 1 /\ Len(s) \in Nat
      /\ \A i \in 1..Len(s) : t[i] = s[i]
      /\ t[Len(s) + 1] = n + 1
  BY AppendProperties, LenProperties
<1>2. \A i \in 1..Len(s) : s[i] \in Nat
  BY ElementOfSeq
<1> HIDE DEF t
<1>3. ASSUME NEW i \in 1..Len(t), NEW j \in 1..Len(t), i < j PROVE t[i] < t[j]
  <2>0. Len(s) \in Nat /\ i \in 1..(Len(s) + 1) /\ j \in 1..(Len(s) + 1)
    BY <1>1
  <2>1. i \in 1..Len(s) /\ (j \in 1..Len(s) \/ j = Len(s) + 1)
    BY <1>3, <2>0
  <2>2. CASE j \in 1..Len(s)
    BY <1>1, <1>3, <2>1, <2>2 DEF Ordered, Increasing
  <2>3. CASE j = Len(s) + 1
    <3>1. t[i] <= n /\ t[i] \in Nat /\ t[j] = n + 1
      BY <1>1, <1>2, <2>1, <2>3 DEF Ordered
    <3>2. QED
      BY <3>1
  <2>4. QED
    BY <2>1, <2>2, <2>3
<1>4. ASSUME NEW i \in 1..Len(t) PROVE t[i] <= n + 1
  <2>1. CASE i \in 1..Len(s)
    <3>1. t[i] <= n /\ t[i] \in Nat
      BY <1>1, <1>2, <2>1 DEF Ordered
    <3>2. QED
      BY <3>1
  <2>2. CASE i = Len(s) + 1
    BY <1>1, <2>2
  <2>3. QED
    BY <1>1, <2>1, <2>2
<1>5. QED
  BY <1>3, <1>4 DEF Ordered, Increasing, t

\* What is taken out of the middle leaves the rest in order.
LEMMA OrderedWithout ==
  ASSUME NEW s \in Seq(Nat), NEW w \in Seq(Nat), w # <<>>, NEW n \in Nat, Ordered(s \o w, n)
  PROVE  Ordered(s \o Tail(w), n)
<1> DEFINE u == s \o w  v == Tail(w)  t == s \o v
<1>1. Len(s) \in Nat /\ Len(w) \in Nat
  BY LenProperties
<1>2. /\ u \in Seq(Nat) /\ Len(u) = Len(s) + Len(w)
      /\ \A i \in 1..(Len(s) + Len(w)) : u[i] = IF i <= Len(s) THEN s[i] ELSE w[i - Len(s)]
  BY ConcatProperties
<1>3. v \in Seq(Nat) /\ Len(v) = Len(w) - 1 /\ \A i \in 1..Len(v) : v[i] = w[i + 1]
  BY HeadTailProperties
<1>4. /\ t \in Seq(Nat) /\ Len(t) = Len(s) + Len(v)
      /\ \A i \in 1..(Len(s) + Len(v)) : t[i] = IF i <= Len(s) THEN s[i] ELSE v[i - Len(s)]
  BY <1>3, ConcatProperties
<1>5. Ordered(u, n)
  OBVIOUS
<1> HIDE DEF u, v, t
<1> DEFINE f(i) == IF i <= Len(s) THEN i ELSE i + 1
<1>6. ASSUME NEW i \in 1..Len(t) PROVE f(i) \in 1..Len(u) /\ t[i] = u[f(i)]
  <2>0. /\ Len(s) \in Nat /\ Len(w) \in Nat /\ Len(v) = Len(w) - 1
        /\ Len(t) = Len(s) + Len(v) /\ Len(u) = Len(s) + Len(w) /\ i \in 1..Len(t)
    BY <1>1, <1>2, <1>3, <1>4
  <2>1. i \in Nat /\ f(i) \in 1..Len(u)
    BY <2>0
  <2>2. CASE i <= Len(s)
    BY <1>1, <1>2, <1>3, <1>4, <2>1, <2>2
  <2>3. CASE ~(i <= Len(s))
    <3>1. i - Len(s) \in 1..Len(v) /\ i + 1 - Len(s) = (i - Len(s)) + 1
      BY <1>1, <1>4, <1>3, <2>1, <2>3
    <3>2. t[i] = w[i + 1 - Len(s)]
      BY <1>3, <1>4, <2>3, <3>1
    <3>3. u[i + 1] = w[i + 1 - Len(s)]
      BY SMTT(30), <1>1, <1>2, <2>1, <2>3
    <3>4. QED
      BY <2>1, <2>3, <3>2, <3>3
  <2>4. QED
    BY <2>2, <2>3
<1>7. ASSUME NEW i \in 1..Len(t), NEW j \in 1..Len(t), i < j PROVE t[i] < t[j]
  <2>0. Len(s) \in Nat /\ i \in Nat /\ j \in Nat
    BY <1>1
  <2>1. f(i) < f(j)
    BY <1>7, <2>0
  <2>2. QED
    BY <1>5, <1>6, <2>1 DEF Ordered, Increasing
<1>8. QED
  BY <1>5, <1>6, <1>7 DEF Ordered, Increasing, t, v

LEMMA FlowStep ==
  ASSUME FlowTypes, FlowTypes', FlowInv, Moved PROVE FlowInv'
<1>0. /\ output \in Seq(Nat) /\ OnTheWay \in Seq(Nat) /\ generated \in Nat
      /\ output \o OnTheWay \in Seq(Nat)
      /\ Ordered(output \o OnTheWay, generated)
      /\ ~failed => output \o OnTheWay = Numbers(1, generated)
  BY WayIsSeq, ConcatProperties DEF FlowTypes, FlowInv, Ordered
<1> SUFFICES /\ Ordered(output' \o OnTheWay', generated')
             /\ ~failed' => output' \o OnTheWay' = Numbers(1, generated')
  BY DEF FlowInv, Ordered, Increasing, Numbers
<1>1. CASE UNCHANGED <<output, OnTheWay, generated>> /\ (failed' \/ UNCHANGED failed)
  BY <1>0, <1>1
<1>2. CASE /\ OnTheWay' = Append(OnTheWay, generated + 1) /\ generated' = generated + 1
           /\ UNCHANGED <<output, failed>>
  <2>1. output \o Append(OnTheWay, generated + 1) = Append(output \o OnTheWay, generated + 1)
    BY SMTT(30), <1>0, AppendMoves
  <2>2. Ordered(Append(output \o OnTheWay, generated + 1), generated + 1)
    BY <1>0, OrderedAppend
  <2>3. Append(Numbers(1, generated), generated + 1) = Numbers(1, generated + 1)
    BY <1>0, NumbersGrow
  <2>4. QED
    BY <1>0, <1>2, <2>1, <2>2, <2>3
<1>3. CASE /\ OnTheWay # <<>> /\ OnTheWay' = Tail(OnTheWay) /\ UNCHANGED generated
           /\ output' = Append(output, Head(OnTheWay)) /\ UNCHANGED failed
  <2>1. Append(output, Head(OnTheWay)) \o Tail(OnTheWay) = output \o OnTheWay
    BY <1>0, <1>3, HeadMoves
  <2>2. QED
    BY <1>0, <1>3, <2>1
<1>4. CASE /\ OnTheWay # <<>> /\ OnTheWay' = Tail(OnTheWay) /\ UNCHANGED generated
           /\ UNCHANGED output /\ failed'
  BY <1>0, <1>4, OrderedWithout
<1>5. QED
  BY <1>1, <1>2, <1>3, <1>4 DEF Moved

-----------------------------------------------------------------------------
(* The theorems.                                                           *)

ExportInv == FlowTypes /\ EndInv /\ FlowInv

LEMMA InitInv == Init => ExportInv
<1> SUFFICES ASSUME Init PROVE FlowInv
  BY InitEnds DEF ExportInv
<1>1. output = <<>> /\ OnTheWay = <<>> \o (<<>> \o (<<>> \o <<>>)) /\ generated = 0
  BY DEF Init, OnTheWay
<1>2. <<>> \in Seq(Nat) /\ <<>> \o <<>> = <<>>
  BY ConcatEmptySeq
<1>3. output \o OnTheWay = <<>>
  BY <1>1, <1>2
<1>4. Numbers(1, 0) = <<>>
  BY NumbersGrow, EmptySeq
<1>5. Len(output \o OnTheWay) = 0
  BY <1>3
<1>6. QED
  BY <1>1, <1>3, <1>4, <1>5 DEF FlowInv, Increasing

THEOREM ExportCorrect == Spec => []ExportInv
<1>1. ExportInv /\ [Next]_vars => ExportInv'
  <2> SUFFICES ASSUME ExportInv, [Next]_vars PROVE ExportInv'
    OBVIOUS
  <2>1. FlowTypes /\ EndInv /\ FlowInv
    BY DEF ExportInv
  <2>2. Moved /\ FlowTypes'
    BY <2>1, MoveStep
  <2>3. EndInv'
    BY <2>1, EndStep
  <2>4. FlowInv'
    BY <2>1, <2>2, FlowStep
  <2>5. QED
    BY <2>2, <2>3, <2>4 DEF ExportInv
<1>2. QED
  BY InitInv, <1>1, PTL DEF Spec

\* Nothing is lost, comes twice or out of order on the way from the kernel's
\* file by the monitor's hands, the pipe and the object of the orchestrator to
\* the output, as long as the orchestrator has not failed to read or to write
\* one: fire_cartridge and child_monitor.
THEOREM NothingIsLost == Spec => []NothingLostOnTheWay
<1>1. ExportInv => NothingLostOnTheWay
  <2> SUFFICES ASSUME ExportInv, ~failed
               PROVE  output \o batch \o pipe \o carried \o file = Numbers(1, generated)
    BY DEF NothingLostOnTheWay
  <2>1. /\ output \in Seq(Nat) /\ batch \in Seq(Nat) /\ pipe \in Seq(Nat)
        /\ carried \in Seq(Nat) /\ file \in Seq(Nat)
    BY DEF ExportInv, FlowTypes
  <2>2. LET out == Cat(Cat(output, batch), pipe)  rest == Cat(carried, file)
        IN  Cat(Cat(out, carried), file) = Cat(output, Cat(batch, Cat(pipe, rest)))
    <3> DEFINE out == Cat(Cat(output, batch), pipe)  rest == Cat(carried, file)
    <3>1. /\ Cat(output, batch) \in Seq(Nat) /\ out \in Seq(Nat)
          /\ rest \in Seq(Nat) /\ Cat(pipe, rest) \in Seq(Nat)
      BY <2>1, CatAssoc
    <3>2. Cat(Cat(out, carried), file) = Cat(out, rest)
      BY <2>1, <3>1, CatAssoc
    <3>3. Cat(out, rest) = Cat(Cat(output, batch), Cat(pipe, rest))
      BY <2>1, <3>1, CatAssoc
    <3>4. Cat(Cat(output, batch), Cat(pipe, rest)) = Cat(output, Cat(batch, Cat(pipe, rest)))
      BY <2>1, <3>1, CatAssoc
    <3>5. QED
      BY <3>2, <3>3, <3>4
  <2>3. output \o batch \o pipe \o carried \o file = output \o OnTheWay
    BY <2>2 DEF Cat, OnTheWay
  <2>4. QED
    BY <2>3 DEF ExportInv, FlowInv
<1>2. QED
  BY <1>1, ExportCorrect, PTL

\* An output that fails loses events, but never brings them out of order.
THEOREM FailuresKeepTheOrder == Spec => []OutputInOrder
<1>1. ExportInv => OutputInOrder
  <2> SUFFICES ASSUME ExportInv, NEW i \in DOMAIN output, NEW j \in DOMAIN output, i < j
               PROVE  output[i] < output[j]
    BY DEF OutputInOrder
  <2>1. output \in Seq(Nat) /\ OnTheWay \in Seq(Nat)
    BY WayIsSeq DEF ExportInv, FlowTypes
  <2>2. /\ DOMAIN output = 1..Len(output) /\ Len(output) \in Nat /\ Len(OnTheWay) \in Nat
    BY <2>1, LenProperties
  <2>3. /\ Len(output \o OnTheWay) = Len(output) + Len(OnTheWay)
        /\ \A k \in 1..(Len(output) + Len(OnTheWay)) :
             (output \o OnTheWay)[k] = IF k <= Len(output) THEN output[k] ELSE OnTheWay[k - Len(output)]
    BY <2>1, ConcatProperties
  <2>4. /\ i \in 1..Len(output \o OnTheWay) /\ j \in 1..Len(output \o OnTheWay)
        /\ (output \o OnTheWay)[i] = output[i] /\ (output \o OnTheWay)[j] = output[j]
    BY <2>2, <2>3
  <2>5. Increasing(output \o OnTheWay)
    BY DEF ExportInv, FlowInv
  <2>6. QED
    BY <2>4, <2>5 DEF Increasing
<1>2. QED
  BY <1>1, ExportCorrect, PTL

\* An orchestrator that comes to main's waitpid does not end before the workload
\* has, unless the monitor failed: child_monitor, a stop and an output that fails
\* lead there, and a monitor that does not fail, whatever it is told, exits after
\* the workload only.  (An orchestrator that cannot become its user or cannot
\* read the pipe does not wait, and is not what this is about.)
THEOREM EndsAfterTheWorkload == Spec => []LeavesNoWorkload
<1>1. ExportInv => LeavesNoWorkload
  BY DEF ExportInv, EndInv, LeavesNoWorkload, MonitorEnded
<1>2. QED
  BY <1>1, ExportCorrect, PTL

-----------------------------------------------------------------------------
(* The control file.                                                       *)

Releases == [verb : {"trusted", "untrusted"}, pid : Sleepers]

\* After a write that was not refused, nothing is left that the next would write.
WriteInv ==
  /\ refused \in BOOLEAN
  /\ ~refused => bufr = <<>> /\ cmdstr = <<>>
  /\ ~refused => written \in {<<>>, <<call>>}

\* The namespace of an external agent.
Namespaces == [type : {"none", "external"}, enforced : BOOLEAN, sealed : BOOLEAN, key : BOOLEAN]
IsKeyed(n) ==
  /\ n \in Namespaces
  /\ n.type = "external" => n.key
  /\ n.enforced \/ n.sealed => n.type = "external"

\* What is left of the writes of an external agent's orchestrator that were refused
\* while it runs are releases; before it runs it ends with the first of them.
ExternalInv ==
  /\ IsKeyed(ns)
  /\ control_pc \in {"identified", "enforced", "running", "created"} => ns.type = "external"
  /\ key \in BOOLEAN
  /\ control_pc \notin {"running", "failed"} => ~refused
  /\ control_pc = "running" => bufr \in Seq(Releases) /\ cmdstr \in Seq(Releases)

\* The text that is written begins with what was left.
LEMMA TextOf ==
  ASSUME NEW c
  PROVE  /\ bufr = <<>> /\ cmdstr = <<>> => Control!Text(c) = <<c>> /\ KernelControl!Text(c) = <<c>>
         /\ bufr \in Seq(Releases) /\ cmdstr \in Seq(Releases) /\ c \in Releases
              => Control!Text(c) \in Seq(Releases) /\ Head(Control!Text(c)) \in Releases
<1>1. bufr = <<>> /\ cmdstr = <<>> => bufr \o Append(cmdstr, c) = <<c>>
  <2> SUFFICES ASSUME bufr = <<>>, cmdstr = <<>> PROVE bufr \o Append(cmdstr, c) = <<c>>
    OBVIOUS
  <2>1. Append(cmdstr, c) = <<c>>
    OBVIOUS
  <2>2. bufr \o <<c>> = <<c>>
    BY ConcatEmptySeq
  <2>3. QED
    BY <2>1, <2>2
<1>2. ASSUME bufr \in Seq(Releases), cmdstr \in Seq(Releases), c \in Releases
      PROVE  /\ bufr \o Append(cmdstr, c) \in Seq(Releases)
             /\ Head(bufr \o Append(cmdstr, c)) \in Releases
  <2>1. Append(cmdstr, c) \in Seq(Releases) /\ Len(Append(cmdstr, c)) = Len(cmdstr) + 1
    BY <1>2, AppendProperties
  <2>2. /\ bufr \o Append(cmdstr, c) \in Seq(Releases)
        /\ Len(bufr \o Append(cmdstr, c)) = Len(bufr) + (Len(cmdstr) + 1)
    BY <1>2, <2>1, ConcatProperties
  <2>3. Len(bufr) \in Nat /\ Len(cmdstr) \in Nat
    BY <1>2, LenProperties
  <2>4. Len(bufr \o Append(cmdstr, c)) # 0
    BY <2>2, <2>3
  <2>5. bufr \o Append(cmdstr, c) # <<>>
    BY <2>4, EmptySeq
  <2>6. QED
    BY <2>2, <2>5, HeadTailProperties
<1>3. QED
  BY <1>1, <1>2 DEF Control!Text, KernelControl!Text

\* A write that goes through, and one that is refused.
LEMMA Writes1 ==
  ASSUME WriteInv, NEW c, call' = c, Control!write_cmd(c) \/ Control!write_refused(c)
  PROVE  WriteInv'
BY TextOf DEF WriteInv, Control!write_cmd, Control!write_refused

LEMMA Writes2 ==
  ASSUME WriteInv, NEW c, call' = c, KernelControl!write_cmd(c) \/ KernelControl!write_refused(c)
  PROVE  WriteInv'
BY TextOf DEF WriteInv, KernelControl!write_cmd, KernelControl!write_refused

LEMMA WriteStep ==
  ASSUME WriteInv, Control!Next \/ KernelControl!Next \/ UNCHANGED controlVars
  PROVE  WriteInv'
<1>1. CASE Control!Next
  <2>1. CASE Control!generate_key \/ Control!id \/ Control!start
    BY <2>1 DEF WriteInv, Control!generate_key, Control!id, Control!start, Control!objVars
  <2>2. CASE \/ Control!create_ns \/ Control!enforce \/ Control!SealAtStart \/ Control!set_base
             \/ Control!add_state \/ Control!pseudonym \/ Control!seal \/ Control!release \/ Control!discipline
    <3>1. \E c : call' = c /\ (Control!write_cmd(c) \/ Control!write_refused(c))
      BY <2>2 DEF Control!create_ns, Control!enforce, Control!SealAtStart, Control!set_base,
                  Control!add_state, Control!pseudonym, Control!seal, Control!release, Control!discipline,
                  Control!Configure, Control!SetTrust, Control!Setup, Control!Running
    <3>2. QED
      BY <3>1, Writes1
  <2>3. QED
    BY <1>1, <2>1, <2>2 DEF Control!Next
<1>2. CASE KernelControl!Next
  <2>1. CASE KernelControl!generate_key \/ KernelControl!id \/ KernelControl!start
    BY <2>1 DEF WriteInv, KernelControl!generate_key, KernelControl!id, KernelControl!start,
                KernelControl!objVars
  <2>2. CASE \/ KernelControl!create_ns \/ KernelControl!enforce \/ KernelControl!SealAtStart
             \/ KernelControl!set_base \/ KernelControl!add_state \/ KernelControl!pseudonym
             \/ KernelControl!seal \/ KernelControl!release \/ KernelControl!discipline
    <3>1. \E c : call' = c /\ (KernelControl!write_cmd(c) \/ KernelControl!write_refused(c))
      BY <2>2 DEF KernelControl!create_ns, KernelControl!enforce, KernelControl!SealAtStart,
                  KernelControl!set_base, KernelControl!add_state, KernelControl!pseudonym,
                  KernelControl!seal, KernelControl!release, KernelControl!discipline,
                  KernelControl!Configure, KernelControl!SetTrust, KernelControl!Setup, KernelControl!Running
    <3>2. QED
      BY <3>1, Writes2
  <2>3. QED
    BY <1>2, <2>1, <2>2 DEF KernelControl!Next
<1>3. CASE UNCHANGED controlVars
  BY <1>3 DEF WriteInv, controlVars
<1>4. QED
  BY <1>1, <1>2, <1>3

\* What the kernel does for a command.
LEMMA CarriedOut ==
  ASSUME IsKeyed(ns), key \in BOOLEAN
  PROVE  /\ key => LET n == Control!Carried(Control!Command("create")) IN IsKeyed(n) /\ n.type = "external"
         /\ \A verb \in {"enforce", "seal"} :
              ns.type = "external" =>
                LET n == Control!Carried(Control!Command(verb)) IN IsKeyed(n) /\ n.type = "external"
         /\ \A c \in Releases : Control!Carried(c) = ns
<1>1. ASSUME key
      PROVE  LET n == Control!Carried(Control!Command("create")) IN IsKeyed(n) /\ n.type = "external"
  BY <1>1 DEF IsKeyed, Namespaces, Control!Carried, Control!Command
<1>2. ASSUME NEW verb \in {"enforce", "seal"}, ns.type = "external"
      PROVE  LET n == Control!Carried(Control!Command(verb)) IN IsKeyed(n) /\ n.type = "external"
  BY <1>2 DEF IsKeyed, Namespaces, Control!Carried, Control!Command
<1>3. \A c \in Releases : Control!Carried(c) = ns
  BY DEF Control!Carried, Releases
<1>4. QED
  BY <1>1, <1>2, <1>3

LEMMA ExternalStep ==
  ASSUME ExternalInv, WriteInv, Control!Next
  PROVE  ExternalInv'
<1>0. Control!Ready = "identified"
  BY DEF Control!Ready
<1>1. CASE Control!generate_key \/ Control!id \/ Control!start
  <2>1. <<>> \in Seq(Releases)
    OBVIOUS
  <2>2. CASE Control!generate_key
    BY <2>2 DEF ExternalInv, Control!generate_key
  <2>3. CASE Control!id
    BY <2>3 DEF ExternalInv, WriteInv, Control!id
  <2>4. CASE Control!start
    <3>1. bufr = <<>> /\ cmdstr = <<>>
      BY <1>0, <2>4 DEF ExternalInv, WriteInv, Control!start
    <3>2. QED
      BY <1>0, <2>1, <2>4, <3>1 DEF ExternalInv, Control!start, Control!objVars
  <2>5. QED
    BY <1>1, <2>2, <2>3, <2>4
<1>2. CASE Control!create_ns
  <2>1. /\ control_pc \in {"start", "keyed"} /\ key /\ UNCHANGED key
        /\ \/ ns' = Control!Carried(Head(Control!Text(Control!Command("create")))) /\ control_pc' = "created"
              /\ bufr' = <<>> /\ cmdstr' = <<>> /\ UNCHANGED refused
           \/ UNCHANGED ns /\ control_pc' = "failed"
    BY <1>2 DEF Control!create_ns, Control!Setup, Control!write_cmd, Control!write_refused
  <2>2. ~refused /\ Control!Text(Control!Command("create")) = <<Control!Command("create")>>
    BY <2>1, TextOf DEF ExternalInv, WriteInv
  <2>3. Head(Control!Text(Control!Command("create"))) = Control!Command("create")
    BY <2>2
  <2>4. CASE ns' = Control!Carried(Control!Command("create")) /\ control_pc' = "created" /\ UNCHANGED refused
    <3>1. IsKeyed(ns)' /\ ns'.type = "external"
      BY <2>1, <2>4, CarriedOut DEF ExternalInv
    <3>2. QED
      BY <2>1, <2>2, <2>4, <3>1 DEF ExternalInv
  <2>5. CASE UNCHANGED ns /\ control_pc' = "failed"
    <3>1. IsKeyed(ns)'
      BY <2>5 DEF ExternalInv
    <3>2. QED
      BY <2>1, <2>5, <3>1 DEF ExternalInv
  <2>6. QED
    BY <2>1, <2>3, <2>4, <2>5
<1>3. CASE Control!enforce \/ Control!SealAtStart
  <2>1. /\ control_pc \in {"identified", "enforced"} /\ control_pc' \in {"enforced", "running", "failed"} /\ UNCHANGED key
        /\ \/ control_pc' = "failed" /\ UNCHANGED ns
           \/ /\ \E verb \in {"enforce", "seal"} : ns' = Control!Carried(Head(Control!Text(Control!Command(verb))))
              /\ bufr' = <<>> /\ cmdstr' = <<>> /\ UNCHANGED refused
    BY <1>0, <1>3 DEF Control!enforce, Control!SealAtStart, Control!Setup, Control!write_cmd,
                      Control!write_refused
  <2>2. CASE control_pc' = "failed" /\ UNCHANGED ns
    <3>1. IsKeyed(ns)'
      BY <2>2 DEF ExternalInv
    <3>2. QED
      BY <2>1, <2>2, <3>1 DEF ExternalInv
  <2>3. ASSUME NEW verb \in {"enforce", "seal"}, UNCHANGED refused, bufr' = <<>>, cmdstr' = <<>>,
               ns' = Control!Carried(Head(Control!Text(Control!Command(verb))))
        PROVE  ExternalInv'
    <3>1. ~refused /\ ns.type = "external"
      BY <2>1 DEF ExternalInv
    <3>2. Control!Text(Control!Command(verb)) = <<Control!Command(verb)>>
      BY <3>1, TextOf DEF WriteInv
    <3>3. ns' = Control!Carried(Control!Command(verb))
      BY <2>3, <3>2
    <3>4. IsKeyed(ns)' /\ ns'.type = "external"
      BY <3>1, <3>3, CarriedOut DEF ExternalInv
    <3>5. bufr' \in Seq(Releases) /\ cmdstr' \in Seq(Releases)
      BY <2>3
    <3>6. QED
      BY <2>1, <2>3, <3>1, <3>4, <3>5 DEF ExternalInv
  <2>4. QED
    BY <2>1, <2>2, <2>3
<1>4. CASE Control!release \/ Control!discipline
  <2>1. PICK c \in Releases :
          /\ control_pc = "running" /\ control_pc' = "running" /\ UNCHANGED key
          /\ \/ Control!write_cmd(c)
             \/ Control!write_refused(c)
    BY <1>4 DEF Control!release, Control!discipline, Control!SetTrust, Control!Running, Releases
  <2>2. /\ bufr \in Seq(Releases) /\ cmdstr \in Seq(Releases)
        /\ Control!Text(c) \in Seq(Releases) /\ Head(Control!Text(c)) \in Releases
    BY <2>1, TextOf DEF ExternalInv
  <2>3. ns' = ns
    BY <2>1, <2>2, CarriedOut DEF ExternalInv, Control!write_cmd, Control!write_refused
  <2>4. bufr' \in Seq(Releases) /\ cmdstr' \in Seq(Releases)
    <3>1. Append(cmdstr, c) \in Seq(Releases) /\ <<>> \in Seq(Releases)
      BY <2>2, AppendProperties
    <3>2. \/ bufr' = <<>> /\ cmdstr' = <<>>
          \/ bufr' = Control!Text(c) /\ cmdstr' = Append(cmdstr, c)
      BY <2>1 DEF Control!write_cmd, Control!write_refused
    <3>3. QED
      BY <2>2, <3>1, <3>2
  <2>5. IsKeyed(ns)'
    BY <2>3 DEF ExternalInv
  <2>6. QED
    BY <2>1, <2>3, <2>4, <2>5 DEF ExternalInv
<1>5. QED
  BY <1>1, <1>2, <1>3, <1>4 DEF Control!Next, Control!set_base, Control!add_state, Control!pseudonym,
                                Control!seal, Control!Configure

ControlInv == WriteInv /\ (part # "kernel control" => ExternalInv)

\* A behaviour of another part leaves the control file as it began.
LEMMA ControlStep ==
  ASSUME ControlInv, [MCNext]_allVars
  PROVE  ControlInv'
<1>0. WriteInv /\ (part # "kernel control" => ExternalInv)
  BY DEF ControlInv
<1>1. UNCHANGED part
  BY DEF MCNext, Part, allVars
<1>2. \/ part = "control" /\ Control!Next
      \/ part = "kernel control" /\ KernelControl!Next
      \/ UNCHANGED controlVars
  BY DEF MCNext, Part, allVars
<1>3. WriteInv'
  BY <1>0, <1>2, WriteStep
<1>4. CASE part = "control" /\ Control!Next
  <2>1. ExternalInv'
    BY <1>0, <1>4, ExternalStep
  <2>2. QED
    BY <1>3, <2>1 DEF ControlInv
<1>5. CASE part = "kernel control" /\ KernelControl!Next
  BY <1>1, <1>3, <1>5 DEF ControlInv
<1>6. CASE UNCHANGED controlVars
  <2>1. ExternalInv => ExternalInv'
    BY <1>6 DEF ExternalInv, controlVars
  <2>2. QED
    BY <1>0, <1>1, <1>3, <2>1 DEF ControlInv
<1>7. QED
  BY <1>2, <1>4, <1>5, <1>6

\* Through the control file the kernel gets the command of each call and nothing else
\* until it refuses one, whatever was called before; and the namespace of an external
\* agent has its key, for any number of calls and refusals after the set-up.
THEOREM CommandsReachTheKernel == MCSpec => []CommandsAreWritten
<1>1. MCInit => ControlInv
  <2> SUFFICES ASSUME MCInit PROVE ControlInv
    OBVIOUS
  <2>1. Control!Init
    BY DEF MCInit
  <2>2. QED
    BY <2>1 DEF Control!Init, Control!NoNS, ControlInv, WriteInv, ExternalInv, IsKeyed, Namespaces
<1>2. ControlInv => CommandsAreWritten
  BY DEF ControlInv, WriteInv, ExternalInv, IsKeyed, CommandsAreWritten, Control!WrittenIsTheCommand,
         Control!ExternalHasKey
<1>3. QED
  BY <1>1, <1>2, ControlStep, PTL DEF MCSpec

-----------------------------------------------------------------------------
(* The utility for the root namespace.                                     *)

\* The strings of its queue.
Strings == IF part = "follower" THEN 1 ELSE RootStrings

FirstEvents(n) == [i \in 1..n |-> i]

QueueTypes ==
  /\ utility_generated \in Nat /\ utility_generated <= RootEvents
  /\ read \in Nat /\ read <= utility_generated
  /\ cursor \in Nat /\ Queued \in Nat
  /\ slots \in Seq(Nat) /\ Len(slots) = Strings
  /\ utility_output \in Seq(Nat)
  /\ utility_pc \in {"start", "get", "count", "output", "flush", "loop", "poll", "ended", "failed"}

\* What was written are the first events, ...
OutputInv ==
  /\ utility_output = FirstEvents(Len(utility_output))
  /\ Len(utility_output) <= read

\* ... and what was read and not written is in the strings before the cursor.
SlotsInv ==
  utility_pc \notin {"ended", "failed"} =>
    /\ cursor >= 1 /\ cursor <= Strings + 1
    /\ Len(utility_output) + (cursor - 1) = read
    /\ \A i \in 1..(cursor - 1) : slots[i] = Len(utility_output) + i

\* The strings that are counted are those before the cursor.
QueuedInv ==
  /\ utility_pc \in {"start", "loop", "poll"} => cursor = 1 /\ Queued = 0
  /\ utility_pc \in {"get", "flush"} => cursor = Queued + 1 /\ Queued < Strings
  /\ utility_pc = "count" => cursor = Queued + 2 /\ Queued < Strings
  /\ utility_pc = "output" => cursor = Queued + 1 /\ Queued = Strings

UtilityInv == ~utility_stop => QueueTypes /\ OutputInv /\ SlotsInv /\ QueuedInv

LEMMA StringsType == Strings \in Nat /\ Strings >= 1
BY ExportersAssumption DEF Strings

\* The first n strings are written after what was written before.
LEMMA WritesMore ==
  ASSUME QueueTypes, OutputInv, SlotsInv, utility_pc \notin {"ended", "failed"},
         NEW n \in Nat, n < cursor
  PROVE  /\ Utility!Keep(utility_output \o Utility!Written(n)) = FirstEvents(Len(utility_output) + n)
         /\ Follower!Keep(utility_output \o Follower!Written(n)) = FirstEvents(Len(utility_output) + n)
         /\ FirstEvents(Len(utility_output) + n) \in Seq(Nat)
         /\ Len(FirstEvents(Len(utility_output) + n)) = Len(utility_output) + n
<1> DEFINE m == Len(utility_output)
           w == SubSeq(slots, 1, n)
           o == utility_output \o w
<1>0. /\ m \in Nat /\ cursor \in Nat /\ read \in Nat /\ m + (cursor - 1) = read
      /\ cursor <= Strings + 1 /\ cursor >= 1 /\ utility_output = FirstEvents(m)
      /\ slots \in Seq(Nat) /\ Len(slots) = Strings /\ utility_output \in Seq(Nat)
      /\ read <= RootKept
      /\ \A i \in 1..(cursor - 1) : slots[i] = m + i
  BY ExportersAssumption, LenProperties DEF QueueTypes, OutputInv, SlotsInv
<1>1. n <= Len(slots) /\ n <= cursor - 1
  BY <1>0, StringsType
<1>2. w \in Seq(Nat) /\ Len(w) = n /\ \A i \in 1..n : w[i] = slots[i]
  <2>1. 1 \in 1..(Len(slots) + 1) /\ n \in 0..Len(slots)
    BY <1>0, <1>1, StringsType
  <2>2. CASE n = 0
    BY <1>0, <2>2
  <2>3. CASE n > 0
    <3>1. 1 \in 1..Len(slots) /\ n \in 1..Len(slots)
      BY <1>0, <1>1, <2>3, StringsType
    <3>2. QED
      BY SMTT(30), <1>0, <2>3, <3>1, SubSeqProperties
  <2>4. QED
    BY <2>2, <2>3
<1>3. \A i \in 1..n : w[i] = m + i
  BY <1>0, <1>1, <1>2
<1>4. /\ o \in Seq(Nat) /\ Len(o) = m + n
      /\ \A i \in 1..m : o[i] = utility_output[i]
      /\ \A i \in 1..n : o[m + i] = w[i]
  <2>1. /\ o \in Seq(Nat) /\ Len(o) = m + n
        /\ \A i \in 1..(m + n) : o[i] = IF i <= m THEN utility_output[i] ELSE w[i - m]
    BY SMTT(30), <1>0, <1>2, ConcatProperties
  <2>2. ASSUME NEW i \in 1..m PROVE o[i] = utility_output[i]
    BY <1>0, <2>1
  <2>3. ASSUME NEW i \in 1..n PROVE o[m + i] = w[i]
    <3>1. m + i \in 1..(m + n) /\ ~(m + i <= m) /\ (m + i) - m = i
      BY <1>0
    <3>2. QED
      BY <2>1, <3>1
  <2>4. QED
    BY <2>1, <2>2, <2>3
<1>5. \A i \in 1..m : utility_output[i] = i
  BY <1>0 DEF FirstEvents
<1> HIDE DEF o, w, m
<1>6. \A i \in 1..(m + n) : o[i] = i
  <2>1. ASSUME NEW i \in 1..(m + n), i \notin 1..m PROVE o[i] = i
    <3>1. i - m \in 1..n /\ m + (i - m) = i
      BY <1>0, <2>1
    <3>2. QED
      BY <1>3, <1>4, <3>1
  <2>2. QED
    BY <1>4, <1>5, <2>1
<1>7. o = FirstEvents(m + n)
  <2>1. o = [i \in 1..(m + n) |-> o[i]]
    BY <1>0, <1>4
  <2>2. QED
    BY <1>6, <2>1 DEF FirstEvents
<1>8. m + n <= RootKept /\ RootKept \in Nat /\ m + n \in Nat
  BY <1>0, <1>1, ExportersAssumption
<1>9. SubSeq(o, 1, IF Len(o) < RootKept THEN Len(o) ELSE RootKept) = o
  <2>1. (IF Len(o) < RootKept THEN Len(o) ELSE RootKept) = Len(o)
    BY <1>4, <1>8
  <2>2. SubSeq(o, 1, Len(o)) = o
    BY <1>4, SubSeqFull
  <2>3. QED
    BY <2>1, <2>2
<1>10. o = utility_output \o SubSeq(slots, 1, n) /\ m = Len(utility_output)
  BY DEF o, w, m
<1>11. QED
  BY <1>4, <1>7, <1>9, <1>10 DEF Utility!Keep, Follower!Keep, Utility!Written, Follower!Written

\* An event is read into the next string.
LEMMA EventRead ==
  ASSUME UtilityInv, UNCHANGED part, Utility!get_event \/ Follower!get_event
  PROVE  UtilityInv'
<1>1. /\ ~utility_stop /\ read < utility_generated /\ utility_pc = "get" /\ utility_pc' = "count"
      /\ read' = read + 1 /\ slots' = [slots EXCEPT ![cursor] = read + 1] /\ cursor' = cursor + 1
      /\ UNCHANGED <<utility_generated, Queued, utility_output, utility_stop>>
  BY DEF Utility!get_event, Follower!get_event, Utility!Goto, Follower!Goto
<1>2. QueueTypes /\ OutputInv /\ SlotsInv /\ QueuedInv /\ Strings' = Strings
  BY <1>1 DEF UtilityInv, Strings
<1>3. /\ cursor = Queued + 1 /\ Queued < Strings /\ cursor \in Nat /\ Queued \in Nat /\ read \in Nat
      /\ Len(utility_output) + (cursor - 1) = read /\ Len(utility_output) \in Nat
      /\ \A i \in 1..(cursor - 1) : slots[i] = Len(utility_output) + i
      /\ slots \in Seq(Nat) /\ Len(slots) = Strings
  BY <1>1, <1>2, LenProperties DEF QueueTypes, SlotsInv, QueuedInv
<1>4. cursor \in 1..Len(slots)
  BY <1>3, StringsType
<1>5. slots' \in Seq(Nat) /\ Len(slots') = Strings /\ \A i \in 1..cursor : slots'[i] = Len(utility_output) + i
  <2>1. /\ slots' \in Seq(Nat) /\ Len(slots') = Len(slots) /\ slots'[cursor] = read + 1
        /\ \A i \in 1..(cursor - 1) : slots'[i] = slots[i]
    BY <1>1, <1>3, <1>4, ExceptSeq
  <2>2. \A i \in 1..cursor : i = cursor \/ i \in 1..(cursor - 1)
    BY <1>3
  <2>3. read + 1 = Len(utility_output) + cursor
    BY <1>3
  <2>4. QED
    BY <1>3, <2>1, <2>2, <2>3
<1>6. QueueTypes'
  BY <1>1, <1>2, <1>3, <1>5 DEF QueueTypes
<1>7. OutputInv'
  BY <1>1, <1>2, <1>3 DEF OutputInv
<1>8. SlotsInv'
  <2>1. cursor' - 1 = cursor
    BY <1>1, <1>3
  <2>2. cursor' >= 1 /\ cursor' <= Strings + 1 /\ Len(utility_output') + (cursor' - 1) = read'
    BY <1>1, <1>3, StringsType
  <2>3. QED
    BY <1>1, <1>2, <1>5, <2>1, <2>2 DEF SlotsInv
<1>9. QueuedInv'
  BY <1>1, <1>2, <1>3 DEF QueuedInv
<1>10. QED
  BY <1>6, <1>7, <1>8, <1>9 DEF UtilityInv

\* Strings are written, or some of them.
LEMMA StringsWritten ==
  ASSUME UtilityInv, UNCHANGED part,
         \/ Utility!output_events \/ Utility!flush \/ Utility!output_fails
         \/ Follower!output_events \/ Follower!flush \/ Follower!output_fails
  PROVE  UtilityInv'
<1> SUFFICES ASSUME ~utility_stop PROVE UtilityInv'
  BY DEF UtilityInv, Utility!output_events, Utility!flush, Utility!output_fails,
         Follower!output_events, Follower!flush, Follower!output_fails
<1>1. QueueTypes /\ OutputInv /\ SlotsInv /\ QueuedInv /\ Strings' = Strings
  BY DEF UtilityInv, Strings
<1>2. PICK n \in Nat :
        /\ UNCHANGED <<utility_generated, read, slots, utility_stop>>
        /\ n <= Queued
        /\ utility_pc \in {"output", "flush"}
        /\ \/ utility_output' = Utility!Keep(utility_output \o Utility!Written(n))
           \/ utility_output' = Follower!Keep(utility_output \o Follower!Written(n))
        /\ \/ utility_pc = "output" /\ utility_pc' = "get" /\ cursor' = 1 /\ Queued' = 0 /\ n = Queued
           \/ utility_pc' \in {"ended", "failed"} /\ cursor' \in {1, cursor} /\ UNCHANGED Queued
  <2>1. Queued \in Nat /\ \A n \in 0..Queued : n \in Nat /\ n <= Queued
    BY <1>1 DEF QueueTypes
  <2>2. CASE Utility!output_events \/ Utility!flush \/ Follower!output_events \/ Follower!flush
    BY <2>1, <2>2 DEF Utility!output_events, Utility!flush, Follower!output_events, Follower!flush,
         Utility!Goto, Follower!Goto, Utility!kernelVars, Follower!kernelVars
  <2>3. CASE Utility!output_fails \/ Follower!output_fails
    BY <2>1, <2>3 DEF Utility!output_fails, Follower!output_fails, Utility!kernelVars, Follower!kernelVars,
         Utility!queueVars, Follower!queueVars
  <2>4. QED
    BY <2>2, <2>3
<1>3. /\ cursor = Queued + 1 /\ cursor \in Nat /\ Queued \in Nat /\ read \in Nat
      /\ Len(utility_output) + (cursor - 1) = read /\ Len(utility_output) \in Nat
  BY <1>1, <1>2, LenProperties DEF QueueTypes, SlotsInv, QueuedInv
<1>4. n < cursor
  BY <1>2, <1>3
<1>5. /\ utility_output' = FirstEvents(Len(utility_output) + n)
      /\ utility_output' \in Seq(Nat) /\ Len(utility_output') = Len(utility_output) + n
  BY <1>1, <1>2, <1>4, WritesMore
<1>6. QueueTypes'
  BY SMTT(30), <1>1, <1>2, <1>5 DEF QueueTypes
<1>7. OutputInv'
  <2>1. Len(utility_output) + n <= read
    BY <1>2, <1>3
  <2>2. QED
    BY <1>2, <1>5, <2>1 DEF OutputInv
<1>8. CASE utility_pc' \in {"ended", "failed"}
  BY <1>6, <1>7, <1>8 DEF UtilityInv, SlotsInv, QueuedInv
<1>9. CASE utility_pc = "output" /\ utility_pc' = "get" /\ cursor' = 1 /\ Queued' = 0 /\ n = Queued
  <2>1. Len(utility_output') + (cursor' - 1) = read'
    BY <1>2, <1>3, <1>5, <1>9
  <2>2. 1..(cursor' - 1) = {}
    BY <1>9
  <2>3. SlotsInv'
    BY <1>1, <1>9, <2>1, <2>2, StringsType DEF SlotsInv
  <2>4. QueuedInv'
    BY <1>1, <1>9, StringsType DEF QueuedInv
  <2>5. QED
    BY <1>6, <1>7, <2>3, <2>4 DEF UtilityInv
<1>10. QED
  BY <1>2, <1>8, <1>9

LEMMA UtilityMoves ==
  ASSUME UtilityInv, UNCHANGED part,
         (part = "root" /\ Utility!Next) \/ (part = "follower" /\ Follower!Next)
  PROVE  UtilityInv'
<1> USE DEF Utility!Goto, Follower!Goto, Utility!kernelVars, Follower!kernelVars, Utility!queueVars,
            Follower!queueVars
<1>1. CASE Utility!get_event \/ Follower!get_event
  BY <1>1, EventRead
<1>2. CASE \/ Utility!output_events \/ Utility!flush \/ Utility!output_fails
           \/ Follower!output_events \/ Follower!flush \/ Follower!output_fails
  BY <1>2, StringsWritten
<1>3. CASE Utility!get_stopped \/ Follower!get_stopped \/ Utility!signal \/ Follower!signal
  BY <1>3 DEF UtilityInv, Utility!get_stopped, Follower!get_stopped, Utility!signal, Follower!signal
<1>4. CASE Utility!generate \/ Follower!generate
  BY SMTT(30), <1>4, ExportersAssumption DEF Utility!generate, Follower!generate, UtilityInv, QueueTypes, OutputInv,
       SlotsInv, QueuedInv, Strings
<1>5. CASE Utility!export_events \/ Follower!export_events
  BY <1>5, StringsType DEF Utility!export_events, Follower!export_events, UtilityInv, QueueTypes, OutputInv,
       SlotsInv, QueuedInv, Strings
<1>6. CASE (part = "root" /\ Utility!count_event) \/ (part = "follower" /\ Follower!count_event)
  <2>1. /\ utility_pc = "count" /\ Queued' = Queued + 1
        /\ utility_pc' = IF Queued + 1 = Strings THEN "output" ELSE "get"
        /\ UNCHANGED <<utility_generated, read, slots, cursor, utility_output, utility_stop, Strings>>
    BY <1>6 DEF Utility!count_event, Follower!count_event, Strings
  <2> SUFFICES ASSUME ~utility_stop PROVE UtilityInv'
    BY <2>1 DEF UtilityInv
  <2>2. QueueTypes /\ OutputInv /\ SlotsInv /\ QueuedInv
    BY DEF UtilityInv
  <2>3. Queued \in Nat /\ cursor = Queued + 2 /\ Queued < Strings
    BY <2>1, <2>2 DEF QueueTypes, QueuedInv
  <2>4. QueueTypes' /\ OutputInv'
    BY <2>1, <2>2, <2>3 DEF QueueTypes, OutputInv
  <2>5. SlotsInv'
    BY <2>1, <2>2 DEF SlotsInv
  <2>6. QueuedInv'
    BY <2>1, <2>3, StringsType DEF QueuedInv
  <2>7. QED
    BY <2>4, <2>5, <2>6 DEF UtilityInv
<1>7. CASE (part = "root" /\ Utility!get_nodata) \/ (part = "follower" /\ Follower!get_nodata)
  <2>1. /\ utility_pc = "get" /\ (utility_pc' = "flush" \/ (utility_pc' = "loop" /\ Strings = 1))
        /\ UNCHANGED <<utility_generated, read, slots, cursor, Queued, utility_output, utility_stop, Strings>>
    BY <1>7 DEF Utility!get_nodata, Follower!get_nodata, Strings
  <2> SUFFICES ASSUME ~utility_stop PROVE UtilityInv'
    BY <2>1 DEF UtilityInv
  <2>2. QueueTypes /\ OutputInv /\ SlotsInv /\ QueuedInv
    BY DEF UtilityInv
  <2>3. Queued \in Nat /\ cursor = Queued + 1 /\ Queued < Strings
    BY <2>1, <2>2 DEF QueueTypes, QueuedInv
  <2>4. QueueTypes' /\ OutputInv' /\ SlotsInv'
    BY <2>1, <2>2 DEF QueueTypes, OutputInv, SlotsInv
  <2>5. QueuedInv'
    BY <2>1, <2>3 DEF QueuedInv
  <2>6. QED
    BY <2>4, <2>5 DEF UtilityInv
<1>8. CASE Utility!call_poll \/ Follower!call_poll \/ Utility!poll_returns \/ Follower!poll_returns
  BY <1>8 DEF Utility!call_poll, Follower!call_poll, Utility!poll_returns, Follower!poll_returns, UtilityInv,
       QueueTypes, OutputInv, SlotsInv, QueuedInv, Strings
<1>9. QED
  BY <1>1, <1>2, <1>3, <1>4, <1>5, <1>6, <1>7, <1>8 DEF Utility!Next, Utility!Step, Follower!Next,
       Follower!Step

\* A behaviour of another part leaves the utility as it began.
LEMMA UtilityStep ==
  ASSUME UtilityInv, [MCNext]_allVars
  PROVE  UtilityInv'
<1>1. UNCHANGED part
  BY DEF MCNext, Part, allVars
<1>2. \/ part = "root" /\ Utility!Next
      \/ part = "follower" /\ Follower!Next
      \/ UNCHANGED utilityVars
  BY DEF MCNext, Part, allVars
<1>3. CASE UNCHANGED utilityVars
  BY <1>1, <1>3 DEF utilityVars, UtilityInv, QueueTypes, OutputInv, SlotsInv, QueuedInv, Strings
<1>4. QED
  BY SMTT(30), <1>1, <1>2, <1>3, UtilityMoves

\* The utility for the root namespace, however many events there are: one that does
\* not follow, with a queue of any length, and one that follows, with a queue of a
\* single string, have until they are told to stop written the first of the events,
\* each once and in order; those read since are in a string that the next output
\* writes; and the one that follows has written all it has read when it waits.  (Of
\* one that follows with a longer queue, the default, this is not true: export_root
\* rewinds its cursor, and writes only when the queue is full.)
THEOREM RootIsExported == MCSpec => []UtilityIsInStep
<1>1. MCInit => UtilityInv
  <2> SUFFICES ASSUME MCInit PROVE UtilityInv
    OBVIOUS
  <2>1. /\ utility_generated = 0 /\ read = 0 /\ cursor = 1 /\ Queued = 0 /\ utility_output = <<>>
        /\ utility_pc = "start" /\ slots = [i \in 1..Strings |-> 0]
    BY DEF MCInit, Utility!Init, Follower!Init, Strings
  <2>2. slots \in Seq(Nat) /\ Len(slots) = Strings
    <3>1. slots \in [1..Strings -> Nat]
      BY <2>1
    <3>2. QED
      BY <3>1, StringsType, IsASeq, LenProperties
  <2>3. utility_output \in Seq(Nat) /\ Len(utility_output) = 0
    BY <2>1, EmptySeq
  <2>4. QueueTypes
    <3>1. utility_generated = 0 /\ read = 0 /\ cursor = 1 /\ Queued = 0 /\ utility_pc = "start"
      BY <2>1
    <3>2. QED
      BY <2>2, <2>3, <3>1, ExportersAssumption DEF QueueTypes
  <2>5. OutputInv
    BY <2>1, <2>3 DEF OutputInv, FirstEvents
  <2>6. SlotsInv /\ QueuedInv
    BY <2>1, <2>3, StringsType DEF SlotsInv, QueuedInv
  <2>7. QED
    BY <2>4, <2>5, <2>6 DEF UtilityInv
<1>2. UtilityInv => UtilityIsInStep
  <2> SUFFICES ASSUME UtilityInv, ~utility_stop PROVE UtilityIsInStep
    BY DEF UtilityIsInStep, Utility!OutputInOrder, Utility!NothingOverwritten, Utility!OutstandingAreWritten
  <2> DEFINE m == Len(utility_output)
  <2>1. QueueTypes /\ OutputInv /\ SlotsInv /\ QueuedInv
    BY DEF UtilityInv
  <2>2. /\ m \in Nat /\ m <= read /\ read \in Nat /\ read <= RootEvents /\ RootEvents \in Nat
        /\ utility_output = FirstEvents(m) /\ slots \in Seq(Nat) /\ Len(slots) = Strings
        /\ utility_output \in Seq(Nat)
    BY <2>1, ExportersAssumption, LenProperties DEF QueueTypes, OutputInv
  <2>3. Utility!OutputInOrder
    <3>1. FirstEvents(RootEvents) \in Seq(Nat) /\ Len(FirstEvents(RootEvents)) = RootEvents
      <4>1. FirstEvents(RootEvents) \in [1..RootEvents -> Nat]
        BY DEF FirstEvents
      <4>2. QED
        BY <2>2, <4>1, IsASeq, LenProperties
    <3>2. SubSeq(FirstEvents(RootEvents), 1, m) = FirstEvents(m)
      BY <2>2, <3>1 DEF FirstEvents
    <3>3. SubSeq(utility_output, 1, m) = utility_output
      BY <2>2, SubSeqFull
    <3>4. QED
      BY <2>2, <3>1, <3>2, <3>3 DEF Utility!OutputInOrder, Utility!Numbers, Utility!IsPrefix, FirstEvents
  <2>4. Utility!NothingOverwritten
    <3> SUFFICES ASSUME utility_pc \notin {"ended", "failed"}, NEW e \in 1..read
                 PROVE  \/ \E i \in DOMAIN utility_output : utility_output[i] = e
                        \/ \E i \in DOMAIN slots : slots[i] = e /\ i < cursor
      BY DEF Utility!NothingOverwritten
    <3>1. CASE e <= m
      <4>1. e \in DOMAIN utility_output /\ utility_output[e] = e
        BY <2>2, <3>1 DEF FirstEvents
      <4>2. QED
        BY <4>1
    <3>2. CASE ~(e <= m)
      <4>1. /\ cursor \in Nat /\ cursor <= Strings + 1 /\ m + (cursor - 1) = read
            /\ \A i \in 1..(cursor - 1) : slots[i] = m + i
        BY <2>1 DEF QueueTypes, SlotsInv
      <4>2. e - m \in 1..(cursor - 1) /\ m + (e - m) = e
        BY <2>2, <3>2, <4>1
      <4>3. e - m \in DOMAIN slots /\ e - m < cursor
        BY <2>2, <4>1, <4>2, StringsType, LenProperties
      <4>4. QED
        BY <4>1, <4>2, <4>3
    <3>3. QED
      BY <3>1, <3>2
  <2>5. utility_pc \in {"loop", "poll"} => m = read
    <3>1. utility_pc \in {"loop", "poll"} => cursor = 1 /\ m + (cursor - 1) = read
      BY <2>1 DEF SlotsInv, QueuedInv
    <3>2. QED
      BY <2>2, <3>1
  <2>6. QED
    BY <2>3, <2>4, <2>5 DEF UtilityIsInStep, Utility!OutstandingAreWritten
<1>3. QED
  BY <1>1, <1>2, UtilityStep, PTL DEF MCSpec

-----------------------------------------------------------------------------
(* The agent in the enclave.                                               *)

\* The verdict of an event is on its way out of the enclave.
IsCalled(e, valid) ==
  /\ ocall = <<[pid |-> e, discipline |-> ~valid]>>
  /\ Sgx!Mapped(e) /\ (Sgx!Valid(e) <=> valid)
  /\ process[e] = "waiting" /\ mode = "run"

\* The processes: one the orchestrator has taken is judged or sleeps on, and the
\* call out of the enclave, if one is under way, carries the verdict of the model.
VerdictInv ==
  /\ sealed \in BOOLEAN /\ judged \subseteq taken /\ taken \subseteq SgxEvents
  /\ points \in Seq([id : SgxEvents, valid : BOOLEAN])
  /\ process \in [SgxEvents -> {"running", "waiting", "released", "disciplined"}]
  /\ sgx_refused \subseteq judged \ SgxAsync
  /\ \/ ocall = <<>>
     \/ \E e \in SgxEvents \ (SgxAsync \cup taken), valid \in BOOLEAN : IsCalled(e, valid)
  /\ ~sealed => \A e \in SgxEvents : Sgx!Valid(e)
  /\ Sgx!WokenUnlessRefused /\ Sgx!TrustIsModel /\ Sgx!FailedSleeps /\ Sgx!AsyncViolationKills

\* An event is put into the model, which finds it valid or not.
Models(e, valid) ==
  /\ mode = "run" /\ ocall = <<>>
  /\ process[e] = "waiting" /\ e \notin taken
  /\ UNCHANGED <<sealed, process, sgx_refused>>
  /\ IF Sgx!Mapped(e) THEN points' = points /\ (valid <=> Sgx!Valid(e))
     ELSE points' = Append(points, [id |-> e, valid |-> valid]) /\ valid = ~sealed

\* What a step does to an event and its process: it sleeps, ...
Sleeps(e) ==
  /\ process[e] = "running" /\ e \notin taken /\ process' = [process EXCEPT ![e] = "waiting"]
  /\ UNCHANGED <<sealed, points, ocall, sgx_refused, judged, taken, mode, sgx_killed>>

\* ... its verdict is on the way out of the enclave, ...
Calls(e, valid) ==
  /\ e \notin SgxAsync /\ Models(e, valid)
  /\ ocall' = <<[pid |-> e, discipline |-> ~valid]>>
  /\ UNCHANGED <<judged, taken, mode, sgx_killed>>

\* ... or there is nobody to give it to; ...
Notes(e, valid) ==
  /\ e \in SgxAsync /\ Models(e, valid)
  /\ judged' = judged \cup {e} /\ taken' = taken \cup {e} /\ UNCHANGED ocall
  /\ sgx_killed \/ (sealed /\ ~valid /\ SgxEnforce) => sgx_killed'

\* ... the kernel is given the verdict, ...
Answers(e, discipline) ==
  /\ ocall = <<[pid |-> e, discipline |-> discipline]>> /\ ocall' = <<>>
  /\ judged' = judged \cup {e} /\ taken' = taken \cup {e}
  /\ UNCHANGED <<sealed, points>> /\ (sgx_killed => sgx_killed')
  /\ \/ process' = [process EXCEPT ![e] = IF discipline THEN "disciplined" ELSE "released"]
        /\ UNCHANGED sgx_refused
     \/ sgx_refused' = sgx_refused \cup {e} /\ UNCHANGED process

\* ... or update fails.
Fails(e) ==
  /\ \/ mode = "run" /\ ocall = <<>> /\ process[e] = "waiting" /\ e \notin taken
     \/ \E discipline : ocall = <<[pid |-> e, discipline |-> discipline]>>
  /\ ocall' = <<>> /\ taken' = taken \cup {e}
  /\ UNCHANGED <<sealed, points, process, sgx_refused, judged>>
  /\ sgx_killed => sgx_killed'
  /\ sgx_killed' \/ mode' = "crashed"

\* Any other step leaves them as they are.
Rests ==
  /\ UNCHANGED <<points, process, ocall, sgx_refused, judged, taken>>
  /\ sealed' \in BOOLEAN /\ (sealed => sealed')
  /\ ocall = <<>> \/ mode' = mode
  /\ sgx_killed => sgx_killed'
  /\ mode = "crashed" => mode' = "crashed"

AgentTurn ==
  \/ Rests
  \/ \E e \in SgxEvents : Sleeps(e) \/ Fails(e)
  \/ \E e \in SgxEvents, valid \in BOOLEAN : Calls(e, valid) \/ Notes(e, valid)
  \/ \E e \in SgxEvents, discipline \in BOOLEAN : Answers(e, discipline)

\* What a call carries.
LEMMA CallIs ==
  ASSUME VerdictInv, NEW out \in ToSet(ocall)
  PROVE  /\ ocall = <<[pid |-> out.pid, discipline |-> out.discipline]>>
         /\ out.pid \in SgxEvents /\ out.discipline \in BOOLEAN
<1>1. PICK e \in SgxEvents \ (SgxAsync \cup taken), valid \in BOOLEAN : IsCalled(e, valid)
  <2>1. ocall # <<>>
    BY DEF ToSet
  <2>2. QED
    BY <2>1 DEF VerdictInv
<1>2. out = [pid |-> e, discipline |-> ~valid]
  BY <1>1 DEF IsCalled, ToSet
<1>3. QED
  BY <1>1, <1>2 DEF IsCalled

\* A step of the enclave and its orchestrator, whoever gives it events, is of these.
LEMMA AgentTurns ==
  ASSUME VerdictInv, Sgx!Next \/ SgxEmpty!Next
  PROVE  AgentTurn
<1>0. sealed \in BOOLEAN
  BY DEF VerdictInv
<1>1. CASE Sgx!Next
  <2>1. ASSUME NEW e \in SgxEvents, Sgx!kernel_event(e) PROVE AgentTurn
    <3>1. Sleeps(e)
      BY <2>1 DEF Sgx!kernel_event, Sgx!modelVars, Sgx!loopVars, Sgx!boundVars, Sleeps
    <3>2. QED
      BY <3>1 DEF AgentTurn
  <2>2. ASSUME NEW e \in SgxEvents, Sgx!update_model(e)
        PROVE  \E valid \in BOOLEAN : Models(e, valid) /\ (valid <=> ~Sgx!Violates(e))
    <3>1. PICK valid \in BOOLEAN : valid <=> ~Sgx!Violates(e)
      OBVIOUS
    <3>2. IF Sgx!Mapped(e) THEN points' = points /\ (valid <=> Sgx!Valid(e))
          ELSE points' = Append(points, [id |-> e, valid |-> valid]) /\ valid = ~sealed
      <4>1. CASE Sgx!Mapped(e)
        BY <2>2, <3>1, <4>1 DEF Sgx!update_model, Sgx!ModelEvent, Sgx!Violates
      <4>2. CASE ~Sgx!Mapped(e)
        <5>1. points' = Append(points, [id |-> e, valid |-> ~sealed])
          BY <2>2, <4>2 DEF Sgx!update_model, Sgx!ModelEvent
        <5>2. valid = ~sealed
          BY <1>0, <3>1, <4>2 DEF Sgx!Violates
        <5>3. QED
          BY <4>2, <5>1, <5>2
      <4>3. QED
        BY <4>1, <4>2
    <3>3. Models(e, valid)
      BY <2>2, <3>2 DEF Sgx!update_model, Sgx!Runs, Models
    <3>4. QED
      BY <3>1, <3>3
  <2>3. ASSUME NEW e \in SgxEvents, Sgx!add_event(e) PROVE AgentTurn
    <3>1. PICK valid \in BOOLEAN : Models(e, valid) /\ (valid <=> ~Sgx!Violates(e))
      BY <2>2, <2>3 DEF Sgx!add_event
    <3>2. /\ e \notin SgxAsync /\ ocall' = <<[pid |-> e, discipline |-> Sgx!Violates(e)]>>
          /\ UNCHANGED <<judged, taken, mode, sgx_killed>>
      BY <2>3 DEF Sgx!add_event, Sgx!loopVars
    <3>3. Sgx!Violates(e) = ~valid
      BY <1>0, <3>1 DEF Sgx!Violates, Sgx!Valid
    <3>4. Calls(e, valid)
      BY <3>1, <3>2, <3>3 DEF Calls
    <3>5. QED
      BY <3>4 DEF AgentTurn
  <2>4. ASSUME NEW e \in SgxEvents, Sgx!add_async_event(e) PROVE AgentTurn
    <3>1. PICK valid \in BOOLEAN : Models(e, valid) /\ (valid <=> ~Sgx!Violates(e))
      BY <2>2, <2>4 DEF Sgx!add_async_event
    <3>2. Notes(e, valid)
      BY <2>4, <3>1 DEF Sgx!add_async_event, Sgx!EventDone, Notes
    <3>3. QED
      BY <3>2 DEF AgentTurn
  <2>5. CASE Sgx!discipline_ocall
    <3>1. PICK out \in ToSet(ocall) :
            /\ \/ process' = [process EXCEPT ![out.pid] = IF out.discipline THEN "disciplined" ELSE "released"]
                  /\ UNCHANGED sgx_refused
               \/ sgx_refused' = sgx_refused \cup {out.pid} /\ UNCHANGED process
            /\ judged' = judged \cup {out.pid} /\ ocall' = <<>>
            /\ taken' = taken \cup {out.pid} /\ (sgx_killed => sgx_killed')
            /\ UNCHANGED <<sealed, points>>
      BY <2>5 DEF Sgx!discipline_ocall, Sgx!EventDone, Sgx!EndsIt, Sgx!modelVars, Sgx!ToSet, ToSet
    <3>2. Answers(out.pid, out.discipline)
      BY <3>1, CallIs DEF Answers
    <3>3. QED
      BY <3>2, CallIs DEF AgentTurn
  <2>6. CASE Sgx!ocall_fails
    <3>1. PICK out \in ToSet(ocall) :
            /\ ocall' = <<>> /\ taken' = taken \cup {out.pid} /\ sgx_killed'
            /\ UNCHANGED <<sealed, points, process, sgx_refused, judged>>
      BY <2>6 DEF Sgx!ocall_fails, Sgx!EventDone, Sgx!EndsIt, Sgx!modelVars, Sgx!ToSet, ToSet
    <3>2. Fails(out.pid)
      BY <3>1, CallIs DEF Fails
    <3>3. QED
      BY <3>2, CallIs DEF AgentTurn
  <2>7. ASSUME NEW e \in SgxEvents, Sgx!add_event_fails(e) \/ Sgx!add_empty(e) PROVE AgentTurn
    <3>1. \/ Model_Error' /\ sgx_killed' = (sgx_killed \/ Model_Error')
          \/ mode' = "crashed" /\ UNCHANGED sgx_killed
      BY <2>7 DEF Sgx!add_event_fails, Sgx!add_empty, Sgx!EventDone, Sgx!EndsIt
    <3>2. (sgx_killed => sgx_killed') /\ (sgx_killed' \/ mode' = "crashed")
      <4>1. ASSUME Model_Error', sgx_killed' = (sgx_killed \/ Model_Error') PROVE sgx_killed'
        BY <4>1
      <4>2. QED
        BY <3>1, <4>1
    <3>3. Fails(e)
      BY <2>7, <3>2 DEF Sgx!add_event_fails, Sgx!add_empty, Sgx!Runs, Sgx!EventDone, Sgx!modelVars,
                        Sgx!trustVars, Fails
    <3>4. QED
      BY <3>3 DEF AgentTurn
  <2>8. CASE \/ Sgx!add_ai_event \/ Sgx!get_measurement \/ Sgx!seal
             \/ Sgx!output_trajectory \/ Sgx!output_model
             \/ \E kind \in Sgx!Kinds : Sgx!send_list(kind) \/ Sgx!send_list_fails(kind)
    <3>1. ASSUME Sgx!seal PROVE Rests
      BY <3>1 DEF Sgx!seal, Sgx!Runs, Sgx!trustVars, Sgx!loopVars, Rests
    <3>2. ASSUME Sgx!add_ai_event PROVE Rests
      <4>1. sgx_killed' = (sgx_killed \/ Model_Error')
        BY <3>2 DEF Sgx!add_ai_event, Sgx!EndsIt
      <4>2. sgx_killed => sgx_killed'
        BY <4>1
      <4>3. QED
        BY <1>0, <3>2, <4>2 DEF Sgx!add_ai_event, Sgx!Runs, Sgx!trustVars, Rests
    <3>3. ASSUME \/ Sgx!get_measurement \/ Sgx!output_trajectory \/ Sgx!output_model
                 \/ \E kind \in Sgx!Kinds : Sgx!send_list(kind) \/ Sgx!send_list_fails(kind)
          PROVE  Rests
      BY <1>0, <3>3 DEF Sgx!get_measurement, Sgx!output_trajectory, Sgx!output_model, Sgx!send_list,
         Sgx!send_list_fails, Sgx!Runs, Sgx!modelVars, Sgx!trustVars, Rests
    <3>4. Rests
      BY <2>8, <3>1, <3>2, <3>3
    <3>5. QED
      BY <3>4 DEF AgentTurn
  <2>9. QED
    BY <1>1, <2>1, <2>3, <2>4, <2>5, <2>6, <2>7, <2>8 DEF Sgx!Next
<1>2. CASE SgxEmpty!Next
  <2>1. ASSUME NEW e \in SgxEvents, SgxEmpty!kernel_event(e) PROVE AgentTurn
    <3>1. Sleeps(e)
      BY <2>1 DEF SgxEmpty!kernel_event, SgxEmpty!modelVars, SgxEmpty!loopVars, SgxEmpty!boundVars, Sleeps
    <3>2. QED
      BY <3>1 DEF AgentTurn
  <2>2. ASSUME NEW e \in SgxEvents
        PROVE  ~SgxEmpty!add_event(e) /\ ~SgxEmpty!add_async_event(e) /\ ~SgxEmpty!add_event_fails(e)
    BY DEF SgxEmpty!add_event, SgxEmpty!add_async_event, SgxEmpty!update_model, SgxEmpty!add_event_fails
  <2>3. CASE SgxEmpty!discipline_ocall
    <3>1. PICK out \in ToSet(ocall) :
            /\ \/ process' = [process EXCEPT ![out.pid] = IF out.discipline THEN "disciplined" ELSE "released"]
                  /\ UNCHANGED sgx_refused
               \/ sgx_refused' = sgx_refused \cup {out.pid} /\ UNCHANGED process
            /\ judged' = judged \cup {out.pid} /\ ocall' = <<>>
            /\ taken' = taken \cup {out.pid} /\ (sgx_killed => sgx_killed')
            /\ UNCHANGED <<sealed, points>>
      BY <2>3 DEF SgxEmpty!discipline_ocall, SgxEmpty!EventDone, SgxEmpty!EndsIt, SgxEmpty!modelVars, SgxEmpty!ToSet, ToSet
    <3>2. Answers(out.pid, out.discipline)
      BY <3>1, CallIs DEF Answers
    <3>3. QED
      BY <3>2, CallIs DEF AgentTurn
  <2>4. CASE SgxEmpty!ocall_fails
    <3>1. PICK out \in ToSet(ocall) :
            /\ ocall' = <<>> /\ taken' = taken \cup {out.pid} /\ sgx_killed'
            /\ UNCHANGED <<sealed, points, process, sgx_refused, judged>>
      BY <2>4 DEF SgxEmpty!ocall_fails, SgxEmpty!EventDone, SgxEmpty!EndsIt, SgxEmpty!modelVars, SgxEmpty!ToSet, ToSet
    <3>2. Fails(out.pid)
      BY <3>1, CallIs DEF Fails
    <3>3. QED
      BY <3>2, CallIs DEF AgentTurn
  <2>5. ASSUME NEW e \in SgxEvents, SgxEmpty!add_empty(e) PROVE AgentTurn
    <3>1. \/ Model_Error' /\ sgx_killed' = (sgx_killed \/ Model_Error')
          \/ mode' = "crashed" /\ UNCHANGED sgx_killed
      BY <2>5 DEF SgxEmpty!add_empty, SgxEmpty!EventDone, SgxEmpty!EndsIt
    <3>2. (sgx_killed => sgx_killed') /\ (sgx_killed' \/ mode' = "crashed")
      <4>1. ASSUME Model_Error', sgx_killed' = (sgx_killed \/ Model_Error') PROVE sgx_killed'
        BY <4>1
      <4>2. QED
        BY <3>1, <4>1
    <3>3. Fails(e)
      BY <2>5, <3>2 DEF SgxEmpty!add_empty, SgxEmpty!Runs, SgxEmpty!EventDone, SgxEmpty!modelVars,
                        SgxEmpty!trustVars, Fails
    <3>4. QED
      BY <3>3 DEF AgentTurn
  <2>6. CASE \/ SgxEmpty!add_ai_event \/ SgxEmpty!get_measurement \/ SgxEmpty!seal
             \/ SgxEmpty!output_trajectory \/ SgxEmpty!output_model
             \/ \E kind \in SgxEmpty!Kinds : SgxEmpty!send_list(kind) \/ SgxEmpty!send_list_fails(kind)
    <3>1. ASSUME SgxEmpty!seal PROVE Rests
      BY <3>1 DEF SgxEmpty!seal, SgxEmpty!Runs, SgxEmpty!trustVars, SgxEmpty!loopVars, Rests
    <3>2. ASSUME SgxEmpty!add_ai_event PROVE Rests
      <4>1. sgx_killed' = (sgx_killed \/ Model_Error')
        BY SMTT(30), <3>2 DEF SgxEmpty!add_ai_event, SgxEmpty!EndsIt
      <4>2. sgx_killed => sgx_killed'
        BY <4>1
      <4>3. QED
        BY <1>0, <3>2, <4>2 DEF SgxEmpty!add_ai_event, SgxEmpty!Runs, SgxEmpty!trustVars, Rests
    <3>3. ASSUME \/ SgxEmpty!get_measurement \/ SgxEmpty!output_trajectory \/ SgxEmpty!output_model
                 \/ \E kind \in SgxEmpty!Kinds : SgxEmpty!send_list(kind) \/ SgxEmpty!send_list_fails(kind)
          PROVE  Rests
      BY <1>0, <3>3 DEF SgxEmpty!get_measurement, SgxEmpty!output_trajectory, SgxEmpty!output_model, SgxEmpty!send_list,
         SgxEmpty!send_list_fails, SgxEmpty!Runs, SgxEmpty!modelVars, SgxEmpty!trustVars, Rests
    <3>4. Rests
      BY <2>6, <3>1, <3>2, <3>3
    <3>5. QED
      BY <3>4 DEF AgentTurn
  <2>7. QED
    BY <1>2, <2>1, <2>2, <2>3, <2>4, <2>5, <2>6 DEF SgxEmpty!Next
<1>3. QED
  BY <1>1, <1>2

\* A point more: it says of its own event what it is, and of the others nothing.
LEMMA PointMore ==
  ASSUME NEW e \in SgxEvents, NEW valid \in BOOLEAN, points \in Seq([id : SgxEvents, valid : BOOLEAN]),
         ~Sgx!Mapped(e), points' = Append(points, [id |-> e, valid |-> valid])
  PROVE  /\ points' \in Seq([id : SgxEvents, valid : BOOLEAN])
         /\ Sgx!Mapped(e)' /\ (Sgx!Valid(e)' <=> valid)
         /\ \A f \in SgxEvents : f # e => (Sgx!Mapped(f)' <=> Sgx!Mapped(f)) /\ (Sgx!Valid(f)' <=> Sgx!Valid(f))
<1> DEFINE R == [id : SgxEvents, valid : BOOLEAN]
           p == [id |-> e, valid |-> valid]
           n == Len(points)
<1>1. p \in R /\ p.id = e /\ p.valid = valid
  OBVIOUS
<1>2. /\ points' \in Seq(R) /\ n \in Nat /\ Len(points') = n + 1 /\ points'[n + 1] = p
      /\ \A i \in 1..n : points'[i] = points[i]
  BY <1>1, AppendProperties, LenProperties
<1>3. DOMAIN points = 1..n /\ DOMAIN points' = 1..(n + 1)
  BY <1>2, LenProperties
<1> HIDE DEF p, n, R
<1>4. /\ \A i \in 1..n : i \in 1..(n + 1)
      /\ \A i \in 1..(n + 1) : i \in 1..n \/ i = n + 1
      /\ n + 1 \in 1..(n + 1)
  BY <1>2
<1>5. Sgx!Mapped(e)'
  BY <1>1, <1>2, <1>3, <1>4 DEF Sgx!Mapped
<1>6. Sgx!Valid(e)' <=> valid
  <2>1. \A i \in 1..n : points[i].id # e
    BY <1>3 DEF Sgx!Mapped
  <2>2. \A i \in 1..(n + 1) : points'[i].id = e => i = n + 1
    BY <1>2, <1>4, <2>1
  <2>3. points'[n + 1].id = e /\ points'[n + 1].valid = valid
    BY <1>1, <1>2
  <2>4. QED
    BY <1>3, <1>4, <2>2, <2>3 DEF Sgx!Valid
<1>7. ASSUME NEW f \in SgxEvents, f # e
      PROVE  (Sgx!Mapped(f)' <=> Sgx!Mapped(f)) /\ (Sgx!Valid(f)' <=> Sgx!Valid(f))
  <2>1. points'[n + 1].id # f
    BY <1>1, <1>2, <1>7
  <2>2. QED
    BY <1>2, <1>3, <1>4, <2>1 DEF Sgx!Mapped, Sgx!Valid
<1>8. QED
  BY <1>2, <1>5, <1>6, <1>7 DEF R

\* An event put into the model is in it with its verdict, and no other changes.
LEMMA ModelsIt ==
  ASSUME VerdictInv, NEW e \in SgxEvents, NEW valid \in BOOLEAN, Models(e, valid)
  PROVE  /\ points' \in Seq([id : SgxEvents, valid : BOOLEAN])
         /\ Sgx!Mapped(e)' /\ (Sgx!Valid(e)' <=> valid)
         /\ \A f \in SgxEvents : f # e => (Sgx!Mapped(f)' <=> Sgx!Mapped(f)) /\ (Sgx!Valid(f)' <=> Sgx!Valid(f))
         /\ ~sealed => valid
<1>0. points \in Seq([id : SgxEvents, valid : BOOLEAN]) /\ (~sealed => Sgx!Valid(e))
  BY DEF VerdictInv
<1>1. CASE Sgx!Mapped(e)
  BY <1>0, <1>1 DEF Models, Sgx!Mapped, Sgx!Valid
<1>2. CASE ~Sgx!Mapped(e)
  <2>1. points' = Append(points, [id |-> e, valid |-> valid]) /\ valid = ~sealed
    BY <1>2 DEF Models
  <2>2. QED
    BY <1>0, <1>2, <2>1, PointMore
<1>3. QED
  BY <1>1, <1>2

LEMMA VerdictKept ==
  ASSUME VerdictInv, AgentTurn
  PROVE  VerdictInv'
<1>0. /\ sealed \in BOOLEAN /\ judged \subseteq taken /\ taken \subseteq SgxEvents
      /\ points \in Seq([id : SgxEvents, valid : BOOLEAN])
      /\ process \in [SgxEvents -> {"running", "waiting", "released", "disciplined"}]
      /\ sgx_refused \subseteq judged \ SgxAsync
      /\ ~sealed => \A e \in SgxEvents : Sgx!Valid(e)
      /\ Sgx!WokenUnlessRefused /\ Sgx!TrustIsModel /\ Sgx!FailedSleeps /\ Sgx!AsyncViolationKills
  BY DEF VerdictInv
<1> DEFINE Called == \E e \in SgxEvents \ (SgxAsync \cup taken), valid \in BOOLEAN : IsCalled(e, valid)
<1>c. ocall = <<>> \/ Called
  BY DEF VerdictInv
<1>p. ASSUME UNCHANGED points
      PROVE  \A f : (Sgx!Mapped(f)' <=> Sgx!Mapped(f)) /\ (Sgx!Valid(f)' <=> Sgx!Valid(f))
  BY <1>p DEF Sgx!Mapped, Sgx!Valid
<1>1. CASE Rests
  <2>1. /\ UNCHANGED <<points, process, ocall, sgx_refused, judged, taken>>
        /\ sealed' \in BOOLEAN /\ (sealed => sealed') /\ (ocall = <<>> \/ mode' = mode)
        /\ (sgx_killed => sgx_killed') /\ (mode = "crashed" => mode' = "crashed")
    BY <1>1 DEF Rests
  <2>2. ocall' = <<>> \/ Called'
    BY <1>c, <1>p, <2>1 DEF IsCalled
  <2>3. /\ Sgx!WokenUnlessRefused' /\ Sgx!TrustIsModel'
    BY <1>0, <1>p, <2>1 DEF Sgx!WokenUnlessRefused, Sgx!TrustIsModel
  <2>4. Sgx!FailedSleeps' /\ Sgx!AsyncViolationKills'
    BY <1>0, <1>p, <2>1 DEF Sgx!FailedSleeps, Sgx!AsyncViolationKills
  <2>5. QED
    BY <1>0, <1>p, <2>1, <2>2, <2>3, <2>4 DEF VerdictInv
<1>2. ASSUME NEW e \in SgxEvents, Sleeps(e) PROVE VerdictInv'
  <2>1. /\ process[e] = "running" /\ e \notin taken /\ process' = [process EXCEPT ![e] = "waiting"]
        /\ UNCHANGED <<sealed, points, ocall, sgx_refused, judged, taken, mode, sgx_killed>>
    BY <1>2 DEF Sleeps
  <2>2. /\ \A f \in SgxEvents : f # e => process'[f] = process[f]
        /\ process'[e] = "waiting"
        /\ process' \in [SgxEvents -> {"running", "waiting", "released", "disciplined"}]
    BY <1>0, <2>1
  <2>3. ocall' = <<>> \/ Called'
    BY <1>c, <1>p, <2>1, <2>2 DEF IsCalled
  <2>4. Sgx!WokenUnlessRefused' /\ Sgx!TrustIsModel'
    BY <1>0, <1>p, <2>1, <2>2 DEF Sgx!WokenUnlessRefused, Sgx!TrustIsModel
  <2>5. Sgx!FailedSleeps' /\ Sgx!AsyncViolationKills'
    BY <1>0, <1>p, <2>1, <2>2 DEF Sgx!FailedSleeps, Sgx!AsyncViolationKills
  <2>6. QED
    BY <1>0, <1>p, <2>1, <2>2, <2>3, <2>4, <2>5 DEF VerdictInv
<1>3. ASSUME NEW e \in SgxEvents, NEW valid \in BOOLEAN, Calls(e, valid) PROVE VerdictInv'
  <2>1. /\ e \notin SgxAsync /\ e \notin taken /\ process[e] = "waiting" /\ mode = "run"
        /\ ocall' = <<[pid |-> e, discipline |-> ~valid]>>
        /\ UNCHANGED <<sealed, process, sgx_refused, judged, taken, mode, sgx_killed>>
    BY <1>3 DEF Calls, Models
  <2>2. /\ points' \in Seq([id : SgxEvents, valid : BOOLEAN])
        /\ Sgx!Mapped(e)' /\ (Sgx!Valid(e)' <=> valid)
        /\ \A f \in SgxEvents : f # e => (Sgx!Mapped(f)' <=> Sgx!Mapped(f)) /\ (Sgx!Valid(f)' <=> Sgx!Valid(f))
        /\ ~sealed => valid
    BY <1>3, ModelsIt DEF Calls
  <2>3. Called'
    BY <2>1, <2>2 DEF IsCalled
  <2>4. Sgx!WokenUnlessRefused' /\ Sgx!TrustIsModel'
    BY <1>0, <2>1, <2>2 DEF Sgx!WokenUnlessRefused, Sgx!TrustIsModel
  <2>5. Sgx!FailedSleeps' /\ Sgx!AsyncViolationKills'
    BY <1>0, <2>1, <2>2 DEF Sgx!FailedSleeps, Sgx!AsyncViolationKills
  <2>6. ~sealed' => \A f \in SgxEvents : Sgx!Valid(f)'
    BY <1>0, <2>1, <2>2
  <2>7. QED
    BY <1>0, <2>1, <2>2, <2>3, <2>4, <2>5, <2>6 DEF VerdictInv
<1>4. ASSUME NEW e \in SgxEvents, NEW valid \in BOOLEAN, Notes(e, valid) PROVE VerdictInv'
  <2>1. /\ e \in SgxAsync /\ e \notin taken /\ process[e] = "waiting" /\ mode = "run"
        /\ judged' = judged \cup {e} /\ taken' = taken \cup {e} /\ ocall = <<>> /\ ocall' = <<>>
        /\ sgx_killed \/ (sealed /\ ~valid /\ SgxEnforce) => sgx_killed'
        /\ UNCHANGED <<sealed, process, sgx_refused>>
    BY <1>4 DEF Notes, Models
  <2>2. /\ points' \in Seq([id : SgxEvents, valid : BOOLEAN])
        /\ Sgx!Mapped(e)' /\ (Sgx!Valid(e)' <=> valid)
        /\ \A f \in SgxEvents : f # e => (Sgx!Mapped(f)' <=> Sgx!Mapped(f)) /\ (Sgx!Valid(f)' <=> Sgx!Valid(f))
        /\ ~sealed => valid
    BY <1>4, ModelsIt DEF Notes
  <2>3. Sgx!WokenUnlessRefused' /\ Sgx!TrustIsModel'
    BY <1>0, <2>1, <2>2 DEF Sgx!WokenUnlessRefused, Sgx!TrustIsModel
  <2>4. Sgx!FailedSleeps'
    BY <1>0, <2>1 DEF Sgx!FailedSleeps
  <2>5. Sgx!AsyncViolationKills'
    BY <1>0, <2>1, <2>2 DEF Sgx!AsyncViolationKills
  <2>6. ~sealed' => \A f \in SgxEvents : Sgx!Valid(f)'
    BY <1>0, <2>1, <2>2
  <2>7. QED
    BY <1>0, <2>1, <2>2, <2>3, <2>4, <2>5, <2>6 DEF VerdictInv
<1>5. ASSUME NEW e \in SgxEvents, NEW discipline \in BOOLEAN, Answers(e, discipline) PROVE VerdictInv'
  <2>1. /\ ocall = <<[pid |-> e, discipline |-> discipline]>> /\ ocall' = <<>>
        /\ judged' = judged \cup {e} /\ taken' = taken \cup {e}
        /\ UNCHANGED <<sealed, points>> /\ (sgx_killed => sgx_killed')
        /\ \/ process' = [process EXCEPT ![e] = IF discipline THEN "disciplined" ELSE "released"]
              /\ UNCHANGED sgx_refused
           \/ sgx_refused' = sgx_refused \cup {e} /\ UNCHANGED process
    BY <1>5 DEF Answers
  <2>2. /\ e \notin SgxAsync /\ e \notin taken /\ process[e] = "waiting" /\ mode = "run"
        /\ Sgx!Mapped(e) /\ (Sgx!Valid(e) <=> ~discipline)
    BY <1>c, <2>1 DEF IsCalled
  <2>3. /\ \A f \in SgxEvents : f # e => process'[f] = process[f]
        /\ process' \in [SgxEvents -> {"running", "waiting", "released", "disciplined"}]
        /\ process'[e] = "waiting" <=> e \in sgx_refused'
        /\ process'[e] = "disciplined" => discipline
        /\ process'[e] = "released" => ~discipline
        /\ sgx_refused' \subseteq sgx_refused \cup {e} /\ sgx_refused \subseteq sgx_refused'
    BY <1>0, <2>1, <2>2
  <2>4. Sgx!WokenUnlessRefused' /\ Sgx!TrustIsModel'
    BY <1>0, <1>p, <2>1, <2>2, <2>3 DEF Sgx!WokenUnlessRefused, Sgx!TrustIsModel
  <2>5. Sgx!FailedSleeps' /\ Sgx!AsyncViolationKills'
    BY <1>0, <1>p, <2>1, <2>2, <2>3 DEF Sgx!FailedSleeps, Sgx!AsyncViolationKills
  <2>6. QED
    BY <1>0, <1>p, <2>1, <2>2, <2>3, <2>4, <2>5 DEF VerdictInv
<1>6. ASSUME NEW e \in SgxEvents, Fails(e) PROVE VerdictInv'
  <2>1. /\ ocall' = <<>> /\ taken' = taken \cup {e}
        /\ UNCHANGED <<sealed, points, process, sgx_refused, judged>>
        /\ (sgx_killed => sgx_killed') /\ (sgx_killed' \/ mode' = "crashed")
    BY <1>6 DEF Fails
  <2>2. e \notin taken /\ process[e] = "waiting" /\ mode = "run"
    BY <1>6, <1>c DEF Fails, IsCalled
  <2>3. Sgx!WokenUnlessRefused' /\ Sgx!TrustIsModel'
    BY <1>0, <1>p, <2>1 DEF Sgx!WokenUnlessRefused, Sgx!TrustIsModel
  <2>4. Sgx!FailedSleeps' /\ Sgx!AsyncViolationKills'
    BY <1>0, <1>p, <2>1, <2>2 DEF Sgx!FailedSleeps, Sgx!AsyncViolationKills
  <2>5. QED
    BY <1>0, <1>p, <2>1, <2>3, <2>4 DEF VerdictInv
<1>7. QED
  BY <1>1, <1>2, <1>3, <1>4, <1>5, <1>6 DEF AgentTurn

LEMMA VerdictInvHolds == MCSpec => []VerdictInv
<1>1. MCInit => VerdictInv
  <2> SUFFICES ASSUME MCInit PROVE VerdictInv
    OBVIOUS
  <2>1. Sgx!Init
    BY DEF MCInit
  <2>2. /\ sealed \in BOOLEAN /\ judged = {} /\ taken = {} /\ sgx_refused = {} /\ ocall = <<>>
        /\ process = [e \in SgxEvents |-> "running"]
        /\ points = [i \in DOMAIN SgxKnown |-> [id |-> SgxKnown[i], valid |-> TRUE]]
    BY <2>1 DEF Sgx!Init
  <2>3. points \in Seq([id : SgxEvents, valid : BOOLEAN])
    <3>1. Len(SgxKnown) \in Nat /\ DOMAIN SgxKnown = 1..Len(SgxKnown)
          /\ \A i \in 1..Len(SgxKnown) : SgxKnown[i] \in SgxEvents
      BY ExportersAssumption, LenProperties, ElementOfSeq
    <3>2. points \in [1..Len(SgxKnown) -> [id : SgxEvents, valid : BOOLEAN]]
      BY <2>2, <3>1
    <3>3. QED
      BY ZenonT(60), <3>1, <3>2, SeqDef
  <2>4. QED
    <3>1. \A e \in SgxEvents : Sgx!Valid(e)
      BY <2>2 DEF Sgx!Valid
    <3>2. Sgx!WokenUnlessRefused /\ Sgx!TrustIsModel /\ Sgx!FailedSleeps /\ Sgx!AsyncViolationKills
      BY <2>2 DEF Sgx!WokenUnlessRefused, Sgx!TrustIsModel, Sgx!FailedSleeps, Sgx!AsyncViolationKills
    <3>3. QED
      BY <2>2, <2>3, <3>1, <3>2 DEF VerdictInv
<1>2. VerdictInv /\ [MCNext]_allVars => VerdictInv'
  <2> SUFFICES ASSUME VerdictInv, [MCNext]_allVars PROVE VerdictInv'
    OBVIOUS
  <2>1. Sgx!Next \/ SgxEmpty!Next \/ UNCHANGED sgxVars
    BY DEF MCNext, Part, allVars
  <2>2. UNCHANGED sgxVars => AgentTurn
    BY DEF AgentTurn, Rests, VerdictInv, sgxVars
  <2>3. QED
    BY <2>1, <2>2, AgentTurns, VerdictKept
<1>3. QED
  BY <1>1, <1>2, PTL DEF MCSpec

-----------------------------------------------------------------------------
(* The listings of the enclave.                                            *)

\* Induction over the naturals, for a set of them: a set that lacks a number has
\* an initial segment of the naturals that is minimal among those it lacks.
LEMMA InductionOverNat ==
  ASSUME NEW S, S \subseteq Nat, 0 \in S, \A n \in S : n + 1 \in S
  PROVE  S = Nat
<1> DEFINE F == {0..n : n \in Nat \ S}
<1>1. ASSUME F # {} PROVE FALSE
  <2>1. F \subseteq FiniteSubsetsOf(Nat)
    <3>1. ASSUME NEW n \in Nat PROVE 0..n \in FiniteSubsetsOf(Nat)
      BY FS_Interval DEF FiniteSubsetsOf
    <3>2. QED
      BY <3>1
  <2>2. PICK x \in F : \A y \in F : <<y, x>> \notin StrictSubsetOrdering(Nat)
    BY <1>1, <2>1, FS_StrictSubsetOrderingWellFounded, WFMin
  <2>3. PICK n \in Nat \ S : x = 0..n
    OBVIOUS
  <2>4. n # 0 /\ n - 1 \in Nat /\ n - 1 + 1 = n
    BY <2>3
  <2>5. n - 1 \notin S
    BY <2>4
  <2>6. 0..(n - 1) \in F
    BY <2>4, <2>5
  <2>7. <<0..(n - 1), 0..n>> \in StrictSubsetOrdering(Nat)
    BY <2>4 DEF StrictSubsetOrdering
  <2>8. QED
    BY <2>2, <2>3, <2>6, <2>7
<1>2. QED
  BY <1>1
SgxPoints == [id : SgxEvents, valid : BOOLEAN]

\* The loop of a listing over the first n points of a list.
Loop(f, s, valid, n) ==
  f = [i \in 0..n |-> IF i = 0 THEN <<>>
                      ELSE IF s[i].valid = valid THEN Append(f[i - 1], s[i].id) ELSE f[i - 1]]

\* What it has sent at the end of a list.
IdsOf(s, valid) ==
  LET ids[i \in 0..Len(s)] ==
        IF i = 0 THEN <<>>
        ELSE IF s[i].valid = valid THEN Append(ids[i - 1], s[i].id) ELSE ids[i - 1]
  IN  ids[Len(s)]

LEMMA LoopExists ==
  ASSUME NEW s, NEW valid
  PROVE  \A n \in Nat : \E f : Loop(f, s, valid, n)
<1> DEFINE S == {n \in Nat : \E f : Loop(f, s, valid, n)}
<1>1. 0 \in S
  <2> DEFINE f == [i \in 0..0 |-> <<>>]
  <2>1. Loop(f, s, valid, 0)
    BY DEF Loop
  <2>2. QED
    BY <2>1
<1>2. ASSUME NEW n \in S PROVE n + 1 \in S
  <2>1. PICK f : Loop(f, s, valid, n)
    BY <1>2
  <2> DEFINE next == IF s[n + 1].valid = valid THEN Append(f[n], s[n + 1].id) ELSE f[n]
             g == [i \in 0..(n + 1) |-> IF i = n + 1 THEN next ELSE f[i]]
  <2>2. n \in Nat
    OBVIOUS
  <2>3. ASSUME NEW i \in 0..(n + 1)
        PROVE  g[i] = IF i = 0 THEN <<>>
                      ELSE IF s[i].valid = valid THEN Append(g[i - 1], s[i].id) ELSE g[i - 1]
    <3>1. CASE i = n + 1
      <4>1. g[i] = next /\ g[i - 1] = f[n] /\ i # 0
        BY <2>2, <3>1
      <4>2. QED
        BY <3>1, <4>1
    <3>2. CASE i # n + 1
      <4>1. i \in 0..n
        BY <2>2, <3>2
      <4>2. g[i] = f[i] /\ (i # 0 => g[i - 1] = f[i - 1])
        BY <2>2, <4>1
      <4>3. f[i] = IF i = 0 THEN <<>>
                   ELSE IF s[i].valid = valid THEN Append(f[i - 1], s[i].id) ELSE f[i - 1]
        BY <2>1, <4>1 DEF Loop
      <4>4. QED
        BY <4>2, <4>3
    <3>3. QED
      BY <3>1, <3>2
  <2>4. Loop(g, s, valid, n + 1)
    <3>1. g = [i \in 0..(n + 1) |-> g[i]]
      OBVIOUS
    <3> HIDE DEF g
    <3>2. QED
      BY <2>3, <3>1 DEF Loop
  <2>5. QED
    BY <2>2, <2>4
<1>3. S = Nat
  <2> HIDE DEF S
  <2>1. S \subseteq Nat
    BY DEF S
  <2>2. QED
    BY <1>1, <1>2, <2>1, InductionOverNat
<1>4. QED
  BY <1>3

\* What is sent is what the loop has when it ends.
LEMMA IdsAre ==
  ASSUME NEW s, Len(s) \in Nat, NEW valid
  PROVE  \E f : Loop(f, s, valid, Len(s)) /\ IdsOf(s, valid) = f[Len(s)]
<1>1. \E f : Loop(f, s, valid, Len(s))
  BY LoopExists
<1>2. QED
  BY <1>1 DEF IdsOf, Loop

\* A step of the loop.
LEMMA LoopStep ==
  ASSUME NEW f, NEW s, NEW valid, NEW n \in Nat, Loop(f, s, valid, n)
  PROVE  /\ f[0] = <<>>
         /\ \A i \in 1..n : f[i] = IF s[i].valid = valid THEN Append(f[i - 1], s[i].id) ELSE f[i - 1]
<1>1. 0 \in 0..n /\ \A i \in 1..n : i \in 0..n /\ i # 0
  OBVIOUS
<1>2. QED
  BY <1>1 DEF Loop

LEMMA LoopAt ==
  ASSUME NEW f, NEW s, NEW valid, NEW n \in Nat, Loop(f, s, valid, n), NEW i \in 1..n
  PROVE  f[i] = IF s[i].valid = valid THEN Append(f[i - 1], s[i].id) ELSE f[i - 1]
BY LoopStep

\* The loop over a list begins as the loop over the list's beginning.
LEMMA LoopsAgree ==
  ASSUME NEW f, NEW g, NEW s, NEW t, NEW valid, NEW m \in Nat, NEW n \in Nat, m <= n,
         Loop(f, s, valid, m), Loop(g, t, valid, n), \A i \in 1..m : s[i] = t[i]
  PROVE  f[m] = g[m]
<1> DEFINE S == {i \in Nat : i <= m => f[i] = g[i]}
<1>0. /\ f[0] = <<>> /\ g[0] = <<>>
      /\ \A i \in 1..m : f[i] = IF s[i].valid = valid THEN Append(f[i - 1], s[i].id) ELSE f[i - 1]
      /\ \A i \in 1..n : g[i] = IF t[i].valid = valid THEN Append(g[i - 1], t[i].id) ELSE g[i - 1]
  BY LoopStep
<1>1. 0 \in S
  BY <1>0
<1>2. ASSUME NEW i \in S PROVE i + 1 \in S
  <2>1. CASE i + 1 <= m
    <3>1. i \in Nat /\ i + 1 \in 1..m /\ i + 1 \in 1..n /\ i + 1 - 1 = i /\ i <= m
      BY <2>1
    <3>2. f[i] = g[i] /\ s[i + 1] = t[i + 1]
      BY <1>2, <3>1
    <3>3. f[i + 1] = IF s[i + 1].valid = valid THEN Append(f[i], s[i + 1].id) ELSE f[i]
      BY <1>0, <3>1
    <3>4. g[i + 1] = IF t[i + 1].valid = valid THEN Append(g[i], t[i + 1].id) ELSE g[i]
      BY <1>0, <3>1
    <3>5. QED
      BY <3>1, <3>2, <3>3, <3>4
  <2>2. CASE ~(i + 1 <= m)
    BY <2>2
  <2>3. QED
    BY <2>1, <2>2
<1>3. S = Nat
  <2> HIDE DEF S
  <2>1. S \subseteq Nat
    BY DEF S
  <2>2. QED
    BY <1>1, <1>2, <2>1, InductionOverNat
<1>4. QED
  BY <1>3

\* What is sent of a list that grows.
LEMMA IdsOfAppend ==
  ASSUME NEW s \in Seq(SgxPoints), NEW p \in SgxPoints, NEW valid
  PROVE  IdsOf(Append(s, p), valid) =
           IF p.valid = valid THEN Append(IdsOf(s, valid), p.id) ELSE IdsOf(s, valid)
<1> DEFINE n == Len(s)  t == Append(s, p)
<1>1. n \in Nat /\ Len(t) = n + 1 /\ t[n + 1] = p /\ \A i \in 1..n : s[i] = t[i]
  BY AppendProperties, LenProperties
<1> HIDE DEF n, t
<1>2. PICK f : Loop(f, s, valid, n) /\ IdsOf(s, valid) = f[n]
  BY <1>1, IdsAre DEF n
<1>3. PICK g : Loop(g, t, valid, n + 1) /\ IdsOf(t, valid) = g[n + 1]
  <2>1. Len(t) \in Nat
    BY <1>1
  <2>2. \E g : Loop(g, t, valid, Len(t)) /\ IdsOf(t, valid) = g[Len(t)]
    BY <2>1, IdsAre
  <2>3. QED
    BY <1>1, <2>2
<1>4. f[n] = g[n]
  <2>1. n + 1 \in Nat /\ n <= n + 1
    BY <1>1
  <2>2. QED
    BY <1>1, <1>2, <1>3, <2>1, LoopsAgree
<1>5. g[n + 1] = IF t[n + 1].valid = valid THEN Append(g[n], t[n + 1].id) ELSE g[n]
  <2> DEFINE m == n + 1
  <2>1. m \in Nat /\ m \in 1..m /\ m - 1 = n
    BY <1>1
  <2>2. Loop(g, t, valid, m)
    BY <1>3
  <2> HIDE DEF m
  <2>3. g[m] = IF t[m].valid = valid THEN Append(g[m - 1], t[m].id) ELSE g[m - 1]
    BY <2>1, <2>2, LoopAt
  <2>4. QED
    BY <2>1, <2>3 DEF m
<1>6. QED
  BY <1>1, <1>2, <1>3, <1>4, <1>5 DEF t

\* Of a model file all points are sent as valid and none as invalid.
LEMMA IdsOfKnown ==
  ASSUME NEW s \in Seq(SgxPoints), \A i \in 1..Len(s) : s[i].valid = TRUE
  PROVE  /\ IdsOf(s, TRUE) \in Seq(SgxEvents) /\ Len(IdsOf(s, TRUE)) = Len(s)
         /\ IdsOf(s, FALSE) = <<>>
<1> DEFINE n == Len(s)  yes == TRUE  no == FALSE
<1>1. n \in Nat /\ \A i \in 1..n : s[i].id \in SgxEvents /\ s[i].valid = TRUE
  <2>1. \A i \in 1..Len(s) : s[i] \in SgxPoints
    BY LenProperties
  <2>2. QED
    BY <2>1, LenProperties DEF SgxPoints
<1>2. PICK f : Loop(f, s, yes, n) /\ IdsOf(s, yes) = f[n]
  BY <1>1, IdsAre
<1>3. PICK g : Loop(g, s, no, n) /\ IdsOf(s, no) = g[n]
  BY <1>1, IdsAre
<1> HIDE DEF n, yes, no
<1>4. f[0] = <<>> /\ \A i \in 1..n : f[i] = Append(f[i - 1], s[i].id)
  <2>1. f[0] = <<>>
    BY <1>1, <1>2, LoopStep
  <2>2. ASSUME NEW i \in 1..n PROVE f[i] = Append(f[i - 1], s[i].id)
    <3>1. f[i] = IF s[i].valid = yes THEN Append(f[i - 1], s[i].id) ELSE f[i - 1]
      BY <1>1, <1>2, LoopAt
    <3>2. QED
      BY <1>1, <3>1 DEF yes
  <2>3. QED
    BY <2>1, <2>2
<1>5. g[0] = <<>> /\ \A i \in 1..n : g[i] = g[i - 1]
  <2>1. g[0] = <<>>
    BY <1>1, <1>3, LoopStep
  <2>2. ASSUME NEW i \in 1..n PROVE g[i] = g[i - 1]
    <3>1. g[i] = IF s[i].valid = no THEN Append(g[i - 1], s[i].id) ELSE g[i - 1]
      BY <1>1, <1>3, LoopAt
    <3>2. QED
      BY <1>1, <3>1 DEF no
  <2>3. QED
    BY <2>1, <2>2
<1> DEFINE S == {i \in Nat : i <= n => f[i] \in Seq(SgxEvents) /\ Len(f[i]) = i /\ g[i] = <<>>}
<1>6. 0 \in S
  <2>1. <<>> \in Seq(SgxEvents) /\ Len(<<>>) = 0
    OBVIOUS
  <2>2. QED
    BY <1>4, <1>5, <2>1
<1>7. ASSUME NEW i \in S PROVE i + 1 \in S
  <2>1. CASE i + 1 <= n
    <3>1. i \in Nat /\ i + 1 \in 1..n /\ i + 1 - 1 = i /\ i <= n
      BY <1>1, <2>1
    <3>2. f[i + 1] = Append(f[i], s[i + 1].id) /\ g[i + 1] = g[i] /\ s[i + 1].id \in SgxEvents
      BY <1>1, <1>4, <1>5, <3>1
    <3>3. f[i] \in Seq(SgxEvents) /\ Len(f[i]) = i /\ g[i] = <<>>
      BY <1>7, <3>1
    <3>4. f[i + 1] \in Seq(SgxEvents) /\ Len(f[i + 1]) = i + 1
      BY <3>2, <3>3, AppendProperties
    <3>5. g[i + 1] = <<>> /\ i + 1 \in Nat
      BY <3>1, <3>2, <3>3
    <3>6. QED
      BY <3>4, <3>5
  <2>2. CASE ~(i + 1 <= n)
    BY <2>2
  <2>3. QED
    BY <2>1, <2>2
<1>8. S = Nat
  <2> HIDE DEF S
  <2>1. S \subseteq Nat
    BY DEF S
  <2>2. QED
    BY <1>6, <1>7, <2>1, InductionOverNat
<1>9. f[n] \in Seq(SgxEvents) /\ Len(f[n]) = n /\ g[n] = <<>>
  BY <1>1, <1>8
<1>10. QED
  BY <1>2, <1>3, <1>9 DEF n, yes, no

\* What a listing sends is the whole list, whatever is read past its end.
LEMMA ItemsAreAll ==
  ASSUME NEW T, NEW list \in Seq(T), NEW empty
  PROVE  [i \in 1..Len(list) |-> IF 0 + i \in DOMAIN list THEN list[0 + i] ELSE empty] = list
<1> DEFINE items == [i \in 1..Len(list) |-> IF 0 + i \in DOMAIN list THEN list[0 + i] ELSE empty]
<1>1. Len(list) \in Nat /\ DOMAIN list = 1..Len(list) /\ list = [i \in 1..Len(list) |-> list[i]]
  BY LenProperties
<1>2. \A i \in 1..Len(list) : items[i] = list[i]
  BY <1>1
<1>3. items = [i \in 1..Len(list) |-> items[i]]
  OBVIOUS
<1> HIDE DEF items
<1>4. items = list
  BY <1>1, <1>2, <1>3
<1>5. QED
  BY <1>4 DEF items

LogEntries == [text : {"violation"}, freed : BOOLEAN]

\* The number that is announced of each list is its length: as many points are
\* invalid as the forensics list has events.
CountInv ==
  /\ points \in Seq(SgxPoints) /\ sealed \in BOOLEAN
  /\ trajectory \in Seq(SgxEvents) /\ forensics \in Seq(SgxEvents) /\ TE_events \in Seq(LogEntries)
  /\ IdsOf(points, TRUE) \in Seq(SgxEvents) /\ IdsOf(points, FALSE) \in Seq(SgxEvents)
  /\ Len(IdsOf(points, TRUE)) = Len(points) - Len(forensics)
  /\ Len(IdsOf(points, FALSE)) = Len(forensics)

\* As long as no call has failed nothing is refused, and what was sent last is a
\* whole list.
SentInv ==
  /\ faults \in Nat
  /\ faults = 0 => broken = FALSE /\ poisoned = FALSE /\ Sgx!ListingIsWhole

ListInv == CountInv /\ SentInv

\* Each list is as long as was announced, so no get is refused.
LEMMA ListsAreCounted ==
  ASSUME CountInv, NEW kind \in Sgx!Kinds
  PROVE  /\ \E T : Sgx!List(kind) \in Seq(T)
         /\ Len(Sgx!List(kind)) = Sgx!Count(kind)
         /\ Sgx!Got(kind) = Len(Sgx!List(kind))
         /\ Sgx!Destroyed(kind) = TE_events
<1>1. Sgx!Ids(TRUE) = IdsOf(points, TRUE) /\ Sgx!Ids(FALSE) = IdsOf(points, FALSE)
  BY DEF Sgx!Ids, IdsOf
<1>2. ASSUME kind = "trajectory"
     PROVE  (\E T : Sgx!List(kind) \in Seq(T)) /\ Len(Sgx!List(kind)) = Sgx!Count(kind)
  <2>1. Sgx!List(kind) = trajectory /\ Sgx!List(kind) \in Seq(SgxEvents) /\ Len(Sgx!List(kind)) = Sgx!Count(kind)
    BY <1>2 DEF CountInv, Sgx!List, Sgx!Count
  <2>2. QED
    BY <2>1
<1>3. ASSUME kind = "forensics"
     PROVE  (\E T : Sgx!List(kind) \in Seq(T)) /\ Len(Sgx!List(kind)) = Sgx!Count(kind)
  <2>1. Sgx!List(kind) = forensics /\ Sgx!List(kind) \in Seq(SgxEvents) /\ Len(Sgx!List(kind)) = Sgx!Count(kind)
    BY <1>3 DEF CountInv, Sgx!List, Sgx!Count
  <2>2. QED
    BY <2>1
<1>4. ASSUME kind = "coefficients"
     PROVE  (\E T : Sgx!List(kind) \in Seq(T)) /\ Len(Sgx!List(kind)) = Sgx!Count(kind)
  <2>1. Sgx!List(kind) = IdsOf(points, TRUE) /\ Sgx!List(kind) \in Seq(SgxEvents) /\ Len(Sgx!List(kind)) = Sgx!Count(kind)
    BY <1>1, <1>4 DEF CountInv, Sgx!List, Sgx!Count
  <2>2. QED
    BY <2>1
<1>5. ASSUME kind = "violations"
     PROVE  (\E T : Sgx!List(kind) \in Seq(T)) /\ Len(Sgx!List(kind)) = Sgx!Count(kind)
  <2>1. Sgx!List(kind) = IdsOf(points, FALSE) /\ Sgx!List(kind) \in Seq(SgxEvents) /\ Len(Sgx!List(kind)) = Sgx!Count(kind)
    BY <1>1, <1>5 DEF CountInv, Sgx!List, Sgx!Count
  <2>2. QED
    BY <2>1
<1>6. ASSUME kind = "events"
     PROVE  (\E T : Sgx!List(kind) \in Seq(T)) /\ Len(Sgx!List(kind)) = Sgx!Count(kind)
  <2> DEFINE list == [i \in DOMAIN TE_events |->
                        IF TE_events[i].freed THEN "garbage" ELSE TE_events[i].text]
  <2>1. Sgx!List(kind) = list /\ Sgx!Count(kind) = Len(TE_events)
    BY <1>6 DEF Sgx!List, Sgx!Count
  <2>2. Len(TE_events) \in Nat /\ DOMAIN TE_events = 1..Len(TE_events)
    BY LenProperties DEF CountInv
  <2>3. \E T : list \in Seq(T) /\ Len(list) = Len(TE_events)
    <3> DEFINE T == {list[i] : i \in 1..Len(TE_events)}
    <3>1. list = [i \in 1..Len(TE_events) |-> list[i]] /\ \A i \in 1..Len(TE_events) : list[i] \in T
      BY <2>2
    <3> HIDE DEF list, T
    <3>2. list \in Seq(T) /\ Len(list) = Len(TE_events)
      BY <2>2, <3>1
    <3>3. QED
      BY <3>2
  <2> HIDE DEF list
  <2>4. QED
    BY <2>1, <2>3
<1>7. (\E T : Sgx!List(kind) \in Seq(T)) /\ Len(Sgx!List(kind)) = Sgx!Count(kind)
  BY <1>2, <1>3, <1>4, <1>5, <1>6 DEF Sgx!Kinds
<1>8. Sgx!Got(kind) = Len(Sgx!List(kind))
  BY DEF Sgx!Got
<1>9. Sgx!Destroyed(kind) = TE_events
  <2>1. CASE kind = "events"
    <3>1. Sgx!Count(kind) = Len(TE_events) /\ Len(TE_events) \in Nat
      BY <2>1, LenProperties DEF Sgx!Count, CountInv
    <3>2. ~(Sgx!Got(kind) < Len(TE_events))
      BY <1>7, <1>8, <3>1
    <3>3. QED
      BY <3>2 DEF Sgx!Destroyed
  <2>2. CASE kind # "events"
    BY <2>2 DEF Sgx!Destroyed
  <2>3. QED
    BY <2>1, <2>2
<1>10. QED
  BY <1>7, <1>8, <1>9

\* The orchestrators of both parts list in the same way.
LEMMA SameListings ==
  ASSUME NEW kind
  PROVE  /\ SgxEmpty!List(kind) = Sgx!List(kind) /\ SgxEmpty!Count(kind) = Sgx!Count(kind)
         /\ \A n, at : SgxEmpty!Items(kind, n, at) = Sgx!Items(kind, n, at)
         /\ SgxEmpty!Destroyed(kind) = Sgx!Destroyed(kind)
         /\ SgxEmpty!Kinds = Sgx!Kinds
<1>1. SgxEmpty!List(kind) = Sgx!List(kind)
  BY DEF SgxEmpty!List, Sgx!List, SgxEmpty!Ids, Sgx!Ids
<1>2. SgxEmpty!Got(kind) = Sgx!Got(kind)
  BY <1>1 DEF SgxEmpty!Got, Sgx!Got
<1>3. QED
  BY <1>1, <1>2 DEF SgxEmpty!Count, Sgx!Count, SgxEmpty!Items, Sgx!Items, SgxEmpty!Destroyed,
                    Sgx!Destroyed, SgxEmpty!Kinds, Sgx!Kinds

\* An event that is new to the model joins the points, and one of the two lists.
Joins(e) ==
  /\ points' = Append(points, [id |-> e, valid |-> ~sealed])
  /\ forensics' = IF sealed THEN Append(forensics, e) ELSE forensics
  /\ trajectory' = IF sealed THEN trajectory ELSE Append(trajectory, e)

\* What a step does to the model, and to what was sent.
ModelTurn ==
  /\ UNCHANGED <<points, trajectory, forensics>> \/ \E e \in SgxEvents : Joins(e)
  /\ TE_events' \in Seq(LogEntries) /\ sealed' \in BOOLEAN

Sends(kind) ==
  listing' = [of |-> kind, count |-> Sgx!Count(kind), list |-> Sgx!List(kind),
              items |-> Sgx!Items(kind, Sgx!Count(kind), 0)]

SendTurn ==
  /\ faults = 0 /\ broken' = FALSE /\ poisoned' = FALSE
  /\ UNCHANGED listing \/ \E kind \in Sgx!Kinds : Sends(kind)

LEMMA CountKept ==
  ASSUME CountInv, ModelTurn
  PROVE  CountInv'
<1>1. CASE UNCHANGED <<points, trajectory, forensics>>
  BY <1>1 DEF CountInv, ModelTurn
<1>2. ASSUME NEW e \in SgxEvents, Joins(e) PROVE CountInv'
  <2> DEFINE p == [id |-> e, valid |-> ~sealed]
  <2>1. /\ p \in SgxPoints /\ p.id = e /\ p.valid = ~sealed /\ points' = Append(points, p)
        /\ sealed \in BOOLEAN /\ points \in Seq(SgxPoints)
    BY <1>2 DEF Joins, CountInv, SgxPoints
  <2> HIDE DEF p
  <2> DEFINE valids == IdsOf(points', TRUE)  invalids == IdsOf(points', FALSE)
  <2>2. /\ valids = IF p.valid = TRUE THEN Append(IdsOf(points, TRUE), e) ELSE IdsOf(points, TRUE)
        /\ invalids = IF p.valid = FALSE THEN Append(IdsOf(points, FALSE), e) ELSE IdsOf(points, FALSE)
    BY ZenonT(60), <2>1, IdsOfAppend
  <2>3. /\ IdsOf(points, TRUE) \in Seq(SgxEvents) /\ IdsOf(points, FALSE) \in Seq(SgxEvents)
        /\ trajectory \in Seq(SgxEvents) /\ forensics \in Seq(SgxEvents) /\ TE_events' \in Seq(LogEntries)
        /\ sealed' \in BOOLEAN
        /\ Len(IdsOf(points, TRUE)) = Len(points) - Len(forensics)
        /\ Len(IdsOf(points, FALSE)) = Len(forensics)
    BY DEF CountInv, ModelTurn
  <2>4. CountInv' = (/\ points' \in Seq(SgxPoints) /\ sealed' \in BOOLEAN
                     /\ trajectory' \in Seq(SgxEvents) /\ forensics' \in Seq(SgxEvents)
                     /\ TE_events' \in Seq(LogEntries)
                     /\ valids \in Seq(SgxEvents) /\ invalids \in Seq(SgxEvents)
                     /\ Len(valids) = Len(points') - Len(forensics')
                     /\ Len(invalids) = Len(forensics'))
    BY DEF CountInv
  <2> HIDE DEF valids, invalids
  <2>5. /\ points' \in Seq(SgxPoints) /\ Len(points') = Len(points) + 1
        /\ Len(points) \in Nat /\ Len(forensics) \in Nat
    BY <2>1, AppendProperties, LenProperties DEF CountInv
  <2>6. CASE sealed
    <3>1. forensics' = Append(forensics, e) /\ trajectory' = trajectory
      BY <1>2, <2>6 DEF Joins
    <3>2. valids = IdsOf(points, TRUE) /\ invalids = Append(IdsOf(points, FALSE), e)
      BY <2>1, <2>2, <2>6
    <3>3. /\ forensics' \in Seq(SgxEvents) /\ Len(forensics') = Len(forensics) + 1
          /\ invalids \in Seq(SgxEvents) /\ Len(invalids) = Len(IdsOf(points, FALSE)) + 1
      BY ZenonT(60), <2>3, <3>1, <3>2, AppendProperties
    <3>4. /\ Len(valids) = Len(points) - Len(forensics)
          /\ Len(points) - Len(forensics) = (Len(points) + 1) - (Len(forensics) + 1)
          /\ Len(invalids) = Len(forensics) + 1
      <4>1. \A a, b \in Nat : a - b = (a + 1) - (b + 1)
        OBVIOUS
      <4>2. Len(points) - Len(forensics) = (Len(points) + 1) - (Len(forensics) + 1)
        BY <2>5, <4>1
      <4>3. QED
        BY <2>3, <3>2, <3>3, <4>2
    <3>5. Len(valids) = Len(points') - Len(forensics') /\ Len(invalids) = Len(forensics')
      BY <2>5, <3>3, <3>4
    <3>6. QED
      BY <2>5, <2>3, <2>4, <3>1, <3>2, <3>3, <3>5
  <2>7. CASE ~sealed
    <3>1. trajectory' = Append(trajectory, e) /\ forensics' = forensics
      BY <1>2, <2>7 DEF Joins
    <3>2. invalids = IdsOf(points, FALSE) /\ valids = Append(IdsOf(points, TRUE), e)
      BY <2>1, <2>2, <2>7
    <3>3. /\ trajectory' \in Seq(SgxEvents)
          /\ valids \in Seq(SgxEvents) /\ Len(valids) = Len(IdsOf(points, TRUE)) + 1
      BY ZenonT(60), <2>3, <3>1, <3>2, AppendProperties
    <3>4. /\ Len(valids) = (Len(points) - Len(forensics)) + 1
          /\ (Len(points) - Len(forensics)) + 1 = (Len(points) + 1) - Len(forensics)
          /\ Len(invalids) = Len(forensics)
      <4>1. \A a, b \in Nat : (a - b) + 1 = (a + 1) - b
        OBVIOUS
      <4>2. (Len(points) - Len(forensics)) + 1 = (Len(points) + 1) - Len(forensics)
        BY <2>5, <4>1
      <4>3. QED
        BY <2>3, <3>2, <3>3, <4>2
    <3>5. Len(valids) = Len(points') - Len(forensics') /\ Len(invalids) = Len(forensics')
      BY <2>5, <3>1, <3>4
    <3>6. QED
      BY <2>5, <2>3, <2>4, <3>1, <3>2, <3>3, <3>5
  <2>8. QED
    BY <2>6, <2>7
<1>3. QED
  BY <1>1, <1>2 DEF ModelTurn

LEMMA SentKept ==
  ASSUME CountInv, Sgx!ListingIsWhole, SendTurn
  PROVE  Sgx!ListingIsWhole'
<1>1. CASE UNCHANGED listing
  BY <1>1 DEF Sgx!ListingIsWhole
<1>2. ASSUME NEW kind \in Sgx!Kinds, Sends(kind) PROVE Sgx!ListingIsWhole'
  <2> DEFINE list == Sgx!List(kind)
  <2>1. PICK T : list \in Seq(T)
    BY ListsAreCounted
  <2>2. Len(list) = Sgx!Count(kind) /\ Sgx!Got(kind) = Len(list) /\ Len(list) \in Nat
    BY <2>1, ListsAreCounted, LenProperties
  <2>3. Sgx!Items(kind, Sgx!Count(kind), 0)
          = [i \in 1..Len(list) |-> IF 0 + i \in DOMAIN list THEN list[0 + i] ELSE "empty"]
    BY <2>2 DEF Sgx!Items
  <2>4. Sgx!Items(kind, Sgx!Count(kind), 0) = list
    BY <2>1, <2>3, ItemsAreAll
  <2>5. QED
    BY <1>2, <2>2, <2>4 DEF Sends, Sgx!ListingIsWhole
<1>3. QED
  BY <1>1, <1>2 DEF SendTurn

LEMMA LogGrows ==
  ASSUME CountInv
  PROVE  Append(TE_events, [text |-> "violation", freed |-> FALSE]) \in Seq(LogEntries)
<1>1. [text |-> "violation", freed |-> FALSE] \in LogEntries
  BY DEF LogEntries
<1>2. QED
  BY <1>1, AppendProperties DEF CountInv

\* A step of the enclave and its orchestrator is of these kinds.
LEMMA ModelTurns ==
  ASSUME CountInv, Sgx!Next \/ SgxEmpty!Next
  PROVE  ModelTurn
<1>0. sealed \in BOOLEAN /\ TE_events \in Seq(LogEntries)
  BY DEF CountInv
<1>1. CASE Sgx!Next
  <2>1. ASSUME NEW e \in SgxEvents, Sgx!add_event(e) \/ Sgx!add_async_event(e) PROVE ModelTurn
    <3>1. Sgx!update_model(e)
      BY <2>1 DEF Sgx!add_event, Sgx!add_async_event
    <3>2. QED
      BY <1>0, <3>1 DEF Sgx!update_model, Sgx!ModelEvent, ModelTurn, Joins
  <2>2. CASE Sgx!add_ai_event
    BY <1>0, <2>2, LogGrows DEF Sgx!add_ai_event, ModelTurn
  <2>3. ASSUME NEW kind \in Sgx!Kinds, Sgx!send_list(kind) PROVE ModelTurn
    BY <1>0, <2>3, ListsAreCounted DEF Sgx!send_list, ModelTurn
  <2>4. CASE \/ \E e \in SgxEvents : Sgx!kernel_event(e) \/ Sgx!add_event_fails(e) \/ Sgx!add_empty(e)
             \/ \E kind \in Sgx!Kinds : Sgx!send_list_fails(kind)
             \/ Sgx!discipline_ocall \/ Sgx!ocall_fails
             \/ Sgx!get_measurement \/ Sgx!seal \/ Sgx!output_trajectory \/ Sgx!output_model
    BY <1>0, <2>4 DEF Sgx!kernel_event, Sgx!add_event_fails, Sgx!add_empty, Sgx!send_list_fails,
       Sgx!discipline_ocall, Sgx!ocall_fails, Sgx!get_measurement, Sgx!seal, Sgx!output_trajectory,
       Sgx!output_model, Sgx!modelVars, ModelTurn
  <2>5. QED
    BY <1>1, <2>1, <2>2, <2>3, <2>4 DEF Sgx!Next
<1>2. CASE SgxEmpty!Next
  <2>1. ASSUME NEW kind \in SgxEmpty!Kinds, SgxEmpty!send_list(kind) PROVE ModelTurn
    BY <1>0, <2>1, ListsAreCounted, SameListings DEF SgxEmpty!send_list, ModelTurn
  <2>2. ASSUME NEW e \in SgxEvents
        PROVE  ~SgxEmpty!add_event(e) /\ ~SgxEmpty!add_async_event(e)
    BY DEF SgxEmpty!add_event, SgxEmpty!add_async_event, SgxEmpty!update_model
  <2>3. CASE \/ \E e \in SgxEvents : SgxEmpty!kernel_event(e) \/ SgxEmpty!add_event_fails(e)
                                     \/ SgxEmpty!add_empty(e)
             \/ \E kind \in SgxEmpty!Kinds : SgxEmpty!send_list_fails(kind)
             \/ SgxEmpty!discipline_ocall \/ SgxEmpty!ocall_fails \/ SgxEmpty!add_ai_event
             \/ SgxEmpty!get_measurement \/ SgxEmpty!seal \/ SgxEmpty!output_trajectory
             \/ SgxEmpty!output_model
    BY <1>0, <2>3 DEF SgxEmpty!kernel_event, SgxEmpty!add_event_fails, SgxEmpty!add_empty,
       SgxEmpty!send_list_fails, SgxEmpty!discipline_ocall, SgxEmpty!ocall_fails, SgxEmpty!add_ai_event,
       SgxEmpty!get_measurement, SgxEmpty!seal, SgxEmpty!output_trajectory, SgxEmpty!output_model,
       SgxEmpty!modelVars, ModelTurn
  <2>4. QED
    BY <1>2, <2>1, <2>2, <2>3 DEF SgxEmpty!Next
<1>3. QED
  BY <1>1, <1>2

\* As long as no call fails, only a listing sends.
LEMMA SendTurns ==
  ASSUME SentInv, Sgx!Next \/ SgxEmpty!Next
  PROVE  /\ faults' = faults \/ faults' = faults + 1
         /\ faults' = 0 => SendTurn
<1>0. /\ faults \in Nat /\ faults + 1 # 0
      /\ faults = 0 => broken = FALSE /\ poisoned = FALSE
  BY DEF SentInv
<1>1. CASE Sgx!Next
  <2>0. /\ Sgx!Fault => faults' = faults + 1
        /\ Sgx!Broken => broken /\ UNCHANGED <<broken, faults>>
        /\ Sgx!Sound => UNCHANGED <<broken, faults>>
    BY DEF Sgx!Fault, Sgx!Broken, Sgx!Sound
  <2>1. ASSUME NEW kind \in Sgx!Kinds, Sgx!send_list(kind)
        PROVE  (faults' = faults \/ faults' = faults + 1) /\ (faults' = 0 => SendTurn)
    BY <1>0, <2>0, <2>1 DEF Sgx!send_list, SendTurn, Sends
  <2>2. CASE \/ \E e \in SgxEvents : \/ Sgx!kernel_event(e) \/ Sgx!add_event(e) \/ Sgx!add_async_event(e)
                                     \/ Sgx!add_empty(e)
             \/ Sgx!discipline_ocall \/ Sgx!output_trajectory \/ Sgx!output_model
    BY <1>0, <2>0, <2>2 DEF Sgx!kernel_event, Sgx!add_event, Sgx!add_async_event, Sgx!update_model,
       Sgx!add_empty, Sgx!discipline_ocall, Sgx!output_trajectory, Sgx!output_model,
       Sgx!objectVars, Sgx!boundVars, SendTurn
  <2>3. CASE \/ \E e \in SgxEvents : Sgx!add_event_fails(e)
             \/ \E kind \in Sgx!Kinds : Sgx!send_list_fails(kind)
             \/ Sgx!ocall_fails \/ Sgx!get_measurement
    <3>1. \/ faults' = faults + 1
          \/ (broken \/ poisoned) /\ faults' = faults
      BY <2>0, <2>3 DEF Sgx!add_event_fails, Sgx!send_list_fails, Sgx!ocall_fails, Sgx!get_measurement
    <3>2. QED
      BY <1>0, <3>1
  <2>4. CASE Sgx!add_ai_event \/ Sgx!seal
    BY <1>0, <2>0, <2>4 DEF Sgx!add_ai_event, Sgx!seal, SendTurn
  <2>5. QED
    BY <1>1, <2>1, <2>2, <2>3, <2>4 DEF Sgx!Next
<1>2. CASE SgxEmpty!Next
  <2>0. /\ SgxEmpty!Fault => faults' = faults + 1
        /\ SgxEmpty!Broken => broken /\ UNCHANGED <<broken, faults>>
        /\ SgxEmpty!Sound => UNCHANGED <<broken, faults>>
    BY DEF SgxEmpty!Fault, SgxEmpty!Broken, SgxEmpty!Sound
  <2>1. ASSUME NEW kind \in SgxEmpty!Kinds, SgxEmpty!send_list(kind)
        PROVE  (faults' = faults \/ faults' = faults + 1) /\ (faults' = 0 => SendTurn)
    BY <1>0, <2>0, <2>1, SameListings DEF SgxEmpty!send_list, SendTurn, Sends
  <2>2. CASE \/ \E e \in SgxEvents : \/ SgxEmpty!kernel_event(e) \/ SgxEmpty!add_event(e)
                                     \/ SgxEmpty!add_async_event(e) \/ SgxEmpty!add_event_fails(e)
                                     \/ SgxEmpty!add_empty(e)
             \/ SgxEmpty!discipline_ocall \/ SgxEmpty!output_trajectory \/ SgxEmpty!output_model
             \/ SgxEmpty!add_ai_event
    BY <1>0, <2>0, <2>2 DEF SgxEmpty!kernel_event, SgxEmpty!add_event, SgxEmpty!add_async_event,
       SgxEmpty!update_model, SgxEmpty!add_event_fails, SgxEmpty!add_empty, SgxEmpty!discipline_ocall,
       SgxEmpty!output_trajectory, SgxEmpty!output_model, SgxEmpty!add_ai_event,
       SgxEmpty!objectVars, SgxEmpty!boundVars, SendTurn
  <2>3. CASE \/ \E kind \in SgxEmpty!Kinds : SgxEmpty!send_list_fails(kind)
             \/ SgxEmpty!ocall_fails \/ SgxEmpty!get_measurement
    <3>1. \/ faults' = faults + 1
          \/ (broken \/ poisoned) /\ faults' = faults
      BY <2>0, <2>3 DEF SgxEmpty!send_list_fails, SgxEmpty!ocall_fails, SgxEmpty!get_measurement
    <3>2. QED
      BY <1>0, <3>1
  <2>4. CASE SgxEmpty!seal
    BY <1>0, <2>0, <2>4 DEF SgxEmpty!seal, SendTurn
  <2>5. QED
    BY <1>2, <2>1, <2>2, <2>3, <2>4 DEF SgxEmpty!Next
<1>3. QED
  BY <1>1, <1>2

LEMMA ListInvInit == MCInit => ListInv
<1> SUFFICES ASSUME MCInit PROVE ListInv
  OBVIOUS
<1>1. /\ points = [i \in DOMAIN SgxKnown |-> [id |-> SgxKnown[i], valid |-> TRUE]]
      /\ sealed \in BOOLEAN /\ trajectory = <<>> /\ forensics = <<>> /\ TE_events = <<>>
      /\ poisoned = FALSE /\ broken = FALSE /\ faults = 0 /\ listing.of = "none"
  BY DEF MCInit, Sgx!Init, Sgx!NoListing
<1>2. Len(SgxKnown) \in Nat /\ DOMAIN SgxKnown = 1..Len(SgxKnown)
      /\ \A i \in 1..Len(SgxKnown) : SgxKnown[i] \in SgxEvents
  BY ExportersAssumption, LenProperties, ElementOfSeq
<1>3. points \in Seq(SgxPoints) /\ \A i \in 1..Len(points) : points[i].valid = TRUE
  <2>1. points \in [1..Len(SgxKnown) -> SgxPoints]
    BY <1>1, <1>2 DEF SgxPoints
  <2>2. points \in Seq(SgxPoints) /\ DOMAIN points = 1..Len(SgxKnown)
    BY <1>2, <2>1, SeqDef
  <2>3. Len(points) = Len(SgxKnown)
    BY <1>2, <2>2, LenProperties
  <2>4. QED
    BY <1>1, <1>2, <2>2, <2>3
<1>4. /\ IdsOf(points, TRUE) \in Seq(SgxEvents) /\ Len(IdsOf(points, TRUE)) = Len(points)
      /\ IdsOf(points, FALSE) = <<>> /\ Len(points) \in Nat
  BY <1>3, IdsOfKnown, LenProperties
<1>5. CountInv
  <2>1. <<>> \in Seq(SgxEvents) /\ <<>> \in Seq(LogEntries) /\ Len(<<>>) = 0
    OBVIOUS
  <2>2. Len(forensics) = 0 /\ Len(IdsOf(points, FALSE)) = 0 /\ Len(points) - 0 = Len(points)
    <3>1. Len(forensics) = 0 /\ Len(IdsOf(points, FALSE)) = 0
      BY <1>1, <1>4, <2>1
    <3>2. Len(points) - 0 = Len(points)
      <4>1. Len(points) \in Nat /\ \A a \in Nat : a - 0 = a
        BY <1>4
      <4> DEFINE n == Len(points)
      <4> HIDE DEF n
      <4>2. n - 0 = n
        BY <4>1 DEF n
      <4>3. QED
        BY <4>2 DEF n
    <3>3. QED
      BY <3>1, <3>2
  <2>3. QED
    BY <1>1, <1>3, <1>4, <2>1, <2>2 DEF CountInv
<1>6. SentInv
  BY <1>1 DEF SentInv, Sgx!ListingIsWhole
<1>7. QED
  BY <1>5, <1>6 DEF ListInv

LEMMA ListInvStep == ListInv /\ [MCNext]_allVars => ListInv'
<1> SUFFICES ASSUME ListInv, [MCNext]_allVars PROVE ListInv'
  OBVIOUS
<1>1. Sgx!Next \/ SgxEmpty!Next \/ UNCHANGED sgxVars
  BY DEF MCNext, Part, allVars
<1>2. CASE UNCHANGED sgxVars
  BY <1>1, <1>2 DEF sgxVars, ListInv, CountInv, SentInv, Sgx!ListingIsWhole
<1>3. CASE ~UNCHANGED sgxVars
  <2>1. CountInv'
    BY <1>1, <1>3, ModelTurns, CountKept DEF ListInv
  <2>2. SentInv'
    <3>1. (faults' = faults \/ faults' = faults + 1) /\ (faults' = 0 => SendTurn) /\ faults \in Nat
      BY <1>1, <1>3, SendTurns DEF ListInv, SentInv
    <3>2. ASSUME faults' = 0 PROVE broken' = FALSE /\ poisoned' = FALSE /\ Sgx!ListingIsWhole'
      <4>1. SendTurn /\ faults = 0
        BY <3>1, <3>2
      <4>2. QED
        BY <4>1, SentKept DEF ListInv, SentInv, SendTurn
    <3>3. faults' \in Nat
      BY <3>1
    <3>4. QED
      BY <3>2, <3>3 DEF SentInv
  <2>3. QED
    BY <2>1, <2>2 DEF ListInv
<1>4. QED
  BY SMTT(30), <1>2, <1>3

\* Whatever events there are, which of them cannot wait, whatever the kernel refuses,
\* whichever call fails, before the model has changed or after it, and whenever the
\* model is sealed or listed: once update has returned, its process sleeps on exactly
\* if the kernel refused to set its status, it is untrusted exactly when the point of
\* its event is an invalid one, a process for which update failed sleeps until the
\* workload is ended, and an enforced violation by one that cannot sleep ends it.  As
\* long as no call has failed a listing announces and sends the whole list, however
\* long that is (update_model, discipline_pid_ocall, process_event, get_event,
\* send_coefficients).
THEOREM EnclaveStaysInStep == MCSpec => []EnclaveIsInStep
<1>1. VerdictInv /\ ListInv => EnclaveIsInStep
  BY DEF VerdictInv, ListInv, SentInv, EnclaveIsInStep
<1>2. MCSpec => []ListInv
  BY ListInvInit, ListInvStep, PTL DEF MCSpec
<1>3. QED
  BY <1>1, <1>2, VerdictInvHolds, PTL

=============================================================================
