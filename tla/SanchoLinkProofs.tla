-------------------------- MODULE SanchoLinkProofs --------------------------
(* Theorems about SanchoLink, for any workload and any requests but those   *)
(* that the firmware announces wrongly.                                     *)
EXTENDS SanchoLink, SequenceTheorems, FiniteSetTheorems, TLAPS

\* The console does not ask for the forensics points, whose number the firmware
\* announces is not the one it sends (the run sancho_link_listing).
Announces == "forensics_coefficients" \notin Requests

-----------------------------------------------------------------------------
(* The line.                                                               *)

ExportTypes == {"event", "async_event", "log", "aggregate"}

\* What is waited for is a reply to the kind of command that was sent.
Kinds ==
  /\ queue \in Seq(Exports) /\ batch \in Seq(Exports)
  /\ pc = "reply" => current \in Exports
  /\ pc = "value" => current.type \in {"seal", "value", "reset"}
  /\ pc \in {"count", "element"} => current.type \in {"events", "coefficients", "map"}

Replies(command) ==
  [to : {command}, is : {"OK", "RELEASE", "DISCIPLINE", "value", "count", "element"}, count : Nat]

\* What is left of the replies to the command is no more than what is waited for.
Answered ==
  /\ down = <<>>
  /\ up \in Seq(Replies(current))
  /\ pc \in {"reply", "value"} => Len(up) <= 1
  /\ pc = "count" /\ up # <<>> => Head(up).is = "count" /\ Len(up) <= Head(up).count + 1
  /\ pc = "element" => cnt \in Nat \ {0} /\ Len(up) <= cnt

LineInv ==
  /\ pc \in Awaiting => duct
  /\ duct /\ pc \in Awaiting => (down = <<current>> /\ up = <<>> /\ pc # "element") \/ Answered
  /\ duct /\ pc \notin Awaiting => down = <<>> /\ up = <<>>

LEMMA ExportsHaveTypes == \A e \in Exports : e.type \in ExportTypes
BY DEF Exports, ExportTypes, Request

LEMMA ContinueIsNoWait == Continue \in {"drain", "failed", "mgmt", "poll"}
BY DEF Continue

LEMMA KindsStep ==
  ASSUME Announces, Kinds, [Next]_vars
  PROVE  Kinds'
<1>1. ASSUME NEW p \in Procs, NEW pt \in Points, NEW type \in EventTypes \cup {"log"},
             CausesEvent(type, p, pt)
      PROVE  Kinds'
  <2>1. Export(type, p, pt) \in Exports
    BY DEF Export, Exports, EventTypes
  <2>2. queue' \in Seq(Exports)
    BY <1>1, <2>1, AppendProperties DEF CausesEvent, Kinds
  <2>3. QED
    BY <1>1, <2>2 DEF CausesEvent, Kinds, hostVars
<1>2. ASSUME NEW p \in Procs, Die(p) PROVE Kinds'
  BY <1>2 DEF Die, Kill, Kinds, hostVars
<1>3. CASE Runc
  BY <1>3 DEF Runc, Kill, Kinds, hostVars
<1>4. CASE Interpreter
  BY <1>4 DEF Interpreter, InterpretEvent, InterpretEventFails, InterpretOther, InterpretOtherFails,
    InterpretSeal, InterpretValue, InterpretEvents, InterpretCoefficients, InterpretUnknown,
    InterpretReset, Interpreted, Interprets, Kinds, hostVars
<1>5. ASSUME NEW command \in BOOLEAN, PollReturns(command) PROVE Kinds'
  <2>1. batch' = queue /\ queue' = <<>> /\ pc' \in {"drain", "mgmt"}
    BY <1>5 DEF PollReturns, HostStep
  <2>2. <<>> \in Seq(Exports)
    OBVIOUS
  <2>3. QED
    BY <2>1, <2>2 DEF Kinds
<1>6. CASE SendExport
  <2>1. /\ batch # <<>> /\ batch' = Tail(batch) /\ current' = Head(batch) /\ pc' = "reply"
        /\ UNCHANGED queue
    BY <1>6 DEF SendExport, Send, HostStep
  <2>2. Head(batch) \in Exports /\ Tail(batch) \in Seq(Exports)
    BY <2>1, HeadTailProperties DEF Kinds
  <2>3. QED
    BY <2>1, <2>2 DEF Kinds
<1>7. CASE CommandSent
  <2>1. PICK r \in Requests \ {"illegal"} :
          Send(Request(r), "mgmt", IF r \in {"seal", "value", "reset"} THEN "value" ELSE "count")
    BY <1>7 DEF CommandSent
  <2>2. r \in {"seal", "value", "events", "coefficients", "map", "reset"}
    BY <2>1, SanchoAssumption DEF Announces
  <2>3. /\ current'.type = r /\ UNCHANGED <<batch, queue>>
        /\ pc' = IF r \in {"seal", "value", "reset"} THEN "value" ELSE "count"
    BY <1>7, <2>1 DEF CommandSent, Send, HostStep, Request
  <2>4. QED
    BY <2>2, <2>3 DEF Kinds
<1>8. CASE output_model
  <2>1. current'.type = "coefficients" /\ pc' = "count" /\ UNCHANGED <<batch, queue>>
    BY <1>8 DEF output_model, Send, HostStep, Request
  <2>2. QED
    BY <2>1 DEF Kinds
<1>9. CASE ReceiveCount \/ ReceiveElement
  <2>1. /\ pc \in {"count", "element"} /\ UNCHANGED <<queue, batch, current>>
        /\ pc' \in {"element", "finished", "poll"}
    BY <1>9 DEF ReceiveCount, ReceiveElement, Receives, HostStep, AfterListing
  <2>2. QED
    BY <2>1 DEF Kinds
<1>10. CASE \/ SendExportFails \/ ReceiveInError \/ ReceiveVerdict \/ ReceiveAsyncVerdict \/ ReceiveOK
            \/ CommandFails \/ ReceiveValue \/ WaitForRunc \/ Finish \/ ReceiveInterrupted \/ Stop
  <2>1. UNCHANGED <<queue, batch>> /\ pc' \notin Awaiting
    BY <1>10, ContinueIsNoWait DEF SendExportFails, ReceiveInError, ReceiveVerdict, ReceiveAsyncVerdict,
      ReceiveOK, CommandFails, ReceiveValue, WaitForRunc, Finish, ReceiveInterrupted, Stop, Processed,
      ProcessingFails, Misanswered, ShutWorkloadDown, Receives, HostStep, Awaiting
  <2>2. QED
    BY <2>1 DEF Kinds, Awaiting
<1>11. CASE UNCHANGED vars
  BY <1>11 DEF vars, hostVars, Kinds
<1>12. QED
  BY <1>1, <1>2, <1>3, <1>4, <1>5, <1>6, <1>7, <1>8, <1>9, <1>10, <1>11 DEF Next, Workload, Orchestrator

\* A command goes down an empty line.
LEMMA SendStep ==
  ASSUME LineInv, NEW command, NEW from, NEW wait, Send(command, from, wait),
         from \notin Awaiting, wait \in {"reply", "value", "count"}
  PROVE  LineInv'
<1>1. down = <<>> /\ up = <<>> /\ duct
  BY DEF Send, HostStep, LineInv
<1>2. down' = <<current'>> /\ up' = <<>> /\ duct' = duct /\ pc' = wait
  BY <1>1 DEF Send, HostStep
<1>3. QED
  BY <1>1, <1>2 DEF LineInv, Awaiting

\* The numbers of points that are listed.
LEMMA SizesAreCounts ==
  /\ Size({"valid", "invalid"}) \in Nat /\ Size({"valid"}) \in Nat
  /\ Size({"valid"}) <= Size({"valid", "invalid"})
<1> DEFINE all == {p \in Points : status[p] \in {"valid", "invalid"}}
           valid == {p \in Points : status[p] \in {"valid"}}
<1>1. IsFiniteSet(all)
  BY SanchoAssumption, FS_Subset
<1>2. valid \subseteq all
  OBVIOUS
<1>3. IsFiniteSet(valid) /\ Cardinality(valid) <= Cardinality(all)
  BY <1>1, <1>2, FS_Subset
<1>4. QED
  BY <1>1, <1>3, FS_CardinalityType DEF Size

\* A listing has one element at most for every one it announces.
LEMMA ListingAnswers ==
  ASSUME NEW command, NEW n \in Nat, NEW m \in Nat, m <= n
  PROVE  /\ Listing(command, n, m) \in Seq(Replies(command))
         /\ Len(Listing(command, n, m)) <= n + 1
         /\ Head(Listing(command, n, m)) = Count(command, n)
<1> DEFINE elements == [i \in 1..m |-> Reply(command, "element")]
           count == <<Count(command, n)>>
<1>1. Reply(command, "element") \in Replies(command) /\ Count(command, n) \in Replies(command)
  BY DEF Reply, Count, Replies
<1>2. elements \in Seq(Replies(command)) /\ Len(elements) = m
  BY <1>1
<1>3. count \in Seq(Replies(command)) /\ Len(count) = 1 /\ Head(count) = Count(command, n) /\ count[1] = Count(command, n)
  BY <1>1
<1> DEFINE S == Replies(command)
           all == count \o elements
<1> HIDE DEF elements, count, S
<1>4. count \in Seq(S) /\ elements \in Seq(S)
  BY <1>2, <1>3 DEF S
<1>5. all \in Seq(S) /\ Len(all) = 1 + m /\ all[1] = count[1]
  BY SMTT(30), <1>2, <1>3, <1>4, ConcatProperties
<1>6. Head(all) = Count(command, n)
  BY <1>3, <1>5
<1>7. Listing(command, n, m) = all
  BY DEF Listing, all, elements, count
<1> HIDE DEF all
<1>8. QED
  BY <1>5, <1>6, <1>7 DEF S

\* What the interpreter replies to the command that is on the line.
LEMMA ReplyStep ==
  ASSUME LineInv, NEW types, NEW replies, Interprets(types, replies),
         ASSUME duct, down = <<current>>, current.type \in types
         PROVE  /\ replies \in Seq(Replies(current))
                /\ pc \in {"reply", "value"} => Len(replies) <= 1
                /\ pc = "count" /\ replies # <<>> =>
                     Head(replies).is = "count" /\ Len(replies) <= Head(replies).count + 1
  PROVE  LineInv'
<1>1. UNCHANGED <<pc, duct, current, cnt>> /\ down # <<>> /\ Head(down).type \in types
      /\ down' = Tail(down) /\ up' = up \o replies
  BY DEF Interprets, hostVars
<1>2. CASE ~duct
  BY <1>1, <1>2 DEF LineInv
<1>3. CASE duct
  <2>1. pc \in Awaiting /\ down = <<current>> /\ up = <<>> /\ pc # "element"
    BY <1>1, <1>3 DEF LineInv, Answered
  <2>2. current.type \in types
    BY <1>1, <2>1
  <2>3. down' = <<>> /\ up' = <<>> \o replies
    BY <1>1, <2>1
  <2>4. /\ replies \in Seq(Replies(current))
        /\ pc \in {"reply", "value"} => Len(replies) <= 1
        /\ pc = "count" /\ replies # <<>> =>
             Head(replies).is = "count" /\ Len(replies) <= Head(replies).count + 1
    BY <1>3, <2>1, <2>2
  <2>5. up' = replies
    BY <2>3, <2>4, ConcatEmptySeq
  <2>6. Answered'
    BY <1>1, <2>1, <2>3, <2>4, <2>5 DEF Answered, Replies
  <2>7. QED
    BY <1>1, <1>3, <2>1, <2>6 DEF LineInv
<1>4. QED
  BY <1>2, <1>3

LEMMA NoReplyStep ==
  ASSUME LineInv, NEW types, Interprets(types, <<>>)
  PROVE  LineInv'
<1> DEFINE replies == <<>>
<1>1. replies \in Seq(Replies(current)) /\ Len(replies) <= 1 /\ replies = <<>>
  OBVIOUS
<1>2. Interprets(types, replies)
  OBVIOUS
<1> HIDE DEF replies
<1>3. /\ replies \in Seq(Replies(current))
      /\ pc \in {"reply", "value"} => Len(replies) <= 1
      /\ ~(pc = "count" /\ replies # <<>>)
  BY <1>1 DEF replies
<1>4. QED
  BY <1>2, <1>3, ReplyStep

\* A command that is answered once, or not at all.
LEMMA ReplyOnceStep ==
  ASSUME Kinds, LineInv, NEW types, NEW is \in {"OK", "RELEASE", "DISCIPLINE", "value"},
         types \cap {"events", "coefficients", "map"} = {},
         Interprets(types, <<Reply(Head(down), is)>>) \/ Interprets(types, <<>>)
  PROVE  LineInv'
<1>1. CASE Interprets(types, <<>>)
  BY <1>1, NoReplyStep
<1>2. CASE Interprets(types, <<Reply(Head(down), is)>>)
  <2> DEFINE replies == <<Reply(Head(down), is)>>
  <2>1. ASSUME duct, down = <<current>>, current.type \in types
        PROVE  /\ replies \in Seq(Replies(current)) /\ Len(replies) <= 1
               /\ pc # "count"
    <3>1. Reply(Head(down), is) \in Replies(current)
      BY <2>1 DEF Reply, Replies
    <3>2. pc # "count"
      BY <2>1 DEF Kinds
    <3>3. QED
      BY <3>1, <3>2
  <2>2. QED
    BY <1>2, <2>1, ReplyStep
<1>3. QED
  BY <1>1, <1>2

LEMMA InterpreterStep ==
  ASSUME Announces, Kinds, LineInv, Interpreter
  PROVE  LineInv'
<1>1. CASE InterpretEvent \/ InterpretEventFails
  <2>1. PICK is \in {"RELEASE", "DISCIPLINE"} :
          \/ Interprets(EventTypes, <<Reply(Head(down), is)>>)
          \/ Interprets(EventTypes, <<>>)
    BY <1>1 DEF InterpretEvent, InterpretEventFails, Interpreted, VerdictOn
  <2>2. QED
    BY <2>1, ReplyOnceStep DEF EventTypes
<1>2. CASE InterpretOther \/ InterpretOtherFails
  BY <1>2, ReplyOnceStep DEF InterpretOther, InterpretOtherFails, Interpreted
<1>3. CASE InterpretSeal \/ InterpretValue \/ InterpretReset
  BY <1>3, ReplyOnceStep DEF InterpretSeal, InterpretValue, InterpretReset, Interpreted
<1>4. CASE InterpretUnknown
  <2>1. Interprets({"map"}, <<>>)
    BY <1>4 DEF InterpretUnknown, Interpreted
  <2>2. QED
    BY <2>1, NoReplyStep
<1>5. CASE InterpretEvents
  <2>1. Interprets({"events"}, Listing(Head(down), 0, 0))
    BY <1>5 DEF InterpretEvents, Interpreted
  <2>2. ASSUME down = <<current>>, current.type \in {"events"}
        PROVE  /\ Listing(Head(down), 0, 0) \in Seq(Replies(current))
               /\ pc \notin {"reply", "value"}
               /\ Head(Listing(Head(down), 0, 0)).is = "count"
               /\ Len(Listing(Head(down), 0, 0)) <= Head(Listing(Head(down), 0, 0)).count + 1
    <3>1. Head(down) = current
      BY <2>2
    <3>2. /\ Listing(current, 0, 0) \in Seq(Replies(current))
          /\ Len(Listing(current, 0, 0)) <= 0 + 1
          /\ Head(Listing(current, 0, 0)) = Count(current, 0)
      BY ListingAnswers
    <3>3. pc \notin {"reply", "value"}
      BY <2>2, ExportsHaveTypes DEF Kinds, ExportTypes
    <3>4. QED
      BY <3>1, <3>2, <3>3 DEF Count
  <2> DEFINE replies == Listing(Head(down), 0, 0)
  <2> HIDE DEF replies
  <2>3. QED
    BY <2>1, <2>2, ReplyStep DEF replies
<1>6. CASE InterpretCoefficients
  <2>1. PICK type \in BOOLEAN :
          Interprets({IF type THEN "coefficients" ELSE "forensics_coefficients"},
                     Listing(Head(down), CoefficientsAnnounced(type), CoefficientsSent(type)))
    BY <1>6 DEF InterpretCoefficients, Interpreted
  <2> DEFINE types == {IF type THEN "coefficients" ELSE "forensics_coefficients"}
             replies == Listing(Head(down), CoefficientsAnnounced(type), CoefficientsSent(type))
  <2>2. ASSUME duct, down = <<current>>, current.type \in types
        PROVE  /\ replies \in Seq(Replies(current))
               /\ pc \in {"reply", "value"} => Len(replies) <= 1
               /\ pc = "count" /\ replies # <<>> =>
                    Head(replies).is = "count" /\ Len(replies) <= Head(replies).count + 1
    <3>1. Head(down) = current /\ pc \in Awaiting /\ pc # "element"
      BY <2>2 DEF LineInv, Answered
    <3>2. type = TRUE /\ pc = "count"
      BY <2>2, <3>1, ExportsHaveTypes DEF Kinds, ExportTypes, Awaiting
    <3>3. /\ CoefficientsAnnounced(type) \in Nat /\ CoefficientsSent(type) \in Nat
          /\ CoefficientsSent(type) <= CoefficientsAnnounced(type)
      BY <3>2, SizesAreCounts DEF CoefficientsAnnounced, CoefficientsSent
    <3>4. /\ replies \in Seq(Replies(current))
          /\ Len(replies) <= CoefficientsAnnounced(type) + 1
          /\ Head(replies) = Count(current, CoefficientsAnnounced(type))
      BY <3>1, <3>3, ListingAnswers
    <3>5. Head(replies).is = "count" /\ Head(replies).count = CoefficientsAnnounced(type)
      BY <3>4 DEF Count
    <3>6. QED
      BY <3>2, <3>4, <3>5
  <2> HIDE DEF types, replies
  <2>3. Interprets(types, replies)
    BY <2>1 DEF types, replies
  <2>4. QED
    BY <2>2, <2>3, ReplyStep
<1>7. QED
  BY <1>1, <1>2, <1>3, <1>4, <1>5, <1>6 DEF Interpreter

\* A reply that is the last one: the line is empty when the orchestrator goes on.
LEMMA LastReplyStep ==
  ASSUME Kinds, LineInv, Receive, pc \in {"reply", "value"}, pc' \notin Awaiting, UNCHANGED <<down, duct>>
  PROVE  LineInv'
<1>1. duct /\ Answered
  BY DEF LineInv, Receive, Awaiting
<1>2. up \in Seq(Replies(current)) /\ up # <<>> /\ Len(up) <= 1 /\ up' = Tail(up)
  BY <1>1 DEF Answered, Receive
<1>3. Tail(up) \in Seq(Replies(current)) /\ Len(Tail(up)) = Len(up) - 1 /\ Len(up) \in Nat
  BY <1>2, HeadTailProperties, LenProperties
<1>4. up' = <<>>
  BY <1>2, <1>3, EmptySeq
<1>5. QED
  BY <1>1, <1>4 DEF LineInv, Answered

\* A listing is left when as many replies have come as were announced, and those
\* are all that were sent.
LEMMA ListingStep ==
  ASSUME Kinds, LineInv, ReceiveCount \/ ReceiveElement
  PROVE  LineInv'
<1>1. /\ pc \in {"count", "element"} /\ up # <<>> /\ up' = Tail(up)
      /\ UNCHANGED <<down, duct, current>>
  BY DEF ReceiveCount, ReceiveElement, Receives, Receive, HostStep
<1>2. duct /\ Answered
  BY <1>1 DEF LineInv, Awaiting
<1>3. up \in Seq(Replies(current)) /\ down = <<>>
  BY <1>2 DEF Answered
<1>4. /\ Head(up) \in Replies(current) /\ Tail(up) \in Seq(Replies(current))
      /\ Len(Tail(up)) = Len(up) - 1 /\ Len(up) \in Nat \ {0}
  BY <1>1, <1>3, HeadTailProperties, EmptySeq
<1> DEFINE left == IF pc = "count" THEN Head(up).count ELSE cnt - 1
<1>5. left \in Nat /\ Len(Tail(up)) <= left
  <2>1. CASE pc = "count"
    BY <1>1, <1>2, <1>4, <2>1 DEF Answered, Replies
  <2>2. CASE pc = "element"
    BY <1>2, <1>4, <2>2 DEF Answered
  <2>3. QED
    BY <1>1, <2>1, <2>2
<1>6. cnt' = left /\ pc' = IF left = 0 THEN AfterListing ELSE "element"
  <2>1. CASE pc = "count"
    <3>1. Announced = Head(up).count
      BY <1>1, <1>2, <2>1 DEF Answered, Announced
    <3>2. ReceiveCount
      BY <2>1 DEF ReceiveElement, Receives, HostStep
    <3>3. QED
      BY <2>1, <3>1, <3>2 DEF ReceiveCount, Receives, HostStep
  <2>2. CASE pc = "element"
    <3>1. ReceiveElement
      BY <2>2 DEF ReceiveCount, Receives, HostStep
    <3>2. cnt \in Nat \ {0}
      BY <1>2, <2>2 DEF Answered
    <3>3. QED
      BY <2>2, <3>1, <3>2 DEF ReceiveElement, Receives, HostStep
  <2>3. QED
    BY <1>1, <2>1, <2>2
<1> HIDE DEF left
<1>7. CASE left = 0
  <2>1. up' = <<>>
    BY <1>1, <1>4, <1>5, <1>7, EmptySeq
  <2>2. pc' \notin Awaiting
    BY <1>6, <1>7 DEF AfterListing, Awaiting
  <2>3. QED
    BY <1>1, <1>3, <2>1, <2>2 DEF LineInv
<1>8. CASE left # 0
  <2>1. pc' = "element" /\ cnt' \in Nat \ {0} /\ Len(up') <= cnt'
    BY <1>1, <1>5, <1>6, <1>8
  <2>2. up' \in Seq(Replies(current)) /\ Replies(current') = Replies(current) /\ down' = <<>>
    BY <1>1, <1>3, <1>4
  <2>3. Answered'
    BY <2>1, <2>2 DEF Answered, Replies
  <2>4. QED
    BY <1>1, <1>2, <2>1, <2>3 DEF LineInv, Awaiting
<1>9. QED
  BY <1>7, <1>8

LEMMA LineStep ==
  ASSUME Announces, Kinds, LineInv, [Next]_vars
  PROVE  LineInv'
<1>1. CASE Workload \/ Runc
  <2>1. UNCHANGED <<down, up, pc, current, cnt, duct>>
    BY <1>1 DEF Workload, CausesEvent, Die, Runc, Kill, hostVars
  <2>2. QED
    BY <2>1 DEF LineInv, Answered, Replies
<1>2. CASE Interpreter
  BY <1>2, InterpreterStep
<1>3. CASE SendExport
  BY <1>3, SendStep DEF SendExport, Awaiting
<1>4. CASE CommandSent
  <2>1. PICK r \in Requests \ {"illegal"} :
          Send(Request(r), "mgmt", IF r \in {"seal", "value", "reset"} THEN "value" ELSE "count")
    BY <1>4 DEF CommandSent
  <2> DEFINE wait == IF r \in {"seal", "value", "reset"} THEN "value" ELSE "count"
  <2>2. wait \in {"reply", "value", "count"} /\ "mgmt" \notin Awaiting
    BY DEF Awaiting
  <2>3. Send(Request(r), "mgmt", wait)
    BY <2>1
  <2> HIDE DEF wait
  <2>4. QED
    BY <2>2, <2>3, SendStep
<1>5. CASE output_model
  <2>1. pc \notin Awaiting /\ Send(Request("coefficients"), pc, "count")
    BY <1>5 DEF output_model, Over, Awaiting
  <2>2. QED
    BY <2>1, SendStep
<1>6. CASE ReceiveInError \/ ReceiveVerdict \/ ReceiveAsyncVerdict \/ ReceiveOK \/ ReceiveValue
  <2>1. Receive /\ pc \in {"reply", "value"} /\ pc' \notin Awaiting /\ UNCHANGED <<down, duct>>
    BY <1>6, ContinueIsNoWait DEF ReceiveInError, ReceiveVerdict, ReceiveAsyncVerdict, ReceiveOK,
      ReceiveValue, Receives, Processed, ProcessingFails, Misanswered, ShutWorkloadDown, HostStep, Awaiting
  <2>2. QED
    BY <2>1, LastReplyStep
<1>7. CASE ReceiveCount \/ ReceiveElement
  BY <1>7, ListingStep
<1>8. CASE ReceiveInterrupted
  <2>1. duct' = FALSE /\ pc' \notin Awaiting
    BY <1>8 DEF ReceiveInterrupted, ProcessingFails, HostStep, Awaiting
  <2>2. QED
    BY <2>1 DEF LineInv
<1>9. CASE \/ PollReturns(TRUE) \/ PollReturns(FALSE) \/ SendExportFails \/ CommandFails
           \/ WaitForRunc \/ Finish \/ Stop
  <2>1. UNCHANGED <<down, up, duct>> /\ pc \notin Awaiting /\ pc' \notin Awaiting
    BY <1>9, ContinueIsNoWait DEF PollReturns, SendExportFails, ProcessingFails, CommandFails,
      WaitForRunc, Finish, Over, Stop, HostStep, Awaiting
  <2>2. QED
    BY <2>1 DEF LineInv
<1>10. CASE UNCHANGED vars
  BY <1>10 DEF vars, hostVars, LineInv, Answered, Replies
<1>11. QED
  BY <1>1, <1>2, <1>3, <1>4, <1>5, <1>6, <1>7, <1>8, <1>9, <1>10 DEF Next, Orchestrator

\* For any workload, any number of points, any requests but that for the
\* forensics points and whatever fails, the reply that is next on the line is one
\* to the command that was sent last.
THEOREM RepliesAnswer == Announces /\ Spec => []ReplyAnswersCommand
<1> SUFFICES ASSUME Announces PROVE Spec => []ReplyAnswersCommand
  OBVIOUS
<1>1. Init => Kinds /\ LineInv
  <2> SUFFICES ASSUME Init PROVE Kinds /\ LineInv
    OBVIOUS
  <2>1. Request("aggregate") \in Exports
    BY DEF Exports
  <2>2. queue = <<Request("aggregate")>> /\ batch = <<>> /\ pc = "poll" /\ down = <<>> /\ up = <<>>
    BY DEF Init
  <2>3. QED
    BY <2>1, <2>2 DEF Kinds, LineInv, Awaiting
<1>2. Kinds /\ LineInv => ReplyAnswersCommand
  <2> SUFFICES ASSUME Kinds, LineInv, duct
               PROVE  /\ \A i \in DOMAIN up : up[i].to = current
                      /\ up # <<>> => pc \in Awaiting
    BY DEF ReplyAnswersCommand
  <2>1. CASE up = <<>>
    BY <2>1
  <2>2. CASE up # <<>>
    <3>1. pc \in Awaiting /\ up \in Seq(Replies(current))
      BY <2>2 DEF LineInv, Answered
    <3>2. \A i \in DOMAIN up : up[i] \in Replies(current)
      BY <3>1, LenProperties
    <3>3. QED
      BY <3>1, <3>2 DEF Replies
  <2>3. QED
    BY <2>1, <2>2
<1>3. QED
  BY <1>1, <1>2, KindsStep, LineStep, PTL DEF Spec

-----------------------------------------------------------------------------
(* The event a process waits for.                                          *)

IsEventOf(e, p) == e.type = "event" /\ e.pid = p

None(s, p) == \A i \in 1..Len(s) : ~IsEventOf(s[i], p)

\* No event of p but one, with the point pt.
Sole(s, p, pt) == \A i \in 1..Len(s) : IsEventOf(s[i], p) =>
                    s[i].point = pt /\ \A j \in 1..Len(s) : IsEventOf(s[j], p) => j = i

\* The orchestrator waits for the verdict on an event of p.
UnderWay(p) == pc = "reply" /\ IsEventOf(current, p)

\* A process that runs has no event on its way, and one that waits none but
\* that with the point it waits with, in one place.
Tracked(p) ==
  /\ proc[p] = "running" => None(queue, p) /\ None(batch, p) /\ ~UnderWay(p)
  /\ Waits(p) =>
       /\ UnderWay(p) => current.point = proc[p] /\ None(queue, p) /\ None(batch, p)
       /\ Sole(queue, p, proc[p]) /\ Sole(batch, p, proc[p])
       /\ None(queue, p) \/ None(batch, p)

FlightInv == \A p \in Procs : Tracked(p)

TrustTypes ==
  /\ status \in [Points -> {"unknown", "valid", "invalid"}]
  /\ Model_Error \in BOOLEAN
  /\ proc \in [Procs -> {"running", "dead"} \cup Points]
  /\ trust \in [Procs -> {"trusted", "untrusted"}]
  /\ done \in [Procs -> SUBSET Points]

LEMMA EventsOfExports == \A e \in Exports : e.type # "aggregate" => e.pid \in Procs /\ e.point \in Points
BY DEF Exports, Request

LEMMA AppendOnWay ==
  ASSUME NEW s \in Seq(Exports), NEW e \in Exports, NEW p
  PROVE  /\ ~IsEventOf(e, p) => /\ None(s, p) => None(Append(s, e), p)
                                /\ \A pt : Sole(s, p, pt) => Sole(Append(s, e), p, pt)
         /\ None(s, p) => Sole(Append(s, e), p, e.point)
<1> DEFINE t == Append(s, e)
<1>1. /\ Len(s) \in Nat /\ Len(t) = Len(s) + 1 /\ t[Len(s) + 1] = e
      /\ \A i \in 1..Len(s) : t[i] = s[i]
  BY AppendProperties, LenProperties
<1> HIDE DEF t
<1>2. \A i \in 1..Len(t) : i \in 1..Len(s) \/ i = Len(s) + 1
  BY <1>1
<1>3. ASSUME ~IsEventOf(e, p), None(s, p) PROVE None(t, p)
  BY <1>1, <1>2, <1>3 DEF None
<1>4. ASSUME ~IsEventOf(e, p), NEW pt, Sole(s, p, pt) PROVE Sole(t, p, pt)
  <2>1. \A i \in 1..Len(t) : IsEventOf(t[i], p) => i \in 1..Len(s) /\ IsEventOf(s[i], p) /\ t[i] = s[i]
    BY <1>1, <1>2, <1>4
  <2>2. QED
    BY <1>4, <2>1 DEF Sole
<1>5. ASSUME None(s, p) PROVE Sole(t, p, e.point)
  <2>1. \A i \in 1..Len(t) : IsEventOf(t[i], p) => i = Len(s) + 1 /\ t[i] = e
    BY <1>1, <1>2, <1>5 DEF None
  <2>2. QED
    BY <2>1 DEF Sole
<1>6. QED
  BY <1>3, <1>4, <1>5 DEF t

LEMMA FrontOnWay ==
  ASSUME NEW s \in Seq(Exports), s # <<>>, NEW p
  PROVE  /\ Head(s) \in Exports
         /\ None(s, p) => ~IsEventOf(Head(s), p) /\ None(Tail(s), p)
         /\ \A pt : Sole(s, p, pt) =>
              /\ Sole(Tail(s), p, pt)
              /\ IsEventOf(Head(s), p) => Head(s).point = pt /\ None(Tail(s), p)
<1> DEFINE t == Tail(s)
<1>1. /\ Head(s) \in Exports /\ Head(s) = s[1]
      /\ Len(s) \in Nat \ {0} /\ Len(t) = Len(s) - 1
      /\ \A i \in 1..Len(t) : t[i] = s[i + 1]
  BY HeadTailProperties, EmptySeq
<1> HIDE DEF t
<1>2. \A i \in 1..Len(t) : i + 1 \in 1..Len(s) /\ i + 1 # 1
  BY <1>1
<1>3. 1 \in 1..Len(s)
  BY <1>1
<1>4. ASSUME None(s, p) PROVE ~IsEventOf(Head(s), p) /\ None(t, p)
  BY <1>1, <1>2, <1>3, <1>4 DEF None
<1>5. ASSUME NEW pt, Sole(s, p, pt)
      PROVE  /\ Sole(t, p, pt)
             /\ IsEventOf(Head(s), p) => Head(s).point = pt /\ None(t, p)
  <2>1. Sole(t, p, pt)
    <3>1. ASSUME NEW i \in 1..Len(t), IsEventOf(t[i], p)
          PROVE  t[i].point = pt /\ \A j \in 1..Len(t) : IsEventOf(t[j], p) => j = i
      <4>1. i + 1 \in 1..Len(s) /\ IsEventOf(s[i + 1], p) /\ t[i] = s[i + 1]
        BY <1>1, <1>2, <3>1
      <4>2. s[i + 1].point = pt /\ \A j \in 1..Len(s) : IsEventOf(s[j], p) => j = i + 1
        BY <1>5, <4>1 DEF Sole
      <4>3. ASSUME NEW j \in 1..Len(t), IsEventOf(t[j], p) PROVE j = i
        <5>1. j + 1 \in 1..Len(s) /\ IsEventOf(s[j + 1], p)
          BY <1>1, <1>2, <4>3
        <5>2. j + 1 = i + 1
          BY <4>2, <5>1
        <5>3. QED
          BY <1>1, <5>2
      <4>4. QED
        BY <4>1, <4>2, <4>3
    <3>2. QED
      BY <3>1 DEF Sole
  <2>2. ASSUME IsEventOf(Head(s), p) PROVE Head(s).point = pt /\ None(t, p)
    <3>1. s[1].point = pt /\ \A j \in 1..Len(s) : IsEventOf(s[j], p) => j = 1
      BY <1>1, <1>3, <1>5, <2>2 DEF Sole
    <3>2. \A i \in 1..Len(t) : ~IsEventOf(t[i], p)
      BY <1>1, <1>2, <3>1
    <3>3. QED
      BY <1>1, <3>1, <3>2 DEF None
  <2>3. QED
    BY <2>1, <2>2
<1>6. QED
  BY <1>1, <1>4, <1>5 DEF t

LEMMA EmptyOnWay == \A p, pt : None(<<>>, p) /\ Sole(<<>>, p, pt)
BY DEF None, Sole

LEMMA NoneIsSole == \A s, p, pt : None(s, p) => Sole(s, p, pt)
BY DEF None, Sole

\* A step that causes no event and sends none.
LEMMA TrackedKept ==
  ASSUME NEW p \in Procs, Tracked(p), UNCHANGED <<queue, batch, current>>,
         pc' = "reply" => pc = "reply",
         proc'[p] \in {proc[p], "dead"}
  PROVE  Tracked(p)'
<1>1. "dead" \notin Points
  BY SanchoAssumption
<1>2. UNCHANGED <<queue, batch, current>>
  OBVIOUS
<1>3. QED
  BY <1>1, <1>2 DEF Tracked, Waits, UnderWay, None, Sole, IsEventOf

LEMMA EventTracked ==
  ASSUME Kinds, FlightInv, TrustTypes, NEW p \in Procs, NEW pt \in Points,
         NEW type \in EventTypes \cup {"log"}, CausesEvent(type, p, pt)
  PROVE  FlightInv'
<1> DEFINE e == Export(type, p, pt)
<1>1. /\ proc[p] = "running" /\ queue' = Append(queue, e) /\ UNCHANGED <<batch, current, pc>>
      /\ proc' = IF type = "event" THEN [proc EXCEPT ![p] = pt] ELSE proc
  BY DEF CausesEvent, hostVars
<1>2. e \in Exports /\ e.type = type /\ e.pid = p /\ e.point = pt
  BY DEF Export, Exports, EventTypes
<1> HIDE DEF e
<1>3. ASSUME NEW q \in Procs PROVE Tracked(q)'
  <2>1. CASE q = p /\ type = "event"
    <3>1. None(queue, p) /\ None(batch, p) /\ ~UnderWay(p)
      BY <1>1 DEF FlightInv, Tracked
    <3>2. Sole(queue', p, pt)
      BY <1>1, <1>2, <3>1, AppendOnWay DEF Kinds
    <3>3. proc'[p] = pt /\ pt # "running"
      BY <1>1, <2>1, SanchoAssumption DEF TrustTypes
    <3>4. None(batch', p) /\ Sole(batch', p, pt) /\ ~UnderWay(p)'
      BY <1>1, <3>1, NoneIsSole DEF UnderWay
    <3>5. QED
      BY <2>1, <3>2, <3>3, <3>4 DEF Tracked, Waits
  <2>2. CASE q # p \/ type # "event"
    <3>1. ~IsEventOf(e, q)
      BY <1>2, <2>2 DEF IsEventOf
    <3>2. /\ None(queue, q) => None(queue', q)
          /\ Sole(queue, q, proc[q]) => Sole(queue', q, proc[q])
      BY <1>1, <1>2, <3>1, AppendOnWay DEF Kinds
    <3>3. proc'[q] = proc[q]
      BY <1>1, <2>2 DEF TrustTypes
    <3>4. Tracked(q)
      BY DEF FlightInv
    <3>5. UnderWay(q)' = UnderWay(q) /\ UNCHANGED <<batch, current>>
      BY <1>1 DEF UnderWay
    <3>6. QED
      BY <3>2, <3>3, <3>4, <3>5 DEF Tracked, Waits
  <2>3. QED
    BY <2>1, <2>2
<1>4. QED
  BY <1>3 DEF FlightInv

LEMMA PollTracked ==
  ASSUME FlightInv, NEW command \in BOOLEAN, PollReturns(command)
  PROVE  FlightInv'
<1>1. /\ batch' = queue /\ queue' = <<>> /\ pc' \in {"drain", "mgmt"} /\ UNCHANGED <<current, proc>>
  BY DEF PollReturns, HostStep, workloadVars
<1>2. ASSUME NEW p \in Procs PROVE Tracked(p)'
  <2>1. Tracked(p)
    BY DEF FlightInv
  <2>2. ~UnderWay(p)'
    BY <1>1 DEF UnderWay
  <2>3. None(queue', p) /\ Sole(queue', p, proc[p])
    BY <1>1, EmptyOnWay
  <2>4. QED
    BY <1>1, <2>1, <2>2, <2>3 DEF Tracked, Waits
<1>3. QED
  BY <1>2 DEF FlightInv

LEMMA SendTracked ==
  ASSUME Kinds, FlightInv, SendExport
  PROVE  FlightInv'
<1>1. /\ batch # <<>> /\ batch' = Tail(batch) /\ current' = Head(batch) /\ pc' = "reply"
      /\ pc = "drain" /\ UNCHANGED <<queue, proc>>
  BY DEF SendExport, Send, HostStep, Outside, workloadVars
<1>2. ASSUME NEW p \in Procs PROVE Tracked(p)'
  <2>1. Tracked(p)
    BY DEF FlightInv
  <2>2. /\ None(batch, p) => ~IsEventOf(Head(batch), p) /\ None(batch', p)
        /\ Sole(batch, p, proc[p]) =>
             /\ Sole(batch', p, proc[p])
             /\ IsEventOf(Head(batch), p) => Head(batch).point = proc[p] /\ None(batch', p)
    BY <1>1, FrontOnWay DEF Kinds
  <2>3. UnderWay(p)' <=> IsEventOf(Head(batch), p)
    BY <1>1 DEF UnderWay
  <2>4. UNCHANGED <<queue, proc>> /\ current' = Head(batch)
    BY <1>1
  <2>5. QED
    BY <2>1, <2>2, <2>3, <2>4 DEF Tracked, Waits
<1>3. QED
  BY <1>2 DEF FlightInv

\* A process that was answered runs, and its event is nowhere any more.
LEMMA AnswerTracked ==
  ASSUME FlightInv, TrustTypes, pc = "reply", pc' # "reply", UNCHANGED <<queue, batch, current>>,
         current.type = "event", NEW trusted, SetTrust(current.pid, trusted)
  PROVE  FlightInv'
<1> DEFINE a == current.pid
<1>1. proc' = proc \/ (Waits(a) /\ proc' = [proc EXCEPT ![a] = "running"])
  BY DEF SetTrust, Accepted
<1>2. ASSUME NEW p \in Procs PROVE Tracked(p)'
  <2>1. Tracked(p)
    BY DEF FlightInv
  <2>2. CASE p = a /\ proc' # proc
    <3>1. UnderWay(p) /\ Waits(p) /\ proc'[p] = "running"
      BY <1>1, <2>2 DEF UnderWay, IsEventOf, TrustTypes
    <3>2. None(queue, p) /\ None(batch, p)
      BY <2>1, <3>1 DEF Tracked
    <3>3. ~UnderWay(p)' /\ ~Waits(p)'
      BY <3>1, SanchoAssumption DEF UnderWay, Waits
    <3>4. None(queue', p) /\ None(batch', p)
      BY <3>2
    <3>5. QED
      BY <3>3, <3>4 DEF Tracked
  <2>3. CASE p # a \/ proc' = proc
    <3>1. proc'[p] = proc[p]
      BY <1>1, <2>3 DEF TrustTypes
    <3>2. QED
      BY <2>1, <3>1, TrackedKept
  <2>4. QED
    BY <2>2, <2>3
<1>3. QED
  BY <1>2 DEF FlightInv

-----------------------------------------------------------------------------
(* What a trusted process was let through.                                 *)

\* A release that is on the line is that of a valid point.
ReleaseInv ==
  pc = "reply" /\ current.type = "event" /\ up # <<>> =>
    (Head(up).is = "RELEASE" => status[current.point] = "valid")

WaitingIsTrusted == \A p \in Procs : Waits(p) => trust[p] = "trusted"

EarnedInv ==
  /\ TrustTypes /\ ReleaseInv /\ WaitingIsTrusted /\ TrustedMeansValid
  /\ ~Model_Error => FlightInv

\* The steps of the orchestrator after which it waits for no verdict.
Ends == \/ PollReturns(TRUE) \/ PollReturns(FALSE) \/ SendExportFails
        \/ ReceiveInError \/ ReceiveVerdict \/ ReceiveAsyncVerdict \/ ReceiveOK
        \/ CommandSent \/ CommandFails \/ ReceiveValue \/ ReceiveCount \/ ReceiveElement
        \/ WaitForRunc \/ Finish \/ output_model \/ ReceiveInterrupted \/ Stop

LEMMA EndsWait == Ends => pc' # "reply" /\ UNCHANGED agentVars
<1> SUFFICES ASSUME Ends PROVE pc' # "reply" /\ UNCHANGED agentVars
  OBVIOUS
<1>1. CASE CommandSent
  <2>1. PICK r \in Requests \ {"illegal"} :
          Send(Request(r), "mgmt", IF r \in {"seal", "value", "reset"} THEN "value" ELSE "count")
    BY <1>1 DEF CommandSent
  <2>2. QED
    BY <2>1 DEF Send, HostStep
<1>2. CASE Ends /\ ~CommandSent
  BY <1>2, ContinueIsNoWait DEF Ends, PollReturns, SendExportFails, ReceiveInError, ReceiveVerdict,
    ReceiveAsyncVerdict, ReceiveOK, CommandFails, ReceiveValue, ReceiveCount, ReceiveElement, WaitForRunc,
    Finish, output_model, ReceiveInterrupted, Stop, Processed, ProcessingFails, Misanswered,
    ShutWorkloadDown, Receives, Send, HostStep, AfterListing
<1>3. QED
  BY <1>1, <1>2

LEMMA Steps ==
  [Next]_vars => Workload \/ Runc \/ Interpreter \/ SendExport \/ Ends \/ UNCHANGED vars
BY DEF Next, Orchestrator, Ends

LEMMA WorkloadKeeps ==
  ASSUME Workload \/ Runc
  PROVE  UNCHANGED <<agentVars, trust, done, batch, current, up, pc, duct, Model_Error>>
BY DEF Workload, CausesEvent, Die, Runc, Kill, hostVars

LEMMA InterpreterKeeps ==
  ASSUME Interpreter
  PROVE  /\ UNCHANGED <<workloadVars, queue, hostVars>>
         /\ duct => down # <<>>
BY DEF Interpreter, InterpretEvent, InterpretEventFails, InterpretOther, InterpretOtherFails,
   InterpretSeal, InterpretValue, InterpretEvents, InterpretCoefficients, InterpretUnknown,
   InterpretReset, Interpreted, Interprets

\* A point that is valid stays valid.
LEMMA StatusStep ==
  ASSUME Kinds, LineInv, TrustTypes, [Next]_vars
  PROVE  /\ status' \in [Points -> {"unknown", "valid", "invalid"}]
         /\ \A pt \in Points : status[pt] = "valid" => status'[pt] = "valid"
<1>1. CASE UNCHANGED status
  BY <1>1 DEF TrustTypes
<1>2. ASSUME NEW x, status' = [status EXCEPT ![x] = Agent!Class(x)]
      PROVE  /\ status' \in [Points -> {"unknown", "valid", "invalid"}]
             /\ \A pt \in Points : status[pt] = "valid" => status'[pt] = "valid"
  BY <1>2 DEF TrustTypes, Agent!Class
<1>3. CASE Interpreter
  <2>1. UNCHANGED status \/ \E x : status' = [status EXCEPT ![x] = Agent!Class(x)]
    BY <1>3 DEF Interpreter, InterpretEvent, InterpretEventFails, InterpretOther, InterpretOtherFails,
      InterpretSeal, InterpretValue, InterpretEvents, InterpretCoefficients, InterpretUnknown,
      InterpretReset, Agent!Judge, Agent!Fail, Agent!Collapse, Agent!Seal, agentVars
  <2>2. QED
    BY <1>1, <1>2, <2>1
<1>4. CASE Workload \/ Runc \/ SendExport \/ Ends \/ UNCHANGED vars
  <2>1. UNCHANGED status
    BY <1>4, WorkloadKeeps, EndsWait DEF SendExport, Send, HostStep, vars, agentVars
  <2>2. QED
    BY <1>1, <2>1
<1>5. QED
  BY <1>3, <1>4, Steps

LEMMA ReleaseStep ==
  ASSUME Kinds, LineInv, TrustTypes, ReleaseInv, [Next]_vars
  PROVE  ReleaseInv'
<1>1. CASE pc' # "reply"
  BY <1>1 DEF ReleaseInv
<1>2. CASE Workload \/ Runc \/ UNCHANGED vars
  BY <1>2, WorkloadKeeps DEF ReleaseInv, vars, agentVars, hostVars
<1>3. CASE SendExport
  <2>1. up' = up /\ pc = "drain" /\ duct
    BY <1>3 DEF SendExport, Send, HostStep
  <2>2. up' = <<>>
    BY <2>1 DEF LineInv, Awaiting
  <2>3. QED
    BY <2>2 DEF ReleaseInv
<1>4. CASE Interpreter /\ pc' = "reply"
  <2>1. UNCHANGED <<pc, current, duct>>
    BY <1>4, InterpreterKeeps DEF hostVars
  <2>2. duct /\ down = <<current>> /\ up = <<>>
    BY <1>4, <2>1, InterpreterKeeps DEF LineInv, Answered, Awaiting
  <2>3. Head(down) = current
    BY <2>2
  <2>4. CASE InterpretEvent
    <3>1. /\ up' = up \o <<Reply(current, VerdictOn(current))>>
          /\ current.type \in EventTypes
          /\ status' = [status EXCEPT ![current.point] = Agent!Class(current.point)]
          /\ verdict'.discipline = (Agent!Class(current.point) = "invalid")
      BY <2>3, <2>4 DEF InterpretEvent, Interpreted, Interprets, Agent!Judge
    <3>2. Head(up') = Reply(current, VerdictOn(current))
      BY <2>2, <3>1
    <3>3. current.point \in Points
      BY <1>4, <2>1, <3>1, EventsOfExports DEF Kinds, EventTypes
    <3>4. Head(up').is = "RELEASE" => Agent!Class(current.point) # "invalid"
      <4>1. ASSUME Agent!Class(current.point) = "invalid" PROVE VerdictOn(current) = "DISCIPLINE"
        BY <3>1, <4>1 DEF VerdictOn
      <4>2. Head(up').is = VerdictOn(current)
        BY <3>2 DEF Reply
      <4>3. QED
        BY <4>1, <4>2
    <3>5. Agent!Class(current.point) \in {"valid", "invalid"}
      BY <3>3 DEF TrustTypes, Agent!Class
    <3>6. status'[current.point] = Agent!Class(current.point)
      BY <3>1, <3>3 DEF TrustTypes
    <3>7. Head(up').is = "RELEASE" => status'[current'.point] = "valid"
      BY <2>1, <3>4, <3>5, <3>6
    <3>8. QED
      BY <3>7 DEF ReleaseInv
  <2>5. CASE ~InterpretEvent
    <3>1. up' = <<>> \/ current.type # "event"
      <4>1. CASE InterpretEventFails \/ InterpretUnknown \/ InterpretReset
        BY <2>2, <4>1 DEF InterpretEventFails, InterpretUnknown, InterpretReset, Interpreted, Interprets
      <4>2. CASE \/ InterpretOther \/ InterpretOtherFails \/ InterpretSeal \/ InterpretValue
                 \/ InterpretEvents \/ InterpretCoefficients
        BY <2>3, <4>2 DEF InterpretOther, InterpretOtherFails, InterpretSeal, InterpretValue,
          InterpretEvents, InterpretCoefficients, Interpreted, Interprets
      <4>3. QED
        BY <1>4, <2>5, <4>1, <4>2 DEF Interpreter
    <3>2. QED
      BY <2>1, <3>1 DEF ReleaseInv
  <2>6. QED
    BY <2>4, <2>5
<1>5. CASE Ends
  BY <1>5, <1>1, EndsWait
<1>6. QED
  BY <1>1, <1>2, <1>3, <1>4, <1>5, Steps


\* The reply that is next answers the command that was sent last.
LEMMA NextReply ==
  ASSUME LineInv, pc \in Awaiting, up # <<>>
  PROVE  Head(up).to = current
<1>1. up \in Seq(Replies(current))
  BY DEF LineInv, Answered
<1>2. Head(up) \in Replies(current)
  BY <1>1, HeadTailProperties
<1>3. QED
  BY <1>2 DEF Replies

\* Until an error a process has no event on its way but the one it waits with.
LEMMA FlightStep ==
  ASSUME Kinds, LineInv, TrustTypes, FlightInv, ~Model_Error, [Next]_vars
  PROVE  FlightInv'
<1>1. ASSUME UNCHANGED <<queue, batch, current>>, pc' = "reply" => pc = "reply",
             \A p \in Procs : proc'[p] \in {proc[p], "dead"}
      PROVE  FlightInv'
  BY <1>1, TrackedKept DEF FlightInv
<1>2. CASE Workload
  <2>1. ASSUME NEW p \in Procs, NEW pt \in Points, NEW type \in EventTypes \cup {"log"},
               CausesEvent(type, p, pt)
        PROVE  FlightInv'
    BY <2>1, EventTracked
  <2>2. ASSUME NEW p \in Procs, Die(p) PROVE FlightInv'
    BY <1>1, <2>2 DEF Die, Kill, hostVars
  <2>3. QED
    BY <1>2, <2>1, <2>2 DEF Workload
<1>3. CASE Runc
  BY <1>1, <1>3 DEF Runc, Kill, hostVars
<1>4. CASE Interpreter
  <2>1. UNCHANGED <<queue, batch, current, pc, proc>>
    BY <1>4, InterpreterKeeps DEF hostVars, workloadVars
  <2>2. QED
    BY <1>1, <2>1
<1>5. CASE SendExport
  BY <1>5, SendTracked
<1>6. CASE PollReturns(TRUE) \/ PollReturns(FALSE)
  BY <1>6, PollTracked
<1>7. CASE ReceiveVerdict
  <2>1. /\ pc = "reply" /\ pc' # "reply" /\ current.type = "event" /\ up # <<>>
        /\ UNCHANGED <<queue, batch, current>>
    BY <1>7, ContinueIsNoWait DEF ReceiveVerdict, Receive, Processed, Misanswered, ProcessingFails, HostStep
  <2>2. Head(up).to = current
    BY <2>1, NextReply DEF Awaiting
  <2>3. UNCHANGED proc \/ \E trusted : SetTrust(current.pid, trusted)
    BY <1>7, <2>2 DEF ReceiveVerdict, Misanswered, ProcessingFails, Outside, workloadVars
  <2>4. QED
    BY <1>1, <2>1, <2>3, AnswerTracked
<1>8. CASE \/ CommandSent \/ output_model
  <2>1. UNCHANGED <<queue, batch, proc>> /\ pc' # "reply"
    BY <1>8, EndsWait DEF Ends, CommandSent, output_model, Send, HostStep, Outside, workloadVars
  <2>2. ASSUME NEW p \in Procs PROVE Tracked(p)'
    <3>1. Tracked(p) /\ ~UnderWay(p)'
      BY <2>1 DEF FlightInv, UnderWay
    <3>2. QED
      BY <2>1, <3>1 DEF Tracked, Waits
  <2>3. QED
    BY <2>2 DEF FlightInv
<1>9. CASE \/ SendExportFails \/ ReceiveAsyncVerdict \/ ReceiveOK \/ CommandFails \/ ReceiveValue
           \/ ReceiveCount \/ ReceiveElement \/ WaitForRunc \/ Finish \/ ReceiveInterrupted \/ Stop
  <2>1. pc' # "reply"
    BY <1>9, EndsWait DEF Ends
  <2>2. UNCHANGED <<queue, batch, current, proc>>
    BY <1>9 DEF SendExportFails, ReceiveAsyncVerdict, ReceiveOK, CommandFails, ReceiveValue, ReceiveCount,
      ReceiveElement, WaitForRunc, Finish, ReceiveInterrupted, Stop, Processed, ProcessingFails, Misanswered,
      ShutWorkloadDown, Receives, Outside, workloadVars
  <2>3. QED
    BY <1>1, <2>1, <2>2
<1>10. CASE UNCHANGED vars
  BY <1>1, <1>10 DEF vars, hostVars, workloadVars
<1>11. QED
  <2>1. ~ReceiveInError
    BY DEF ReceiveInError
  <2>2. QED
    BY <1>2, <1>3, <1>4, <1>5, <1>6, <1>7, <1>8, <1>9, <1>10, <2>1, Steps DEF Ends

LEMMA ErrorStays ==
  ASSUME TrustTypes, [Next]_vars
  PROVE  Model_Error' \in BOOLEAN /\ (Model_Error => Model_Error')
<1>1. CASE Workload \/ Runc \/ Interpreter \/ UNCHANGED vars
  BY <1>1, WorkloadKeeps, InterpreterKeeps DEF vars, hostVars, TrustTypes
<1>2. CASE SendExport \/ Ends
  BY <1>2 DEF SendExport, Ends, PollReturns, SendExportFails, ReceiveInError, ReceiveVerdict,
    ReceiveAsyncVerdict, ReceiveOK, CommandSent, CommandFails, ReceiveValue, ReceiveCount, ReceiveElement,
    WaitForRunc, Finish, output_model, ReceiveInterrupted, Stop, Processed, ProcessingFails, Misanswered,
    ShutWorkloadDown, Receives, Send, TrustTypes
<1>3. QED
  BY <1>1, <1>2, Steps

\* What the answer to a process that waits does: only its own status changes.
LEMMA SetTrustStep ==
  ASSUME TrustTypes, WaitingIsTrusted, NEW a, NEW trusted \in BOOLEAN, SetTrust(a, trusted)
  PROVE  /\ proc' \in [Procs -> {"running", "dead"} \cup Points]
         /\ trust' \in [Procs -> {"trusted", "untrusted"}]
         /\ done' \in [Procs -> SUBSET Points]
         /\ \A p \in Procs : proc'[p] \in Points => trust'[p] = "trusted"
         /\ \A p \in Procs : trust'[p] = "trusted" =>
              /\ trust[p] = "trusted"
              /\ \/ done'[p] = done[p]
                 \/ p = a /\ trusted /\ Waits(p) /\ done'[p] = done[p] \cup {proc[p]}
<1>1. CASE Accepted(a)
  <2>1. /\ proc' = [proc EXCEPT ![a] = "running"]
        /\ trust' = [trust EXCEPT ![a] = IF trusted THEN "trusted" ELSE "untrusted"]
        /\ done' = [done EXCEPT ![a] = @ \cup {proc[a]}]
        /\ proc[a] \in Points
    BY <1>1 DEF SetTrust, Accepted, Waits
  <2>2. /\ proc' \in [Procs -> {"running", "dead"} \cup Points]
        /\ trust' \in [Procs -> {"trusted", "untrusted"}]
        /\ done' \in [Procs -> SUBSET Points]
    BY <2>1 DEF TrustTypes
  <2>3. ASSUME NEW p \in Procs, p # a
        PROVE  proc'[p] = proc[p] /\ trust'[p] = trust[p] /\ done'[p] = done[p]
    BY <2>1, <2>3 DEF TrustTypes
  <2>4. ASSUME a \in Procs
        PROVE  /\ proc'[a] = "running" /\ trust'[a] = (IF trusted THEN "trusted" ELSE "untrusted")
               /\ done'[a] = done[a] \cup {proc[a]} /\ trust[a] = "trusted"
    BY <2>1, <2>4 DEF TrustTypes, WaitingIsTrusted, Waits
  <2>5. "running" \notin Points
    BY SanchoAssumption
  <2>6. ASSUME NEW p \in Procs
        PROVE  /\ proc'[p] \in Points => trust'[p] = "trusted"
               /\ trust'[p] = "trusted" =>
                    /\ trust[p] = "trusted"
                    /\ \/ done'[p] = done[p]
                       \/ p = a /\ trusted /\ Waits(p) /\ done'[p] = done[p] \cup {proc[p]}
    <3>1. CASE p = a
      BY <2>1, <2>4, <2>5, <3>1 DEF Waits
    <3>2. CASE p # a
      BY <2>3, <3>2 DEF WaitingIsTrusted, Waits
    <3>3. QED
      BY <3>1, <3>2
  <2>7. QED
    BY <2>2, <2>6
<1>2. CASE ~Accepted(a)
  <2>1. UNCHANGED <<proc, trust, done>>
    BY <1>2 DEF SetTrust
  <2>2. QED
    BY <2>1 DEF TrustTypes, WaitingIsTrusted, Waits
<1>3. QED
  BY <1>1, <1>2

\* What holds of the trust of the processes, from what a step does to it.
LEMMA TrustKept ==
  ASSUME TrustTypes, WaitingIsTrusted, UNCHANGED <<trust, done>>,
         status' \in [Points -> {"unknown", "valid", "invalid"}],
         Model_Error' \in BOOLEAN,
         proc' \in [Procs -> {"running", "dead"} \cup Points],
         \A p \in Procs : proc'[p] \in Points => trust[p] = "trusted"
  PROVE  TrustTypes' /\ WaitingIsTrusted'
BY DEF TrustTypes, WaitingIsTrusted, Waits

LEMMA EarnedStep ==
  ASSUME Kinds, LineInv, EarnedInv, [Next]_vars
  PROVE  EarnedInv'
<1>0. TrustTypes /\ ReleaseInv /\ WaitingIsTrusted /\ TrustedMeansValid
  BY DEF EarnedInv
<1>1. /\ status' \in [Points -> {"unknown", "valid", "invalid"}]
      /\ \A pt \in Points : status[pt] = "valid" => status'[pt] = "valid"
  BY <1>0, StatusStep
<1>2. Model_Error' \in BOOLEAN /\ (Model_Error => Model_Error')
  BY <1>0, ErrorStays
<1>3. ReleaseInv'
  BY <1>0, ReleaseStep
<1>4. ~Model_Error' => FlightInv'
  BY <1>0, <1>2, FlightStep DEF EarnedInv
<1>5. ASSUME UNCHANGED <<trust, done>>,
             proc' \in [Procs -> {"running", "dead"} \cup Points],
             \A p \in Procs : proc'[p] \in Points => trust[p] = "trusted"
      PROVE  TrustTypes' /\ WaitingIsTrusted' /\ TrustedMeansValid'
  <2>1. TrustTypes' /\ WaitingIsTrusted'
    BY <1>0, <1>1, <1>2, <1>5, TrustKept
  <2>2. TrustedMeansValid'
    BY <1>0, <1>1, <1>2, <1>5 DEF TrustTypes, TrustedMeansValid
  <2>3. QED
    BY <2>1, <2>2
<1>6. ASSUME NEW a, NEW trusted \in BOOLEAN, SetTrust(a, trusted),
             Model_Error' \/
               \A p \in Procs : p = a /\ trusted /\ Waits(p) => status[proc[p]] = "valid"
      PROVE  TrustTypes' /\ WaitingIsTrusted' /\ TrustedMeansValid'
  <2>1. /\ proc' \in [Procs -> {"running", "dead"} \cup Points]
        /\ trust' \in [Procs -> {"trusted", "untrusted"}]
        /\ done' \in [Procs -> SUBSET Points]
        /\ \A p \in Procs : proc'[p] \in Points => trust'[p] = "trusted"
        /\ \A p \in Procs : trust'[p] = "trusted" =>
             /\ trust[p] = "trusted"
             /\ \/ done'[p] = done[p]
                \/ p = a /\ trusted /\ Waits(p) /\ done'[p] = done[p] \cup {proc[p]}
    BY <1>0, <1>6, SetTrustStep
  <2>2. TrustTypes' /\ WaitingIsTrusted'
    BY <1>1, <1>2, <2>1 DEF TrustTypes, WaitingIsTrusted, Waits
  <2>3. TrustedMeansValid'
    <3> SUFFICES ASSUME ~Model_Error', NEW p \in Procs, trust'[p] = "trusted", NEW pt \in done'[p]
                 PROVE  status'[pt] = "valid"
      BY DEF TrustedMeansValid
    <3>1. pt \in Points
      BY <2>1
    <3>2. trust[p] = "trusted" /\ (pt \in done[p] \/ (p = a /\ trusted /\ Waits(p) /\ pt = proc[p]))
      BY <2>1
    <3>3. status[pt] = "valid"
      BY <1>0, <1>2, <1>6, <3>2 DEF TrustedMeansValid
    <3>4. QED
      BY <1>1, <3>1, <3>3
  <2>4. QED
    BY <2>2, <2>3
<1>7. TrustTypes' /\ WaitingIsTrusted' /\ TrustedMeansValid'
  <2>1. CASE Workload
    <3>1. ASSUME NEW p \in Procs, NEW pt \in Points, NEW type \in EventTypes \cup {"log"},
                 CausesEvent(type, p, pt)
          PROVE  TrustTypes' /\ WaitingIsTrusted' /\ TrustedMeansValid'
      <4>1. /\ UNCHANGED <<trust, done>>
            /\ proc' = IF type = "event" THEN [proc EXCEPT ![p] = pt] ELSE proc
            /\ type = "log" <=> trust[p] = "untrusted"
        BY <3>1 DEF CausesEvent
      <4>2. proc' \in [Procs -> {"running", "dead"} \cup Points]
        BY <1>0, <4>1 DEF TrustTypes
      <4>3. \A q \in Procs : proc'[q] \in Points => trust[q] = "trusted"
        BY <1>0, <4>1 DEF TrustTypes, WaitingIsTrusted, Waits
      <4>4. QED
        BY <1>5, <4>1, <4>2, <4>3
    <3>2. ASSUME NEW p \in Procs, Die(p) PROVE TrustTypes' /\ WaitingIsTrusted' /\ TrustedMeansValid'
      <4>1. UNCHANGED <<trust, done>> /\ proc' = [q \in Procs |-> IF q \in {p} THEN "dead" ELSE proc[q]]
        BY <3>2 DEF Die, Kill
      <4>2. /\ proc' \in [Procs -> {"running", "dead"} \cup Points]
            /\ \A q \in Procs : proc'[q] \in Points => trust[q] = "trusted"
        BY <1>0, <4>1, SanchoAssumption DEF TrustTypes, WaitingIsTrusted, Waits
      <4>3. QED
        BY <1>5, <4>1, <4>2
    <3>3. QED
      BY <2>1, <3>1, <3>2 DEF Workload
  <2>2. CASE Runc
    <3>1. UNCHANGED <<trust, done>> /\ proc' = [q \in Procs |-> IF q \in Procs THEN "dead" ELSE proc[q]]
      BY <2>2 DEF Runc, Kill
    <3>2. /\ proc' \in [Procs -> {"running", "dead"} \cup Points]
          /\ \A q \in Procs : proc'[q] \in Points => trust[q] = "trusted"
      BY <3>1, SanchoAssumption
    <3>3. QED
      BY <1>5, <3>1, <3>2
  <2>3. ASSUME UNCHANGED <<trust, done, proc>>
        PROVE  TrustTypes' /\ WaitingIsTrusted' /\ TrustedMeansValid'
    BY <1>0, <1>5, <2>3 DEF TrustTypes, WaitingIsTrusted, Waits
  <2>4. CASE ReceiveVerdict
    <3>1. pc = "reply" /\ current.type = "event" /\ ~Model_Error /\ up # <<>>
      BY <2>4 DEF ReceiveVerdict, Receive, Processed, Misanswered, ProcessingFails, HostStep
    <3>2. Head(up).to = current
      BY <3>1, NextReply DEF Awaiting
    <3>3. CASE Verdict
      <4>1. SetTrust(current.pid, Head(up).is = "RELEASE")
        BY <2>4, <3>2, <3>3 DEF ReceiveVerdict
      <4>2. ASSUME NEW p \in Procs, p = current.pid, Head(up).is = "RELEASE", Waits(p)
            PROVE  status[proc[p]] = "valid"
        <5>1. UnderWay(p) /\ Tracked(p)
          BY <3>1, <4>2 DEF UnderWay, IsEventOf, EarnedInv, FlightInv
        <5>2. current.point = proc[p]
          BY <4>2, <5>1 DEF Tracked
        <5>3. QED
          BY <1>0, <3>1, <4>2, <5>2 DEF ReleaseInv
      <4>3. (Head(up).is = "RELEASE") \in BOOLEAN
        OBVIOUS
      <4>4. QED
        BY <1>6, <4>1, <4>2, <4>3
    <3>4. CASE ~Verdict
      BY <2>3, <2>4, <3>4 DEF ReceiveVerdict, Misanswered, ProcessingFails, Outside, workloadVars
    <3>5. QED
      BY <3>3, <3>4
  <2>5. CASE ReceiveInError
    <3>1. CASE Accepted(current.pid)
      <4>1. SetTrust(current.pid, TRUE) /\ Model_Error'
        BY <2>5, <3>1 DEF ReceiveInError, Processed
      <4>2. QED
        BY <1>6, <4>1
    <3>2. CASE ~Accepted(current.pid)
      BY <2>3, <2>5, <3>2 DEF ReceiveInError, ProcessingFails, Outside, workloadVars
    <3>3. QED
      BY <3>1, <3>2
  <2>6. CASE Interpreter \/ SendExport \/ UNCHANGED vars \/ (Ends /\ ~ReceiveVerdict /\ ~ReceiveInError)
    <3>1. UNCHANGED <<trust, done, proc>>
      BY <2>6, InterpreterKeeps DEF SendExport, Ends, PollReturns, SendExportFails, ReceiveAsyncVerdict,
        ReceiveOK, CommandSent, CommandFails, ReceiveValue, ReceiveCount, ReceiveElement, WaitForRunc,
        Finish, output_model, ReceiveInterrupted, Stop, ProcessingFails, Misanswered,
        Receives, Outside, workloadVars, vars
    <3>2. QED
      BY <2>3, <3>1
  <2>7. QED
    BY <2>1, <2>2, <2>4, <2>5, <2>6, Steps
<1>8. QED
  BY <1>3, <1>4, <1>7 DEF EarnedInv

\* For any workload, any number of points and whatever fails, a process that is
\* still trusted was let through no event but those whose points are valid: the
\* reply it was released with is the one to the event it waits with, and that
\* was a release of a valid point.  An error after which the orchestrator
\* releases processes whatever the reply is excepted, as in the run.
THEOREM VerdictIsEarned == Announces /\ Spec => []TrustedMeansValid
<1> SUFFICES ASSUME Announces PROVE Spec => []TrustedMeansValid
  OBVIOUS
<1>1. Init => Kinds /\ LineInv /\ EarnedInv
  <2> SUFFICES ASSUME Init PROVE Kinds /\ LineInv /\ EarnedInv
    OBVIOUS
  <2>1. Request("aggregate") \in Exports /\ Request("aggregate").type = "aggregate"
    BY DEF Exports, Request
  <2>2. /\ queue = <<Request("aggregate")>> /\ batch = <<>> /\ pc = "poll" /\ down = <<>> /\ up = <<>>
        /\ trust = [p \in Procs |-> "trusted"] /\ done = [p \in Procs |-> {}]
        /\ proc = [p \in Procs |-> "running"] /\ Model_Error = FALSE
    BY DEF Init
  <2>3. status \in [Points -> {"unknown", "valid", "invalid"}]
    BY DEF Init
  <2>4. Kinds /\ LineInv
    BY <2>1, <2>2 DEF Kinds, LineInv, Awaiting
  <2>5. TrustTypes /\ ReleaseInv /\ WaitingIsTrusted /\ TrustedMeansValid
    BY <2>2, <2>3 DEF TrustTypes, ReleaseInv, WaitingIsTrusted, TrustedMeansValid
  <2>6. \A p \in Procs : None(queue, p) /\ None(batch, p)
    BY <2>1, <2>2 DEF None, IsEventOf
  <2>7. FlightInv
    BY <2>2, <2>6, SanchoAssumption DEF FlightInv, Tracked, Waits, UnderWay
  <2>8. QED
    BY <2>4, <2>5, <2>7 DEF EarnedInv
<1>2. EarnedInv => TrustedMeansValid
  BY DEF EarnedInv
<1>3. QED
  BY <1>1, <1>2, KindsStep, LineStep, EarnedStep, PTL DEF Spec
=============================================================================
