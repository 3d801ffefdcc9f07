----------------------------- MODULE TSEMevent -----------------------------
(***************************************************************************)
(* How an orchestrator cuts the stream of event descriptions that its      *)
(* monitor process copies into a pipe back into lines: read_event and      *)
(* fetch_event of lib/TSEMevent.c, driven by the loop of child_monitor in  *)
(* Quixote/quixote-us.c (the other orchestrators share the loop).          *)
(*                                                                         *)
(* A byte of the stream is named by its position, so a byte that is lost,  *)
(* repeated or moved shows.  NUL is the terminator memset writes.          *)
(***************************************************************************)
EXTENDS Integers, Sequences, FiniteSets

CONSTANTS StreamLength,  \* bytes the monitor process will write
          Newlines       \* the positions that hold a line feed, the last one does

VARIABLES
  written,    \* bytes the monitor process has written
  whole,      \* every write so far has ended with a line feed
  pipe,       \* bytes in the pipe
  bufr,       \* the object's input buffer, over its whole allocation
  size,       \* bytes of the stream it holds
  available,  \* what FIONREAD answered
  event,      \* the event description last fetched
  more,       \* the flag the drain loop of child_monitor runs on
  pc,         \* where child_monitor is
  processed,  \* the descriptions handed to process_event
  killed      \* kill_cartridge was called because a fetch failed

vars == <<written, whole, pipe, bufr, size, available, event, more, pc, processed, killed>>

readerVars == <<bufr, size, available, event, more, pc, processed, killed>>

NUL == 0

Bytes == 1..StreamLength

TypeOK ==
  /\ written \in 0..StreamLength
  /\ whole \in BOOLEAN
  /\ pipe \in Seq(Bytes)
  /\ bufr \in Seq(Bytes \cup {NUL})
  /\ size \in 0..Len(bufr)
  /\ available \in 0..StreamLength
  /\ event \in Seq(Bytes)
  /\ more \in BOOLEAN
  /\ pc \in {"poll", "read", "fetch", "process"}
  /\ processed \in Seq(Seq(Bytes))
  /\ killed \in BOOLEAN

Init ==
  /\ written = 0
  /\ whole = TRUE
  /\ pipe = <<>>
  /\ bufr = <<>>
  /\ size = 0
  /\ available = 0
  /\ event = <<>>
  /\ more = FALSE
  /\ pc = "poll"
  /\ processed = <<>>
  /\ killed = FALSE

-----------------------------------------------------------------------------

\* The monitor process copies what one read of the kernel's event file gave it:
\* whole lines, unless a description is longer than its 2048 bytes of buffer.
Write(n) ==
  /\ n \in 1..(StreamLength - written)
  /\ whole' = (whole /\ written + n \in Newlines)
  /\ pipe' = pipe \o [i \in 1..n |-> written + i]
  /\ written' = written + n
  /\ UNCHANGED readerVars

\* poll reports input and read_event asks how much there is.
Poll ==
  /\ pc = "poll"
  /\ pipe # <<>>
  /\ available' = Len(pipe)
  /\ pc' = "read"
  /\ UNCHANGED <<written, whole, pipe, bufr, size, event, more, processed, killed>>

\* Mutant: what was written after FIONREAD is dropped.
LeftInPipeNothing == <<>>

\* read takes what was available when FIONREAD answered.
LeftInPipe == SubSeq(pipe, available + 1, Len(pipe))

\* The buffer grows to hold the input, is cleared behind what it still holds,
\* and takes what was available when it was asked for.
Read ==
  LET allocation == IF Len(bufr) > available + size THEN Len(bufr) ELSE available + size
  IN  /\ pc = "read"
      /\ bufr' = [i \in 1..allocation |->
                    IF i <= size THEN bufr[i]
                    ELSE IF i <= size + available THEN pipe[i - size]
                    ELSE NUL]
      /\ pipe' = LeftInPipe
      /\ size' = size + available
      /\ more' = TRUE
      /\ pc' = "fetch"
      /\ UNCHANGED <<written, whole, available, event, processed, killed>>

\* strchr(start, '\n'): the line feeds that no NUL hides.
LineFeeds(b) == {i \in DOMAIN b : b[i] \in Newlines /\ \A j \in 1..i : b[j] # NUL}

First(S) == CHOOSE i \in S : \A j \in S : i <= j

\* The buffer once its first n bytes are taken.  When nothing is left it is not
\* cleared: the NUL put over the line feed stays in front of what it held.
Consumed(n) ==
  IF size > n
    THEN [i \in DOMAIN bufr |-> IF i <= size - n THEN bufr[i + n] ELSE NUL]
    ELSE [bufr EXCEPT ![n] = NUL]

\* The line that ends at n.
Line(n) == SubSeq(bufr, 1, n - 1)

\* Mutants: one line is fetched for every input; the flag is never reset.
MoreNever(n) == FALSE
MoreAlways(n) == TRUE

\* The flag the caller is handed once n bytes are taken: a partial line left
\* behind leaves it as it was.
MoreAfter(n) == size > n /\ (LineFeeds(Consumed(n)) # {} \/ more)

\* fetch_event takes the first line.
FetchLine ==
  LET n == First(LineFeeds(bufr))
  IN  /\ pc = "fetch"
      /\ LineFeeds(bufr) # {}
      /\ event' = Line(n)
      /\ size' = size - n
      /\ bufr' = Consumed(n)
      /\ more' = MoreAfter(n)
      /\ pc' = "process"
      /\ UNCHANGED <<written, whole, pipe, available, processed, killed>>

\* There is no line: the workload is killed and the loop goes back to poll.
FetchNothing ==
  /\ pc = "fetch"
  /\ LineFeeds(bufr) = {}
  /\ killed' = TRUE
  /\ pc' = "poll"
  /\ UNCHANGED <<written, whole, pipe, bufr, size, available, event, more, processed>>

Process ==
  /\ pc = "process"
  /\ processed' = Append(processed, event)
  /\ pc' = IF more THEN "fetch" ELSE "poll"
  /\ UNCHANGED <<written, whole, pipe, bufr, size, available, event, more, killed>>

Monitor == \E n \in 1..StreamLength : Write(n)

Reader == Poll \/ Read \/ FetchLine \/ FetchNothing \/ Process

Next == Monitor \/ Reader

\* The reader takes its steps; the kernel owes it no event.
Spec == Init /\ [][Next]_vars /\ WF_vars(Reader)

-----------------------------------------------------------------------------
(* Properties.                                                             *)

\* How many lines end within the first n bytes of the stream.
Feeds(n) == Cardinality(Newlines \cap 1..n)

\* The k-th line of the stream, without its line feed.
IsLine(k, line) ==
  \E start \in {0} \cup Newlines, feed \in Newlines :
    /\ start < feed
    /\ Newlines \cap (start + 1)..feed = {feed}
    /\ Feeds(feed) = k
    /\ line = [j \in 1..(feed - start - 1) |-> start + j]

\* However the writes cut the stream, process_event is given its lines: whole,
\* once each and in order (fetch_event moves the rest of the buffer down).
ProcessedAreLines == \A k \in DOMAIN processed : IsLine(k, processed[k])

\* What the buffer and the pipe hold is the end of what was written, without a
\* gap: no byte is lost between FIONREAD and read, or by the move.
NothingLost ==
  LET rest == SubSeq(bufr, 1, size) \o pipe
      here == IF pc = "read" THEN available <= Len(pipe) ELSE TRUE
  IN  here /\ \A k \in DOMAIN rest : rest[k] = written - Len(rest) + k

\* Every line that is written is processed, with no need of a later one.
LinesAreProcessed ==
  \A k \in 1..Cardinality(Newlines) : (Feeds(written) >= k) ~> (Len(processed) >= k)

\* As long as whole lines are written no fetch comes back empty handed, which
\* would kill the workload.
NeverKilled == whole => ~killed

\* The flag fetch_event hands back says that "an additional event description
\* is available in the input queue" (lib/TSEMevent.c).
MoreMeansAnotherLine == pc = "process" /\ more => LineFeeds(bufr) # {}
=============================================================================
