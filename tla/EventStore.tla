------------------------------ MODULE EventStore ------------------------------
(***************************************************************************)
(* The events.jsonl of one run: the appends of JsonlEventStore and the two *)
(* readers of src/core/store/index.ts.                                     *)
(*                                                                         *)
(* An append opens the file and writes its line in pieces of at most       *)
(* 512 KiB, each at the end the file then has.  The handlers of LiveProxy  *)
(* start appends to one run without waiting for each other, so the pieces  *)
(* of two lines may interleave; LiveProxy itself takes an append as one    *)
(* step, which is right for lines of one piece.                            *)
(***************************************************************************)
EXTENDS Naturals, Sequences, FiniteSets

CONSTANTS
  Appends,      \* the appends to the run, one event each
  Pieces,       \* the pieces the line of each event is written in
  MaxWriting,  \* bound on the appends in progress at one time
  MaxFailures   \* bound on writes that fail and processes that die

ASSUME StoreAssumption ==
  /\ Pieces \in [Appends -> Nat \ {0}]
  /\ MaxWriting \in Nat \ {0} /\ MaxFailures \in Nat

VARIABLES
  file,      \* the pieces in the file, in order
  progress,  \* the pieces each append has written
  state,     \* where each append is
  settled,   \* the appends that have settled, in order
  torn,      \* whether a piece was written into the open line of another append
  failures

storeVars == <<file, progress, state, settled, torn, failures>>

Piece(a, k) == [event |-> a, part |-> k]

Writing == {a \in Appends : state[a] = "writing"}

\* The line of an append that has begun to be written and will not, or not yet, end.
IsOpen(a) == progress[a] \in 1..(Pieces[a] - 1)

IsOpenBeside(a) == \E b \in Appends \ {a} : IsOpen(b)

StoreInit ==
  /\ file = <<>>
  /\ progress = [a \in Appends |-> 0]
  /\ state = [a \in Appends |-> "new"]
  /\ settled = <<>>
  /\ torn = FALSE
  /\ failures = 0

Start(a) ==
  /\ state[a] = "new" /\ Cardinality(Writing) < MaxWriting
  /\ state' = [state EXCEPT ![a] = "writing"]
  /\ UNCHANGED <<file, progress, settled, torn, failures>>

\* Slip: the file is opened for writing, and not for appending.
WriteOver(a) ==
  /\ state[a] = "writing"
  /\ progress' = [progress EXCEPT ![a] = @ + 1]
  /\ file' = IF progress[a] = 0 THEN <<Piece(a, 1)>> ELSE Append(file, Piece(a, progress'[a]))
  /\ IF progress'[a] = Pieces[a]
     THEN state' = [state EXCEPT ![a] = "settled"] /\ settled' = Append(settled, a)
     ELSE UNCHANGED <<state, settled>>
  /\ torn' = (torn \/ IsOpenBeside(a))
  /\ UNCHANGED failures

\* One write of the loop in writeFile; the last one ends the line.
Write(a) ==
  /\ state[a] = "writing"
  /\ progress' = [progress EXCEPT ![a] = @ + 1]
  /\ file' = Append(file, Piece(a, progress'[a]))
  /\ IF progress'[a] = Pieces[a]
     THEN state' = [state EXCEPT ![a] = "settled"] /\ settled' = Append(settled, a)
     ELSE UNCHANGED <<state, settled>>
  /\ torn' = (torn \/ IsOpenBeside(a))
  /\ UNCHANGED failures

\* A write fails: the append rejects, and what it has written stays.
WriteFails(a) ==
  /\ state[a] = "writing" /\ failures < MaxFailures
  /\ failures' = failures + 1
  /\ state' = [state EXCEPT ![a] = "failed"]
  /\ UNCHANGED <<file, progress, settled, torn>>

\* The process dies with all its appends; later ones are those of a new process.
Crash ==
  /\ Writing # {} /\ failures < MaxFailures
  /\ failures' = failures + 1
  /\ state' = [a \in Appends |-> IF state[a] = "writing" THEN "failed" ELSE state[a]]
  /\ UNCHANGED <<file, progress, settled, torn>>

StoreNext ==
  \/ \E a \in Appends : Start(a) \/ Write(a) \/ WriteFails(a)
  \/ Crash

StoreSpec == StoreInit /\ [][StoreNext]_storeVars

-----------------------------------------------------------------------------
(***************************************************************************)
(* The readers.  A reader sees some prefix of the file that is on disk; as *)
(* every prefix is the file of an earlier state, it is read here whole.    *)
(***************************************************************************)
Invalid == <<"invalid">>

LineEnds == {i \in DOMAIN file : file[i].part = Pieces[file[i].event]}

\* The place of the k-th line feed: k - 1 are before it.
LineEnd(k) ==
  IF k = 0 THEN 0
  ELSE CHOOSE i \in LineEnds : Cardinality({j \in LineEnds : j < i}) = k - 1

\* The closed lines of the file, and the text after the last line feed.
ClosedLines ==
  [k \in 1..Cardinality(LineEnds) |-> SubSeq(file, LineEnd(k - 1) + 1, LineEnd(k))]

OpenLine == SubSeq(file, LineEnd(Cardinality(LineEnds)) + 1, Len(file))

\* JSON.parse of a line: it holds the pieces of one event, and no others.
IsEvent(line) == line = [k \in 1..Pieces[line[1].event] |-> Piece(line[1].event, k)]

ReadEvents(lines) ==
  IF \A k \in DOMAIN lines : IsEvent(lines[k])
  THEN [k \in DOMAIN lines |-> lines[k][1].event]
  ELSE Invalid

\* readAll, readEventsFromRunDir: the text after the last line feed is a line too.
ReadWhole == ReadEvents(IF OpenLine = <<>> THEN ClosedLines ELSE Append(ClosedLines, OpenLine))

\* streamEventsFromRunDir: it is left pending.
ReadStream == ReadEvents(ClosedLines)

-----------------------------------------------------------------------------
\* Types of the variables.
StoreTypeOK ==
  /\ file \in Seq([event : Appends, part : Nat])
  /\ progress \in [Appends -> Nat] /\ \A a \in Appends : progress[a] <= Pieces[a]
  /\ state \in [Appends -> {"new", "writing", "settled", "failed"}]
  /\ settled \in Seq(Appends)
  /\ torn \in BOOLEAN
  /\ failures \in 0..MaxFailures

\* The streaming reader gives the events whose appends have settled, in that order,
\* also while the next one is being written and after one has failed half way, up to
\* the first append that writes into an open line.
StreamReadsSettled == ~torn => ReadStream = settled

\* So does the reader of whole files, while no line is open.
WholeReadsSettled ==
  ~torn /\ (\A a \in Appends : ~IsOpen(a)) => ReadWhole = settled

\* Typed, and both readers give the events that have settled, in their order.
StoreInv == StoreTypeOK /\ StreamReadsSettled /\ WholeReadsSettled

\* What test/large-run-store.test.js says of the streaming reader and the appends do
\* not allow it: it reads the events that have ended while the file is appended to.
StreamReadsWhileAppending == ReadStream = settled
=============================================================================
