----------------------------- MODULE ResponseText -----------------------------
(***************************************************************************)
(* The text of an upstream response and how the observer reads it          *)
(* (createResponseObserver in src/adapters/codex/live-proxy/transport.ts): *)
(* blocks of server-sent events, lines, and JSON documents.                *)
(*                                                                         *)
(* A text is a sequence of tokens: line feeds, carriage returns, the field *)
(* names "data:" and "event:", and the two halves of a JSON document, so   *)
(* that a chunk may end inside of a document or of a line delimiter.       *)
(***************************************************************************)
EXTENDS Naturals, SequencesExt

CONSTANTS Null

\* A document: its type, and the response it is or carries.
Response == [id : STRING, status : STRING, usage : BOOLEAN]
Document(type, self, response) == [type |-> type, self |-> self, response |-> response]
Documents ==
  [type : STRING, self : Response \cup {Null}, response : Response \cup {Null}]

Mark(kind) == [kind |-> kind, document |-> Null]
LF == Mark("lf")
CR == Mark("cr")
DataField == Mark("data")
EventField == Mark("event")
Head1(d) == [kind |-> "head", document |-> d]
Tail1(d) == [kind |-> "tail", document |-> d]

Token == {LF, CR, DataField, EventField} \cup [kind : {"head", "tail"}, document : Documents]

\* The documents that are in a text, or begin or end in it.
DocumentsIn(text) == {text[i].document : i \in DOMAIN text} \ {Null}

-----------------------------------------------------------------------------
(***************************************************************************)
(* Documents, blocks and lines.                                            *)
(***************************************************************************)

\* JSON.parse: the two halves of one document, with line breaks anywhere.
IsTextOf(text, d) ==
  \E i, j \in DOMAIN text :
    /\ i < j /\ text[i] = Head1(d) /\ text[j] = Tail1(d)
    /\ \A k \in DOMAIN text \ {i, j} : text[k] \in {LF, CR}

Parse(text) ==
  LET documents == {d \in DocumentsIn(text) : IsTextOf(text, d)}
  IN  IF documents = {} THEN Null ELSE CHOOSE d \in documents : TRUE

\* The delimiter that ends a block, /\r?\n\r?\n/.
Delimiters == {<<LF, LF>>, <<CR, LF, LF>>, <<LF, CR, LF>>, <<CR, LF, CR, LF>>}

IsDelimiter(text, i, j) == SubSeq(text, i, j) \in Delimiters

Boundary(text) ==
  LET starts == {i \in DOMAIN text : \E j \in i..Len(text) : IsDelimiter(text, i, j)}
  IN  IF starts = {} THEN 0 ELSE Min(starts)

\* The first of the longest delimiters at a position, as the greedy match takes it.
BoundaryEnd(text, i) ==
  CHOOSE j \in i..Len(text) :
    IsDelimiter(text, i, j) /\ \A k \in (j + 1)..Len(text) : ~IsDelimiter(text, i, k)

\* A line without the carriage return of its end.
Stripped(line) == IF line # <<>> /\ Last(line) = CR THEN Front(line) ELSE line

\* split(/\r?\n/): a line feed ends a line, and what follows the last one is a line too.
Lines(text) ==
  LET split[n \in 0..Len(text)] ==
        IF n = 0 THEN [closed |-> <<>>, open |-> <<>>]
        ELSE IF text[n] = LF
        THEN [closed |-> Append(split[n - 1].closed, Stripped(split[n - 1].open)), open |-> <<>>]
        ELSE [closed |-> split[n - 1].closed, open |-> Append(split[n - 1].open, text[n])]
  IN  Append(split[Len(text)].closed, split[Len(text)].open)

HasField(line) == line # <<>> /\ Head(line) = DataField

\* The data lines among some lines, joined by line feeds.
JoinedData(lines) ==
  LET data[n \in 0..Len(lines)] ==
        IF n = 0 THEN <<>>
        ELSE IF HasField(lines[n]) THEN data[n - 1] \o Tail(lines[n]) \o <<LF>>
        ELSE data[n - 1]
  IN  data[Len(lines)]

BlockData(block) == JoinedData(Lines(block))

-----------------------------------------------------------------------------
(***************************************************************************)
(* What the observer does with a text.                                     *)
(***************************************************************************)

\* The response a document reports complete, or Null.
CompletedResponse(d) ==
  IF d.type = "response.completed" THEN d.response
  ELSE IF d.self # Null /\ d.self.status = "completed" /\ d.self.usage THEN d.self
  ELSE IF d.response # Null /\ d.response.status = "completed" /\ d.response.usage
       THEN d.response
  ELSE Null

\* The responses that the documents of a text report complete, whatever its form.
CompleteIn(text) ==
  {CompletedResponse(d).id : d \in {e \in DocumentsIn(text) : CompletedResponse(e) # Null}}

\* Slip: a response that was reported is reported again.
InspectAgain(seen, d) ==
  IF d = Null \/ CompletedResponse(d) = Null THEN seen
  ELSE Append(seen, CompletedResponse(d).id)

\* inspectEvent: what is reported so far, and once this document is looked at.
Inspect(seen, d) ==
  IF d = Null \/ CompletedResponse(d) = Null \/ Contains(seen, CompletedResponse(d).id) THEN seen
  ELSE Append(seen, CompletedResponse(d).id)

\* One turn of the loop of consume: look at the first block, if it is closed.
ConsumeBlock(s) ==
  LET i == Boundary(s.buffer)
  IN  IF i = 0 THEN s
      ELSE [buffer |-> SubSeq(s.buffer, BoundaryEnd(s.buffer, i) + 1, Len(s.buffer)),
            seen   |-> Inspect(s.seen, Parse(BlockData(SubSeq(s.buffer, 1, i - 1))))]

\* Slip: one block for each chunk.
ConsumeOne(text, seen) == ConsumeBlock([buffer |-> text, seen |-> seen])

\* consume: look at every block that is closed.  A block takes at least one token.
Consume(text, seen) ==
  LET turn[n \in 0..Len(text)] ==
        IF n = 0 THEN [buffer |-> text, seen |-> seen] ELSE ConsumeBlock(turn[n - 1])
  IN  turn[Len(text)]

\* A line of the raw text that starts, after its field name, with a document.
Candidate(line) ==
  LET text == IF HasField(line) THEN Tail(line) ELSE line
  IN  IF text # <<>> /\ Head(text).kind = "head" THEN Parse(text) ELSE Null

\* The candidates among some lines, one after the other.
InspectLines(lines, seen) ==
  LET looked[n \in 0..Len(lines)] ==
        IF n = 0 THEN seen ELSE Inspect(looked[n - 1], Candidate(lines[n]))
  IN  looked[Len(lines)]

\* The last look of finish(): the whole body is a document, or some lines are.
InspectRaw(text, seen) ==
  IF Parse(text) # Null THEN Inspect(seen, Parse(text)) ELSE InspectLines(Lines(text), seen)

-----------------------------------------------------------------------------
(***************************************************************************)
(* The forms in which an upstream answers.  They are external: the         *)
(* observer tells them apart only by trying.                               *)
(***************************************************************************)

\* A block of a text: it begins with the text or after a delimiter, and ends with the
\* next one.
IsBlock(text, i, j) ==
  /\ i \in 1..Len(text) /\ j \in i..Len(text)
  /\ i = 1 \/ \E h \in 1..(i - 1) : IsDelimiter(text, h, i - 1)
  /\ \E k \in j..Len(text) : IsDelimiter(text, j, k)
  /\ \A h \in i..(j - 1) : \A k \in h..Len(text) : ~IsDelimiter(text, h, k)

\* Server-sent events, of which each carries a document or none.
AreEvents(text) ==
  \A i, j \in DOMAIN text :
    IsBlock(text, i, j)
    => DocumentsIn(SubSeq(text, i, j - 1)) \subseteq {Parse(BlockData(SubSeq(text, i, j - 1)))}

\* A body of events.  Its end ends the last of them.
IsEventStream(body) == AreEvents(body \o <<LF, LF>>)

\* A document, on one line or on many.
IsDocument(body) == Parse(body) # Null

\* Documents line by line, without the fields of events.
AreDocumentLines(body) ==
  /\ \A i \in DOMAIN body : body[i] \notin {DataField, EventField}
  /\ DocumentsIn(body) \subseteq {Candidate(Lines(body)[n]) : n \in DOMAIN Lines(body)}
=============================================================================
