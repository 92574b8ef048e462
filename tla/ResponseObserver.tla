--------------------------- MODULE ResponseObserver ---------------------------
(***************************************************************************)
(* The observer that reads an upstream response while it is forwarded      *)
(* (createResponseObserver in src/adapters/codex/live-proxy/transport.ts). *)
(*                                                                         *)
(* The network cuts the body of a response into chunks wherever it likes.  *)
(* The observer is to report each completed response once: a streamed one  *)
(* as soon as its block is closed, any other at the end.  LiveProxy takes  *)
(* what it reports as ObserveChunk and ObserveAtEnd.                       *)
(***************************************************************************)
EXTENDS ResponseText

CONSTANTS
  Bodies,   \* the bodies an upstream may send
  RawCap    \* tokens of a body after which no more of it is kept for the end

\* An upstream sends events, a document, or documents line by line; the last two are
\* seen only at the end, and are no longer than what is kept for it.
ASSUME ObserverAssumption ==
  /\ Null \notin Documents \cup Response
  /\ RawCap \in Nat
  /\ Bodies \subseteq Seq(Token)
  /\ \A b \in Bodies :
       IsEventStream(b) \/ (Len(b) <= RawCap /\ (IsDocument(b) \/ AreDocumentLines(b)))

VARIABLES
  body,     \* the body the upstream sends
  rest,     \* the part of it that has not arrived
  buffer,   \* the text after the last closed block
  raw,      \* the text kept for the end
  reports,  \* the response ids reported, in order; seenResponses is their set
  ended     \* whether finish() has run

observerVars == <<body, rest, buffer, raw, reports, ended>>

ObserverInit ==
  /\ body \in Bodies
  /\ rest = body
  /\ buffer = <<>> /\ raw = <<>>
  /\ reports = <<>>
  /\ ended = FALSE

Push(n) ==
  /\ n \in 1..Len(rest)
  /\ LET chunk == SubSeq(rest, 1, n)
         result == Consume(buffer \o chunk, reports)
     IN  /\ buffer' = result.buffer
         /\ reports' = result.seen
         /\ raw' = IF Len(raw) < RawCap THEN raw \o chunk ELSE raw
  /\ rest' = SubSeq(rest, n + 1, Len(rest))
  /\ UNCHANGED <<body, ended>>

Finish ==
  /\ rest = <<>> /\ ~ended
  /\ LET result == Consume(buffer \o <<LF, LF>>, reports)
     IN  /\ buffer' = result.buffer
         /\ reports' = InspectRaw(raw, result.seen)
  /\ ended' = TRUE
  /\ UNCHANGED <<body, rest, raw>>

ObserverNext == Finish \/ \E n \in 1..Len(rest) : Push(n)

ObserverSpec == ObserverInit /\ [][ObserverNext]_observerVars

-----------------------------------------------------------------------------
(***************************************************************************)
(* Correctness.                                                            *)
(***************************************************************************)

\* Types of the variables; what is kept for the end is the start of the body.
ObserverTypeOK ==
  /\ body \in Bodies
  /\ IsSuffix(rest, body) /\ IsPrefix(raw, body)
  /\ \A i \in DOMAIN reports : reports[i] \in STRING
  /\ ended \in BOOLEAN

Received == SubSeq(body, 1, Len(body) - Len(rest))

\* However a body is cut into chunks, no response is reported twice, and none
\* is reported that the part received so far does not hold.
ReportsAreOnceAndTrue ==
  /\ IsInjective(reports)
  /\ ToSet(reports) \subseteq CompleteIn(Received)

\* At the end, every response of the body has been reported: streamed, in one
\* document, or in documents line by line, and with its last block left open.
AllReportedAtEnd == ended => ToSet(reports) = CompleteIn(body)

\* Until the end, what was reported and what is left to be read are what they would be if
\* all that was received had come in one chunk.
ChunksDoNotMatter ==
  ~ended => Consume(Received, <<>>) = [buffer |-> buffer, seen |-> reports]

\* Typed, and each completed response reported once, none before it is there, all of
\* them at the end, and none sooner or later for where the chunks end.
ObserverInv == ObserverTypeOK /\ ReportsAreOnceAndTrue /\ AllReportedAtEnd /\ ChunksDoNotMatter

\* A response is reported as soon as its block is closed, before the next chunk
\* and so before its client can send a request that continues it.
ReportedWhenClosed ==
  \A i, j, k \in DOMAIN Received :
    /\ i < j /\ j < k
    /\ Received[i] = DataField /\ IsDelimiter(Received, j, k)
    /\ \A m \in i..(j - 1) : Received[m].kind \in {"data", "head", "tail"}
    => CompleteIn(SubSeq(Received, i, j)) \subseteq ToSet(reports)
=============================================================================
