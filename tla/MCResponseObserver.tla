-------------------------- MODULE MCResponseObserver --------------------------
(***************************************************************************)
(* Instances of ResponseObserver for TLC: the documents of one or two      *)
(* responses, in each of the forms an upstream sends them in.              *)
(***************************************************************************)
EXTENDS ResponseObserver

R(id, status, usage) == [id |-> id, status |-> status, usage |-> usage]

Created == Document("response.created", Null, R("u1", "in_progress", FALSE))
Done(id) == Document("response.completed", Null, R(id, "completed", TRUE))
Plain(id) == Document("none", R(id, "completed", TRUE), Null)
Wrapped(id) == Document("none", Null, R(id, "completed", TRUE))

SomeDocuments == {Created, Done("u1"), Done("u2"), Wrapped("u1"), Plain("u2")}

Streams == {<<d, e>> : d \in SomeDocuments, e \in SomeDocuments}

OneLine(d) == <<Head1(d), Tail1(d)>>
SplitLine(d, nl) == <<Head1(d)>> \o nl \o <<DataField, Tail1(d)>>

Each(stream, form(_)) == FlattenSeq([i \in DOMAIN stream |-> form(stream[i])])

\* Server-sent events with either line end, with an event field, with a document
\* on two data lines, with the last block open; lines of JSON; one JSON document.
StreamedBodies ==
  {Each(s, LAMBDA d : <<DataField>> \o OneLine(d) \o nl \o nl) : s \in Streams,
                                                            nl \in {<<LF>>, <<CR, LF>>}}
MixedBodies ==
  {Each(s, LAMBDA d : <<EventField, LF, DataField>> \o OneLine(d) \o <<CR, LF, LF>>) : s \in Streams}
    \cup {Each(s, LAMBDA d : <<DataField>> \o SplitLine(d, nl) \o nl \o nl) :
            s \in {<<Done("u1")>>}, nl \in {<<LF>>, <<CR, LF>>}}
    \cup {<<DataField>> \o OneLine(Created) \o <<LF, LF, DataField>> \o OneLine(Done("u1")) \o end :
            end \in {<<>>, <<LF>>, <<CR>>, <<CR, LF>>}}
    \cup {Each(s, LAMBDA d : OneLine(d) \o <<LF>>) : s \in Streams}
    \cup {<<Head1(Plain("u1")), LF, Tail1(Plain("u1"))>>, OneLine(Plain("u1"))}

AllBodies == StreamedBodies \cup MixedBodies
=============================================================================
