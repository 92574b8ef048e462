-------------------------- MODULE CacheAttribution --------------------------
(***************************************************************************)
(* What the provider says a request cost, laid over what the request was   *)
(* made of (src/analysis/cache-attribution.ts, request-accounting.ts).     *)
(*                                                                         *)
(* The provider reads a prefix of the input from its cache.  An artifact   *)
(* whose tokens lie in that prefix is counted as cached.  Where the local  *)
(* count of a request exceeds the provider's, its tokens are scaled down;  *)
(* amounts are therefore given in fractions of a token, Unit to a token.   *)
(*                                                                         *)
(* "A" is Artifacts(events): the operators that are given both read each   *)
(* of them once.                                                           *)
(***************************************************************************)
EXTENDS RunEvents

CONSTANTS
  Unit,           \* parts of a token
  MaxCoordinate   \* bound: no request has more local tokens

ASSUME UnitAssumption ==
  /\ Unit \in Nat \ {0}
  /\ \A c \in 1..MaxCoordinate : Unit % c = 0

HasOffsets(e) == e.start # None /\ e.end # None

\* The local coordinates of a request end with its last artifact.
Coordinates(A, request) ==
  Max({0} \cup {A[i].end : i \in {j \in InRequest(A, request) : HasOffsets(A[j])}})

IsOverlong(A, request, usage) == Coordinates(A, request) > usage.input /\ usage.input > 0

\* Slip: the provider's count is ignored.
Unscaled(A, request, usage, place) == place * Unit

\* A place in the input, in the coordinates of the provider.
Scaled(A, request, usage, place) ==
  IF IsOverlong(A, request, usage)
  THEN (place * usage.input * Unit) \div Coordinates(A, request)
  ELSE place * Unit

\* attributeRequestCache, for one inclusion with a place in the input.
Overlap(from, to, prefix) ==
  LET total  == Max({0, to - from})
      cached == Min({total, Max({0, Min({to, prefix}) - from})})
  IN  [cached |-> cached, uncached |-> Max({0, total - cached}), total |-> total]

Attribution(A, i, usage) ==
  Overlap(Scaled(A, A[i].request, usage, A[i].start), Scaled(A, A[i].request, usage, A[i].end),
          Unit * Min({usage.input, usage.cached}))

Amounts == {"cached", "uncached", "total"}

SumOf(attributions) ==
  [a \in Amounts |-> FoldLeft(+, 0, [k \in DOMAIN attributions |-> attributions[k][a]])]

-----------------------------------------------------------------------------
(***************************************************************************)
(* analyzeCacheAttribution                                                 *)
(***************************************************************************)
Requests(A, events) == {A[i].request : i \in DOMAIN A} \cup UsedRequests(events)

\* The requests with usage, in the order in which each was first reported.
UsedOrder(events) ==
  LET usages == OfKind(events, "usage")
      new == Ascending({k \in DOMAIN usages : \A j \in 1..(k - 1) : usages[j].request # usages[k].request})
  IN  [k \in DOMAIN new |-> usages[new[k]].request]

\* The inclusions of a request that have a place, in the order of Artifacts.
Placed(A, request) ==
  Ascending({i \in InRequest(A, request) : HasOffsets(A[i])})

\* The inclusions that tokens are attributed to, in the order of attribution.
Attributed(A, events) ==
  LET order == UsedOrder(events)
  IN  FlattenSeq([k \in DOMAIN order |-> Placed(A, order[k])])

\* The attributions of a request, one for each of its placed inclusions.
RequestAttributions(A, request, usage) ==
  LET own == Placed(A, request)
  IN  IF usage = None THEN <<>> ELSE [k \in DOMAIN own |-> Attribution(A, own[k], usage)]

MissesOffsets(A, request) == InRequest(A, request) # {} /\ Placed(A, request) = <<>>

\* "order" lists what is attributed to, "at" what each of these is attributed.
AttributionTotals(A, order, at, usages) ==
  LET first == {k \in DOMAIN order : \A j \in 1..(k - 1) : A[order[j]].content # A[order[k]].content}
      of(S) == [a \in Amounts |-> MapThenSumSet(LAMBDA k : at[k][a], S)]
      own(id) == {k \in DOMAIN order : A[order[k]].artifact = id}
      sum(field) == MapThenSumSet(LAMBDA r : usages[r][field], DOMAIN usages)
  IN  [input     |-> sum("input"),
       cached    |-> sum("cached"),
       uncached  |-> Max({0, sum("input") - sum("cached")}),
       output    |-> sum("output"),
       run       |-> SumOf(at),
       firsts    |-> of(first).total,
       artifacts |-> [id \in Ids(A) |-> of(own(id)) @@ [firsts |-> of(own(id) \cap first).total]],
       status    |-> CASE DOMAIN usages = {}                                  -> "unavailable"
                       [] DOMAIN usages # {} /\ \E r \in DOMAIN usages : MissesOffsets(A, r) -> "partial"
                       [] DOMAIN usages # {} /\ \A r \in DOMAIN usages : ~MissesOffsets(A, r) -> "complete"]

AttributionsOf(A, order, usages) ==
  AttributionTotals(A, order,
    [k \in DOMAIN order |-> Attribution(A, order[k], usages[A[order[k]].request])], usages)

Attributions(A, events) ==
  AttributionsOf(A, Attributed(A, events), [r \in UsedRequests(events) |-> UsageOf(events, r)])

-----------------------------------------------------------------------------
(***************************************************************************)
(* The requests of a run in their order, and analyzeRequestAccounting.     *)
(***************************************************************************)
\* When a request was: with its first artifact, or else with its last usage.
TimeOf(A, events, request) ==
  IF InRequest(A, request) = {} THEN UsageOf(events, request).time
  ELSE A[Min(InRequest(A, request))].time

RequestOrder(A, events) ==
  LET requests == Requests(A, events)
      time == [r \in requests |-> TimeOf(A, events, r)]
      before(r, s) == time[r] < time[s] \/ (time[r] = time[s] /\ r < s)
  IN  Sorted(requests, {p \in requests \X requests : before(p[1], p[2])})

\* orderedArtifacts: by place in the request, those without one last.
ComesFirst(e, f) ==
  CASE e.index = None                   -> FALSE
    [] e.index # None /\ f.index = None -> TRUE
    [] e.index # None /\ f.index # None ->
         e.index < f.index \/ (e.index = f.index /\ e.start < f.start)

\* An inclusion shows what was last attributed to its artifact in the request.
InclusionOf(A, i, k, usage) ==
  LET shown == {j \in InRequest(A, A[i].request) : A[j].artifact = A[i].artifact /\ HasOffsets(A[j])}
  IN  [artifact |-> A[i].artifact,
       order    |-> IF A[i].index = None THEN k ELSE A[i].index,
       tokens   |-> A[i].tokens,
       category |-> IF "content_kind" \in DOMAIN A[i].metadata
                    THEN A[i].metadata.content_kind ELSE A[i].type,
       attribution |-> IF usage = None \/ shown = {} THEN None
                       ELSE Attribution(A, Max(shown), usage)]

InclusionsIn(A, order, usage) == [k \in DOMAIN order |-> InclusionOf(A, order[k], k, usage)]

Inclusions(A, request, usage) ==
  InclusionsIn(A, StableSort(Ascending(InRequest(A, request)),
                             LAMBDA i, j : ComesFirst(A[i], A[j])), usage)

AttributionStatus(A, request, usage) ==
  LET own    == InRequest(A, request)
      placed == Len(Placed(A, request))
  IN  CASE usage = None \/ own = {}               -> "not_applicable"
        [] usage # None /\ own # {} /\ placed = 0 -> "unavailable"
        [] usage # None /\ placed \in 1..(Cardinality(own) - 1) -> "partial"
        [] usage # None /\ own # {} /\ placed = Cardinality(own) -> "complete"

\* requestAccountingRow
RowOf(A, request, k, time, usage, inclusions, attributed) ==
  LET status == AttributionStatus(A, request, usage)
  IN  [request    |-> request,
       chronology |-> k,
       time       |-> time,
       usage      |-> usage,
       status     |-> status,
       complete   |-> usage # None /\ status \in {"complete", "not_applicable"},
       tokens     |-> FoldLeft(+, 0, [n \in DOMAIN inclusions |-> inclusions[n].tokens]),
       attribution |-> IF usage = None THEN None ELSE attributed,
       state      |-> IF usage # None /\ IsOverlong(A, request, usage) THEN "overlong_normalized"
                      ELSE IF usage # None /\ attributed.total = Unit * usage.input /\ usage.input > 0
                           THEN "exact_match" ELSE "under_attributed",
       inclusions |-> inclusions]

Row(A, events, request, k, usage) ==
  RowOf(A, request, k, TimeOf(A, events, request), usage, Inclusions(A, request, usage),
        SumOf(RequestAttributions(A, request, usage)))

AccountingIn(A, events, order) ==
  [k \in DOMAIN order |-> Row(A, events, order[k], k, UsageOf(events, order[k]))]

Accounting(A, events) == AccountingIn(A, events, RequestOrder(A, events))

\* highestRequestIds: of those that cost the same, the first by id.
Highest(rows, field) ==
  LET used == {k \in DOMAIN rows : rows[k].usage # None}
      best == {k \in used : \A j \in used : rows[j].usage[field] <= rows[k].usage[field]}
  IN  IF used = {} THEN None ELSE Min({rows[k].request : k \in best})
=============================================================================
