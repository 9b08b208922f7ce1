------------------------------- MODULE CdrPage -------------------------------
(***************************************************************************)
(* The call detail records page (src/client/src/app/dashboard/cdr/page.tsx) *)
(* with useCDRs of src/client/src/hooks/index.ts, and its formatDuration.  *)
(*                                                                         *)
(* The page keeps `filters` and `page` and calls useCDRs({...filters,      *)
(* page, limit}).  useCDRs turns the params into a query string and mounts *)
(* the SWR key `cdrs:${url}`; its fetcher GETs that url.  SWR keeps one    *)
(* cache entry per key, revalidates a key when a render mounts it, dedupes *)
(* a key already being fetched and writes a response under the key that   *)
(* fetched it, in whatever order responses come back.  While the mounted   *)
(* key has no entry, `cdrs` is [] (data || []).  A failed fetch is left   *)
(* out: the page renders the returned Error object as a child, which      *)
(* React rejects (see README).  DashboardPages composes this page.        *)
(*                                                                         *)
(* The CDRs the server holds do not change while the page is open (the     *)
(* list has no refreshInterval).  The server answers a query with the      *)
(* first `limit` records matching it (a backend assumption: source and     *)
(* destination match exactly, "" matches everything).                      *)
(***************************************************************************)
EXTENDS Naturals, Sequences, FiniteSets, TLC, SequencesExt

CONSTANTS
  FilterValues,    \* values an input can hold ("" = empty)
  EditableFields,  \* the filter inputs the user types into
  Records,         \* the CDRs: [id, source, destination, duration]
  Limit,           \* page size (useState(25))
  MaxEdits         \* bound on filter edits

ASSUME "" \in FilterValues /\ Limit \in Nat \ {0} /\ MaxEdits \in Nat

\* The fields of the filters state, in the order of its initializer (the
\* order URLSearchParams writes them).
FilterFields == <<"startDate", "endDate", "source", "destination">>

Filters == [ToSet(FilterFields) -> FilterValues]

VARIABLES
  filters,   \* the filters state
  page,      \* the page state
  cache,     \* SWR cache: key -> rows (ids) of the response stored under it
  inflight,  \* fetches under way: [key, url filters, url page]
  mounted,   \* the key useSWR subscribed to at the last commit
  edits      \* filter edits so far (bound only)

cdrVars == <<filters, page, cache, inflight, mounted, edits>>

RecIds == {r.id : r \in Records}

-----------------------------------------------------------------------------
(* useCDRs.                                                                *)

\* new URLSearchParams({...filters, page, limit}).toString(): every field
\* in order, empty ones included, joined by "&".
Query(f, p) ==
  FoldLeft(LAMBDA acc, k : acc \o k \o "=" \o f[k] \o "&", "", FilterFields)
    \o "page=" \o ToString(p) \o "&limit=" \o ToString(Limit)

\* The SWR key `cdrs:${url}` with url = `/cdr?${queryParams}`.
CdrKey(f, p) == "cdrs:" \o "/cdr?" \o Query(f, p)

\* The backend: the records matching the filters, page p of size Limit.
Matches(r, f) ==
  /\ f["source"] \in {"", r.source}
  /\ f["destination"] \in {"", r.destination}
PageRows(f, p) ==
  LET ids == {r.id : r \in {q \in Records : Matches(q, f)}}
      ranked(i) == Cardinality({j \in ids : j < i}) + 1
  IN {i \in ids : ranked(i) > (p - 1) * Limit /\ ranked(i) <= p * Limit}

\* `cdrs: data || []` for the key of the current render.
Shown ==
  LET k == CdrKey(filters, page)
  IN IF k \in DOMAIN cache THEN cache[k] ELSE {}

\* The pagination useCDRs returns: page 1 of 1 whatever the data.
CdrPagination(rows) ==
  [page |-> 1, limit |-> 25, total |-> Cardinality(rows), totalPages |-> 1]

\* `pagination && pagination.totalPages > 1`: the pager with "Showing",
\* Previous and Next is rendered only then, so handlePageChange has no
\* caller and `page` stays 1.
PagerShown == CdrPagination(Shown).totalPages > 1

CdrTypeOK ==
  /\ filters \in Filters
  /\ page = 1
  /\ \A k \in DOMAIN cache : cache[k] \in SUBSET RecIds
  /\ \A q \in inflight : q.for \in Filters
  /\ edits \in 0..MaxEdits

\* The page mounts: empty filters, page 1, nothing cached or mounted yet.
CdrInit ==
  /\ filters = [k \in ToSet(FilterFields) |-> ""]
  /\ page = 1
  /\ cache = <<>>
  /\ inflight = {}
  /\ mounted = ""
  /\ edits = 0

-----------------------------------------------------------------------------
(* Actions.                                                                *)

\* Seeded bug variant of HandleFilterChange: pages counted from 0.
HandleFilterChangePageZero(k, v) ==
  /\ edits < MaxEdits
  /\ filters[k] # v
  /\ filters' = [filters EXCEPT ![k] = v]
  /\ page' = 0
  /\ edits' = edits + 1
  /\ UNCHANGED <<cache, inflight, mounted>>

\* handleFilterChange(key, value) from an input's onChange: the field is
\* set and page reset to 1, in one batched render.
HandleFilterChange(k, v) ==
  /\ edits < MaxEdits
  /\ filters[k] # v
  /\ filters' = [filters EXCEPT ![k] = v]
  /\ page' = 1
  /\ edits' = edits + 1
  /\ UNCHANGED <<cache, inflight, mounted>>

\* Seeded bug variant of SwrMount: deduplication on any fetch under way
\* instead of a fetch of the same key.
SwrMountGlobalDedupe ==
  LET k == CdrKey(filters, page)
  IN /\ mounted # k
     /\ mounted' = k
     /\ inflight' = IF inflight # {} THEN inflight
                    ELSE inflight \cup {[key |-> k, for |-> filters, pg |-> page]}
     /\ UNCHANGED <<filters, page, cache, edits>>

\* useSWR after a commit with a new key: subscribe to it and revalidate it
\* (cached or not), unless a fetch of that key is already under way.
SwrMount ==
  LET k == CdrKey(filters, page)
  IN /\ mounted # k
     /\ mounted' = k
     /\ inflight' = IF \E q \in inflight : q.key = k THEN inflight
                    ELSE inflight \cup {[key |-> k, for |-> filters, pg |-> page]}
     /\ UNCHANGED <<filters, page, cache, edits>>

\* Seeded bug variant of FetchReturns: the response stored under the key
\* mounted when it arrives instead of the key that fetched it.
FetchReturnsToMounted(q) ==
  /\ q \in inflight
  /\ cache' = [k \in DOMAIN cache \cup {mounted} |->
                 IF k = mounted THEN PageRows(q.for, q.pg) ELSE cache[k]]
  /\ inflight' = inflight \ {q}
  /\ UNCHANGED <<filters, page, mounted, edits>>

\* The fetcher's GET `/cdr?...` returns; SWR stores response.data under
\* the key that started it, mounted or not.
FetchReturns(q) ==
  /\ q \in inflight
  /\ cache' = [k \in DOMAIN cache \cup {q.key} |->
                 IF k = q.key THEN PageRows(q.for, q.pg) ELSE cache[k]]
  /\ inflight' = inflight \ {q}
  /\ UNCHANGED <<filters, page, mounted, edits>>

\* SWR's focus and reconnect revalidation of the mounted key.
Focus ==
  /\ mounted # ""
  /\ ~\E q \in inflight : q.key = mounted
  /\ mounted = CdrKey(filters, page)
  /\ inflight' = inflight \cup {[key |-> mounted, for |-> filters, pg |-> page]}
  /\ UNCHANGED <<filters, page, cache, mounted, edits>>

CdrNext ==
  \/ \E k \in EditableFields, v \in FilterValues : HandleFilterChange(k, v)
  \/ SwrMount
  \/ \E q \in inflight : FetchReturns(q)
  \/ Focus

-----------------------------------------------------------------------------
(* formatDuration(seconds) of the CDR page (the calls page has a copy).    *)
(* Text is a sequence of one-character strings.                            *)

DigitChar(d) == <<"0", "1", "2", "3", "4", "5", "6", "7", "8", "9">>[d + 1]

\* n.toString() for a natural number.
RECURSIVE Decimal(_)
Decimal(n) ==
  IF n < 10 THEN <<DigitChar(n)>> ELSE Decimal(n \div 10) \o <<DigitChar(n % 10)>>

\* n.toString().padStart(2, '0').
Pad2(n) == IF n < 10 THEN <<"0">> \o Decimal(n) ELSE Decimal(n)

\* Seeded bug variant of FormatDuration: minutes = Math.floor(seconds / 60)
\* (the % 3600 forgotten).
FormatDurationNoModulo(seconds) ==
  LET hours == seconds \div 3600
      minutes == seconds \div 60
      secs == seconds % 60
  IN IF hours > 0
       THEN Decimal(hours) \o <<":">> \o Pad2(minutes) \o <<":">> \o Pad2(secs)
       ELSE Decimal(minutes) \o <<":">> \o Pad2(secs)

FormatDuration(seconds) ==
  LET hours == seconds \div 3600
      minutes == (seconds % 3600) \div 60
      secs == seconds % 60
  IN IF hours > 0
       THEN Decimal(hours) \o <<":">> \o Pad2(minutes) \o <<":">> \o Pad2(secs)
       ELSE Decimal(minutes) \o <<":">> \o Pad2(secs)

-----------------------------------------------------------------------------
(* Properties.                                                             *)

\* Reference reading of a clock text: digits accumulate, each ':' moves
\* one unit down (h -> min -> s), i.e. h*3600 + mm*60 + ss.
DigitValue(c) == CHOOSE d \in 0..9 : DigitChar(d) = c
ClockValue(text) ==
  LET step(acc, c) == IF c = ":" THEN [total |-> (acc.total + acc.cur) * 60, cur |-> 0]
                      ELSE [acc EXCEPT !.cur = @ * 10 + DigitValue(c)]
      r == FoldLeft(step, [total |-> 0, cur |-> 0], text)
  IN r.total + r.cur

\* The reference reading of formatDuration(s): it reads back as s, every
\* field after the first has two digits and is below 60, and an hours
\* field appears exactly from 3600 s on.
DurationExact(s) ==
  LET t == FormatDuration(s)
      colons == {k \in DOMAIN t : t[k] = ":"}
  IN /\ ClockValue(t) = s
     /\ Cardinality(colons) = IF s >= 3600 THEN 2 ELSE 1
     /\ \A k \in colons : /\ k + 2 <= Len(t)
                          /\ t[k + 1] \in {"0", "1", "2", "3", "4", "5"}
                          /\ t[k + 2] # ":"
                          /\ (k + 3 <= Len(t) => t[k + 3] = ":")

\* Every row of the table shows its call's duration exactly (the Duration
\* column is formatDuration(cdr.duration)).
DurationDisplayExact ==
  \A r \in Records : r.id \in Shown => DurationExact(r.duration)

\* The table shows only CDRs that match the filters on screen: whatever
\* order the responses to earlier filters come back in, none of their rows
\* is shown under the current filters.
ShownMatchesFilters ==
  \A i \in Shown : \E r \in Records : r.id = i /\ Matches(r, filters)

=============================================================================
