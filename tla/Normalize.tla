------------------------------ MODULE Normalize ------------------------------
(***************************************************************************)
(* URL normalization (cleanPath, sortQuery and URL in                      *)
(* internal/normalize/normalize.go), against what its comments promise.    *)
(* A path is the segments between its slashes; a query is the list of its  *)
(* pairs, whose keys are numbers here, in the order of the keys' text.     *)
(* Hosts are ScopeRules' subject; scheme, default port and fragment need   *)
(* no model.                                                               *)
(***************************************************************************)
EXTENDS Naturals, SequencesExt

CONSTANTS
  Segments,    \* ordinary path segments
  MaxSegments, \* bound: segments of a path
  Keys, Vals,  \* keys and values of a query
  MaxPairs     \* bound: pairs of a query

ASSUME NormalizeAssumption ==
  /\ Keys \subseteq Nat
  /\ {"", ".", ".."} \cap Segments = {}
  /\ MaxSegments \in Nat /\ MaxPairs \in Nat

VARIABLES url  \* a URL to normalize

Paths == UNION {[1..n -> Segments \cup {"", ".", ".."}] : n \in 0..MaxSegments}
Queries == UNION {[1..n -> Keys \X Vals] : n \in 0..MaxPairs}

GetKey(pair) == pair[1]
----------------------------------------------------------------------------
\* What one segment does to those that cleanPath has kept.
Clean(cleaned, seg) ==
  CASE seg \in {"", "."} -> cleaned
    [] seg = ".."        -> IF cleaned = << >> THEN cleaned ELSE Front(cleaned)
    [] OTHER             -> Append(cleaned, seg)

\* cleanPath, as the segments it keeps.
CleanPath(segs) ==
  LET cleaned[n \in 0..Len(segs)] ==
        IF n = 0 THEN << >> ELSE Clean(cleaned[n - 1], segs[n])
  IN  cleaned[Len(segs)]

\* One exchange of sortQuery's inner loop.
Exchange(pairs, i, j) ==
  IF j > i /\ GetKey(pairs[i]) > GetKey(pairs[j])
    THEN [pairs EXCEPT ![i] = pairs[j], ![j] = pairs[i]]
    ELSE pairs

\* sortQuery's inner loop, for one i.
Pass(pairs, i) ==
  LET swapped[j \in 0..Len(pairs)] ==
        IF j = 0 THEN pairs ELSE Exchange(swapped[j - 1], i, j)
  IN  swapped[Len(pairs)]

\* Mutant: neighbours are compared, in one pass.
SortOnce(pairs) ==
  FoldLeft(LAMBDA ps, i : IF i < Len(ps) THEN Exchange(ps, i, i + 1) ELSE ps,
           pairs, [i \in 1..Len(pairs) |-> i])

\* sortQuery: two nested loops.
SortQuery(pairs) ==
  LET sorted[i \in 0..Len(pairs)] ==
        IF i = 0 THEN pairs ELSE Pass(sorted[i - 1], i)
  IN  sorted[Len(pairs)]

\* normalize.URL.
NormalURL(u) == [path |-> CleanPath(u.path), query |-> SortQuery(u.query)]

NormalizeInit == url = [path |-> << >>, query |-> << >>]

TakePath == \E p \in Paths : url' = [path |-> p, query |-> << >>]
TakeQuery == \E q \in Queries : url' = [path |-> << >>, query |-> q]

\* One URL of either kind, normalized or not.
NormalizeNext ==
  \/ url = [path |-> << >>, query |-> << >>] /\ (TakePath \/ TakeQuery)
  \/ url' = NormalURL(url)

NormalizeSpec == NormalizeInit /\ [][NormalizeNext]_url
----------------------------------------------------------------------------
NormalizeTypeOK == url.path \in Paths /\ url.query \in Queries

\* How many segments of p between i and j are ordinary, and how many go back.
Ordinary(p, i, j) == Cardinality({k \in i..j : p[k] \in Segments})
Back(p, i, j) == Cardinality({k \in i..j : p[k] = ".."})

\* A segment stays if it is ordinary and no later ".." is its own: one is when the
\* segments after it have more ".." than ordinary ones, up to some point.
Stays(p, i) ==
  /\ p[i] \in Segments
  /\ \A j \in i + 1..Len(p) : Back(p, i + 1, j) <= Ordinary(p, i + 1, j)

\* "cleanPath resolves . and .. segments and removes redundant slashes"
\* (normalize.go:98): what is left are the segments that stay, each at its place
\* among them.
PathIsResolved ==
  LET p == url.path
      stay == {i \in DOMAIN p : Stays(p, i)}
  IN  /\ Len(CleanPath(p)) = Cardinality(stay)
      /\ \A i \in stay : CleanPath(p)[Cardinality({j \in stay : j <= i})] = p[i]

Count(q, pair) == Cardinality({i \in DOMAIN q : q[i] = pair})

\* "Sorts query parameters" (normalize.go:36): the keys ascend and every pair is still
\* there as often as before.
QueryIsSorted ==
  LET q == url.query
      s == SortQuery(q)
  IN  /\ \A i, j \in DOMAIN s : i < j => GetKey(s[i]) <= GetKey(s[j])
      /\ \A pair \in Range(q) \cup Range(s) : Count(s, pair) = Count(q, pair)

\* "for deduplication and comparison" (normalize.go:33): where no key comes twice, the
\* order of the pairs in the URL makes no difference.
OneFormPerQuery ==
  LET q == url.query
      swapped == {[q EXCEPT ![i] = q[j], ![j] = q[i]] : i, j \in DOMAIN q}
  IN  (\A i, j \in DOMAIN q : i # j => GetKey(q[i]) # GetKey(q[j]))
        => \A r \in swapped : SortQuery(r) = SortQuery(q)

\* normalize.URL keeps the promises of its comments about paths and queries.
NormalFormIsRight == PathIsResolved /\ QueryIsSorted /\ OneFormPerQuery

\* Holds not: "preserve first value for duplicate keys" (normalize.go:125). An exchange
\* over a distance can put a later value before the first one.
FirstValueStays ==
  LET q == url.query
      s == SortQuery(q)
      First(ps, k) == ps[CHOOSE i \in DOMAIN ps :
                           /\ GetKey(ps[i]) = k
                           /\ \A j \in DOMAIN ps : GetKey(ps[j]) = k => i <= j]
  IN  \A k \in {GetKey(q[i]) : i \in DOMAIN q} : First(s, k) = First(q, k)
============================================================================
