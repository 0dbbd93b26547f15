------------------------------- MODULE Spatial -------------------------------
(***************************************************************************)
(* The candidate index (internal/spatial): points by id in square cells,    *)
(* searched ring by ring around the query's cell.  An index is the function *)
(* Grid.points; the cells only group it.                                    *)
(***************************************************************************)
EXTENDS Integers, SequencesExt

CONSTANT CellSize

ASSUME CellAssumption == CellSize \in Nat \ {0}

\* sort.Slice, for an order Before that is total on S.
Sorted(S, Before(_, _)) ==
  CHOOSE s \in SetToSeqs(S) : \A i, j \in DOMAIN s : i < j => Before(s[i], s[j])

\* cellOf, distSq, and how many rings apart two points are.
CellOf(p) == <<p[1] \div CellSize, p[2] \div CellSize>>
DistSq(a, b) == (a[1] - b[1]) * (a[1] - b[1]) + (a[2] - b[2]) * (a[2] - b[2])

Rings(a, b) ==
  LET Gap(m, n) == IF m < n THEN n - m ELSE m - n
      x == Gap(CellOf(a)[1], CellOf(b)[1])
      y == Gap(CellOf(a)[2], CellOf(b)[2])
  IN  IF x < y THEN y ELSE x

\* mutant: the search stops at the ring where it finds anything.
FoundFirstRing(index, query, max) ==
  LET Within(r) == {id \in DOMAIN index : Rings(index[id], query) <= r}
      all == {Rings(index[id], query) : id \in DOMAIN index}
      enough == {r \in all : Within(r) # {}}
  IN  Within(CHOOSE r \in enough : \A s \in enough : r <= s)

\* The ids in the rings scanned: as many rings as it takes for max of them, or
\* for all there are.
Found(index, query, max) ==
  LET Within(r) == {id \in DOMAIN index : Rings(index[id], query) <= r}
      all == {Rings(index[id], query) : id \in DOMAIN index}
      enough == {r \in all : Cardinality(Within(r)) >= max \/ Within(r) = DOMAIN index}
  IN  Within(CHOOSE r \in enough : \A s \in enough : r <= s)

\* Candidates: of the ids found, up to max, nearest first, then by id.
NearestOf(index, query, max) ==
  IF DOMAIN index = {} THEN <<>>
  ELSE LET Before(a, b) ==
             \/ DistSq(index[a], query) < DistSq(index[b], query)
             \/ DistSq(index[a], query) = DistSq(index[b], query) /\ a < b
           sorted == Sorted(Found(index, query, max), Before)
       IN  SubSeq(sorted, 1, IF Len(sorted) < max THEN Len(sorted) ELSE max)

-----------------------------------------------------------------------------
\* What the ring search promises: as many ids as asked for or as there are, and
\* one that is passed over for one farther away lies more rings out.
IsNearbySearch(index, query, max, result) ==
  LET got == {result[i] : i \in DOMAIN result}
  IN  /\ Cardinality(got) = Len(result)
      /\ got \subseteq DOMAIN index
      /\ Len(result) = (IF Cardinality(DOMAIN index) < max
                        THEN Cardinality(DOMAIN index) ELSE max)
      /\ \A a \in got, b \in DOMAIN index \ got :
           DistSq(index[b], query) < DistSq(index[a], query)
             => Rings(index[b], query) > Rings(index[a], query)

=============================================================================
