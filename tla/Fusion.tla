------------------------------- MODULE Fusion -------------------------------
(***************************************************************************)
(* Rank fusion and window expansion of utils/vectordb/fusion.py.  A key is *)
(* a record of a source file and the index of a chunk in it; a ranked list *)
(* is a sequence of keys, best first.                                      *)
(***************************************************************************)
EXTENDS Naturals, Sequences, FiniteSets, SequencesExt

CONSTANTS
  RrfK,            \* _RRF_K
  ContextWindow,   \* CONTEXT_WINDOW
  LongestList      \* bound: the length of a ranked list

ASSUME FusionAssumption == {RrfK, ContextWindow, LongestList} \subseteq Nat

(* The members of S, each after those that come before it. *)
Sorted(S, Before(_, _)) ==
  [n \in 1..Cardinality(S) |-> CHOOSE x \in S : Cardinality({y \in S : Before(y, x)}) = n - 1]

Cut(s, n) == SubSeq(s, 1, Min({n, Len(s)}))
KeysOf(lists) == UNION {ToSet(lists[i]) : i \in DOMAIN lists}

(* Scores are in units of 1/Scale, in which every 1/(K + rank) is whole.    *)
Scale == ProductSet({RrfK + rank : rank \in 1..LongestList})

(* Mutant: a list that comes later overwrites the score instead of adding.  *)
ScoreOfLast(lists, key) ==
  LET in == {i \in DOMAIN lists : key \in ToSet(lists[i])}
      ranks == {j \in DOMAIN lists[Max(in)] : lists[Max(in)][j] = key}
  IN IF in = {} THEN 0 ELSE Scale \div (RrfK + Min(ranks))

Score(lists, key) ==
  LET Ranks(i) == {rank \in DOMAIN lists[i] : lists[i][rank] = key}
  IN MapThenSumSet(LAMBDA at : Scale \div (RrfK + at[2]),
                   UNION {{i} \X Ranks(i) : i \in DOMAIN lists})

(* rrf_fuse: by falling score; among equals, as the lists were walked. *)
RrfFuse(lists, limit) ==
  LET walked == FlattenSeq(lists)
      score == [key \in ToSet(walked) |-> Score(lists, key)]
      FirstAt(key) == Min({i \in DOMAIN walked : walked[i] = key})
      Before(x, y) == \/ score[x] > score[y]
                      \/ score[x] = score[y] /\ FirstAt(x) < FirstAt(y)
  IN Cut(Sorted(ToSet(walked), Before), limit)

Window(i) ==
  [lo |-> IF i < ContextWindow THEN 0 ELSE i - ContextWindow, hi |-> i + ContextWindow]

(* Mutant: only windows that share two chunks are joined. *)
MergeLate(indices) ==
  LET Join(ranges, i) ==
        LET w == Window(i)
            r == IF ranges = <<>> THEN w ELSE Last(ranges)
        IN IF ranges # <<>> /\ w.lo < r.hi
             THEN Append(Front(ranges), [lo |-> r.lo, hi |-> Max({r.hi, w.hi})])
             ELSE Append(ranges, w)
  IN FoldLeft(Join, <<>>, Sorted(indices, <))

(* merge_windows, over the indices in rising order: a window is joined to   *)
(* the last range when it overlaps or touches it.                           *)
MergeWindows(indices) ==
  LET Join(ranges, i) ==
        LET w == Window(i)
            r == IF ranges = <<>> THEN w ELSE Last(ranges)
        IN IF ranges # <<>> /\ w.lo <= r.hi + 1
             THEN Append(Front(ranges), [lo |-> r.lo, hi |-> Max({r.hi, w.hi})])
             ELSE Append(ranges, w)
  IN FoldLeft(Join, <<>>, Sorted(indices, <))

(* group_hits_by_source, and the ranges of each source in turn. *)
Windows(fused) ==
  LET FirstAt(f) == Min({i \in DOMAIN fused : fused[i].source = f})
      sources == Sorted({fused[i].source : i \in DOMAIN fused},
                              LAMBDA f, g : FirstAt(f) < FirstAt(g))
      Hits(f) == {fused[i].index : i \in {j \in DOMAIN fused : fused[j].source = f}}
      Of(f) == LET ranges == MergeWindows(Hits(f))
               IN [i \in DOMAIN ranges |->
                     [source |-> f, lo |-> ranges[i].lo, hi |-> ranges[i].hi]]
  IN FlattenSeq([i \in DOMAIN sources |-> Of(sources[i])])
=============================================================================
