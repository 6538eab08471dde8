----------------------------- MODULE AutoAlign -----------------------------
(***************************************************************************)
(* The alignment of desks in the map editor (autoAlignPlan and its helpers *)
(* in src/internal/web/static/admin.js): aligned desks are clustered into *)
(* pods, the desks of a pod snap to shared columns and rows, and lines of  *)
(* different pods are unified.                                             *)
(*                                                                         *)
(* Distances are compared by their squares, the median spacing is kept as  *)
(* its square.  Pods on a rotated grid are found (DominantAngleIsZero) but *)
(* not aligned here: a selection that has one is left out.                 *)
(***************************************************************************)
EXTENDS Integers, Sequences, FiniteSets, FiniteSetsExt, SequencesExt

CONSTANTS
    AlignDesks,   \* desks of the types that can be aligned, by their index
    Grid          \* the points where they may stand at first

ASSUME AlignAssumption ==
    /\ IsFiniteSet(AlignDesks) /\ AlignDesks = 1..Cardinality(AlignDesks)
    /\ Grid \subseteq [x : Int, y : Int]

VARIABLES
    at,        \* where each desk stands
    aligned   \* the desks of the last selection that was aligned

alignVars == <<at, aligned>>

AlignTypeOK ==
    /\ at \in [AlignDesks -> [x : Int, y : Int]]
    /\ aligned \subseteq AlignDesks

\* In the reading order of the grid: one of the equal layouts.
InOrder(p, q) == p.x < q.x \/ (p.x = q.x /\ p.y =< q.y)

AlignInit ==
    /\ at \in {l \in [AlignDesks -> Grid] :
                 \A d \in AlignDesks : d + 1 \in AlignDesks => InOrder(l[d], l[d + 1])}
    /\ aligned = {}

-----------------------------------------------------------------------------
(* Spacing, pods and their orientation.                                    *)

Square(n) == n * n

Dist2(d, e) == Square(at[d].x - at[e].x) + Square(at[d].y - at[e].y)

\* autoAlignMedianSpacing, squared: median of the distances to the nearest
\* neighbour, at least 30 and at most 200; 60 for a median of 0.
MedianSpacing2(desks) ==
    LET nearest == SetToSortSeq({<<Min({Dist2(d, e) : e \in desks \ {d}}), d>> : d \in desks},
                                LAMBDA a, b : a[1] < b[1] \/ (a[1] = b[1] /\ a[2] < b[2]))
        median  == nearest[Cardinality(desks) \div 2 + 1][1]
    IN  IF median = 0 THEN 60^2 ELSE Min({200^2, Max({30^2, median})})

\* v is within 0.45 times the spacing of its anchor.
Within(delta, med2) == 400 * delta^2 =< 81 * med2

\* Two desks at most 1.7 times the spacing apart are of one cluster.
SameCluster(d, e, med2) == 100 * Dist2(d, e) =< 289 * med2

\* autoAlignPlan: the union-find clusters.  The desks linked with d, directly or
\* through others, are those of every set that is closed under links and has d.
Pod(d, desks, med2) ==
    LET closed == {S \in SUBSET desks : d \in S /\
                      \A e \in S, f \in desks \ S : ~SameCluster(e, f, med2)}
    IN  {e \in desks : \A S \in closed : e \in S}

\* autoAlignDominantAngle: each desk's nearest neighbour at another place, the
\* first one of equals, as cosine and sine of four times its direction, by 1000.
Direction(d, pod) ==
    LET others == {e \in pod : Dist2(d, e) > 0}
        near   == CHOOSE e \in others :
                     \A f \in others : \/ Dist2(d, e) < Dist2(d, f)
                                       \/ Dist2(d, e) = Dist2(d, f) /\ e =< f
        dx == at[near].x - at[d].x
        dy == at[near].y - at[d].y
        c2 == ((dx^2 - dy^2) * 1000) \div Dist2(d, near)
        s2 == (2 * dx * dy * 1000) \div Dist2(d, near)
    IN  IF others = {} THEN [cos |-> 0, sin |-> 0]
        ELSE [cos |-> (c2^2 - s2^2) \div 1000, sin |-> (2 * c2 * s2) \div 1000]

\* Angles below 0.05 count as none: the tangent of four times that is 0.203.
DominantAngleIsZero(pod) ==
    LET cos == FoldSet(LAMBDA d, sum : sum + Direction(d, pod).cos, 0, pod)
        sin == FoldSet(LAMBDA d, sum : sum + Direction(d, pod).sin, 0, pod)
    IN  \/ cos = 0 /\ sin = 0
        \/ cos > 0 /\ 1000 * sin < 203 * cos /\ -1000 * sin < 203 * cos

-----------------------------------------------------------------------------
(* Lines.                                                                  *)

\* Math.round of a mean.
Mean(val, S) ==
    LET sum == FoldSet(LAMBDA d, acc : acc + val[d], 0, S)
    IN  (2 * sum + Cardinality(S)) \div (2 * Cardinality(S))

\* The anchors of the bands: the least value, and going up each value that is
\* not within the tolerance of an anchor below it.
Anchors(values, med2) ==
    CHOOSE anchors \in SUBSET values :
        \A v \in values :
            v \in anchors <=> \A a \in anchors : a < v => ~Within(v - a, med2)

\* Mutant: the values are taken in the order of the desks.
Lines_Unsorted(val, med2) ==
    LET bands == FoldLeft(LAMBDA acc, d :
                    IF acc # <<>> /\ (val[d] =< Last(acc).anchor
                                      \/ Within(val[d] - Last(acc).anchor, med2))
                    THEN [acc EXCEPT ![Len(acc)].desks = @ \cup {d}]
                    ELSE Append(acc, [anchor |-> val[d], desks |-> {d}]),
                    <<>>, SetToSortSeq(DOMAIN val, <))
    IN  [d \in DOMAIN val |->
            Mean(val, (CHOOSE b \in Range(bands) : d \in b.desks).desks)]

\* autoAlignBands, and autoAlignUnifyCanon, which does the same with the
\* lines of pods: each desk's value becomes the mean of its band.
Lines(val, med2) ==
    LET anchors == Anchors({val[d] : d \in DOMAIN val}, med2)
        anchor  == [d \in DOMAIN val |-> Max({a \in anchors : a =< val[d]})]
        mean    == [a \in anchors |-> Mean(val, {d \in DOMAIN val : anchor[d] = a})]
    IN  [d \in DOMAIN val |-> mean[anchor[d]]]

\* autoAlignPodCanon: the middle between the neighbouring lines.
Midpoint(lines, v) ==
    LET below == Max({l \in lines : l < v})
        above == Min({l \in lines : l > v})
    IN  (below + above + 1) \div 2

\* A desk alone on its line, with lines on both sides.
Flanked(d, line) ==
    LET lines == {line[e] : e \in DOMAIN line}
    IN  /\ \A e \in DOMAIN line \ {d} : line[e] # line[d]
        /\ \E a, b \in lines : a < line[d] /\ line[d] < b

\* autoAlignPodCanon: column and row of each desk of a pod; a desk that is
\* flanked on both is centred between its neighbours' lines.
PodCanon(pod, med2) ==
    LET col == Lines([d \in pod |-> at[d].x], med2)
        row == Lines([d \in pod |-> at[d].y], med2)
        centred == {d \in pod : Flanked(d, col) /\ Flanked(d, row)}
        Centre(line, d) == Midpoint({line[e] : e \in pod}, line[d])
    IN  [d \in pod |-> IF d \in centred THEN [x |-> Centre(col, d), y |-> Centre(row, d)]
                       ELSE [x |-> col[d], y |-> row[d]]]

-----------------------------------------------------------------------------
(* The plan.                                                               *)

\* Mutant: a lone desk takes part in the unification.
Pods_Lone(desks, med2) == {Pod(d, desks, med2) : d \in desks}

\* The pods of a selection: a lone desk is none.
Pods(desks, med2) == {p \in {Pod(d, desks, med2) : d \in desks} : Cardinality(p) > 1}

\* autoAlignPlan: where each desk of a pod is to stand.
Plan(desks) ==
    LET med2  == MedianSpacing2(desks)
        pods  == Pods(desks, med2)
        moved == UNION pods
        canonOf == [p \in pods |-> PodCanon(p, med2)]
        canon   == [d \in moved |-> canonOf[CHOOSE p \in pods : d \in p][d]]
        x == Lines([d \in moved |-> canon[d].x], med2)
        y == Lines([d \in moved |-> canon[d].y], med2)
    IN  [d \in moved |-> [x |-> x[d], y |-> y[d]]]

AxisAligned(desks) ==
    \A pod \in Pods(desks, MedianSpacing2(desks)) : DominantAngleIsZero(pod)

\* Mutant: only the moved desks are kept.
Align_OnlyMoves(desks) ==
    /\ aligned = {}
    /\ Cardinality(desks) > 1 /\ AxisAligned(desks)
    /\ at' = Plan(desks)
    /\ aligned' = desks

\* A selection by box or lasso is aligned and applied: once from every layout.
Align(desks) ==
    /\ aligned = {}
    /\ Cardinality(desks) > 1
    /\ AxisAligned(desks)
    /\ Pods(desks, MedianSpacing2(desks)) # {}
    /\ LET plan == Plan(desks)
       IN  at' = [d \in AlignDesks |-> IF d \in DOMAIN plan THEN plan[d] ELSE at[d]]
    /\ aligned' = desks

AlignNext == \E desks \in SUBSET AlignDesks : Align(desks)

AlignSpec == AlignInit /\ [][AlignNext]_alignVars

-----------------------------------------------------------------------------
(* Properties.                                                             *)

PodsOf(desks) == Pods(desks, MedianSpacing2(desks))

\* Desks of a pod are not swapped: neither bands nor the centring of a lone
\* desk nor the lines of other pods invert an order or part a line.
OrderKept ==
    [][\A pod \in PodsOf(aligned') : \A d, e \in pod :
         /\ at[d].x =< at[e].x => at'[d].x =< at'[e].x
         /\ at[d].y =< at[e].y => at'[d].y =< at'[e].y]_alignVars

\* admin.js:2167 says that lone desks are left alone, and a selection leaves
\* the desks outside alone.
OthersStay ==
    [][LET near(d) == {e \in aligned' \ {d} :
                         SameCluster(d, e, MedianSpacing2(aligned'))}
       IN  \A d \in AlignDesks :
             d \notin aligned' \/ near(d) = {} => at'[d] = at[d]]_alignVars

\* admin.js:2204-2205 says that distinct rows and columns are never merged:
\* two desks of a pod that are on different bands keep different lines.
RowsNeverMerge ==
    [][\A pod \in PodsOf(aligned') :
         LET col == Lines([d \in pod |-> at[d].x], MedianSpacing2(aligned'))
         IN  \A d, e \in pod : col[d] # col[e] => at'[d].x # at'[e].x]_alignVars
=============================================================================
