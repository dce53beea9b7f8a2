--------------------------- MODULE PerceiveProof ---------------------------
(***************************************************************************)
(* Every set of frames the projection makes is of events both folds know   *)
(* (the lemmas named Type).  So the world stays sound, and the browsers    *)
(* that are sent its log and the characters' show what those fold to, for  *)
(* any scenes, actors and events (IInv).                                   *)
(*                                                                         *)
(* What the characters are told comes after: that no set of frames made    *)
(* for a log is ever dropped, that a board shows what its character sees   *)
(* as it is, and that no log holds what it may not.                        *)
(*                                                                         *)
(* That argument is about one decision.  Each set of frames folds to a     *)
(* state that can be written down (GrantsFold, DoorsFold and their like),  *)
(* and so do the transitions together (TransitionsFold): what they make of *)
(* a log is Told, wherever the log's actors have the forms the frames      *)
(* suppose.  The event that follows them is one that Told accepts, and     *)
(* brings it to show what the world has become (EventFolds and the lemmas  *)
(* named Shows).  A log is Ready for that when it is opened, resumed or    *)
(* was brought to what its character saw before the event, which is what   *)
(* TellInv keeps of every log.                                             *)
(*                                                                         *)
(* What is seen from a square needs no invariant of the folds.  The slab   *)
(* test of a segment against a rectangle decides the separating axes       *)
(* (SlabIsExact), an open door only takes a blocker away (FewerBlockers),  *)
(* and a column of walls and shut doors meets every segment across it,     *)
(* since each of its ends lies in a square of the scene (PointInside,      *)
(* SomeRow, ColumnStops).  SightIsRight is those three at the squares and  *)
(* the tolerance of the runs.                                              *)
(***************************************************************************)
EXTENDS Perceive, EngineProof

-----------------------------------------------------------------------------
(* What is seen from a square.                                             *)

\* A scene as it stands with these doors open as well.
WithOpened(sc, open) == [sc EXCEPT !.open = sc.open \cup open]

LEMMA FewerBlockers ==
  ASSUME NEW sc, NEW open, sc = [width |-> sc.width, height |-> sc.height, tiles |-> sc.tiles,
                                 open |-> sc.open, objects |-> sc.objects]
  PROVE  LineOfSight!Blockers(WithOpened(sc, open)) \subseteq LineOfSight!Blockers(sc)
<1>1. /\ LineOfSight!Grid(WithOpened(sc, open)) = LineOfSight!Grid(sc)
      /\ WithOpened(sc, open).objects = sc.objects
  BY DEF LineOfSight!Grid, WithOpened
<1>2. \A sq : LineOfSight!Solid(WithOpened(sc, open), sq) => LineOfSight!Solid(sc, sq)
  BY DEF LineOfSight!Solid, LineOfSight!Tile, WithOpened
<1> QED BY <1>1, <1>2 DEF LineOfSight!Blockers

LEMMA ClearOfFewer ==
  ASSUME NEW from, NEW to, NEW few, NEW many, few \subseteq many, LineOfSight!Clear(from, to, many)
  PROVE  LineOfSight!Clear(from, to, few)
BY DEF LineOfSight!Clear

\* The instance counts as this module does.
LEMMA SameCount ==
  ASSUME NEW S PROVE LineOfSight!Cardinality(S) = Cardinality(S)
BY DEF LineOfSight!Cardinality, Cardinality

LEMMA ThreeAreFinite ==
  ASSUME NEW a, NEW b, NEW c PROVE IsFiniteSet({a, b, c})
<1>1. IsFiniteSet({a})
  BY FS_Singleton
<1>2. IsFiniteSet({a} \cup {b})
  BY <1>1, FS_AddElement
<1>3. IsFiniteSet(({a} \cup {b}) \cup {c})
  BY <1>2, FS_AddElement
<1>4. {a, b, c} = ({a} \cup {b}) \cup {c}
  OBVIOUS
<1> QED BY <1>3, <1>4

LEMMA SamplePointsAreFinite ==
  ASSUME NEW sq PROVE IsFiniteSet(LineOfSight!SamplePoints(sq))
<1> DEFINE x(d) == sq[1] * LineOfSight!Side + d
           y(d) == sq[2] * LineOfSight!Side + d
           Row(d) == {<<x(d), y(1)>>, <<x(d), y(Half)>>, <<x(d), y(LineOfSight!Side - 1)>>}
<1>1. IsFiniteSet(Row(1)) /\ IsFiniteSet(Row(Half)) /\ IsFiniteSet(Row(LineOfSight!Side - 1))
  BY ThreeAreFinite
<1>2. LineOfSight!SamplePoints(sq) = (Row(1) \cup Row(Half)) \cup Row(LineOfSight!Side - 1)
  <2> HIDE DEF x, y
  <2>1. LineOfSight!SamplePoints(sq) = {<<x(dx), y(dy)>> : dx, dy \in {1, Half, LineOfSight!Side - 1}}
    BY DEF LineOfSight!SamplePoints, x, y
  <2> QED BY <2>1
<1> HIDE DEF Row
<1>3. IsFiniteSet(Row(1) \cup Row(Half))
  BY <1>1, FS_Union
<1>4. IsFiniteSet((Row(1) \cup Row(Half)) \cup Row(LineOfSight!Side - 1))
  BY <1>1, <1>3, FS_Union
<1> QED BY <1>2, <1>4

\* Whatever doors are opened in a scene, nothing that is seen from a square of
\* it goes out of sight.
THEOREM OpeningADoorHidesNothing ==
  ASSUME NEW sc, NEW open, NEW at, NEW range, NEW tolerance \in Int,
         sc = [width |-> sc.width, height |-> sc.height, tiles |-> sc.tiles,
               open |-> sc.open, objects |-> sc.objects]
  PROVE  LineOfSight!VisibleFrom(sc, at, range, tolerance)
           \subseteq LineOfSight!VisibleFrom(WithOpened(sc, open), at, range, tolerance)
<1> DEFINE shut == LineOfSight!Blockers(sc)
           opened == LineOfSight!Blockers(WithOpened(sc, open))
           want == IF tolerance <= 0 THEN 1 ELSE tolerance
           Reached(blockers, sq) ==
             {p \in LineOfSight!SamplePoints(sq) :
                LineOfSight!Clear(LineOfSight!Centre(at), p, blockers)}
<1>1. \A sq : Reached(shut, sq) \subseteq Reached(opened, sq)
  BY FewerBlockers, ClearOfFewer
<1>2. \A sq : IsFiniteSet(Reached(opened, sq))
  BY SamplePointsAreFinite, FS_Subset
<1>3. \A sq : /\ Cardinality(Reached(shut, sq)) \in Nat
              /\ Cardinality(Reached(opened, sq)) \in Nat
              /\ Cardinality(Reached(shut, sq)) <= Cardinality(Reached(opened, sq))
  BY <1>1, <1>2, FS_Subset, FS_CardinalityType
<1>4. LineOfSight!Grid(WithOpened(sc, open)) = LineOfSight!Grid(sc)
  BY DEF LineOfSight!Grid, WithOpened
<1>5. want \in Int
  OBVIOUS
<1> SUFFICES ASSUME NEW sq \in LineOfSight!VisibleFrom(sc, at, range, tolerance)
             PROVE  sq \in LineOfSight!VisibleFrom(WithOpened(sc, open), at, range, tolerance)
  OBVIOUS
<1>6. sq \in LineOfSight!Grid(sc) /\ (range > 0 => LineOfSight!Chebyshev(at, sq) <= range)
      /\ Cardinality(Reached(shut, sq)) >= want
  BY SameCount DEF LineOfSight!VisibleFrom
<1>7. Cardinality(Reached(opened, sq)) >= want
  <2> HIDE DEF want, Reached
  <2> QED BY <1>3, <1>5, <1>6
<1> QED BY <1>4, <1>6, <1>7, SameCount DEF LineOfSight!VisibleFrom

\* Nor does it in what a look takes from the world's scenes.
COROLLARY OpenDoorsHideNothing ==
  ASSUME NEW s \in Scenes, NEW at \in Squares, NEW open \in SUBSET Squares,
         NEW door \in Squares
  PROVE  SeenFrom[s][at][open] \subseteq SeenFrom[s][at][open \cup {door}]
<1> DEFINE sc(doors) == [width |-> Terrain[s].width, height |-> Terrain[s].height,
                         tiles |-> Terrain[s].tiles, objects |-> {}, open |-> doors]
<1>1. \A doors \in SUBSET Squares :
        SeenFrom[s][at][doors] = LineOfSight!VisibleFrom(sc(doors), at, 0, 0)
  BY DEF SeenFrom
<1>2. WithOpened(sc(open), {door}) = sc(open \cup {door})
  BY DEF WithOpened
<1>3. sc(open) = [width |-> sc(open).width, height |-> sc(open).height, tiles |-> sc(open).tiles,
                  open |-> sc(open).open, objects |-> sc(open).objects]
  OBVIOUS
<1> HIDE DEF sc
<1>4. LineOfSight!VisibleFrom(sc(open), at, 0, 0)
        \subseteq LineOfSight!VisibleFrom(WithOpened(sc(open), {door}), at, 0, 0)
  BY <1>3, OpeningADoorHidesNothing
<1> QED BY <1>1, <1>2, <1>4

-----------------------------------------------------------------------------
(* The slab test.                                                          *)

\* A product keeps or turns the order, by the sign of the other factor.
LEMMA Times ==
  ASSUME NEW x \in Int, NEW y \in Int, NEW z \in Int, x <= y
  PROVE  /\ x * z \in Int /\ y * z \in Int
         /\ z >= 0 => x * z <= y * z
         /\ z <= 0 => x * z >= y * z
<1>1. y * z = x * z + (y - x) * z
  OBVIOUS
<1>2. z >= 0 => (y - x) * z >= 0
  OBVIOUS
<1>3. z <= 0 => (y - x) * z <= 0
  OBVIOUS
<1>4. x * z \in Int /\ y * z \in Int /\ (y - x) * z \in Int
  OBVIOUS
<1> QED BY <1>1, <1>2, <1>3, <1>4

\* What a segment enters first and leaves last of a slab.
LEMMA SlabOf ==
  ASSUME NEW from, NEW to, NEW r, NEW i, from[i] \in Int, to[i] \in Int,
         r.min[i] \in Int, r.max[i] \in Int, r.min[i] <= r.max[i], to[i] # from[i]
  PROVE  /\ LineOfSight!Enters(from, to, r, i) =
              IF to[i] > from[i] THEN <<r.min[i] - from[i], to[i] - from[i]>>
              ELSE <<from[i] - r.max[i], from[i] - to[i]>>
         /\ LineOfSight!Leaves(from, to, r, i) =
              IF to[i] > from[i] THEN <<r.max[i] - from[i], to[i] - from[i]>>
              ELSE <<from[i] - r.min[i], from[i] - to[i]>>
<1> DEFINE f == from[i]
           d == to[i] - f
           a == r.min[i]
           b == r.max[i]
<1>1. f \in Int /\ d \in Int /\ a \in Int /\ b \in Int /\ d # 0 /\ a - f <= b - f
  OBVIOUS
<1>2. /\ LineOfSight!Enters(from, to, r, i) =
           LineOfSight!Earlier(LineOfSight!Ratio(a - f, d), LineOfSight!Ratio(b - f, d))
      /\ LineOfSight!Leaves(from, to, r, i) =
           LineOfSight!Later(LineOfSight!Ratio(a - f, d), LineOfSight!Ratio(b - f, d))
  BY DEF LineOfSight!Enters, LineOfSight!Leaves
<1>3. to[i] > from[i] <=> d > 0
  OBVIOUS
<1>4. to[i] - from[i] = d /\ from[i] - to[i] = -d
  OBVIOUS
<1> HIDE DEF d, f, a, b
<1>5. CASE d > 0
  <2>1. LineOfSight!Ratio(a - f, d) = <<a - f, d>> /\ LineOfSight!Ratio(b - f, d) = <<b - f, d>>
    BY <1>5 DEF LineOfSight!Ratio
  <2>2. (a - f) * d <= (b - f) * d
    BY <1>1, <1>5, Times
  <2>3. LineOfSight!Leq(<<a - f, d>>, <<b - f, d>>)
    BY <2>2 DEF LineOfSight!Leq
  <2>4. /\ LineOfSight!Enters(from, to, r, i) = <<a - f, d>>
        /\ LineOfSight!Leaves(from, to, r, i) = <<b - f, d>>
    BY <1>2, <2>1, <2>3 DEF LineOfSight!Earlier, LineOfSight!Later
  <2> QED BY <1>3, <1>4, <1>5, <2>4 DEF f, a, b
<1>6. CASE ~(d > 0)
  <2>1. /\ LineOfSight!Ratio(a - f, d) = <<f - a, -d>>
        /\ LineOfSight!Ratio(b - f, d) = <<f - b, -d>>
    <3>1. -(a - f) = f - a /\ -(b - f) = f - b
      BY <1>1
    <3> QED BY <1>6, <3>1 DEF LineOfSight!Ratio
  <2>2. f - b <= f - a /\ -d > 0 /\ f - b \in Int /\ f - a \in Int /\ -d \in Int
    BY <1>1, <1>6
  <2>3. (f - b) * (-d) <= (f - a) * (-d)
    BY <2>2, Times
  <2>4. /\ LineOfSight!Leq(<<f - b, -d>>, <<f - a, -d>>)
        /\ LineOfSight!Leq(<<f - a, -d>>, <<f - b, -d>>) => f - a = f - b
    <3>1. (f - a) * (-d) <= (f - b) * (-d) => f - a = f - b
      <4> DEFINE x == f - b
                 y == f - a
                 z == -d
      <4>1. x \in Int /\ y \in Int /\ z \in Int /\ x <= y /\ z > 0
        BY <2>2
      <4> HIDE DEF x, y, z
      <4>2. y * z <= x * z => x = y
        <5>1. x + 1 <= y => (x + 1) * z <= y * z
          BY <4>1, Times
        <5>2. (x + 1) * z = x * z + z /\ x * z \in Int /\ y * z \in Int
          BY <4>1
        <5> QED BY <4>1, <5>1, <5>2
      <4> QED BY <4>2 DEF x, y, z
    <3> QED BY <2>3, <3>1 DEF LineOfSight!Leq
  <2>5. /\ LineOfSight!Enters(from, to, r, i) = <<f - b, -d>>
        /\ LineOfSight!Leaves(from, to, r, i) = <<f - a, -d>>
    BY <1>2, <2>1, <2>4 DEF LineOfSight!Earlier, LineOfSight!Later
  <2> QED BY <1>3, <1>4, <1>6, <2>5 DEF f, a, b
<1> QED BY <1>5, <1>6

\* A point of whole units, and a rectangle of such corners.
IsPoint(p) == \A i \in 1 .. 2 : p[i] \in Int
IsRect(r) == IsPoint(r.min) /\ IsPoint(r.max) /\ \A i \in 1 .. 2 : r.min[i] <= r.max[i]

\* The segment lies beside the rectangle along an axis.
Apart(from, to, r, i) == \/ from[i] < r.min[i] /\ to[i] < r.min[i]
                         \/ from[i] > r.max[i] /\ to[i] > r.max[i]

\* What it enters of one slab it enters before it leaves the other.
Overlap(from, to, r, i, j) ==
  LineOfSight!Leq(LineOfSight!Enters(from, to, r, i), LineOfSight!Leaves(from, to, r, j))

LEMMA SlabEnds ==
  ASSUME NEW from, NEW to, NEW r, IsPoint(from), IsPoint(to), IsRect(r),
         NEW i \in 1 .. 2, to[i] # from[i]
  PROVE  /\ (/\ LineOfSight!Leq(LineOfSight!Enters(from, to, r, i), <<1, 1>>)
             /\ LineOfSight!Leq(<<0, 1>>, LineOfSight!Leaves(from, to, r, i))) <=> ~Apart(from, to, r, i)
         /\ Overlap(from, to, r, i, i)
<1> DEFINE f == from[i]
           t == to[i]
           a == r.min[i]
           b == r.max[i]
<1>1. f \in Int /\ t \in Int /\ a \in Int /\ b \in Int /\ a <= b /\ t # f
  BY DEF IsPoint, IsRect
<1>2. /\ LineOfSight!Enters(from, to, r, i) = IF t > f THEN <<a - f, t - f>> ELSE <<f - b, f - t>>
      /\ LineOfSight!Leaves(from, to, r, i) = IF t > f THEN <<b - f, t - f>> ELSE <<f - a, f - t>>
  BY <1>1, SlabOf
<1>3. Apart(from, to, r, i) <=> (f < a /\ t < a) \/ (f > b /\ t > b)
  BY DEF Apart
<1> HIDE DEF f, t, a, b
<1>4. CASE t > f
  <2>1. (a - f) * (t - f) <= (b - f) * (t - f)
    <3> DEFINE x == a - f
               y == b - f
               z == t - f
    <3>1. x \in Int /\ y \in Int /\ z \in Int /\ x <= y /\ z >= 0
      BY <1>1, <1>4
    <3> HIDE DEF x, y, z
    <3>2. x * z <= y * z
      BY <3>1, Times
    <3> QED BY <3>2 DEF x, y, z
  <2>2. Overlap(from, to, r, i, i)
    BY <1>2, <1>4, <2>1 DEF Overlap, LineOfSight!Leq
  <2>3. /\ LineOfSight!Leq(<<a - f, t - f>>, <<1, 1>>) <=> a <= t
        /\ LineOfSight!Leq(<<0, 1>>, <<b - f, t - f>>) <=> f <= b
    BY <1>1 DEF LineOfSight!Leq
  <2> QED BY <1>1, <1>2, <1>3, <1>4, <2>2, <2>3
<1>5. CASE ~(t > f)
  <2>1. (f - b) * (f - t) <= (f - a) * (f - t)
    <3> DEFINE x == f - b
               y == f - a
               z == f - t
    <3>1. x \in Int /\ y \in Int /\ z \in Int /\ x <= y /\ z >= 0
      BY <1>1, <1>5
    <3> HIDE DEF x, y, z
    <3>2. x * z <= y * z
      BY <3>1, Times
    <3> QED BY <3>2 DEF x, y, z
  <2>2. Overlap(from, to, r, i, i)
    BY <1>2, <1>5, <2>1 DEF Overlap, LineOfSight!Leq
  <2>3. /\ LineOfSight!Leq(<<f - b, f - t>>, <<1, 1>>) <=> t <= b
        /\ LineOfSight!Leq(<<0, 1>>, <<f - a, f - t>>) <=> a <= f
    BY <1>1 DEF LineOfSight!Leq
  <2> QED BY <1>1, <1>2, <1>3, <1>5, <2>2, <2>3
<1> QED BY <1>4, <1>5

\* Every corner is on one side of a segment's line when the outermost is.
LEMMA Corners ==
  ASSUME NEW from, NEW to, NEW r, IsPoint(from), IsPoint(to), IsRect(r),
         ~Apart(from, to, r, 1), ~Apart(from, to, r, 2)
  PROVE  LET D(i) == to[i] - from[i]
             C(a, b) == D(1) * (b - from[2]) - D(2) * (a - from[1])
         IN  /\ LineOfSight!Meets(from, to, r) <=>
                  /\ C(r.min[1], r.min[2]) <= 0 \/ C(r.min[1], r.max[2]) <= 0
                     \/ C(r.max[1], r.min[2]) <= 0 \/ C(r.max[1], r.max[2]) <= 0
                  /\ C(r.min[1], r.min[2]) >= 0 \/ C(r.min[1], r.max[2]) >= 0
                     \/ C(r.max[1], r.min[2]) >= 0 \/ C(r.max[1], r.max[2]) >= 0
<1> DEFINE C(a, b) == (to[1] - from[1]) * (b - from[2]) - (to[2] - from[2]) * (a - from[1])
           corners == {r.min[1], r.max[1]} \X {r.min[2], r.max[2]}
<1>1. \A a \in {r.min[1], r.max[1]}, b \in {r.min[2], r.max[2]} :
        LineOfSight!Cross(from, to, <<a, b>>) = C(a, b) /\ C(a, b) \in Int
  BY DEF LineOfSight!Cross, IsPoint, IsRect
<1> HIDE DEF C
<1>3. (\A c \in corners : LineOfSight!Cross(from, to, c) > 0) <=>
        /\ C(r.min[1], r.min[2]) > 0 /\ C(r.min[1], r.max[2]) > 0
        /\ C(r.max[1], r.min[2]) > 0 /\ C(r.max[1], r.max[2]) > 0
  BY <1>1
<1>4. (\A c \in corners : LineOfSight!Cross(from, to, c) < 0) <=>
        /\ C(r.min[1], r.min[2]) < 0 /\ C(r.min[1], r.max[2]) < 0
        /\ C(r.max[1], r.min[2]) < 0 /\ C(r.max[1], r.max[2]) < 0
  BY <1>1
<1>5. LineOfSight!Meets(from, to, r) <=>
        /\ ~ \A c \in corners : LineOfSight!Cross(from, to, c) > 0
        /\ ~ \A c \in corners : LineOfSight!Cross(from, to, c) < 0
  BY DEF LineOfSight!Meets, Apart
<1> HIDE DEF corners
<1>6. LineOfSight!Meets(from, to, r) <=>
        /\ C(r.min[1], r.min[2]) <= 0 \/ C(r.min[1], r.max[2]) <= 0
           \/ C(r.max[1], r.min[2]) <= 0 \/ C(r.max[1], r.max[2]) <= 0
        /\ C(r.min[1], r.min[2]) >= 0 \/ C(r.min[1], r.max[2]) >= 0
           \/ C(r.max[1], r.min[2]) >= 0 \/ C(r.max[1], r.max[2]) >= 0
  BY <1>1, <1>3, <1>4, <1>5
<1> QED BY <1>6 DEF C

\* The slab test says whether a segment and a rectangle meet, of any whole numbers.
LEMMA SlabIsExact ==
  ASSUME NEW from, NEW to, NEW r, IsPoint(from), IsPoint(to), IsRect(r)
  PROVE  LineOfSight!SegmentHitsRect(from, to, r) <=> LineOfSight!Meets(from, to, r)
<1> DEFINE f1 == from[1]
           f2 == from[2]
           d1 == to[1] - from[1]
           d2 == to[2] - from[2]
           a1 == r.min[1]
           a2 == r.min[2]
           b1 == r.max[1]
           b2 == r.max[2]
           hits == LineOfSight!SegmentHitsRect(from, to, r)
           meets == LineOfSight!Meets(from, to, r)
           across == LineOfSight!Crosses(from, to)
<1>1. /\ f1 \in Int /\ f2 \in Int /\ d1 \in Int /\ d2 \in Int
      /\ a1 \in Int /\ a2 \in Int /\ b1 \in Int /\ b2 \in Int /\ a1 <= b1 /\ a2 <= b2
  BY DEF IsPoint, IsRect
<1>2. /\ across \subseteq 1 .. 2 /\ 1 .. 2 = {1, 2}
      /\ 1 \in across <=> d1 # 0
      /\ 2 \in across <=> d2 # 0
  BY DEF LineOfSight!Crosses, IsPoint
<1>3. \A i \in 1 .. 2 \ across : (r.min[i] <= from[i] /\ from[i] <= r.max[i]) <=> ~Apart(from, to, r, i)
  BY DEF Apart, LineOfSight!Crosses, IsPoint, IsRect
<1>4. \A i \in across :
        /\ (/\ LineOfSight!Leq(LineOfSight!Enters(from, to, r, i), <<1, 1>>)
            /\ LineOfSight!Leq(<<0, 1>>, LineOfSight!Leaves(from, to, r, i))) <=> ~Apart(from, to, r, i)
        /\ Overlap(from, to, r, i, i)
  <2>1. \A i \in across : i \in 1 .. 2 /\ to[i] # from[i]
    BY DEF LineOfSight!Crosses
  <2> HIDE DEF across
  <2> QED BY <2>1, SlabEnds
<1>5. hits <=> /\ ~Apart(from, to, r, 1) /\ ~Apart(from, to, r, 2)
               /\ \A i, j \in across : Overlap(from, to, r, i, j)
  <2>1. hits <=> /\ \A i \in 1 .. 2 \ across : r.min[i] <= from[i] /\ from[i] <= r.max[i]
                 /\ \A i \in across : LineOfSight!Leq(LineOfSight!Enters(from, to, r, i), <<1, 1>>)
                                      /\ LineOfSight!Leq(<<0, 1>>, LineOfSight!Leaves(from, to, r, i))
                 /\ \A i, j \in across : Overlap(from, to, r, i, j)
    BY DEF LineOfSight!SegmentHitsRect, Overlap
  <2> HIDE DEF hits, across
  <2>2. (\A i \in 1 .. 2 : ~Apart(from, to, r, i)) <=> ~Apart(from, to, r, 1) /\ ~Apart(from, to, r, 2)
    OBVIOUS
  <2>3. (\A i \in 1 .. 2 : ~Apart(from, to, r, i)) <=>
          /\ \A i \in 1 .. 2 \ across : ~Apart(from, to, r, i)
          /\ \A i \in across : ~Apart(from, to, r, i)
    BY <1>2
  <2> QED BY <1>3, <1>4, <2>1, <2>2, <2>3
<1>6. CASE Apart(from, to, r, 1) \/ Apart(from, to, r, 2)
  <2>1. ~meets
    BY <1>6 DEF LineOfSight!Meets, Apart
  <2> QED BY <1>5, <1>6, <2>1
<1>7. CASE ~Apart(from, to, r, 1) /\ ~Apart(from, to, r, 2)
  <2> DEFINE P == d1 * (a2 - f2)
             Q == d1 * (b2 - f2)
             R == d2 * (a1 - f1)
             S == d2 * (b1 - f1)
  <2>1. meets <=> /\ P - R <= 0 \/ Q - R <= 0 \/ P - S <= 0 \/ Q - S <= 0
                  /\ P - R >= 0 \/ Q - R >= 0 \/ P - S >= 0 \/ Q - S >= 0
    BY <1>7, Corners
  <2>2. /\ P \in Int /\ Q \in Int /\ R \in Int /\ S \in Int
        /\ (d1 >= 0 => P <= Q) /\ (d1 <= 0 => P >= Q)
        /\ (d2 >= 0 => R <= S) /\ (d2 <= 0 => R >= S)
        /\ (d1 = 0 => P = 0 /\ Q = 0) /\ (d2 = 0 => R = 0 /\ S = 0)
    <3> HIDE DEF d1, d2, f1, f2, a1, a2, b1, b2
    <3>1. a2 - f2 \in Int /\ b2 - f2 \in Int /\ a2 - f2 <= b2 - f2
          /\ a1 - f1 \in Int /\ b1 - f1 \in Int /\ a1 - f1 <= b1 - f1
      BY <1>1
    <3>2. /\ (a2 - f2) * d1 \in Int /\ (b2 - f2) * d1 \in Int
          /\ d1 >= 0 => (a2 - f2) * d1 <= (b2 - f2) * d1
          /\ d1 <= 0 => (a2 - f2) * d1 >= (b2 - f2) * d1
      BY <1>1, <3>1, Times
    <3>3. /\ (a1 - f1) * d2 \in Int /\ (b1 - f1) * d2 \in Int
          /\ d2 >= 0 => (a1 - f1) * d2 <= (b1 - f1) * d2
          /\ d2 <= 0 => (a1 - f1) * d2 >= (b1 - f1) * d2
      BY <1>1, <3>1, Times
    <3>4. P = (a2 - f2) * d1 /\ Q = (b2 - f2) * d1 /\ R = (a1 - f1) * d2 /\ S = (b1 - f1) * d2
      BY <1>1
    <3>5. (d1 = 0 => P = 0 /\ Q = 0) /\ (d2 = 0 => R = 0 /\ S = 0)
      BY <1>1
    <3> HIDE DEF P, Q, R, S
    <3> QED BY <3>2, <3>3, <3>4, <3>5
  <2>3. ASSUME d1 # 0, d2 # 0
        PROVE  /\ Overlap(from, to, r, 1, 2) <=>
                    IF d1 > 0 THEN IF d2 > 0 THEN R <= Q ELSE P <= R
                    ELSE IF d2 > 0 THEN S >= Q ELSE P >= S
               /\ Overlap(from, to, r, 2, 1) <=>
                    IF d1 > 0 THEN IF d2 > 0 THEN P <= S ELSE Q >= S
                    ELSE IF d2 > 0 THEN R <= P ELSE R >= Q
    <3>1. /\ LineOfSight!Enters(from, to, r, 1) = IF d1 > 0 THEN <<a1 - f1, d1>> ELSE <<f1 - b1, -d1>>
          /\ LineOfSight!Leaves(from, to, r, 1) = IF d1 > 0 THEN <<b1 - f1, d1>> ELSE <<f1 - a1, -d1>>
      <4>1. to[1] # from[1] /\ (to[1] > from[1] <=> d1 > 0) /\ from[1] - to[1] = -d1
        BY <2>3 DEF IsPoint
      <4> QED BY <4>1, SlabOf DEF IsPoint, IsRect
    <3>2. /\ LineOfSight!Enters(from, to, r, 2) = IF d2 > 0 THEN <<a2 - f2, d2>> ELSE <<f2 - b2, -d2>>
          /\ LineOfSight!Leaves(from, to, r, 2) = IF d2 > 0 THEN <<b2 - f2, d2>> ELSE <<f2 - a2, -d2>>
      <4>1. to[2] # from[2] /\ (to[2] > from[2] <=> d2 > 0) /\ from[2] - to[2] = -d2
        BY <2>3 DEF IsPoint
      <4> QED BY <4>1, SlabOf DEF IsPoint, IsRect
    <3> HIDE DEF d1, d2, f1, f2, a1, a2, b1, b2
    <3>3. /\ (a1 - f1) * d2 = R /\ (b1 - f1) * d2 = S /\ (a2 - f2) * d1 = P /\ (b2 - f2) * d1 = Q
          /\ (a1 - f1) * (-d2) = -R /\ (b1 - f1) * (-d2) = -S
          /\ (a2 - f2) * (-d1) = -P /\ (b2 - f2) * (-d1) = -Q
          /\ (f1 - a1) * d2 = -R /\ (f1 - b1) * d2 = -S /\ (f2 - a2) * d1 = -P /\ (f2 - b2) * d1 = -Q
          /\ (f1 - a1) * (-d2) = R /\ (f1 - b1) * (-d2) = S
          /\ (f2 - a2) * (-d1) = P /\ (f2 - b2) * (-d1) = Q
      BY <1>1
    <3> HIDE DEF P, Q, R, S
    <3>4. CASE d1 > 0 /\ d2 > 0
      BY <2>2, <3>1, <3>2, <3>3, <3>4 DEF Overlap, LineOfSight!Leq
    <3>5. CASE d1 > 0 /\ ~(d2 > 0)
      BY <2>2, <3>1, <3>2, <3>3, <3>5 DEF Overlap, LineOfSight!Leq
    <3>6. CASE ~(d1 > 0) /\ d2 > 0
      BY <2>2, <3>1, <3>2, <3>3, <3>6 DEF Overlap, LineOfSight!Leq
    <3>7. CASE ~(d1 > 0) /\ ~(d2 > 0)
      BY <2>2, <3>1, <3>2, <3>3, <3>7 DEF Overlap, LineOfSight!Leq
    <3> QED BY <3>4, <3>5, <3>6, <3>7
  <2>4. CASE d1 = 0 \/ d2 = 0
    <3>1. \A i, j \in across : i = j
      BY <1>2, <2>4
    <3>2. hits
      BY <1>4, <1>5, <1>7, <3>1
    <3>3. CASE d1 = 0
      <4>1. a1 - f1 <= 0 /\ 0 <= b1 - f1
        BY <1>1, <1>7, <3>3 DEF Apart, IsPoint
      <4> HIDE DEF meets, d1, d2, f1, a1, b1
      <4>2. /\ (a1 - f1) * d2 \in Int /\ (b1 - f1) * d2 \in Int
            /\ d2 >= 0 => (a1 - f1) * d2 <= 0 * d2 /\ 0 * d2 <= (b1 - f1) * d2
            /\ d2 <= 0 => (a1 - f1) * d2 >= 0 * d2 /\ 0 * d2 >= (b1 - f1) * d2
        <5>1. a1 - f1 \in Int /\ b1 - f1 \in Int /\ 0 \in Int
          BY <1>1
        <5> QED BY <1>1, <4>1, <5>1, Times
      <4>3. (a1 - f1) * d2 = R /\ (b1 - f1) * d2 = S /\ 0 * d2 = 0
        BY <1>1
      <4>4. (d2 >= 0 => R <= 0 /\ 0 <= S) /\ (d2 <= 0 => R >= 0 /\ 0 >= S)
        BY <4>2, <4>3
      <4>5. d2 >= 0 \/ d2 <= 0
        BY <1>1
      <4> HIDE DEF P, Q, R, S
      <4> QED BY ONLY <2>1, <2>2, <3>2, <3>3, <4>4, <4>5 DEF meets
    <3>4. CASE d2 = 0
      <4>1. a2 - f2 <= 0 /\ 0 <= b2 - f2
        BY <1>1, <1>7, <3>4 DEF Apart, IsPoint
      <4> HIDE DEF meets, d1, d2, f2, a2, b2
      <4>2. /\ (a2 - f2) * d1 \in Int /\ (b2 - f2) * d1 \in Int
            /\ d1 >= 0 => (a2 - f2) * d1 <= 0 * d1 /\ 0 * d1 <= (b2 - f2) * d1
            /\ d1 <= 0 => (a2 - f2) * d1 >= 0 * d1 /\ 0 * d1 >= (b2 - f2) * d1
        <5>1. a2 - f2 \in Int /\ b2 - f2 \in Int /\ 0 \in Int
          BY <1>1
        <5> QED BY <1>1, <4>1, <5>1, Times
      <4>3. (a2 - f2) * d1 = P /\ (b2 - f2) * d1 = Q /\ 0 * d1 = 0
        BY <1>1
      <4>4. (d1 >= 0 => P <= 0 /\ 0 <= Q) /\ (d1 <= 0 => P >= 0 /\ 0 >= Q)
        BY <4>2, <4>3
      <4>5. d1 >= 0 \/ d1 <= 0
        BY <1>1
      <4> HIDE DEF P, Q, R, S
      <4> QED BY ONLY <2>1, <2>2, <3>2, <3>4, <4>4, <4>5 DEF meets
    <3> QED BY <2>4, <3>2, <3>3, <3>4
  <2>5. CASE d1 # 0 /\ d2 # 0
    <3>1. across = {1, 2}
      BY <1>2, <2>5
    <3>2. hits <=> Overlap(from, to, r, 1, 2) /\ Overlap(from, to, r, 2, 1)
      BY <1>4, <1>5, <1>7, <3>1
    <3>3. (d1 > 0 \/ d1 < 0) /\ (d2 > 0 \/ d2 < 0)
      BY <1>1, <2>5
    <3> HIDE DEF hits, meets, P, Q, R, S, d1, d2
    <3>4. d1 \in Int /\ d2 \in Int
      BY <1>1
    <3> QED BY ONLY <2>1, <2>2, <2>3, <2>5, <3>2, <3>3, <3>4 DEF hits, meets
  <2> QED BY <2>4, <2>5
<1> QED BY <1>6, <1>7

\* n parts of the way in d from one end to the other is a point of the rectangle.
LEMMA PointInside ==
  ASSUME NEW from, NEW to, NEW r, IsPoint(from), IsPoint(to), IsRect(r),
         NEW d \in Nat, d > 0, NEW n \in 0 .. d,
         \A i \in 1 .. 2 : /\ r.min[i] * d <= from[i] * d + (to[i] - from[i]) * n
                           /\ from[i] * d + (to[i] - from[i]) * n <= r.max[i] * d
  PROVE  LineOfSight!SegmentHitsRect(from, to, r)
<1> DEFINE Y(i) == from[i] * d + (to[i] - from[i]) * n
<1>1. ASSUME NEW i \in 1 .. 2
      PROVE  ~Apart(from, to, r, i)
  <2> DEFINE f == from[i]
             t == to[i]
             a == r.min[i]
             b == r.max[i]
  <2>1. f \in Int /\ t \in Int /\ a \in Int /\ b \in Int /\ d \in Int /\ n \in Int
        /\ 0 <= n /\ 0 <= d - n /\ d - n \in Int /\ 0 < d
    BY DEF IsPoint, IsRect
  <2>2. a * d <= f * d + (t - f) * n /\ f * d + (t - f) * n <= b * d
    OBVIOUS
  <2>3. Apart(from, to, r, i) <=> (f < a /\ t < a) \/ (f > b /\ t > b)
    BY DEF Apart
  <2> HIDE DEF f, t, a, b
  <2>4. f * d + (t - f) * n = f * (d - n) + t * n
    BY <2>1
  <2>5. \A x \in Int : x * d = x * (d - n) + x * n
    BY <2>1
  <2>6. CASE f < a /\ t < a
    <3>1. f + 1 <= a /\ t + 1 <= a /\ f + 1 \in Int /\ t + 1 \in Int
      BY <2>1, <2>6
    <3>2. (f + 1) * (d - n) <= a * (d - n) /\ (t + 1) * n <= a * n
      BY <2>1, <3>1, Times
    <3>3. (f + 1) * (d - n) = f * (d - n) + (d - n) /\ (t + 1) * n = t * n + n
      BY <2>1
    <3>4. a * d = a * (d - n) + a * n
      BY <2>1, <2>5
    <3> DEFINE fd == f * (d - n)
               tn == t * n
               ad == a * (d - n)
               an == a * n
    <3>5. fd \in Int /\ tn \in Int /\ ad \in Int /\ an \in Int
      BY <2>1
    <3>6. ad + an <= fd + tn
      BY <2>2, <2>4, <3>4
    <3>7. fd + (d - n) <= ad /\ tn + n <= an
      BY <3>2, <3>3
    <3> HIDE DEF fd, tn, ad, an
    <3> QED BY <2>1, <3>5, <3>6, <3>7
  <2>7. CASE f > b /\ t > b
    <3>1. b + 1 <= f /\ b + 1 <= t /\ b + 1 \in Int
      BY <2>1, <2>7
    <3>2. (b + 1) * (d - n) <= f * (d - n) /\ (b + 1) * n <= t * n
      BY <2>1, <3>1, Times
    <3>3. (b + 1) * (d - n) = b * (d - n) + (d - n) /\ (b + 1) * n = b * n + n
      BY <2>1
    <3>4. b * d = b * (d - n) + b * n
      BY <2>1, <2>5
    <3> DEFINE fd == f * (d - n)
               tn == t * n
               bd == b * (d - n)
               bn == b * n
    <3>5. fd \in Int /\ tn \in Int /\ bd \in Int /\ bn \in Int
      BY <2>1
    <3>6. fd + tn <= bd + bn
      BY <2>2, <2>4, <3>4
    <3>7. bd + (d - n) <= fd /\ bn + n <= tn
      BY <3>2, <3>3
    <3> HIDE DEF fd, tn, bd, bn
    <3> QED BY <2>1, <3>5, <3>6, <3>7
  <2> QED BY <2>3, <2>6, <2>7
<1> DEFINE d1 == to[1] - from[1]
           d2 == to[2] - from[2]
           C(a, b) == d1 * (b - from[2]) - d2 * (a - from[1])
<1>2. /\ d1 \in Int /\ d2 \in Int /\ from[1] \in Int /\ from[2] \in Int /\ d \in Int /\ n \in Int
      /\ r.min[1] \in Int /\ r.min[2] \in Int /\ r.max[1] \in Int /\ r.max[2] \in Int
  BY DEF IsPoint, IsRect
\* Beside the point, the side of the line is that of the axes' offsets.
<1>3. ASSUME NEW a \in Int, NEW b \in Int
      PROVE  /\ C(a, b) \in Int
             /\ C(a, b) * d = (b * d - Y(2)) * d1 - (a * d - Y(1)) * d2
  <2> DEFINE f1 == from[1]
             f2 == from[2]
  <2>1. d1 \in Int /\ d2 \in Int /\ f1 \in Int /\ f2 \in Int /\ d \in Int /\ n \in Int
    BY <1>2
  <2>2. Y(1) = f1 * d + d1 * n /\ Y(2) = f2 * d + d2 * n
    OBVIOUS
  <2>3. C(a, b) = d1 * (b - f2) - d2 * (a - f1)
    OBVIOUS
  <2> HIDE DEF d1, d2, f1, f2, Y, C
  <2>4. (d1 * (b - f2) - d2 * (a - f1)) * d = d1 * (b * d) - d1 * (f2 * d) - d2 * (a * d) + d2 * (f1 * d)
    BY <2>1
  <2>5. (b * d - (f2 * d + d2 * n)) * d1 - (a * d - (f1 * d + d1 * n)) * d2
          = d1 * (b * d) - d1 * (f2 * d) - d2 * (a * d) + d2 * (f1 * d)
    BY <2>1
  <2>6. d1 * (b - f2) - d2 * (a - f1) \in Int
    BY <2>1
  <2> QED BY <2>2, <2>3, <2>4, <2>5, <2>6
<1>4. ASSUME NEW x \in Int, x * d <= 0 PROVE x <= 0
  <2>1. 1 <= x => 1 * d <= x * d
    BY <1>2, Times
  <2> QED BY <2>1, <1>4
<1>5. ASSUME NEW x \in Int, x * d >= 0 PROVE x >= 0
  <2>1. x <= -1 => x * d <= (-1) * d
    BY <1>2, Times
  <2> QED BY <2>1, <1>5
<1>6. /\ r.min[1] * d <= Y(1) /\ Y(1) <= r.max[1] * d
      /\ r.min[2] * d <= Y(2) /\ Y(2) <= r.max[2] * d
  OBVIOUS
<1>7. Y(1) \in Int /\ Y(2) \in Int
  BY <1>2
<1> DEFINE low1 == r.min[1] * d - Y(1)
           high1 == r.max[1] * d - Y(1)
           low2 == r.min[2] * d - Y(2)
           high2 == r.max[2] * d - Y(2)
<1>8. low1 \in Int /\ high1 \in Int /\ low2 \in Int /\ high2 \in Int
      /\ low1 <= 0 /\ 0 <= high1 /\ low2 <= 0 /\ 0 <= high2 /\ 0 \in Int
  <2> HIDE DEF Y
  <2> QED BY <1>2, <1>6, <1>7
<1>9. /\ C(r.min[1], r.min[2]) * d = low2 * d1 - low1 * d2
      /\ C(r.min[1], r.max[2]) * d = high2 * d1 - low1 * d2
      /\ C(r.max[1], r.min[2]) * d = low2 * d1 - high1 * d2
      /\ C(r.max[1], r.max[2]) * d = high2 * d1 - high1 * d2
      /\ C(r.min[1], r.min[2]) \in Int /\ C(r.min[1], r.max[2]) \in Int
      /\ C(r.max[1], r.min[2]) \in Int /\ C(r.max[1], r.max[2]) \in Int
  <2> HIDE DEF C, Y
  <2> QED BY <1>2, <1>3
<1> HIDE DEF low1, high1, low2, high2, C, d1, d2, Y
<1>10. /\ low2 * d1 \in Int /\ high2 * d1 \in Int /\ low1 * d2 \in Int /\ high1 * d2 \in Int
       /\ d1 >= 0 => low2 * d1 <= 0 /\ 0 <= high2 * d1
       /\ d1 <= 0 => low2 * d1 >= 0 /\ 0 >= high2 * d1
       /\ d2 >= 0 => low1 * d2 <= 0 /\ 0 <= high1 * d2
       /\ d2 <= 0 => low1 * d2 >= 0 /\ 0 >= high1 * d2
  <2>1. 0 * d1 = 0 /\ 0 * d2 = 0
    BY <1>2
  <2> QED BY <1>2, <1>8, <2>1, Times
<1>11. (d1 >= 0 \/ d1 <= 0) /\ (d2 >= 0 \/ d2 <= 0)
  BY <1>2
<1> DEFINE ll == low2 * d1
           hh == high2 * d1
           kk == low1 * d2
           mm == high1 * d2
<1>12. /\ ll - kk <= 0 \/ hh - kk <= 0 \/ ll - mm <= 0 \/ hh - mm <= 0
       /\ ll - kk >= 0 \/ hh - kk >= 0 \/ ll - mm >= 0 \/ hh - mm >= 0
  <2>1. /\ ll \in Int /\ hh \in Int /\ kk \in Int /\ mm \in Int
        /\ d1 >= 0 => ll <= 0 /\ 0 <= hh
        /\ d1 <= 0 => ll >= 0 /\ 0 >= hh
        /\ d2 >= 0 => kk <= 0 /\ 0 <= mm
        /\ d2 <= 0 => kk >= 0 /\ 0 >= mm
    BY <1>10
  <2> HIDE DEF ll, hh, kk, mm
  <2> QED BY <1>11, <2>1
<1>13. /\ C(r.min[1], r.min[2]) <= 0 \/ C(r.min[1], r.max[2]) <= 0
          \/ C(r.max[1], r.min[2]) <= 0 \/ C(r.max[1], r.max[2]) <= 0
       /\ C(r.min[1], r.min[2]) >= 0 \/ C(r.min[1], r.max[2]) >= 0
          \/ C(r.max[1], r.min[2]) >= 0 \/ C(r.max[1], r.max[2]) >= 0
  BY <1>4, <1>5, <1>9, <1>12
<1>14. LineOfSight!Meets(from, to, r)
  BY <1>1, <1>13, Corners DEF C, d1, d2
<1> QED BY <1>14, SlabIsExact

-----------------------------------------------------------------------------
(* A wall.                                                                 *)

\* One of the rows of a column holds what lies between its ends.
LEMMA SomeRow ==
  ASSUME NEW h \in Nat, NEW w \in Nat, h >= 1, NEW y \in Int, 0 <= y, y <= h * w
  PROVE  \E j \in 0 .. h - 1 : j * w <= y /\ y <= (j + 1) * w
<1> DEFINE T == {j \in Nat : y <= (j + 1) * w}
<1>1. h - 1 \in T
  <2>1. h - 1 \in Nat /\ (h - 1) + 1 = h
    OBVIOUS
  <2> QED BY <2>1
<1>2. PICK j \in T : \A k \in T : j <= k
  <2>1. T \subseteq Nat /\ T # {}
    BY <1>1
  <2> HIDE DEF T
  <2> QED BY <2>1, LeastExists
<1>3. j \in 0 .. h - 1
  BY <1>1, <1>2
<1>4. j * w <= y
  <2>1. CASE j = 0
    BY <2>1
  <2>2. CASE j # 0
    <3>1. j - 1 \in Nat /\ ~(j <= j - 1) /\ (j - 1) + 1 = j
      BY <2>2
    <3>2. j - 1 \notin T
      BY <1>2, <3>1
    <3>3. ~(y <= j * w) /\ j * w \in Int
      BY <3>1, <3>2
    <3> QED BY <3>3
  <2> QED BY <2>1, <2>2
<1> QED BY <1>3, <1>4

\* Where a square's points lie, of a square that is one of the first n.
LEMMA InSquare ==
  ASSUME NEW k \in Nat, NEW n \in Nat, k < n, NEW d \in 1 .. LineOfSight!Side - 1
  PROVE  /\ LineOfSight!Side \in Nat /\ k * LineOfSight!Side \in Nat /\ n * LineOfSight!Side \in Nat
         /\ k * LineOfSight!Side < k * LineOfSight!Side + d
         /\ k * LineOfSight!Side + d < n * LineOfSight!Side
<1> DEFINE s == LineOfSight!Side
<1>1. s \in Nat
  BY PerceiveAssumption DEF LineOfSight!Side
<1> HIDE DEF s
<1>2. d \in Nat /\ d >= 1 /\ d < s
  BY <1>1 DEF s
<1>3. (k + 1) * s <= n * s
  BY <1>1, Times
<1>4. (k + 1) * s = k * s + s /\ k * s \in Nat /\ n * s \in Nat
  BY <1>1
<1> QED BY <1>1, <1>2, <1>3, <1>4 DEF s

LEMMA CentreAndSamples ==
  ASSUME NEW sq, sq[1] \in Nat, sq[2] \in Nat
  PROVE  /\ Half \in 1 .. LineOfSight!Side - 1
         /\ LineOfSight!Centre(sq)[1] = sq[1] * LineOfSight!Side + Half
         /\ LineOfSight!Centre(sq)[2] = sq[2] * LineOfSight!Side + Half
         /\ IsPoint(LineOfSight!Centre(sq))
         /\ \A p \in LineOfSight!SamplePoints(sq) :
              /\ IsPoint(p)
              /\ \E dx, dy \in 1 .. LineOfSight!Side - 1 :
                   p[1] = sq[1] * LineOfSight!Side + dx /\ p[2] = sq[2] * LineOfSight!Side + dy
<1> DEFINE s == LineOfSight!Side
<1>1. Half \in Nat /\ Half >= 2 /\ s = 2 * Half
  BY PerceiveAssumption DEF LineOfSight!Side
<1>2. \A m \in {1, Half, s - 1} : m \in 1 .. s - 1
  BY <1>1
<1> HIDE DEF s
<1>3. LineOfSight!Centre(sq) = <<sq[1] * s + Half, sq[2] * s + Half>>
  BY DEF LineOfSight!Centre, s
<1>4. sq[1] * s \in Int /\ sq[2] * s \in Int
  BY <1>1
<1>5. IsPoint(LineOfSight!Centre(sq))
  BY <1>1, <1>3, <1>4 DEF IsPoint
<1>6. ASSUME NEW p \in LineOfSight!SamplePoints(sq)
      PROVE  /\ IsPoint(p)
             /\ \E dx, dy \in 1 .. s - 1 : p[1] = sq[1] * s + dx /\ p[2] = sq[2] * s + dy
  <2>1. PICK dx \in {1, Half, s - 1}, dy \in {1, Half, s - 1} : p = <<sq[1] * s + dx, sq[2] * s + dy>>
    BY DEF LineOfSight!SamplePoints, s
  <2>2. dx \in 1 .. s - 1 /\ dy \in 1 .. s - 1
    BY <1>2
  <2>3. p[1] = sq[1] * s + dx /\ p[2] = sq[2] * s + dy
    BY <2>1
  <2> QED BY <1>1, <1>4, <2>2, <2>3 DEF IsPoint
<1> QED BY <1>1, <1>2, <1>3, <1>5, <1>6 DEF s

\* The rectangle of a square.
LEMMA SquareRect ==
  ASSUME NEW x \in Nat, NEW y \in Nat
  PROVE  LET r == LineOfSight!Rect(x, y, 1, 1)
             s == LineOfSight!Side
         IN  /\ r.min[1] = x * s /\ r.min[2] = y * s
             /\ r.max[1] = (x + 1) * s /\ r.max[2] = (y + 1) * s
             /\ IsRect(r)
<1> DEFINE s == LineOfSight!Side
           r == LineOfSight!Rect(x, y, 1, 1)
<1>1. s \in Nat
  BY PerceiveAssumption DEF LineOfSight!Side
<1> HIDE DEF s
<1>2. r = [min |-> <<x * s, y * s>>, max |-> <<(x + 1) * s, (y + 1) * s>>]
  BY DEF LineOfSight!Rect, s
<1>3. /\ r.min[1] = x * s /\ r.min[2] = y * s
      /\ r.max[1] = (x + 1) * s /\ r.max[2] = (y + 1) * s
  BY <1>2
<1>4. (x + 1) * s = x * s + s /\ (y + 1) * s = y * s + s /\ x * s \in Int /\ y * s \in Int
  BY <1>1
<1> HIDE DEF r
<1>5. IsRect(r)
  BY <1>1, <1>3, <1>4 DEF IsRect, IsPoint
<1> QED BY <1>3, <1>5 DEF s, r

\* From one side of a column of solid squares to the other no ray is clear.
LEMMA ColumnStops ==
  ASSUME NEW sc, sc.width \in Nat, sc.height \in Nat, NEW c \in 0 .. sc.width - 1,
         \A y \in 0 .. sc.height - 1 : LineOfSight!Solid(sc, <<c, y>>),
         NEW at \in LineOfSight!Grid(sc), NEW sq \in LineOfSight!Grid(sc),
         (at[1] < c /\ c < sq[1]) \/ (sq[1] < c /\ c < at[1]),
         NEW p \in LineOfSight!SamplePoints(sq)
  PROVE  ~LineOfSight!Clear(LineOfSight!Centre(at), p, LineOfSight!Blockers(sc))
<1> DEFINE s == LineOfSight!Side
           from == LineOfSight!Centre(at)
           h == sc.height
           x == c * s
           f1 == from[1]
           f2 == from[2]
           p1 == p[1]
           p2 == p[2]
<1>1. /\ at[1] \in 0 .. sc.width - 1 /\ at[2] \in 0 .. h - 1
      /\ sq[1] \in 0 .. sc.width - 1 /\ sq[2] \in 0 .. h - 1
  BY DEF LineOfSight!Grid
<1>2. /\ at[1] \in Nat /\ at[2] \in Nat /\ at[2] < h /\ sq[1] \in Nat /\ sq[2] \in Nat /\ sq[2] < h
      /\ c \in Nat /\ c + 1 \in Nat /\ h \in Nat /\ h >= 1
  BY <1>1
<1>3. /\ Half \in 1 .. s - 1 /\ IsPoint(from)
      /\ f1 = at[1] * s + Half /\ f2 = at[2] * s + Half
  BY <1>2, CentreAndSamples
<1>4. IsPoint(p) /\ \E dx, dy \in 1 .. s - 1 : p1 = sq[1] * s + dx /\ p2 = sq[2] * s + dy
  BY <1>2, CentreAndSamples
<1>5. PICK dx \in 1 .. s - 1, dy \in 1 .. s - 1 : p1 = sq[1] * s + dx /\ p2 = sq[2] * s + dy
  BY <1>4
<1>6. s \in Nat /\ x \in Nat /\ (c + 1) * s = x + s /\ h * s \in Nat
  BY <1>2, <1>3, InSquare
<1>7. f1 \in Int /\ f2 \in Int /\ p1 \in Int /\ p2 \in Int
  BY <1>3, <1>4 DEF IsPoint
<1>8. (f1 < x /\ x + s < p1) \/ (p1 < x /\ x + s < f1)
  <2>1. CASE at[1] < c /\ c < sq[1]
    <3>1. f1 < x
      BY <1>2, <1>3, <2>1, InSquare
    <3>2. (c + 1) * s <= sq[1] * s
      <4>1. c + 1 <= sq[1]
        BY <1>2, <2>1
      <4> QED BY <1>2, <1>6, <4>1, Times
    <3>3. sq[1] * s < p1
      BY <1>2, <1>5, InSquare
    <3> DEFINE edge == sq[1] * s
    <3>4. edge \in Int
      BY <1>2, <1>6, <3>3
    <3>5. x + s <= edge
      BY <1>6, <3>2
    <3> HIDE DEF edge, x, s, f1, p1
    <3> QED BY <1>6, <1>7, <3>1, <3>3, <3>4, <3>5 DEF edge
  <2>2. CASE sq[1] < c /\ c < at[1]
    <3>1. p1 < x
      BY <1>2, <1>5, <2>2, InSquare
    <3>2. (c + 1) * s <= at[1] * s
      <4>1. c + 1 <= at[1]
        BY <1>2, <2>2
      <4> QED BY <1>2, <1>6, <4>1, Times
    <3>3. at[1] * s < f1
      BY <1>2, <1>3, InSquare
    <3> DEFINE edge == at[1] * s
    <3>4. edge \in Int
      BY <1>2, <1>6, <3>3
    <3>5. x + s <= edge
      BY <1>6, <3>2
    <3> HIDE DEF edge, x, s, f1, p1
    <3> QED BY <1>6, <1>7, <3>1, <3>3, <3>4, <3>5 DEF edge
  <2> QED BY <2>1, <2>2
<1>9. 0 <= f2 /\ f2 <= h * s /\ 0 <= p2 /\ p2 <= h * s
  <2>1. at[2] * s < f2 /\ f2 < h * s /\ at[2] * s \in Nat
    BY <1>2, <1>3, InSquare
  <2>2. sq[2] * s < p2 /\ p2 < h * s /\ sq[2] * s \in Nat
    BY <1>2, <1>5, InSquare
  <2> QED BY <1>6, <1>7, <2>1, <2>2
<1> HIDE DEF s, x, f1, f2, p1, p2, from, h
<1>10. \E d, n \in Nat : d > 0 /\ n <= d /\ f1 * d + (p1 - f1) * n = x * d
  <2>1. CASE f1 < x /\ x + s < p1
    <3>1. p1 - f1 \in Nat /\ p1 - f1 > 0 /\ x - f1 \in Nat /\ x - f1 <= p1 - f1
      BY <1>6, <1>7, <2>1
    <3>2. f1 * (p1 - f1) + (p1 - f1) * (x - f1) = x * (p1 - f1)
      BY <1>6, <1>7
    <3> QED BY <3>1, <3>2
  <2>2. CASE p1 < x /\ x + s < f1
    <3>1. f1 - p1 \in Nat /\ f1 - p1 > 0 /\ f1 - x \in Nat /\ f1 - x <= f1 - p1
      BY <1>6, <1>7, <2>2
    <3>2. f1 * (f1 - p1) + (p1 - f1) * (f1 - x) = x * (f1 - p1)
      BY <1>6, <1>7
    <3> QED BY <3>1, <3>2
  <2> QED BY <1>8, <2>1, <2>2
<1>11. PICK d \in Nat, n \in Nat : d > 0 /\ n <= d /\ f1 * d + (p1 - f1) * n = x * d
  BY <1>10
<1> DEFINE y == f2 * d + (p2 - f2) * n
<1>12. y \in Int /\ 0 <= y /\ y <= h * (s * d) /\ s * d \in Nat
  <2>1. d \in Int /\ n \in Int /\ 0 <= n /\ d - n \in Int /\ 0 <= d - n
    BY <1>11
  <2>2. y = f2 * (d - n) + p2 * n
    BY <1>7, <2>1
  <2>3. /\ 0 * (d - n) <= f2 * (d - n) /\ f2 * (d - n) <= (h * s) * (d - n)
        /\ 0 * n <= p2 * n /\ p2 * n <= (h * s) * n
        /\ f2 * (d - n) \in Int /\ p2 * n \in Int
        /\ (h * s) * (d - n) \in Int /\ (h * s) * n \in Int
    BY <1>6, <1>7, <1>9, <2>1, Times
  <2>4. (h * s) * (d - n) + (h * s) * n = h * (s * d) /\ s * d \in Nat
    BY <1>2, <1>6, <2>1
  <2>5. 0 * (d - n) = 0 /\ 0 * n = 0
    BY <2>1
  <2> DEFINE u == f2 * (d - n)
             v == p2 * n
             uu == (h * s) * (d - n)
             vv == (h * s) * n
             ww == h * (s * d)
  <2>6. y = u + v /\ 0 <= u /\ u <= uu /\ 0 <= v /\ v <= vv /\ uu + vv = ww
        /\ u \in Int /\ v \in Int /\ uu \in Int /\ vv \in Int
    BY <2>2, <2>3, <2>4, <2>5
  <2> HIDE DEF u, v, uu, vv, y
  <2>7. y \in Int /\ 0 <= y /\ y <= uu + vv
    BY ONLY <2>6
  <2> QED BY <2>4, <2>6, <2>7
<1> HIDE DEF y
<1>13. PICK j \in 0 .. h - 1 : j * (s * d) <= y /\ y <= (j + 1) * (s * d)
  BY <1>2, <1>12, SomeRow
<1> DEFINE r == LineOfSight!Rect(c, j, 1, 1)
<1>14. /\ r.min[1] = x /\ r.min[2] = j * s /\ r.max[1] = x + s /\ r.max[2] = (j + 1) * s
       /\ IsRect(r) /\ j \in Nat
  <2>1. j \in Nat /\ c \in Nat
    BY <1>2
  <2> HIDE DEF r
  <2> QED BY <1>6, <2>1, SquareRect DEF r, s, x
<1>15. r \in LineOfSight!Blockers(sc)
  <2>1. <<c, j>> \in LineOfSight!Grid(sc) /\ LineOfSight!Solid(sc, <<c, j>>)
    BY DEF LineOfSight!Grid, h
  <2> DEFINE q == <<c, j>>
  <2>2. q[1] = c /\ q[2] = j
    OBVIOUS
  <2> HIDE DEF q
  <2>3. q \in LineOfSight!Grid(sc) /\ LineOfSight!Solid(sc, q)
    BY <2>1 DEF q
  <2>4. LineOfSight!Rect(q[1], q[2], 1, 1) \in LineOfSight!Blockers(sc)
    BY <2>3 DEF LineOfSight!Blockers
  <2> QED BY <2>2, <2>4
<1> HIDE DEF r
<1>16. ~LineOfSight!ContainsPoint(r, from) /\ ~LineOfSight!ContainsPoint(r, p)
  <2>1. 1 \in 1 .. 2
    OBVIOUS
  <2>2. ~(x <= f1 /\ f1 <= x + s) /\ ~(x <= p1 /\ p1 <= x + s)
    BY <1>6, <1>7, <1>8
  <2> QED BY <1>14, <2>1, <2>2 DEF LineOfSight!ContainsPoint, f1, p1
<1>17. LineOfSight!SegmentHitsRect(from, p, r)
  <2>1. x * d <= x * d /\ x * d <= (x + s) * d
    BY <1>6, Times
  <2>2. (j * s) * d = j * (s * d) /\ ((j + 1) * s) * d = (j + 1) * (s * d)
    BY <1>6, <1>14
  <2>3. \A i \in 1 .. 2 : /\ r.min[i] * d <= from[i] * d + (p[i] - from[i]) * n
                          /\ from[i] * d + (p[i] - from[i]) * n <= r.max[i] * d
    <3>1. /\ r.min[1] * d <= f1 * d + (p1 - f1) * n /\ f1 * d + (p1 - f1) * n <= r.max[1] * d
      BY <1>11, <1>14, <2>1
    <3>2. /\ r.min[2] * d <= f2 * d + (p2 - f2) * n /\ f2 * d + (p2 - f2) * n <= r.max[2] * d
      BY <1>13, <1>14, <2>2 DEF y
    <3> QED BY <3>1, <3>2 DEF f1, f2, p1, p2
  <2>4. n \in 0 .. d
    BY <1>11
  <2> QED BY <1>3, <1>4, <1>11, <1>14, <2>3, <2>4, PointInside
<1> QED BY <1>15, <1>16, <1>17 DEF LineOfSight!Clear, from

\* Nothing is seen across a column of walls and shut doors, from any square on
\* either side of it, in a scene of any size, whatever else stands in it.
THEOREM NothingIsSeenAcross ==
  ASSUME NEW sc, sc.width \in Nat, sc.height \in Nat, NEW c \in 0 .. sc.width - 1,
         \A y \in 0 .. sc.height - 1 : LineOfSight!Solid(sc, <<c, y>>),
         NEW at \in LineOfSight!Grid(sc), NEW sq \in LineOfSight!Grid(sc),
         (at[1] < c /\ c < sq[1]) \/ (sq[1] < c /\ c < at[1]),
         NEW range, NEW tolerance \in Int
  PROVE  sq \notin LineOfSight!VisibleFrom(sc, at, range, tolerance)
<1> DEFINE reached == {p \in LineOfSight!SamplePoints(sq) :
                         LineOfSight!Clear(LineOfSight!Centre(at), p, LineOfSight!Blockers(sc))}
           want == IF tolerance <= 0 THEN 1 ELSE tolerance
<1>1. reached = {}
  BY ColumnStops
<1>2. Cardinality(reached) = 0
  BY <1>1, FS_EmptySet
<1>3. ~(0 >= want)
  OBVIOUS
<1>4. sq \in LineOfSight!VisibleFrom(sc, at, range, tolerance) => Cardinality(reached) >= want
  BY SameCount DEF LineOfSight!VisibleFrom
<1> HIDE DEF reached, want
<1> QED BY <1>2, <1>3, <1>4

LEMMA WalledIs ==
  ASSUME NEW walls, NEW sq
  PROVE  LET sc == LineOfSight!Walled(walls)
         IN  /\ LineOfSight!Grid(sc) = (0 .. 2) \X (0 .. 2) /\ sc.width = 3 /\ sc.height = 3
             /\ sc.objects = {}
             /\ LineOfSight!Solid(sc, sq) <=> sq \in walls
<1> DEFINE sc == LineOfSight!Walled(walls)
<1>1. /\ sc.width = 3 /\ sc.height = 3 /\ sc.objects = {}
      /\ sc.tiles = [q \in walls |-> "wall"] /\ sc.open = {}
  BY DEF LineOfSight!Walled
<1> HIDE DEF sc
<1>2. LineOfSight!Grid(sc) = (0 .. 2) \X (0 .. 2)
  BY <1>1 DEF LineOfSight!Grid
<1>3. LineOfSight!Solid(sc, sq) <=> sq \in walls
  BY <1>1 DEF LineOfSight!Solid, LineOfSight!Tile
<1> QED BY <1>1, <1>2, <1>3 DEF sc

\* Nothing stands between a square and the middle of the near edge of a wall beside it.
LEMMA NearEdgeIsClear ==
  ASSUME NEW walls, walls \subseteq (0 .. 2) \X (0 .. 2), NEW y \in 0 .. 2
  PROVE  LET p == <<LineOfSight!Side + 1, y * LineOfSight!Side + Half>>
         IN  /\ p \in LineOfSight!SamplePoints(<<1, y>>)
             /\ LineOfSight!Clear(LineOfSight!Centre(<<0, y>>), p,
                                  LineOfSight!Blockers(LineOfSight!Walled(walls)))
<1> DEFINE s == LineOfSight!Side
           p == <<s + 1, y * s + Half>>
           from == LineOfSight!Centre(<<0, y>>)
           sc == LineOfSight!Walled(walls)
<1>1. Half \in Nat /\ Half >= 2 /\ s = 2 * Half
  BY PerceiveAssumption DEF LineOfSight!Side
<1>2. y \in {0, 1, 2}
  OBVIOUS
<1>3. p \in LineOfSight!SamplePoints(<<1, y>>)
  <2>1. 1 * s + 1 = s + 1
    BY <1>1
  <2> HIDE DEF s
  <2>2. p = <<<<1, y>>[1] * s + 1, <<1, y>>[2] * s + Half>>
    BY <2>1
  <2> HIDE DEF p
  <2> QED BY <2>2 DEF LineOfSight!SamplePoints, s
<1>4. from = <<Half, y * s + Half>>
  <2>1. 0 * s + Half = Half
    BY <1>1
  <2> HIDE DEF s
  <2> QED BY <2>1 DEF LineOfSight!Centre, s
<1> HIDE DEF s
<1>5. from[1] = Half /\ from[2] = y * s + Half /\ p[1] = s + 1 /\ p[2] = y * s + Half
  BY <1>4
<1>6. y * s \in Nat /\ IsPoint(from) /\ IsPoint(p)
  BY <1>1, <1>2, <1>5 DEF IsPoint
<1> HIDE DEF from, p
<1>7. ASSUME NEW b \in LineOfSight!Blockers(sc)
      PROVE  LineOfSight!ContainsPoint(b, from) \/ LineOfSight!ContainsPoint(b, p)
             \/ ~LineOfSight!SegmentHitsRect(from, p, b)
  <2>1. PICK q \in (0 .. 2) \X (0 .. 2) : b = LineOfSight!Rect(q[1], q[2], 1, 1)
    BY WalledIs DEF LineOfSight!Blockers
  <2>2. q[1] \in {0, 1, 2} /\ q[2] \in {0, 1, 2} /\ q[1] \in Nat /\ q[2] \in Nat
    OBVIOUS
  <2>3. /\ b.min[1] = q[1] * s /\ b.min[2] = q[2] * s
        /\ b.max[1] = (q[1] + 1) * s /\ b.max[2] = (q[2] + 1) * s
        /\ IsRect(b)
    BY <2>1, <2>2, SquareRect DEF s
  <2>4. CASE q[2] # y
    <3>1. ~(b.min[2] <= from[2] /\ from[2] <= b.max[2])
      <4> DEFINE k == q[2]
      <4>1. k \in Int /\ k + 1 \in Int /\ y \in Int /\ y + 1 \in Int /\ s \in Int /\ s >= 0
            /\ (k + 1 <= y \/ y + 1 <= k)
        BY <1>1, <1>2, <2>2, <2>4
      <4>2. b.min[2] = k * s /\ b.max[2] = (k + 1) * s
        BY <2>3
      <4> HIDE DEF k
      <4>3. (k + 1 <= y => (k + 1) * s <= y * s) /\ (y + 1 <= k => (y + 1) * s <= k * s)
        BY <4>1, Times
      <4>4. (y + 1) * s = y * s + s
        BY <4>1
      <4> DEFINE ys == y * s
                 ks == k * s
                 above == (k + 1) * s
      <4>5. ys \in Int /\ ks \in Int /\ above \in Int
        BY <4>1
      <4>6. above <= ys \/ ys + s <= ks
        BY <4>1, <4>3, <4>4
      <4>7. from[2] = ys + Half /\ b.min[2] = ks /\ b.max[2] = above
        BY <1>5, <4>2
      <4> HIDE DEF ys, ks, above
      <4> QED BY ONLY <1>1, <4>5, <4>6, <4>7
    <3>2. 2 \in 1 .. 2 \ LineOfSight!Crosses(from, p)
      BY <1>5 DEF LineOfSight!Crosses
    <3> QED BY <3>1, <3>2 DEF LineOfSight!SegmentHitsRect
  <2>5. CASE q[2] = y /\ q[1] = 0
    <3>1. b.min[1] <= from[1] /\ from[1] <= b.max[1] /\ b.min[2] <= from[2] /\ from[2] <= b.max[2]
      BY <1>1, <1>2, <1>5, <2>3, <2>5
    <3>2. 1 .. 2 = {1, 2}
      OBVIOUS
    <3> QED BY <3>1, <3>2 DEF LineOfSight!ContainsPoint
  <2>6. CASE q[2] = y /\ q[1] = 1
    <3>1. b.min[1] <= p[1] /\ p[1] <= b.max[1] /\ b.min[2] <= p[2] /\ p[2] <= b.max[2]
      BY <1>1, <1>2, <1>5, <2>3, <2>6
    <3>2. 1 .. 2 = {1, 2}
      OBVIOUS
    <3> QED BY <3>1, <3>2 DEF LineOfSight!ContainsPoint
  <2>7. CASE q[2] = y /\ q[1] = 2
    <3>1. from[1] < b.min[1] /\ p[1] < b.min[1]
      BY <1>1, <1>5, <2>3, <2>7
    <3>2. ~LineOfSight!Meets(from, p, b)
      BY <3>1 DEF LineOfSight!Meets
    <3> QED BY <1>6, <2>3, <3>2, SlabIsExact
  <2> QED BY <2>2, <2>4, <2>5, <2>6, <2>7
<1>8. LineOfSight!Clear(from, p, LineOfSight!Blockers(sc))
  BY <1>7 DEF LineOfSight!Clear
<1> QED BY <1>3, <1>8 DEF p, s, from

LEMMA SlabTestIsRight == LineOfSight!SlabMeetsTheRect
<1> SUFFICES ASSUME NEW at \in LineOfSight!Board3, NEW to \in LineOfSight!Board3,
                    NEW in \in LineOfSight!Board3, NEW p \in LineOfSight!SamplePoints(to)
             PROVE  LET r == LineOfSight!Rect(in[1], in[2], 1, 1)
                    IN  LineOfSight!SegmentHitsRect(LineOfSight!Centre(at), p, r)
                          <=> LineOfSight!Meets(LineOfSight!Centre(at), p, r)
  BY DEF LineOfSight!SlabMeetsTheRect
<1>1. \A sq \in LineOfSight!Board3 : sq[1] \in Nat /\ sq[2] \in Nat
  BY DEF LineOfSight!Board3
<1>2. IsPoint(LineOfSight!Centre(at)) /\ IsPoint(p)
  BY <1>1, CentreAndSamples
<1>3. IsRect(LineOfSight!Rect(in[1], in[2], 1, 1))
  BY <1>1, SquareRect
<1> QED BY <1>2, <1>3, SlabIsExact

LEMMA NoWayThroughAWall == LineOfSight!NothingThroughAWall
<1> DEFINE wall == {1} \X (0 .. 2)
           SeenPast(others, at) == LineOfSight!VisibleFrom(LineOfSight!Walled(wall \cup others), at, 0, 0)
<1> SUFFICES ASSUME NEW others \in SUBSET {<<0, 0>>, <<0, 1>>, <<2, 0>>, <<2, 1>>},
                    NEW at \in {0} \X (0 .. 2)
             PROVE  /\ <<1, at[2]>> \in SeenPast(others, at)
                    /\ SeenPast(others, at) \cap ({2} \X (0 .. 2)) = {}
  BY DEF LineOfSight!NothingThroughAWall
<1> DEFINE walls == wall \cup others
           sc == LineOfSight!Walled(walls)
           seen == LineOfSight!VisibleFrom(sc, at, 0, 0)
           y == at[2]
<1>1. walls \subseteq (0 .. 2) \X (0 .. 2)
  OBVIOUS
<1>2. y \in 0 .. 2 /\ at = <<0, y>> /\ at[1] = 0
  OBVIOUS
<1>3. \A j \in 0 .. 2 : <<1, j>> \in walls
  OBVIOUS
<1> HIDE DEF y, walls
<1>4. sc.width = 3 /\ sc.height = 3 /\ LineOfSight!Grid(sc) = (0 .. 2) \X (0 .. 2)
      /\ \A q : LineOfSight!Solid(sc, q) <=> q \in walls
  BY WalledIs
<1> HIDE DEF sc
<1>5. <<1, y>> \in seen
  <2> DEFINE near == <<1, y>>
             reached == {p \in LineOfSight!SamplePoints(near) :
                           LineOfSight!Clear(LineOfSight!Centre(at), p, LineOfSight!Blockers(sc))}
  <2>1. \E p : p \in reached
    BY <1>1, <1>2, NearEdgeIsClear DEF sc
  <2>2. IsFiniteSet(reached)
    BY SamplePointsAreFinite, FS_Subset
  <2>3. Cardinality(reached) \in Nat /\ Cardinality(reached) # 0
    <3> HIDE DEF reached
    <3> QED BY <2>1, <2>2, FS_CardinalityType, FS_EmptySet
  <2>4. near \in LineOfSight!Grid(sc)
    BY <1>2, <1>4
  <2>5. Cardinality(reached) >= 1
    <3> HIDE DEF reached
    <3> QED BY <2>3
  <2> QED BY <2>4, <2>5, SameCount DEF LineOfSight!VisibleFrom
<1>6. ASSUME NEW sq \in {2} \X (0 .. 2) PROVE sq \notin seen
  <2>1. sq \in LineOfSight!Grid(sc) /\ at \in LineOfSight!Grid(sc) /\ sq[1] = 2
    BY <1>4
  <2>2. 1 \in 0 .. sc.width - 1 /\ sc.width \in Nat /\ sc.height \in Nat
        /\ \A j \in 0 .. sc.height - 1 : LineOfSight!Solid(sc, <<1, j>>)
    BY <1>3, <1>4
  <2>3. at[1] < 1 /\ 1 < sq[1]
    BY <1>2, <2>1
  <2> HIDE DEF seen
  <2>4. sq \notin LineOfSight!VisibleFrom(sc, at, 0, 0)
    BY <2>1, <2>2, <2>3, NothingIsSeenAcross
  <2> QED BY <2>4 DEF seen
<1>7. seen = SeenPast(others, at)
  BY DEF sc, walls
<1> HIDE DEF seen, SeenPast
<1> QED BY <1>5, <1>6, <1>7 DEF y

LEMMA OpeningReveals == LineOfSight!OpeningOnlyReveals
<1> DEFINE tiles == [sq \in {1} \X (0 .. 2) |-> IF sq[2] = 1 THEN "wall" ELSE "door"]
           board == [LineOfSight!Walled({<<1, 1>>}) EXCEPT !.tiles = tiles]
           With(open) == [board EXCEPT !.open = open]
<1> SUFFICES ASSUME NEW open \in SUBSET {<<1, 0>>, <<1, 2>>}, NEW more \in SUBSET {<<1, 0>>, <<1, 2>>},
                    NEW at \in LineOfSight!Board3, NEW least \in {1, 5}, open \subseteq more
             PROVE  LineOfSight!VisibleFrom(With(open), at, 0, least)
                      \subseteq LineOfSight!VisibleFrom(With(more), at, 0, least)
  BY DEF LineOfSight!OpeningOnlyReveals
<1>1. board = [width |-> board.width, height |-> board.height, tiles |-> board.tiles,
               open |-> board.open, objects |-> board.objects]
  <2> DEFINE w == LineOfSight!Walled({<<1, 1>>})
  <2> HIDE DEF tiles
  <2>1. w = [width |-> w.width, height |-> w.height, tiles |-> w.tiles, open |-> w.open,
             objects |-> w.objects]
    <3>1. \A a, b, c, d, e : LET q == [width |-> a, height |-> b, objects |-> c, open |-> d, tiles |-> e]
                            IN  q = [width |-> q.width, height |-> q.height, tiles |-> q.tiles,
                                     open |-> q.open, objects |-> q.objects]
      OBVIOUS
    <3> QED BY <3>1 DEF LineOfSight!Walled
  <2> HIDE DEF w
  <2>2. \A v : (v = [width |-> v.width, height |-> v.height, tiles |-> v.tiles, open |-> v.open,
                     objects |-> v.objects]) =>
          LET q == [v EXCEPT !.tiles = tiles]
          IN  q = [width |-> q.width, height |-> q.height, tiles |-> q.tiles,
                   open |-> q.open, objects |-> q.objects]
    OBVIOUS
  <2> QED BY ONLY <2>1, <2>2 DEF board, w
<1> HIDE DEF board
<1>2. With(open) = [width |-> board.width, height |-> board.height, tiles |-> board.tiles,
                    open |-> open, objects |-> board.objects]
      /\ With(more) = [width |-> board.width, height |-> board.height, tiles |-> board.tiles,
                       open |-> more, objects |-> board.objects]
  BY <1>1
<1> HIDE DEF With
<1>3. open \cup more = more
  OBVIOUS
<1>4. WithOpened(With(open), more) = With(more)
  BY <1>2, <1>3 DEF WithOpened
<1>5. With(open) = [width |-> With(open).width, height |-> With(open).height,
                    tiles |-> With(open).tiles, open |-> With(open).open,
                    objects |-> With(open).objects]
  BY <1>2
<1>6. least \in Int
  OBVIOUS
<1> QED BY <1>4, <1>5, <1>6, OpeningADoorHidesNothing

-----------------------------------------------------------------------------
(* Frames made for each element of a set.                                  *)

LEMMA EachType ==
  ASSUME NEW S, IsFiniteSet(S), NEW X, NEW F \in [S -> Seq(X)]
  PROVE  Each(F) \in Seq(X)
<1> DEFINE order == SetToSeq(S)
           seqs == [i \in 1 .. Len(order) |-> F[order[i]]]
<1>1. order \in Seq(S)
  BY Walk
<1> HIDE DEF order
<1>2. seqs \in Seq(Seq(X))
  BY <1>1
<1> HIDE DEF seqs
<1>3. FlattenSeq(seqs) \in Seq(X)
  BY <1>2, FlattenType
<1> QED BY <1>3 DEF Each, seqs, order

\* If one element's frames take the log from where the others' left it, the
\* frames of all take it from the first to the last.
LEMMA EachFolds ==
  ASSUME NEW S, IsFiniteSet(S), NEW X, NEW F \in [S -> Seq(X)], NEW G,
         \A D \in SUBSET S : \A x \in S \ D : Folded(G[D], F[x]) = G[D \cup {x}]
  PROVE  Folded(G[{}], Each(F)) = G[S]
<1> DEFINE order == SetToSeq(S)
           seqs == [i \in 1 .. Len(order) |-> F[order[i]]]
           n == Len(order)
           Done(k) == {order[j] : j \in 1 .. k}
<1>1. /\ order \in Seq(S)
      /\ \A x \in S : \E i \in 1 .. n : order[i] = x
      /\ \A i, j \in 1 .. n : order[i] = order[j] => i = j
  BY Walk
<1> HIDE DEF order
<1>2. n \in Nat /\ (\A i \in 1 .. n : order[i] \in S)
  BY <1>1
<1>3. seqs \in Seq(Seq(X)) /\ Len(seqs) = n /\ \A i \in 1 .. n : seqs[i] = F[order[i]]
  <2>1. seqs \in [1 .. n -> Seq(X)]
    BY <1>2
  <2> QED BY <1>2, <2>1
<1>4. Each(F) = FlattenSeq(seqs)
  BY DEF Each, order
<1> HIDE DEF seqs
<1>5. PICK f : Flattens(f, X, seqs)
  BY <1>3, FlattenRuns
<1> DEFINE T == {k \in 0 .. n : Folded(G[{}], f[k]) = G[Done(k)]}
<1>6. 0 \in T
  <2>1. Done(0) = {} /\ 0 \in 0 .. n
    BY <1>2
  <2>2. f[0] = <<>>
    BY <1>5 DEF Flattens
  <2>3. Folded(G[{}], <<>>) = G[{}]
    BY FoldedEmpty
  <2> QED BY <2>1, <2>2, <2>3
<1>7. ASSUME NEW k \in 0 .. n, k < n, k \in T PROVE k + 1 \in T
  <2>1. k + 1 \in 1 .. n /\ k + 1 \in 0 .. n /\ (k + 1) - 1 = k /\ k \in 0 .. n
    BY <1>2, <1>7
  <2>2. f[k] \in Seq(X) /\ seqs[k + 1] \in Seq(X) /\ f[k + 1] = f[k] \o seqs[k + 1]
    <3>1. f[k] \in Seq(X)
      BY <1>3, <1>5, <2>1 DEF Flattens
    <3>2. seqs[k + 1] \in Seq(X)
      BY <1>3, <2>1
    <3>3. f[k + 1] = f[(k + 1) - 1] \o seqs[k + 1]
      BY <1>3, <1>5, <2>1 DEF Flattens
    <3> QED BY <2>1, <3>1, <3>2, <3>3
  <2>3. Folded(G[{}], f[k + 1]) = Folded(Folded(G[{}], f[k]), seqs[k + 1])
    BY <2>2, FoldedBoth
  <2>4. Folded(G[{}], f[k]) = G[Done(k)]
    BY <1>7
  <2>5. Done(k) \in SUBSET S
    <3>1. \A j \in 1 .. k : j \in 1 .. n
      BY <1>2
    <3> QED BY <1>2, <3>1
  <2>6. order[k + 1] \in S \ Done(k)
    <3>1. \A j \in 1 .. k : j \in 1 .. n /\ j # k + 1
      BY <1>2
    <3> QED BY <1>1, <1>2, <2>1, <3>1
  <2>7. Done(k + 1) = Done(k) \cup {order[k + 1]}
    <3>1. \A j : j \in 1 .. k + 1 <=> j \in 1 .. k \/ j = k + 1
      BY <1>2
    <3> QED BY <3>1
  <2> HIDE DEF Done
  <2>8. Folded(G[Done(k)], F[order[k + 1]]) = G[Done(k) \cup {order[k + 1]}]
    BY <2>5, <2>6
  <2>9. Folded(G[{}], f[k + 1]) = G[Done(k + 1)]
    BY <1>3, <2>1, <2>3, <2>4, <2>7, <2>8
  <2> QED BY <2>1, <2>9 DEF Done
<1> HIDE DEF T
<1>8. \A k \in 0 .. n : k \in T
  BY <1>2, <1>6, <1>7, UpTo
<1>9. n \in T
  BY <1>2, <1>8
<1>10. Done(n) = S
  <2>1. \A x \in S : x \in Done(n)
    BY <1>1
  <2>2. \A x \in Done(n) : x \in S
    BY <1>2
  <2> QED BY <2>1, <2>2
<1>11. f[n] = FlattenSeq(seqs)
  BY <1>3, <1>5 DEF Flattens
<1> HIDE DEF Done
<1> QED BY <1>4, <1>9, <1>10, <1>11 DEF T, Done

-----------------------------------------------------------------------------
(* The frames are events that both folds know.                             *)

LEMMA Finite ==
  /\ \A S \in SUBSET Scenes : IsFiniteSet(S)
  /\ \A S \in SUBSET Squares : IsFiniteSet(S)
  /\ \A S \in SUBSET Actors : IsFiniteSet(S)
  /\ \A S \in SUBSET Tokens : IsFiniteSet(S)
  /\ \A S \in SUBSET People : IsFiniteSet(S)
  /\ \A S \in SUBSET Conditions : IsFiniteSet(S)
  /\ \A S \in SUBSET NoteKeys : IsFiniteSet(S)
BY PerceiveAssumption, FS_Subset

LEMMA IfType ==
  ASSUME NEW c, NEW e, c => e \in Known
  PROVE  If(c, e) \in Seq(Known)
BY OneFrame, NoFrame DEF If

LEMMA HidesType ==
  ASSUME NEW S \in SUBSET Tokens
  PROVE  Hides(S) \in Seq(Known)
<1> DEFINE F == [t \in S |-> <<Hide(t)>>]
<1>1. ASSUME NEW t \in S PROVE <<Hide(t)>> \in Seq(Known)
  <2>1. Hide(t) \in Known
    BY DEF Hide, Known, Events
  <2> QED BY <2>1, OneFrame
<1>2. F \in [S -> Seq(Known)] /\ IsFiniteSet(S)
  BY <1>1, Finite
<1>3. Hides(S) = Each(F)
  BY DEF Hides
<1> HIDE DEF F
<1> QED BY <1>2, <1>3, EachType

LEMMA GrantsType ==
  ASSUME NEW S \in SUBSET People, NEW id \in Actors, NEW kind \in Kinds
  PROVE  Grants(id, S, kind) \in Seq(Known)
<1> DEFINE F == [p \in S |-> <<Grant(id, p, kind)>>]
<1>1. ASSUME NEW p \in S PROVE <<Grant(id, p, kind)>> \in Seq(Known)
  <2>1. Grant(id, p, kind) \in Known
    BY DEF Grant, Known, Events
  <2> QED BY <2>1, OneFrame
<1>2. F \in [S -> Seq(Known)] /\ IsFiniteSet(S)
  BY <1>1, Finite
<1>3. Grants(id, S, kind) = Each(F)
  BY DEF Grants
<1> HIDE DEF F
<1> QED BY <1>2, <1>3, EachType

LEMMA RevokesType ==
  ASSUME NEW S \in SUBSET People, NEW id \in Actors
  PROVE  Revokes(id, S) \in Seq(Known)
<1> DEFINE F == [p \in S |-> <<[type |-> "ActorControlRevoked", actor |-> id, person |-> p]>>]
<1>1. ASSUME NEW p \in S PROVE <<[type |-> "ActorControlRevoked", actor |-> id, person |-> p]>> \in Seq(Known)
  <2>1. [type |-> "ActorControlRevoked", actor |-> id, person |-> p] \in Known
    BY DEF Known, Events
  <2> QED BY <2>1, OneFrame
<1>2. F \in [S -> Seq(Known)] /\ IsFiniteSet(S)
  BY <1>1, Finite
<1>3. Revokes(id, S) = Each(F)
  BY DEF Revokes
<1> HIDE DEF F
<1> QED BY <1>2, <1>3, EachType

LEMMA AppliesType ==
  ASSUME NEW S \in SUBSET Conditions, NEW id \in Actors
  PROVE  Applies(id, S) \in Seq(Known)
<1> DEFINE F == [c \in S |-> <<[type |-> "ConditionApplied", actor |-> id, condition |-> c]>>]
<1>1. ASSUME NEW c \in S PROVE <<[type |-> "ConditionApplied", actor |-> id, condition |-> c]>> \in Seq(Known)
  <2>1. [type |-> "ConditionApplied", actor |-> id, condition |-> c] \in Known
    BY DEF Known, Events
  <2> QED BY <2>1, OneFrame
<1>2. F \in [S -> Seq(Known)] /\ IsFiniteSet(S)
  BY <1>1, Finite
<1>3. Applies(id, S) = Each(F)
  BY DEF Applies
<1> HIDE DEF F
<1> QED BY <1>2, <1>3, EachType

LEMMA RemovesType ==
  ASSUME NEW S \in SUBSET Conditions, NEW id \in Actors
  PROVE  Removes(id, S) \in Seq(Known)
<1> DEFINE F == [c \in S |-> <<[type |-> "ConditionRemoved", actor |-> id, condition |-> c]>>]
<1>1. ASSUME NEW c \in S PROVE <<[type |-> "ConditionRemoved", actor |-> id, condition |-> c]>> \in Seq(Known)
  <2>1. [type |-> "ConditionRemoved", actor |-> id, condition |-> c] \in Known
    BY DEF Known, Events
  <2> QED BY <2>1, OneFrame
<1>2. F \in [S -> Seq(Known)] /\ IsFiniteSet(S)
  BY <1>1, Finite
<1>3. Removes(id, S) = Each(F)
  BY DEF Removes
<1> HIDE DEF F
<1> QED BY <1>2, <1>3, EachType

\* What a look at a state finds is there.
Looked(st, eyes, now) ==
  /\ now.eyes = eyes
  /\ \A s \in DOMAIN now.squares : s \in Scenes /\ HasScene(st, s)
  /\ \A s : Lit(now, s) \subseteq Squares
  /\ now.tokens \subseteq Tokens
  /\ \A t \in now.tokens :
       /\ HasToken(st, t) /\ st.tokens[t] \in Token
       /\ st.tokens[t].scene \in DOMAIN now.squares
       /\ st.tokens[t].at \in Lit(now, st.tokens[t].scene)
       /\ st.tokens[t].actor \in now.sees
  /\ eyes \subseteq now.sees /\ now.sees \subseteq now.actors
  /\ Party(st) \subseteq now.actors
  /\ \A a \in now.actors : a \in Actors /\ HasActor(st, a) /\ st.actors[a] \in Actor

LEMMA SeenFromType ==
  ASSUME NEW s \in Scenes, NEW sq \in Squares, NEW open \in SUBSET Squares
  PROVE  SeenFrom[s][sq][open] \subseteq Squares
<1> DEFINE sc == [width |-> Terrain[s].width, height |-> Terrain[s].height,
                  tiles |-> Terrain[s].tiles, objects |-> {}, open |-> open]
<1>1. SeenFrom[s][sq][open] = LineOfSight!VisibleFrom(sc, sq, 0, 0)
  BY DEF SeenFrom
<1>2. LineOfSight!Grid(sc) = Squares
  BY PerceiveAssumption DEF LineOfSight!Grid
<1> HIDE DEF sc
<1>3. LineOfSight!VisibleFrom(sc, sq, 0, 0) \subseteq LineOfSight!Grid(sc)
  BY DEF LineOfSight!VisibleFrom
<1> QED BY <1>1, <1>2, <1>3

LEMMA LookIsOfTheState ==
  ASSUME NEW st \in GoodStates, NEW eyes \in SUBSET Party(st)
  PROVE  Looked(st, eyes, Look(st, eyes))
<1> DEFINE lit == LitBy(st, eyes)
           now == Look(st, eyes)
           standing == {t \in Tokens : HasToken(st, t) /\ st.tokens[t].actor \in eyes}
<1>1. st \in State /\ Sound(st)
  BY DEF GoodStates
<1>2. \A t \in Tokens : HasToken(st, t) =>
        /\ st.tokens[t] \in Token
        /\ HasActor(st, st.tokens[t].actor) /\ HasScene(st, st.tokens[t].scene)
  BY <1>1 DEF State, HasToken, Sound, TokensHaveActors, TokensHaveScenes
<1>3. DOMAIN lit = {st.tokens[t].scene : t \in standing}
  BY DEF LitBy
<1>4. \A s \in DOMAIN lit : s \in Scenes /\ HasScene(st, s)
  BY <1>2, <1>3 DEF Token
<1>5. ASSUME NEW s \in DOMAIN lit PROVE lit[s] \subseteq Squares
  <2>1. lit[s] = UNION {SeenFrom[s][st.tokens[t].at][st.scenes[s].open] :
                          t \in {u \in standing : st.tokens[u].scene = s}}
    BY <1>3 DEF LitBy
  <2>2. s \in Scenes /\ st.scenes[s].open \in SUBSET Squares
    BY <1>1, <1>4 DEF HasScene, State, Scene
  <2>3. \A t \in standing : st.tokens[t].at \in Squares
    BY <1>2 DEF Token
  <2>4. \A t \in standing : SeenFrom[s][st.tokens[t].at][st.scenes[s].open] \subseteq Squares
    BY <2>2, <2>3, SeenFromType
  <2> HIDE DEF standing, lit
  <2> QED BY <2>1, <2>4
<1> HIDE DEF lit
<1>6. now = LookAt(st, eyes, lit)
  BY DEF Look, lit
<1>7. /\ now.eyes = eyes /\ now.squares = lit /\ now.tokens = Noticed(st, lit)
      /\ now.sees = eyes \cup {st.tokens[t].actor : t \in now.tokens}
      /\ now.actors = now.sees \cup Party(st)
  BY <1>6 DEF LookAt
<1> HIDE DEF now
<1>8. \A s : Lit(now, s) \subseteq Squares
  BY <1>5, <1>7 DEF Lit
<1>9. \A t \in now.tokens :
        /\ t \in Tokens /\ HasToken(st, t) /\ st.tokens[t].scene \in DOMAIN now.squares
        /\ st.tokens[t].at \in Lit(now, st.tokens[t].scene)
        /\ st.tokens[t].actor \in now.sees
  BY <1>7 DEF Noticed, Lit
<1>10. \A a \in Party(st) : a \in Actors /\ HasActor(st, a)
  BY DEF Party
<1>11. \A a \in now.actors : a \in Actors /\ HasActor(st, a)
  BY <1>2, <1>7, <1>9, <1>10 DEF Token
<1>12. \A a \in now.actors : st.actors[a] \in Actor
  BY <1>1, <1>11 DEF HasActor, State
<1>13. \A t \in now.tokens : st.tokens[t] \in Token
  BY <1>2, <1>9
<1> QED BY <1>4, <1>7, <1>8, <1>9, <1>11, <1>12, <1>13 DEF Looked, now

LEMMA EyesAreParty ==
  ASSUME NEW st, NEW h
  PROVE  Eyes(st, h) \in SUBSET Party(st)
BY DEF Eyes

-----------------------------------------------------------------------------

\* What a log may hold of an actor is an actor.
LEMMA FormsAreActors ==
  ASSUME NEW a \in Actor
  PROVE  /\ ShownAs(a) \in Actor /\ UnseenAs(a) \in Actor
         /\ ShownAs(a).ctl = a.ctl /\ UnseenAs(a).ctl = a.ctl
         /\ ShownAs(a).kind = a.kind /\ UnseenAs(a).kind = a.kind
<1>1. 0 \in Int32
  BY EngineAssumption DEF Int32
<1> QED BY <1>1 DEF ShownAs, UnseenAs, ShownWith, Actor

LEMMA IntroduceType ==
  ASSUME NEW st \in GoodStates, NEW id \in Actors, HasActor(st, id), NEW seen \in BOOLEAN
  PROVE  Introduce(id, st, seen) \in Seq(Known)
<1> DEFINE a == st.actors[id]
           held == IF seen THEN ShownAs(a) ELSE UnseenAs(a)
           added == [type |-> "ActorAdded", actor |-> id, is |-> [held EXCEPT !.ctl = {}]]
           applies == IF seen THEN Applies(id, st.conditions[id]) ELSE <<>>
<1>1. a \in Actor /\ st.conditions[id] \in SUBSET Conditions
  BY DEF GoodStates, State, HasActor
<1>2. held \in Actor
  BY <1>1, FormsAreActors
<1>3. a.ctl \in SUBSET People /\ a.kind \in Kinds
  BY <1>1 DEF Actor
<1>4. Introduce(id, st, seen) = <<added>> \o Grants(id, a.ctl, a.kind) \o applies
  BY DEF Introduce
<1> HIDE DEF a
<1>5. added \in Known
  <2> HIDE DEF held
  <2>1. [held EXCEPT !.ctl = {}] \in Actor
    BY <1>2 DEF Actor
  <2> QED BY <2>1 DEF Known, Events, Actor
<1> HIDE DEF added
<1>6. Grants(id, a.ctl, a.kind) \in Seq(Known)
  BY <1>3, GrantsType
<1>7. applies \in Seq(Known)
  BY <1>1, AppliesType, NoFrame
<1> HIDE DEF applies
<1>8. <<added>> \in Seq(Known)
  BY <1>5, OneFrame
<1> QED BY <1>4, <1>6, <1>7, <1>8, BothFrames

LEMMA ReintroduceType ==
  ASSUME NEW shown, NEW st \in GoodStates, NEW id \in Actors, HasActor(st, id), NEW seen \in BOOLEAN
  PROVE  /\ HideTokensOf(shown, id) \in Seq(Known)
         /\ <<Withdraw(id)>> \in Seq(Known)
         /\ Reintroduce(shown, st, id, seen) \in Seq(Known)
<1>1. HideTokensOf(shown, id) \in Seq(Known)
  BY HidesType DEF HideTokensOf
<1>2. Withdraw(id) \in Known
  BY DEF Withdraw, Known, Events
<1>3. <<Withdraw(id)>> \in Seq(Known)
  BY <1>2, OneFrame
<1>4. Introduce(id, st, seen) \in Seq(Known)
  BY IntroduceType
<1> QED BY <1>1, <1>3, <1>4, BothFrames DEF Reintroduce

LEMMA ResourceType ==
  ASSUME NEW id \in Actors, NEW was \in Int32, NEW cur \in Int32
  PROVE  ResourceFrames(id, was, cur) \in Seq(Known)
<1> DEFINE change(delta, to) ==
             [type |-> "ResourceChanged", actor |-> id, delta |-> delta, to |-> to]
           far == cur - was > MaxInt
           step == cur - (IF far THEN 0 ELSE was)
<1>1. Int32 \subseteq Int /\ 0 \in Int32
  BY EngineAssumption DEF Int32
<1>2. step \in Int
  BY <1>1
<1>3. change(0, 0) \in Known
  BY <1>1 DEF Known
<1>4. change(step, cur) \in Known
  <2> HIDE DEF step
  <2> QED BY <1>2 DEF Known
<1>5. ResourceFrames(id, was, cur) =
        IF cur = was THEN <<>> ELSE If(far, change(0, 0)) \o <<change(step, cur)>>
  BY DEF ResourceFrames
<1> HIDE DEF change, far, step
<1>6. If(far, change(0, 0)) \in Seq(Known) /\ <<change(step, cur)>> \in Seq(Known)
  BY <1>3, <1>4, IfType, OneFrame
<1> QED BY <1>5, <1>6, NoFrame, BothFrames

LEMMA ControlType ==
  ASSUME NEW id \in Actors, NEW held \in Actor, NEW a \in Actor, ~Uncorrectable(held, a)
  PROVE  ControlFrames(id, held, a) \in Seq(Known)
<1> DEFINE new == a.ctl \ held.ctl
           rides == a.kind # held.kind /\ new = {}
           kind == IF rides THEN <<Grant(id, CHOOSE p \in held.ctl : TRUE, a.kind)>> ELSE <<>>
<1>1. held.ctl \in SUBSET People /\ a.ctl \in SUBSET People /\ a.kind \in Kinds
  BY DEF Actor
<1>2. ASSUME rides PROVE (CHOOSE p \in held.ctl : TRUE) \in People
  <2>1. held.ctl # {}
    BY <1>2 DEF Uncorrectable
  <2> QED BY <1>1, <2>1
<1>3. kind \in Seq(Known)
  <2>1. CASE rides
    <3>1. Grant(id, CHOOSE p \in held.ctl : TRUE, a.kind) \in Known
      BY <1>1, <1>2, <2>1 DEF Grant, Known, Events
    <3> QED BY <2>1, <3>1, OneFrame
  <2>2. CASE ~rides
    BY <2>2, NoFrame
  <2> QED BY <2>1, <2>2
<1>4. ControlFrames(id, held, a) = Grants(id, new, a.kind) \o kind \o Revokes(id, held.ctl \ a.ctl)
  BY DEF ControlFrames
<1>5. Grants(id, new, a.kind) \in Seq(Known) /\ Revokes(id, held.ctl \ a.ctl) \in Seq(Known)
  BY <1>1, GrantsType, RevokesType
<1> HIDE DEF kind, new
<1> QED BY <1>3, <1>4, <1>5, BothFrames

LEMMA StatusType ==
  ASSUME NEW shown \in GoodStates, NEW st \in GoodStates, NEW id \in Actors,
         HasActor(shown, id), HasActor(st, id),
         ~Uncorrectable(shown.actors[id], ShownAs(st.actors[id]))
  PROVE  Status(shown, st, id) \in Seq(Known)
<1> DEFINE held == shown.actors[id]
           a == ShownAs(st.actors[id])
           believed == shown.conditions[id]
           present == st.conditions[id]
           resource == IF a.body = None THEN <<>> ELSE ResourceFrames(id, held.cur, a.cur)
<1>1. held \in Actor /\ st.actors[id] \in Actor /\ believed \in SUBSET Conditions
      /\ present \in SUBSET Conditions
  BY DEF GoodStates, State, HasActor
<1>2. a \in Actor
  BY <1>1, FormsAreActors
<1>3. held.cur \in Int32 /\ a.cur \in Int32
  BY <1>1, <1>2 DEF Actor
<1>4. resource \in Seq(Known)
  BY <1>3, ResourceType, NoFrame
<1>5. Status(shown, st, id) = resource \o Removes(id, believed \ present)
                                \o Applies(id, present \ believed) \o ControlFrames(id, held, a)
  BY DEF Status, StatusFrames
<1>6. ControlFrames(id, held, a) \in Seq(Known)
  BY <1>1, <1>2, ControlType
<1> HIDE DEF held, a, believed, present, resource
<1>7. Removes(id, believed \ present) \in Seq(Known) /\ Applies(id, present \ believed) \in Seq(Known)
  BY <1>1, RemovesType, AppliesType
<1> QED BY <1>4, <1>5, <1>6, <1>7, BothFrames

LEMMA ActorFramesType ==
  ASSUME NEW shown \in GoodStates, NEW st \in GoodStates, NEW eyes, NEW now,
         Looked(st, eyes, now), NEW sighted, NEW id \in now.actors
  PROVE  ActorFrames(shown, sighted, now, st, id) \in Seq(Known)
<1>1. id \in Actors /\ HasActor(st, id) /\ (id \in now.sees) \in BOOLEAN
  BY DEF Looked
<1>2. \A seen \in BOOLEAN : Reintroduce(shown, st, id, seen) \in Seq(Known)
                            /\ Introduce(id, st, seen) \in Seq(Known)
  BY <1>1, ReintroduceType, IntroduceType
<1>3. HasActor(shown, id) => Correct(shown, st, id) \in Seq(Known)
  BY <1>1, <1>2, StatusType DEF Correct
<1> QED BY <1>1, <1>2, <1>3, NoFrame DEF ActorFrames

LEMMA DoorFramesType ==
  ASSUME NEW shown, NEW cause, NEW st, NEW eyes, NEW now, Looked(st, eyes, now), NEW s \in Scenes
  PROVE  DoorFrames(shown, cause, now, st, s) \in Seq(Known)
<1> DEFINE open == st.scenes[s].open
           amiss == {sq \in Lit(now, s) : (sq \in open) # (sq \in Believed(shown, s))}
           S == {q \in amiss : ~IsDoorOf(cause, s, q)}
           F == [sq \in S |-> <<[type |-> IF sq \in open THEN "DoorOpened" ELSE "DoorClosed",
                                 scene |-> s, at |-> sq]>>]
<1>1. DoorFrames(shown, cause, now, st, s) = Each(F)
  BY DEF DoorFrames
<1>2. S \in SUBSET Squares
  BY DEF Looked
<1> HIDE DEF S, amiss
<1>3. ASSUME NEW sq \in S PROVE F[sq] \in Seq(Known)
  <2>1. [type |-> IF sq \in open THEN "DoorOpened" ELSE "DoorClosed", scene |-> s, at |-> sq]
          \in Known
    BY <1>2 DEF Known, Events, Position
  <2> QED BY <2>1, OneFrame
<1>4. F \in [S -> Seq(Known)]
  BY <1>3
<1> HIDE DEF F
<1> QED BY <1>1, <1>2, <1>4, Finite, EachType

LEMMA TransitionsType ==
  ASSUME NEW shown \in GoodStates, NEW st \in GoodStates, NEW eyes, NEW now,
         Looked(st, eyes, now), NEW sighted, NEW cause
  PROVE  /\ CreationFrames(shown, now) \in Seq(Known)
         /\ Each([s \in DOMAIN now.squares |-> DoorFrames(shown, cause, now, st, s)]) \in Seq(Known)
         /\ Each([a \in now.actors |-> ActorFrames(shown, sighted, now, st, a)]) \in Seq(Known)
         /\ Hides(Unplaced(shown, sighted, now, st)) \in Seq(Known)
         /\ TokenFrames(shown, sighted, now, st) \in Seq(Known)
         /\ SceneFrames(shown, now) \in Seq(Known)
         /\ NoteFrames(shown, st) \in Seq(Known)
         /\ Transitions(shown, sighted, cause, now, st) \in Seq(Known)
<1>1. CreationFrames(shown, now) \in Seq(Known)
  <2> DEFINE S == DOMAIN now.squares \ HeldScenes(shown)
             F == [s \in S |-> <<[type |-> "SceneCreated", scene |-> s]>>]
  <2>1. S \in SUBSET Scenes
    BY DEF Looked
  <2>2. CreationFrames(shown, now) = Each(F)
    BY DEF CreationFrames
  <2> HIDE DEF S
  <2>3. ASSUME NEW s \in S PROVE F[s] \in Seq(Known)
    <3>1. [type |-> "SceneCreated", scene |-> s] \in Known
      BY <2>1 DEF Known, Events
    <3> QED BY <3>1, OneFrame
  <2>4. F \in [S -> Seq(Known)]
    BY <2>3
  <2> HIDE DEF F
  <2> QED BY <2>1, <2>2, <2>4, Finite, EachType
<1>2. Each([s \in DOMAIN now.squares |-> DoorFrames(shown, cause, now, st, s)]) \in Seq(Known)
  <2> DEFINE F == [s \in DOMAIN now.squares |-> DoorFrames(shown, cause, now, st, s)]
  <2>1. DOMAIN now.squares \in SUBSET Scenes
    BY DEF Looked
  <2>2. F \in [DOMAIN now.squares -> Seq(Known)]
    BY <2>1, DoorFramesType
  <2> HIDE DEF F
  <2>3. Each(F) \in Seq(Known)
    BY <2>1, <2>2, Finite, EachType
  <2> QED BY <2>3 DEF F
<1>3. Each([a \in now.actors |-> ActorFrames(shown, sighted, now, st, a)]) \in Seq(Known)
  <2> DEFINE F == [a \in now.actors |-> ActorFrames(shown, sighted, now, st, a)]
  <2>1. now.actors \in SUBSET Actors
    BY DEF Looked
  <2>2. F \in [now.actors -> Seq(Known)]
    BY ActorFramesType
  <2> HIDE DEF F
  <2>3. Each(F) \in Seq(Known)
    BY <2>1, <2>2, Finite, EachType
  <2> QED BY <2>3 DEF F
<1>4. Hides(Unplaced(shown, sighted, now, st)) \in Seq(Known)
  <2>1. Unplaced(shown, sighted, now, st) \in SUBSET Tokens
    BY DEF Unplaced, HeldTokens
  <2> QED BY <2>1, HidesType
<1>5. TokenFrames(shown, sighted, now, st) \in Seq(Known)
  <2> DEFINE S == Placed(shown, sighted, now, st)
             F == [t \in S |-> <<TokenFrame(st, t)>>]
  <2>1. S \in SUBSET Tokens /\ S \subseteq now.tokens
    BY DEF Placed, Looked
  <2>2. TokenFrames(shown, sighted, now, st) = Each(F)
    BY DEF TokenFrames
  <2> HIDE DEF S
  <2>3. ASSUME NEW t \in S PROVE F[t] \in Seq(Known)
    <3>1. st.tokens[t] \in Token
      BY <2>1 DEF Looked
    <3>2. TokenFrame(st, t) \in Known
      BY <2>1, <3>1 DEF TokenFrame, Token, Known, Events, Position
    <3> QED BY <3>2, OneFrame
  <2>4. F \in [S -> Seq(Known)]
    BY <2>3
  <2> HIDE DEF F
  <2> QED BY <2>1, <2>2, <2>4, Finite, EachType
<1>6. SceneFrames(shown, now) \in Seq(Known)
  <2> DEFINE S == {r \in HeldScenes(shown) \cup DOMAIN now.squares : Shown(shown, r) # Lit(now, r)}
             F == [s \in S |-> <<SceneFrame(now, s)>>]
  <2>1. S \in SUBSET Scenes
    BY DEF Looked, HeldScenes
  <2>2. SceneFrames(shown, now) = Each(F)
    BY DEF SceneFrames
  <2> HIDE DEF S
  <2>3. ASSUME NEW s \in S PROVE F[s] \in Seq(Known)
    <3>1. Lit(now, s) \subseteq Squares
      BY DEF Looked
    <3>2. SceneFrame(now, s) \in Known
      BY <2>1, <3>1 DEF SceneFrame, Known, Events
    <3> QED BY <3>2, OneFrame
  <2>4. F \in [S -> Seq(Known)]
    BY <2>3
  <2> HIDE DEF F
  <2> QED BY <2>1, <2>2, <2>4, Finite, EachType
<1>7. NoteFrames(shown, st) \in Seq(Known)
  <2> DEFINE S == {n \in NoteKeys : shown.notes[n] # None /\ st.notes[n] # "public"}
             F == [k \in S |-> <<[type |-> "NoteDeleted", key |-> k]>>]
  <2>1. S \in SUBSET NoteKeys
    OBVIOUS
  <2>2. NoteFrames(shown, st) = Each(F)
    BY DEF NoteFrames
  <2> HIDE DEF S
  <2>3. ASSUME NEW k \in S PROVE F[k] \in Seq(Known)
    <3>1. [type |-> "NoteDeleted", key |-> k] \in Known
      BY <2>1 DEF Known, Events
    <3> QED BY <3>1, OneFrame
  <2>4. F \in [S -> Seq(Known)]
    BY <2>3
  <2> HIDE DEF F
  <2> QED BY <2>1, <2>2, <2>4, Finite, EachType
<1> QED BY <1>1, <1>2, <1>3, <1>4, <1>5, <1>6, <1>7, BothFrames DEF Transitions

LEMMA EventType ==
  ASSUME NEW shown \in GoodStates, NEW st \in GoodStates, NEW eyes, NEW now,
         Looked(st, eyes, now), NEW sighted, NEW e \in Events, e.type # "Unknown"
  PROVE  /\ If(Forwards(shown, sighted, e, now, st), Forwardable(e, now)) \in Seq(Known)
         /\ Event(shown, sighted, e, now, st) \in Seq(Known)
<1>1. Forwardable(e, now) \in Known
  <2>1. CASE e.type = "WhisperAdded"
    <3>1. e.from \in Actors \cup {None} /\ e.to \in SUBSET Actors
          /\ e = [type |-> "WhisperAdded", from |-> e.from, to |-> e.to]
      BY <2>1 DEF Events
    <3>2. [e EXCEPT !.to = @ \cap now.eyes]
            = [type |-> "WhisperAdded", from |-> e.from, to |-> e.to \cap now.eyes]
      BY <3>1
    <3> QED BY <2>1, <3>1, <3>2 DEF Forwardable, Known, Events
  <2>2. CASE e.type # "WhisperAdded"
    BY <2>2 DEF Forwardable, Known
  <2> QED BY <2>1, <2>2
<1>2. If(Forwards(shown, sighted, e, now, st), Forwardable(e, now)) \in Seq(Known)
  BY <1>1, IfType
<1> QED BY <1>2, TransitionsType, BothFrames DEF Event

LEMMA NotesOfType ==
  ASSUME NEW st
  PROVE  NotesOf(st) \in Seq(Known)
<1> DEFINE S == {n \in NoteKeys : st.notes[n] = "public"}
           F == [k \in S |-> <<[type |-> "NoteUpserted", key |-> k, visibility |-> "public"]>>]
<1>1. S \in SUBSET NoteKeys
  OBVIOUS
<1>2. NotesOf(st) = Each(F)
  BY DEF NotesOf
<1> HIDE DEF S
<1>3. ASSUME NEW k \in S PROVE F[k] \in Seq(Known)
  <2>1. [type |-> "NoteUpserted", key |-> k, visibility |-> "public"] \in Known
    BY <1>1 DEF Known, Events, Visibilities
  <2> QED BY <2>1, OneFrame
<1>4. F \in [S -> Seq(Known)]
  BY <1>3
<1> HIDE DEF F
<1> QED BY <1>1, <1>2, <1>4, Finite, EachType

LEMMA NewStateIsGood == NewState \in GoodStates
BY DEF GoodStates, State, NewState, Sound, TokensHaveActors, TokensHaveScenes,
       ConditionsHaveActors, HasToken

LEMMA OpenedSession ==
  ASSUME NEW st \in GoodStates, st.session # None
  PROVE  [type |-> "SessionStarted", id |-> st.session] \in Known
BY DEF GoodStates, State, Known, Events

LEMMA NoEyesLook ==
  ASSUME NEW st \in GoodStates
  PROVE  Looked(st, {}, Look(st, {}))
BY LookIsOfTheState

LEMMA OpeningType ==
  ASSUME NEW st \in GoodStates
  PROVE  /\ If(st.session # None, [type |-> "SessionStarted", id |-> st.session]) \in Seq(Known)
         /\ Perch(NewState, st, {}) \in Seq(Known)
         /\ Opening(st) \in Seq(Known)
<1>1. If(st.session # None, [type |-> "SessionStarted", id |-> st.session]) \in Seq(Known)
  BY OpenedSession, IfType
<1>2. Perch(NewState, st, {}) \in Seq(Known)
  BY NewStateIsGood, NoEyesLook, TransitionsType DEF Perch
<1>3. NotesOf(st) \in Seq(Known)
  BY NotesOfType
<1> QED BY <1>1, <1>2, <1>3, BothFrames DEF Opening

LEMMA ResumeType ==
  ASSUME NEW fold, NEW st \in GoodStates
  PROVE  /\ If(fold.session # st.session /\ fold.session # None, [type |-> "SessionEnded"])
              \in Seq(Known)
         /\ If(fold.session # st.session /\ st.session # None,
               [type |-> "SessionStarted", id |-> st.session]) \in Seq(Known)
         /\ Hides(HeldTokens(fold)) \in Seq(Known)
         /\ ResumeLead(fold, st) \in Seq(Known)
<1>1. [type |-> "SessionEnded"] \in Known
  BY DEF Known, Events
<1>2. If(fold.session # st.session /\ fold.session # None, [type |-> "SessionEnded"])
        \in Seq(Known)
  BY <1>1, IfType
<1>3. If(fold.session # st.session /\ st.session # None,
         [type |-> "SessionStarted", id |-> st.session]) \in Seq(Known)
  BY OpenedSession, IfType
<1>4. HeldTokens(fold) \in SUBSET Tokens
  BY DEF HeldTokens
<1>5. Hides(HeldTokens(fold)) \in Seq(Known)
  BY <1>4, HidesType
<1> QED BY <1>2, <1>3, <1>5, BothFrames DEF ResumeLead

-----------------------------------------------------------------------------
(* The logs and the browsers they are sent to.                             *)

\* A log of the engine's states and the board that is sent it.
LogAgrees(log, board) ==
  IF log = None THEN board = EmptySession
  ELSE /\ log \in CharacterLog /\ log.fold \in GoodStates
       /\ ~log.written => log.fold = NewState
       /\ board = [derived |-> log.fold, failed |-> FALSE]

LEMMA LogIsSome ==
  ASSUME NEW log \in CharacterLog
  PROVE  log # None
BY PerceiveAssumption

LEMMA StateIsSome ==
  ASSUME NEW st \in GoodStates
  PROVE  st # None
BY EngineAssumption DEF GoodStates

LEMMA LookType ==
  ASSUME NEW st \in GoodStates, NEW h
  PROVE  /\ Looked(st, Eyes(st, h), Look(st, Eyes(st, h)))
         /\ Sees(st, h) \in SUBSET Actors
<1>1. Looked(st, Eyes(st, h), Look(st, Eyes(st, h)))
  BY LookIsOfTheState, EyesAreParty
<1>2. Sees(st, h) \in SUBSET Actors
  BY <1>1 DEF Looked, Sees
<1> QED BY <1>1, <1>2

LEMMA ResumesType ==
  ASSUME NEW st \in GoodStates, NEW h, NEW shown
  PROVE  Resumes(h, shown, st) \in SUBSET Actors
BY LookType DEF Resumes, SeenAgain

LEMMA LeadType ==
  ASSUME NEW log, NEW before \in GoodStates
  PROVE  Lead(log, before) \in Seq(Known)
BY OpeningType, ResumeType, NoFrame DEF Lead

\* What a log comes to, its board comes to.
LEMMA ComesTo ==
  ASSUME NEW fold \in GoodStates, NEW sighted \in (SUBSET Actors) \cup {Paused},
         NEW written \in BOOLEAN, ~written => fold = NewState
  PROVE  LogAgrees([fold |-> fold, sighted |-> sighted, written |-> written],
                   [derived |-> fold, failed |-> FALSE])
<1> DEFINE log == [fold |-> fold, sighted |-> sighted, written |-> written]
<1>1. log \in CharacterLog
  BY DEF CharacterLog, GoodStates
<1>2. log # None
  BY <1>1, LogIsSome
<1> QED BY <1>1, <1>2 DEF LogAgrees

LEMMA BroughtAgrees ==
  ASSUME NEW h, NEW before \in GoodStates, NEW st \in GoodStates,
         NEW held \in CharacterLog, held.fold \in GoodStates,
         ~held.written => held.fold = NewState,
         NEW lead \in Seq(Known), NEW e \in Events, e.type # "Unknown"
  PROVE  LET told == Opened(h, held, lead, e, st)
         IN  LogAgrees(told.log, Ingested([derived |-> held.fold, failed |-> FALSE], told.sent))
<1> DEFINE board == [derived |-> held.fold, failed |-> FALSE]
           fold == Folded(held.fold, lead)
           told == Opened(h, held, lead, e, st)
<1> SUFFICES LogAgrees(told.log, Ingested(board, told.sent))
  OBVIOUS
<1>0. held = [fold |-> held.fold, sighted |-> held.sighted, written |-> held.written]
      /\ held.sighted \in (SUBSET Actors) \cup {Paused} /\ held.written \in BOOLEAN
  BY DEF CharacterLog
<1>1. fold \in GoodStates \cup {None}
      /\ (fold # None => Ingested(board, lead) = [derived |-> fold, failed |-> FALSE])
  BY FoldsAgree
<1>2. told = Brought(h, held, lead, fold, e, st)
  BY DEF Opened
<1>3. CASE fold = None
  <2>1. told = Outcome(IF held.written THEN [held EXCEPT !.sighted = Paused] ELSE None,
                       <<>>, TRUE)
    BY <1>2, <1>3 DEF Brought
  <2>2. Ingested(board, <<>>) = board
    BY FoldedEmpty
  <2>3. told.log = (IF held.written THEN [held EXCEPT !.sighted = Paused] ELSE None)
        /\ told.sent = <<>>
    BY <2>1 DEF Outcome
  <2>4. CASE held.written
    <3>1. told.log = [fold |-> held.fold, sighted |-> Paused, written |-> held.written]
      BY <1>0, <2>3, <2>4
    <3> QED BY <1>0, <2>2, <2>3, <3>1, ComesTo
  <2>5. CASE ~held.written
    BY <2>2, <2>3, <2>5 DEF LogAgrees, EmptySession
  <2> QED BY <1>0, <2>4, <2>5
<1>4. CASE fold # None
  <2> DEFINE sighted == IF held.sighted = Paused THEN {} ELSE held.sighted
             written == held.written \/ lead # <<>>
             led == [fold |-> fold, sighted |-> sighted, written |-> written]
             frames == Event(fold, sighted, e, Look(st, Eyes(st, h)), st)
             next == Folded(fold, frames)
  <2>1. fold \in GoodStates
    BY <1>1, <1>4
  <2>2. sighted \in SUBSET Actors /\ written \in BOOLEAN
    BY <1>0
  <2>3. ~written => fold = NewState
    BY FoldedEmpty
  <2>4. told = Tried(h, led, lead, frames, next, st)
    BY <1>2, <1>4 DEF Brought, Decided
  <2>5. frames \in Seq(Known)
    BY <2>1, LookType, EventType
  <2> HIDE DEF frames, fold, told, board
  <2>6. next \in GoodStates \cup {None}
        /\ (next # None => Ingested([derived |-> fold, failed |-> FALSE], frames)
                             = [derived |-> next, failed |-> FALSE])
    BY <2>1, <2>5, FoldsAgree
  <2> HIDE DEF next
  <2>7. CASE next = None
    <3>1. told = Outcome(Drop(h, led, st), lead, TRUE)
      BY <2>4, <2>7 DEF Tried
    <3>2. told.log = [fold |-> fold, sighted |-> Resumes(h, fold, st), written |-> written]
          /\ told.sent = lead
      BY <3>1 DEF Outcome, Drop
    <3>3. Resumes(h, fold, st) \in SUBSET Actors
      BY ResumesType
    <3> HIDE DEF written
    <3>4. LogAgrees([fold |-> fold, sighted |-> Resumes(h, fold, st), written |-> written],
                    [derived |-> fold, failed |-> FALSE])
      <4>1. Resumes(h, fold, st) \in (SUBSET Actors) \cup {Paused}
        BY <3>3
      <4> QED BY <2>1, <2>2, <2>3, <4>1, ComesTo, Zenon
    <3> QED BY <1>1, <1>4, <3>2, <3>4
  <2>8. CASE next # None
    <3>1. told = Outcome([fold |-> next, sighted |-> Sees(st, h),
                          written |-> written \/ frames # <<>>], lead \o frames, FALSE)
      BY <2>4, <2>8 DEF Tried
    <3>2. told.log = [fold |-> next, sighted |-> Sees(st, h),
                      written |-> written \/ frames # <<>>]
          /\ told.sent = lead \o frames
      BY <3>1 DEF Outcome
    <3>3. Ingested(board, lead \o frames) = [derived |-> next, failed |-> FALSE]
      <4>1. Ingested(board, lead \o frames) = Ingested(Ingested(board, lead), frames)
        BY <2>5, IngestedBoth
      <4> QED BY <1>1, <1>4, <2>6, <2>8, <4>1
    <3>4. ~(written \/ frames # <<>>) => next = NewState
      BY <2>3, FoldedEmpty DEF next
    <3>5. next \in GoodStates /\ Sees(st, h) \in SUBSET Actors
      BY <2>6, <2>8, LookType
    <3> HIDE DEF written
    <3>6. (written \/ frames # <<>>) \in BOOLEAN
      BY <2>2
    <3>7. LogAgrees([fold |-> next, sighted |-> Sees(st, h), written |-> written \/ frames # <<>>],
                    [derived |-> next, failed |-> FALSE])
      <4>1. Sees(st, h) \in (SUBSET Actors) \cup {Paused}
        BY <3>5
      <4> QED BY <3>4, <3>5, <3>6, <4>1, ComesTo, Zenon
    <3> QED BY <3>2, <3>3, <3>7
  <2> QED BY <2>7, <2>8
<1> QED BY <1>3, <1>4

LEMMA FanOutAgrees ==
  ASSUME NEW h, NEW before \in GoodStates, NEW st \in GoodStates, NEW log, NEW board,
         LogAgrees(log, board), NEW e \in Events, e.type # "Unknown"
  PROVE  LogAgrees(FanOut(h, log, e, before, st).log,
                   Ingested(board, FanOut(h, log, e, before, st).sent))
<1> DEFINE told == FanOut(h, log, e, before, st)
<1> SUFFICES LogAgrees(told.log, Ingested(board, told.sent))
  OBVIOUS
<1>1. CASE h \in Party(st)
  <2> DEFINE held == IF log = None THEN Unopened ELSE log
             lead == Lead(log, before)
  <2>1. told = Opened(h, held, lead, e, st)
    BY <1>1 DEF FanOut
  <2>2. Unopened \in CharacterLog /\ Unopened.fold = NewState
    BY NewStateIsGood DEF Unopened, CharacterLog, GoodStates
  <2>3. /\ held \in CharacterLog /\ held.fold \in GoodStates
        /\ ~held.written => held.fold = NewState
        /\ board = [derived |-> held.fold, failed |-> FALSE]
    <3>1. CASE log = None
      <4>1. held = Unopened /\ board = EmptySession
        BY <3>1 DEF LogAgrees
      <4> QED BY <2>2, <4>1, NewStateIsGood DEF EmptySession
    <3>2. CASE log # None
      BY <3>2 DEF LogAgrees
    <3> QED BY <3>1, <3>2
  <2>4. lead \in Seq(Known)
    BY LeadType
  <2> HIDE DEF held, lead, told
  <2> QED BY <2>1, <2>3, <2>4, BroughtAgrees
<1>2. CASE h \notin Party(st)
  <2>1. told.log = (IF log = None THEN None ELSE [log EXCEPT !.sighted = Paused])
        /\ told.sent = <<>>
    BY <1>2 DEF FanOut, Outcome
  <2>2. Ingested(board, <<>>) = board
    BY FoldedEmpty
  <2>3. CASE log = None
    BY <2>1, <2>2, <2>3
  <2>4. CASE log # None
    <3>1. log \in CharacterLog /\ log.fold \in GoodStates
          /\ (~log.written => log.fold = NewState)
          /\ board = [derived |-> log.fold, failed |-> FALSE]
      BY <2>4 DEF LogAgrees
    <3>2. told.log = [fold |-> log.fold, sighted |-> Paused, written |-> log.written]
          /\ log.written \in BOOLEAN
      BY <2>1, <2>4, <3>1 DEF CharacterLog
    <3> QED BY <2>1, <2>2, <3>1, <3>2, ComesTo
  <2> QED BY <2>3, <2>4
<1> QED BY <1>1, <1>2

\* Taken up again, from the fold it has.
LEMMA ResightedAgrees ==
  ASSUME NEW log, NEW board, LogAgrees(log, board), log # None,
         NEW sighted \in (SUBSET Actors) \cup {Paused}
  PROVE  LogAgrees([log EXCEPT !.sighted = sighted], board)
<1>1. log \in CharacterLog /\ log.fold \in GoodStates
      /\ (~log.written => log.fold = NewState)
      /\ board = [derived |-> log.fold, failed |-> FALSE]
  BY DEF LogAgrees
<1>2. [log EXCEPT !.sighted = sighted]
        = [fold |-> log.fold, sighted |-> sighted, written |-> log.written]
      /\ log.written \in BOOLEAN
  BY <1>1 DEF CharacterLog
<1> QED BY <1>1, <1>2, ComesTo

-----------------------------------------------------------------------------
(* The world, its logs and the browsers.                                   *)

IInv == /\ world \in GoodStates
        /\ MasterAgrees
        /\ alphabet \in Alphabets
        /\ logs = [h \in Heroes |-> logs[h]] /\ boards = [h \in Heroes |-> boards[h]]
        /\ \A h \in Heroes : LogAgrees(logs[h], boards[h])
        /\ discarded \in BOOLEAN
        /\ famous \subseteq Names \cup {None}
        /\ met \in [Heroes -> SUBSET (Names \cup {None})]

LEMMA PrologueFolds ==
  /\ Folded(NewState, Prologue) \in GoodStates
  /\ Ingested(EmptySession, Prologue) = [derived |-> Folded(NewState, Prologue), failed |-> FALSE]
<1>1. Prologue \in Seq(Known)
  <2>1. Recorded \subseteq Known
    BY DEF Recorded, Known
  <2> QED BY <2>1, PrologueAssumption
<1> QED BY <1>1, PrologueAssumption, NewStateIsGood, FoldsAgree DEF EmptySession

LEMMA NamesAreNames ==
  ASSUME NEW st \in GoodStates, NEW S
  PROVE  NamesOf(st, S) \subseteq Names \cup {None}
<1>1. \A a \in S \cap Party(st) : st.actors[a] \in Actor
  BY DEF Party, HasActor, GoodStates, State
<1> QED BY <1>1 DEF NamesOf, Actor

LEMMA InitIInv == Init => IInv
<1> SUFFICES ASSUME Init PROVE IInv
  OBVIOUS
<1>1. world \in GoodStates
  BY PrologueFolds DEF Init
<1>2. MasterAgrees
  BY PrologueFolds DEF Init, MasterAgrees
<1>3. \A h \in Heroes : LogAgrees(logs[h], boards[h])
  BY DEF Init, LogAgrees
<1>4. famous \subseteq Names \cup {None}
  BY <1>1, NamesAreNames DEF Init
<1>5. alphabet \in Alphabets /\ discarded \in BOOLEAN
      /\ met \in [Heroes -> SUBSET (Names \cup {None})]
      /\ logs = [h \in Heroes |-> logs[h]] /\ boards = [h \in Heroes |-> boards[h]]
  BY DEF Init
<1> QED BY <1>1, <1>2, <1>3, <1>4, <1>5 DEF IInv

LEMMA MadeIsKnown ==
  ASSUME alphabet \in Alphabets, NEW e \in alphabet
  PROVE  e \in Made /\ e \in Events /\ e.type # "Unknown" /\ e \in Known
<1>1. e \in Made
  BY PerceiveAssumption
<1> QED BY <1>1 DEF Made, Recorded, Known

LEMMA AppendKeepsIInv ==
  ASSUME IInv, NEW e \in alphabet, AppendOne(e)
  PROVE  IInv'
<1>1. e \in Events /\ e.type # "Unknown" /\ e \in Known
  BY MadeIsKnown DEF IInv
<1>2. Accepts(world, e) /\ world' = After(world, e) /\ master' = Ingest(master, e)
      /\ alphabet' = alphabet
  BY DEF AppendOne
<1>3. ~Throws(world, e) /\ Becomes(world, e) = After(world, e) /\ world' \in GoodStates
  BY <1>1, <1>2, StepsAgree DEF IInv
<1>4. MasterAgrees'
  <2>1. Ingest([derived |-> world, failed |-> FALSE], e)
          = [derived |-> After(world, e), failed |-> FALSE]
    BY <1>3, IngestsOne
  <2>2. master = [derived |-> world, failed |-> FALSE]
    BY DEF IInv, MasterAgrees
  <2>3. master' = [derived |-> world', failed |-> FALSE]
    BY <1>2, <2>1, <2>2
  <2> QED BY <2>3 DEF MasterAgrees
<1> DEFINE told(h) == FanOut(h, logs[h], e, world, world')
<1>5. /\ logs' = [h \in Heroes |-> told(h).log]
      /\ discarded' = (discarded \/ \E h \in Heroes : told(h).dropped)
      /\ boards' = [h \in Heroes |-> Ingested(boards[h], told(h).sent)]
  BY DEF AppendOne
<1>6. ASSUME NEW h \in Heroes PROVE LogAgrees(logs'[h], boards'[h])
  <2>1. LogAgrees(told(h).log, Ingested(boards[h], told(h).sent))
    <3>1. LogAgrees(logs[h], boards[h]) /\ world \in GoodStates
      BY DEF IInv
    <3> QED BY <1>1, <1>3, <3>1, FanOutAgrees
  <2> HIDE DEF told
  <2> QED BY <1>5, <2>1
<1> HIDE DEF told
<1>7. logs' = [h \in Heroes |-> logs'[h]] /\ boards' = [h \in Heroes |-> boards'[h]]
  BY <1>5
<1>8. discarded' \in BOOLEAN
  BY <1>5
<1>9. famous' \subseteq Names \cup {None} /\ met' \in [Heroes -> SUBSET (Names \cup {None})]
  <2>1. /\ famous' = famous \cup NamesOf(world', Actors)
        /\ met' = [h \in Heroes |-> met[h] \cup NamesOf(world', Sees(world', h))]
    BY DEF AppendOne
  <2>2. \A h : NamesOf(world', Sees(world', h)) \subseteq Names \cup {None}
    BY <1>3, NamesAreNames
  <2>3. NamesOf(world', Actors) \subseteq Names \cup {None}
    BY <1>3, NamesAreNames
  <2> QED BY <2>1, <2>2, <2>3 DEF IInv
<1> QED BY <1>2, <1>3, <1>4, <1>6, <1>7, <1>8, <1>9 DEF IInv

LEMMA RestartKeepsIInv == IInv /\ RestartDecisions => IInv'
<1> SUFFICES ASSUME IInv, RestartDecisions PROVE IInv'
  OBVIOUS
<1>1. UNCHANGED <<world, discarded, master, boards, alphabet, famous, met>>
  BY DEF RestartDecisions
<1>2. logs' = [h \in Heroes |->
                IF logs[h] = None \/ logs[h].sighted = Paused THEN logs[h]
                ELSE [logs[h] EXCEPT !.sighted = Resumes(h, logs[h].fold, world)]]
  BY DEF RestartDecisions
<1>3. ASSUME NEW h \in Heroes PROVE LogAgrees(logs'[h], boards[h])
  <2>1. LogAgrees(logs[h], boards[h]) /\ world \in GoodStates
    BY DEF IInv
  <2>2. Resumes(h, logs[h].fold, world) \in (SUBSET Actors) \cup {Paused}
    BY <2>1, ResumesType
  <2>3. logs[h] # None =>
          LogAgrees([logs[h] EXCEPT !.sighted = Resumes(h, logs[h].fold, world)], boards[h])
    BY <2>1, <2>2, ResightedAgrees
  <2> QED BY <1>2, <2>1, <2>3
<1>4. logs' = [h \in Heroes |-> logs'[h]]
  BY <1>2
<1> QED BY <1>1, <1>3, <1>4 DEF IInv, MasterAgrees

LEMMA ReopenKeepsIInv == IInv /\ Reopen => IInv'
<1> SUFFICES ASSUME IInv, Reopen PROVE IInv'
  OBVIOUS
<1>1. UNCHANGED <<world, master, boards, alphabet, famous, met>> /\ discarded' = FALSE
  BY DEF Reopen
<1>2. logs' = [h \in Heroes |-> Load(h, logs[h])]
  BY DEF Reopen
<1>3. ASSUME NEW h \in Heroes PROVE LogAgrees(logs'[h], boards[h])
  <2> DEFINE sighted == IF h \in Party(world) THEN Resumes(h, logs[h].fold, world) ELSE Paused
  <2>1. LogAgrees(logs[h], boards[h]) /\ world \in GoodStates
    BY DEF IInv
  <2>2. sighted \in (SUBSET Actors) \cup {Paused}
    BY <2>1, ResumesType
  <2>3. CASE logs[h] = None \/ ~logs[h].written
    <3>1. logs'[h] = None
      BY <1>2, <2>3 DEF Load
    <3>2. boards[h] = EmptySession
      BY <2>1, <2>3 DEF LogAgrees, EmptySession
    <3> QED BY <3>1, <3>2 DEF LogAgrees
  <2>4. CASE ~(logs[h] = None \/ ~logs[h].written)
    <3>1. logs'[h] = [logs[h] EXCEPT !.sighted = sighted]
      BY <1>2, <2>4 DEF Load
    <3> HIDE DEF sighted
    <3> QED BY <2>1, <2>2, <2>4, <3>1, ResightedAgrees
  <2> QED BY <2>3, <2>4
<1>4. logs' = [h \in Heroes |-> logs'[h]]
  BY <1>2
<1> QED BY <1>1, <1>3, <1>4 DEF IInv, MasterAgrees

LEMMA NextIInv == IInv /\ [Next]_vars => IInv'
<1> SUFFICES ASSUME IInv, [Next]_vars PROVE IInv'
  OBVIOUS
<1>1. CASE \E e \in alphabet : AppendOne(e)
  BY <1>1, AppendKeepsIInv
<1>2. CASE RestartDecisions
  BY <1>2, RestartKeepsIInv
<1>3. CASE Reopen
  BY <1>3, ReopenKeepsIInv
<1>4. CASE UNCHANGED vars
  BY <1>4 DEF vars, IInv, MasterAgrees
<1> QED BY <1>1, <1>2, <1>3, <1>4 DEF Next

THEOREM IInvHolds == Spec => []IInv
  BY InitIInv, NextIInv, PTL DEF Spec

THEOREM TypeCorrect == Spec => []TypeOK
<1>1. IInv => TypeOK
  <2> SUFFICES ASSUME IInv PROVE TypeOK
    OBVIOUS
  <2>1. ASSUME NEW h \in Heroes PROVE logs[h] \in CharacterLog \cup {None} /\ boards[h] \in Session
    <3>1. LogAgrees(logs[h], boards[h])
      BY DEF IInv
    <3>2. CASE logs[h] = None
      <4>1. boards[h] = EmptySession
        BY <3>1, <3>2 DEF LogAgrees
      <4> QED BY <3>2, <4>1, NewStateIsGood DEF EmptySession, Session, GoodStates
    <3>3. CASE logs[h] # None
      <4>1. logs[h] \in CharacterLog /\ boards[h] = [derived |-> logs[h].fold, failed |-> FALSE]
            /\ logs[h].fold \in State
        BY <3>1, <3>3 DEF LogAgrees, GoodStates
      <4> QED BY <4>1 DEF Session
    <3> QED BY <3>2, <3>3
  <2>2. master \in Session
    BY DEF IInv, MasterAgrees, Session, GoodStates
  <2> QED BY <2>1, <2>2 DEF IInv, TypeOK, GoodStates
<1> QED BY <1>1, IInvHolds, PTL

\* Whatever is appended, failed and reopened, no token stands without its
\* actor and scene and no condition outlives its actor.
THEOREM WorldStaysSound == Spec => []WorldIsSound
<1>1. IInv => WorldIsSound
  BY DEF IInv, GoodStates, WorldIsSound
<1> QED BY <1>1, IInvHolds, PTL

\* Whatever is appended, a DM's browser folds to the world and never fails.
THEOREM MasterAlwaysAgrees == Spec => []MasterAgrees
<1>1. IInv => MasterAgrees
  BY DEF IInv
<1> QED BY <1>1, IInvHolds, PTL

\* Whatever frames the projection makes for a character, dropped or written, its
\* browser throws on none and comes to the state its log folds to.
THEOREM BrowsersAlwaysAgree == Spec => []BrowsersAgree
<1>1. IInv => BrowsersAgree
  BY DEF IInv, BrowsersAgree, LogAgrees, EmptySession
<1> QED BY <1>1, IInvHolds, PTL

\* The slab test is exact, nothing is seen through a wall from edge to edge, and
\* opening doors hides nothing, on the board of the runs and in the world's scenes,
\* for any precision and terrain (sight.go).
THEOREM SightIsAlwaysRight == Spec => []SightIsRight
<1>1. IInv => SightIsRight
  <2> SUFFICES ASSUME IInv PROVE SightIsRight
    OBVIOUS
  <2>1. ASSUME NEW s \in Scenes, HasScene(world, s), NEW at \in Squares, NEW door \in Squares
        PROVE  SeenFrom[s][at][world.scenes[s].open] \subseteq
                 SeenFrom[s][at][world.scenes[s].open \cup {door}]
    <3>1. world \in State
      BY DEF IInv, GoodStates
    <3>2. world.scenes[s] \in Scene
      BY <2>1, <3>1 DEF State, HasScene
    <3>3. world.scenes[s].open \in SUBSET Squares
      BY <3>2 DEF Scene
    <3> QED BY <3>3, OpenDoorsHideNothing
  <2> QED BY <2>1, SlabTestIsRight, NoWayThroughAWall, OpeningReveals DEF SightIsRight
<1> QED BY <1>1, IInvHolds, PTL

-----------------------------------------------------------------------------
(* What sets of frames make of a log's fold.                               *)

\* One frame for each element, where each takes the fold a step further.
LEMMA EachSteps ==
  ASSUME NEW S, IsFiniteSet(S), NEW E, NEW G,
         \A D \in SUBSET S : G[D] \in State,
         \A D \in SUBSET S : \A x \in S \ D :
           Accepts(G[D], E[x]) /\ After(G[D], E[x]) = G[D \cup {x}]
  PROVE  Folded(G[{}], Each([x \in S |-> <<E[x]>>])) = G[S]
<1> DEFINE F == [x \in S |-> <<E[x]>>]
           X == {E[x] : x \in S}
<1>1. ASSUME NEW D \in SUBSET S, NEW x \in S \ D
      PROVE  Folded(G[D], F[x]) = G[D \cup {x}]
  BY Steps
<1>2. F \in [S -> Seq(X)]
  OBVIOUS
<1> HIDE DEF F, X
<1>3. \A D \in SUBSET S : \A x \in S \ D : Folded(G[D], F[x]) = G[D \cup {x}]
  BY <1>1
<1>4. Folded(G[{}], Each(F)) = G[S]
  BY <1>2, <1>3, EachFolds
<1> QED BY <1>4 DEF F

WithoutTokens(x, S) ==
  [x EXCEPT !.tokens = [t \in Tokens |-> IF t \in S THEN None ELSE x.tokens[t]]]

LEMMA WithoutTokensType ==
  ASSUME NEW x \in State, NEW S \in SUBSET Tokens
  PROVE  WithoutTokens(x, S) \in State
BY DEF WithoutTokens, State

LEMMA HidesFold ==
  ASSUME NEW x \in State, NEW S \in SUBSET Tokens
  PROVE  Folded(x, Hides(S)) = WithoutTokens(x, S)
<1> DEFINE E == [t \in S |-> Hide(t)]
           G == [D \in SUBSET S |-> WithoutTokens(x, D)]
<1>1. ASSUME NEW D \in SUBSET S, NEW t \in S \ D
      PROVE  Accepts(G[D], E[t]) /\ After(G[D], E[t]) = G[D \cup {t}]
  <2> DEFINE y == WithoutTokens(x, D)
  <2>1. y \in State
    BY WithoutTokensType
  <2>2. Accepts(y, Hide(t))
    BY DEF Accepts, Hide
  <2>3. After(y, Hide(t)) = WithoutTokens(x, D \cup {t})
    BY <2>1 DEF After, Hide, WithoutTokens, State
  <2>4. G[D] = y /\ E[t] = Hide(t) /\ G[D \cup {t}] = WithoutTokens(x, D \cup {t})
    OBVIOUS
  <2> QED BY <2>2, <2>3, <2>4
<1>2. G[{}] = x /\ G[S] = WithoutTokens(x, S)
  <2>1. WithoutTokens(x, {}) = x
    BY DEF WithoutTokens, State
  <2> QED BY <2>1
<1>3. \A D \in SUBSET S : G[D] \in State
  BY WithoutTokensType
<1>4. Hides(S) = Each([t \in S |-> <<E[t]>>])
  <2>1. [t \in S |-> <<E[t]>>] = [t \in S |-> <<Hide(t)>>]
    OBVIOUS
  <2> QED BY <2>1 DEF Hides
<1>5. IsFiniteSet(S)
  BY Finite
<1> HIDE DEF E, G
<1>6. Folded(G[{}], Each([t \in S |-> <<E[t]>>])) = G[S]
  BY <1>1, <1>3, <1>5, EachSteps
<1> QED BY <1>2, <1>4, <1>6

\* One actor of a log and its conditions.
WithActor(x, id, a, c) == [x EXCEPT !.actors[id] = a, !.conditions[id] = c]

LEMMA WithActorIs ==
  ASSUME NEW x \in State, NEW id \in Actors, NEW a \in Actor, NEW c \in SUBSET Conditions
  PROVE  /\ WithActor(x, id, a, c) \in State
         /\ HasActor(WithActor(x, id, a, c), id)
         /\ WithActor(x, id, a, c).actors[id] = a
         /\ WithActor(x, id, a, c).conditions[id] = c
<1>1. a # None
  BY EngineAssumption
<1> QED BY <1>1 DEF WithActor, State, HasActor

LEMMA WithActorSame ==
  ASSUME NEW x \in State, NEW id \in Actors
  PROVE  WithActor(x, id, x.actors[id], x.conditions[id]) = x
BY DEF WithActor, State

LEMMA WithActorTwice ==
  ASSUME NEW x \in State, NEW id \in Actors, NEW a, NEW c, NEW b, NEW d
  PROVE  WithActor(WithActor(x, id, a, c), id, b, d) = WithActor(x, id, b, d)
BY DEF WithActor, State

LEMMA ActorSteps ==
  ASSUME NEW x \in State, NEW id \in Actors, NEW a \in Actor, NEW c \in SUBSET Conditions
  PROVE  LET y == WithActor(x, id, a, c)
         IN  /\ \A p \in People, kind \in Kinds :
                  /\ Accepts(y, Grant(id, p, kind))
                  /\ After(y, Grant(id, p, kind))
                       = WithActor(x, id, Granted(a, Grant(id, p, kind)), c)
             /\ \A p \in People :
                  LET e == [type |-> "ActorControlRevoked", actor |-> id, person |-> p]
                  IN  Accepts(y, e) /\ After(y, e) = WithActor(x, id, Revoked(a, e), c)
             /\ \A k \in Conditions \ c :
                  LET e == [type |-> "ConditionApplied", actor |-> id, condition |-> k]
                  IN  Accepts(y, e) /\ After(y, e) = WithActor(x, id, a, c \cup {k})
             /\ \A k \in c :
                  LET e == [type |-> "ConditionRemoved", actor |-> id, condition |-> k]
                  IN  Accepts(y, e) /\ After(y, e) = WithActor(x, id, a, c \ {k})
<1> DEFINE y == WithActor(x, id, a, c)
<1>1. y \in State /\ HasActor(y, id) /\ y.actors[id] = a /\ y.conditions[id] = c
  BY WithActorIs
<1>2. \A b : [y EXCEPT !.actors[id] = b] = WithActor(x, id, b, c)
  BY DEF WithActor, State
<1>3. \A d : [y EXCEPT !.conditions[id] = d] = WithActor(x, id, a, d)
  BY DEF WithActor, State
<1> HIDE DEF y
<1>4. ASSUME NEW p \in People, NEW kind \in Kinds
      PROVE  /\ Accepts(y, Grant(id, p, kind))
             /\ After(y, Grant(id, p, kind)) = WithActor(x, id, Granted(a, Grant(id, p, kind)), c)
  BY <1>1, <1>2 DEF Accepts, After, Grant
<1>5. ASSUME NEW p \in People
      PROVE  LET e == [type |-> "ActorControlRevoked", actor |-> id, person |-> p]
             IN  Accepts(y, e) /\ After(y, e) = WithActor(x, id, Revoked(a, e), c)
  BY <1>1, <1>2 DEF Accepts, After
<1>6. ASSUME NEW k \in Conditions \ c
      PROVE  LET e == [type |-> "ConditionApplied", actor |-> id, condition |-> k]
             IN  Accepts(y, e) /\ After(y, e) = WithActor(x, id, a, c \cup {k})
  BY <1>1, <1>3 DEF Accepts, After
<1>7. ASSUME NEW k \in c
      PROVE  LET e == [type |-> "ConditionRemoved", actor |-> id, condition |-> k]
             IN  Accepts(y, e) /\ After(y, e) = WithActor(x, id, a, c \ {k})
  BY <1>1, <1>3 DEF Accepts, After
<1> QED BY <1>4, <1>5, <1>6, <1>7 DEF y

\* What grants of a kind to a set make of an actor.
Conferred(a, kind, S) ==
  [a EXCEPT !.ctl = @ \cup S, !.kind = IF S = {} \/ kind = "unspecified" THEN @ ELSE kind]

LEMMA ConferredIs ==
  ASSUME NEW a \in Actor, NEW kind \in Kinds, NEW S \in SUBSET People
  PROVE  /\ Conferred(a, kind, S) \in Actor
         /\ Conferred(a, kind, {}) = a
         /\ \A id, p : Granted(Conferred(a, kind, S), Grant(id, p, kind))
                         = Conferred(a, kind, S \cup {p})
BY DEF Conferred, Actor, Granted, Grant

LEMMA GrantsFold ==
  ASSUME NEW x \in State, NEW id \in Actors, NEW a \in Actor, NEW c \in SUBSET Conditions,
         NEW S \in SUBSET People, NEW kind \in Kinds
  PROVE  Folded(WithActor(x, id, a, c), Grants(id, S, kind)) = WithActor(x, id, Conferred(a, kind, S), c)
<1> DEFINE E == [p \in S |-> Grant(id, p, kind)]
           G == [D \in SUBSET S |-> WithActor(x, id, Conferred(a, kind, D), c)]
<1>1. ASSUME NEW D \in SUBSET S, NEW p \in S \ D
      PROVE  Accepts(G[D], E[p]) /\ After(G[D], E[p]) = G[D \cup {p}]
  <2> DEFINE b == Conferred(a, kind, D)
  <2>1. b \in Actor /\ Granted(b, Grant(id, p, kind)) = Conferred(a, kind, D \cup {p})
    BY ConferredIs
  <2>2. G[D] = WithActor(x, id, b, c) /\ E[p] = Grant(id, p, kind)
        /\ G[D \cup {p}] = WithActor(x, id, Conferred(a, kind, D \cup {p}), c)
    OBVIOUS
  <2> HIDE DEF b, G, E
  <2>3. /\ Accepts(WithActor(x, id, b, c), Grant(id, p, kind))
        /\ After(WithActor(x, id, b, c), Grant(id, p, kind))
             = WithActor(x, id, Granted(b, Grant(id, p, kind)), c)
    BY <2>1, ActorSteps
  <2> QED BY <2>1, <2>2, <2>3
<1>2. G[{}] = WithActor(x, id, a, c) /\ G[S] = WithActor(x, id, Conferred(a, kind, S), c)
  BY ConferredIs
<1>3. \A D \in SUBSET S : G[D] \in State
  BY ConferredIs, WithActorIs
<1>4. Grants(id, S, kind) = Each([p \in S |-> <<E[p]>>])
  <2>1. [p \in S |-> <<E[p]>>] = [p \in S |-> <<Grant(id, p, kind)>>]
    OBVIOUS
  <2> QED BY <2>1 DEF Grants
<1>5. IsFiniteSet(S)
  BY Finite
<1> HIDE DEF E, G
<1>6. Folded(G[{}], Each([p \in S |-> <<E[p]>>])) = G[S]
  BY <1>1, <1>3, <1>5, EachSteps
<1> QED BY <1>2, <1>4, <1>6

LEMMA RevokesFold ==
  ASSUME NEW x \in State, NEW id \in Actors, NEW a \in Actor, NEW c \in SUBSET Conditions,
         NEW S \in SUBSET People
  PROVE  Folded(WithActor(x, id, a, c), Revokes(id, S)) = WithActor(x, id, [a EXCEPT !.ctl = @ \ S], c)
<1> DEFINE E == [p \in S |-> [type |-> "ActorControlRevoked", actor |-> id, person |-> p]]
           G == [D \in SUBSET S |-> WithActor(x, id, [a EXCEPT !.ctl = @ \ D], c)]
<1>1. ASSUME NEW D \in SUBSET S, NEW p \in S \ D
      PROVE  Accepts(G[D], E[p]) /\ After(G[D], E[p]) = G[D \cup {p}]
  <2> DEFINE b == [a EXCEPT !.ctl = @ \ D]
             e == [type |-> "ActorControlRevoked", actor |-> id, person |-> p]
  <2>1. b \in Actor /\ Revoked(b, e) = [a EXCEPT !.ctl = @ \ (D \cup {p})]
    BY DEF Actor, Revoked
  <2>2. G[D] = WithActor(x, id, b, c) /\ E[p] = e
        /\ G[D \cup {p}] = WithActor(x, id, [a EXCEPT !.ctl = @ \ (D \cup {p})], c)
    OBVIOUS
  <2> HIDE DEF b, G, E
  <2>3. Accepts(WithActor(x, id, b, c), e)
        /\ After(WithActor(x, id, b, c), e) = WithActor(x, id, Revoked(b, e), c)
    BY <2>1, ActorSteps
  <2> QED BY <2>1, <2>2, <2>3
<1>2. G[{}] = WithActor(x, id, a, c) /\ G[S] = WithActor(x, id, [a EXCEPT !.ctl = @ \ S], c)
  <2>1. [a EXCEPT !.ctl = @ \ {}] = a
    BY DEF Actor
  <2> QED BY <2>1
<1>3. \A D \in SUBSET S : G[D] \in State
  <2>1. \A D \in SUBSET S : [a EXCEPT !.ctl = @ \ D] \in Actor
    BY DEF Actor
  <2> QED BY <2>1, WithActorIs
<1>4. Revokes(id, S) = Each([p \in S |-> <<E[p]>>])
  <2>1. [p \in S |-> <<E[p]>>] = [p \in S |-> <<[type |-> "ActorControlRevoked", actor |-> id, person |-> p]>>]
    OBVIOUS
  <2> QED BY <2>1 DEF Revokes
<1>5. IsFiniteSet(S)
  BY Finite
<1> HIDE DEF E, G
<1>6. Folded(G[{}], Each([p \in S |-> <<E[p]>>])) = G[S]
  BY <1>1, <1>3, <1>5, EachSteps
<1> QED BY <1>2, <1>4, <1>6

LEMMA AppliesFold ==
  ASSUME NEW x \in State, NEW id \in Actors, NEW a \in Actor, NEW c \in SUBSET Conditions,
         NEW S \in SUBSET Conditions, S \cap c = {}
  PROVE  Folded(WithActor(x, id, a, c), Applies(id, S)) = WithActor(x, id, a, c \cup S)
<1> DEFINE E == [k \in S |-> [type |-> "ConditionApplied", actor |-> id, condition |-> k]]
           G == [D \in SUBSET S |-> WithActor(x, id, a, c \cup D)]
<1>1. ASSUME NEW D \in SUBSET S, NEW k \in S \ D
      PROVE  Accepts(G[D], E[k]) /\ After(G[D], E[k]) = G[D \cup {k}]
  <2> DEFINE d == c \cup D
             e == [type |-> "ConditionApplied", actor |-> id, condition |-> k]
  <2>1. d \in SUBSET Conditions /\ k \in Conditions \ d /\ d \cup {k} = c \cup (D \cup {k})
    OBVIOUS
  <2>2. G[D] = WithActor(x, id, a, d) /\ E[k] = e
        /\ G[D \cup {k}] = WithActor(x, id, a, c \cup (D \cup {k}))
    OBVIOUS
  <2> HIDE DEF d, G, E
  <2>3. Accepts(WithActor(x, id, a, d), e)
        /\ After(WithActor(x, id, a, d), e) = WithActor(x, id, a, d \cup {k})
    BY <2>1, ActorSteps
  <2> QED BY <2>1, <2>2, <2>3
<1>2. G[{}] = WithActor(x, id, a, c) /\ G[S] = WithActor(x, id, a, c \cup S)
  <2>1. c \cup {} = c
    OBVIOUS
  <2> QED BY <2>1
<1>3. \A D \in SUBSET S : G[D] \in State
  <2>1. \A D \in SUBSET S : c \cup D \in SUBSET Conditions
    OBVIOUS
  <2> QED BY <2>1, WithActorIs
<1>4. Applies(id, S) = Each([k \in S |-> <<E[k]>>])
  <2>1. [k \in S |-> <<E[k]>>] = [k \in S |-> <<[type |-> "ConditionApplied", actor |-> id, condition |-> k]>>]
    OBVIOUS
  <2> QED BY <2>1 DEF Applies
<1>5. IsFiniteSet(S)
  BY Finite
<1> HIDE DEF E, G
<1>6. Folded(G[{}], Each([k \in S |-> <<E[k]>>])) = G[S]
  BY <1>1, <1>3, <1>5, EachSteps
<1> QED BY <1>2, <1>4, <1>6

LEMMA RemovesFold ==
  ASSUME NEW x \in State, NEW id \in Actors, NEW a \in Actor, NEW c \in SUBSET Conditions,
         NEW S \in SUBSET Conditions, S \subseteq c
  PROVE  Folded(WithActor(x, id, a, c), Removes(id, S)) = WithActor(x, id, a, c \ S)
<1> DEFINE E == [k \in S |-> [type |-> "ConditionRemoved", actor |-> id, condition |-> k]]
           G == [D \in SUBSET S |-> WithActor(x, id, a, c \ D)]
<1>1. ASSUME NEW D \in SUBSET S, NEW k \in S \ D
      PROVE  Accepts(G[D], E[k]) /\ After(G[D], E[k]) = G[D \cup {k}]
  <2> DEFINE d == c \ D
             e == [type |-> "ConditionRemoved", actor |-> id, condition |-> k]
  <2>1. d \in SUBSET Conditions /\ k \in d /\ d \ {k} = c \ (D \cup {k})
    OBVIOUS
  <2>2. G[D] = WithActor(x, id, a, d) /\ E[k] = e
        /\ G[D \cup {k}] = WithActor(x, id, a, c \ (D \cup {k}))
    OBVIOUS
  <2> HIDE DEF d, G, E
  <2>3. Accepts(WithActor(x, id, a, d), e)
        /\ After(WithActor(x, id, a, d), e) = WithActor(x, id, a, d \ {k})
    BY <2>1, ActorSteps
  <2> QED BY <2>1, <2>2, <2>3
<1>2. G[{}] = WithActor(x, id, a, c) /\ G[S] = WithActor(x, id, a, c \ S)
  <2>1. c \ {} = c
    OBVIOUS
  <2> QED BY <2>1
<1>3. \A D \in SUBSET S : G[D] \in State
  <2>1. \A D \in SUBSET S : c \ D \in SUBSET Conditions
    OBVIOUS
  <2> QED BY <2>1, WithActorIs
<1>4. Removes(id, S) = Each([k \in S |-> <<E[k]>>])
  <2>1. [k \in S |-> <<E[k]>>] = [k \in S |-> <<[type |-> "ConditionRemoved", actor |-> id, condition |-> k]>>]
    OBVIOUS
  <2> QED BY <2>1 DEF Removes
<1>5. IsFiniteSet(S)
  BY Finite
<1> HIDE DEF E, G
<1>6. Folded(G[{}], Each([k \in S |-> <<E[k]>>])) = G[S]
  BY <1>1, <1>3, <1>5, EachSteps
<1> QED BY <1>2, <1>4, <1>6

LEMMA FoldedThree ==
  ASSUME NEW st, NEW a \in Seq(Known), NEW b \in Seq(Known), NEW c \in Seq(Known)
  PROVE  Folded(st, a \o b \o c) = Folded(Folded(Folded(st, a), b), c)
<1> DEFINE ab == a \o b
<1>1. ab \in Seq(Known)
  OBVIOUS
<1> HIDE DEF ab
<1>2. Folded(st, ab \o c) = Folded(Folded(st, ab), c)
  BY <1>1, FoldedBoth
<1>3. Folded(st, a \o b) = Folded(Folded(st, a), b)
  BY FoldedBoth
<1> QED BY <1>2, <1>3 DEF ab

LEMMA FoldedFour ==
  ASSUME NEW st, NEW a \in Seq(Known), NEW b \in Seq(Known), NEW c \in Seq(Known),
         NEW d \in Seq(Known)
  PROVE  Folded(st, a \o b \o c \o d) = Folded(Folded(Folded(Folded(st, a), b), c), d)
<1> DEFINE abc == a \o b \o c
<1>1. abc \in Seq(Known)
  OBVIOUS
<1> HIDE DEF abc
<1>2. Folded(st, abc \o d) = Folded(Folded(st, abc), d)
  BY <1>1, FoldedBoth
<1>3. Folded(st, abc) = Folded(Folded(Folded(st, a), b), c)
  BY FoldedThree DEF abc
<1> QED BY <1>2, <1>3 DEF abc

\* The form an actor is held in, and the conditions it is held with.
FormOf(st, id, seen) == IF seen THEN ShownAs(st.actors[id]) ELSE UnseenAs(st.actors[id])
TurnsOf(st, id, seen) == IF seen THEN st.conditions[id] ELSE {}

LEMMA FormOfType ==
  ASSUME NEW st \in GoodStates, NEW id \in Actors, HasActor(st, id), NEW seen \in BOOLEAN
  PROVE  /\ FormOf(st, id, seen) \in Actor /\ TurnsOf(st, id, seen) \in SUBSET Conditions
         /\ FormOf(st, id, seen).ctl = st.actors[id].ctl
         /\ FormOf(st, id, seen).kind = st.actors[id].kind
<1>1. st.actors[id] \in Actor /\ st.conditions[id] \in SUBSET Conditions
  BY DEF GoodStates, State, HasActor
<1> QED BY <1>1, FormsAreActors DEF FormOf, TurnsOf

\* An actor introduced is held in its form, with its control and conditions.
LEMMA IntroduceFold ==
  ASSUME NEW x \in State, NEW id \in Actors, ~HasActor(x, id), x.conditions[id] = {},
         NEW st \in GoodStates, HasActor(st, id), NEW seen \in BOOLEAN
  PROVE  Folded(x, Introduce(id, st, seen))
           = WithActor(x, id, FormOf(st, id, seen), TurnsOf(st, id, seen))
<1> DEFINE a == st.actors[id]
           held == FormOf(st, id, seen)
           bare == [held EXCEPT !.ctl = {}]
           added == [type |-> "ActorAdded", actor |-> id, is |-> bare]
           grants == Grants(id, a.ctl, a.kind)
           applies == IF seen THEN Applies(id, st.conditions[id]) ELSE <<>>
           y == WithActor(x, id, bare, {})
           z == WithActor(x, id, held, {})
<1>1. a \in Actor /\ a.ctl \in SUBSET People /\ a.kind \in Kinds
      /\ st.conditions[id] \in SUBSET Conditions
  BY DEF GoodStates, State, HasActor, Actor
<1>2. held \in Actor /\ held.ctl = a.ctl /\ held.kind = a.kind
  BY FormOfType
<1>3. Introduce(id, st, seen) = <<added>> \o grants \o applies
  BY DEF Introduce, FormOf
<1>4. <<added>> \in Seq(Known) /\ grants \in Seq(Known) /\ applies \in Seq(Known)
  <2> HIDE DEF a, held
  <2>1. bare \in Actor
    BY <1>2 DEF Actor
  <2> HIDE DEF bare
  <2>2. added \in Known
    BY <2>1 DEF Known, Events, Actor
  <2> HIDE DEF added
  <2> QED BY <1>1, <2>2, OneFrame, NoFrame, GrantsType, AppliesType
<1> HIDE DEF a, held
<1>5. Folded(x, <<added>>) = y
  <2>1. bare.ctl = {}
    BY <1>2 DEF Actor
  <2>2. Accepts(x, added)
    BY <2>1, EngineAssumption DEF Accepts, AcceptsActor
  <2>3. After(x, added) = [x EXCEPT !.actors[id] = bare]
    BY DEF After
  <2>4. [x EXCEPT !.actors[id] = bare] = y
    BY DEF WithActor, State
  <2> HIDE DEF added, y, bare
  <2> QED BY <2>2, <2>3, <2>4, Steps
<1>6. Folded(y, grants) = z
  <2>1. bare \in Actor /\ Conferred(bare, a.kind, a.ctl) = held
    BY <1>1, <1>2 DEF Actor, Conferred
  <2> HIDE DEF bare
  <2> QED BY <1>1, <2>1, GrantsFold
<1>7. Folded(z, applies) = WithActor(x, id, held, TurnsOf(st, id, seen))
  <2>1. CASE seen
    <3>1. Folded(z, Applies(id, st.conditions[id]))
            = WithActor(x, id, held, {} \cup st.conditions[id])
      BY <1>1, <1>2, AppliesFold
    <3>2. {} \cup st.conditions[id] = st.conditions[id]
      OBVIOUS
    <3> QED BY <2>1, <3>1, <3>2 DEF TurnsOf
  <2>2. CASE ~seen
    BY <2>2, FoldedEmpty DEF TurnsOf
  <2> QED BY <2>1, <2>2
<1> HIDE DEF added, grants, applies, y, z
<1>8. Folded(x, <<added>> \o grants \o applies)
        = Folded(Folded(Folded(x, <<added>>), grants), applies)
  <2> DEFINE first == <<added>>
  <2>1. first \in Seq(Known)
    BY <1>4
  <2> HIDE DEF first
  <2>2. Folded(x, first \o grants \o applies) = Folded(Folded(Folded(x, first), grants), applies)
    BY <1>4, <2>1, FoldedThree
  <2> QED BY <2>2 DEF first
<1> QED BY <1>3, <1>5, <1>6, <1>7, <1>8 DEF held

\* And one put back is held so too, its tokens hidden.
LEMMA ReintroduceFold ==
  ASSUME NEW x \in State, NEW id \in Actors, HasActor(x, id), NEW shown,
         \A t \in Tokens : HasToken(x, t) /\ x.tokens[t].actor = id => t \in Standing(shown, id),
         NEW st \in GoodStates, HasActor(st, id), NEW seen \in BOOLEAN
  PROVE  Folded(x, Reintroduce(shown, st, id, seen))
           = WithActor(WithoutTokens(x, Standing(shown, id)), id,
                       FormOf(st, id, seen), TurnsOf(st, id, seen))
<1> DEFINE S == Standing(shown, id)
           y == WithoutTokens(x, S)
           z == WithActor(y, id, None, {})
<1>1. HideTokensOf(shown, id) = Hides(S) /\ S \in SUBSET Tokens
  BY DEF HideTokensOf, Standing
<1> HIDE DEF S
<1>2. Folded(x, HideTokensOf(shown, id)) = y /\ y \in State
  BY <1>1, HidesFold, WithoutTokensType
<1>3. HasActor(y, id) /\ Standing(y, id) = {}
  <2>1. y.actors = x.actors
    BY DEF WithoutTokens, State
  <2>2. \A t \in Tokens : HasToken(y, t) => HasToken(x, t) /\ t \notin S /\ y.tokens[t] = x.tokens[t]
    BY DEF WithoutTokens, State, HasToken
  <2> HIDE DEF y
  <2>3. Standing(y, id) = {}
    BY <2>2 DEF Standing, S
  <2> QED BY <2>1, <2>3 DEF HasActor
<1> HIDE DEF y
<1>4. Folded(y, <<Withdraw(id)>>) = z
  <2>1. Accepts(y, Withdraw(id))
    BY <1>3 DEF Accepts, AcceptsRemoval, Withdraw
  <2>2. After(y, Withdraw(id)) = WithoutActor(y, id)
    BY DEF After, Withdraw
  <2>3. WithoutActor(y, id) = z
    BY DEF WithoutActor, WithActor
  <2> QED BY <1>2, <2>1, <2>2, <2>3, Steps
<1>5. z \in State /\ ~HasActor(z, id) /\ z.conditions[id] = {}
  BY <1>2 DEF WithActor, State, HasActor
<1>6. Folded(z, Introduce(id, st, seen))
        = WithActor(z, id, FormOf(st, id, seen), TurnsOf(st, id, seen))
  <2> HIDE DEF z
  <2> QED BY <1>5, IntroduceFold
<1>7. WithActor(z, id, FormOf(st, id, seen), TurnsOf(st, id, seen))
        = WithActor(y, id, FormOf(st, id, seen), TurnsOf(st, id, seen))
  BY <1>2, WithActorTwice
<1> HIDE DEF z
<1>8. Reintroduce(shown, st, id, seen)
        = HideTokensOf(shown, id) \o <<Withdraw(id)>> \o Introduce(id, st, seen)
  BY DEF Reintroduce
<1>9. /\ HideTokensOf(shown, id) \in Seq(Known) /\ <<Withdraw(id)>> \in Seq(Known)
      /\ Introduce(id, st, seen) \in Seq(Known)
  BY IntroduceType, ReintroduceType
<1>10. Folded(x, HideTokensOf(shown, id) \o <<Withdraw(id)>> \o Introduce(id, st, seen))
         = Folded(Folded(Folded(x, HideTokensOf(shown, id)), <<Withdraw(id)>>),
                  Introduce(id, st, seen))
  <2> DEFINE first == HideTokensOf(shown, id)
             second == <<Withdraw(id)>>
             third == Introduce(id, st, seen)
  <2>1. first \in Seq(Known) /\ second \in Seq(Known) /\ third \in Seq(Known)
    BY <1>9
  <2> HIDE DEF first, second, third
  <2>2. Folded(x, first \o second \o third) = Folded(Folded(Folded(x, first), second), third)
    BY <2>1, FoldedThree
  <2> QED BY <2>2 DEF first, second, third
<1> QED BY <1>2, <1>4, <1>6, <1>7, <1>8, <1>10 DEF y, S

LEMMA ResourceFold ==
  ASSUME NEW x \in State, NEW id \in Actors, NEW a \in Actor, NEW c \in SUBSET Conditions,
         a.body # None, 0 <= a.cur, NEW n \in Int32, 0 <= n, a.body > 0 => n <= a.body
  PROVE  Folded(WithActor(x, id, a, c), ResourceFrames(id, a.cur, n))
           = WithActor(x, id, [a EXCEPT !.cur = n], c)
<1> DEFINE y == WithActor(x, id, a, c)
           b == [a EXCEPT !.cur = n]
           e == [type |-> "ResourceChanged", actor |-> id, delta |-> n - a.cur, to |-> n]
<1>1. y \in State /\ HasActor(y, id) /\ y.actors[id] = a
  BY WithActorIs
<1>2. a.cur \in Int32 /\ a.body \in 0 .. MaxInt /\ MaxInt \in Nat
  BY EngineAssumption DEF Actor
<1>3. CASE n = a.cur
  <2>1. ResourceFrames(id, a.cur, n) = <<>>
    BY <1>3 DEF ResourceFrames
  <2>2. b = a
    BY <1>3 DEF Actor
  <2> QED BY <2>1, <2>2, FoldedEmpty
<1>4. CASE n # a.cur
  <2>1. ~(n - a.cur > MaxInt)
    BY <1>2 DEF Int32
  <2>2. ResourceFrames(id, a.cur, n) = <<>> \o <<e>>
    BY <1>4, <2>1 DEF ResourceFrames, If
  <2>3. ResourceFrames(id, a.cur, n) = <<e>>
    BY <2>2
  <2>4. Changed(a, n - a.cur) = n
    BY <1>2 DEF Changed, Clamp, Int32
  <2>5. [y EXCEPT !.actors[id].cur = n] = WithActor(x, id, b, c)
    BY DEF WithActor, State, HasActor
  <2>6. Accepts(y, e)
    BY <1>1, <2>4 DEF Accepts, AcceptsChange
  <2>7. After(y, e) = [y EXCEPT !.actors[id].cur = n]
    BY <1>1, <2>4 DEF After
  <2> HIDE DEF y, e
  <2>8. Folded(y, <<e>>) = After(y, e)
    BY <1>1, <2>6, Steps
  <2> QED BY <2>3, <2>5, <2>7, <2>8 DEF y
<1> QED BY <1>3, <1>4

\* The kind of an actor of the world is one a grant can bring the log to.
KindFollows(held, a) ==
  /\ a.kind = "unspecified" => held.kind = "unspecified"
  /\ ~ /\ a.kind # held.kind
       /\ a.ctl \subseteq held.ctl
       /\ held.ctl = {} \/ a.kind = "unspecified"

\* An actor under the control, and of the kind, of another.
Governed(b, a) == [b EXCEPT !.ctl = a.ctl, !.kind = a.kind]

LEMMA ControlFold ==
  ASSUME NEW x \in State, NEW id \in Actors, NEW b \in Actor, NEW c \in SUBSET Conditions,
         NEW held \in Actor, NEW a \in Actor, b.ctl = held.ctl, b.kind = held.kind,
         KindFollows(held, a)
  PROVE  Folded(WithActor(x, id, b, c), ControlFrames(id, held, a))
           = WithActor(x, id, Governed(b, a), c)
<1> DEFINE new == a.ctl \ held.ctl
           old == held.ctl \ a.ctl
           p == CHOOSE q \in held.ctl : TRUE
           g == Grant(id, p, a.kind)
           grants == Grants(id, new, a.kind)
           carried == IF a.kind # held.kind /\ new = {} THEN <<g>> ELSE <<>>
           revokes == Revokes(id, old)
           b1 == Conferred(b, a.kind, new)
           b2 == [b EXCEPT !.ctl = @ \cup new, !.kind = a.kind]
           b3 == Governed(b, a)
<1>1. a.kind \in Kinds /\ new \in SUBSET People /\ old \in SUBSET People
      /\ held.ctl \in SUBSET People /\ a.ctl \in SUBSET People
  BY DEF Actor
<1>2. ControlFrames(id, held, a) = grants \o carried \o revokes
  BY DEF ControlFrames
<1>3. b1 \in Actor /\ b2 \in Actor
  <2>1. b2 \in Actor
    BY <1>1 DEF Actor
  <2> QED BY <1>1, <2>1, ConferredIs
<1>4. Folded(WithActor(x, id, b, c), grants) = WithActor(x, id, b1, c)
  BY <1>1, GrantsFold
<1>5. a.kind # held.kind /\ new = {} => p \in held.ctl /\ a.kind # "unspecified"
  BY DEF KindFollows
<1>6. carried \in Seq(Known)
  <2>1. CASE a.kind # held.kind /\ new = {}
    <3>1. g \in Known
      <4>1. p \in People
        BY <1>1, <1>5, <2>1
      <4> HIDE DEF p
      <4> QED BY <1>1, <4>1 DEF Grant, Known, Events
    <3> HIDE DEF g
    <3> QED BY <2>1, <3>1, OneFrame
  <2>2. CASE ~(a.kind # held.kind /\ new = {})
    BY <2>2, NoFrame
  <2> QED BY <2>1, <2>2
<1>7. Folded(WithActor(x, id, b1, c), carried) = WithActor(x, id, b2, c)
  <2>1. CASE a.kind # held.kind /\ new = {}
    <3>1. p \in held.ctl /\ p \in People /\ a.kind # "unspecified"
      BY <1>1, <1>5, <2>1
    <3> HIDE DEF p
    <3>2. Granted(b1, g) = b2
      BY <1>1, <2>1, <3>1 DEF Granted, Grant, Conferred, Actor
    <3>3. Accepts(WithActor(x, id, b1, c), g) /\ After(WithActor(x, id, b1, c), g) = WithActor(x, id, Granted(b1, g), c)
      <4> HIDE DEF b1
      <4> QED BY <1>1, <1>3, <3>1, ActorSteps
    <3>4. WithActor(x, id, b1, c) \in State
      BY <1>3, WithActorIs
    <3> HIDE DEF b1, b2, g
    <3>5. Folded(WithActor(x, id, b1, c), <<g>>) = WithActor(x, id, b2, c)
      BY <3>2, <3>3, <3>4, Steps
    <3> QED BY <2>1, <3>5
  <2>2. CASE ~(a.kind # held.kind /\ new = {})
    <3>1. b1.kind = a.kind
      BY <1>1, <2>2 DEF KindFollows, Conferred, Actor
    <3>2. b1 = b2
      BY <1>1, <3>1 DEF Conferred, Actor
    <3> QED BY <2>2, <3>2, FoldedEmpty
  <2> QED BY <2>1, <2>2
<1>8. Folded(WithActor(x, id, b2, c), revokes) = WithActor(x, id, b3, c)
  <2>1. [b2 EXCEPT !.ctl = @ \ old] = b3
    BY <1>1 DEF Actor, Governed
  <2> HIDE DEF b2, b3
  <2> QED BY <1>1, <1>3, <2>1, RevokesFold
<1>9. grants \in Seq(Known) /\ revokes \in Seq(Known)
  BY <1>1, GrantsType, RevokesType
<1> HIDE DEF grants, carried, revokes, b1, b2, b3
<1>10. Folded(WithActor(x, id, b, c), grants \o carried \o revokes)
         = Folded(Folded(Folded(WithActor(x, id, b, c), grants), carried), revokes)
  BY <1>6, <1>9, FoldedThree
<1> QED BY <1>2, <1>4, <1>7, <1>8, <1>10 DEF b3

\* Within its maximum, and with nothing of a resource it has not.
InBounds(a) == WithinItsMaximum(a) /\ (a.body = None => a.cur = 0)

\* The frames of a status bring the actor held to the actor of the world.
LEMMA StatusFold ==
  ASSUME NEW x \in State, NEW id \in Actors, NEW held \in Actor, NEW a \in Actor,
         NEW c \in SUBSET Conditions, NEW d \in SUBSET Conditions,
         SameIncarnation(held, a), InBounds(held), InBounds(a), KindFollows(held, a)
  PROVE  Folded(WithActor(x, id, held, c), StatusFrames(id, held, c, a, d)) = WithActor(x, id, a, d)
<1> DEFINE b == [held EXCEPT !.cur = a.cur]
           resource == IF a.body = None THEN <<>> ELSE ResourceFrames(id, held.cur, a.cur)
           removes == Removes(id, c \ d)
           applies == Applies(id, d \ c)
           control == ControlFrames(id, held, a)
<1>1. StatusFrames(id, held, c, a, d) = resource \o removes \o applies \o control
  BY DEF StatusFrames
<1>2. b \in Actor /\ b.ctl = held.ctl /\ b.kind = held.kind
  BY DEF Actor
<1>3. Folded(WithActor(x, id, held, c), resource) = WithActor(x, id, b, c)
  <2>1. CASE a.body = None
    <3>1. b = held
      BY <2>1 DEF SameIncarnation, InBounds, Actor
    <3> QED BY <2>1, <3>1, FoldedEmpty
  <2>2. CASE a.body # None
    <3>1. held.body # None /\ held.cur >= 0 /\ a.cur \in Int32 /\ a.cur >= 0
          /\ (held.body > 0 => a.cur <= held.body)
      BY <2>2 DEF SameIncarnation, InBounds, WithinItsMaximum, Actor
    <3> QED BY <2>2, <3>1, ResourceFold
  <2> QED BY <2>1, <2>2
<1>4. Folded(WithActor(x, id, b, c), removes) = WithActor(x, id, b, c \cap d)
  <2>1. c \ d \in SUBSET Conditions /\ c \ d \subseteq c /\ c \ (c \ d) = c \cap d
    OBVIOUS
  <2> HIDE DEF b
  <2>2. Folded(WithActor(x, id, b, c), Removes(id, c \ d)) = WithActor(x, id, b, c \ (c \ d))
    BY <1>2, <2>1, RemovesFold
  <2> QED BY <2>1, <2>2
<1>5. Folded(WithActor(x, id, b, c \cap d), applies) = WithActor(x, id, b, d)
  <2>1. d \ c \in SUBSET Conditions /\ (d \ c) \cap (c \cap d) = {} /\ (c \cap d) \cup (d \ c) = d
        /\ c \cap d \in SUBSET Conditions
    OBVIOUS
  <2> HIDE DEF b
  <2>2. Folded(WithActor(x, id, b, c \cap d), Applies(id, d \ c))
          = WithActor(x, id, b, (c \cap d) \cup (d \ c))
    BY <1>2, <2>1, AppliesFold
  <2> QED BY <2>1, <2>2
<1>6. Folded(WithActor(x, id, b, d), control) = WithActor(x, id, a, d)
  <2>1. Governed(b, a) = a
    BY DEF Governed, SameIncarnation, Actor
  <2> HIDE DEF b
  <2>2. Folded(WithActor(x, id, b, d), ControlFrames(id, held, a))
          = WithActor(x, id, Governed(b, a), d)
    BY <1>2, ControlFold
  <2> QED BY <2>1, <2>2
<1>7. resource \in Seq(Known) /\ removes \in Seq(Known) /\ applies \in Seq(Known)
      /\ control \in Seq(Known)
  <2>1. resource \in Seq(Known)
    <3>1. held.cur \in Int32 /\ a.cur \in Int32
      BY DEF Actor
    <3>2. CASE a.body = None
      BY <3>2, NoFrame
    <3>3. CASE a.body # None
      BY <3>1, <3>3, ResourceType
    <3> QED BY <3>2, <3>3
  <2>2. ~Uncorrectable(held, a)
    BY DEF Uncorrectable, KindFollows, SameIncarnation
  <2> QED BY <2>1, <2>2, RemovesType, AppliesType, ControlType
<1> HIDE DEF resource, removes, applies, control, b
<1>8. Folded(WithActor(x, id, held, c), resource \o removes \o applies \o control)
        = Folded(Folded(Folded(Folded(WithActor(x, id, held, c), resource), removes), applies), control)
  BY <1>7, FoldedFour
<1> QED BY <1>1, <1>3, <1>4, <1>5, <1>6, <1>8

-----------------------------------------------------------------------------
(* What the transitions make of a log's fold.                              *)

Bounded(st) == \A a \in Actors : HasActor(st, a) => InBounds(st.actors[a])

\* An actor of no stated kind has had none since the campaign began.
KindsKept(shown, st) ==
  \A a \in Actors :
    HasActor(shown, a) /\ HasActor(st, a) /\ st.actors[a].kind = "unspecified"
      => shown.actors[a].kind = "unspecified"

\* A log, and the look at a world that it is brought to.
Fit(shown, st, eyes, now) ==
  /\ shown \in GoodStates /\ st \in GoodStates /\ Looked(st, eyes, now)
  /\ Bounded(shown) /\ Bounded(st) /\ KindsKept(shown, st)

\* The actors that come to be held as the world has them.
Formed(shown, sighted, now, st) ==
  {a \in now.actors : \/ ~HasActor(shown, a)
                      \/ a \in Withdrawn(shown, now, st)
                      \/ a \in now.sees \ sighted}

WithForm(x, st, now, id) == WithActor(x, id, FormOf(st, id, id \in now.sees), TurnsOf(st, id, id \in now.sees))

LEMMA ShownInBounds ==
  ASSUME NEW a, InBounds(a)
  PROVE  InBounds(ShownAs(a)) /\ InBounds(UnseenAs(a))
BY DEF InBounds, WithinItsMaximum, ShownAs, UnseenAs, ShownWith

\* A correction brings the actor held to what is seen of it.
LEMMA CorrectionFold ==
  ASSUME NEW shown, NEW st, NEW eyes, NEW now, Fit(shown, st, eyes, now),
         NEW id \in now.sees, HasActor(shown, id), id \notin Withdrawn(shown, now, st),
         ~Uncorrectable(shown.actors[id], ShownAs(st.actors[id])),
         NEW x \in State, x.actors[id] = shown.actors[id], x.conditions[id] = shown.conditions[id]
  PROVE  Folded(x, Status(shown, st, id)) = WithForm(x, st, now, id)
<1> DEFINE held == shown.actors[id]
           a == ShownAs(st.actors[id])
           c == shown.conditions[id]
           d == st.conditions[id]
<1>1. id \in Actors /\ HasActor(st, id) /\ st.actors[id] \in Actor /\ id \in now.actors
      /\ shown \in GoodStates /\ st \in GoodStates
  BY DEF Fit, Looked
<1>2. held \in Actor /\ c \in SUBSET Conditions /\ d \in SUBSET Conditions
  BY <1>1 DEF GoodStates, State, HasActor
<1>3. a \in Actor /\ a.kind = st.actors[id].kind
  BY <1>1, FormsAreActors
<1>4. InBounds(held) /\ InBounds(a)
  BY <1>1, ShownInBounds DEF Fit, Bounded
<1>5. SameIncarnation(held, a)
  BY <1>1 DEF Withdrawn, Reshaped
<1>6. KindFollows(held, a)
  <2>1. a.kind = "unspecified" => held.kind = "unspecified"
    BY <1>1, <1>3 DEF Fit, KindsKept
  <2> QED BY <2>1 DEF KindFollows, Uncorrectable
<1>7. Status(shown, st, id) = StatusFrames(id, held, c, a, d)
  BY DEF Status
<1>8. WithActor(x, id, held, c) = x
  BY <1>1, WithActorSame
<1>9. WithForm(x, st, now, id) = WithActor(x, id, a, d)
  BY DEF WithForm, FormOf, TurnsOf
<1> HIDE DEF held, a, c, d
<1>10. Folded(WithActor(x, id, held, c), StatusFrames(id, held, c, a, d)) = WithActor(x, id, a, d)
  BY <1>1, <1>2, <1>3, <1>4, <1>5, <1>6, StatusFold
<1> QED BY <1>7, <1>8, <1>9, <1>10

\* What the frames of one actor make of a log they have not been written to.
Reformed(x, shown, sighted, now, st, id) ==
  IF id \in Retaken(shown, sighted, now, st)
  THEN WithForm(WithoutTokens(x, Standing(shown, id)), st, now, id)
  ELSE IF id \in Formed(shown, sighted, now, st) THEN WithForm(x, st, now, id) ELSE x

LEMMA ActorFramesFold ==
  ASSUME NEW shown, NEW st, NEW eyes, NEW now, Fit(shown, st, eyes, now), NEW sighted,
         NEW id \in now.actors, NEW x \in State,
         x.actors[id] = shown.actors[id], x.conditions[id] = shown.conditions[id],
         \A t \in Tokens : HasToken(x, t) /\ x.tokens[t].actor = id => t \in Standing(shown, id)
  PROVE  Folded(x, ActorFrames(shown, sighted, now, st, id))
           = Reformed(x, shown, sighted, now, st, id)
<1> DEFINE seen == id \in now.sees
           frames == ActorFrames(shown, sighted, now, st, id)
<1>1. id \in Actors /\ HasActor(st, id) /\ seen \in BOOLEAN
      /\ shown \in GoodStates /\ st \in GoodStates
  BY DEF Fit, Looked
<1>2. HasActor(x, id) <=> HasActor(shown, id)
  BY DEF HasActor
<1>3. HasActor(shown, id) =>
        Folded(x, Reintroduce(shown, st, id, seen))
          = WithForm(WithoutTokens(x, Standing(shown, id)), st, now, id)
  BY <1>1, <1>2, ReintroduceFold DEF WithForm
<1>4. CASE id \in Withdrawn(shown, now, st)
  <2>1. frames = Reintroduce(shown, st, id, seen) /\ HasActor(shown, id)
    BY <1>4 DEF ActorFrames, Withdrawn, Gone, Reshaped
  <2>2. id \in Retaken(shown, sighted, now, st)
    BY <1>4 DEF Retaken
  <2> QED BY <1>3, <2>1, <2>2 DEF Reformed
<1>5. CASE ~HasActor(shown, id)
  <2>1. id \notin Withdrawn(shown, now, st) /\ id \notin Retaken(shown, sighted, now, st)
    BY <1>5 DEF Retaken, Withdrawn, Gone, Reshaped
  <2>2. frames = Introduce(id, st, seen)
    BY <1>5, <2>1 DEF ActorFrames
  <2>3. x.conditions[id] = {}
    BY <1>1, <1>5 DEF GoodStates, Sound, ConditionsHaveActors
  <2>4. Folded(x, Introduce(id, st, seen)) = WithForm(x, st, now, id)
    BY <1>1, <1>2, <1>5, <2>3, IntroduceFold DEF WithForm
  <2>5. id \in Formed(shown, sighted, now, st)
    BY <1>5 DEF Formed
  <2> QED BY <2>1, <2>2, <2>4, <2>5 DEF Reformed
<1>6. CASE HasActor(shown, id) /\ id \notin Withdrawn(shown, now, st) /\ id \in now.sees \ sighted
  <2>1. frames = Correct(shown, st, id)
    BY <1>6 DEF ActorFrames
  <2>2. CASE Uncorrectable(shown.actors[id], ShownAs(st.actors[id]))
    <3>1. id \in Retaken(shown, sighted, now, st)
      BY <1>6, <2>2 DEF Retaken
    <3>2. frames = Reintroduce(shown, st, id, seen)
      BY <1>6, <2>1, <2>2 DEF Correct
    <3> QED BY <1>3, <1>6, <3>1, <3>2 DEF Reformed
  <2>3. CASE ~Uncorrectable(shown.actors[id], ShownAs(st.actors[id]))
    <3>1. id \notin Retaken(shown, sighted, now, st) /\ id \in Formed(shown, sighted, now, st)
      BY <1>6, <2>3 DEF Retaken, Formed
    <3>2. frames = Status(shown, st, id)
      BY <2>1, <2>3 DEF Correct
    <3>3. Folded(x, Status(shown, st, id)) = WithForm(x, st, now, id)
      BY <1>6, <2>3, CorrectionFold
    <3> QED BY <3>1, <3>2, <3>3 DEF Reformed
  <2> QED BY <2>2, <2>3
<1>7. CASE HasActor(shown, id) /\ id \notin Withdrawn(shown, now, st) /\ id \notin now.sees \ sighted
  <2>1. frames = <<>>
    BY <1>7 DEF ActorFrames
  <2>2. id \notin Retaken(shown, sighted, now, st) /\ id \notin Formed(shown, sighted, now, st)
    BY <1>7 DEF Retaken, Formed
  <2> QED BY <2>1, <2>2, FoldedEmpty DEF Reformed
<1> QED BY <1>4, <1>5, <1>6, <1>7

\* A record with a state's fields is those fields.
LEMMA OfItsParts ==
  ASSUME NEW y, y = [f \in DOMAIN y |-> y[f]],
         DOMAIN y = {"scenes", "actors", "tokens", "session", "conditions", "notes"}
  PROVE  y = [scenes |-> y.scenes, session |-> y.session, notes |-> y.notes, tokens |-> y.tokens,
              actors |-> y.actors, conditions |-> y.conditions]
OBVIOUS

LEMMA Repopulated ==
  ASSUME NEW x \in State, NEW tokens, NEW actors, NEW conditions
  PROVE  [x EXCEPT !.tokens = tokens, !.actors = actors, !.conditions = conditions]
           = [scenes |-> x.scenes, session |-> x.session, notes |-> x.notes,
              tokens |-> tokens, actors |-> actors, conditions |-> conditions]
<1> DEFINE y == [x EXCEPT !.tokens = tokens, !.actors = actors, !.conditions = conditions]
<1>1. /\ y.tokens = tokens /\ y.actors = actors /\ y.conditions = conditions
      /\ y.scenes = x.scenes /\ y.session = x.session /\ y.notes = x.notes
      /\ DOMAIN y = {"scenes", "actors", "tokens", "session", "conditions", "notes"}
      /\ y = [f \in DOMAIN y |-> y[f]]
  BY DEF State
<1> HIDE DEF y
<1>2. y = [scenes |-> y.scenes, session |-> y.session, notes |-> y.notes, tokens |-> y.tokens,
           actors |-> y.actors, conditions |-> y.conditions]
  BY <1>1, OfItsParts
<1> QED BY <1>1, <1>2 DEF y

\* A log once the actors of D are told.
ActorsTold(x, shown, sighted, now, st, D) ==
  LET retaken == D \cap Retaken(shown, sighted, now, st)
      formed == D \cap Formed(shown, sighted, now, st)
  IN  [x EXCEPT
         !.tokens = [t \in Tokens |-> IF HasToken(shown, t) /\ shown.tokens[t].actor \in retaken
                                      THEN None ELSE x.tokens[t]],
         !.actors = [a \in Actors |-> IF a \in formed THEN FormOf(st, a, a \in now.sees)
                                      ELSE x.actors[a]],
         !.conditions = [a \in Actors |-> IF a \in formed THEN TurnsOf(st, a, a \in now.sees)
                                          ELSE x.conditions[a]]]

LEMMA ActorsToldParts ==
  ASSUME NEW x \in State, NEW shown, NEW sighted, NEW now, NEW st, NEW D
  PROVE  LET y == ActorsTold(x, shown, sighted, now, st, D)
         IN  /\ y = [scenes |-> x.scenes, session |-> x.session, notes |-> x.notes,
                     tokens |-> y.tokens, actors |-> y.actors, conditions |-> y.conditions]
             /\ y.tokens = [t \in Tokens |->
                   IF HasToken(shown, t) /\ shown.tokens[t].actor \in D \cap Retaken(shown, sighted, now, st)
                   THEN None ELSE x.tokens[t]]
             /\ y.actors = [a \in Actors |->
                   IF a \in D \cap Formed(shown, sighted, now, st) THEN FormOf(st, a, a \in now.sees)
                   ELSE x.actors[a]]
             /\ y.conditions = [a \in Actors |->
                   IF a \in D \cap Formed(shown, sighted, now, st) THEN TurnsOf(st, a, a \in now.sees)
                   ELSE x.conditions[a]]
<1> DEFINE toks == [t \in Tokens |->
                      IF HasToken(shown, t) /\ shown.tokens[t].actor \in D \cap Retaken(shown, sighted, now, st)
                      THEN None ELSE x.tokens[t]]
           acts == [a \in Actors |->
                      IF a \in D \cap Formed(shown, sighted, now, st) THEN FormOf(st, a, a \in now.sees)
                      ELSE x.actors[a]]
           conds == [a \in Actors |->
                       IF a \in D \cap Formed(shown, sighted, now, st) THEN TurnsOf(st, a, a \in now.sees)
                       ELSE x.conditions[a]]
<1>1. ActorsTold(x, shown, sighted, now, st, D)
        = [x EXCEPT !.tokens = toks, !.actors = acts, !.conditions = conds]
  BY DEF ActorsTold
<1> HIDE DEF toks, acts, conds
<1>2. [x EXCEPT !.tokens = toks, !.actors = acts, !.conditions = conds]
        = [scenes |-> x.scenes, session |-> x.session, notes |-> x.notes,
           tokens |-> toks, actors |-> acts, conditions |-> conds]
  BY Repopulated
<1> QED BY <1>1, <1>2 DEF toks, acts, conds

LEMMA ActorsToldType ==
  ASSUME NEW shown, NEW st, NEW eyes, NEW now, Fit(shown, st, eyes, now), NEW sighted,
         NEW x \in State, NEW D \in SUBSET now.actors
  PROVE  ActorsTold(x, shown, sighted, now, st, D) \in State
<1> DEFINE y == ActorsTold(x, shown, sighted, now, st, D)
<1>1. \A a \in D : a \in Actors /\ FormOf(st, a, a \in now.sees) \in Actor
                   /\ TurnsOf(st, a, a \in now.sees) \in SUBSET Conditions
  <2> TAKE a \in D
  <2>1. a \in Actors /\ HasActor(st, a) /\ st \in GoodStates /\ (a \in now.sees) \in BOOLEAN
    BY DEF Fit, Looked
  <2> QED BY <2>1, FormOfType
<1>2. x.tokens \in [Tokens -> Token \cup {None}] /\ x.actors \in [Actors -> Actor \cup {None}]
      /\ x.conditions \in [Actors -> SUBSET Conditions]
      /\ x.scenes \in [Scenes -> Scene \cup {None}] /\ x.session \in SessionIds \cup {None}
      /\ x.notes \in [NoteKeys -> Visibilities \cup {None}]
  BY DEF State
<1>3. /\ y = [scenes |-> x.scenes, session |-> x.session, notes |-> x.notes,
              tokens |-> y.tokens, actors |-> y.actors, conditions |-> y.conditions]
      /\ y.tokens = [t \in Tokens |->
            IF HasToken(shown, t) /\ shown.tokens[t].actor \in D \cap Retaken(shown, sighted, now, st)
            THEN None ELSE x.tokens[t]]
      /\ y.actors = [a \in Actors |->
            IF a \in D \cap Formed(shown, sighted, now, st) THEN FormOf(st, a, a \in now.sees)
            ELSE x.actors[a]]
      /\ y.conditions = [a \in Actors |->
            IF a \in D \cap Formed(shown, sighted, now, st) THEN TurnsOf(st, a, a \in now.sees)
            ELSE x.conditions[a]]
  BY ActorsToldParts
<1> HIDE DEF y
<1>4. y.tokens \in [Tokens -> Token \cup {None}]
  BY <1>2, <1>3
<1>5. y.actors \in [Actors -> Actor \cup {None}]
  BY <1>1, <1>2, <1>3
<1>6. y.conditions \in [Actors -> SUBSET Conditions]
  BY <1>1, <1>2, <1>3
<1>7. y \in State
  BY <1>2, <1>3, <1>4, <1>5, <1>6 DEF State
<1> QED BY <1>7 DEF y

LEMMA RetakenAreFormed ==
  ASSUME NEW shown, NEW sighted, NEW now, NEW st
  PROVE  Retaken(shown, sighted, now, st) \subseteq Formed(shown, sighted, now, st)
BY DEF Retaken, Formed

LEMMA WithFormParts ==
  ASSUME NEW x \in State, NEW st, NEW now, NEW id \in Actors
  PROVE  LET y == WithForm(x, st, now, id)
         IN  y = [scenes |-> x.scenes, session |-> x.session, notes |-> x.notes, tokens |-> x.tokens,
                  actors |-> [a \in Actors |-> IF a = id THEN FormOf(st, id, id \in now.sees)
                                               ELSE x.actors[a]],
                  conditions |-> [a \in Actors |-> IF a = id THEN TurnsOf(st, id, id \in now.sees)
                                                   ELSE x.conditions[a]]]
<1> DEFINE b == FormOf(st, id, id \in now.sees)
           d == TurnsOf(st, id, id \in now.sees)
<1>1. WithForm(x, st, now, id) = WithActor(x, id, b, d)
  BY DEF WithForm
<1> HIDE DEF b, d
<1>2. WithActor(x, id, b, d)
        = [scenes |-> x.scenes, session |-> x.session, notes |-> x.notes, tokens |-> x.tokens,
           actors |-> [x.actors EXCEPT ![id] = b], conditions |-> [x.conditions EXCEPT ![id] = d]]
  <2>1. WithActor(x, id, b, d)
          = [x EXCEPT !.tokens = x.tokens, !.actors = [x.actors EXCEPT ![id] = b],
                      !.conditions = [x.conditions EXCEPT ![id] = d]]
    BY DEF WithActor, State
  <2> QED BY <2>1, Repopulated
<1>3. /\ [x.actors EXCEPT ![id] = b] = [a \in Actors |-> IF a = id THEN b ELSE x.actors[a]]
      /\ [x.conditions EXCEPT ![id] = d] = [a \in Actors |-> IF a = id THEN d ELSE x.conditions[a]]
  BY DEF State
<1> QED BY <1>1, <1>2, <1>3 DEF b, d

LEMMA WithoutTokensParts ==
  ASSUME NEW x \in State, NEW S
  PROVE  WithoutTokens(x, S)
           = [scenes |-> x.scenes, session |-> x.session, notes |-> x.notes,
              tokens |-> [t \in Tokens |-> IF t \in S THEN None ELSE x.tokens[t]],
              actors |-> x.actors, conditions |-> x.conditions]
BY DEF WithoutTokens, State

\* One more actor told.
LEMMA ToldOneMore ==
  ASSUME NEW shown, NEW st, NEW eyes, NEW now, Fit(shown, st, eyes, now), NEW sighted,
         NEW x \in State, x.tokens = shown.tokens,
         NEW D \in SUBSET now.actors, NEW id \in now.actors \ D
  PROVE  Reformed(ActorsTold(x, shown, sighted, now, st, D), shown, sighted, now, st, id)
           = ActorsTold(x, shown, sighted, now, st, D \cup {id})
<1> DEFINE y == ActorsTold(x, shown, sighted, now, st, D)
           z == ActorsTold(x, shown, sighted, now, st, D \cup {id})
           R == Retaken(shown, sighted, now, st)
           F == Formed(shown, sighted, now, st)
           S == Standing(shown, id)
<1>1. id \in Actors
  BY DEF Fit, Looked
<1>2. R \subseteq F
  BY RetakenAreFormed
<1>3. y \in State
  BY ActorsToldType
<1>4. /\ y = [scenes |-> x.scenes, session |-> x.session, notes |-> x.notes,
              tokens |-> y.tokens, actors |-> y.actors, conditions |-> y.conditions]
      /\ y.tokens = [t \in Tokens |-> IF HasToken(shown, t) /\ shown.tokens[t].actor \in D \cap R
                                      THEN None ELSE x.tokens[t]]
      /\ y.actors = [a \in Actors |-> IF a \in D \cap F THEN FormOf(st, a, a \in now.sees) ELSE x.actors[a]]
      /\ y.conditions = [a \in Actors |-> IF a \in D \cap F THEN TurnsOf(st, a, a \in now.sees) ELSE x.conditions[a]]
  BY ActorsToldParts
<1>5. /\ z = [scenes |-> x.scenes, session |-> x.session, notes |-> x.notes,
              tokens |-> z.tokens, actors |-> z.actors, conditions |-> z.conditions]
      /\ z.tokens = [t \in Tokens |-> IF HasToken(shown, t) /\ shown.tokens[t].actor \in (D \cup {id}) \cap R
                                      THEN None ELSE x.tokens[t]]
      /\ z.actors = [a \in Actors |-> IF a \in (D \cup {id}) \cap F THEN FormOf(st, a, a \in now.sees) ELSE x.actors[a]]
      /\ z.conditions = [a \in Actors |-> IF a \in (D \cup {id}) \cap F THEN TurnsOf(st, a, a \in now.sees) ELSE x.conditions[a]]
  BY ActorsToldParts
<1> HIDE DEF y, z, R, F
<1>6. CASE id \in R
  <2> DEFINE w == WithoutTokens(y, S)
  <2>1. w = [scenes |-> y.scenes, session |-> y.session, notes |-> y.notes,
             tokens |-> [t \in Tokens |-> IF t \in S THEN None ELSE y.tokens[t]],
             actors |-> y.actors, conditions |-> y.conditions] /\ w \in State
    <3>1. S \in SUBSET Tokens
      BY DEF Standing
    <3> QED BY <1>3, <3>1, WithoutTokensParts, WithoutTokensType
  <2>2. Reformed(y, shown, sighted, now, st, id) = WithForm(w, st, now, id)
    BY <1>6 DEF Reformed, R
  <2> HIDE DEF w
  <2>3. WithForm(w, st, now, id)
          = [scenes |-> w.scenes, session |-> w.session, notes |-> w.notes, tokens |-> w.tokens,
             actors |-> [a \in Actors |-> IF a = id THEN FormOf(st, id, id \in now.sees) ELSE w.actors[a]],
             conditions |-> [a \in Actors |-> IF a = id THEN TurnsOf(st, id, id \in now.sees)
                                              ELSE w.conditions[a]]]
    BY <1>1, <2>1, WithFormParts
  <2>4. w.tokens = z.tokens
    BY <1>4, <1>5, <1>6, <2>1 DEF Standing
  <2>5. [a \in Actors |-> IF a = id THEN FormOf(st, id, id \in now.sees) ELSE w.actors[a]] = z.actors
    BY <1>2, <1>4, <1>5, <1>6, <2>1
  <2>6. [a \in Actors |-> IF a = id THEN TurnsOf(st, id, id \in now.sees) ELSE w.conditions[a]] = z.conditions
    BY <1>2, <1>4, <1>5, <1>6, <2>1
  <2>7. w.scenes = x.scenes /\ w.session = x.session /\ w.notes = x.notes
    BY <1>4, <2>1
  <2>8. WithForm(w, st, now, id) = z
    BY <1>5, <2>3, <2>4, <2>5, <2>6, <2>7
  <2> QED BY <2>2, <2>8 DEF y, z
<1>7. CASE id \notin R /\ id \in F
  <2>1. Reformed(y, shown, sighted, now, st, id) = WithForm(y, st, now, id)
    BY <1>7 DEF Reformed, R, F
  <2>2. WithForm(y, st, now, id)
          = [scenes |-> y.scenes, session |-> y.session, notes |-> y.notes, tokens |-> y.tokens,
             actors |-> [a \in Actors |-> IF a = id THEN FormOf(st, id, id \in now.sees) ELSE y.actors[a]],
             conditions |-> [a \in Actors |-> IF a = id THEN TurnsOf(st, id, id \in now.sees)
                                              ELSE y.conditions[a]]]
    BY <1>1, <1>3, WithFormParts
  <2>3. y.tokens = z.tokens
    BY <1>4, <1>5, <1>7
  <2>4. [a \in Actors |-> IF a = id THEN FormOf(st, id, id \in now.sees) ELSE y.actors[a]] = z.actors
    BY <1>4, <1>5, <1>7
  <2>5. [a \in Actors |-> IF a = id THEN TurnsOf(st, id, id \in now.sees) ELSE y.conditions[a]] = z.conditions
    BY <1>4, <1>5, <1>7
  <2>6. y.scenes = x.scenes /\ y.session = x.session /\ y.notes = x.notes
    BY <1>4
  <2>7. WithForm(y, st, now, id) = z
    BY <1>5, <2>2, <2>3, <2>4, <2>5, <2>6
  <2> QED BY <2>1, <2>7 DEF y, z
<1>8. CASE id \notin F
  <2>1. id \notin R
    BY <1>2, <1>8
  <2>2. Reformed(y, shown, sighted, now, st, id) = y
    BY <1>8, <2>1 DEF Reformed, R, F
  <2>3. y.tokens = z.tokens /\ y.actors = z.actors /\ y.conditions = z.conditions
    BY <1>4, <1>5, <1>8, <2>1
  <2>4. y = z
    BY <1>4, <1>5, <2>3
  <2> QED BY <2>2, <2>4 DEF y, z
<1> QED BY <1>6, <1>7, <1>8

LEMMA ActorsFold ==
  ASSUME NEW shown, NEW st, NEW eyes, NEW now, Fit(shown, st, eyes, now), NEW sighted,
         NEW x \in State, x.tokens = shown.tokens, x.actors = shown.actors,
         x.conditions = shown.conditions
  PROVE  Folded(x, Each([a \in now.actors |-> ActorFrames(shown, sighted, now, st, a)]))
           = ActorsTold(x, shown, sighted, now, st, now.actors)
<1> DEFINE S == now.actors
           F == [a \in S |-> ActorFrames(shown, sighted, now, st, a)]
           G == [D \in SUBSET S |-> ActorsTold(x, shown, sighted, now, st, D)]
<1>1. ASSUME NEW D \in SUBSET S, NEW id \in S \ D
      PROVE  Folded(G[D], F[id]) = G[D \cup {id}]
  <2> DEFINE y == ActorsTold(x, shown, sighted, now, st, D)
  <2>1. y \in State
    BY ActorsToldType
  <2>2. id \in Actors
    BY DEF Fit, Looked
  <2>8. /\ y.tokens = [t \in Tokens |->
             IF HasToken(shown, t) /\ shown.tokens[t].actor \in D \cap Retaken(shown, sighted, now, st)
             THEN None ELSE x.tokens[t]]
        /\ y.actors = [a \in Actors |->
             IF a \in D \cap Formed(shown, sighted, now, st) THEN FormOf(st, a, a \in now.sees)
             ELSE x.actors[a]]
        /\ y.conditions = [a \in Actors |->
             IF a \in D \cap Formed(shown, sighted, now, st) THEN TurnsOf(st, a, a \in now.sees)
             ELSE x.conditions[a]]
    BY ActorsToldParts
  <2> HIDE DEF y
  <2>3. y.actors[id] = shown.actors[id] /\ y.conditions[id] = shown.conditions[id]
    BY <2>2, <2>8
  <2>4. \A t \in Tokens : HasToken(y, t) /\ y.tokens[t].actor = id => t \in Standing(shown, id)
    BY <2>8 DEF HasToken, Standing
  <2>5. Folded(y, ActorFrames(shown, sighted, now, st, id)) = Reformed(y, shown, sighted, now, st, id)
    BY <2>1, <2>3, <2>4, ActorFramesFold
  <2>6. Reformed(y, shown, sighted, now, st, id) = ActorsTold(x, shown, sighted, now, st, D \cup {id})
    BY ToldOneMore DEF y
  <2>7. G[D] = y /\ F[id] = ActorFrames(shown, sighted, now, st, id)
        /\ G[D \cup {id}] = ActorsTold(x, shown, sighted, now, st, D \cup {id})
    BY DEF y
  <2> QED BY <2>5, <2>6, <2>7
<1>2. S \in SUBSET Actors
  BY DEF Fit, Looked
<1>3. F \in [S -> Seq(Known)]
  BY ActorFramesType DEF Fit
<1>4. G[{}] = x
  <2>1. ActorsTold(x, shown, sighted, now, st, {}) = x
    BY DEF ActorsTold, State
  <2> QED BY <2>1
<1>5. G[S] = ActorsTold(x, shown, sighted, now, st, now.actors)
  OBVIOUS
<1> HIDE DEF F, G, S
<1>6. \A D \in SUBSET S : \A id \in S \ D : Folded(G[D], F[id]) = G[D \cup {id}]
  BY <1>1
<1>7. Folded(G[{}], Each(F)) = G[S]
  BY <1>2, <1>3, <1>6, Finite, EachFolds
<1> QED BY <1>4, <1>5, <1>7 DEF F, S

-----------------------------------------------------------------------------
(* Scenes, doors, tokens and notes.                                        *)

WithScenes(x, scenes) == [x EXCEPT !.scenes = scenes]
WithTokens(x, tokens) == [x EXCEPT !.tokens = tokens]
WithNotes(x, notes) == [x EXCEPT !.notes = notes]

LEMMA WithPartIs ==
  ASSUME NEW x \in State
  PROVE  /\ \A scenes \in [Scenes -> Scene \cup {None}] :
              WithScenes(x, scenes) \in State /\ WithScenes(x, scenes).scenes = scenes
         /\ \A tokens \in [Tokens -> Token \cup {None}] :
              WithTokens(x, tokens) \in State /\ WithTokens(x, tokens).tokens = tokens
         /\ \A notes \in [NoteKeys -> Visibilities \cup {None}] :
              WithNotes(x, notes) \in State /\ WithNotes(x, notes).notes = notes
         /\ WithScenes(x, x.scenes) = x /\ WithTokens(x, x.tokens) = x /\ WithNotes(x, x.notes) = x
BY DEF WithScenes, WithTokens, WithNotes, State

LEMMA WithPartTwice ==
  ASSUME NEW x \in State, NEW f, NEW g
  PROVE  /\ WithScenes(WithScenes(x, f), g) = WithScenes(x, g)
         /\ WithTokens(WithTokens(x, f), g) = WithTokens(x, g)
         /\ WithNotes(WithNotes(x, f), g) = WithNotes(x, g)
BY DEF WithScenes, WithTokens, WithNotes, State

Blank == [open |-> {}, visible |-> None, explored |-> {}]

LEMMA CreationFold ==
  ASSUME NEW shown \in GoodStates, NEW st, NEW eyes, NEW now, Looked(st, eyes, now),
         NEW x \in State, x.scenes = shown.scenes
  PROVE  Folded(x, CreationFrames(shown, now))
           = WithScenes(x, [s \in Scenes |-> IF s \in DOMAIN now.squares \ HeldScenes(shown)
                                             THEN Blank ELSE shown.scenes[s]])
<1> DEFINE S == DOMAIN now.squares \ HeldScenes(shown)
           f(D) == [s \in Scenes |-> IF s \in D THEN Blank ELSE shown.scenes[s]]
           E == [s \in S |-> [type |-> "SceneCreated", scene |-> s]]
           G == [D \in SUBSET S |-> WithScenes(x, f(D))]
<1>0. shown \in State
  BY DEF GoodStates
<1>1. S \in SUBSET Scenes /\ \A s \in S : shown.scenes[s] = None
  BY DEF Looked, HeldScenes, HasScene
<1>2. \A D \in SUBSET S : f(D) \in [Scenes -> Scene \cup {None}]
  BY <1>0 DEF Blank, Scene, State
<1>3. \A D \in SUBSET S : G[D] \in State /\ G[D].scenes = f(D)
  BY <1>0, <1>2, WithPartIs
<1> HIDE DEF S
<1>4. ASSUME NEW D \in SUBSET S, NEW s \in S \ D
      PROVE  Accepts(G[D], E[s]) /\ After(G[D], E[s]) = G[D \cup {s}]
  <2> DEFINE y == G[D]
             e == [type |-> "SceneCreated", scene |-> s]
  <2>1. y.scenes = f(D) /\ y \in State /\ E[s] = e /\ s \in Scenes
    BY <1>1, <1>3
  <2>2. y.scenes[s] = None
    BY <1>1, <2>1
  <2>3. [f(D) EXCEPT ![s] = Blank] = f(D \cup {s})
    BY <2>1
  <2>4. y = WithScenes(x, f(D)) /\ G[D \cup {s}] = WithScenes(x, f(D \cup {s}))
    OBVIOUS
  <2> HIDE DEF y, f, E, G
  <2>5. Accepts(y, e)
    BY <2>2 DEF Accepts, HasScene
  <2>6. After(y, e) = [y EXCEPT !.scenes[s] = Blank]
    BY DEF After, Blank
  <2>7. [y EXCEPT !.scenes[s] = Blank] = WithScenes(y, [f(D) EXCEPT ![s] = Blank])
    BY <2>1 DEF WithScenes, State
  <2> QED BY <1>0, <2>1, <2>3, <2>4, <2>5, <2>6, <2>7, WithPartTwice DEF y
<1>5. CreationFrames(shown, now) = Each([s \in S |-> <<E[s]>>])
  <2>1. [s \in S |-> <<E[s]>>] = [s \in S |-> <<[type |-> "SceneCreated", scene |-> s]>>]
    OBVIOUS
  <2> QED BY <2>1 DEF CreationFrames, S
<1>6. G[{}] = x
  <2>1. f({}) = x.scenes
    BY <1>0 DEF State
  <2> QED BY <1>0, <2>1, WithPartIs
<1>7. G[S] = WithScenes(x, f(S))
  OBVIOUS
<1> HIDE DEF E, G
<1>8. \A D \in SUBSET S : \A s \in S \ D : Accepts(G[D], E[s]) /\ After(G[D], E[s]) = G[D \cup {s}]
  BY <1>4
<1>9. IsFiniteSet(S) /\ \A D \in SUBSET S : G[D] \in State
  BY <1>1, <1>3, Finite
<1> HIDE DEF f
<1>10. Folded(G[{}], Each([s \in S |-> <<E[s]>>])) = G[S]
  BY <1>8, <1>9, EachSteps
<1> QED BY <1>5, <1>6, <1>7, <1>10 DEF S, f

\* The doors of a scene, once those in sight are set as the world has them.
Ajar(shown, cause, now, st, s) ==
  {q \in Squares :
     IF q \in Lit(now, s) /\ ~IsDoorOf(cause, s, q) THEN q \in st.scenes[s].open
     ELSE q \in Believed(shown, s)}

WithOpen(x, s, open) == WithScenes(x, [x.scenes EXCEPT ![s] = [x.scenes[s] EXCEPT !.open = open]])

LEMMA WithOpenIs ==
  ASSUME NEW x \in State, NEW s \in Scenes, HasScene(x, s), NEW open \in SUBSET Squares
  PROVE  /\ WithOpen(x, s, open) \in State /\ HasScene(WithOpen(x, s, open), s)
         /\ WithOpen(x, s, open).scenes[s].open = open
<1> DEFINE v == [x.scenes[s] EXCEPT !.open = open]
           f == [x.scenes EXCEPT ![s] = v]
<1>1. x.scenes \in [Scenes -> Scene \cup {None}] /\ x.scenes[s] \in Scene
  BY DEF State, HasScene
<1>2. v \in Scene /\ v.open = open /\ v # None
  BY <1>1, EngineAssumption DEF Scene
<1> HIDE DEF v
<1>3. f \in [Scenes -> Scene \cup {None}] /\ f[s] = v
  BY <1>1, <1>2
<1>4. WithScenes(x, f) \in State /\ WithScenes(x, f).scenes = f
  BY <1>3, WithPartIs
<1>5. WithOpen(x, s, open) = WithScenes(x, f)
  BY DEF WithOpen, v
<1> HIDE DEF f
<1> QED BY <1>2, <1>3, <1>4, <1>5 DEF HasScene, f, v

LEMMA WithOpenTwice ==
  ASSUME NEW x \in State, NEW s \in Scenes, HasScene(x, s), NEW open \in SUBSET Squares, NEW ajar
  PROVE  WithOpen(WithOpen(x, s, open), s, ajar) = WithOpen(x, s, ajar)
<1> DEFINE y == WithOpen(x, s, open)
           f == [x.scenes EXCEPT ![s] = [x.scenes[s] EXCEPT !.open = open]]
<1>1. y.scenes = f /\ y = WithScenes(x, f)
  BY DEF WithOpen, WithScenes, State
<1>2. x.scenes \in [Scenes -> Scene \cup {None}] /\ x.scenes[s] \in Scene
  BY DEF State, HasScene
<1>3. [f EXCEPT ![s] = [f[s] EXCEPT !.open = ajar]]
        = [x.scenes EXCEPT ![s] = [x.scenes[s] EXCEPT !.open = ajar]]
  BY <1>2 DEF Scene
<1>4. WithOpen(y, s, ajar) = WithScenes(y, [f EXCEPT ![s] = [f[s] EXCEPT !.open = ajar]])
  BY <1>1 DEF WithOpen
<1> HIDE DEF y, f
<1>5. WithScenes(y, [x.scenes EXCEPT ![s] = [x.scenes[s] EXCEPT !.open = ajar]])
        = WithScenes(x, [x.scenes EXCEPT ![s] = [x.scenes[s] EXCEPT !.open = ajar]])
  BY <1>1, WithPartTwice
<1> QED BY <1>3, <1>4, <1>5 DEF WithOpen, y

LEMMA DoorFramesFold ==
  ASSUME NEW shown, NEW cause, NEW st, NEW eyes, NEW now, Looked(st, eyes, now),
         NEW s \in Scenes, NEW x \in State, HasScene(x, s), x.scenes[s].open = Believed(shown, s)
  PROVE  Folded(x, DoorFrames(shown, cause, now, st, s)) = WithOpen(x, s, Ajar(shown, cause, now, st, s))
<1> DEFINE open == st.scenes[s].open
           was == Believed(shown, s)
           amiss == {sq \in Lit(now, s) : (sq \in open) # (sq \in was)}
           S == {q \in amiss : ~IsDoorOf(cause, s, q)}
           set(D) == (was \ D) \cup (D \cap open)
           E == [sq \in S |-> [type |-> IF sq \in open THEN "DoorOpened" ELSE "DoorClosed",
                               scene |-> s, at |-> sq]]
           G == [D \in SUBSET S |-> WithOpen(x, s, set(D))]
<1>1. DoorFrames(shown, cause, now, st, s) = Each([q \in S |-> <<E[q]>>])
  <2>1. [q \in S |-> <<E[q]>>]
          = [q \in S |-> <<[type |-> IF q \in open THEN "DoorOpened" ELSE "DoorClosed",
                            scene |-> s, at |-> q]>>]
    OBVIOUS
  <2> QED BY <2>1 DEF DoorFrames
<1>2. S \in SUBSET Squares
  BY DEF Looked
<1>3. was \in SUBSET Squares
  BY DEF State, HasScene, Scene
<1>4. set(S) = Ajar(shown, cause, now, st, s)
  BY <1>2, <1>3 DEF Ajar, Looked
<1> HIDE DEF S, amiss, was
<1>5. \A D \in SUBSET S : set(D) \in SUBSET Squares
  BY <1>2, <1>3
<1>6. \A D \in SUBSET S : G[D] \in State
  BY <1>5, WithOpenIs
<1>7. ASSUME NEW D \in SUBSET S, NEW q \in S \ D
      PROVE  Accepts(G[D], E[q]) /\ After(G[D], E[q]) = G[D \cup {q}]
  <2> DEFINE y == WithOpen(x, s, set(D))
             e == E[q]
             to == IF q \in open THEN set(D) \cup {q} ELSE set(D) \ {q}
  <2>1. e.type = (IF q \in open THEN "DoorOpened" ELSE "DoorClosed") /\ e.scene = s /\ e.at = q
    OBVIOUS
  <2>2. to = set(D \cup {q})
    OBVIOUS
  <2>3. set(D) \in SUBSET Squares
    BY <1>5
  <2>4. G[D] = y /\ G[D \cup {q}] = WithOpen(x, s, set(D \cup {q}))
    OBVIOUS
  <2> HIDE DEF e, E, G, set, open
  <2>5. y \in State /\ HasScene(y, s) /\ y.scenes[s].open = set(D) /\ q # None
    <3>1. q # None
      BY <1>2, EngineAssumption
    <3>2. y \in State /\ HasScene(y, s) /\ y.scenes[s].open = set(D)
      <4> DEFINE ajar == set(D)
      <4>1. ajar \in SUBSET Squares
        BY <2>3
      <4> HIDE DEF ajar
      <4>2. WithOpen(x, s, ajar) \in State /\ HasScene(WithOpen(x, s, ajar), s)
            /\ WithOpen(x, s, ajar).scenes[s].open = ajar
        BY <4>1, WithOpenIs
      <4> QED BY <4>2 DEF ajar
    <3> QED BY <3>1, <3>2
  <2>6. WithOpen(y, s, to) = WithOpen(x, s, to)
    BY <2>3, WithOpenTwice
  <2> HIDE DEF y, to
  <2>7. Accepts(y, e)
    BY <2>1, <2>5 DEF Accepts
  <2>8. After(y, e) = WithOpen(y, s, to)
    <3>1. [y EXCEPT !.scenes[s].open = to] = WithOpen(y, s, to)
      BY <2>5 DEF WithOpen, WithScenes, State, HasScene
    <3>2. After(y, e) = [y EXCEPT !.scenes[s].open = to]
      BY <2>1, <2>5 DEF After, to
    <3> QED BY <3>1, <3>2
  <2> QED BY <2>2, <2>4, <2>6, <2>7, <2>8 DEF e
<1>8. G[{}] = x
  <2>1. set({}) = x.scenes[s].open
    BY DEF was
  <2>2. WithOpen(x, s, x.scenes[s].open) = x
    BY DEF WithOpen, WithScenes, State, HasScene, Scene
  <2> QED BY <2>1, <2>2
<1>9. G[S] = WithOpen(x, s, set(S))
  OBVIOUS
<1> HIDE DEF E, G, set
<1>10. Folded(G[{}], Each([q \in S |-> <<E[q]>>])) = G[S]
  BY <1>2, <1>6, <1>7, Finite, EachSteps
<1> QED BY <1>1, <1>4, <1>8, <1>9, <1>10

\* The scenes of a log, the doors of those that are seen set as they stand.
WithDoors(x, shown, cause, now, st) ==
  [s \in Scenes |-> IF s \in DOMAIN now.squares
                    THEN [x.scenes[s] EXCEPT !.open = Ajar(shown, cause, now, st, s)]
                    ELSE x.scenes[s]]

LEMMA DoorsFold ==
  ASSUME NEW shown \in GoodStates, NEW cause, NEW st \in GoodStates, NEW eyes, NEW now,
         Looked(st, eyes, now), NEW x \in State,
         \A s \in DOMAIN now.squares : HasScene(x, s) /\ x.scenes[s].open = Believed(shown, s)
  PROVE  Folded(x, Each([s \in DOMAIN now.squares |-> DoorFrames(shown, cause, now, st, s)]))
           = WithScenes(x, WithDoors(x, shown, cause, now, st))
<1> DEFINE S == DOMAIN now.squares
           ajar(s) == Ajar(shown, cause, now, st, s)
           f(D) == [s \in Scenes |-> IF s \in D THEN [x.scenes[s] EXCEPT !.open = ajar(s)]
                                     ELSE x.scenes[s]]
           F == [s \in S |-> DoorFrames(shown, cause, now, st, s)]
           G == [D \in SUBSET S |-> WithScenes(x, f(D))]
<1>1. S \in SUBSET Scenes
  BY DEF Looked
<1>2. \A s \in S : HasScene(x, s) /\ x.scenes[s] \in Scene /\ x.scenes[s].open = Believed(shown, s)
                   /\ ajar(s) \in SUBSET Squares
  BY DEF HasScene, State, Ajar
<1>3. x.scenes \in [Scenes -> Scene \cup {None}]
  BY DEF State
<1> HIDE DEF S, ajar
<1>4. ASSUME NEW D \in SUBSET S PROVE f(D) \in [Scenes -> Scene \cup {None}]
  <2>1. \A s \in D : [x.scenes[s] EXCEPT !.open = ajar(s)] \in Scene
    BY <1>2 DEF Scene
  <2> QED BY <1>3, <2>1
<1>5. ASSUME NEW D \in SUBSET S, NEW s \in S \ D
      PROVE  Folded(G[D], F[s]) = G[D \cup {s}]
  <2> DEFINE y == WithScenes(x, f(D))
             g == f(D)
  <2>1. s \in Scenes /\ s \in S
    BY <1>1
  <2>2. g \in [Scenes -> Scene \cup {None}] /\ g[s] = x.scenes[s]
    BY <1>4, <2>1
  <2>3. [g EXCEPT ![s] = [g[s] EXCEPT !.open = ajar(s)]] = f(D \cup {s})
    BY <1>3, <2>1
  <2>4. y = WithScenes(x, g)
    OBVIOUS
  <2>5. G[D] = y /\ G[D \cup {s}] = WithScenes(x, f(D \cup {s}))
        /\ F[s] = DoorFrames(shown, cause, now, st, s)
    OBVIOUS
  <2> HIDE DEF g, y, f, G, F
  <2>6. y \in State /\ y.scenes = g
    BY <2>2, <2>4, WithPartIs
  <2>7. HasScene(y, s) /\ y.scenes[s].open = Believed(shown, s)
    BY <1>2, <2>1, <2>2, <2>6 DEF HasScene
  <2>8. Folded(y, DoorFrames(shown, cause, now, st, s)) = WithOpen(y, s, ajar(s))
    BY <2>1, <2>6, <2>7, DoorFramesFold DEF ajar
  <2>9. WithOpen(y, s, ajar(s)) = WithScenes(y, [g EXCEPT ![s] = [g[s] EXCEPT !.open = ajar(s)]])
    BY <2>6 DEF WithOpen
  <2>10. WithScenes(y, f(D \cup {s})) = WithScenes(x, f(D \cup {s}))
    BY <2>4, WithPartTwice
  <2> QED BY <2>3, <2>5, <2>8, <2>9, <2>10
<1>6. F \in [S -> Seq(Known)]
  BY <1>1, DoorFramesType DEF S
<1>7. G[{}] = x
  <2>1. f({}) = x.scenes
    BY <1>3
  <2> QED BY <2>1, WithPartIs
<1>8. G[S] = WithScenes(x, f(S))
  OBVIOUS
<1> HIDE DEF F, G, f
<1>9. \A D \in SUBSET S : \A s \in S \ D : Folded(G[D], F[s]) = G[D \cup {s}]
  BY <1>5
<1>10. Folded(G[{}], Each(F)) = G[S]
  BY <1>1, <1>6, <1>9, Finite, EachFolds
<1> QED BY <1>7, <1>8, <1>10 DEF F, S, f, ajar, WithDoors

\* A scene as it is lit now.
Relit(sc, now, s) ==
  [sc EXCEPT !.visible = Lit(now, s), !.explored = @ \cup (Lit(now, s) \cap DOMAIN Terrain[s].tiles)]

LEMMA SceneFramesFold ==
  ASSUME NEW shown, NEW st, NEW eyes, NEW now, Looked(st, eyes, now), NEW x \in State,
         \A s \in HeldScenes(shown) \cup DOMAIN now.squares : HasScene(x, s)
  PROVE  Folded(x, SceneFrames(shown, now))
           = WithScenes(x, [s \in Scenes |->
                IF /\ s \in HeldScenes(shown) \cup DOMAIN now.squares
                   /\ Shown(shown, s) # Lit(now, s)
                THEN Relit(x.scenes[s], now, s) ELSE x.scenes[s]])
<1> DEFINE S == {r \in HeldScenes(shown) \cup DOMAIN now.squares : Shown(shown, r) # Lit(now, r)}
           f(D) == [s \in Scenes |-> IF s \in D THEN Relit(x.scenes[s], now, s) ELSE x.scenes[s]]
           E == [s \in S |-> SceneFrame(now, s)]
           G == [D \in SUBSET S |-> WithScenes(x, f(D))]
<1>1. S \in SUBSET Scenes
  BY DEF Looked, HeldScenes
<1>2. \A s \in S : HasScene(x, s) /\ x.scenes[s] \in Scene /\ Lit(now, s) \subseteq Squares
  BY DEF HasScene, State, Looked
<1>3. x.scenes \in [Scenes -> Scene \cup {None}]
  BY DEF State
<1>4. f(S) = [s \in Scenes |->
                IF /\ s \in HeldScenes(shown) \cup DOMAIN now.squares
                   /\ Shown(shown, s) # Lit(now, s)
                THEN Relit(x.scenes[s], now, s) ELSE x.scenes[s]]
  OBVIOUS
<1>5. SceneFrames(shown, now) = Each([s \in S |-> <<E[s]>>])
  <2>1. [s \in S |-> <<E[s]>>] = [s \in S |-> <<SceneFrame(now, s)>>]
    OBVIOUS
  <2> QED BY <2>1 DEF SceneFrames
<1> HIDE DEF S
<1>6. ASSUME NEW D \in SUBSET S PROVE f(D) \in [Scenes -> Scene \cup {None}]
  <2>1. \A s \in D : Relit(x.scenes[s], now, s) \in Scene
    BY <1>2 DEF Scene, Relit
  <2> QED BY <1>3, <2>1
<1>7. ASSUME NEW D \in SUBSET S, NEW s \in S \ D
      PROVE  Accepts(G[D], E[s]) /\ After(G[D], E[s]) = G[D \cup {s}]
  <2> DEFINE y == WithScenes(x, f(D))
             g == f(D)
             e == SceneFrame(now, s)
  <2>1. s \in Scenes /\ s \in S
    BY <1>1
  <2>2. g \in [Scenes -> Scene \cup {None}] /\ g[s] = x.scenes[s]
    BY <1>6, <2>1
  <2>3. [g EXCEPT ![s] = Relit(g[s], now, s)] = f(D \cup {s})
    BY <1>3, <2>1
  <2>4. y = WithScenes(x, g)
    OBVIOUS
  <2>5. G[D] = y /\ G[D \cup {s}] = WithScenes(x, f(D \cup {s})) /\ E[s] = e
    OBVIOUS
  <2> HIDE DEF g, y, f, G, E
  <2>6. y \in State /\ y.scenes = g
    BY <2>2, <2>4, WithPartIs
  <2>7. HasScene(y, s)
    BY <1>2, <2>1, <2>2, <2>6 DEF HasScene
  <2>8. Accepts(y, e)
    BY <2>7 DEF Accepts, SceneFrame
  <2>9. After(y, e) = [y EXCEPT !.scenes[s] = Seen(@, e)]
    BY DEF After, SceneFrame
  <2>10. Seen(g[s], e) = Relit(g[s], now, s)
    BY DEF Seen, SceneFrame, Relit
  <2>11. [y EXCEPT !.scenes[s] = Seen(@, e)] = WithScenes(y, [g EXCEPT ![s] = Seen(g[s], e)])
    BY <2>1, <2>6 DEF WithScenes, State
  <2>12. WithScenes(y, f(D \cup {s})) = WithScenes(x, f(D \cup {s}))
    BY <2>4, WithPartTwice
  <2> QED BY <2>3, <2>5, <2>8, <2>9, <2>10, <2>11, <2>12
<1>8. \A D \in SUBSET S : G[D] \in State
  BY <1>6, WithPartIs
<1>9. G[{}] = x
  <2>1. f({}) = x.scenes
    BY <1>3
  <2> QED BY <2>1, WithPartIs
<1>10. G[S] = WithScenes(x, f(S))
  OBVIOUS
<1> HIDE DEF E, G, f
<1>11. \A D \in SUBSET S : \A s \in S \ D : Accepts(G[D], E[s]) /\ After(G[D], E[s]) = G[D \cup {s}]
  BY <1>7
<1>12. IsFiniteSet(S)
  BY <1>1, Finite
<1>13. Folded(G[{}], Each([s \in S |-> <<E[s]>>])) = G[S]
  BY <1>8, <1>11, <1>12, EachSteps
<1> QED BY <1>4, <1>5, <1>9, <1>10, <1>13

LEMMA TokenFramesFold ==
  ASSUME NEW shown, NEW sighted, NEW st, NEW eyes, NEW now, Looked(st, eyes, now),
         NEW x \in State,
         \A t \in Placed(shown, sighted, now, st) :
           /\ ~HasToken(x, t)
           /\ HasScene(x, st.tokens[t].scene) /\ HasActor(x, st.tokens[t].actor)
  PROVE  Folded(x, TokenFrames(shown, sighted, now, st))
           = WithTokens(x, [t \in Tokens |-> IF t \in Placed(shown, sighted, now, st)
                                             THEN st.tokens[t] ELSE x.tokens[t]])
<1> DEFINE S == Placed(shown, sighted, now, st)
           f(D) == [t \in Tokens |-> IF t \in D THEN st.tokens[t] ELSE x.tokens[t]]
           E == [t \in S |-> TokenFrame(st, t)]
           G == [D \in SUBSET S |-> WithTokens(x, f(D))]
<1>1. S \in SUBSET Tokens /\ \A t \in S : st.tokens[t] \in Token
  BY DEF Looked, Placed
<1>2. x.tokens \in [Tokens -> Token \cup {None}]
  BY DEF State
<1>5. TokenFrames(shown, sighted, now, st) = Each([t \in S |-> <<E[t]>>])
  <2>1. [t \in S |-> <<E[t]>>] = [t \in S |-> <<TokenFrame(st, t)>>]
    OBVIOUS
  <2> QED BY <2>1 DEF TokenFrames
<1>3. \A t \in S : ~HasToken(x, t) /\ HasScene(x, st.tokens[t].scene) /\ HasActor(x, st.tokens[t].actor)
  OBVIOUS
<1> HIDE DEF S
<1>6. ASSUME NEW D \in SUBSET S PROVE f(D) \in [Tokens -> Token \cup {None}]
  BY <1>1, <1>2
<1>7. ASSUME NEW D \in SUBSET S, NEW t \in S \ D
      PROVE  Accepts(G[D], E[t]) /\ After(G[D], E[t]) = G[D \cup {t}]
  <2> DEFINE y == WithTokens(x, f(D))
             g == f(D)
             e == TokenFrame(st, t)
  <2>1. t \in Tokens /\ t \in S
    BY <1>1
  <2>2. g \in [Tokens -> Token \cup {None}] /\ g[t] = x.tokens[t]
    BY <1>6, <2>1
  <2>3. [g EXCEPT ![t] = st.tokens[t]] = f(D \cup {t})
    BY <1>2, <2>1
  <2>4. y = WithTokens(x, g)
    OBVIOUS
  <2>5. G[D] = y /\ G[D \cup {t}] = WithTokens(x, f(D \cup {t})) /\ E[t] = e
    OBVIOUS
  <2> HIDE DEF g, y, f, G, E
  <2>6. y \in State /\ y.tokens = g
    BY <2>2, <2>4, WithPartIs
  <2>7. y.scenes = x.scenes /\ y.actors = x.actors
    BY <2>4 DEF WithTokens, State
  <2>8. ~HasToken(y, t) /\ HasScene(y, st.tokens[t].scene) /\ HasActor(y, st.tokens[t].actor)
    BY <1>3, <2>1, <2>2, <2>6, <2>7 DEF HasToken, HasScene, HasActor
  <2>9. st.tokens[t] \in Token /\ st.tokens[t].at # None
    BY <1>1, <2>1, EngineAssumption DEF Token
  <2>10. Accepts(y, e)
    BY <2>8, <2>9 DEF Accepts, AcceptsToken, TokenFrame
  <2>11. [scene |-> st.tokens[t].scene, actor |-> st.tokens[t].actor, at |-> st.tokens[t].at,
          text |-> st.tokens[t].text] = st.tokens[t]
    BY <2>9 DEF Token
  <2>12. After(y, e) = [y EXCEPT !.tokens[t] = st.tokens[t]]
    BY <2>11 DEF After, TokenFrame
  <2>13. [y EXCEPT !.tokens[t] = st.tokens[t]] = WithTokens(y, [g EXCEPT ![t] = st.tokens[t]])
    BY <2>1, <2>6 DEF WithTokens, State
  <2>14. WithTokens(y, f(D \cup {t})) = WithTokens(x, f(D \cup {t}))
    BY <2>4, WithPartTwice
  <2> QED BY <2>3, <2>5, <2>10, <2>12, <2>13, <2>14
<1>8. \A D \in SUBSET S : G[D] \in State
  BY <1>6, WithPartIs
<1>9. G[{}] = x
  <2>1. f({}) = x.tokens
    BY <1>2
  <2> QED BY <2>1, WithPartIs
<1>10. G[S] = WithTokens(x, f(S))
  OBVIOUS
<1> HIDE DEF E, G, f
<1>11. \A D \in SUBSET S : \A t \in S \ D : Accepts(G[D], E[t]) /\ After(G[D], E[t]) = G[D \cup {t}]
  BY <1>7
<1>12. IsFiniteSet(S)
  BY <1>1, Finite
<1>13. Folded(G[{}], Each([t \in S |-> <<E[t]>>])) = G[S]
  BY <1>8, <1>11, <1>12, EachSteps
<1> QED BY <1>5, <1>9, <1>10, <1>13 DEF S, f

\* Notes set to one value, or taken away.
NotesAs(x, S, v) == [k \in NoteKeys |-> IF k \in S THEN v ELSE x.notes[k]]

\* Each event sets its note so, and takes one away that is there.
SetNotes(E, S, v) ==
  \A k \in S, y \in State :
    (v = None => y.notes[k] # None)
      => Accepts(y, E[k]) /\ After(y, E[k]) = [y EXCEPT !.notes[k] = v]

LEMMA NotesFold ==
  ASSUME NEW x \in State, NEW S \in SUBSET NoteKeys, NEW v \in Visibilities \cup {None}, NEW E,
         SetNotes(E, S, v), v = None => \A k \in S : x.notes[k] # None
  PROVE  Folded(x, Each([k \in S |-> <<E[k]>>])) = WithNotes(x, NotesAs(x, S, v))
<1> DEFINE f(D) == NotesAs(x, D, v)
           G == [D \in SUBSET S |-> WithNotes(x, f(D))]
<1>2. x.notes \in [NoteKeys -> Visibilities \cup {None}]
  BY DEF State
<1>6. ASSUME NEW D \in SUBSET S PROVE f(D) \in [NoteKeys -> Visibilities \cup {None}]
  BY <1>2 DEF NotesAs
<1>7. ASSUME NEW D \in SUBSET S, NEW k \in S \ D
      PROVE  Accepts(G[D], E[k]) /\ After(G[D], E[k]) = G[D \cup {k}]
  <2> DEFINE y == WithNotes(x, f(D))
             g == f(D)
  <2>1. k \in NoteKeys /\ k \in S
    OBVIOUS
  <2>2. g \in [NoteKeys -> Visibilities \cup {None}] /\ g[k] = x.notes[k]
    BY <1>6, <2>1 DEF NotesAs
  <2>3. [g EXCEPT ![k] = v] = f(D \cup {k})
    BY <1>2, <2>1 DEF NotesAs
  <2>4. y = WithNotes(x, g)
    OBVIOUS
  <2>5. G[D] = y /\ G[D \cup {k}] = WithNotes(x, f(D \cup {k}))
    OBVIOUS
  <2> HIDE DEF g, y, f, G
  <2>6. y \in State /\ y.notes = g
    BY <2>2, <2>4, WithPartIs
  <2>7. v = None => y.notes[k] # None
    BY <2>1, <2>2, <2>6
  <2>8. Accepts(y, E[k]) /\ After(y, E[k]) = [y EXCEPT !.notes[k] = v]
    BY <2>1, <2>6, <2>7 DEF SetNotes
  <2>9. [y EXCEPT !.notes[k] = v] = WithNotes(y, [g EXCEPT ![k] = v])
    BY <2>1, <2>6 DEF WithNotes, State
  <2>10. WithNotes(y, f(D \cup {k})) = WithNotes(x, f(D \cup {k}))
    BY <2>4, WithPartTwice
  <2> QED BY <2>3, <2>5, <2>8, <2>9, <2>10
<1>8. \A D \in SUBSET S : G[D] \in State
  BY <1>6, WithPartIs
<1>9. G[{}] = x
  <2>1. f({}) = x.notes
    BY <1>2 DEF NotesAs
  <2> QED BY <2>1, WithPartIs
<1>10. G[S] = WithNotes(x, f(S))
  OBVIOUS
<1> HIDE DEF G, f
<1>11. \A D \in SUBSET S : \A k \in S \ D : Accepts(G[D], E[k]) /\ After(G[D], E[k]) = G[D \cup {k}]
  BY <1>7
<1>12. IsFiniteSet(S)
  BY Finite
<1>13. Folded(G[{}], Each([k \in S |-> <<E[k]>>])) = G[S]
  BY <1>8, <1>11, <1>12, EachSteps
<1> QED BY <1>9, <1>10, <1>13 DEF f

Unpublic(shown, st) == {n \in NoteKeys : shown.notes[n] # None /\ st.notes[n] # "public"}

LEMMA NoteFramesFold ==
  ASSUME NEW shown, NEW st, NEW x \in State, x.notes = shown.notes
  PROVE  Folded(x, NoteFrames(shown, st)) = WithNotes(x, NotesAs(x, Unpublic(shown, st), None))
<1> DEFINE S == Unpublic(shown, st)
           E == [k \in S |-> [type |-> "NoteDeleted", key |-> k]]
<1>1. S \in SUBSET NoteKeys /\ \A k \in S : x.notes[k] # None
  BY DEF Unpublic
<1>2. NoteFrames(shown, st) = Each([k \in S |-> <<E[k]>>])
  <2>1. [k \in S |-> <<E[k]>>] = [k \in S |-> <<[type |-> "NoteDeleted", key |-> k]>>]
    OBVIOUS
  <2> QED BY <2>1 DEF NoteFrames, Unpublic
<1> HIDE DEF S
<1>3. SetNotes(E, S, None)
  <2>1. \A k \in S : E[k].type = "NoteDeleted" /\ E[k].key = k
    OBVIOUS
  <2> HIDE DEF E
  <2>2. ASSUME NEW k \in S, NEW y \in State, y.notes[k] # None
        PROVE  Accepts(y, E[k]) /\ After(y, E[k]) = [y EXCEPT !.notes[k] = None]
    <3>1. Accepts(y, E[k])
      BY <2>1, <2>2 DEF Accepts
    <3>2. After(y, E[k]) = [y EXCEPT !.notes[k] = None]
      BY <2>1 DEF After
    <3> QED BY <3>1, <3>2
  <2> QED BY <2>2 DEF SetNotes
<1> HIDE DEF E
<1>4. Folded(x, Each([k \in S |-> <<E[k]>>])) = WithNotes(x, NotesAs(x, S, None))
  BY <1>1, <1>3, NotesFold
<1> QED BY <1>2, <1>4 DEF S

LEMMA NotesOfFold ==
  ASSUME NEW before, NEW x \in State
  PROVE  Folded(x, NotesOf(before))
           = WithNotes(x, NotesAs(x, {n \in NoteKeys : before.notes[n] = "public"}, "public"))
<1> DEFINE S == {n \in NoteKeys : before.notes[n] = "public"}
           E == [k \in S |-> [type |-> "NoteUpserted", key |-> k, visibility |-> "public"]]
<1>1. S \in SUBSET NoteKeys
  OBVIOUS
<1>2. NotesOf(before) = Each([k \in S |-> <<E[k]>>])
  <2>1. [k \in S |-> <<E[k]>>]
          = [k \in S |-> <<[type |-> "NoteUpserted", key |-> k, visibility |-> "public"]>>]
    OBVIOUS
  <2> QED BY <2>1 DEF NotesOf
<1> HIDE DEF S
<1>3. SetNotes(E, S, "public")
  <2>1. \A k \in S : E[k].type = "NoteUpserted" /\ E[k].key = k /\ E[k].visibility = "public"
    OBVIOUS
  <2> HIDE DEF E
  <2>2. ASSUME NEW k \in S, NEW y \in State
        PROVE  Accepts(y, E[k]) /\ After(y, E[k]) = [y EXCEPT !.notes[k] = "public"]
    <3>1. Accepts(y, E[k])
      BY <2>1 DEF Accepts
    <3>2. After(y, E[k]) = [y EXCEPT !.notes[k] = "public"]
      BY <2>1 DEF After
    <3> QED BY <3>1, <3>2
  <2> QED BY <2>2 DEF SetNotes
<1>4. "public" \in Visibilities /\ None # "public"
  BY EngineAssumption DEF Visibilities
<1> HIDE DEF E
<1>5. Folded(x, Each([k \in S |-> <<E[k]>>])) = WithNotes(x, NotesAs(x, S, "public"))
  <2>1. "public" \in Visibilities \cup {None}
    BY <1>4
  <2> QED BY <1>1, <1>3, <1>4, <2>1, NotesFold
<1> QED BY <1>2, <1>5 DEF S

-----------------------------------------------------------------------------
(* The transitions, all of them.                                           *)

LEMMA StateIs ==
  ASSUME NEW x \in State
  PROVE  x = [scenes |-> x.scenes, session |-> x.session, notes |-> x.notes, tokens |-> x.tokens,
              actors |-> x.actors, conditions |-> x.conditions]
BY DEF State

Created(shown, now) ==
  [s \in Scenes |-> IF s \in DOMAIN now.squares \ HeldScenes(shown) THEN Blank ELSE shown.scenes[s]]

DoorsSet(shown, cause, now, st) ==
  [s \in Scenes |-> IF s \in DOMAIN now.squares
                    THEN [Created(shown, now)[s] EXCEPT !.open = Ajar(shown, cause, now, st, s)]
                    ELSE Created(shown, now)[s]]

ToldScenes(shown, cause, now, st) ==
  [s \in Scenes |-> IF /\ s \in HeldScenes(shown) \cup DOMAIN now.squares
                       /\ Shown(shown, s) # Lit(now, s)
                    THEN Relit(DoorsSet(shown, cause, now, st)[s], now, s)
                    ELSE DoorsSet(shown, cause, now, st)[s]]

ToldTokens(shown, sighted, now, st) ==
  [t \in Tokens |->
     IF t \in Placed(shown, sighted, now, st) THEN st.tokens[t]
     ELSE IF \/ t \in Unplaced(shown, sighted, now, st)
             \/ HasToken(shown, t) /\ shown.tokens[t].actor \in Retaken(shown, sighted, now, st)
          THEN None ELSE shown.tokens[t]]

ToldActors(shown, sighted, now, st) ==
  [a \in Actors |-> IF a \in Formed(shown, sighted, now, st) THEN FormOf(st, a, a \in now.sees)
                    ELSE shown.actors[a]]

ToldConditions(shown, sighted, now, st) ==
  [a \in Actors |-> IF a \in Formed(shown, sighted, now, st) THEN TurnsOf(st, a, a \in now.sees)
                    ELSE shown.conditions[a]]

\* A log of that session as the transitions leave it.
Told(session, shown, sighted, cause, now, st) ==
  [scenes |-> ToldScenes(shown, cause, now, st), session |-> session,
   notes |-> NotesAs(shown, Unpublic(shown, st), None),
   tokens |-> ToldTokens(shown, sighted, now, st),
   actors |-> ToldActors(shown, sighted, now, st),
   conditions |-> ToldConditions(shown, sighted, now, st)]

LEMMA CreatedIs ==
  ASSUME NEW shown \in GoodStates, NEW st, NEW eyes, NEW now, Looked(st, eyes, now)
  PROVE  /\ Created(shown, now) \in [Scenes -> Scene \cup {None}]
         /\ \A s \in HeldScenes(shown) \cup DOMAIN now.squares :
              /\ s \in Scenes /\ Created(shown, now)[s] \in Scene
              /\ Created(shown, now)[s].open = Believed(shown, s)
<1>1. shown.scenes \in [Scenes -> Scene \cup {None}]
  BY DEF GoodStates, State
<1>2. Blank \in Scene /\ Blank.open = {}
  BY DEF Blank, Scene
<1>3. HeldScenes(shown) \cup DOMAIN now.squares \subseteq Scenes
  BY DEF HeldScenes, Looked
<1>4. \A s \in HeldScenes(shown) : shown.scenes[s] \in Scene /\ Believed(shown, s) = shown.scenes[s].open
  BY <1>1 DEF HeldScenes, HasScene, Believed
<1>5. \A s \in Scenes \ HeldScenes(shown) : Believed(shown, s) = {}
  BY DEF HeldScenes, HasScene, Believed
<1> QED BY <1>1, <1>2, <1>3, <1>4, <1>5 DEF Created

LEMMA DoorsSetIs ==
  ASSUME NEW shown \in GoodStates, NEW cause, NEW st, NEW eyes, NEW now, Looked(st, eyes, now)
  PROVE  /\ DoorsSet(shown, cause, now, st) \in [Scenes -> Scene \cup {None}]
         /\ \A s \in HeldScenes(shown) \cup DOMAIN now.squares :
              DoorsSet(shown, cause, now, st)[s] \in Scene
<1>1. \A s \in DOMAIN now.squares :
        [Created(shown, now)[s] EXCEPT !.open = Ajar(shown, cause, now, st, s)] \in Scene
  <2>1. \A s : Ajar(shown, cause, now, st, s) \in SUBSET Squares
    BY DEF Ajar
  <2> QED BY <2>1, CreatedIs DEF Scene
<1> QED BY <1>1, CreatedIs DEF DoorsSet

LEMMA ToldScenesIs ==
  ASSUME NEW shown \in GoodStates, NEW cause, NEW st, NEW eyes, NEW now, Looked(st, eyes, now)
  PROVE  ToldScenes(shown, cause, now, st) \in [Scenes -> Scene \cup {None}]
<1>1. \A s \in HeldScenes(shown) \cup DOMAIN now.squares :
        Relit(DoorsSet(shown, cause, now, st)[s], now, s) \in Scene
  <2> SUFFICES ASSUME NEW s \in HeldScenes(shown) \cup DOMAIN now.squares
               PROVE  Relit(DoorsSet(shown, cause, now, st)[s], now, s) \in Scene
    OBVIOUS
  <2> DEFINE r == DoorsSet(shown, cause, now, st)[s]
  <2>1. r \in Scene
    BY DoorsSetIs
  <2>2. Lit(now, s) \subseteq Squares
    BY DEF Looked
  <2> HIDE DEF r
  <2>3. Relit(r, now, s) \in Scene
    BY <2>1, <2>2 DEF Scene, Relit
  <2> QED BY <2>3 DEF r
<1> QED BY <1>1, DoorsSetIs DEF ToldScenes

LEMMA TransitionsFold ==
  ASSUME NEW shown, NEW st, NEW eyes, NEW now, Fit(shown, st, eyes, now), NEW sighted, NEW cause,
         NEW x \in State, x.scenes = shown.scenes, x.tokens = shown.tokens,
         x.actors = shown.actors, x.conditions = shown.conditions, x.notes = shown.notes
  PROVE  /\ Folded(x, Transitions(shown, sighted, cause, now, st))
              = Told(x.session, shown, sighted, cause, now, st)
         /\ Told(x.session, shown, sighted, cause, now, st) \in State
<1> DEFINE a == CreationFrames(shown, now)
           b == Each([s \in DOMAIN now.squares |-> DoorFrames(shown, cause, now, st, s)])
           c == Each([id \in now.actors |-> ActorFrames(shown, sighted, now, st, id)])
           d == Hides(Unplaced(shown, sighted, now, st))
           f == TokenFrames(shown, sighted, now, st)
           g == SceneFrames(shown, now)
           i == NoteFrames(shown, st)
           R == Retaken(shown, sighted, now, st)
           P == Placed(shown, sighted, now, st)
           U == Unplaced(shown, sighted, now, st)
           x1 == WithScenes(x, Created(shown, now))
           x2 == WithScenes(x1, DoorsSet(shown, cause, now, st))
           x3 == ActorsTold(x2, shown, sighted, now, st, now.actors)
           x4 == WithoutTokens(x3, U)
           x5 == WithTokens(x4, [t \in Tokens |-> IF t \in P THEN st.tokens[t] ELSE x4.tokens[t]])
           x6 == WithScenes(x5, ToldScenes(shown, cause, now, st))
           x7 == WithNotes(x6, NotesAs(shown, Unpublic(shown, st), None))
<1>1. shown \in GoodStates /\ st \in GoodStates /\ Looked(st, eyes, now) /\ shown \in State
  BY DEF Fit, GoodStates
<1>2. a \in Seq(Known) /\ b \in Seq(Known) /\ c \in Seq(Known) /\ d \in Seq(Known)
      /\ f \in Seq(Known) /\ g \in Seq(Known) /\ i \in Seq(Known)
  BY <1>1, TransitionsType
<1>3. Transitions(shown, sighted, cause, now, st) = a \o b \o c \o d \o f \o g \o i
  BY DEF Transitions
<1> HIDE DEF a, b, c, d, f, g, i
<1>4. Folded(x, a) = x1
  BY <1>1, CreationFold DEF a, Created
<1>5. x1 \in State /\ x1.scenes = Created(shown, now) /\ x1.tokens = shown.tokens
      /\ x1.actors = shown.actors /\ x1.conditions = shown.conditions
      /\ x1.notes = shown.notes /\ x1.session = x.session
  <2>1. Created(shown, now) \in [Scenes -> Scene \cup {None}]
    BY <1>1, CreatedIs
  <2> QED BY <1>1, <2>1 DEF WithScenes, State
<1>6. Folded(x1, b) = x2
  <2> HIDE DEF x1
  <2>1. \A s \in DOMAIN now.squares : HasScene(x1, s) /\ x1.scenes[s].open = Believed(shown, s)
    BY <1>1, <1>5, CreatedIs, EngineAssumption DEF HasScene
  <2>2. WithDoors(x1, shown, cause, now, st) = DoorsSet(shown, cause, now, st)
    BY <1>5 DEF DoorsSet, WithDoors
  <2>3. Folded(x1, b) = WithScenes(x1, WithDoors(x1, shown, cause, now, st))
    BY <1>1, <1>5, <2>1, DoorsFold DEF b
  <2> QED BY <2>2, <2>3
<1>7. x2 \in State /\ x2.scenes = DoorsSet(shown, cause, now, st) /\ x2.tokens = shown.tokens
      /\ x2.actors = shown.actors /\ x2.conditions = shown.conditions
      /\ x2.notes = shown.notes /\ x2.session = x.session
  <2> HIDE DEF x1
  <2>1. DoorsSet(shown, cause, now, st) \in [Scenes -> Scene \cup {None}]
    BY <1>1, DoorsSetIs
  <2> QED BY <1>5, <2>1 DEF WithScenes, State
<1> HIDE DEF x1, x2
<1>8. Folded(x2, c) = x3
  BY <1>7, ActorsFold DEF c
<1>9. /\ x3 \in State /\ x3.scenes = DoorsSet(shown, cause, now, st)
      /\ x3.tokens = [t \in Tokens |-> IF HasToken(shown, t) /\ shown.tokens[t].actor \in R
                                       THEN None ELSE shown.tokens[t]]
      /\ x3.actors = ToldActors(shown, sighted, now, st)
      /\ x3.conditions = ToldConditions(shown, sighted, now, st)
      /\ x3.notes = shown.notes /\ x3.session = x.session
  <2>1. x3 \in State
    BY <1>7, ActorsToldType
  <2>2. now.actors \cap R = R /\ now.actors \cap Formed(shown, sighted, now, st) = Formed(shown, sighted, now, st)
    BY DEF Retaken, Formed
  <2>3. /\ x3 = [scenes |-> x2.scenes, session |-> x2.session, notes |-> x2.notes,
                 tokens |-> x3.tokens, actors |-> x3.actors, conditions |-> x3.conditions]
        /\ x3.tokens = [t \in Tokens |-> IF HasToken(shown, t) /\ shown.tokens[t].actor \in now.actors \cap R
                                         THEN None ELSE x2.tokens[t]]
        /\ x3.actors = [id \in Actors |->
             IF id \in now.actors \cap Formed(shown, sighted, now, st) THEN FormOf(st, id, id \in now.sees)
             ELSE x2.actors[id]]
        /\ x3.conditions = [id \in Actors |->
             IF id \in now.actors \cap Formed(shown, sighted, now, st) THEN TurnsOf(st, id, id \in now.sees)
             ELSE x2.conditions[id]]
    BY <1>7, ActorsToldParts
  <2> HIDE DEF x3, R
  <2> QED BY <1>7, <2>1, <2>2, <2>3 DEF ToldActors, ToldConditions
<1> HIDE DEF x3
<1>10. Folded(x3, d) = x4
  <2>1. U \in SUBSET Tokens
    BY DEF Unplaced, HeldTokens
  <2> QED BY <1>9, <2>1, HidesFold DEF d
<1>11. x4 \in State /\ x4.scenes = x3.scenes /\ x4.actors = x3.actors
       /\ x4.conditions = x3.conditions /\ x4.notes = x3.notes /\ x4.session = x3.session
       /\ x4.tokens = [t \in Tokens |-> IF t \in U THEN None ELSE x3.tokens[t]]
  <2>1. U \in SUBSET Tokens
    BY DEF Unplaced, HeldTokens
  <2> QED BY <1>9, <2>1, WithoutTokensType, WithoutTokensParts
<1> HIDE DEF x4
<1>12. Folded(x4, f) = x5
  <2>1. ASSUME NEW t \in P
        PROVE  ~HasToken(x4, t) /\ HasScene(x4, st.tokens[t].scene) /\ HasActor(x4, st.tokens[t].actor)
    <3>1. t \in now.tokens /\ t \in Tokens /\ st.tokens[t].scene \in DOMAIN now.squares
          /\ st.tokens[t].actor \in now.actors /\ (HasToken(shown, t) => shown.tokens[t].actor \in R)
      BY <1>1, <2>1 DEF Placed, Looked, HeldTokens
    <3>2. ~HasToken(x4, t)
      BY <1>9, <1>11, <3>1 DEF HasToken
    <3>3. HasScene(x4, st.tokens[t].scene)
      <4>1. DoorsSet(shown, cause, now, st)[st.tokens[t].scene] \in Scene
            /\ st.tokens[t].scene \in Scenes
        BY <1>1, <3>1, DoorsSetIs DEF Looked
      <4> QED BY <1>9, <1>11, <4>1, EngineAssumption DEF HasScene
    <3>4. HasActor(x4, st.tokens[t].actor)
      <4> DEFINE id == st.tokens[t].actor
      <4>1. id \in Actors /\ HasActor(st, id) /\ (id \in now.sees) \in BOOLEAN /\ id \in now.actors
        BY <1>1, <3>1 DEF Looked
      <4> HIDE DEF id
      <4>2. FormOf(st, id, id \in now.sees) \in Actor
        BY <1>1, <4>1, FormOfType
      <4>3. id \notin Formed(shown, sighted, now, st) => shown.actors[id] # None
        BY <4>1 DEF Formed, HasActor
      <4>4. ToldActors(shown, sighted, now, st)[id] # None
        BY <4>1, <4>2, <4>3, EngineAssumption DEF ToldActors
      <4>5. HasActor(x4, id)
        BY <1>9, <1>11, <4>1, <4>4 DEF HasActor
      <4> QED BY <4>5 DEF id
    <3> QED BY <3>2, <3>3, <3>4
  <2> QED BY <1>1, <1>11, <2>1, TokenFramesFold DEF f
<1>13. x5 \in State /\ x5.scenes = x4.scenes /\ x5.actors = x4.actors
       /\ x5.conditions = x4.conditions /\ x5.notes = x4.notes /\ x5.session = x4.session
       /\ x5.tokens = [t \in Tokens |-> IF t \in P THEN st.tokens[t] ELSE x4.tokens[t]]
  <2> DEFINE k == [t \in Tokens |-> IF t \in P THEN st.tokens[t] ELSE x4.tokens[t]]
  <2>1. k \in [Tokens -> Token \cup {None}]
    <3>1. \A t \in P : st.tokens[t] \in Token
      BY <1>1 DEF Placed, Looked
    <3> QED BY <1>11, <3>1 DEF State
  <2> HIDE DEF k
  <2>2. WithTokens(x4, k) \in State /\ WithTokens(x4, k).tokens = k
    BY <1>11, <2>1, WithPartIs
  <2>3. WithTokens(x4, k).scenes = x4.scenes /\ WithTokens(x4, k).actors = x4.actors
        /\ WithTokens(x4, k).conditions = x4.conditions /\ WithTokens(x4, k).notes = x4.notes
        /\ WithTokens(x4, k).session = x4.session
    BY <1>11 DEF WithTokens, State
  <2> QED BY <2>2, <2>3 DEF k
<1> HIDE DEF x5
<1>14. Folded(x5, g) = x6
  <2>1. \A s \in HeldScenes(shown) \cup DOMAIN now.squares : HasScene(x5, s)
    <3>1. \A s \in HeldScenes(shown) \cup DOMAIN now.squares :
            s \in Scenes /\ DoorsSet(shown, cause, now, st)[s] \in Scene
      BY <1>1, DoorsSetIs, CreatedIs
    <3> QED BY <1>9, <1>11, <1>13, <3>1, EngineAssumption DEF HasScene
  <2>2. x5.scenes = DoorsSet(shown, cause, now, st)
    BY <1>9, <1>11, <1>13
  <2>3. [s \in Scenes |-> IF /\ s \in HeldScenes(shown) \cup DOMAIN now.squares
                             /\ Shown(shown, s) # Lit(now, s)
                          THEN Relit(x5.scenes[s], now, s) ELSE x5.scenes[s]]
          = ToldScenes(shown, cause, now, st)
    BY <2>2 DEF ToldScenes
  <2> QED BY <1>1, <1>13, <2>1, <2>3, SceneFramesFold DEF g
<1>15. x6 \in State /\ x6.scenes = ToldScenes(shown, cause, now, st) /\ x6.actors = x5.actors
       /\ x6.conditions = x5.conditions /\ x6.notes = x5.notes /\ x6.session = x5.session
       /\ x6.tokens = x5.tokens
  <2>1. ToldScenes(shown, cause, now, st) \in [Scenes -> Scene \cup {None}]
    BY <1>1, ToldScenesIs
  <2> QED BY <1>13, <2>1 DEF WithScenes, State
<1> HIDE DEF x6
<1>16. Folded(x6, i) = x7
  <2>1. x6.notes = shown.notes
    BY <1>9, <1>11, <1>13, <1>15
  <2>2. NotesAs(x6, Unpublic(shown, st), None) = NotesAs(shown, Unpublic(shown, st), None)
    BY <2>1 DEF NotesAs
  <2> QED BY <1>15, <2>1, <2>2, NoteFramesFold DEF i
<1>17. x7 \in State /\ x7.scenes = x6.scenes /\ x7.actors = x6.actors
       /\ x7.conditions = x6.conditions /\ x7.session = x6.session /\ x7.tokens = x6.tokens
       /\ x7.notes = NotesAs(shown, Unpublic(shown, st), None)
  <2>1. NotesAs(shown, Unpublic(shown, st), None) \in [NoteKeys -> Visibilities \cup {None}]
    BY <1>1 DEF NotesAs, State
  <2> QED BY <1>15, <2>1 DEF WithNotes, State
<1> HIDE DEF x7
<1>18. x7.tokens = ToldTokens(shown, sighted, now, st)
  BY <1>9, <1>11, <1>13, <1>15, <1>17 DEF ToldTokens
<1>19. x7 = [scenes |-> x7.scenes, session |-> x7.session, notes |-> x7.notes, tokens |-> x7.tokens,
             actors |-> x7.actors, conditions |-> x7.conditions]
  BY <1>17, StateIs
<1>20. x7 = Told(x.session, shown, sighted, cause, now, st)
  BY <1>9, <1>11, <1>13, <1>15, <1>17, <1>18, <1>19 DEF Told
<1>21. Folded(x, a \o b \o c \o d \o f \o g \o i) = x7
  <2> DEFINE abcd == a \o b \o c \o d
  <2>1. abcd \in Seq(Known)
    BY <1>2, BothFrames
  <2>2. Folded(x, abcd) = x4
    BY <1>2, <1>4, <1>6, <1>8, <1>10, FoldedFour
  <2> HIDE DEF abcd
  <2>3. Folded(x, abcd \o f \o g \o i) = Folded(Folded(Folded(Folded(x, abcd), f), g), i)
    BY <1>2, <2>1, FoldedFour
  <2> QED BY <1>12, <1>14, <1>16, <2>2, <2>3 DEF abcd
<1> QED BY <1>3, <1>17, <1>20, <1>21

-----------------------------------------------------------------------------
(* What an event leaves alone, and what it changes.                        *)

LEMMA LeavesTheSession ==
  ASSUME NEW x \in State, NEW e, e.type \notin {"SessionStarted", "SessionEnded"}
  PROVE  After(x, e).session = x.session
BY DEF After, State, WithoutActor

LEMMA LeavesTheTokens ==
  ASSUME NEW x \in State, NEW e,
         e.type \notin {"TokenPlaced", "TokenDescribed", "TokenMoved", "TokenRemoved", "TokenHidden"}
  PROVE  After(x, e).tokens = x.tokens
BY DEF After, State, WithoutActor

LEMMA LeavesTheScenes ==
  ASSUME NEW x \in State, NEW e,
         e.type \notin {"SceneCreated", "DoorOpened", "DoorClosed", "SceneSeen"}
  PROVE  After(x, e).scenes = x.scenes
BY DEF After, State, WithoutActor

LEMMA LeavesTheActors ==
  ASSUME NEW x \in State, NEW e,
         e.type \notin {"ActorAdded", "ActorControlGranted", "ActorControlRevoked",
                        "ActorRemoved", "ResourceChanged"}
  PROVE  After(x, e).actors = x.actors
BY DEF After, State, WithoutActor

LEMMA LeavesTheConditions ==
  ASSUME NEW x \in State, NEW e,
         e.type \notin {"ActorRemoved", "ConditionApplied", "ConditionRemoved"}
  PROVE  After(x, e).conditions = x.conditions
BY DEF After, State, WithoutActor

LEMMA LeavesTheNotes ==
  ASSUME NEW x \in State, NEW e, e.type \notin {"NoteUpserted", "NoteDeleted"}
  PROVE  After(x, e).notes = x.notes
BY DEF After, State, WithoutActor

LEMMA TurnsTheSession ==
  ASSUME NEW x \in State, NEW e
  PROVE  /\ e.type = "SessionStarted" => After(x, e).session = e.id
         /\ e.type = "SessionEnded" => After(x, e).session = None
<1>1. CASE e.type = "SessionStarted"
  BY <1>1 DEF After, State
<1>2. CASE e.type = "SessionEnded"
  BY <1>2 DEF After, State
<1> QED BY <1>1, <1>2

\* A token that stands elsewhere, or is described otherwise.
Rewritten(token, e) ==
  IF e.type = "TokenMoved" THEN [token EXCEPT !.at = e.at] ELSE [token EXCEPT !.text = e.text]

LEMMA RewritesTheToken ==
  ASSUME NEW x \in State, NEW e, e.token \in Tokens, e.type \in {"TokenMoved", "TokenDescribed"}
  PROVE  \A t \in Tokens : After(x, e).tokens[t] = IF t = e.token THEN Rewritten(x.tokens[t], e)
                                                   ELSE x.tokens[t]
<1>1. CASE e.type = "TokenMoved"
  BY <1>1 DEF After, State, Rewritten
<1>2. CASE e.type = "TokenDescribed"
  BY <1>2 DEF After, State, Rewritten
<1> QED BY <1>1, <1>2

\* A token that is not the one placed or taken off is as it was.
LEMMA SparesTheToken ==
  ASSUME NEW x \in State, NEW e, e.token \in Tokens,
         e.type \in {"TokenPlaced", "TokenRemoved", "TokenHidden"}
  PROVE  /\ \A t \in Tokens \ {e.token} : After(x, e).tokens[t] = x.tokens[t]
         /\ e.type # "TokenPlaced" => After(x, e).tokens[e.token] = None
<1>1. CASE e.type = "TokenPlaced"
  BY <1>1 DEF After, State
<1>2. CASE e.type \in {"TokenRemoved", "TokenHidden"}
  BY <1>2 DEF After, State
<1> QED BY <1>1, <1>2

\* An actor under other control, or with more or less of its resource.
Remade(a, e) ==
  CASE e.type = "ActorControlGranted" -> Granted(a, e)
    [] e.type = "ActorControlRevoked" -> Revoked(a, e)
    [] e.type = "ResourceChanged" -> [a EXCEPT !.cur = Changed(a, e.delta)]
    [] OTHER -> a

Remakes == {"ActorControlGranted", "ActorControlRevoked", "ResourceChanged"}

LEMMA RemakesTheActor ==
  ASSUME NEW x \in State, NEW e, e.actor \in Actors, e.type \in Remakes
  PROVE  \A a \in Actors : After(x, e).actors[a] = IF a = e.actor THEN Remade(x.actors[a], e)
                                                   ELSE x.actors[a]
<1>1. CASE e.type = "ActorControlGranted"
  BY <1>1 DEF After, State, Remade
<1>2. CASE e.type = "ActorControlRevoked"
  BY <1>2 DEF After, State, Remade
<1>3. CASE e.type = "ResourceChanged"
  BY <1>3 DEF After, State, Remade
<1> QED BY <1>1, <1>2, <1>3 DEF Remakes

LEMMA AddsTheActor ==
  ASSUME NEW x \in State, NEW e, e.actor \in Actors
  PROVE  /\ e.type = "ActorAdded" =>
              \A a \in Actors : After(x, e).actors[a] = IF a = e.actor THEN e.is ELSE x.actors[a]
         /\ e.type = "ActorRemoved" =>
              \A a \in Actors : /\ After(x, e).actors[a] = IF a = e.actor THEN None ELSE x.actors[a]
                                /\ After(x, e).conditions[a] = IF a = e.actor THEN {} ELSE x.conditions[a]
<1>1. CASE e.type = "ActorAdded"
  BY <1>1 DEF After, State
<1>2. CASE e.type = "ActorRemoved"
  BY <1>2 DEF After, State, WithoutActor
<1> QED BY <1>1, <1>2

LEMMA TurnsTheConditions ==
  ASSUME NEW x \in State, NEW e, e.actor \in Actors
  PROVE  /\ e.type = "ConditionApplied" => \A a \in Actors :
              After(x, e).conditions[a] = IF a = e.actor THEN x.conditions[a] \cup {e.condition}
                                          ELSE x.conditions[a]
         /\ e.type = "ConditionRemoved" => \A a \in Actors :
              After(x, e).conditions[a] = IF a = e.actor THEN x.conditions[a] \ {e.condition}
                                          ELSE x.conditions[a]
<1>1. CASE e.type = "ConditionApplied"
  BY <1>1 DEF After, State
<1>2. CASE e.type = "ConditionRemoved"
  BY <1>2 DEF After, State
<1> QED BY <1>1, <1>2

\* A door opened or shut, and every scene lit as it was.
LEMMA TurnsTheDoor ==
  ASSUME NEW x \in State, NEW e, e.scene \in Scenes, HasScene(x, e.scene), e.at \in Squares,
         e.type \in {"DoorOpened", "DoorClosed"}
  PROVE  \A s \in Scenes :
           /\ (After(x, e).scenes[s] = None) = (x.scenes[s] = None)
           /\ x.scenes[s] # None =>
                /\ After(x, e).scenes[s].visible = x.scenes[s].visible
                /\ After(x, e).scenes[s].open =
                     IF s # e.scene THEN x.scenes[s].open
                     ELSE IF e.type = "DoorOpened" THEN x.scenes[s].open \cup {e.at}
                     ELSE x.scenes[s].open \ {e.at}
<1> DEFINE open == IF e.type = "DoorOpened" THEN x.scenes[e.scene].open \cup {e.at}
                   ELSE x.scenes[e.scene].open \ {e.at}
           sc == [x.scenes[e.scene] EXCEPT !.open = open]
<1>1. x.scenes[e.scene] \in Scene /\ x.scenes[e.scene] # None
  BY DEF HasScene, State
<1>2. sc.open = open /\ sc.visible = x.scenes[e.scene].visible
  BY <1>1 DEF Scene
<1>3. sc = [open |-> open, visible |-> x.scenes[e.scene].visible,
            explored |-> x.scenes[e.scene].explored]
  BY <1>1 DEF Scene
<1>4. After(x, e).scenes = [x.scenes EXCEPT ![e.scene] = sc]
  <2>1. CASE e.type = "DoorOpened"
    BY <2>1 DEF After, State
  <2>2. CASE e.type = "DoorClosed"
    BY <2>2 DEF After, State
  <2> QED BY <2>1, <2>2
<1>5. sc # None
  <2>1. sc \in Scene
    BY <1>1, <1>3 DEF Scene
  <2> QED BY <2>1, EngineAssumption
<1> HIDE DEF sc
<1> QED BY <1>1, <1>2, <1>4, <1>5 DEF State

LEMMA TurnsTheNote ==
  ASSUME NEW x \in State, NEW e, e.key \in NoteKeys
  PROVE  /\ e.type = "NoteUpserted" => \A k \in NoteKeys :
              After(x, e).notes[k] = IF k = e.key THEN e.visibility ELSE x.notes[k]
         /\ e.type = "NoteDeleted" => \A k \in NoteKeys :
              After(x, e).notes[k] = IF k = e.key THEN None ELSE x.notes[k]
<1>1. CASE e.type = "NoteUpserted"
  BY <1>1 DEF After, State
<1>2. CASE e.type = "NoteDeleted"
  BY <1>2 DEF After, State
<1> QED BY <1>1, <1>2

-----------------------------------------------------------------------------
(* What a decision keeps of a log.                                         *)

\* A step of an actor keeps it within its maximum.
LEMMA RemadeInBounds ==
  ASSUME NEW a \in Actor, InBounds(a), NEW e,
         e.type = "ResourceChanged" => a.body # None /\ e.delta \in Int
  PROVE  InBounds(Remade(a, e))
<1>1. CASE e.type = "ActorControlGranted"
  BY <1>1 DEF Remade, Granted, InBounds, WithinItsMaximum, Actor
<1>2. CASE e.type = "ActorControlRevoked"
  BY <1>2 DEF Remade, Revoked, InBounds, WithinItsMaximum, Actor
<1>3. CASE e.type = "ResourceChanged"
  <2> DEFINE n == Changed(a, e.delta)
  <2>1. MaxInt \in Nat /\ a.cur \in Int /\ a.body \in Nat /\ e.delta \in Int
    <3>1. MaxInt \in Nat /\ Bodies \subseteq 0 .. MaxInt
      BY EngineAssumption
    <3>2. a.body \in Bodies /\ e.delta \in Int
      BY <1>3 DEF Actor
    <3>3. a.cur \in Int
      BY <3>1 DEF Actor, Int32
    <3>4. a.body \in 0 .. MaxInt
      BY <3>1, <3>2
    <3> QED BY <3>1, <3>2, <3>3, <3>4
  <2>2. 0 <= n /\ (a.body > 0 => n <= a.body)
    BY <2>1 DEF Changed, Clamp
  <2>3. Remade(a, e).cur = n /\ Remade(a, e).body = a.body /\ a.body # None
    BY <1>3 DEF Remade, Actor
  <2> QED BY <2>2, <2>3 DEF InBounds, WithinItsMaximum
<1>4. CASE e.type \notin Remakes
  BY <1>4 DEF Remade, Remakes
<1> QED BY <1>1, <1>2, <1>3, <1>4 DEF Remakes

LEMMA StaysBounded ==
  ASSUME NEW x \in State, Bounded(x), NEW e \in Known, Accepts(x, e),
         e.type = "ActorAdded" => InBounds(e.is)
  PROVE  Bounded(After(x, e))
<1>1. CASE e.type \in Remakes
  <2>1. e.actor \in Actors
    BY <1>1 DEF Remakes, Known, Events
  <2>2. \A a \in Actors : After(x, e).actors[a] = IF a = e.actor THEN Remade(x.actors[a], e)
                                                  ELSE x.actors[a]
    BY <1>1, <2>1, RemakesTheActor
  <2>3. HasActor(x, e.actor) /\ x.actors[e.actor] \in Actor
    BY <1>1, <2>1 DEF Accepts, AcceptsChange, Remakes, HasActor, State
  <2>4. e.type = "ResourceChanged" => x.actors[e.actor].body # None /\ e.delta \in Int
    <3>1. MaxInt \in Nat
      BY EngineAssumption
    <3>2. e.type = "ResourceChanged" => e.delta \in Int
      BY <3>1 DEF Known, Events, Int32
    <3> QED BY <3>2 DEF Accepts, AcceptsChange
  <2>5. InBounds(Remade(x.actors[e.actor], e))
    <3> DEFINE a == x.actors[e.actor]
    <3>1. a \in Actor /\ InBounds(a)
      BY <2>1, <2>3 DEF Bounded
    <3>2. e.type = "ResourceChanged" => a.body # None /\ e.delta \in Int
      BY <2>4
    <3> HIDE DEF a
    <3>3. InBounds(Remade(a, e))
      BY <3>1, <3>2, RemadeInBounds
    <3> QED BY <3>3 DEF a
  <2> QED BY <2>2, <2>5 DEF Bounded, HasActor
<1>2. CASE e.type \in {"ActorAdded", "ActorRemoved"}
  <2>1. e.actor \in Actors
    BY <1>2 DEF Known, Events, Accepts, AcceptsActor, AcceptsRemoval, HasActor
  <2> QED BY <1>2, <2>1, AddsTheActor DEF Bounded, HasActor
<1>3. CASE e.type \notin Remakes \cup {"ActorAdded", "ActorRemoved"}
  <2>1. After(x, e).actors = x.actors
    BY <1>3, LeavesTheActors DEF Remakes
  <2> QED BY <2>1 DEF Bounded, HasActor
<1> QED BY <1>1, <1>2, <1>3

\* An actor whose kind is unstated has been one of that kind since before.
LEMMA KindWas ==
  ASSUME NEW before \in State, NEW e \in Made, Accepts(before, e), NEW a \in Actors,
         HasActor(After(before, e), a), After(before, e).actors[a].kind = "unspecified"
  PROVE  HasActor(before, a) /\ before.actors[a].kind = "unspecified"
         /\ (e.type = "ActorControlGranted" /\ e.actor = a => e.kind = "unspecified")
<1>0. e \in Known
  BY DEF Made, Recorded, Known
<1>1. CASE e.type \in Remakes
  <2>1. e.actor \in Actors
    BY <1>0, <1>1 DEF Remakes, Known, Events
  <2>2. \A b \in Actors : After(before, e).actors[b] = IF b = e.actor THEN Remade(before.actors[b], e)
                                                       ELSE before.actors[b]
    BY <1>1, <2>1, RemakesTheActor
  <2>3. HasActor(before, e.actor) /\ before.actors[e.actor] \in Actor
    BY <1>1, <2>1 DEF Accepts, AcceptsChange, Remakes, HasActor, State
  <2>4. Remade(before.actors[e.actor], e).kind
          = IF e.type = "ActorControlGranted" /\ e.kind # "unspecified" THEN e.kind
            ELSE before.actors[e.actor].kind
    BY <1>1, <2>3 DEF Remade, Remakes, Granted, Revoked, Actor
  <2> QED BY <2>2, <2>3, <2>4 DEF HasActor
<1>2. CASE e.type \in {"ActorAdded", "ActorRemoved"}
  <2>1. e.actor \in Actors
    BY <1>0, <1>2 DEF Known, Events, Accepts, AcceptsActor, AcceptsRemoval, HasActor
  <2>2. e.type = "ActorAdded" => e.is.kind # "unspecified"
    BY DEF Made
  <2> QED BY <1>2, <2>1, <2>2, AddsTheActor DEF HasActor
<1>3. CASE e.type \notin Remakes \cup {"ActorAdded", "ActorRemoved"}
  <2>1. After(before, e).actors = before.actors
    BY <1>3, LeavesTheActors DEF Remakes
  <2> QED BY <1>3, <2>1 DEF HasActor, Remakes
<1> QED BY <1>1, <1>2, <1>3

LEMMA KindsStay ==
  ASSUME NEW before \in State, NEW e \in Made, Accepts(before, e), NEW shown,
         KindsKept(shown, before)
  PROVE  KindsKept(shown, After(before, e))
BY KindWas DEF KindsKept

\* What a log shows of the actors its decision last saw, as the world had them.
ActorsPresent(fold, sees, st) ==
  \A a \in sees : /\ fold.actors[a] = ShownAs(st.actors[a])
                  /\ fold.conditions[a] = st.conditions[a]

TokensPresent(fold, st) ==
  \A t \in HeldTokens(fold) : HasToken(st, t) /\ fold.tokens[t] = st.tokens[t]

\* A log brought to the world as it was before an event.
Ready(shown, sighted, before) ==
  /\ shown \in GoodStates /\ Bounded(shown) /\ KindsKept(shown, before)
  /\ shown.session = before.session
  /\ TokensPresent(shown, before)
  /\ \A a \in sighted : a \in Actors /\ HasActor(before, a)
  /\ ActorsPresent(shown, sighted, before)

\* The event that is decided, and the look at the world it makes.
Decides(shown, sighted, before, e, st, h, now) ==
  /\ before \in GoodStates /\ Bounded(before) /\ Ready(shown, sighted, before)
  /\ e \in Made /\ Accepts(before, e) /\ st = After(before, e)
  /\ e.type = "ActorAdded" => InBounds(e.is)
  /\ h \in Party(st) /\ now = Look(st, {h})

LEMMA MadeAreKnown == \A e \in Made : e \in Known /\ e \in Events /\ e.type # "Unknown"
BY DEF Made, Recorded, Known

LEMMA GoodAfter ==
  ASSUME NEW st \in GoodStates, NEW e \in Known, Accepts(st, e)
  PROVE  After(st, e) \in GoodStates
BY StepsAgree

LEMMA DecidesFit ==
  ASSUME NEW shown, NEW sighted, NEW before, NEW e, NEW st, NEW h, NEW now,
         Decides(shown, sighted, before, e, st, h, now)
  PROVE  /\ Fit(shown, st, {h}, now)
         /\ shown \in GoodStates /\ shown \in State /\ st \in GoodStates /\ st \in State
         /\ before \in GoodStates /\ before \in State
         /\ Looked(st, {h}, now) /\ e \in Known /\ now.eyes = {h} /\ h \in now.actors
         /\ HeldTokens(shown) \subseteq Tokens /\ Bounded(st)
<1>1. before \in GoodStates /\ shown \in GoodStates /\ e \in Known /\ e \in Made /\ Accepts(before, e)
      /\ st = After(before, e) /\ before \in State /\ shown \in State
  BY MadeAreKnown DEF Decides, Ready, GoodStates
<1>2. st \in GoodStates
  BY <1>1, GoodAfter
<1>3. Bounded(st)
  BY <1>1, StaysBounded DEF Decides
<1>4. KindsKept(shown, st)
  BY <1>1, KindsStay DEF Decides, Ready
<1>5. Looked(st, {h}, now)
  <2>1. {h} \in SUBSET Party(st) /\ now = Look(st, {h})
    BY DEF Decides
  <2> QED BY <1>2, <2>1, LookIsOfTheState
<1>6. Fit(shown, st, {h}, now)
  BY <1>1, <1>2, <1>3, <1>4, <1>5 DEF Fit, Decides, Ready
<1>7. now.eyes = {h} /\ h \in now.actors
  BY <1>5 DEF Looked
<1> QED BY <1>1, <1>2, <1>3, <1>5, <1>6, <1>7 DEF GoodStates, HeldTokens

\* The transitions are taken, and leave the log a state.
LEMMA ToldStands ==
  ASSUME NEW shown, NEW sighted, NEW before, NEW e, NEW st, NEW h, NEW now,
         Decides(shown, sighted, before, e, st, h, now)
  PROVE  /\ Folded(shown, Transitions(shown, sighted, e, now, st))
              = Told(shown.session, shown, sighted, e, now, st)
         /\ Told(shown.session, shown, sighted, e, now, st) \in GoodStates
<1> DEFINE y == Told(shown.session, shown, sighted, e, now, st)
           frames == Transitions(shown, sighted, e, now, st)
<1>1. Fit(shown, st, {h}, now) /\ shown \in State /\ shown \in GoodStates /\ st \in GoodStates
      /\ Looked(st, {h}, now)
  BY DecidesFit
<1>2. Folded(shown, frames) = y /\ y \in State
  BY <1>1, TransitionsFold
<1>3. frames \in Seq(Known)
  BY <1>1, TransitionsType
<1> HIDE DEF y, frames
<1>4. Folded(shown, frames) \in GoodStates \cup {None}
  BY <1>1, <1>3, FoldsAgree
<1>5. y # None
  BY <1>2, EngineAssumption
<1> QED BY <1>2, <1>4, <1>5 DEF y, frames

\* A token on the board stands as it does now, or as it did before the event.
LEMMA ToldTokensAre ==
  ASSUME NEW shown, NEW sighted, NEW before, NEW e, NEW st, NEW h, NEW now,
         Decides(shown, sighted, before, e, st, h, now)
  PROVE  LET y == Told(shown.session, shown, sighted, e, now, st)
         IN  /\ HeldTokens(y) = now.tokens
             /\ \A t \in now.tokens :
                  \/ y.tokens[t] = st.tokens[t]
                  \/ /\ t \in HeldTokens(shown) /\ HasToken(before, t)
                     /\ y.tokens[t] = before.tokens[t]
<1> DEFINE y == Told(shown.session, shown, sighted, e, now, st)
<1>1. y.tokens = ToldTokens(shown, sighted, now, st)
  BY DEF Told
<1> HIDE DEF y
<1>2. now.tokens \subseteq Tokens /\ \A t \in now.tokens : HasToken(st, t)
  BY DecidesFit DEF Looked
<1>3. \A t \in HeldTokens(shown) : HasToken(before, t) /\ shown.tokens[t] = before.tokens[t]
  BY DEF Decides, Ready, TokensPresent
<1>4. \A t \in Tokens : t \in HeldTokens(shown) <=> HasToken(shown, t)
  BY DEF HeldTokens
<1>5. \A t \in now.tokens : \/ y.tokens[t] = st.tokens[t]
                            \/ t \in HeldTokens(shown) /\ y.tokens[t] = shown.tokens[t]
  BY <1>1, <1>2, <1>4 DEF ToldTokens, Placed, Unplaced
<1>6. \A t \in Tokens \ now.tokens : y.tokens[t] = None
  BY <1>1, <1>4 DEF ToldTokens, Placed, Unplaced, HasToken
<1>7. \A t \in now.tokens : y.tokens[t] # None
  BY <1>2, <1>3, <1>5 DEF HasToken
<1>8. HeldTokens(y) = now.tokens
  BY <1>2, <1>6, <1>7 DEF HeldTokens, HasToken
<1> QED BY <1>3, <1>5, <1>8 DEF y

\* So do the scenes, but for the door of the event.
LEMMA ToldScenesAre ==
  ASSUME NEW shown, NEW sighted, NEW before, NEW e, NEW st, NEW h, NEW now,
         Decides(shown, sighted, before, e, st, h, now)
  PROVE  LET y == Told(shown.session, shown, sighted, e, now, st)
         IN  /\ DOMAIN now.squares \subseteq HeldScenes(y)
             /\ \A s \in HeldScenes(y) :
                  /\ Shown(y, s) = Lit(now, s)
                  /\ \A q \in Lit(now, s) :
                       ~IsDoorOf(e, s, q) => (q \in y.scenes[s].open <=> q \in st.scenes[s].open)
<1> DEFINE y == Told(shown.session, shown, sighted, e, now, st)
           made == Created(shown, now)
           set == DoorsSet(shown, e, now, st)
           told == ToldScenes(shown, e, now, st)
<1>1. y.scenes = told
  BY DEF Told
<1>2. shown \in GoodStates /\ Looked(st, {h}, now) /\ shown.scenes \in [Scenes -> Scene \cup {None}]
  BY DecidesFit DEF State
<1> HIDE DEF y
<1>3. told \in [Scenes -> Scene \cup {None}]
  BY <1>2, ToldScenesIs
<1>4. \A s \in HeldScenes(shown) \cup DOMAIN now.squares : set[s] \in Scene /\ s \in Scenes
  BY <1>2, CreatedIs, DoorsSetIs
<1>5. \A s \in HeldScenes(shown) \cup DOMAIN now.squares : told[s] \in Scene
  <2> SUFFICES ASSUME NEW s \in HeldScenes(shown) \cup DOMAIN now.squares
               PROVE  told[s] \in Scene
    OBVIOUS
  <2> DEFINE r == set[s]
  <2>1. r \in Scene /\ s \in Scenes /\ Lit(now, s) \subseteq Squares
    BY <1>2, <1>4 DEF Looked
  <2>2. told[s] = r \/ told[s] = Relit(r, now, s)
    BY <2>1 DEF ToldScenes
  <2> HIDE DEF r, told, set
  <2>3. Relit(r, now, s) \in Scene
    BY <2>1 DEF Scene, Relit
  <2> QED BY <2>1, <2>2, <2>3
<1>6. HeldScenes(y) = HeldScenes(shown) \cup DOMAIN now.squares
  <2>1. \A s \in Scenes \ (HeldScenes(shown) \cup DOMAIN now.squares) : told[s] = None
    BY DEF ToldScenes, DoorsSet, Created, HeldScenes, HasScene
  <2>2. \A s \in HeldScenes(shown) \cup DOMAIN now.squares : told[s] # None
    BY <1>5, EngineAssumption
  <2> HIDE DEF told
  <2> QED BY <1>1, <1>4, <2>1, <2>2 DEF HeldScenes, HasScene
<1>7. ASSUME NEW s \in HeldScenes(y) PROVE Shown(y, s) = Lit(now, s)
  <2> DEFINE r == set[s]
  <2>1. s \in Scenes /\ r \in Scene /\ HasScene(y, s)
    BY <1>4, <1>6 DEF HeldScenes
  <2>2. Lit(now, s) \in SUBSET Squares
    BY <1>2 DEF Looked
  <2>3. CASE Shown(shown, s) # Lit(now, s)
    <3>1. y.scenes[s] = Relit(r, now, s)
      BY <1>1, <1>6, <2>1, <2>3 DEF ToldScenes
    <3> HIDE DEF r
    <3>2. y.scenes[s].visible = Lit(now, s)
      BY <2>1, <3>1 DEF Relit, Scene
    <3> QED BY <2>1, <2>2, <3>2, PerceiveAssumption DEF Shown
  <2>4. CASE Shown(shown, s) = Lit(now, s)
    <3>1. y.scenes[s] = r
      BY <1>1, <2>1, <2>4 DEF ToldScenes
    <3>2. r.visible = made[s].visible
      BY <1>2, <2>1, CreatedIs, <1>6 DEF DoorsSet, Scene
    <3>3. CASE HasScene(shown, s)
      <4>1. made[s] = shown.scenes[s]
        BY <2>1, <3>3 DEF Created, HeldScenes
      <4> QED BY <2>1, <2>4, <3>1, <3>2, <3>3, <4>1 DEF Shown
    <3>4. CASE ~HasScene(shown, s)
      <4>1. made[s] = Blank
        BY <1>6, <2>1, <3>4 DEF Created, HeldScenes
      <4> QED BY <2>1, <2>4, <3>1, <3>2, <3>4, <4>1 DEF Shown, Blank
    <3> QED BY <3>3, <3>4
  <2> QED BY <2>3, <2>4
<1>8. ASSUME NEW s \in HeldScenes(y), NEW q \in Lit(now, s), ~IsDoorOf(e, s, q)
      PROVE  q \in y.scenes[s].open <=> q \in st.scenes[s].open
  <2> DEFINE r == set[s]
             c == made[s]
  <2>1. s \in Scenes /\ r \in Scene /\ s \in DOMAIN now.squares /\ c \in Scene
    BY <1>2, <1>4, <1>6, CreatedIs DEF Lit
  <2>2. r = [c EXCEPT !.open = Ajar(shown, e, now, st, s)]
    BY <2>1 DEF DoorsSet
  <2>3. y.scenes[s] = r \/ y.scenes[s] = Relit(r, now, s)
    BY <1>1, <2>1 DEF ToldScenes
  <2> HIDE DEF r, c
  <2>4. y.scenes[s].open = r.open
    BY <2>1, <2>3 DEF Relit, Scene
  <2>5. r.open = Ajar(shown, e, now, st, s)
    BY <2>1, <2>2 DEF Scene
  <2>6. q \in Squares
    BY <1>2 DEF Looked
  <2> QED BY <1>8, <2>4, <2>5, <2>6 DEF Ajar
<1> QED BY <1>6, <1>7, <1>8 DEF y

\* The actors of a log, and what is kept of one that is seen still.
LEMMA ToldActorsAre ==
  ASSUME NEW shown, NEW sighted, NEW before, NEW e, NEW st, NEW h, NEW now,
         Decides(shown, sighted, before, e, st, h, now)
  PROVE  LET y == Told(shown.session, shown, sighted, e, now, st)
             F == Formed(shown, sighted, now, st)
         IN  /\ \A a \in F : /\ a \in Actors /\ HasActor(st, a) /\ a \in now.actors
                             /\ y.actors[a] = FormOf(st, a, a \in now.sees)
                             /\ y.conditions[a] = TurnsOf(st, a, a \in now.sees)
             /\ \A a \in Actors \ F : /\ y.actors[a] = shown.actors[a]
                                      /\ y.conditions[a] = shown.conditions[a]
             /\ \A a \in now.actors \ F : HasActor(shown, a)
             /\ \A a \in now.sees \ F : /\ a \in sighted /\ a \in Actors
                                        /\ SameIncarnation(shown.actors[a], ShownAs(st.actors[a]))
<1> DEFINE y == Told(shown.session, shown, sighted, e, now, st)
           F == Formed(shown, sighted, now, st)
<1>1. y.actors = ToldActors(shown, sighted, now, st) /\ y.conditions = ToldConditions(shown, sighted, now, st)
  BY DEF Told
<1>2. \A a \in now.actors : a \in Actors /\ HasActor(st, a)
  BY DecidesFit DEF Looked
<1>3. now.sees \subseteq now.actors
  BY DecidesFit DEF Looked
<1>4. \A a \in F : a \in now.actors
  BY DEF Formed
<1>5. \A a \in now.actors \ F : HasActor(shown, a)
  BY DEF Formed
<1>6. ASSUME NEW a \in now.sees \ F
      PROVE  a \in sighted /\ SameIncarnation(shown.actors[a], ShownAs(st.actors[a]))
  <2>1. a \in sighted /\ a \notin Withdrawn(shown, now, st) /\ HasActor(shown, a) /\ HasActor(st, a)
    BY <1>2, <1>3 DEF Formed
  <2>2. ~Gone(shown, st, a) /\ ~Reshaped(shown, st, a)
    BY <1>3, <2>1 DEF Withdrawn
  <2> QED BY <2>1, <2>2 DEF Reshaped
<1> HIDE DEF F, y
<1>7. /\ \A a \in F : /\ y.actors[a] = FormOf(st, a, a \in now.sees)
                      /\ y.conditions[a] = TurnsOf(st, a, a \in now.sees)
      /\ \A a \in Actors \ F : y.actors[a] = shown.actors[a] /\ y.conditions[a] = shown.conditions[a]
  BY <1>1, <1>2, <1>4 DEF ToldActors, ToldConditions, F
<1> QED BY <1>2, <1>3, <1>4, <1>5, <1>6, <1>7 DEF F, y

\* What a log holds it holds still, and it holds every actor it is shown.
LEMMA ToldHolds ==
  ASSUME NEW shown, NEW sighted, NEW before, NEW e, NEW st, NEW h, NEW now,
         Decides(shown, sighted, before, e, st, h, now)
  PROVE  LET y == Told(shown.session, shown, sighted, e, now, st)
         IN  /\ \A a : HasActor(shown, a) => HasActor(y, a)
             /\ \A a \in now.actors : HasActor(y, a)
             /\ \A a \in sighted : HasActor(shown, a)
<1> DEFINE y == Told(shown.session, shown, sighted, e, now, st)
           F == Formed(shown, sighted, now, st)
<1>1. /\ \A a \in F : a \in Actors /\ HasActor(st, a) /\ y.actors[a] = FormOf(st, a, a \in now.sees)
      /\ \A a \in Actors \ F : y.actors[a] = shown.actors[a]
      /\ \A a \in now.actors \ F : HasActor(shown, a)
  BY ToldActorsAre
<1>2. st \in GoodStates /\ before \in State
  BY DecidesFit
<1>3. \A a \in F : FormOf(st, a, a \in now.sees) # None
  <2> SUFFICES ASSUME NEW a \in F PROVE FormOf(st, a, a \in now.sees) # None
    OBVIOUS
  <2> DEFINE seen == a \in now.sees
  <2>1. seen \in BOOLEAN /\ a \in Actors /\ HasActor(st, a)
    BY <1>1
  <2> HIDE DEF seen
  <2>2. FormOf(st, a, seen) \in Actor
    BY <1>2, <2>1, FormOfType
  <2>3. FormOf(st, a, seen) # None
    BY <2>2, EngineAssumption
  <2> QED BY <2>3 DEF seen
<1>4. \A a \in now.actors : a \in Actors
  BY DecidesFit DEF Looked
<1>5. \A a \in F : HasActor(y, a)
  BY <1>1, <1>3 DEF HasActor
<1>6. \A a : HasActor(shown, a) => HasActor(y, a)
  BY <1>1, <1>5 DEF HasActor
<1>7. \A a \in sighted : HasActor(shown, a)
  <2> SUFFICES ASSUME NEW a \in sighted PROVE HasActor(shown, a)
    OBVIOUS
  <2>1. a \in Actors /\ HasActor(before, a) /\ shown.actors[a] = ShownAs(before.actors[a])
    BY DEF Decides, Ready, ActorsPresent
  <2>2. before.actors[a] \in Actor
    BY <1>2, <2>1 DEF HasActor, State
  <2>3. ShownAs(before.actors[a]) \in Actor
    BY <2>2, FormsAreActors
  <2> QED BY <2>1, <2>3, EngineAssumption DEF HasActor
<1> HIDE DEF y
<1>8. \A a \in now.actors : HasActor(y, a)
  BY <1>1, <1>4, <1>5, <1>6
<1> QED BY <1>6, <1>7, <1>8 DEF y

\* An actor seen before that is named, kept and of the kind it was is left as
\* it is on the log.
LEMMA KeepsItsForm ==
  ASSUME NEW shown, NEW sighted, NEW before, NEW e, NEW st, NEW h, NEW now,
         Decides(shown, sighted, before, e, st, h, now),
         NEW a \in sighted, SameIncarnation(st.actors[a], before.actors[a]),
         st.actors[a].kind = before.actors[a].kind, HasActor(st, a)
  PROVE  /\ a \notin Formed(shown, sighted, now, st)
         /\ LET y == Told(shown.session, shown, sighted, e, now, st)
            IN  /\ y.actors[a] = ShownAs(before.actors[a])
                /\ y.conditions[a] = before.conditions[a]
<1> DEFINE b == before.actors[a]
           c == st.actors[a]
           y == Told(shown.session, shown, sighted, e, now, st)
<1>1. a \in Actors /\ HasActor(before, a) /\ HasActor(shown, a) /\ before \in State /\ st \in State
      /\ shown.actors[a] = ShownAs(b) /\ shown.conditions[a] = before.conditions[a]
  <2>1. HasActor(shown, a)
    BY ToldHolds
  <2>2. before \in State /\ st \in State
    BY DecidesFit
  <2> QED BY <2>1, <2>2 DEF Decides, Ready, ActorsPresent
<1>2. b \in Actor /\ c \in Actor
  BY <1>1 DEF HasActor, State
<1>3. c.name = b.name /\ c.body = b.body /\ c.kind = b.kind
  BY DEF SameIncarnation
<1> HIDE DEF b, c
<1>4. SameIncarnation(ShownAs(b), ShownAs(c)) /\ ShownAs(b).kind = b.kind
      /\ SameIncarnation(ShownAs(b), ShownWith(c, IsPartyMember(ShownAs(b))))
  BY <1>2, <1>3 DEF SameIncarnation, ShownAs, ShownWith, IsPartyMember, Actor
<1>5. ~Gone(shown, st, a) /\ ~Reshaped(shown, st, a)
  BY <1>1, <1>4 DEF Gone, Reshaped, c
<1>6. a \notin Formed(shown, sighted, now, st)
  BY <1>1, <1>5 DEF Formed, Withdrawn
<1>7. y.actors[a] = shown.actors[a] /\ y.conditions[a] = shown.conditions[a]
  BY <1>1, <1>6, ToldActorsAre
<1> QED BY <1>1, <1>6, <1>7 DEF b

\* What a log is after the event, once what it is of sight has been told.
Comes(y, shown, sighted, e, now, st) ==
  IF Forwards(shown, sighted, e, now, st) THEN After(y, e) ELSE y

\* An actor the event is about, where the event does not make or remake it.
LEMMA TurnsAreOfTheSame ==
  ASSUME NEW shown, NEW sighted, NEW before, NEW e, NEW st, NEW h, NEW now,
         Decides(shown, sighted, before, e, st, h, now), e.actor \in Actors,
         e.type \in {"ConditionApplied", "ConditionRemoved", "ResourceChanged"}
  PROVE  /\ HasActor(before, e.actor) /\ HasActor(st, e.actor)
         /\ SameIncarnation(st.actors[e.actor], before.actors[e.actor])
         /\ st.actors[e.actor].kind = before.actors[e.actor].kind
<1>1. st = After(before, e) /\ before \in State /\ Accepts(before, e)
  BY DecidesFit DEF Decides
<1>2. HasActor(before, e.actor) /\ before.actors[e.actor] \in Actor
  BY <1>1 DEF Accepts, AcceptsChange, HasActor, State
<1>3. CASE e.type = "ResourceChanged"
  <2> DEFINE b == before.actors[e.actor]
  <2>1. st.actors[e.actor] = Remade(b, e)
    BY <1>1, <1>3, RemakesTheActor DEF Remakes
  <2> HIDE DEF b
  <2>2. b \in Actor /\ b # None
    BY <1>2 DEF b, HasActor
  <2>3. Remade(b, e) = [b EXCEPT !.cur = Changed(b, e.delta)]
    BY <1>3 DEF Remade
  <2>4. Remade(b, e).name = b.name /\ Remade(b, e).body = b.body /\ Remade(b, e).kind = b.kind
    BY <2>2, <2>3 DEF Actor
  <2>5. HasActor(st, e.actor)
    <3>1. st \in State /\ st \in GoodStates
      BY DecidesFit
    <3>2. After(before, e).actors[e.actor] # None
      <4>1. AcceptsChange(before, e)
        BY <1>1, <1>3 DEF Accepts
      <4>2. Remade(b, e) \in Actor
        <5>1. Changed(b, e.delta) = e.to /\ e.to \in Int32
          <6>1. e \in Known
            BY DecidesFit
          <6> QED BY <1>3, <4>1, <6>1 DEF AcceptsChange, b, Known, Events
        <5> QED BY <2>2, <2>3, <5>1 DEF Actor
      <4> QED BY <1>1, <2>1, <4>2, EngineAssumption
    <3> QED BY <1>1, <3>2 DEF HasActor
  <2> QED BY <1>2, <2>1, <2>4, <2>5 DEF SameIncarnation, b
<1>4. CASE e.type # "ResourceChanged"
  <2>1. st.actors = before.actors
    BY <1>1, <1>4, LeavesTheActors
  <2> QED BY <1>2, <2>1 DEF HasActor, SameIncarnation
<1> QED BY <1>3, <1>4

LEMMA ForwardsConditions ==
  ASSUME NEW shown, NEW sighted, NEW before, NEW e, NEW st, NEW h, NEW now,
         Decides(shown, sighted, before, e, st, h, now),
         Forwards(shown, sighted, e, now, st),
         e.type \in {"ConditionApplied", "ConditionRemoved"}
  PROVE  Accepts(Told(shown.session, shown, sighted, e, now, st), e)
<1> DEFINE y == Told(shown.session, shown, sighted, e, now, st)
<1>1. e.actor \in sighted
  BY DEF Forwards
<1>2. e.actor \in Actors /\ Accepts(before, e)
  BY <1>1 DEF Decides, Ready
<1>3. y.conditions[e.actor] = before.conditions[e.actor]
  BY <1>1, <1>2, TurnsAreOfTheSame, KeepsItsForm
<1>4. HasActor(y, e.actor)
  BY <1>1, ToldHolds
<1> HIDE DEF y
<1> QED BY <1>2, <1>3, <1>4 DEF Accepts, y

\* What is forwarded of a resource is of an actor the log holds whole.
LEMMA ForwardsResources ==
  ASSUME NEW shown, NEW sighted, NEW before, NEW e, NEW st, NEW h, NEW now,
         Decides(shown, sighted, before, e, st, h, now),
         Forwards(shown, sighted, e, now, st), e.type = "ResourceChanged"
  PROVE  LET y == Told(shown.session, shown, sighted, e, now, st)
         IN  Accepts(y, e) /\ y.actors[e.actor] = before.actors[e.actor]
<1> DEFINE y == Told(shown.session, shown, sighted, e, now, st)
           b == before.actors[e.actor]
<1>1. e.actor \in sighted /\ e.actor \in Party(st)
  BY DEF Forwards, ForwardsResource
<1>2. e.actor \in Actors /\ Accepts(before, e)
  BY <1>1 DEF Decides, Ready
<1>3. y.actors[e.actor] = ShownAs(b)
  BY <1>1, <1>2, TurnsAreOfTheSame, KeepsItsForm
<1>4. st.actors[e.actor].kind = b.kind
  BY <1>2, TurnsAreOfTheSame
<1>5. HasActor(y, e.actor)
  BY <1>1, ToldHolds
<1> HIDE DEF y
<1>6. ShownAs(b) = b
  BY <1>1, <1>4 DEF ShownAs, ShownWith, IsPartyMember, Party
<1>7. AcceptsChange(before, e)
  BY <1>2 DEF Accepts
<1>8. AcceptsChange(y, e)
  BY <1>3, <1>5, <1>6, <1>7 DEF AcceptsChange
<1>9. Accepts(y, e)
  BY <1>8 DEF Accepts
<1> QED BY <1>3, <1>6, <1>9 DEF y

LEMMA ForwardsRemovals ==
  ASSUME NEW shown, NEW sighted, NEW before, NEW e, NEW st, NEW h, NEW now,
         Decides(shown, sighted, before, e, st, h, now),
         Forwards(shown, sighted, e, now, st), e.type = "ActorRemoved"
  PROVE  Accepts(Told(shown.session, shown, sighted, e, now, st), e)
<1> DEFINE y == Told(shown.session, shown, sighted, e, now, st)
<1>1. e.actor \in sighted
  BY DEF Forwards
<1>2. e.actor \in Actors /\ Accepts(before, e) /\ st = After(before, e) /\ before \in State
  BY <1>1, DecidesFit DEF Decides, Ready
<1>3. HasActor(y, e.actor)
  BY <1>1, ToldHolds
<1>4. st.tokens = before.tokens
  BY <1>2, LeavesTheTokens
<1>5. HeldTokens(y) = now.tokens /\ \A t \in now.tokens : y.tokens[t] = st.tokens[t]
  BY <1>4, ToldTokensAre
<1>6. \A t \in now.tokens : t \in Tokens /\ HasToken(st, t)
  BY DecidesFit DEF Looked
<1> HIDE DEF y
<1>7. Standing(before, e.actor) = {}
  BY <1>2 DEF Accepts, AcceptsRemoval
<1>8. Standing(y, e.actor) = {}
  BY <1>4, <1>5, <1>6, <1>7 DEF Standing, HeldTokens, HasToken
<1> QED BY <1>3, <1>8 DEF Accepts, AcceptsRemoval, y

LEMMA ForwardsTheRest ==
  ASSUME NEW shown, NEW sighted, NEW before, NEW e, NEW st, NEW h, NEW now,
         Decides(shown, sighted, before, e, st, h, now),
         Forwards(shown, sighted, e, now, st),
         e.type \notin {"ConditionApplied", "ConditionRemoved", "ResourceChanged", "ActorRemoved"}
  PROVE  Accepts(Told(shown.session, shown, sighted, e, now, st), Forwardable(e, now))
<1> DEFINE y == Told(shown.session, shown, sighted, e, now, st)
<1>1. Accepts(before, e) /\ y.session = before.session /\ e \in Known /\ now.eyes = {h} /\ h \in now.actors
  <2>1. y.session = shown.session
    BY DEF Told
  <2> HIDE DEF y
  <2>2. e \in Known /\ now.eyes = {h} /\ h \in now.actors
    <3>1. e \in Known
      BY DecidesFit
    <3>2. now.eyes = {h}
      <4>1. Looked(st, {h}, now)
        BY DecidesFit
      <4> QED BY <4>1 DEF Looked
    <3>3. h \in now.actors
      BY DecidesFit
    <3> QED BY <3>1, <3>2, <3>3
  <2> QED BY <2>1, <2>2 DEF Decides, Ready
<1>2. HeldTokens(y) = now.tokens /\ now.tokens \subseteq Tokens /\ DOMAIN now.squares \subseteq HeldScenes(y)
  <2>1. HeldTokens(y) = now.tokens
    BY ToldTokensAre
  <2>2. DOMAIN now.squares \subseteq HeldScenes(y)
    BY ToldScenesAre
  <2>3. now.tokens \subseteq Tokens
    BY DecidesFit DEF Looked
  <2> QED BY <2>1, <2>2, <2>3
<1>3. (\A a \in sighted : HasActor(y, a)) /\ \A a \in now.actors : HasActor(y, a)
  BY ToldHolds
<1> HIDE DEF y
<1>4. CASE e.type = "WhisperAdded"
  <2> DEFINE f == [e EXCEPT !.to = @ \cap now.eyes]
  <2>1. f.type = e.type /\ f.from = e.from /\ f.to = e.to \cap now.eyes
    BY <1>1, <1>4 DEF Known, Events
  <2>2. e.from = None \/ e.to = {}
    BY <1>4 DEF Decides, Made
  <2>3. e.from \in now.eyes \/ e.to \cap now.eyes # {}
    BY <1>4 DEF Forwards
  <2> HIDE DEF f
  <2>4. Accepts(y, f)
    BY <1>1, <1>3, <1>4, <2>1, <2>2, <2>3 DEF Accepts
  <2> QED BY <1>4, <2>4 DEF Forwardable, f, y
<1>5. CASE e.type # "WhisperAdded"
  <2>1. Forwardable(e, now) = e
    BY <1>5 DEF Forwardable
  <2>2. CASE e.type \in {"SessionStarted", "SessionEnded"}
    BY <1>1, <2>1, <2>2 DEF Accepts, y
  <2>3. CASE e.type = "NarrationAdded"
    BY <1>1, <2>1, <2>3 DEF Accepts, y
  <2>4. CASE e.type = "NoteUpserted"
    BY <2>1, <2>4 DEF Accepts, y
  <2>5. CASE e.type = "TokenDescribed"
    <3>1. HasToken(y, e.token)
      BY <1>2, <2>5 DEF Forwards, HeldTokens
    <3> QED BY <2>1, <2>5, <3>1 DEF Accepts, y
  <2>6. CASE e.type = "TokenMoved"
    <3>1. HasToken(y, e.token) /\ e.at # None
      BY <1>1, <1>2, <2>6 DEF Forwards, HeldTokens, Accepts
    <3> QED BY <2>1, <2>6, <3>1 DEF Accepts, y
  <2>7. CASE e.type \in {"DoorOpened", "DoorClosed"}
    <3>1. HasScene(y, e.scene) /\ e.at # None
      BY <1>1, <1>2, <2>7 DEF Forwards, HeldScenes, Accepts, CanSee, Lit
    <3> QED BY <2>1, <2>7, <3>1 DEF Accepts, y
  <2>8. CASE e.type \in {"ActorControlGranted", "ActorControlRevoked"}
    <3>1. HasActor(y, e.actor)
      BY <1>3, <2>8 DEF Forwards
    <3> QED BY <2>1, <2>8, <3>1 DEF Accepts, y
  <2> QED BY <1>5, <2>2, <2>3, <2>4, <2>5, <2>6, <2>7, <2>8 DEF Forwards
<1> QED BY <1>4, <1>5

\* So what is forwarded is taken, after what the log is told first.
LEMMA ForwardsAreTaken ==
  ASSUME NEW shown, NEW sighted, NEW before, NEW e, NEW st, NEW h, NEW now,
         Decides(shown, sighted, before, e, st, h, now),
         Forwards(shown, sighted, e, now, st)
  PROVE  LET y == Told(shown.session, shown, sighted, e, now, st)
         IN  /\ Accepts(y, Forwardable(e, now))
             /\ e.type # "WhisperAdded" => Accepts(y, e)
             /\ After(y, Forwardable(e, now)) = After(y, e)
<1> DEFINE y == Told(shown.session, shown, sighted, e, now, st)
           kept == {"ConditionApplied", "ConditionRemoved", "ResourceChanged", "ActorRemoved"}
<1>1. e.type # "WhisperAdded" => Forwardable(e, now) = e
  BY DEF Forwardable
<1>2. e.type = "WhisperAdded" => After(y, Forwardable(e, now)) = After(y, e)
  <2> HIDE DEF y
  <2>1. e \in Known
    BY DecidesFit
  <2>2. e.type = "WhisperAdded" => Forwardable(e, now).type = "WhisperAdded"
    BY <2>1 DEF Forwardable, Known, Events
  <2> QED BY <2>2 DEF After
<1>3. CASE e.type \notin kept
  <2>1. Accepts(y, Forwardable(e, now))
    BY <1>3, ForwardsTheRest
  <2> HIDE DEF y
  <2> QED BY <1>1, <1>2, <2>1 DEF y
<1>4. CASE e.type \in kept
  <2>1. Accepts(y, e)
    <3>1. CASE e.type \in {"ConditionApplied", "ConditionRemoved"}
      BY <3>1, ForwardsConditions
    <3>2. CASE e.type = "ResourceChanged"
      BY <3>2, ForwardsResources
    <3>3. CASE e.type = "ActorRemoved"
      BY <3>3, ForwardsRemovals
    <3> QED BY <1>4, <3>1, <3>2, <3>3
  <2> HIDE DEF y
  <2> QED BY <1>1, <1>2, <1>4, <2>1 DEF y
<1> QED BY <1>3, <1>4

\* The frames of an event fold, and to this.
LEMMA EventFolds ==
  ASSUME NEW shown, NEW sighted, NEW before, NEW e, NEW st, NEW h, NEW now,
         Decides(shown, sighted, before, e, st, h, now)
  PROVE  LET z == Comes(Told(shown.session, shown, sighted, e, now, st), shown, sighted, e, now, st)
         IN  /\ Folded(shown, Event(shown, sighted, e, now, st)) = z
             /\ z \in GoodStates /\ z # None
<1> DEFINE y == Told(shown.session, shown, sighted, e, now, st)
           z == Comes(y, shown, sighted, e, now, st)
           frames == Transitions(shown, sighted, e, now, st)
           f == Forwardable(e, now)
           last == If(Forwards(shown, sighted, e, now, st), f)
<1>1. Folded(shown, frames) = y /\ y \in GoodStates
  BY ToldStands
<1>2. shown \in GoodStates /\ st \in GoodStates /\ Looked(st, {h}, now) /\ e \in Events
      /\ e.type # "Unknown"
  <2>1. e \in Made
    BY DEF Decides
  <2> QED BY <2>1, DecidesFit, MadeAreKnown
<1>3. frames \in Seq(Known) /\ last \in Seq(Known) /\ Event(shown, sighted, e, now, st) = frames \o last
      /\ Event(shown, sighted, e, now, st) \in Seq(Known)
  BY <1>2, TransitionsType, EventType DEF Event
<1>4. Folded(y, last) = z
  <2>1. CASE Forwards(shown, sighted, e, now, st)
    <3>1. Accepts(y, f) /\ After(y, f) = After(y, e)
      BY <2>1, ForwardsAreTaken
    <3>2. last = <<f>> /\ z = After(y, e)
      BY <2>1 DEF If, Comes
    <3> HIDE DEF y, z, frames, f, last
    <3> QED BY <1>1, <3>1, <3>2, Steps DEF GoodStates
  <2>2. CASE ~Forwards(shown, sighted, e, now, st)
    <3>1. last = <<>> /\ z = y
      BY <2>2 DEF If, Comes
    <3> HIDE DEF y, z, frames, f, last
    <3> QED BY <3>1, FoldedEmpty
  <2> QED BY <2>1, <2>2
<1>6. Folded(shown, Event(shown, sighted, e, now, st)) = z
  <2> HIDE DEF y, z, frames, last
  <2>1. Folded(shown, frames \o last) = Folded(Folded(shown, frames), last)
    BY <1>3, FoldedBoth
  <2> QED BY <1>1, <1>3, <1>4, <2>1
<1>7. z \in State
  <2>1. y \in State
    BY <1>1 DEF GoodStates
  <2>2. CASE ~Forwards(shown, sighted, e, now, st)
    BY <2>1, <2>2 DEF Comes
  <2>3. CASE Forwards(shown, sighted, e, now, st)
    <3>1. Accepts(y, f) /\ After(y, f) = After(y, e) /\ z = After(y, e)
      BY <2>3, ForwardsAreTaken DEF Comes
    <3>2. f \in Known
      <4>1. last = <<f>>
        BY <2>3 DEF If
      <4> HIDE DEF f, last
      <4> QED BY <1>3, <4>1
    <3> HIDE DEF y, z, f
    <3> QED BY <1>1, <3>1, <3>2, GoodAfter DEF GoodStates
  <2> QED BY <2>2, <2>3
<1>8. Folded(shown, Event(shown, sighted, e, now, st)) \in GoodStates \cup {None}
  BY <1>2, <1>3, FoldsAgree
<1> HIDE DEF z
<1>9. z # None
  BY <1>7, EngineAssumption
<1> QED BY <1>6, <1>8, <1>9 DEF z

-----------------------------------------------------------------------------
(* What a log shows after the event.                                       *)

LEMMA ShowsTheTokens ==
  ASSUME NEW shown, NEW sighted, NEW before, NEW e, NEW st, NEW h, NEW now,
         Decides(shown, sighted, before, e, st, h, now)
  PROVE  LET z == Comes(Told(shown.session, shown, sighted, e, now, st), shown, sighted, e, now, st)
         IN  HeldTokens(z) = now.tokens /\ \A t \in now.tokens : z.tokens[t] = st.tokens[t]
<1> DEFINE y == Told(shown.session, shown, sighted, e, now, st)
           z == Comes(y, shown, sighted, e, now, st)
           F == Forwards(shown, sighted, e, now, st)
<1>1. /\ HeldTokens(y) = now.tokens
      /\ \A t \in now.tokens : \/ y.tokens[t] = st.tokens[t]
                               \/ /\ t \in HeldTokens(shown) /\ HasToken(before, t)
                                  /\ y.tokens[t] = before.tokens[t]
  BY ToldTokensAre
<1>2. y \in State
  BY ToldStands DEF GoodStates
<1>3. st = After(before, e) /\ before \in State /\ Accepts(before, e) /\ e \in Known
  BY DecidesFit DEF Decides
<1>4. \A t \in now.tokens : t \in Tokens /\ HasToken(st, t) /\ st.tokens[t] \in Token
  BY DecidesFit DEF Looked
<1>5. \A t \in Tokens : t \in HeldTokens(shown) => HasToken(shown, t)
  BY DEF HeldTokens
<1>6. z = IF F THEN After(y, e) ELSE y
  BY DEF Comes
<1> HIDE DEF y, z
<1>7. CASE e.type \in {"TokenMoved", "TokenDescribed"}
  <2>1. e.token \in Tokens
    BY <1>3, <1>7 DEF Known, Events
  <2>2. \A t \in Tokens : st.tokens[t] = IF t = e.token THEN Rewritten(before.tokens[t], e)
                                         ELSE before.tokens[t]
    BY <1>3, <1>7, <2>1, RewritesTheToken
  <2>3. \A t \in Tokens : After(y, e).tokens[t] = IF t = e.token THEN Rewritten(y.tokens[t], e)
                                                  ELSE y.tokens[t]
    BY <1>2, <1>7, <2>1, RewritesTheToken
  <2>4. \A t \in now.tokens \ {e.token} : z.tokens[t] = st.tokens[t]
    BY <1>1, <1>4, <1>6, <2>2, <2>3
  <2>5. \A t \in Tokens : (z.tokens[t] = None) = (y.tokens[t] = None)
    <3>1. HasToken(before, e.token) /\ (F => e.token \in now.tokens)
      BY <1>3, <1>7 DEF Accepts, Forwards
    <3>2. \A t \in now.tokens : y.tokens[t] # None
      BY <1>1 DEF HeldTokens, HasToken
    <3>3. F => y.tokens[e.token] \in Token /\ Rewritten(y.tokens[e.token], e) \in Token
      <4>1. F => y.tokens[e.token] \in Token
        BY <1>2, <2>1, <3>1, <3>2 DEF State
      <4>2. e.type = "TokenMoved" => e.at \in Squares
        BY <1>3, <1>7 DEF Accepts, Known, Events, Position
      <4>3. e.type = "TokenDescribed" => e.text \in Texts
        BY <1>3, <1>7 DEF Known, Events
      <4> QED BY <1>7, <4>1, <4>2, <4>3 DEF Rewritten, Token
    <3> QED BY <1>6, <2>3, <3>1, <3>2, <3>3, EngineAssumption
  <2>6. e.token \in now.tokens => z.tokens[e.token] = st.tokens[e.token]
    <3> SUFFICES ASSUME e.token \in now.tokens PROVE z.tokens[e.token] = st.tokens[e.token]
      OBVIOUS
    <3> DEFINE b == before.tokens[e.token]
               k == y.tokens[e.token]
    <3>1. HasToken(before, e.token) /\ b \in Token
      BY <1>3, <1>7, <2>1 DEF Accepts, HasToken, State
    <3>2. st.tokens[e.token] = Rewritten(b, e)
      BY <2>1, <2>2
    <3>3. k = Rewritten(b, e) \/ (e.token \in HeldTokens(shown) /\ k = b)
      BY <1>1, <3>2
    <3>4. After(y, e).tokens[e.token] = Rewritten(k, e)
      BY <2>1, <2>3
    <3>5. HasToken(shown, e.token) => shown.tokens[e.token] = b
      BY <2>1 DEF Decides, Ready, TokensPresent, HeldTokens, HasToken
    <3> HIDE DEF b, k
    <3>6. Rewritten(Rewritten(b, e), e) = Rewritten(b, e)
      BY <3>1 DEF Rewritten, Token
    <3>7. CASE F
      BY <1>6, <3>2, <3>3, <3>4, <3>6, <3>7
    <3>8. CASE ~F
      <4>1. z.tokens[e.token] = k
        BY <1>6, <3>8 DEF k
      <4>2. CASE e.type = "TokenMoved"
        <5>1. ~HasToken(shown, e.token)
          BY <3>8, <4>2 DEF Forwards
        <5> QED BY <1>5, <2>1, <3>2, <3>3, <4>1, <5>1
      <4>3. CASE e.type = "TokenDescribed"
        <5>1. ~HasToken(shown, e.token) \/ b.text = e.text
          BY <3>5, <3>8, <4>3 DEF Forwards
        <5>2. b.text = e.text => Rewritten(b, e) = b
          BY <3>1, <4>3 DEF Rewritten, Token
        <5> QED BY <1>5, <2>1, <3>2, <3>3, <4>1, <5>1, <5>2
      <4> QED BY <1>7, <4>2, <4>3
    <3> QED BY <3>7, <3>8
  <2>7. HeldTokens(z) = HeldTokens(y)
    BY <2>5 DEF HeldTokens, HasToken
  <2> QED BY <1>1, <2>4, <2>6, <2>7 DEF y, z
<1>8. CASE e.type \notin {"TokenMoved", "TokenDescribed"}
  <2>1. F => e.type \notin {"TokenPlaced", "TokenRemoved", "TokenHidden"}
    BY DEF Forwards
  <2>2. z.tokens = y.tokens
    BY <1>2, <1>6, <1>8, <2>1, LeavesTheTokens
  <2>3. \A t \in now.tokens : HasToken(before, t) => before.tokens[t] = st.tokens[t]
    <3>1. CASE e.type \in {"TokenPlaced", "TokenRemoved", "TokenHidden"}
      <4>1. e.token \in Tokens
        BY <1>3, <3>1 DEF Known, Events
      <4>2. \A t \in Tokens \ {e.token} : st.tokens[t] = before.tokens[t]
        BY <1>3, <3>1, <4>1, SparesTheToken
      <4>3. e.type # "TokenPlaced" => st.tokens[e.token] = None
        BY <1>3, <3>1, <4>1, SparesTheToken
      <4>4. e.type = "TokenPlaced" => ~HasToken(before, e.token)
        BY <1>3 DEF Accepts, AcceptsToken
      <4> QED BY <1>4, <4>2, <4>3, <4>4 DEF HasToken
    <3>2. CASE e.type \notin {"TokenPlaced", "TokenRemoved", "TokenHidden"}
      <4>1. st.tokens = before.tokens
        BY <1>3, <1>8, <3>2, LeavesTheTokens
      <4> QED BY <4>1
    <3> QED BY <3>1, <3>2
  <2>4. HeldTokens(z) = HeldTokens(y)
    BY <2>2 DEF HeldTokens, HasToken
  <2> QED BY <1>1, <2>2, <2>3, <2>4 DEF y, z
<1> QED BY <1>7, <1>8

LEMMA ShowsTheScenes ==
  ASSUME NEW shown, NEW sighted, NEW before, NEW e, NEW st, NEW h, NEW now,
         Decides(shown, sighted, before, e, st, h, now)
  PROVE  LET z == Comes(Told(shown.session, shown, sighted, e, now, st), shown, sighted, e, now, st)
         IN  /\ DOMAIN now.squares \subseteq HeldScenes(z)
             /\ \A s \in HeldScenes(z) :
                  /\ Shown(z, s) = Lit(now, s)
                  /\ z.scenes[s].open \cap Lit(now, s) = st.scenes[s].open \cap Lit(now, s)
<1> DEFINE y == Told(shown.session, shown, sighted, e, now, st)
           z == Comes(y, shown, sighted, e, now, st)
           F == Forwards(shown, sighted, e, now, st)
<1>1. /\ DOMAIN now.squares \subseteq HeldScenes(y)
      /\ \A s \in HeldScenes(y) :
           /\ Shown(y, s) = Lit(now, s)
           /\ \A q \in Lit(now, s) :
                ~IsDoorOf(e, s, q) => (q \in y.scenes[s].open <=> q \in st.scenes[s].open)
  BY ToldScenesAre
<1>2. y \in State
  BY ToldStands DEF GoodStates
<1>3. st = After(before, e) /\ before \in State /\ Accepts(before, e) /\ e \in Known
  BY DecidesFit DEF Decides
<1>4. z = IF F THEN After(y, e) ELSE y
  BY DEF Comes
<1> HIDE DEF y, z
<1>5. CASE e.type \in {"DoorOpened", "DoorClosed"}
  <2>1. e.scene \in Scenes /\ e.at \in Squares /\ HasScene(before, e.scene)
    BY <1>3, <1>5 DEF Known, Events, Accepts, Position
  <2>2. F <=> e.at \in Lit(now, e.scene)
    BY <1>5 DEF Forwards, CanSee
  <2>3. st.scenes[e.scene].open = IF e.type = "DoorOpened" THEN before.scenes[e.scene].open \cup {e.at}
                                  ELSE before.scenes[e.scene].open \ {e.at}
    BY <1>3, <1>5, <2>1, TurnsTheDoor DEF HasScene
  <2>4. CASE F
    <3>1. e.scene \in HeldScenes(y) /\ HasScene(y, e.scene)
      BY <1>1, <2>1, <2>2, <2>4 DEF Lit, HeldScenes
    <3>2. \A s \in Scenes :
           /\ (z.scenes[s] = None) = (y.scenes[s] = None)
           /\ y.scenes[s] # None =>
                /\ z.scenes[s].visible = y.scenes[s].visible
                /\ z.scenes[s].open = IF s # e.scene THEN y.scenes[s].open
                                      ELSE IF e.type = "DoorOpened" THEN y.scenes[s].open \cup {e.at}
                                      ELSE y.scenes[s].open \ {e.at}
      BY <1>2, <1>4, <1>5, <2>1, <2>4, <3>1, TurnsTheDoor
    <3>3. HeldScenes(z) = HeldScenes(y)
      BY <3>2 DEF HeldScenes, HasScene
    <3>4. \A s \in HeldScenes(y) : Shown(z, s) = Shown(y, s)
      BY <3>2 DEF HeldScenes, HasScene, Shown
    <3>5. ASSUME NEW s \in HeldScenes(y), NEW q \in Lit(now, s)
          PROVE  q \in z.scenes[s].open <=> q \in st.scenes[s].open
      <4>1. s \in Scenes /\ y.scenes[s] # None
        BY DEF HeldScenes, HasScene
      <4>2. CASE s = e.scene /\ q = e.at
        BY <1>5, <2>3, <3>2, <4>1, <4>2
      <4>3. CASE ~(s = e.scene /\ q = e.at)
        <5>1. q \in y.scenes[s].open <=> q \in st.scenes[s].open
          BY <1>1, <4>3 DEF IsDoorOf
        <5> QED BY <3>2, <4>1, <4>3, <5>1
      <4> QED BY <4>2, <4>3
    <3> QED BY <1>1, <3>3, <3>4, <3>5 DEF y, z
  <2>5. CASE ~F
    <3>1. z = y
      BY <1>4, <2>5
    <3>2. \A s \in HeldScenes(y) : \A q \in Lit(now, s) : ~IsDoorOf(e, s, q)
      BY <2>2, <2>5 DEF IsDoorOf
    <3> QED BY <1>1, <3>1, <3>2 DEF y, z
  <2> QED BY <2>4, <2>5
<1>6. CASE e.type \notin {"DoorOpened", "DoorClosed"}
  <2>1. z.scenes = y.scenes
    <3>1. F => e.type \notin {"SceneCreated", "SceneSeen"}
      BY DEF Forwards
    <3> QED BY <1>2, <1>4, <1>6, <3>1, LeavesTheScenes
  <2>2. \A s \in HeldScenes(y) : \A q \in Lit(now, s) : ~IsDoorOf(e, s, q)
    BY <1>6 DEF IsDoorOf
  <2>3. HeldScenes(z) = HeldScenes(y) /\ \A s : Shown(z, s) = Shown(y, s)
    BY <2>1 DEF HeldScenes, HasScene, Shown
  <2> QED BY <1>1, <2>1, <2>2, <2>3 DEF y, z
<1> QED BY <1>5, <1>6

\* The control of what is shown of an actor is the actor's, and its kind.
LEMMA RemadeForms ==
  ASSUME NEW a \in Actor, InBounds(a), NEW e,
         (e.type = "ActorControlGranted" /\ e.kind \in Kinds /\ e.person \in People)
           \/ e.type = "ActorControlRevoked"
  PROVE  /\ Remade(ShownAs(Remade(a, e)), e) = ShownAs(Remade(a, e))
         /\ SameIncarnation(ShownAs(a), ShownAs(Remade(a, e)))
              => Remade(ShownAs(a), e) = ShownAs(Remade(a, e))
<1> DEFINE f(b) == Remade(b, e)
<1>1. CASE e.type = "ActorControlGranted"
  <2> DEFINE b == Granted(a, e)
  <2>1. \A c : Remade(c, e) = Granted(c, e)
    BY <1>1 DEF Remade
  <2>2. b \in Actor /\ b.name = a.name /\ b.body = a.body /\ b.cur = a.cur
        /\ b.kind = (IF e.kind = "unspecified" THEN a.kind ELSE e.kind) /\ b.ctl = a.ctl \cup {e.person}
    BY <1>1 DEF Granted, Actor
  <2>3. Granted(ShownAs(b), e) = ShownAs(b)
    <3>1. ShownAs(b) \in Actor /\ ShownAs(b).kind = b.kind /\ ShownAs(b).ctl = b.ctl
      BY <2>2, FormsAreActors
    <3> HIDE DEF b
    <3>2. e.kind # "unspecified" => b.kind = e.kind
      BY <2>2
    <3>3. e.person \in b.ctl
      BY <2>2
    <3> DEFINE c == ShownAs(b)
    <3> HIDE DEF c
    <3>4. Granted(c, e) = c
      BY <3>1, <3>2, <3>3 DEF Granted, Actor, c
    <3> QED BY <3>4 DEF c
  <2>4. SameIncarnation(ShownAs(a), ShownAs(b)) => Granted(ShownAs(a), e) = ShownAs(b)
    <3> SUFFICES ASSUME SameIncarnation(ShownAs(a), ShownAs(b))
                 PROVE  Granted(ShownAs(a), e) = ShownAs(b)
      OBVIOUS
    <3> DEFINE c == ShownAs(a)
               d == ShownAs(b)
    <3>1. c \in Actor /\ c.kind = a.kind /\ c.ctl = a.ctl /\ d \in Actor /\ d.kind = b.kind /\ d.ctl = b.ctl
      BY <2>2, FormsAreActors
    <3>2. c.name = d.name /\ c.body = d.body
      BY DEF SameIncarnation
    <3>3. c.cur = IF a.kind = "party" THEN a.cur ELSE 0
      BY DEF ShownAs, ShownWith, IsPartyMember, Actor
    <3> HIDE DEF b
    <3>4. d.cur = IF b.kind = "party" THEN b.cur ELSE 0
      BY <2>2 DEF ShownAs, ShownWith, IsPartyMember, Actor
    <3>5. c.body = IF a.kind = "party" THEN a.body ELSE None
      BY DEF ShownAs, ShownWith, IsPartyMember, Actor
    <3>6. d.body = IF b.kind = "party" THEN b.body ELSE None
      BY <2>2 DEF ShownAs, ShownWith, IsPartyMember, Actor
    <3>7. a.body = None => a.cur = 0
      BY DEF InBounds
    <3>8. c.cur = d.cur
      BY <2>2, <3>2, <3>3, <3>4, <3>5, <3>6, <3>7
    <3> HIDE DEF c, d
    <3>9. Granted(c, e) = d
      BY <2>2, <3>1, <3>2, <3>8 DEF Granted, Actor
    <3> QED BY <3>9 DEF c, d
  <2> QED BY <2>1, <2>3, <2>4
<1>2. CASE e.type = "ActorControlRevoked"
  <2>1. \A c : Remade(c, e) = Revoked(c, e)
    BY <1>2 DEF Remade
  <2>2. Revoked(ShownAs(a), e) = ShownAs(Revoked(a, e))
    BY DEF Revoked, ShownAs, ShownWith, IsPartyMember, Actor
  <2>3. Revoked(Revoked(a, e), e) = Revoked(a, e) /\ Revoked(a, e) \in Actor
    BY DEF Revoked, Actor
  <2>4. Revoked(ShownAs(Revoked(a, e)), e) = ShownAs(Revoked(a, e))
    <3> DEFINE b == Revoked(a, e)
    <3> HIDE DEF b
    <3>1. Revoked(ShownAs(b), e) = ShownAs(Revoked(b, e))
      BY <2>3 DEF Revoked, ShownAs, ShownWith, IsPartyMember, Actor, b
    <3> QED BY <2>3, <3>1 DEF b
  <2> QED BY <2>1, <2>2, <2>4
<1> QED BY <1>1, <1>2

\* An actor in sight, and in the log as it was seen before.
LEMMA SeenStill ==
  ASSUME NEW shown, NEW sighted, NEW before, NEW e, NEW st, NEW h, NEW now,
         Decides(shown, sighted, before, e, st, h, now), NEW a \in now.sees
  PROVE  LET y == Told(shown.session, shown, sighted, e, now, st)
         IN  /\ a \in Actors /\ HasActor(st, a)
             /\ \/ y.actors[a] = ShownAs(st.actors[a]) /\ y.conditions[a] = st.conditions[a]
                \/ /\ a \in sighted /\ HasActor(before, a)
                   /\ y.actors[a] = ShownAs(before.actors[a])
                   /\ y.conditions[a] = before.conditions[a]
                   /\ SameIncarnation(ShownAs(before.actors[a]), ShownAs(st.actors[a]))
             /\ a \notin sighted => y.actors[a] = ShownAs(st.actors[a])
                                    /\ y.conditions[a] = st.conditions[a]
<1> DEFINE y == Told(shown.session, shown, sighted, e, now, st)
           F == Formed(shown, sighted, now, st)
<1>1. a \in Actors /\ HasActor(st, a)
  BY DecidesFit DEF Looked
<1>2. CASE a \in F
  <2>1. y.actors[a] = FormOf(st, a, a \in now.sees) /\ y.conditions[a] = TurnsOf(st, a, a \in now.sees)
    BY <1>2, ToldActorsAre
  <2> HIDE DEF y
  <2>2. y.actors[a] = ShownAs(st.actors[a]) /\ y.conditions[a] = st.conditions[a]
    BY <2>1 DEF FormOf, TurnsOf
  <2> QED BY <1>1, <2>2 DEF y
<1>3. CASE a \notin F
  <2>1. y.actors[a] = shown.actors[a] /\ y.conditions[a] = shown.conditions[a]
    BY <1>1, <1>3, ToldActorsAre
  <2>2. a \in sighted /\ SameIncarnation(shown.actors[a], ShownAs(st.actors[a]))
    BY <1>3, ToldActorsAre
  <2>3. HasActor(before, a) /\ shown.actors[a] = ShownAs(before.actors[a])
        /\ shown.conditions[a] = before.conditions[a]
    BY <2>2 DEF Decides, Ready, ActorsPresent
  <2> HIDE DEF y
  <2> QED BY <1>1, <2>1, <2>2, <2>3 DEF y
<1> QED BY <1>2, <1>3

LEMMA ShowsTheActors ==
  ASSUME NEW shown, NEW sighted, NEW before, NEW e, NEW st, NEW h, NEW now,
         Decides(shown, sighted, before, e, st, h, now), NEW a \in now.sees
  PROVE  LET z == Comes(Told(shown.session, shown, sighted, e, now, st), shown, sighted, e, now, st)
         IN  z.actors[a] = ShownAs(st.actors[a]) /\ z.conditions[a] = st.conditions[a]
<1> DEFINE y == Told(shown.session, shown, sighted, e, now, st)
           z == Comes(y, shown, sighted, e, now, st)
           F == Forwards(shown, sighted, e, now, st)
           b == before.actors[a]
           Now == y.actors[a] = ShownAs(st.actors[a]) /\ y.conditions[a] = st.conditions[a]
           Same == /\ a \in sighted /\ HasActor(before, a)
                   /\ y.actors[a] = ShownAs(b) /\ y.conditions[a] = before.conditions[a]
                   /\ SameIncarnation(ShownAs(b), ShownAs(st.actors[a]))
<1> SUFFICES z.actors[a] = ShownAs(st.actors[a]) /\ z.conditions[a] = st.conditions[a]
  OBVIOUS
<1>1. a \in Actors /\ HasActor(st, a) /\ (Now \/ Same) /\ (a \notin sighted => Now)
  BY SeenStill
<1>2. y \in State
  BY ToldStands DEF GoodStates
<1>3. st = After(before, e) /\ before \in State /\ Accepts(before, e) /\ e \in Known /\ e \in Made
  BY DecidesFit DEF Decides
<1>4. z = IF F THEN After(y, e) ELSE y
  BY DEF Comes
<1>5. ASSUME HasActor(before, a) PROVE b \in Actor /\ InBounds(b)
  BY <1>1, <1>3, <1>5 DEF HasActor, State, Decides, Bounded
<1>6. e.type = "ResourceChanged" /\ F => y.actors[e.actor] = before.actors[e.actor]
  BY ForwardsResources
<1>7. e.actor = a /\ a \in sighted /\ e.type \in {"ConditionApplied", "ConditionRemoved", "ResourceChanged"}
        => y.conditions[a] = before.conditions[a] /\ y.actors[a] = ShownAs(b)
  BY <1>1, TurnsAreOfTheSame, KeepsItsForm
<1> HIDE DEF y, z, F, b
<1>8. CASE e.type \in Remakes
  <2>1. e.actor \in Actors
    BY <1>3, <1>8 DEF Remakes, Known, Events
  <2>2. st.conditions = before.conditions /\ z.conditions = y.conditions
    BY <1>2, <1>3, <1>4, <1>8, LeavesTheConditions DEF Remakes
  <2>3. st.actors[a] = IF a = e.actor THEN Remade(b, e) ELSE b
    BY <1>1, <1>3, <1>8, <2>1, RemakesTheActor DEF b
  <2>4. z.actors[a] = IF a = e.actor /\ F THEN Remade(y.actors[a], e) ELSE y.actors[a]
    BY <1>1, <1>2, <1>4, <1>8, <2>1, RemakesTheActor
  <2>5. CASE a # e.actor
    BY <1>1, <2>2, <2>3, <2>4, <2>5
  <2>6. CASE a = e.actor /\ e.type # "ResourceChanged"
    <3>1. HasActor(before, a) /\ (F <=> a \in sighted)
      BY <1>3, <1>8, <2>6 DEF Remakes, Accepts, Forwards, F
    <3>2. e.type = "ActorControlGranted" => e.kind \in Kinds /\ e.person \in People
      BY <1>3 DEF Known, Events
    <3>3. /\ Remade(ShownAs(Remade(b, e)), e) = ShownAs(Remade(b, e))
          /\ SameIncarnation(ShownAs(b), ShownAs(Remade(b, e))) => Remade(ShownAs(b), e) = ShownAs(Remade(b, e))
      BY <1>5, <1>8, <2>6, <3>1, <3>2, RemadeForms DEF Remakes
    <3> QED BY <1>1, <2>2, <2>3, <2>4, <2>6, <3>1, <3>3
  <2>7. CASE a = e.actor /\ e.type = "ResourceChanged"
    <3>1. CASE F
      <4>1. y.actors[a] = b /\ a \in Party(st) /\ a \in sighted
        BY <1>6, <2>7, <3>1 DEF b, F, Forwards, ForwardsResource
      <4>2. ShownAs(st.actors[a]) = st.actors[a]
        BY <4>1 DEF ShownAs, ShownWith, Party
      <4> QED BY <1>1, <2>2, <2>3, <2>4, <2>7, <3>1, <4>1, <4>2
    <3>2. CASE ~F
      <4>1. a \notin sighted \/ a \notin Party(st)
        BY <2>7, <3>2 DEF F, Forwards, ForwardsResource
      <4>2. CASE a \notin sighted
        BY <1>1, <2>2, <2>4, <3>2, <4>2
      <4>3. CASE a \notin Party(st) /\ a \in sighted
        <5>1. HasActor(before, a)
          BY <1>3, <2>7 DEF Accepts, AcceptsChange
        <5>2. y.actors[a] = ShownAs(b)
          BY <1>7, <2>7, <4>3
        <5>3. Remade(b, e) = [b EXCEPT !.cur = Changed(b, e.delta)]
          BY <2>7 DEF Remade
        <5>4. ~IsPartyMember(Remade(b, e))
          BY <1>1, <2>3, <2>7, <4>3 DEF Party
        <5>5. ShownAs(Remade(b, e)) = ShownAs(b)
          BY <1>5, <5>1, <5>3, <5>4 DEF ShownAs, ShownWith, IsPartyMember, Actor
        <5> QED BY <1>1, <2>2, <2>3, <2>4, <2>7, <3>2, <5>2, <5>5
      <4> QED BY <4>1, <4>2, <4>3
    <3> QED BY <3>1, <3>2
  <2> QED BY <2>5, <2>6, <2>7
<1>9. CASE e.type = "ActorAdded"
  <2>1. e.actor \in Actors /\ ~HasActor(before, e.actor)
    BY <1>3, <1>9 DEF Accepts, AcceptsActor, Known, Events
  <2>2. st.actors[a] = (IF a = e.actor THEN e.is ELSE b) /\ st.conditions = before.conditions
    BY <1>1, <1>3, <1>9, <2>1, AddsTheActor, LeavesTheConditions DEF b
  <2>3. z = y
    BY <1>4, <1>9 DEF F, Forwards
  <2> QED BY <1>1, <2>1, <2>2, <2>3
<1>10. CASE e.type = "ActorRemoved"
  <2>1. e.actor \in Actors
    BY <1>3, <1>10 DEF Known, Events
  <2>2. a # e.actor
    BY <1>1, <1>3, <1>10, <2>1, AddsTheActor DEF HasActor
  <2>3. st.actors[a] = b /\ st.conditions[a] = before.conditions[a]
    BY <1>1, <1>3, <1>10, <2>1, <2>2, AddsTheActor DEF b
  <2>4. z.actors[a] = y.actors[a] /\ z.conditions[a] = y.conditions[a]
    BY <1>1, <1>2, <1>4, <1>10, <2>1, <2>2, AddsTheActor
  <2> QED BY <1>1, <2>3, <2>4
<1>11. CASE e.type \in {"ConditionApplied", "ConditionRemoved"}
  <2>1. e.actor \in Actors
    BY <1>3, <1>11 DEF Known, Events
  <2>2. st.actors = before.actors /\ z.actors = y.actors
    BY <1>2, <1>3, <1>4, <1>11, LeavesTheActors
  <2>3. CASE a # e.actor
    <3>1. st.conditions[a] = before.conditions[a] /\ z.conditions[a] = y.conditions[a]
      BY <1>1, <1>2, <1>3, <1>4, <1>11, <2>1, <2>3, TurnsTheConditions
    <3> QED BY <1>1, <2>2, <3>1 DEF b
  <2>4. CASE a = e.actor
    <3>1. F <=> a \in sighted
      BY <1>11, <2>4 DEF F, Forwards
    <3>2. CASE a \in sighted
      <4>1. y.conditions[a] = before.conditions[a]
        BY <1>7, <1>11, <2>4, <3>2
      <4>2. z.conditions[a] = st.conditions[a]
        <5>1. z = After(y, e)
          BY <1>4, <3>1, <3>2
        <5>2. CASE e.type = "ConditionApplied"
          <6>1. st.conditions[a] = before.conditions[a] \cup {e.condition}
            BY <1>3, <2>1, <2>4, <5>2, TurnsTheConditions
          <6>2. z.conditions[a] = y.conditions[a] \cup {e.condition}
            BY <1>2, <2>1, <2>4, <5>1, <5>2, TurnsTheConditions
          <6> QED BY <4>1, <6>1, <6>2
        <5>3. CASE e.type = "ConditionRemoved"
          <6>1. st.conditions[a] = before.conditions[a] \ {e.condition}
            BY <1>3, <2>1, <2>4, <5>3, TurnsTheConditions
          <6>2. z.conditions[a] = y.conditions[a] \ {e.condition}
            BY <1>2, <2>1, <2>4, <5>1, <5>3, TurnsTheConditions
          <6> QED BY <4>1, <6>1, <6>2
        <5> QED BY <1>11, <5>2, <5>3
      <4> QED BY <1>1, <2>2, <4>2 DEF b
    <3>3. CASE a \notin sighted
      BY <1>1, <1>4, <3>1, <3>3
    <3> QED BY <3>2, <3>3
  <2> QED BY <2>3, <2>4
<1>12. CASE e.type \notin Remakes \cup {"ActorAdded", "ActorRemoved", "ConditionApplied", "ConditionRemoved"}
  <2>1. st.actors = before.actors /\ z.actors = y.actors
    BY <1>2, <1>3, <1>4, <1>12, LeavesTheActors DEF Remakes
  <2>2. st.conditions = before.conditions /\ z.conditions = y.conditions
    BY <1>2, <1>3, <1>4, <1>12, LeavesTheConditions
  <2> QED BY <1>1, <2>1, <2>2 DEF b
<1> QED BY <1>8, <1>9, <1>10, <1>11, <1>12

LEMMA ShowsTheSession ==
  ASSUME NEW shown, NEW sighted, NEW before, NEW e, NEW st, NEW h, NEW now,
         Decides(shown, sighted, before, e, st, h, now)
  PROVE  Comes(Told(shown.session, shown, sighted, e, now, st), shown, sighted, e, now, st).session
           = st.session
<1> DEFINE y == Told(shown.session, shown, sighted, e, now, st)
           z == Comes(y, shown, sighted, e, now, st)
           F == Forwards(shown, sighted, e, now, st)
<1> SUFFICES z.session = st.session
  OBVIOUS
<1>1. y \in State
  BY ToldStands DEF GoodStates
<1>2. y.session = before.session
  BY DEF Told, Decides, Ready
<1>3. st = After(before, e) /\ before \in State
  BY DecidesFit DEF Decides
<1>4. z = IF F THEN After(y, e) ELSE y
  BY DEF Comes
<1> HIDE DEF y, z
<1>5. CASE e.type \in {"SessionStarted", "SessionEnded"}
  <2>1. F
    BY <1>5 DEF Forwards
  <2> QED BY <1>1, <1>3, <1>4, <1>5, <2>1, TurnsTheSession
<1>6. CASE e.type \notin {"SessionStarted", "SessionEnded"}
  BY <1>1, <1>2, <1>3, <1>4, <1>6, LeavesTheSession
<1> QED BY <1>5, <1>6

NotesPublic(fold, st) == \A k \in NoteKeys : fold.notes[k] # None => st.notes[k] = "public"

LEMMA ShowsTheNotes ==
  ASSUME NEW shown, NEW sighted, NEW before, NEW e, NEW st, NEW h, NEW now,
         Decides(shown, sighted, before, e, st, h, now)
  PROVE  NotesPublic(Comes(Told(shown.session, shown, sighted, e, now, st), shown, sighted, e, now, st), st)
<1> DEFINE y == Told(shown.session, shown, sighted, e, now, st)
           z == Comes(y, shown, sighted, e, now, st)
           F == Forwards(shown, sighted, e, now, st)
<1> SUFFICES NotesPublic(z, st)
  OBVIOUS
<1>1. y \in State
  BY ToldStands DEF GoodStates
<1>2. y.notes = NotesAs(shown, Unpublic(shown, st), None)
  BY DEF Told
<1>3. st = After(before, e) /\ before \in State /\ e \in Known
  BY DecidesFit DEF Decides
<1>4. z = IF F THEN After(y, e) ELSE y
  BY DEF Comes
<1> HIDE DEF y, z
<1>5. NotesPublic(y, st)
  BY <1>2 DEF NotesPublic, NotesAs, Unpublic
<1>6. CASE e.type = "NoteUpserted" /\ F
  <2>1. e.key \in NoteKeys /\ e.visibility = "public"
    BY <1>3, <1>6 DEF Known, Events, Forwards
  <2>2. \A k \in NoteKeys : z.notes[k] = IF k = e.key THEN e.visibility ELSE y.notes[k]
    BY <1>1, <1>4, <1>6, <2>1, TurnsTheNote
  <2>3. st.notes[e.key] = "public"
    BY <1>3, <1>6, <2>1, TurnsTheNote
  <2> QED BY <1>5, <2>2, <2>3 DEF NotesPublic
<1>7. CASE ~(e.type = "NoteUpserted" /\ F)
  <2>1. F => e.type # "NoteDeleted"
    BY DEF Forwards
  <2>2. z.notes = y.notes
    BY <1>1, <1>4, <1>7, <2>1, LeavesTheNotes
  <2> QED BY <1>5, <2>2 DEF NotesPublic
<1> QED BY <1>6, <1>7

LEMMA ToldBounded ==
  ASSUME NEW shown, NEW sighted, NEW before, NEW e, NEW st, NEW h, NEW now,
         Decides(shown, sighted, before, e, st, h, now)
  PROVE  LET y == Told(shown.session, shown, sighted, e, now, st)
         IN  Bounded(y) /\ KindsKept(y, st)
<1> DEFINE y == Told(shown.session, shown, sighted, e, now, st)
           F == Formed(shown, sighted, now, st)
<1> SUFFICES Bounded(y) /\ KindsKept(y, st)
  OBVIOUS
<1>1. /\ \A a \in F : /\ a \in Actors /\ HasActor(st, a)
                      /\ y.actors[a] = FormOf(st, a, a \in now.sees)
      /\ \A a \in Actors \ F : y.actors[a] = shown.actors[a]
  BY ToldActorsAre
<1>2. Bounded(shown) /\ Bounded(st) /\ KindsKept(shown, st) /\ st \in GoodStates
  BY DecidesFit DEF Fit
<1>3. \A a \in F : InBounds(FormOf(st, a, a \in now.sees))
  BY <1>1, <1>2, ShownInBounds DEF FormOf, Bounded
<1>4. \A a \in F : FormOf(st, a, a \in now.sees).kind = st.actors[a].kind
  <2> SUFFICES ASSUME NEW a \in F PROVE FormOf(st, a, a \in now.sees).kind = st.actors[a].kind
    OBVIOUS
  <2> DEFINE seen == a \in now.sees
  <2>1. seen \in BOOLEAN
    OBVIOUS
  <2> HIDE DEF seen
  <2>2. FormOf(st, a, seen).kind = st.actors[a].kind
    BY <1>1, <1>2, <2>1, FormOfType
  <2> QED BY <2>2 DEF seen
<1> HIDE DEF y, F
<1>5. Bounded(y)
  BY <1>1, <1>2, <1>3 DEF Bounded, HasActor
<1>6. KindsKept(y, st)
  BY <1>1, <1>2, <1>4 DEF KindsKept, HasActor
<1> QED BY <1>5, <1>6

LEMMA ComesBounded ==
  ASSUME NEW shown, NEW sighted, NEW before, NEW e, NEW st, NEW h, NEW now,
         Decides(shown, sighted, before, e, st, h, now)
  PROVE  LET z == Comes(Told(shown.session, shown, sighted, e, now, st), shown, sighted, e, now, st)
         IN  Bounded(z) /\ KindsKept(z, st)
<1> DEFINE y == Told(shown.session, shown, sighted, e, now, st)
           z == Comes(y, shown, sighted, e, now, st)
           F == Forwards(shown, sighted, e, now, st)
<1> SUFFICES Bounded(z) /\ KindsKept(z, st)
  OBVIOUS
<1>1. Bounded(y) /\ KindsKept(y, st)
  BY ToldBounded
<1>2. y \in State
  BY ToldStands DEF GoodStates
<1>3. st = After(before, e) /\ before \in State /\ Accepts(before, e) /\ e \in Known /\ e \in Made
      /\ (e.type = "ActorAdded" => InBounds(e.is))
  BY DecidesFit DEF Decides
<1>4. z = IF F THEN After(y, e) ELSE y
  BY DEF Comes
<1>5. F /\ e.type # "WhisperAdded" => Accepts(y, e)
  BY ForwardsAreTaken
<1> HIDE DEF y, z, F
<1>6. e.type = "WhisperAdded" => After(y, e) = y
  BY DEF After
<1>7. Bounded(z)
  BY <1>1, <1>2, <1>3, <1>4, <1>5, <1>6, StaysBounded
<1>8. KindsKept(z, st)
  <2>1. CASE ~F
    BY <1>1, <1>4, <2>1
  <2>2. CASE F /\ e.type \in Remakes
    <3>1. e.actor \in Actors /\ HasActor(y, e.actor)
      BY <1>3, <1>5, <2>2 DEF Remakes, Known, Events, Accepts, AcceptsChange
    <3>2. \A a \in Actors : z.actors[a] = IF a = e.actor THEN Remade(y.actors[a], e) ELSE y.actors[a]
      BY <1>2, <1>4, <2>2, <3>1, RemakesTheActor
    <3>3. y.actors[e.actor] \in Actor
      BY <1>2, <3>1 DEF HasActor, State
    <3>4. (e.type = "ActorControlGranted" => e.kind = "unspecified")
            => Remade(y.actors[e.actor], e).kind = y.actors[e.actor].kind
      BY <2>2, <3>3 DEF Remade, Remakes, Granted, Revoked, Actor
    <3> QED BY <1>1, <1>3, <3>1, <3>2, <3>4, KindWas DEF KindsKept, HasActor
  <2>3. CASE F /\ e.type = "ActorRemoved"
    <3>1. e.actor \in Actors
      BY <1>3, <2>3 DEF Known, Events
    <3>2. \A a \in Actors : z.actors[a] = IF a = e.actor THEN None ELSE y.actors[a]
      BY <1>2, <1>4, <2>3, <3>1, AddsTheActor
    <3> QED BY <1>1, <3>2 DEF KindsKept, HasActor
  <2>4. CASE F /\ e.type \notin Remakes \cup {"ActorRemoved"}
    <3>1. e.type # "ActorAdded"
      BY <2>4 DEF F, Forwards
    <3>2. z.actors = y.actors
      BY <1>2, <1>4, <2>4, <3>1, LeavesTheActors DEF Remakes
    <3> QED BY <1>1, <3>2 DEF KindsKept, HasActor
  <2> QED BY <2>1, <2>2, <2>3, <2>4
<1> QED BY <1>7, <1>8

\* What is told of an actor, with such conditions, is of a name that may be.
MayBeTold(held, turns, known, common) ==
  held.name # None =>
    IF held.body # None \/ turns # {} THEN held.name \in known ELSE held.name \in common

NamesKnown(fold, known, common) ==
  \A a \in Actors : HasActor(fold, a) => MayBeTold(fold.actors[a], fold.conditions[a], known, common)

\* The names of the world, and of those a decision sees, are known by now.
NamesAreTaken(st, sees, known, common) ==
  NamesOf(st, sees) \subseteq known /\ NamesOf(st, Actors) \subseteq common

\* One in sight: named only as a party member.
LEMMA SeenMayBeTold ==
  ASSUME NEW st \in State, NEW sees, NEW known, NEW common, NamesAreTaken(st, sees, known, common),
         NEW a \in Actors, a \in sees, HasActor(st, a)
  PROVE  /\ \A turns : MayBeTold(ShownAs(st.actors[a]), turns, known, common)
         /\ ShownAs(st.actors[a]).name # None => ShownAs(st.actors[a]).name \in known \cap common
<1> DEFINE b == st.actors[a]
<1>1. b \in Actor
  BY DEF State, HasActor
<1>2. ShownAs(b).name = IF b.kind = "party" THEN b.name ELSE None
  BY <1>1 DEF ShownAs, ShownWith, IsPartyMember, Actor
<1>3. b.kind = "party" => b.name \in known /\ b.name \in common
  BY DEF NamesAreTaken, NamesOf, Party, IsPartyMember
<1> HIDE DEF b
<1>4. ShownAs(b).name # None => ShownAs(b).name \in known \cap common
  BY <1>2, <1>3
<1>5. \A turns : MayBeTold(ShownAs(b), turns, known, common)
  BY <1>4 DEF MayBeTold
<1> QED BY <1>4, <1>5 DEF b

\* A companion out of sight: its name, which is the party's.
LEMMA UnseenMayBeTold ==
  ASSUME NEW st \in State, NEW sees, NEW known, NEW common, NamesAreTaken(st, sees, known, common),
         NEW a \in Party(st)
  PROVE  MayBeTold(UnseenAs(st.actors[a]), {}, known, common)
<1> DEFINE b == st.actors[a]
<1>1. b \in Actor /\ b.name \in common
  BY DEF NamesAreTaken, NamesOf, Party, HasActor, State
<1> HIDE DEF b
<1>2. UnseenAs(b).name = b.name /\ UnseenAs(b).body = None
  BY <1>1 DEF UnseenAs, ShownWith, Actor
<1>3. MayBeTold(UnseenAs(b), {}, known, common)
  BY <1>1, <1>2 DEF MayBeTold
<1> QED BY <1>3 DEF b

LEMMA ToldMayBeTold ==
  ASSUME NEW shown, NEW sighted, NEW before, NEW e, NEW st, NEW h, NEW now,
         Decides(shown, sighted, before, e, st, h, now), NEW known, NEW common,
         NamesKnown(shown, known, common), NamesAreTaken(st, now.sees, known, common)
  PROVE  NamesKnown(Told(shown.session, shown, sighted, e, now, st), known, common)
<1> DEFINE y == Told(shown.session, shown, sighted, e, now, st)
           F == Formed(shown, sighted, now, st)
<1> SUFFICES ASSUME NEW a \in Actors, HasActor(y, a)
             PROVE  MayBeTold(y.actors[a], y.conditions[a], known, common)
  BY DEF NamesKnown
<1>1. /\ a \in F => /\ HasActor(st, a) /\ a \in now.actors
                    /\ y.actors[a] = FormOf(st, a, a \in now.sees)
                    /\ y.conditions[a] = TurnsOf(st, a, a \in now.sees)
      /\ a \notin F => y.actors[a] = shown.actors[a] /\ y.conditions[a] = shown.conditions[a]
  BY ToldActorsAre
<1>2. st \in State /\ now.actors = now.sees \cup Party(st)
  <2>1. now = Look(st, {h})
    BY DEF Decides
  <2>2. now.actors = now.sees \cup Party(st)
    BY <2>1 DEF Look, LookAt
  <2> QED BY <2>2, DecidesFit
<1>3. CASE a \notin F
  BY <1>1, <1>3 DEF NamesKnown, HasActor
<1>4. CASE a \in F /\ a \in now.sees
  <2>1. y.actors[a] = ShownAs(st.actors[a])
    BY <1>1, <1>4 DEF FormOf
  <2> HIDE DEF y
  <2> QED BY <1>1, <1>2, <1>4, <2>1, SeenMayBeTold
<1>5. CASE a \in F /\ a \notin now.sees
  <2>1. y.actors[a] = UnseenAs(st.actors[a]) /\ y.conditions[a] = {} /\ a \in Party(st)
    BY <1>1, <1>2, <1>5 DEF FormOf, TurnsOf
  <2> HIDE DEF y
  <2> QED BY <1>2, <2>1, UnseenMayBeTold
<1> QED BY <1>3, <1>4, <1>5

LEMMA ComesMayBeTold ==
  ASSUME NEW shown, NEW sighted, NEW before, NEW e, NEW st, NEW h, NEW now,
         Decides(shown, sighted, before, e, st, h, now), NEW known, NEW common,
         NamesKnown(shown, known, common), NamesAreTaken(st, now.sees, known, common),
         NamesAreTaken(before, sighted, known, common)
  PROVE  NamesKnown(Comes(Told(shown.session, shown, sighted, e, now, st), shown, sighted, e, now, st),
                    known, common)
<1> DEFINE y == Told(shown.session, shown, sighted, e, now, st)
           z == Comes(y, shown, sighted, e, now, st)
           F == Forwards(shown, sighted, e, now, st)
<1> SUFFICES NamesKnown(z, known, common)
  OBVIOUS
<1>1. NamesKnown(y, known, common)
  BY ToldMayBeTold
<1>2. y \in State
  BY ToldStands DEF GoodStates
<1>3. st = After(before, e) /\ before \in State /\ Accepts(before, e) /\ e \in Known
  BY DecidesFit DEF Decides
<1>4. z = IF F THEN After(y, e) ELSE y
  BY DEF Comes
<1>5. F /\ e.type # "WhisperAdded" => Accepts(y, e)
  BY ForwardsAreTaken
<1>6. e.actor \in sighted /\ e.type \in {"ConditionApplied", "ConditionRemoved"}
        => y.actors[e.actor] = ShownAs(before.actors[e.actor]) /\ HasActor(before, e.actor)
  <2> SUFFICES ASSUME e.actor \in sighted, e.type \in {"ConditionApplied", "ConditionRemoved"}
               PROVE  y.actors[e.actor] = ShownAs(before.actors[e.actor]) /\ HasActor(before, e.actor)
    OBVIOUS
  <2>1. e.actor \in Actors
    BY DEF Decides, Ready
  <2>2. HasActor(before, e.actor)
    BY <2>1, TurnsAreOfTheSame
  <2>3. y.actors[e.actor] = ShownAs(before.actors[e.actor])
    BY <2>1, TurnsAreOfTheSame, KeepsItsForm
  <2> QED BY <2>2, <2>3
<1> HIDE DEF y, z, F
<1>7. CASE F /\ e.type \in Remakes
  <2>1. e.actor \in Actors /\ HasActor(y, e.actor)
    BY <1>3, <1>5, <1>7 DEF Remakes, Known, Events, Accepts, AcceptsChange
  <2>2. \A a \in Actors : z.actors[a] = IF a = e.actor THEN Remade(y.actors[a], e) ELSE y.actors[a]
    BY <1>2, <1>4, <1>7, <2>1, RemakesTheActor
  <2>3. y.actors[e.actor] \in Actor
    BY <1>2, <2>1 DEF HasActor, State
  <2>4. Remade(y.actors[e.actor], e).name = y.actors[e.actor].name
        /\ Remade(y.actors[e.actor], e).body = y.actors[e.actor].body
    BY <1>7, <2>3 DEF Remade, Remakes, Granted, Revoked, Actor
  <2>5. z.conditions = y.conditions
    BY <1>2, <1>4, <1>7, LeavesTheConditions DEF Remakes
  <2> QED BY <1>1, <2>1, <2>2, <2>4, <2>5 DEF NamesKnown, MayBeTold, HasActor
<1>8. CASE F /\ e.type = "ActorRemoved"
  <2>1. e.actor \in Actors
    BY <1>3, <1>8 DEF Known, Events
  <2>2. \A a \in Actors : /\ z.actors[a] = IF a = e.actor THEN None ELSE y.actors[a]
                          /\ z.conditions[a] = IF a = e.actor THEN {} ELSE y.conditions[a]
    BY <1>2, <1>4, <1>8, <2>1, AddsTheActor
  <2> QED BY <1>1, <2>2 DEF NamesKnown, HasActor
<1>9. CASE F /\ e.type \in {"ConditionApplied", "ConditionRemoved"}
  <2>1. e.actor \in sighted /\ e.actor \in Actors
    BY <1>3, <1>9 DEF F, Forwards, Known, Events
  <2>2. z.actors = y.actors
    BY <1>2, <1>4, <1>9, LeavesTheActors
  <2>3. \A a \in Actors \ {e.actor} : z.conditions[a] = y.conditions[a]
    BY <1>2, <1>4, <1>9, <2>1, TurnsTheConditions
  <2>4. MayBeTold(y.actors[e.actor], z.conditions[e.actor], known, common)
    BY <1>3, <1>6, <1>9, <2>1, SeenMayBeTold
  <2> QED BY <1>1, <2>2, <2>3, <2>4 DEF NamesKnown, HasActor
<1>10. CASE ~F \/ e.type \notin Remakes \cup {"ActorRemoved", "ConditionApplied", "ConditionRemoved"}
  <2>1. F => e.type # "ActorAdded"
    BY DEF F, Forwards
  <2>2. z.actors = y.actors /\ z.conditions = y.conditions
    BY <1>2, <1>4, <1>10, <2>1, LeavesTheActors, LeavesTheConditions DEF Remakes
  <2> QED BY <1>1, <2>2 DEF NamesKnown, HasActor
<1> QED BY <1>7, <1>8, <1>9, <1>10

-----------------------------------------------------------------------------
(* What a log is brought to before the event.                              *)

\* What a log may be resumed to: the state of nothing seen yet.
LEMMA SessionFold ==
  ASSUME NEW x \in State, NEW st \in GoodStates,
         NEW ends, NEW starts,
         ends = If(x.session # st.session /\ x.session # None, [type |-> "SessionEnded"]),
         starts = If(x.session # st.session /\ st.session # None,
                     [type |-> "SessionStarted", id |-> st.session])
  PROVE  Folded(Folded(x, ends), starts) = [x EXCEPT !.session = st.session]
<1> DEFINE y == IF x.session # st.session THEN [x EXCEPT !.session = None] ELSE x
           z == [x EXCEPT !.session = st.session]
           end == [type |-> "SessionEnded"]
           start == [type |-> "SessionStarted", id |-> st.session]
<1>1. y \in State /\ z \in State
  BY DEF State, GoodStates
<1>2. Folded(x, ends) = y
  <2>1. CASE x.session # st.session /\ x.session # None
    <3>1. ends = <<end>>
      BY <2>1 DEF If
    <3>2. Accepts(x, end) /\ After(x, end) = y
      BY <2>1 DEF Accepts, After
    <3> HIDE DEF y, end
    <3> QED BY <3>1, <3>2, Steps
  <2>2. CASE ~(x.session # st.session /\ x.session # None)
    <3>1. ends = <<>>
      BY <2>2 DEF If
    <3>2. y = x
      BY <2>2 DEF State
    <3> HIDE DEF y
    <3> QED BY <3>1, <3>2, FoldedEmpty
  <2> QED BY <2>1, <2>2
<1>3. Folded(y, starts) = z
  <2>1. CASE x.session # st.session /\ st.session # None
    <3>1. starts = <<start>>
      BY <2>1 DEF If
    <3>2. Accepts(y, start) /\ After(y, start) = z
      BY <2>1 DEF Accepts, After, State
    <3> HIDE DEF y, z, start
    <3> QED BY <1>1, <3>1, <3>2, Steps
  <2>2. CASE ~(x.session # st.session /\ st.session # None)
    <3>1. starts = <<>>
      BY <2>2 DEF If
    <3>2. y = z
      BY <2>2 DEF State
    <3> HIDE DEF y, z
    <3> QED BY <3>1, <3>2, FoldedEmpty
  <2> QED BY <2>1, <2>2
<1> HIDE DEF y
<1> QED BY <1>2, <1>3

LEMMA ResumeFolds ==
  ASSUME NEW fold \in GoodStates, NEW before \in GoodStates, Bounded(fold), KindsKept(fold, before),
         NEW known, NEW common, NamesKnown(fold, known, common)
  PROVE  LET y == Folded(fold, ResumeLead(fold, before))
         IN  y # None /\ Ready(y, {}, before) /\ NamesKnown(y, known, common)
<1> DEFINE ends == If(fold.session # before.session /\ fold.session # None, [type |-> "SessionEnded"])
           starts == If(fold.session # before.session /\ before.session # None,
                        [type |-> "SessionStarted", id |-> before.session])
           hides == Hides(HeldTokens(fold))
           x == [fold EXCEPT !.session = before.session]
           y == WithoutTokens(x, HeldTokens(fold))
<1>1. ends \in Seq(Known) /\ starts \in Seq(Known) /\ hides \in Seq(Known)
      /\ ResumeLead(fold, before) \in Seq(Known)
  BY ResumeType
<1>2. ResumeLead(fold, before) = ends \o starts \o hides
  BY DEF ResumeLead
<1>3. fold \in State /\ before \in State /\ HeldTokens(fold) \in SUBSET Tokens
  BY DEF GoodStates, HeldTokens
<1>4. x \in State /\ x.session = before.session /\ x.actors = fold.actors
      /\ x.conditions = fold.conditions /\ x.tokens = fold.tokens
  BY <1>3 DEF State
<1>5. Folded(Folded(fold, ends), starts) = x
  BY <1>3, SessionFold
<1> HIDE DEF ends, starts, hides, x
<1>6. Folded(x, hides) = y
  BY <1>3, <1>4, HidesFold DEF hides
<1>7. Folded(fold, ends \o starts \o hides) = y
  BY <1>1, <1>5, <1>6, FoldedThree
<1>8. y \in State /\ y.session = before.session /\ y.actors = fold.actors
      /\ y.conditions = fold.conditions
      /\ y.tokens = [t \in Tokens |-> IF t \in HeldTokens(fold) THEN None ELSE x.tokens[t]]
  BY <1>3, <1>4, WithoutTokensType, WithoutTokensParts
<1>9. HeldTokens(y) = {}
  BY <1>4, <1>8 DEF HeldTokens, HasToken
<1> HIDE DEF y
<1>10. y # None
  BY <1>8, EngineAssumption
<1>11. y \in GoodStates
  <2>1. Folded(fold, ResumeLead(fold, before)) \in GoodStates \cup {None}
    BY <1>1, FoldsAgree
  <2> QED BY <1>2, <1>7, <1>10, <2>1
<1>12. Bounded(y) /\ KindsKept(y, before) /\ NamesKnown(y, known, common)
  BY <1>8 DEF Bounded, KindsKept, NamesKnown, HasActor
<1>13. Ready(y, {}, before)
  BY <1>8, <1>9, <1>11, <1>12 DEF Ready, TokensPresent, ActorsPresent
<1> QED BY <1>2, <1>7, <1>10, <1>12, <1>13

\* With no eyes nothing is seen, and the party is shown.
LEMMA NoEyesSee ==
  ASSUME NEW st
  PROVE  LET now == Look(st, {})
         IN  DOMAIN now.squares = {} /\ now.tokens = {} /\ now.sees = {} /\ now.actors = Party(st)
<1> DEFINE lit == LitBy(st, {})
           now == Look(st, {})
<1>1. DOMAIN lit = {}
  BY DEF LitBy
<1> HIDE DEF lit
<1>2. Noticed(st, lit) = {}
  BY <1>1 DEF Noticed
<1>3. now = LookAt(st, {}, lit)
  BY DEF Look, lit
<1> HIDE DEF now
<1>4. now.squares = lit /\ now.tokens = {}
  BY <1>2, <1>3 DEF LookAt
<1>5. now.sees = {} /\ now.actors = Party(st)
  BY <1>2, <1>3 DEF LookAt
<1> QED BY <1>1, <1>4, <1>5 DEF now

LEMMA OpeningFolds ==
  ASSUME NEW before \in GoodStates, Bounded(before),
         NEW known, NEW common, NamesOf(before, Actors) \subseteq common
  PROVE  LET y == Folded(NewState, Opening(before))
         IN  y # None /\ Ready(y, {}, before) /\ NamesKnown(y, known, common)
<1> DEFINE starts == If(before.session # None, [type |-> "SessionStarted", id |-> before.session])
           perch == Perch(NewState, before, {})
           notes == NotesOf(before)
           now == Look(before, {})
           cause == [type |-> "None"]
           F == Formed(NewState, {}, now, before)
           x == [NewState EXCEPT !.session = before.session]
           y == Told(x.session, NewState, {}, cause, now, before)
           S == {n \in NoteKeys : before.notes[n] = "public"}
           z == WithNotes(y, NotesAs(y, S, "public"))
<1>1. starts \in Seq(Known) /\ perch \in Seq(Known) /\ notes \in Seq(Known)
      /\ Opening(before) \in Seq(Known)
  BY OpeningType, NotesOfType
<1>2. Opening(before) = starts \o perch \o notes
  BY DEF Opening
<1>3. NewState \in GoodStates /\ NewState \in State /\ NewState.session = None
  BY NewStateIsGood DEF GoodStates, NewState
<1>4. x \in State /\ x.session = before.session /\ x.scenes = NewState.scenes
      /\ x.tokens = NewState.tokens /\ x.actors = NewState.actors
      /\ x.conditions = NewState.conditions /\ x.notes = NewState.notes
  BY <1>3 DEF State, GoodStates
<1>5. Folded(NewState, starts) = x
  <2>1. Folded(Folded(NewState, <<>>), starts) = x
    <3>1. <<>> = If(NewState.session # before.session /\ NewState.session # None, [type |-> "SessionEnded"])
      BY <1>3 DEF If
    <3>2. starts = If(NewState.session # before.session /\ before.session # None,
                      [type |-> "SessionStarted", id |-> before.session])
      BY <1>3 DEF If
    <3> HIDE DEF starts, x
    <3> QED BY <1>3, <3>1, <3>2, SessionFold DEF x
  <2> QED BY <2>1, FoldedEmpty
<1>6. ~\E a : HasActor(NewState, a)
  BY DEF HasActor, NewState
<1>7. HeldTokens(NewState) = {} /\ \A t \in Tokens : ~HasToken(NewState, t)
  BY DEF HeldTokens, HasToken, NewState
<1>8. Fit(NewState, before, {}, now)
  BY <1>3, <1>6, NoEyesLook DEF Fit, Bounded, KindsKept
<1>9. Folded(x, perch) = y /\ y \in State
  <2>1. perch = Transitions(NewState, {}, cause, now, before)
    BY DEF Perch
  <2> HIDE DEF perch, cause, x, now
  <2> QED BY <1>4, <1>8, <2>1, TransitionsFold
<1>10. now.tokens = {} /\ now.sees = {} /\ now.actors = Party(before)
  BY NoEyesSee
<1>11. y.session = before.session /\ y.tokens = ToldTokens(NewState, {}, now, before)
       /\ y.actors = ToldActors(NewState, {}, now, before)
       /\ y.conditions = ToldConditions(NewState, {}, now, before)
  BY <1>4 DEF Told
<1> HIDE DEF starts, perch, notes, now, x, y, cause
<1>12. \A t \in Tokens : y.tokens[t] = None
  BY <1>7, <1>10, <1>11 DEF ToldTokens, Placed, Unplaced, HasToken
<1>13. F = Party(before)
  BY <1>6, <1>10 DEF Formed
<1>14. \A a \in Actors :
         /\ a \in Party(before) => /\ y.actors[a] = UnseenAs(before.actors[a])
                                   /\ y.conditions[a] = {}
         /\ a \notin Party(before) => y.actors[a] = None
  <2>1. \A a \in Actors : NewState.actors[a] = None
    BY DEF NewState
  <2> QED BY <1>10, <1>11, <1>13, <2>1 DEF ToldActors, ToldConditions, FormOf, TurnsOf
<1>15. Folded(y, notes) = z
  BY <1>9, NotesOfFold DEF notes
<1>16. Folded(NewState, starts \o perch \o notes) = z
  <2> HIDE DEF z
  <2> QED BY <1>1, <1>5, <1>9, <1>15, FoldedThree
<1>17. z \in State /\ z.session = before.session /\ z.tokens = y.tokens /\ z.actors = y.actors
       /\ z.conditions = y.conditions
  <2> DEFINE n == NotesAs(y, S, "public")
  <2>1. n \in [NoteKeys -> Visibilities \cup {None}]
    BY <1>9 DEF NotesAs, State, Visibilities
  <2> HIDE DEF n
  <2>2. WithNotes(y, n) \in State
    BY <1>9, <2>1, WithPartIs
  <2>3. WithNotes(y, n).session = y.session /\ WithNotes(y, n).tokens = y.tokens
        /\ WithNotes(y, n).actors = y.actors /\ WithNotes(y, n).conditions = y.conditions
    BY <1>9 DEF WithNotes, State
  <2> QED BY <1>11, <2>2, <2>3 DEF n
<1> HIDE DEF z
<1>18. z # None
  BY <1>17, EngineAssumption
<1>19. z \in GoodStates
  <2>1. Folded(NewState, Opening(before)) \in GoodStates \cup {None}
    BY <1>1, <1>3, FoldsAgree
  <2> QED BY <1>2, <1>16, <1>18, <2>1
<1>20. \A a \in Actors : HasActor(z, a) =>
         /\ a \in Party(before) /\ HasActor(before, a)
         /\ z.actors[a] = UnseenAs(before.actors[a]) /\ z.conditions[a] = {}
  BY <1>14, <1>17 DEF HasActor, Party
<1>21. before \in State
  BY DEF GoodStates
<1>22. Bounded(z)
  BY <1>20, ShownInBounds DEF Bounded
<1>23. KindsKept(z, before)
  <2>1. \A a \in Actors : HasActor(before, a) => UnseenAs(before.actors[a]).kind = before.actors[a].kind
    <3> SUFFICES ASSUME NEW a \in Actors, HasActor(before, a)
                 PROVE  UnseenAs(before.actors[a]).kind = before.actors[a].kind
      OBVIOUS
    <3>1. before.actors[a] \in Actor
      BY <1>21 DEF HasActor, State
    <3> QED BY <3>1, FormsAreActors
  <2> QED BY <1>20, <2>1 DEF KindsKept
<1>24. NamesKnown(z, known, common)
  <2>1. NamesAreTaken(before, {}, known, common)
    BY DEF NamesAreTaken, NamesOf
  <2> QED BY <1>20, <1>21, <2>1, UnseenMayBeTold DEF NamesKnown
<1>25. HeldTokens(z) = {}
  BY <1>12, <1>17 DEF HeldTokens, HasToken
<1>26. Ready(z, {}, before)
  BY <1>17, <1>19, <1>22, <1>23, <1>25 DEF Ready, TokensPresent, ActorsPresent
<1> QED BY <1>2, <1>16, <1>18, <1>24, <1>26

-----------------------------------------------------------------------------
(* What a log tells its character.                                         *)

LEMMA EachOfNone ==
  ASSUME NEW F, F = [x \in {} |-> F[x]]
  PROVE  Each(F) = <<>>
<1>1. Each(F) \in Seq({})
  <2>1. IsFiniteSet({})
    BY FS_EmptySet
  <2>2. F \in [{} -> Seq({})]
    OBVIOUS
  <2> QED BY <2>1, <2>2, EachType
<1> QED BY <1>1

LEMMA NoFrames ==
  ASSUME NEW id, NEW kind
  PROVE  Hides({}) = <<>> /\ Grants(id, {}, kind) = <<>> /\ Revokes(id, {}) = <<>>
         /\ Applies(id, {}) = <<>> /\ Removes(id, {}) = <<>>
<1>1. Hides({}) = <<>>
  BY EachOfNone DEF Hides
<1>2. Grants(id, {}, kind) = <<>>
  BY EachOfNone DEF Grants
<1>3. Revokes(id, {}) = <<>>
  BY EachOfNone DEF Revokes
<1>4. Applies(id, {}) = <<>>
  BY EachOfNone DEF Applies
<1>5. Removes(id, {}) = <<>>
  BY EachOfNone DEF Removes
<1> QED BY <1>1, <1>2, <1>3, <1>4, <1>5

\* An actor that is held as it is takes no frames.
LEMMA NoStatus ==
  ASSUME NEW id, NEW a \in Actor, NEW c
  PROVE  StatusFrames(id, a, c, a, c) = <<>>
<1>1. ResourceFrames(id, a.cur, a.cur) = <<>>
  BY DEF ResourceFrames
<1>2. ControlFrames(id, a, a) = <<>>
  <2>1. a.ctl \ a.ctl = {}
    OBVIOUS
  <2>2. ControlFrames(id, a, a) = Grants(id, {}, a.kind) \o <<>> \o Revokes(id, {})
    BY <2>1 DEF ControlFrames
  <2> QED BY <2>2, NoFrames
<1>3. c \ c = {}
  OBVIOUS
<1>4. StatusFrames(id, a, c, a, c)
        = (IF a.body = None THEN <<>> ELSE ResourceFrames(id, a.cur, a.cur))
            \o Removes(id, {}) \o Applies(id, {}) \o ControlFrames(id, a, a)
  BY <1>3 DEF StatusFrames
<1>5. Removes(id, {}) = <<>> /\ Applies(id, {}) = <<>>
  BY NoFrames
<1> QED BY <1>1, <1>2, <1>4, <1>5

\* A decision taken up from a log that shows what is in sight sees it.
LEMMA ResumesWhatIsSeen ==
  ASSUME NEW h, NEW shown, NEW st \in GoodStates, ActorsPresent(shown, Sees(st, h), st)
  PROVE  Resumes(h, shown, st) = Sees(st, h)
<1>1. ASSUME NEW a \in Sees(st, h)
      PROVE  /\ HasActor(shown, a)
             /\ SameIncarnation(shown.actors[a], ShownAs(st.actors[a]))
             /\ ~Uncorrectable(shown.actors[a], ShownAs(st.actors[a]))
             /\ Status(shown, st, a) = <<>>
  <2>1. a \in Actors /\ st.actors[a] \in Actor
    <3>1. Looked(st, Eyes(st, h), Look(st, Eyes(st, h)))
      BY LookType
    <3> QED BY <3>1 DEF Looked, Sees
  <2>2. ShownAs(st.actors[a]) \in Actor
    BY <2>1, FormsAreActors
  <2>3. shown.actors[a] = ShownAs(st.actors[a]) /\ shown.conditions[a] = st.conditions[a]
    BY DEF ActorsPresent
  <2>4. shown.actors[a] # None
    BY <2>2, <2>3, EngineAssumption
  <2>5. HasActor(shown, a)
    BY <2>1, <2>4 DEF HasActor
  <2>6. ~Uncorrectable(shown.actors[a], ShownAs(st.actors[a]))
        /\ SameIncarnation(shown.actors[a], ShownAs(st.actors[a]))
    BY <2>3 DEF Uncorrectable, SameIncarnation
  <2>7. Status(shown, st, a) = <<>>
    BY <2>2, <2>3, NoStatus DEF Status
  <2> QED BY <2>5, <2>6, <2>7
<1> QED BY <1>1 DEF Resumes, SeenAgain

\* A log shows the tokens, doors and squares that are seen.
BoardPresent(fold, now, st) ==
  /\ HeldTokens(fold) = now.tokens
  /\ \A t \in now.tokens : fold.tokens[t] = st.tokens[t]
  /\ DOMAIN now.squares \subseteq HeldScenes(fold)
  /\ \A s \in HeldScenes(fold) :
       /\ Shown(fold, s) = Lit(now, s)
       /\ fold.scenes[s].open \cap Lit(now, s) = st.scenes[s].open \cap Lit(now, s)

\* A log shows what h sees as it is, in the session as it is.
Present(fold, h, st) ==
  /\ ActorsPresent(fold, Sees(st, h), st)
  /\ BoardPresent(fold, Look(st, {h}), st)
  /\ fold.session = st.session
  /\ NotesPublic(fold, st)

\* What keeps a log able to take the frames that are made for it, and telling
\* what it may: known and common being the names that h and all have met.
LogTells(log, h, st, known, common) ==
  log # None =>
    /\ Bounded(log.fold) /\ KindsKept(log.fold, st)
    /\ NamesKnown(log.fold, known, common)
    /\ log.sighted = Paused <=> h \notin Party(st)
    /\ log.sighted # Paused =>
         /\ log.sighted = Sees(st, h) /\ Present(log.fold, h, st)
         /\ NamesOf(st, Sees(st, h)) \subseteq known

LEMMA NamesGrow ==
  ASSUME NEW fold, NEW known, NEW common, NamesKnown(fold, known, common),
         NEW more, NEW others, known \subseteq more, common \subseteq others
  PROVE  NamesKnown(fold, more, others)
BY DEF NamesKnown, MayBeTold

LEMMA SetsAreSome ==
  ASSUME NEW st \in GoodStates, NEW h
  PROVE  Sees(st, h) # Paused /\ {} # Paused
<1>1. Sees(st, h) \in SUBSET Actors /\ {} \in SUBSET Actors
  BY LookType
<1> QED BY <1>1, PerceiveAssumption DEF Paused

\* A log that is ready for an event tells what comes of it.
LEMMA DecidedTells ==
  ASSUME NEW before \in GoodStates, Bounded(before), NEW e \in Made, Accepts(before, e),
         NEW st, st = After(before, e), e.type = "ActorAdded" => InBounds(e.is),
         NEW h \in Party(st), NEW led, NEW lead,
         Ready(led.fold, led.sighted, before),
         NEW known, NEW common, NamesKnown(led.fold, known, common),
         NamesAreTaken(before, led.sighted, known, common)
  PROVE  LET now == Look(st, Eyes(st, h))
             told == Decided(h, led, lead, Event(led.fold, led.sighted, e, now, st), st)
         IN  /\ ~told.dropped
             /\ LogTells(told.log, h, st, known \cup NamesOf(st, Sees(st, h)),
                         common \cup NamesOf(st, Actors))
<1> DEFINE now == Look(st, {h})
           shown == led.fold
           sighted == led.sighted
           frames == Event(shown, sighted, e, now, st)
           more == known \cup NamesOf(st, Sees(st, h))
           others == common \cup NamesOf(st, Actors)
           z == Comes(Told(shown.session, shown, sighted, e, now, st), shown, sighted, e, now, st)
           written == led.written \/ frames # <<>>
           log == [fold |-> z, sighted |-> Sees(st, h), written |-> written]
           told == Decided(h, led, lead, frames, st)
<1>1. Eyes(st, h) = {h} /\ Sees(st, h) = now.sees
  BY DEF Eyes, Sees
<1> SUFFICES ~told.dropped /\ LogTells(told.log, h, st, more, others)
  BY <1>1
<1>2. Decides(shown, sighted, before, e, st, h, now)
  BY DEF Decides
<1>3. Folded(shown, frames) = z /\ z \in GoodStates /\ z # None
  BY <1>2, EventFolds
<1>4. told = Outcome(log, lead \o frames, FALSE)
  <2> HIDE DEF z, frames
  <2> QED BY <1>3 DEF Decided, Tried
<1>5. told.log = log /\ ~told.dropped
  <2> HIDE DEF log
  <2> QED BY <1>4 DEF Outcome
<1>6. Present(z, h, st)
  <2>1. ActorsPresent(z, now.sees, st)
    BY <1>2, ShowsTheActors DEF ActorsPresent
  <2>2. BoardPresent(z, now, st)
    <3>1. HeldTokens(z) = now.tokens /\ \A t \in now.tokens : z.tokens[t] = st.tokens[t]
      BY <1>2, ShowsTheTokens
    <3>2. /\ DOMAIN now.squares \subseteq HeldScenes(z)
          /\ \A s \in HeldScenes(z) :
               /\ Shown(z, s) = Lit(now, s)
               /\ z.scenes[s].open \cap Lit(now, s) = st.scenes[s].open \cap Lit(now, s)
      BY <1>2, ShowsTheScenes
    <3> HIDE DEF z, now
    <3> QED BY <3>1, <3>2 DEF BoardPresent
  <2>3. z.session = st.session
    BY <1>2, ShowsTheSession
  <2>4. NotesPublic(z, st)
    BY <1>2, ShowsTheNotes
  <2> HIDE DEF z
  <2> QED BY <1>1, <2>1, <2>2, <2>3, <2>4 DEF Present
<1>7. Bounded(z) /\ KindsKept(z, st)
  BY <1>2, ComesBounded
<1>8. NamesKnown(z, more, others)
  <2>1. NamesKnown(shown, more, others)
    BY NamesGrow
  <2>2. NamesAreTaken(st, now.sees, more, others)
    BY <1>1 DEF NamesAreTaken
  <2>3. NamesAreTaken(before, sighted, more, others)
    BY DEF NamesAreTaken
  <2> HIDE DEF more, others
  <2> QED BY <1>2, <2>1, <2>2, <2>3, ComesMayBeTold
<1>9. Sees(st, h) # Paused
  <2>1. st \in GoodStates
    BY <1>2, DecidesFit
  <2> QED BY <2>1, SetsAreSome
<1> HIDE DEF z, now, told, written
<1>10. log.fold = z /\ log.sighted = Sees(st, h)
  OBVIOUS
<1>11. NamesOf(st, Sees(st, h)) \subseteq more
  OBVIOUS
<1> HIDE DEF log, more, others
<1>12. LogTells(log, h, st, more, others)
  BY <1>6, <1>7, <1>8, <1>9, <1>10, <1>11 DEF LogTells
<1> QED BY <1>5, <1>12

\* A log that is written is ready for the next event.
LEMMA PresentIsReady ==
  ASSUME NEW before \in GoodStates, NEW h \in Party(before), NEW fold \in GoodStates,
         Bounded(fold), KindsKept(fold, before), Present(fold, h, before)
  PROVE  Ready(fold, Sees(before, h), before)
<1> DEFINE now == Look(before, {h})
<1>1. Eyes(before, h) = {h} /\ Sees(before, h) = now.sees
  BY DEF Eyes, Sees
<1>2. Looked(before, {h}, now)
  BY <1>1, LookType
<1>3. TokensPresent(fold, before)
  <2>1. HeldTokens(fold) = now.tokens /\ \A t \in now.tokens : fold.tokens[t] = before.tokens[t]
    BY DEF Present, BoardPresent
  <2> HIDE DEF now
  <2> QED BY <1>2, <2>1 DEF TokensPresent, Looked
<1>4. \A a \in Sees(before, h) : a \in Actors /\ HasActor(before, a)
  <2> HIDE DEF now
  <2> QED BY <1>1, <1>2 DEF Looked
<1> QED BY <1>3, <1>4 DEF Ready, Present

LEMMA NoneAreNamed ==
  ASSUME NEW st, NEW known, NEW common, NamesOf(st, Actors) \subseteq common
  PROVE  NamesAreTaken(st, {}, known, common)
BY DEF NamesAreTaken, NamesOf

\* Whatever the event, it is told to a log that tells what it may.
LEMMA FanOutTells ==
  ASSUME NEW before \in GoodStates, Bounded(before), NEW e \in Made, Accepts(before, e),
         NEW st, st = After(before, e), e.type = "ActorAdded" => InBounds(e.is),
         NEW h, NEW log, NEW board, LogAgrees(log, board),
         NEW known, NEW common, LogTells(log, h, before, known, common),
         NamesOf(before, Actors) \subseteq common
  PROVE  LET told == FanOut(h, log, e, before, st)
         IN  /\ ~told.dropped
             /\ LogTells(told.log, h, st, known \cup NamesOf(st, Sees(st, h)),
                         common \cup NamesOf(st, Actors))
<1> DEFINE told == FanOut(h, log, e, before, st)
           more == known \cup NamesOf(st, Sees(st, h))
           others == common \cup NamesOf(st, Actors)
<1> SUFFICES ~told.dropped /\ LogTells(told.log, h, st, more, others)
  OBVIOUS
<1>1. log # None => log \in CharacterLog /\ log.fold \in GoodStates
  BY DEF LogAgrees
<1>2. before \in State
  BY DEF GoodStates
<1>3. CASE h \in Party(st)
  <2> DEFINE held == IF log = None THEN Unopened ELSE log
             lead == Lead(log, before)
             fold == Folded(held.fold, lead)
             sighted == IF held.sighted = Paused THEN {} ELSE held.sighted
             led == [fold |-> fold, written |-> held.written \/ lead # <<>>, sighted |-> sighted]
             frames == Event(fold, sighted, e, Look(st, Eyes(st, h)), st)
  <2>1. /\ fold # None /\ Ready(fold, sighted, before) /\ NamesKnown(fold, known, common)
        /\ NamesAreTaken(before, sighted, known, common)
    <3>1. CASE log = None
      <4>1. held.fold = NewState /\ held.sighted = Paused /\ lead = Opening(before)
        BY <3>1 DEF Unopened, Lead
      <4>2. sighted = {}
        BY <4>1
      <4> HIDE DEF held, lead, sighted
      <4> QED BY <4>1, <4>2, OpeningFolds, NoneAreNamed
    <3>2. CASE log # None /\ log.sighted = Paused
      <4>1. held = log /\ lead = ResumeLead(log.fold, before)
        BY <3>2 DEF Lead
      <4>2. sighted = {}
        BY <3>2, <4>1
      <4>3. /\ log.fold \in GoodStates /\ Bounded(log.fold) /\ KindsKept(log.fold, before)
            /\ NamesKnown(log.fold, known, common)
        BY <1>1, <3>2 DEF LogTells
      <4> HIDE DEF held, lead, sighted
      <4> QED BY <4>1, <4>2, <4>3, ResumeFolds, NoneAreNamed
    <3>3. CASE log # None /\ log.sighted # Paused
      <4>1. held = log /\ lead = <<>>
        BY <3>3 DEF Lead
      <4>2. sighted = Sees(before, h) /\ h \in Party(before)
            /\ Bounded(log.fold) /\ KindsKept(log.fold, before) /\ NamesKnown(log.fold, known, common)
            /\ Present(log.fold, h, before) /\ NamesOf(before, Sees(before, h)) \subseteq known
        BY <3>3, <4>1 DEF LogTells
      <4> HIDE DEF held, lead, sighted
      <4>3. fold = log.fold
        BY <4>1, FoldedEmpty
      <4> HIDE DEF fold
      <4>4. Ready(fold, sighted, before)
        BY <1>1, <3>3, <4>2, <4>3, PresentIsReady
      <4>5. fold # None
        BY <1>1, <3>3, <4>3, StateIsSome
      <4> QED BY <4>2, <4>3, <4>4, <4>5 DEF NamesAreTaken
    <3> QED BY <3>1, <3>2, <3>3
  <2>2. told = Decided(h, led, lead, frames, st)
    <3>1. told = Opened(h, held, lead, e, st)
      BY <1>3 DEF FanOut
    <3>2. told = Brought(h, held, lead, fold, e, st)
      BY <3>1 DEF Opened
    <3> HIDE DEF told, held, lead, fold
    <3> QED BY <2>1, <3>2 DEF Brought
  <2>3. led.fold = fold /\ led.sighted = sighted
    OBVIOUS
  <2> HIDE DEF led, fold, sighted, held, lead, told, more, others
  <2>4. LET d == Decided(h, led, lead, Event(led.fold, led.sighted, e, Look(st, Eyes(st, h)), st), st)
        IN  ~d.dropped /\ LogTells(d.log, h, st, known \cup NamesOf(st, Sees(st, h)),
                                   common \cup NamesOf(st, Actors))
    BY <1>3, <2>1, <2>3, DecidedTells
  <2>5. LET d == Decided(h, led, lead, frames, st)
        IN  ~d.dropped /\ LogTells(d.log, h, st, more, others)
    BY <2>3, <2>4 DEF more, others
  <2> QED BY <2>2, <2>5
<1>4. CASE h \notin Party(st)
  <2>1. told.log = (IF log = None THEN None ELSE [log EXCEPT !.sighted = Paused]) /\ ~told.dropped
    BY <1>4 DEF FanOut, Outcome
  <2> HIDE DEF told
  <2>2. CASE log = None
    BY <2>1, <2>2 DEF LogTells
  <2>3. CASE log # None
    <3>1. told.log.fold = log.fold /\ told.log.sighted = Paused
      BY <1>1, <2>1, <2>3 DEF CharacterLog
    <3>2. Bounded(log.fold) /\ KindsKept(log.fold, before) /\ NamesKnown(log.fold, known, common)
      BY <2>3 DEF LogTells
    <3>3. KindsKept(log.fold, st)
      BY <1>2, <3>2, KindsStay
    <3>4. NamesKnown(log.fold, more, others)
      BY <3>2, NamesGrow
    <3> QED BY <1>4, <2>1, <3>1, <3>2, <3>3, <3>4 DEF LogTells
  <2> QED BY <2>1, <2>2, <2>3
<1> QED BY <1>3, <1>4

-----------------------------------------------------------------------------
(* What the characters are told.                                           *)

TellInv == /\ IInv
           /\ Bounded(world) /\ NamesOf(world, Actors) \subseteq famous /\ ~discarded
           /\ \A h \in Heroes : LogTells(logs[h], h, world, met[h], famous)

LEMMA SheetsAreInBounds ==
  ASSUME SheetsAreWithinBounds,
         NEW e, e \in UNION Alphabets \/ \E i \in DOMAIN Prologue : e = Prologue[i],
         e.type = "ActorAdded"
  PROVE  InBounds(e.is)
<1>1. e \in Recorded
  <2>1. CASE e \in UNION Alphabets
    BY <2>1, PerceiveAssumption DEF Made
  <2>2. CASE \E i \in DOMAIN Prologue : e = Prologue[i]
    BY <2>2, PrologueAssumption
  <2> QED BY <2>1, <2>2
<1>2. e \in (UNION Alphabets) \cup {Prologue[i] : i \in DOMAIN Prologue}
  <2>1. (\E i \in DOMAIN Prologue : e = Prologue[i])
          => e \in {Prologue[i] : i \in DOMAIN Prologue}
    BY Zenon
  <2> QED BY <2>1, Zenon
<1> QED BY <1>1, <1>2 DEF SheetsAreWithinBounds, InBounds, Recorded

LEMMA PrologueIsBounded ==
  ASSUME SheetsAreWithinBounds
  PROVE  Bounded(Folded(NewState, Prologue))
<1> DEFINE X == {Prologue[i] : i \in DOMAIN Prologue}
           B == {st \in GoodStates : Bounded(st)}
           K == B \cup {None}
<1>1. Prologue \in Seq(X) /\ X \subseteq Known
  <2>1. Prologue \in Seq(Recorded) /\ Recorded \subseteq Known
    BY PrologueAssumption DEF Recorded, Known
  <2>2. \A i \in 1 .. Len(Prologue) : Prologue[i] \in X /\ Prologue[i] \in Known
    BY <2>1
  <2>3. \A x \in X : x \in Known
    BY <2>1
  <2> QED BY <2>1, <2>2, <2>3
<1>2. NewState \in K
  BY NewStateIsGood DEF Bounded, HasActor, NewState
<1>3. ASSUME NEW s \in K, NEW x \in X PROVE StepBy("server", s, x) \in K
  <2>1. x \in Known /\ (x.type = "ActorAdded" => InBounds(x.is))
    <3>1. \E i \in DOMAIN Prologue : x = Prologue[i]
      OBVIOUS
    <3> HIDE DEF X
    <3> QED BY <1>1, <3>1, SheetsAreInBounds
  <2>2. CASE s \in B /\ Accepts(s, x)
    <3>1. s \in GoodStates /\ s \in State /\ Bounded(s) /\ s # None
      BY <2>2, StateIsSome DEF GoodStates
    <3>2. After(s, x) \in GoodStates
      BY <2>1, <2>2, <3>1, GoodAfter
    <3>3. Bounded(After(s, x))
      BY <2>1, <2>2, <3>1, StaysBounded
    <3>4. StepBy("server", s, x) = After(s, x)
      BY <2>2, <3>1 DEF StepBy, FoldStep
    <3> QED BY <3>2, <3>3, <3>4
  <2>3. CASE ~(s \in B /\ Accepts(s, x))
    BY <2>3 DEF StepBy, FoldStep
  <2> QED BY <2>2, <2>3
<1> HIDE DEF X, K
<1>4. Folded(NewState, Prologue) \in K
  BY <1>1, <1>2, <1>3, FoldKeeps
<1> QED BY <1>4, PrologueAssumption DEF K

LEMMA InitTellInv == SheetsAreWithinBounds /\ Init => TellInv
<1> SUFFICES ASSUME SheetsAreWithinBounds, Init PROVE TellInv
  OBVIOUS
<1>1. Bounded(world)
  BY PrologueIsBounded DEF Init
<1>2. \A h \in Heroes : LogTells(logs[h], h, world, met[h], famous)
  BY DEF Init, LogTells
<1>3. NamesOf(world, Actors) \subseteq famous /\ ~discarded
  BY DEF Init
<1> QED BY <1>1, <1>2, <1>3, InitIInv DEF TellInv

LEMMA AppendKeepsTellInv ==
  ASSUME SheetsAreWithinBounds, TellInv, NEW e \in alphabet, AppendOne(e)
  PROVE  TellInv'
<1>1. IInv /\ IInv'
  BY AppendKeepsIInv DEF TellInv
<1>2. e \in Made /\ e \in Known /\ (e.type = "ActorAdded" => InBounds(e.is))
  <2>1. alphabet \in Alphabets
    BY <1>1 DEF IInv
  <2> QED BY <2>1, MadeIsKnown, SheetsAreInBounds
<1>3. Accepts(world, e) /\ world' = After(world, e)
      /\ world \in GoodStates /\ world \in State /\ world' \in GoodStates
  BY <1>1 DEF AppendOne, IInv, GoodStates
<1>4. Bounded(world')
  BY <1>2, <1>3, StaysBounded DEF TellInv
<1> DEFINE told(h) == FanOut(h, logs[h], e, world, world')
<1>5. /\ logs' = [h \in Heroes |-> told(h).log]
      /\ discarded' = (discarded \/ \E h \in Heroes : told(h).dropped)
      /\ famous' = famous \cup NamesOf(world', Actors)
      /\ met' = [h \in Heroes |-> met[h] \cup NamesOf(world', Sees(world', h))]
  BY DEF AppendOne
<1>6. ASSUME NEW h \in Heroes
      PROVE  ~told(h).dropped /\ LogTells(logs'[h], h, world', met'[h], famous')
  <2>1. LogAgrees(logs[h], boards[h])
    BY <1>1 DEF IInv
  <2>2. Bounded(world) /\ LogTells(logs[h], h, world, met[h], famous)
        /\ NamesOf(world, Actors) \subseteq famous
    BY DEF TellInv
  <2>3. ~told(h).dropped
        /\ LogTells(told(h).log, h, world', met[h] \cup NamesOf(world', Sees(world', h)),
                    famous \cup NamesOf(world', Actors))
    BY <1>2, <1>3, <2>1, <2>2, FanOutTells
  <2> HIDE DEF told
  <2> QED BY <1>5, <2>3
<1> HIDE DEF told
<1>7. ~discarded'
  BY <1>5, <1>6 DEF TellInv
<1> QED BY <1>1, <1>4, <1>5, <1>6, <1>7 DEF TellInv

\* A log that is taken up again, or stays paused, tells what it told.
LEMMA ResumedTells ==
  ASSUME NEW st \in GoodStates, NEW h, NEW log, log # None, log \in CharacterLog,
         NEW known, NEW common, LogTells(log, h, st, known, common), log.sighted # Paused
  PROVE  Resumes(h, log.fold, st) = log.sighted
BY ResumesWhatIsSeen DEF LogTells, Present

LEMMA RestartKeepsTellInv == TellInv /\ RestartDecisions => TellInv'
<1> SUFFICES ASSUME TellInv, RestartDecisions PROVE TellInv'
  OBVIOUS
<1>1. IInv'
  BY RestartKeepsIInv DEF TellInv
<1>2. UNCHANGED <<world, discarded, met, famous>>
  BY DEF RestartDecisions
<1>3. logs' = [h \in Heroes |->
                IF logs[h] = None \/ logs[h].sighted = Paused THEN logs[h]
                ELSE [logs[h] EXCEPT !.sighted = Resumes(h, logs[h].fold, world)]]
  BY DEF RestartDecisions
<1>4. ASSUME NEW h \in Heroes PROVE logs'[h] = logs[h]
  <2>1. LogAgrees(logs[h], boards[h]) /\ world \in GoodStates
        /\ LogTells(logs[h], h, world, met[h], famous)
    BY DEF TellInv, IInv
  <2>2. CASE logs[h] # None /\ logs[h].sighted # Paused
    <3>1. logs[h] \in CharacterLog
      BY <2>1, <2>2 DEF LogAgrees
    <3>2. Resumes(h, logs[h].fold, world) = logs[h].sighted
      BY <2>1, <2>2, <3>1, ResumedTells
    <3>3. [logs[h] EXCEPT !.sighted = logs[h].sighted] = logs[h]
      BY <3>1 DEF CharacterLog
    <3> QED BY <1>3, <2>2, <3>2, <3>3
  <2> QED BY <1>3, <2>2
<1> QED BY <1>1, <1>2, <1>4 DEF TellInv

LEMMA ReopenKeepsTellInv == TellInv /\ Reopen => TellInv'
<1> SUFFICES ASSUME TellInv, Reopen PROVE TellInv'
  OBVIOUS
<1>1. IInv'
  BY ReopenKeepsIInv DEF TellInv
<1>2. UNCHANGED <<world, met, famous>> /\ ~discarded'
  BY DEF Reopen
<1>3. logs' = [h \in Heroes |-> Load(h, logs[h])]
  BY DEF Reopen
<1>4. ASSUME NEW h \in Heroes PROVE logs'[h] = logs[h] \/ logs'[h] = None
  <2>1. LogAgrees(logs[h], boards[h]) /\ world \in GoodStates
        /\ LogTells(logs[h], h, world, met[h], famous)
    BY DEF TellInv, IInv
  <2>2. CASE logs[h] # None /\ logs[h].written
    <3> DEFINE sighted == IF h \in Party(world) THEN Resumes(h, logs[h].fold, world) ELSE Paused
    <3>1. logs[h] \in CharacterLog
      BY <2>1, <2>2 DEF LogAgrees
    <3>2. logs[h].sighted = Paused <=> h \notin Party(world)
      BY <2>1, <2>2 DEF LogTells
    <3>3. sighted = logs[h].sighted
      BY <2>1, <2>2, <3>1, <3>2, ResumedTells
    <3>4. logs'[h] = [logs[h] EXCEPT !.sighted = sighted]
      BY <1>3, <2>2 DEF Load
    <3>5. [logs[h] EXCEPT !.sighted = logs[h].sighted] = logs[h]
      BY <3>1 DEF CharacterLog
    <3> QED BY <3>3, <3>4, <3>5
  <2>3. CASE ~(logs[h] # None /\ logs[h].written)
    BY <1>3, <2>3 DEF Load
  <2> QED BY <2>2, <2>3
<1>5. \A h \in Heroes : LogTells(logs'[h], h, world, met[h], famous)
  BY <1>4 DEF TellInv, LogTells
<1> QED BY <1>1, <1>2, <1>5 DEF TellInv

LEMMA NextTellInv ==
  ASSUME SheetsAreWithinBounds, TellInv, [Next]_vars
  PROVE  TellInv'
<1>1. CASE \E e \in alphabet : AppendOne(e)
  BY <1>1, AppendKeepsTellInv
<1>2. CASE RestartDecisions
  BY <1>2, RestartKeepsTellInv
<1>3. CASE Reopen
  BY <1>3, ReopenKeepsTellInv
<1>4. CASE UNCHANGED vars
  <2>1. IInv'
    BY NextIInv DEF TellInv
  <2> QED BY <1>4, <2>1 DEF vars, TellInv
<1> QED BY <1>1, <1>2, <1>3, <1>4 DEF Next

\* What every log holds keeps it able to take the frames that are made for it,
\* where every actor is added within its maximum.
THEOREM TellInvHolds ==
  ASSUME SheetsAreWithinBounds
  PROVE  Spec => []TellInv
<1>1. Init => TellInv
  BY InitTellInv
<1>2. TellInv /\ [Next]_vars => TellInv'
  BY NextTellInv
<1> QED BY <1>1, <1>2, PTL DEF Spec

\* No set of frames is ever dropped, whatever the campaign appends, fails to
\* append or reopens, where every actor is added within its maximum.
THEOREM NothingIsDiscarded ==
  ASSUME SheetsAreWithinBounds
  PROVE  Spec => []NothingDiscarded
<1>1. TellInv => NothingDiscarded
  BY DEF TellInv, NothingDiscarded
<1> QED BY <1>1, TellInvHolds, PTL

\* A character's board shows the tokens, the doors and the squares that it sees
\* as they are.
THEOREM TheBoardIsWhatIsSeen ==
  ASSUME SheetsAreWithinBounds
  PROVE  Spec => []BoardIsWhatIsSeen
<1>1. TellInv => BoardIsWhatIsSeen
  <2> SUFFICES ASSUME TellInv, NEW h \in Heroes, Active(h)
               PROVE  BoardPresent(logs[h].fold, Look(world, {h}), world)
    BY DEF BoardIsWhatIsSeen, BoardPresent
  <2> QED BY DEF TellInv, LogTells, Present, Active
<1> QED BY <1>1, TellInvHolds, PTL

\* What a log shows of an actor in sight is its present status, so a decision
\* taken up from the log alone sees what it saw.
THEOREM TheSeenArePresent ==
  ASSUME SheetsAreWithinBounds
  PROVE  Spec => []SeenIsPresent
<1>1. TellInv => SeenIsPresent
  BY DEF TellInv, LogTells, Present, ActorsPresent, Active, SeenIsPresent
<1> QED BY <1>1, TellInvHolds, PTL

\* No log names who was never of the party, or holds the sheet of a member its
\* character has not seen as one, or a note or a session that is not the
\* world's.
THEOREM OnlyWhatMayBeToldIsTold ==
  ASSUME SheetsAreWithinBounds
  PROVE  Spec => []OnlyWhatMayBeTold
<1>1. TellInv => OnlyWhatMayBeTold
  <2> SUFFICES ASSUME TellInv PROVE OnlyWhatMayBeTold
    OBVIOUS
  <2>1. ASSUME NEW h \in Heroes, Active(h)
        PROVE  /\ logs[h].fold.session = world.session
               /\ \A k \in NoteKeys : logs[h].fold.notes[k] # None => world.notes[k] = "public"
    BY <2>1 DEF TellInv, LogTells, Present, NotesPublic, Active
  <2>2. ASSUME NEW h \in Heroes, logs[h] # None
        PROVE  NamesKnown(logs[h].fold, met[h], famous)
    BY <2>2 DEF TellInv, LogTells
  <2>3. \A h \in Heroes : logs[h] # None => \A a \in Actors : HasActor(logs[h].fold, a) =>
          LET held == logs[h].fold.actors[a]
              whole == held.body # None \/ logs[h].fold.conditions[a] # {}
          IN  held.name # None => IF whole THEN held.name \in met[h] ELSE held.name \in famous
    BY <2>2 DEF NamesKnown, MayBeTold
  <2> QED BY <2>1, <2>3 DEF OnlyWhatMayBeTold
<1> QED BY <1>1, TellInvHolds, PTL
=============================================================================
