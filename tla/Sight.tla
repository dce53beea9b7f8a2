-------------------------------- MODULE Sight --------------------------------
(***************************************************************************)
(* What can be seen from a square (internal/sight), and what stands in the *)
(* way of a move (engine.State.Blocked).  Pure geometry, no variables.     *)
(*                                                                         *)
(* The code computes in float64.  Here a square is 2 * Half units wide and *)
(* every point is a whole number of units, so that the slab test's         *)
(* quotients are fractions, compared by cross-multiplication.  A sample    *)
(* point lies one unit inside its square, for the code's 1e-9: with Half   *)
(* large beside the grid, no edge and no corner of a blocker lies between. *)
(*                                                                         *)
(* A scene is [width, height, tiles, open, objects]: tiles gives the kind  *)
(* of the squares that have terrain, open is the set of the open doors,    *)
(* and an object is [x, y, width, height, blocksSight, blocksMove].        *)
(***************************************************************************)
EXTENDS Integers, FiniteSets

CONSTANT Half  \* half the side of a square, in units: more than the one of the inset

Side == 2 * Half

Grid(sc) == (0 .. sc.width - 1) \X (0 .. sc.height - 1)

Tile(sc, sq) == IF sq \in DOMAIN sc.tiles THEN sc.tiles[sq] ELSE "none"

-----------------------------------------------------------------------------
(* Blockers.                                                               *)

Rect(x, y, w, h) ==
  [min |-> <<x * Side, y * Side>>, max |-> <<(x + w) * Side, (y + h) * Side>>]

\* A wall fills its square, and so does a door until it is opened.
Solid(sc, sq) ==
  \/ Tile(sc, sq) = "wall"
  \/ Tile(sc, sq) = "door" /\ sq \notin sc.open

\* An object that covers no square casts no shadow, as it stops no move.
Opaque(o) == o.blocksSight /\ o.width >= 1 /\ o.height >= 1

Blockers(sc) ==
  {Rect(sq[1], sq[2], 1, 1) : sq \in {q \in Grid(sc) : Solid(sc, q)}}
    \cup {Rect(o.x, o.y, o.width, o.height) : o \in {p \in sc.objects : Opaque(p)}}

ContainsPoint(r, p) == \A i \in 1 .. 2 : r.min[i] <= p[i] /\ p[i] <= r.max[i]

-----------------------------------------------------------------------------
(* The slab test.  A fraction is <<n, d>>, d > 0.                          *)

Leq(f, g) == f[1] * g[2] <= g[1] * f[2]

Later(f, g) == IF Leq(f, g) THEN g ELSE f
Earlier(f, g) == IF Leq(f, g) THEN f ELSE g

\* n / d for any d but 0.
Ratio(n, d) == IF d > 0 THEN <<n, d>> ELSE <<-n, -d>>

\* Where along from..to the segment enters and leaves the slab of axis i.
Enters(from, to, r, i) ==
  LET d == to[i] - from[i]
  IN  Earlier(Ratio(r.min[i] - from[i], d), Ratio(r.max[i] - from[i], d))
Leaves(from, to, r, i) ==
  LET d == to[i] - from[i]
  IN  Later(Ratio(r.min[i] - from[i], d), Ratio(r.max[i] - from[i], d))

Crosses(from, to) == {i \in 1 .. 2 : to[i] # from[i]}

\* Some of the segment is inside every slab: what is entered last is entered
\* before the first is left.
SegmentHitsRect(from, to, r) ==
  /\ \A i \in 1 .. 2 \ Crosses(from, to) : r.min[i] <= from[i] /\ from[i] <= r.max[i]
  /\ \A i \in Crosses(from, to) :
       /\ Leq(Enters(from, to, r, i), <<1, 1>>)
       /\ Leq(<<0, 1>>, Leaves(from, to, r, i))
       /\ \A j \in Crosses(from, to) : Leq(Enters(from, to, r, i), Leaves(from, to, r, j))

\* A blocker that holds an end of the ray does not stop it.
Clear(from, to, blockers) ==
  \A b \in blockers :
    ContainsPoint(b, from) \/ ContainsPoint(b, to) \/ ~SegmentHitsRect(from, to, b)

-----------------------------------------------------------------------------
(* What is visible.                                                        *)

Centre(sq) == <<sq[1] * Side + Half, sq[2] * Side + Half>>

\* Mutation: the samples lie on the square's edge, which is its neighbour's too.
SamplePointsOnTheEdge(sq) ==
  {<<sq[1] * Side + dx, sq[2] * Side + dy>> : dx, dy \in {0, Half, Side}}

\* The centre, the corners and the middles of the edges, each inside the square.
SamplePoints(sq) ==
  {<<sq[1] * Side + dx, sq[2] * Side + dy>> : dx, dy \in {1, Half, Side - 1}}

Abs(n) == IF n < 0 THEN -n ELSE n

Chebyshev(a, b) ==
  LET dx == Abs(a[1] - b[1])
      dy == Abs(a[2] - b[2])
  IN  IF dx > dy THEN dx ELSE dy

\* The squares of sc seen from at.  A range of 0 is none, and a tolerance of 0
\* is one sample point of the nine.
VisibleFrom(sc, at, range, tolerance) ==
  LET blockers == Blockers(sc)
      want == IF tolerance <= 0 THEN 1 ELSE tolerance
      reached(sq) == {p \in SamplePoints(sq) : Clear(Centre(at), p, blockers)}
  IN  {sq \in Grid(sc) : /\ range > 0 => Chebyshev(at, sq) <= range
                         /\ Cardinality(reached(sq)) >= want}

-----------------------------------------------------------------------------
(* What stops a move.                                                      *)

Covers(o, sq) ==
  /\ o.x <= sq[1] /\ sq[1] < o.x + o.width
  /\ o.y <= sq[2] /\ sq[2] < o.y + o.height

Blocked(sc, sq) ==
  \/ sq \notin Grid(sc)
  \/ Solid(sc, sq)
  \/ \E o \in sc.objects : o.blocksMove /\ Covers(o, sq)

-----------------------------------------------------------------------------
(* Properties, of scenes of three squares by three.                        *)

Board3 == (0 .. 2) \X (0 .. 2)

Walled(walls) ==
  [width |-> 3, height |-> 3, objects |-> {}, open |-> {}, tiles |-> [sq \in walls |-> "wall"]]

Cross(a, b, c) == (b[1] - a[1]) * (c[2] - a[2]) - (b[2] - a[2]) * (c[1] - a[1])

\* A segment meets a rectangle unless they lie apart along an axis, or the
\* corners lie all on one side of the segment's line.
Meets(a, b, r) ==
  LET corners == {r.min[1], r.max[1]} \X {r.min[2], r.max[2]}
      apart(i) == \/ a[i] < r.min[i] /\ b[i] < r.min[i]
                  \/ a[i] > r.max[i] /\ b[i] > r.max[i]
  IN  /\ ~apart(1) /\ ~apart(2)
      /\ ~ \A c \in corners : Cross(a, b, c) > 0
      /\ ~ \A c \in corners : Cross(a, b, c) < 0

\* The slab test, quotients and all, decides whether the ray from a square's
\* centre to a sample point meets a blocker (segmentHitsRect).
SlabMeetsTheRect ==
  \A at, to, in \in Board3 : \A p \in SamplePoints(to) :
    LET r == Rect(in[1], in[2], 1, 1)
    IN  SegmentHitsRect(Centre(at), p, r) <=> Meets(Centre(at), p, r)

\* A wall from edge to edge hides everything behind it, whatever else stands
\* on the board, though it is seen itself (samplePoints' distance from the edge).
NothingThroughAWall ==
  LET wall == {1} \X (0 .. 2)
  IN  \A others \in SUBSET {<<0, 0>>, <<0, 1>>, <<2, 0>>, <<2, 1>>} :
        \A at \in {0} \X (0 .. 2) :
          LET seen == VisibleFrom(Walled(wall \cup others), at, 0, 0)
          IN  /\ <<1, at[2]>> \in seen
              /\ seen \cap ({2} \X (0 .. 2)) = {}

\* Opening doors takes nothing out of sight, from any square (Blockers).
OpeningOnlyReveals ==
  LET sc == [Walled({<<1, 1>>}) EXCEPT !.tiles = [sq \in {1} \X (0 .. 2) |->
                                                    IF sq[2] = 1 THEN "wall" ELSE "door"]]
      seen(open, at, least) == VisibleFrom([sc EXCEPT !.open = open], at, 0, least)
  IN  \A open, more \in SUBSET {<<1, 0>>, <<1, 2>>} :
        \A at \in Board3, least \in {1, 5} :
          open \subseteq more => seen(open, at, least) \subseteq seen(more, at, least)
=============================================================================
