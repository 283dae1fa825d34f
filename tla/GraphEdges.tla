----------------------------- MODULE GraphEdges -----------------------------
(***************************************************************************)
(* The paths of the edges between the nodes of a board                     *)
(* (src/packages/dashql-app/src/view/catalog/graph_edges.ts).              *)
(*                                                                         *)
(* A direction is a unit vector, y grows to the north.  The type of an     *)
(* edge is the sequence of the directions that it takes: one, or three     *)
(* with two turns between them.  (The types with one turn are those of     *)
(* selectEdgeType, which nobody calls.)  Nodes are given by their centers  *)
(* and sizes in pixels, the points of a path are in halves of a pixel.     *)
(***************************************************************************)
EXTENDS Integers, Sequences

CONSTANTS GridCell, CornerRadius

ASSUME EdgesAssumption == GridCell \in Nat \ {0} /\ CornerRadius \in Nat

North == <<0, 1>>
East == <<1, 0>>
South == <<0, -1>>
West == <<-1, 0>>

\* Sectors of the angle of an edge.  An angle of 180 degrees is in the one
\* that follows, south west.
selectEdgeTypeFromAngle(dx, dy) ==
  LET vertical == IF dy > 0 \/ (dy = 0 /\ dx >= 0) THEN North ELSE South
      horizontal == IF dx < 0 THEN West ELSE East
  IN IF dy = 0 /\ dx >= 0 THEN <<East>>
     ELSE IF dx = 0 THEN <<vertical>>
     ELSE <<vertical, horizontal>>

selectHorizontalEdgeType(from, to) ==
  LET type == selectEdgeTypeFromAngle(to[1] - from[1], to[2] - from[2])
  IN IF Len(type) = 1 THEN type ELSE <<type[2], type[1], type[2]>>

-----------------------------------------------------------------------------
Point(p) == <<2 * p[1], 2 * p[2]>>
Ahead(p, direction, by) == <<p[1] + direction[1] * by[1], p[2] + direction[2] * by[2]>>
Behind(p, direction, by) == <<p[1] - direction[1] * by[1], p[2] - direction[2] * by[2]>>

\* The half way between two coordinates, on the grid
HalfWay(from, to) == 2 * GridCell * ((from + to + GridCell) \div (2 * GridCell))

\* Corners are cut by the radius, but not by more than half of the distance
Cut(from, to) ==
  LET distance == IF from <= to THEN to - from ELSE from - to
  IN IF distance <= 2 * CornerRadius THEN distance ELSE 2 * CornerRadius

buildEdgePath(type, from, to, fromSize, toSize) ==
  LET start == Ahead(Point(from), type[1], fromSize)
      end == Behind(Point(to), type[Len(type)], toSize)
      cut == <<Cut(from[1], to[1]), Cut(from[2], to[2])>>
      x == HalfWay(from[1], to[1])
      y == HalfWay(from[2], to[2])
      first == IF type[1][2] = 0 THEN <<x, 2 * from[2]>> ELSE <<2 * from[1], y>>
      second == IF type[1][2] = 0 THEN <<x, 2 * to[2]>> ELSE <<2 * to[1], y>>
      Turn(corner, i) ==
        <<Behind(corner, type[i], cut), corner, Ahead(corner, type[i + 1], cut)>>
  IN IF from = to THEN <<>>
     ELSE IF Len(type) = 1 THEN <<start, end>>
     ELSE <<start>> \o Turn(first, 1) \o Turn(second, 2) \o <<end>>
=============================================================================
