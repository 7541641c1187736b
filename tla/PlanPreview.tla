----------------------------- MODULE PlanPreview -----------------------------
(* The preview of a cafe's plan (plan-preview.util.ts, getPlanPreview): which   *)
(* elements of the editor it shows and the box that is drawn around them, in  *)
(* whole canvas pixels.  An element with a number that is missing or not        *)
(* finite is broken; a door with several spans is as many doors.             *)
EXTENDS Integers, FiniteSetsExt, SequencesExt

CONSTANTS
  PlanElements, \* what may be drawn
  Field,        \* editorPlanFieldM, in metres
  Background,   \* planBackgroundImage: no picture, or one with its middle and size
  MaxPlan       \* bound

Point == [x : Int, y : Int]

PlanElement ==
  [type : {"WALL"}, id : Nat, broken : BOOLEAN, from : Point, to : Point]
    \cup [type : {"DOOR"}, broken : BOOLEAN, wall : Nat, from : Int, to : Int]
    \cup [type : {"ROOM_ZONE"}, points : Seq(Point)]
    \cup [type : {"TABLE"}, broken : BOOLEAN, at : Point, widthM : Int, heightM : Int]

\* readPlanFieldM keeps the sides of the field between 2 and 120 metres.
ASSUME PlanAssumption ==
  /\ PlanElements \subseteq PlanElement
  /\ Field \in [widthM : 2..120, heightM : 2..120]
  /\ Background.given => Background \in [given : {TRUE}, at : Point, widthM : Int, heightM : Int]

VARIABLE plan \* the elements, as the editor has saved them

PLAN_PX_PER_M == 200
m2px(m) == m * PLAN_PX_PER_M

Lesser(a, b) == IF a <= b THEN a ELSE b
Greater(a, b) == IF a >= b THEN a ELSE b

Apart(a, b) == Greater(a, b) - Lesser(a, b)

\* Rounded down to a pixel.
wallLen(wall) ==
  LET dx == Apart(wall.from.x, wall.to.x)
      dy == Apart(wall.from.y, wall.to.y)
      square == dx * dx + dy * dy
  IN CHOOSE n \in 0..(dx + dy) : n * n <= square /\ square < (n + 1) * (n + 1)

\* What is computed from a number that is not one, NaN: a point or a box.
NotANumber == [nan |-> TRUE]

\* The point at a distance from the wall's start; on a wall of no length, its start.
pointOnWall(wall, along, broken) ==
  IF wallLen(wall) = 0 THEN wall.from
  ELSE IF broken THEN NotANumber
  ELSE [x |-> wall.from.x + ((wall.to.x - wall.from.x) * along) \div wallLen(wall),
        y |-> wall.from.y + ((wall.to.y - wall.from.y) * along) \div wallLen(wall)]

NoBounds == [width |-> 0]

\* Math.min and Math.max of NaN are NaN.
pushBounds(b, pt, pad) ==
  IF NotANumber \in {b, pt} THEN NotANumber
  ELSE IF b = NoBounds
  THEN [minX |-> pt.x - pad, minY |-> pt.y - pad, width |-> 2 * pad, height |-> 2 * pad]
  ELSE LET minX == Lesser(b.minX, pt.x - pad)
           minY == Lesser(b.minY, pt.y - pad)
       IN [minX |-> minX, minY |-> minY,
           width |-> Greater(b.minX + b.width, pt.x + pad) - minX,
           height |-> Greater(b.minY + b.height, pt.y + pad) - minY]

finalizeBounds(b, w, h) ==
  IF b = NotANumber THEN NotANumber
  ELSE IF b = NoBounds THEN [minX |-> 0, minY |-> 0, width |-> w, height |-> h]
  ELSE LET minX == Lesser(b.minX, 0)
           minY == Lesser(b.minY, 0)
       IN [minX |-> minX, minY |-> minY,
           width |-> Greater(400, Greater(b.minX + b.width, w) - minX),
           height |-> Greater(300, Greater(b.minY + b.height, h) - minY)]

FieldW == m2px(Field.widthM)
FieldH == m2px(Field.heightM)

\* The corners of a piece of furniture, before it is turned.
Corners(el) ==
  <<[x |-> el.at.x - m2px(el.widthM) \div 2, y |-> el.at.y - m2px(el.heightM) \div 2],
    [x |-> el.at.x + m2px(el.widthM) \div 2, y |-> el.at.y + m2px(el.heightM) \div 2]>>

expandBoundsForFurniture(b, el) ==
  pushBounds(pushBounds(pushBounds(b, Corners(el)[1], 0), Corners(el)[2], 0), el.at, 48)

-----------------------------------------------------------------------------
Walls(elements) == {i \in DOMAIN elements : elements[i].type = "WALL" /\ ~elements[i].broken}

\* An opening's ends, on a wall of the plan, the last of two with an id. Of walls and furniture
\* the numbers are looked at, of an opening's span they are not.
Segment(elements, el) ==
  LET walls == {i \in Walls(elements) : elements[i].id = el.wall}
      wall == elements[Max(walls)]
  IN IF walls = {} THEN << >> ELSE <<pointOnWall(wall, el.from, el.broken), pointOnWall(wall, el.to, el.broken)>>

\* A zone needs three points that are numbers.
IsZone(el) == el.type = "ROOM_ZONE" /\ Len(el.points) >= 3

\* The points of an element that the preview shows.
PointsOf(elements, el) ==
  CASE el.type = "WALL" -> IF el.broken THEN << >> ELSE <<el.from, el.to>>
    [] el.type = "ROOM_ZONE" -> IF IsZone(el) THEN el.points ELSE << >>
    [] el.type = "DOOR" -> Segment(elements, el)
    [] el.type = "TABLE" -> IF el.broken THEN << >> ELSE Corners(el)

PushPoint(b, pt) == pushBounds(b, pt, 0)
PushPoints(b, points) == FoldLeft(PushPoint, b, points)

AddElement(elements, b, el) ==
  IF el.type # "TABLE" THEN PushPoints(b, PointsOf(elements, el))
  ELSE IF el.broken THEN b
  ELSE expandBoundsForFurniture(IF b = NoBounds THEN finalizeBounds(b, FieldW, FieldH) ELSE b, el)

\* One loop over the elements, that looks at those of some types.
AddAll(elements, types, b) ==
  FoldLeft(LAMBDA c, el : IF el.type \in types THEN AddElement(elements, c, el) ELSE c, b, elements)

\* The walls come first, whatever their place among the elements.
buildPlanPreviewPayload(elements) ==
  LET Drawn == AddAll(elements, {"ROOM_ZONE", "TABLE", "DOOR"}, AddAll(elements, {"WALL"}, NoBounds))
      Box == IF Background.given THEN PushPoints(Drawn, Corners(Background)) ELSE Drawn
  IN [bounds |-> finalizeBounds(Box, FieldW, FieldH),
      walls |-> Cardinality(Walls(elements)),
      furniture |-> Cardinality({i \in DOMAIN elements : elements[i].type = "TABLE" /\ ~elements[i].broken}),
      openings |-> Cardinality({i \in DOMAIN elements :
                                  elements[i].type = "DOOR" /\ Segment(elements, elements[i]) # << >>}),
      zones |-> Cardinality({i \in DOMAIN elements : IsZone(elements[i])})]

\* A picture is made only of a plan of nothing but zones, and a plan of nothing is none.
HasGeometry(preview) == preview.zones + preview.walls + preview.furniture + preview.openings > 0
planPreviewForClient(preview) ==
  [preview |-> preview, raster |-> preview.walls + preview.furniture + preview.openings = 0]

-----------------------------------------------------------------------------
PlanInit == plan = << >>

Draw == \E el \in PlanElements : Len(plan) < MaxPlan /\ plan' = Append(plan, el)

PlanNext == Draw

PlanSpec == PlanInit /\ [][PlanNext]_plan

-----------------------------------------------------------------------------
\* buildPlanPreviewPayload grows the box point by point, in the order of the
\* elements: whatever the order, it holds the field, the picture and every wall, zone, opening
\* and piece of furniture that is shown, and a plan that shows one has a preview; the
\* box is lost, all of it NaN, exactly when an opening whose span is broken is shown.
BoundsCoverThePlan ==
  LET preview == buildPlanPreviewPayload(plan)
      b == preview.bounds
      Within(pt) == /\ b.minX <= pt.x /\ pt.x <= b.minX + b.width
                    /\ b.minY <= pt.y /\ pt.y <= b.minY + b.height
      Shows(i, pt) == \E j \in DOMAIN PointsOf(plan, plan[i]) : pt = PointsOf(plan, plan[i])[j]
  IN /\ b = NotANumber <=> \E i \in DOMAIN plan : plan[i].type = "DOOR" /\ Shows(i, NotANumber)
     /\ b # NotANumber =>
          /\ Within([x |-> 0, y |-> 0]) /\ Within([x |-> FieldW, y |-> FieldH])
          /\ Background.given => Within(Corners(Background)[1]) /\ Within(Corners(Background)[2])
          /\ \A i \in DOMAIN plan : \A j \in DOMAIN PointsOf(plan, plan[i]) : Within(PointsOf(plan, plan[i])[j])
     /\ \A i \in DOMAIN plan : PointsOf(plan, plan[i]) # << >> => HasGeometry(preview)
     /\ planPreviewForClient(preview).raster /\ HasGeometry(preview) => preview.zones > 0
=============================================================================
