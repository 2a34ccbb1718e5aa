---------------------------- MODULE AuthoringModel ----------------------------
(***************************************************************************)
(* The building of an authoring project and the commands that edit it.  A     *)
(* plan is a strip: a space reaches from x to x + w and is Depth deep; walls   *)
(* that can be moved stand across the strip where spaces begin and end.       *)
(* Doors and windows are openings with identities of their own; objects and    *)
(* points are addressed by their position in a list of their space.  The       *)
(* result of a command is a set: a command that is refused has none.          *)
(***************************************************************************)
EXTENDS Integers, Sequences, SequencesExt, FiniteSets, FiniteSetsExt

CONSTANTS
  Spaces, Templates,
  TemplateOf,     (* the floor template a space belongs to                 *)
  NoRoom, NoTemplate,
  MaxLevels,      (* levels of a building, 200                             *)
  TopIndex,       (* bound: the highest index of a level                    *)
  MaxItems,       (* spaces of a template, points of a space, 4000          *)
  Depth,
  MaxCoord        (* coordinates and sizes                                 *)

ASSUME BuildingAssumption ==
  /\ TemplateOf \in [Spaces -> Templates]
  /\ NoTemplate \notin Templates
  /\ MaxLevels \in Nat \ {0} /\ TopIndex \in Nat /\ MaxItems \in Nat \ {0}
  /\ Depth \in Nat \ {0} /\ MaxCoord \in Nat \ {0}

Edges == {"N", "S", "E", "W"}

Exists(m, s)   == s \in Spaces /\ m.rooms[s] # NoRoom
RoomSet(m)     == {s \in Spaces : Exists(m, s)}
RoomsOf(m, t)  == {s \in RoomSet(m) : TemplateOf[s] = t}
LevelSet(m)    == {i \in 0 .. TopIndex : m.levels[i] # NoTemplate}
HostsOf(m, id) == {s \in RoomSet(m) : \E o \in m.rooms[s].openings : o.id = id}

(* No two openings have one identity.                                         *)
Identified(m) ==
  \A s, r \in RoomSet(m) : \A o \in m.rooms[s].openings, p \in m.rooms[r].openings :
    o.id = p.id => s = r /\ o = p

With(m, s, room) == [m EXCEPT !.rooms[s] = room]

InBounds(x) == x \in -MaxCoord .. MaxCoord
IsSize(w)   == w \in 1 .. MaxCoord

(* An opening has its offset in its middle.                                   *)
Span(room, edge) == IF edge \in {"N", "S"} THEN room.w ELSE Depth
Fits(room, o)    == 2 * o.off - o.wide >= 0 /\ 2 * o.off + o.wide <= 2 * Span(room, o.edge)
Measured(room)   == \A o \in room.openings : o.edge \in Edges /\ {o.off, o.wide} \subseteq Int
AllFit(room)     == \A o \in room.openings : Fits(room, o)

-----------------------------------------------------------------------------
(* A result breaks when something else is removed or moved with its target.    *)

Same(m)     == [model |-> m, breaking |-> FALSE]
Breaking(m) == [model |-> m, breaking |-> TRUE]

Given(guard, result) == IF guard THEN {result} ELSE {}

Is(c, verb, noun) == c.verb = verb /\ c.noun = noun
IsSpace(m, t)     == t[1] = "space" /\ Exists(m, t[2])

(* Site, position and rotation of the building, and the height of its levels.  *)
Setting(noun, value) == IF noun = "ROTATION" THEN value % 360 ELSE value

ChangeSetting(m, c) ==
  Given(/\ c.verb = "CHANGE"
        /\ \/ c.noun \in {"SITE", "LEVEL_HEIGHT"} /\ IsSize(c.at)
           \/ c.noun \in {"POSITION", "ROTATION"} /\ InBounds(c.at),
        Same([m EXCEPT !.settings[c.noun] = Setting(c.noun, c.at)]))

AddLevel(m, c) ==
  LET index == IF LevelSet(m) = {} THEN 0 ELSE Max(LevelSet(m)) + 1 IN
  Given(/\ Is(c, "ADD", "LEVEL")
        /\ Cardinality(LevelSet(m)) < MaxLevels /\ index <= TopIndex
        /\ c.host \in Templates,
        Same([m EXCEPT !.levels[index] = c.host]))

(* Neither the last level nor the last one that shows existing spaces.         *)
DeleteLevel(m, c) ==
  LET i == c.target[2]
      others == {j \in LevelSet(m) \ {i} : m.levels[j] = m.levels[i]} IN
  Given(/\ Is(c, "DELETE", "LEVEL") /\ c.target[1] = "level"
        /\ i \in LevelSet(m) /\ Cardinality(LevelSet(m)) > 1
        /\ RoomsOf(m, m.levels[i]) = {} \/ others # {},
        Breaking([m EXCEPT !.levels[i] = NoTemplate]))

-----------------------------------------------------------------------------
(* Spaces.                                                                 *)

RenameSpace(m, c) ==
  Given(Is(c, "RENAME", "SPACE") /\ IsSpace(m, c.target),
        Same([m EXCEPT !.rooms[c.target[2]].name = c.at]))

ResizeSpace(m, c) ==
  LET room == [m.rooms[c.target[2]] EXCEPT !.x = c.at, !.w = c.size] IN
  Given(/\ Is(c, "RESIZE", "SPACE") /\ IsSpace(m, c.target)
        /\ InBounds(c.at) /\ IsSize(c.size)
        /\ AllFit(room),
        Same(With(m, c.target[2], room)))

DeleteSpace(m, c) ==
  Given(Is(c, "DELETE", "SPACE") /\ IsSpace(m, c.target),
        Breaking(With(m, c.target[2], NoRoom)))

AddSpace(m, c) ==
  Given(/\ Is(c, "ADD", "SPACE")
        /\ c.host \in Spaces /\ ~ Exists(m, c.host)
        /\ InBounds(c.at) /\ IsSize(c.size)
        /\ Cardinality(RoomsOf(m, TemplateOf[c.host])) < MaxItems,
        Same(With(m, c.host, [x |-> c.at, w |-> c.size, name |-> 0, openings |-> {},
                              objects |-> <<>>, points |-> <<>>])))

-----------------------------------------------------------------------------
(* Openings.                                                               *)

Hosts(m, c, verb) ==
  IF Is(c, verb, "OPENING") /\ c.target[1] = "opening" THEN HostsOf(m, c.target[2]) ELSE {}

TheOpening(room, id) == CHOOSE o \in room.openings : o.id = id

Replaced(room, id, new) == [room EXCEPT !.openings = {o \in @ : o.id # id} \cup new]

DeleteOpening(m, c) ==
  {Breaking(With(m, s, Replaced(m.rooms[s], c.target[2], {}))) : s \in Hosts(m, c, "DELETE")}

(* An opening is moved along its wall or to another one, or gets a width.      *)
Altered(m, c, s) ==
  LET o == TheOpening(m.rooms[s], c.target[2]) IN
  IF c.verb = "MOVE" THEN [o EXCEPT !.edge = c.edge, !.off = c.at]
  ELSE [o EXCEPT !.wide = c.size]

AlterOpening(m, c) ==
  {Same(With(m, s, Replaced(m.rooms[s], c.target[2], {Altered(m, c, s)}))) :
     s \in {r \in Hosts(m, c, "MOVE") \cup Hosts(m, c, "CHANGE") :
              LET o == Altered(m, c, r) IN
              /\ c.verb = "MOVE" => InBounds(o.off)
              /\ o.edge \in Edges /\ IsSize(o.wide) /\ Fits(m.rooms[r], o)}}

(* The identity comes from a counter of the building.                         *)
AddOpening(m, c) ==
  LET s   == c.target[2]
      new == [id |-> m.next, edge |-> c.edge, off |-> c.at, wide |-> c.size] IN
  Given(/\ Is(c, "ADD", "OPENING") /\ IsSpace(m, c.target)
        /\ c.edge \in Edges /\ c.at \in Int /\ IsSize(c.size) /\ Fits(m.rooms[s], new),
        Same([With(m, s, Replaced(m.rooms[s], m.next, {new})) EXCEPT !.next = @ + 1]))

-----------------------------------------------------------------------------
(* Walls are derived from the edges of spaces: moving one moves these edges;    *)
(* adding or deleting one is always refused.                                 *)

Sides(m, t, x) ==
  {side \in RoomsOf(m, t) \X {"W", "E"} :
     x = m.rooms[side[1]].x + IF side[2] = "W" THEN 0 ELSE m.rooms[side[1]].w}

EdgeMoved(room, edge, delta) ==
  IF edge = "W" THEN [room EXCEPT !.x = @ + delta, !.w = @ - delta]
  ELSE [room EXCEPT !.w = @ + delta]

(* To keep their place, openings of a west wall are shifted back.             *)
Shifted(room, edge, delta) ==
  [room EXCEPT !.openings =
     {IF o.edge = edge /\ edge = "W" THEN [o EXCEPT !.off = @ - delta] ELSE o : o \in @}]

WallMoved(m, sides, c) ==
  [m EXCEPT !.rooms = [s \in Spaces |->
     IF \A side \in sides : side[1] # s THEN m.rooms[s]
     ELSE LET edge == (CHOOSE side \in sides : side[1] = s)[2]
              room == EdgeMoved(m.rooms[s], edge, c.at) IN
          IF c.strategy = "KEEP_WORLD_POSITION" THEN Shifted(room, edge, c.at) ELSE room]]

MoveWall(m, c) ==
  LET sides  == Sides(m, c.target[2], c.target[3])
      hosted == {side \in sides : \E o \in m.rooms[side[1]].openings : o.edge = side[2]}
      moved  == WallMoved(m, sides, c)
  IN IF ~ (Is(c, "MOVE", "WALL") /\ c.target[1] = "wall") THEN {}
     ELSE Given(/\ \E i \in LevelSet(m) : m.levels[i] = c.target[2]
                /\ sides # {} /\ InBounds(c.at)
                /\ hosted # {} =>
                     c.strategy \in {"KEEP_RELATIVE_POSITION", "KEEP_WORLD_POSITION"}
                /\ \A side \in sides :
                     moved.rooms[side[1]].w >= 1 /\ InBounds(moved.rooms[side[1]].x)
                /\ c.strategy = "KEEP_WORLD_POSITION" =>
                     \A side \in hosted : \A o \in moved.rooms[side[1]].openings :
                       o.edge = side[2] => Fits(moved.rooms[side[1]], o),
                [model |-> moved, breaking |-> hosted # {}])

-----------------------------------------------------------------------------
(* Objects, stairs and points.                                              *)

Nouns == {"OBJECT", "STAIR", "POINT"}

ListOf(c) == IF c.noun = "POINT" THEN "points" ELSE "objects"

(* Stairs have commands of their own.                                        *)
IsItem(m, c) ==
  /\ c.noun \in Nouns /\ c.target[1] = "item"
  /\ Exists(m, c.target[2]) /\ c.target[3] = ListOf(c)
  /\ c.target[4] \in DOMAIN m.rooms[c.target[2]][ListOf(c)]
  /\ (m.rooms[c.target[2]][ListOf(c)][c.target[4]].kind = "STAIR") <=> (c.noun = "STAIR")

(* Only points have to stay in their space.                                   *)
Placed(room, c) == InBounds(c.at) /\ (c.noun = "POINT" => c.at \in 0 .. room.w)

DeleteItem(m, c) ==
  Given(c.verb = "DELETE" /\ IsItem(m, c),
        Breaking([m EXCEPT !.rooms[c.target[2]][ListOf(c)] = RemoveAt(@, c.target[4])]))

MoveItem(m, c) ==
  Given(c.verb = "MOVE" /\ IsItem(m, c) /\ Placed(m.rooms[c.target[2]], c),
        Same([m EXCEPT !.rooms[c.target[2]][ListOf(c)][c.target[4]].at = c.at]))

ChangePoint(m, c) ==
  Given(c.verb = "CHANGE" /\ c.noun = "POINT" /\ IsItem(m, c) /\ c.size \in 0 .. MaxCoord,
        Same([m EXCEPT !.rooms[c.target[2]].points[c.target[4]].height = c.size]))

AddItem(m, c) ==
  Given(/\ c.verb = "ADD" /\ c.noun \in Nouns /\ IsSpace(m, c.target)
        /\ Placed(m.rooms[c.target[2]], c)
        /\ c.noun = "POINT" =>
             c.size \in 0 .. MaxCoord /\ Len(m.rooms[c.target[2]].points) < MaxItems,
        Same([m EXCEPT !.rooms[c.target[2]][ListOf(c)] =
                Append(@, [kind |-> c.noun, at |-> c.at, height |-> c.size])]))

(* The space that gets the object is not the target.                          *)
PromoteVisual(m, c) ==
  Given(Is(c, "PROMOTE", "OBJECT") /\ Exists(m, c.host) /\ InBounds(c.at),
        Same([m EXCEPT !.rooms[c.host].objects =
                Append(@, [kind |-> "OBJECT", at |-> c.at, height |-> c.size])]))

-----------------------------------------------------------------------------
(* A lock names a target, which need not exist.                              *)

LockElement(m, c) ==
  Given(Is(c, "LOCK", "ELEMENT"), Same([m EXCEPT !.locks = @ \cup {c.target}]))

UnlockElement(m, c) ==
  Given(Is(c, "UNLOCK", "ELEMENT") /\ c.target \in m.locks,
        Same([m EXCEPT !.locks = @ \ {c.target}]))

LockAllows(m, c) == c.noun = "ELEMENT" \/ c.target \notin m.locks

Effects(m, c) ==
  IF ~ LockAllows(m, c) THEN {}
  ELSE IF c.noun = "OPENING" /\ ~ Identified(m) THEN {}
  ELSE UNION {ChangeSetting(m, c), AddLevel(m, c), DeleteLevel(m, c),
              RenameSpace(m, c), ResizeSpace(m, c), DeleteSpace(m, c), AddSpace(m, c),
              DeleteOpening(m, c), AlterOpening(m, c), AddOpening(m, c), MoveWall(m, c),
              DeleteItem(m, c), MoveItem(m, c), ChangePoint(m, c), AddItem(m, c),
              PromoteVisual(m, c), LockElement(m, c), UnlockElement(m, c)}

-----------------------------------------------------------------------------
(* What a command says must not change.                                      *)

Field(m, s, field) == IF Exists(m, s) THEN m.rooms[s][field] ELSE 0
Openings(m, s)     == IF Exists(m, s) THEN Cardinality(m.rooms[s].openings) ELSE 0
Objects(m)         == [s \in Spaces |-> IF Exists(m, s) THEN Len(m.rooms[s].objects) ELSE 0]
TotalOf(counts)    == MapThenSumSet(LAMBDA s : counts[s], Spaces)

Keeps(subject, m, n) ==
  /\ subject \in {"SPACE_RECT", "SPACE_ADJACENCY"} =>
       \A s \in Spaces : Field(m, s, "x") = Field(n, s, "x") /\ Field(m, s, "w") = Field(n, s, "w")
  /\ subject = "SPACE_AREA"   => \A s \in Spaces : Field(m, s, "w") = Field(n, s, "w")
  /\ subject = "SPACE_NAME"   => \A s \in Spaces : Field(m, s, "name") = Field(n, s, "name")
  /\ subject = "SPACE_IDS"    => RoomSet(m) = RoomSet(n)
  /\ subject = "SPACE_COUNT"  => Cardinality(RoomSet(m)) = Cardinality(RoomSet(n))
  /\ subject = "LEVEL_COUNT"  => Cardinality(LevelSet(m)) = Cardinality(LevelSet(n))
  /\ subject \in {"SITE", "LEVEL_HEIGHT"} => m.settings[subject] = n.settings[subject]
  /\ subject = "BUILDING_TRANSFORM" =>
       \A noun \in {"POSITION", "ROTATION"} : m.settings[noun] = n.settings[noun]
  /\ subject = "OBJECT_IDS"   => Objects(m) = Objects(n)
  /\ subject = "OBJECT_COUNT" => TotalOf(Objects(m)) = TotalOf(Objects(n))
  /\ subject = "HOSTED_OPENINGS" => \A s \in RoomSet(m) : Openings(m, s) = Openings(n, s)

-----------------------------------------------------------------------------
(* Structural coherence of a building.                                       *)

(* Slip: spaces that overlap by less than two units are taken for neighbours.  *)
OverlapLoosely(a, b) == a.x + 1 < b.x + b.w /\ b.x + 1 < a.x + a.w

Overlap(a, b) == a.x < b.x + b.w /\ b.x < a.x + a.w

Coherent(m) ==
  /\ LevelSet(m) # {}
  /\ \A i \in LevelSet(m) : m.levels[i] \in Templates
  /\ m.settings["SITE"] > 0
  /\ Identified(m)
  /\ \A s \in RoomSet(m) :
       /\ m.rooms[s].w >= 1 /\ InBounds(m.rooms[s].x) /\ InBounds(m.rooms[s].w)
       /\ Measured(m.rooms[s]) /\ AllFit(m.rooms[s])
       /\ \A r \in RoomsOf(m, TemplateOf[s]) \ {s} : ~ Overlap(m.rooms[s], m.rooms[r])

=============================================================================
