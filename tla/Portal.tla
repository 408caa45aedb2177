------------------------------- MODULE Portal -------------------------------
(***************************************************************************)
(* Level transitions: the portals of a level (src/src/level.cpp) and the  *)
(* head of every iteration of the old driver's play_level loop            *)
(* (src/main.cpp), which respawns a dead player and then takes the portal *)
(* get_portal returns.                                                    *)
(*                                                                         *)
(* A level has boundaries, an edge portal on each side when the file names *)
(* previous_level or next_level, and the doors of its "portal" children.  *)
(* A script may force a portal with force_enter_portal; get_portal        *)
(* returns it first and clears the flag.  Positions are x only: the       *)
(* player's body_rect is [px, px + BodyW), a door's area is [ax, ax2),    *)
(* and move_to_standing, which only drops the player onto the ground, is  *)
(* left out.  A portal is a record; dest_str is left out, as nothing      *)
(* reads it.                                                               *)
(***************************************************************************)
EXTENDS Integers, Sequences, SequencesExt

CONSTANTS
  Levels,        \* level files
  NoLevel,       \* the empty level_dest
  Start,         \* the level play_level starts in
  Bounds,        \* [Levels -> [x, x2]]: boundaries().x(), boundaries().x2()
  PrevLevel,     \* [Levels -> Levels \cup {NoLevel}]: previous_level
  NextLevel,     \* [Levels -> Levels \cup {NoLevel}]: next_level
  Doors,         \* [Levels -> Seq(portal)]: portals_, in file order
  FilePlayerX,   \* [Levels -> Int]: x of the player the level file places
  Forced,        \* portals a script may pass to force_enter_portal
  BodyW,         \* width of the player's body_rect
  MinX, MaxX     \* the player walks within MinX..MaxX

VARIABLES
  lvl,           \* the level lvl holds
  px,            \* the player's x
  alive,         \* hitpoints() > 0
  entered,       \* entered_portal_ while entered_portal_active_, else NoPortal
  taken          \* the portal the last iteration took, or NoPortal (history)

pvars == <<lvl, px, alive, entered, taken>>

NoPortal == [level_dest |-> NoLevel]

(* The edge portals set up by the level's constructor or by               *)
(* set_previous_level/set_next_level: automatic, not to the starting      *)
(* position, and with dest left at point(), so (0, 0).                    *)
LeftPortal(l) ==
  [ax |-> 0, ax2 |-> 0, level_dest |-> PrevLevel[l], dest |-> 0,
   dest_starting_pos |-> FALSE, automatic |-> TRUE]
RightPortal(l) ==
  [ax |-> 0, ax2 |-> 0, level_dest |-> NextLevel[l], dest |-> 0,
   dest_starting_pos |-> FALSE, automatic |-> TRUE]

(* The door of portals_ the body overlaps and that opens: automatic, or   *)
(* the player presses enter.  The first one in file order wins.           *)
DoorAt(l, x, enter) ==
  LET ds == Doors[l]
      i  == SelectInSeq(ds, LAMBDA d : x < d.ax2 /\ d.ax < x + BodyW /\ (d.automatic \/ enter))
  IN  IF i = 0 THEN NoPortal ELSE ds[i]

(* Variant: the edges are tested before the forced portal.                *)
GetPortalEdgesFirst(l, x, ent, enter) ==
  IF x < Bounds[l].x /\ PrevLevel[l] # NoLevel THEN LeftPortal(l)
  ELSE IF x + BodyW > Bounds[l].x2 /\ NextLevel[l] # NoLevel THEN RightPortal(l)
  ELSE IF ent # NoPortal THEN ent
  ELSE DoorAt(l, x, enter)

(* level::get_portal: the forced portal, then the left edge, the right   *)
(* edge, then the doors.                                                   *)
GetPortal(l, x, ent, enter) ==
  IF ent # NoPortal THEN ent
  ELSE IF x < Bounds[l].x /\ PrevLevel[l] # NoLevel THEN LeftPortal(l)
  ELSE IF x + BodyW > Bounds[l].x2 /\ NextLevel[l] # NoLevel THEN RightPortal(l)
  ELSE DoorAt(l, x, enter)

(* Where play_level puts the player: portal->dest, or the position of the *)
(* new level's own player when dest_starting_pos is set.                  *)
Dest(p) == IF p.dest_starting_pos THEN FilePlayerX[p.level_dest] ELSE p.dest

(* The save condition: main calls save_game on the player of the level it *)
(* loads, and a respawn saves the same condition again.                    *)
SaveAt == [level |-> Start, x |-> FilePlayerX[Start]]

-----------------------------------------------------------------------------
Init ==
  /\ lvl = Start
  /\ px = FilePlayerX[Start]
  /\ alive = TRUE
  /\ entered = NoPortal
  /\ taken = NoPortal

(* The head of a play_level iteration and, when the iteration gets that  *)
(* far, lvl->process().  A dead player is replaced by the save condition *)
(* in a freshly loaded level of its current_level.  get_portal is then    *)
(* asked of the level that is current, and a portal loads its level_dest  *)
(* and moves the player there.  A freshly loaded level has no forced      *)
(* portal.  In process() the player may walk a step and may die, and a    *)
(* script may force a portal, all in the same cycle.                      *)
Iterate(processes) ==
  \E enter \in BOOLEAN :
    LET l1 == IF alive THEN lvl ELSE SaveAt.level
        x1 == IF alive THEN px ELSE SaveAt.x
        e1 == IF alive THEN entered ELSE NoPortal
        p  == GetPortal(l1, x1, e1, enter)
        l2 == IF p = NoPortal THEN l1 ELSE p.level_dest
        x2 == IF p = NoPortal THEN x1 ELSE Dest(p)
        e2 == IF p = NoPortal THEN e1 ELSE NoPortal
    IN  /\ taken' = p
        /\ lvl' = l2
        /\ IF processes
             THEN \E d \in {-1, 0, 1}, dies \in BOOLEAN, f \in {e2} \cup Forced :
                    /\ x2 + d \in MinX..MaxX
                    /\ px' = x2 + d
                    /\ alive' = ~dies
                    /\ entered' = f
             ELSE /\ px' = x2 /\ alive' = TRUE /\ entered' = e2

(* A new run of the program loads the start level afresh (the replaying   *)
(* run of module PlayLevel).                                               *)
LoadStart ==
  /\ lvl' = Start
  /\ px' = FilePlayerX[Start]
  /\ alive' = TRUE
  /\ entered' = NoPortal
  /\ taken' = NoPortal

Next == Iterate(TRUE)

Spec == Init /\ [][Next]_pvars

-----------------------------------------------------------------------------
Portals == {NoPortal} \cup Forced \cup {LeftPortal(l) : l \in Levels} \cup
           {RightPortal(l) : l \in Levels} \cup UNION {ToSet(Doors[l]) : l \in Levels}

TypeOK ==
  /\ lvl \in Levels
  /\ px \in Int
  /\ alive \in BOOLEAN
  /\ entered \in Portals
  /\ taken \in Portals

=============================================================================
