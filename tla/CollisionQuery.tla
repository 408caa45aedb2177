--------------------------- MODULE CollisionQuery ---------------------------
(***************************************************************************)
(* The entity queries of class level: collide(x, y), collide(rect),       *)
(* board(x, y), and the entity part of standable(x, y), asked by entities *)
(* while do_processing walks active_chars_.  The model keeps the order of *)
(* chars_ and active_chars_, the destroyed flags, and the removal of an   *)
(* entity from chars_ during the processing loop; which entities are      *)
(* active is chosen freely (the activation rule is modelled in Level).    *)
(* Geometry is one-dimensional: an entity's body, hit rect and standable  *)
(* surface are sets of the points Pts.  The body of an animated entity is *)
(* the opaque pixels, along its row y = 0, of the image its current frame *)
(* shows at its time in the frame (frame::is_alpha, module Frame); each   *)
(* process() advances that time by one.  An animated entity starts the    *)
(* ticks in any of the frames of its type.                                 *)
(***************************************************************************)
EXTENDS Integers, Sequences, FiniteSets, SequencesExt

CONSTANTS
  Ents,          \* entities
  InitChars,     \* chars_ after loading: a sequence of distinct entities
  Human,         \* entities with is_human()
  PlayersSide,   \* entities with on_players_side()
  Harmful,       \* entities with body_harmful()
  Passthrough,   \* entities with body_passthrough()
  Boardable,     \* entities with boardable_vehicle()
  Body,          \* [Ents -> SUBSET Pts]: points where point_collides holds
  Hit,           \* [Ents -> SUBSET Pts]: hit_rect()
  Stand,         \* [Ents -> SUBSET Pts]: points where is_standable holds
  Pts,           \* points of the line
  Spawnable,     \* entities a script may add_character
  Removable,     \* entities a script may remove_character
  MaxTicks,      \* bound on ticks
  Frames,        \* names of the frames of all entity types
  FrameDef,      \* [Frames -> frame records of module Frame]
  Anim,          \* [animated entities -> SUBSET Frames]: the frames of its type
  AnimX,         \* [DOMAIN Anim -> Int]: x() of an animated entity
  FaceRight,     \* [DOMAIN Anim -> BOOLEAN]: face_right()
  FrameMaxTime,  \* times in a frame up to which a frame is checked
  NpotAllowed    \* is_npot_allowed(), for the frames' textures

ASSUME Human \cap (Spawnable \cup Removable) = {}
ASSUME \A c \in DOMAIN Anim : Anim[c] \subseteq Frames /\ Anim[c] # {}

Fr == INSTANCE Frame WITH MaxTime <- FrameMaxTime

VARIABLES
  chars,         \* chars_
  active,        \* active_chars_, in processing order
  pc,            \* index into active of the entity being processed; 0 between ticks
  destroyed,     \* entities whose destroyed() flag is set
  ticks,
  frame,         \* current_frame() of every animated entity
  time           \* time_in_frame_ of every animated entity

vars == <<chars, active, pc, destroyed, ticks, frame, time>>

-----------------------------------------------------------------------------
(* The points where c->point_collides holds: for an animated entity the  *)
(* pixels of its frame that are not alpha at its time.                    *)
(* An entity is processed at most once a tick, so its time stays within  *)
(* 0..MaxTicks; the body for each frame and time is computed once.        *)
AnimBody ==
  [c \in DOMAIN Anim |-> [f \in Anim[c] |-> [t \in 0..MaxTicks |->
     {x \in Pts : ~Fr!IsAlpha(FrameDef[f], x - AnimX[c], 0, t, FaceRight[c])}]]]

BodyAt(c) == IF c \in DOMAIN Anim THEN AnimBody[c][frame[c]][time[c]] ELSE Body[c]

(* The test both collide overloads apply before the body test: the body is *)
(* solid, or the querying side is the player's and the candidate harms.    *)
BodyCounts(c, playersSide) == c \notin Passthrough \/ (playersSide /\ c \in Harmful)

IsPlayersSide(ex) == ex \in PlayersSide \cup Human

(* The loop of collide(x, y) over chars_ from index i.  NoEnt stands for  *)
(* the null entity_ptr, and also for a null exclude.                      *)
CONSTANT NoEnt

RECURSIVE CollidePointFrom(_, _, _, _, _)
CollidePointFrom(cs, i, x, ex, res) ==
  IF i > Len(cs) THEN res
  ELSE
    LET c   == cs[i]
        ps  == IsPlayersSide(ex)
        bodyHit == c # ex /\ c \notin Human /\ BodyCounts(c, ps) /\ x \in BodyAt(c)
    IN  IF c \in destroyed \/ (ps /\ c \in PlayersSide)
          THEN CollidePointFrom(cs, i + 1, x, ex, res)
        ELSE IF bodyHit /\ c \in Harmful THEN c
        ELSE IF bodyHit THEN c
        ELSE IF c # ex /\ c \notin Human /\ x \in Hit[c] THEN c
        ELSE CollidePointFrom(cs, i + 1, x, ex, res)

(* level::collide(x, y, exclude); the editor early return is not modelled. *)
CollidePoint(x, ex) == CollidePointFrom(chars, 1, x, ex, NoEnt)

(* Variant: the rect overload without the exception for harmful bodies. *)
RECURSIVE CollideRectFromNoHarmful(_, _, _, _)
CollideRectFromNoHarmful(cs, i, r, ex) ==
  IF i > Len(cs) THEN NoEnt
  ELSE
    LET c == cs[i]
    IN  IF c \in destroyed \/ (IsPlayersSide(ex) /\ c \in PlayersSide)
          THEN CollideRectFromNoHarmful(cs, i + 1, r, ex)
        ELSE IF c # ex /\ c \notin Human /\ c \notin Passthrough /\ r \cap BodyAt(c) # {} THEN c
        ELSE IF c # ex /\ c \notin Human /\ r \cap Hit[c] # {} THEN c
        ELSE CollideRectFromNoHarmful(cs, i + 1, r, ex)

(* The loop of collide(rect, exclude): the same filters, rect_collides and *)
(* rects_intersect against the hit rect, no remembered result.             *)
RECURSIVE CollideRectFrom(_, _, _, _)
CollideRectFrom(cs, i, r, ex) ==
  IF i > Len(cs) THEN NoEnt
  ELSE
    LET c  == cs[i]
        ps == IsPlayersSide(ex)
    IN  IF c \in destroyed \/ (ps /\ c \in PlayersSide)
          THEN CollideRectFrom(cs, i + 1, r, ex)
        ELSE IF c # ex /\ c \notin Human /\ BodyCounts(c, ps) /\ r \cap BodyAt(c) # {} THEN c
        ELSE IF c # ex /\ c \notin Human /\ r \cap Hit[c] # {} THEN c
        ELSE CollideRectFrom(cs, i + 1, r, ex)

CollideRect(r, ex) == CollideRectFrom(chars, 1, r, ex)

(* level::board(x, y): the first boardable entity of active_chars_ whose  *)
(* body covers the point.                                                 *)
Board(x) ==
  LET i == SelectInSeq(active, LAMBDA c : c \in Boardable /\ x \in BodyAt(c))
  IN  IF i = 0 THEN NoEnt ELSE active[i]

(* The entity part of level::standable(x, y, ..., exclude): the first     *)
(* entity of active_chars_ other than exclude that is standable there.    *)
StandableEntity(x, ex) ==
  LET i == SelectInSeq(active, LAMBDA c : c # ex /\ x \in Stand[c])
  IN  IF i = 0 THEN NoEnt ELSE active[i]

-----------------------------------------------------------------------------
Init ==
  /\ chars = InitChars
  /\ active = <<>>
  /\ pc = 0
  /\ destroyed = {}
  /\ ticks = 0
  /\ frame \in {fr \in [DOMAIN Anim -> Frames] : \A c \in DOMAIN Anim : fr[c] \in Anim[c]}
  /\ time = [c \in DOMAIN Anim |-> 0]

(* do_processing up to its processing loop: active_chars_ is rebuilt from *)
(* chars_ (which entities, and their drawing order, are left open).        *)
BeginTick ==
  /\ pc = 0
  /\ ticks < MaxTicks
  /\ \E S \in SUBSET ToSet(chars) : \E a \in SetToSeqs(S) : active' = a
  /\ pc' = 1
  /\ ticks' = ticks + 1
  /\ UNCHANGED <<chars, destroyed, frame, time>>

(* Variant: the loop steps past the next entity as well.                 *)
ProcessEntitySkip ==
  /\ pc \in 1..Len(active)
  /\ LET c == active[pc] IN
     \E victims \in {{}} \cup {{d} : d \in Ents \ Human} :
        LET dead == destroyed \cup victims
        IN  /\ destroyed' = dead
            /\ chars' = IF c \in dead /\ c \notin Human THEN Remove(chars, c) ELSE chars
        /\ time' = IF c \in DOMAIN Anim THEN [time EXCEPT ![c] = @ + 1] ELSE time
  /\ pc' = pc + 2
  /\ UNCHANGED <<active, ticks, frame>>

(* One iteration of the processing loop: c->process() may set the         *)
(* destroyed flag of c or of one other non-human entity, and advances c's *)
(* time in its frame; then a destroyed non-human c is erased from chars_  *)
(* (it stays in active_chars_).                                            *)
ProcessEntity ==
  /\ pc \in 1..Len(active)
  /\ LET c == active[pc] IN
     \E victims \in {{}} \cup {{d} : d \in Ents \ Human} :
        LET dead == destroyed \cup victims
        IN  /\ destroyed' = dead
            /\ chars' = IF c \in dead /\ c \notin Human THEN Remove(chars, c) ELSE chars
        /\ time' = IF c \in DOMAIN Anim THEN [time EXCEPT ![c] = @ + 1] ELSE time
  /\ pc' = pc + 1
  /\ UNCHANGED <<active, ticks, frame>>

EndTick ==
  /\ pc # 0 /\ pc > Len(active)
  /\ pc' = 0
  /\ UNCHANGED <<chars, active, destroyed, ticks, frame, time>>

(* Scripts run from process(): level::add_character of a non-human entity *)
(* appends it to chars_; level::remove_character erases it from chars_    *)
(* and leaves active_chars_ alone.                                         *)
AddCharacter(e) ==
  /\ e \notin ToSet(chars) /\ e \notin destroyed
  /\ chars' = Append(chars, e)
  /\ UNCHANGED <<active, pc, destroyed, ticks, frame, time>>

RemoveCharacter(e) ==
  /\ e \in ToSet(chars)
  /\ chars' = Remove(chars, e)
  /\ UNCHANGED <<active, pc, destroyed, ticks, frame, time>>

Next ==
  \/ BeginTick
  \/ ProcessEntity
  \/ EndTick
  \/ \E e \in Spawnable : AddCharacter(e)
  \/ \E e \in Removable : RemoveCharacter(e)

Spec == Init /\ [][Next]_vars

-----------------------------------------------------------------------------
TypeOK ==
  /\ chars \in Seq(Ents) /\ Len(chars) <= Cardinality(Ents)
  /\ active \in Seq(Ents)
  /\ pc \in 0..(Len(active) + 1)
  /\ destroyed \subseteq Ents
  /\ ticks \in 0..MaxTicks
  /\ frame \in [DOMAIN Anim -> Frames]
  /\ time \in [DOMAIN Anim -> 0..MaxTicks]

Queriers == Ents \cup {NoEnt}

(* collide(x, y, exclude) and collide(rect, exclude) over a one-point rect *)
(* give the same entity for every point and every querying entity: the    *)
(* two overloads apply the same filters in the same order.                *)
PointRectAgree ==
  \A x \in Pts, ex \in Queriers : CollidePoint(x, ex) = CollideRect({x}, ex)

(* The frame arithmetic behind the bodies (module Frame), for the frame  *)
(* every animated entity plays, at every time up to FrameMaxTime.  Each    *)
(* frame's checks are computed once, as the frames never change.          *)
FrameChecks ==
  [n \in Frames |->
     LET f == FrameDef[n]
     IN  [strip |-> Fr!StripWalked(f), mask |-> Fr!MaskAgrees(f),
          texture |-> Fr!Tx!AlphaMapExact(f.tex)]]

(* The frame an entity plays never makes frame_number name an image       *)
(* outside its strip, and while it runs it shows the image of the strip   *)
(* the time reaches, through the truncation and both fold-back rules.     *)
FrameFollowsStrip == \A c \in DOMAIN Anim : FrameChecks[frame[c]].strip

(* For the frame an entity plays, is_alpha reads a cell inside alpha_,    *)
(* and it is the cell build_alpha wrote for the same pixel of the image   *)
(* frame_number shows, at both facings.                                    *)
MaskMatchesShownImage == \A c \in DOMAIN Anim : FrameChecks[frame[c]].mask

(* For the sheet of the frame an entity plays, texture::initialize's      *)
(* alpha_map_ marks exactly the pixels of the image that have a key       *)
(* colour or alpha 0: the power-of-two padding never leaks into it.        *)
TextureAlphaExact == \A c \in DOMAIN Anim : FrameChecks[frame[c]].texture
=============================================================================
