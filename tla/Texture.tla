------------------------------ MODULE Texture ------------------------------
(***************************************************************************)
(* OpenGL texture ids in texture.cpp.  texture::get_id() gives a texture's *)
(* shared ID object a GL id on first use: get_texture_id() takes one from  *)
(* avail_textures or from texture_buf (refilled by glGenTextures on the    *)
(* graphics thread only); on the graphics thread the image is uploaded at  *)
(* once (ID::build_id), on a worker thread the ID is queued in            *)
(* id_to_build_ for build_textures_from_worker_threads.  None of these     *)
(* globals is locked except id_to_build_.  Each thread runs get_id as the  *)
(* separate reads and writes of the code; an ID whose last texture dies    *)
(* is destroyed on the graphics thread (ID::destroy).                      *)
(***************************************************************************)
EXTENDS Integers, Sequences, FiniteSets, SequencesExt

CONSTANTS
  Threads,       \* threads calling get_id
  Main,          \* graphics_thread_id
  Tex,           \* ID objects (one per texture image)
  Requests,      \* [Threads -> SUBSET Tex]: the IDs each thread asks for
  BufSize,       \* TextureBufSize
  MaxGen         \* bound on glGenTextures calls

ASSUME Main \in Threads

VARIABLES
  glid,          \* glid[t]: ID::id, NoId while not init()
  surf,          \* surf[t]: ID::s still holds the image
  uploads,       \* <<t, id>> pairs build_id uploaded
  avail,         \* avail_textures
  buf, bufPos,   \* texture_buf, texture_buf_pos
  gens,          \* glGenTextures calls so far
  toBuild,       \* id_to_build_
  dead,          \* destroyed IDs
  todo,          \* todo[th]: IDs th has still to ask for
  pc, cur, r, lp,\* per thread: step, ID, id being taken, buffer index read
  fatal          \* build_id ran on a released surface (null dereference)

vars == <<glid, surf, uploads, avail, buf, bufPos, gens, toBuild, dead, todo,
          pc, cur, r, lp, fatal>>

NoId == -1     \* GLuint(-1)
NoTex == "none"

GLIds == 0..(MaxGen * BufSize - 1)

-----------------------------------------------------------------------------
Init ==
  /\ glid = [t \in Tex |-> NoId]
  /\ surf = [t \in Tex |-> TRUE]
  /\ uploads = {}
  /\ avail = <<>>
  /\ buf = [i \in 0..(BufSize - 1) |-> NoId]
  /\ bufPos = BufSize
  /\ gens = 0
  /\ toBuild = <<>>
  /\ dead = {}
  /\ todo = Requests
  /\ pc = [th \in Threads |-> "idle"]
  /\ cur = [th \in Threads |-> NoTex]
  /\ r = [th \in Threads |-> NoId]
  /\ lp = [th \in Threads |-> 0]
  /\ fatal = FALSE

Step(th, from, to) == pc[th] = from /\ pc' = [pc EXCEPT ![th] = to]

(* ID::build_id: upload the surface and release it (compiling_tiles off). *)
BuildId(t) ==
  /\ fatal' = (fatal \/ ~surf[t])
  /\ uploads' = uploads \cup {<<t, glid[t]>>}
  /\ surf' = [surf EXCEPT ![t] = FALSE]

(* get_id entry and the init() test: an initialised ID returns at once.  *)
GetId(th) ==
  /\ pc[th] = "idle"
  /\ \E t \in todo[th] \ dead :
       /\ todo' = [todo EXCEPT ![th] = @ \ {t}]
       /\ cur' = [cur EXCEPT ![th] = t]
       /\ pc' = [pc EXCEPT ![th] = IF glid[t] # NoId THEN "idle" ELSE "avail"]
  /\ UNCHANGED <<glid, surf, uploads, avail, buf, bufPos, gens, toBuild, dead, r, lp, fatal>>

(* get_texture_id: a non-empty avail_textures gives its back element.    *)
ReadAvail(th) ==
  /\ pc[th] = "avail"
  /\ IF avail # <<>>
       THEN pc' = [pc EXCEPT ![th] = "pop"] /\ r' = [r EXCEPT ![th] = Last(avail)]
       ELSE pc' = [pc EXCEPT ![th] = "buf"] /\ UNCHANGED r
  /\ UNCHANGED <<glid, surf, uploads, avail, buf, bufPos, gens, toBuild, dead, todo, cur, lp, fatal>>

(* avail_textures.pop_back(); on an empty vector this is undefined, taken *)
(* here as a crash.                                                        *)
PopAvail(th) ==
  /\ Step(th, "pop", "set")
  /\ IF avail # <<>> THEN avail' = Front(avail) /\ UNCHANGED fatal
     ELSE fatal' = TRUE /\ UNCHANGED avail
  /\ UNCHANGED <<glid, surf, uploads, buf, bufPos, gens, toBuild, dead, todo, cur, r, lp>>

(* The buffer: when it is used up a worker throws worker_thread_error and *)
(* the graphics thread refills it; then texture_buf[texture_buf_pos] is   *)
(* read.                                                                   *)
ReadBuf(th) ==
  /\ pc[th] = "buf"
  /\ IF bufPos = BufSize /\ th # Main
       THEN /\ pc' = [pc EXCEPT ![th] = "idle"]
            /\ UNCHANGED <<buf, bufPos, gens, r, lp>>
       ELSE LET refill == bufPos = BufSize
                b  == IF refill THEN [i \in 0..(BufSize - 1) |-> gens * BufSize + i] ELSE buf
                p  == IF refill THEN 0 ELSE bufPos
            IN  /\ ~refill \/ gens < MaxGen
                /\ buf' = b /\ bufPos' = p
                /\ gens' = IF refill THEN gens + 1 ELSE gens
                /\ r' = [r EXCEPT ![th] = b[p]]
                /\ lp' = [lp EXCEPT ![th] = p]
                /\ pc' = [pc EXCEPT ![th] = "inc"]
  /\ UNCHANGED <<glid, surf, uploads, avail, toBuild, dead, todo, cur, fatal>>

(* texture_buf_pos++ written back from the value read.                   *)
IncBuf(th) ==
  /\ Step(th, "inc", "set")
  /\ bufPos' = lp[th] + 1
  /\ UNCHANGED <<glid, surf, uploads, avail, buf, gens, toBuild, dead, todo, cur, r, lp, fatal>>

(* id_->id = get_texture_id().                                            *)
SetId(th) ==
  /\ Step(th, "set", "build")
  /\ glid' = [glid EXCEPT ![cur[th]] = r[th]]
  /\ UNCHANGED <<surf, uploads, avail, buf, bufPos, gens, toBuild, dead, todo, cur, r, lp, fatal>>

(* A worker queues the ID under id_to_build_mutex; the graphics thread    *)
(* builds it at once.                                                      *)
Build(th) ==
  /\ Step(th, "build", "idle")
  /\ IF th # Main
       THEN toBuild' = Append(toBuild, cur[th]) /\ UNCHANGED <<surf, uploads, fatal>>
       ELSE BuildId(cur[th]) /\ UNCHANGED toBuild
  /\ UNCHANGED <<glid, avail, buf, bufPos, gens, dead, todo, cur, r, lp>>

(* build_textures_from_worker_threads on the graphics thread.             *)
RECURSIVE BuildAll(_, _, _, _)
BuildAll(q, sf, up, ft) ==
  IF q = <<>> THEN [surf |-> sf, uploads |-> up, fatal |-> ft]
  ELSE LET t == Head(q)
       IN  BuildAll(Tail(q), [sf EXCEPT ![t] = FALSE], up \cup {<<t, glid[t]>>}, ft \/ ~sf[t])

BuildFromWorkers ==
  /\ pc[Main] = "idle" /\ toBuild # <<>>
  /\ LET res == BuildAll(toBuild, surf, uploads, fatal)
     IN  surf' = res.surf /\ uploads' = res.uploads /\ fatal' = res.fatal
  /\ toBuild' = <<>>
  /\ UNCHANGED <<glid, avail, buf, bufPos, gens, dead, todo, pc, cur, r, lp>>

(* ID::~ID on the graphics thread once no texture and no queue holds it:  *)
(* an initialised id goes back to avail_textures.                          *)
Destroy(t) ==
  /\ pc[Main] = "idle"
  /\ t \notin dead /\ glid[t] # NoId
  /\ \A th \in Threads : cur[th] # t \/ pc[th] = "idle"
  /\ t \notin ToSet(toBuild)
  /\ avail' = Append(avail, glid[t])
  /\ glid' = [glid EXCEPT ![t] = NoId]
  /\ surf' = [surf EXCEPT ![t] = FALSE]
  /\ dead' = dead \cup {t}
  /\ UNCHANGED <<uploads, buf, bufPos, gens, toBuild, todo, pc, cur, r, lp, fatal>>

Next ==
  /\ ~fatal
  /\ \/ \E th \in Threads :
          GetId(th) \/ ReadAvail(th) \/ PopAvail(th) \/ ReadBuf(th) \/
          IncBuf(th) \/ SetId(th) \/ Build(th)
     \/ BuildFromWorkers
     \/ \E t \in Tex : Destroy(t)

Spec == Init /\ [][Next]_vars

-----------------------------------------------------------------------------
TypeOK ==
  /\ glid \in [Tex -> GLIds \cup {NoId}]
  /\ surf \in [Tex -> BOOLEAN]
  /\ avail \in Seq(GLIds)
  /\ bufPos \in 0..BufSize
  /\ pc \in [Threads -> {"idle", "avail", "pop", "buf", "inc", "set", "build"}]

(* Two live textures never share a GL id, and no live texture's id is     *)
(* also waiting in avail_textures to be handed out again.                  *)
DistinctGlIds ==
  \A t, u \in Tex \ dead :
     /\ t # u /\ glid[t] # NoId => glid[t] # glid[u]
     /\ glid[t] # NoId => glid[t] \notin ToSet(avail)
=============================================================================
