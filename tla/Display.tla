------------------------------ MODULE Display ------------------------------
(***************************************************************************)
(* The surfaces of a display channel, its primary and its mark, the video  *)
(* streams drawn on them and what the application has been told            *)
(* (channel-display.c).                                                    *)
(*                                                                         *)
(* A handler runs in the coroutine of the channel and leaves it to the     *)
(* main loop wherever it emits a signal: timers of video frames and the    *)
(* one that takes the mark away run in between.  Surfaces are objects that *)
(* are freed: streams and the application point to them.                   *)
(*                                                                         *)
(* The server is external: it creates what does not exist, and destroys    *)
(* the streams of a surface before the surface.                            *)
(***************************************************************************)
EXTENDS Integers, FiniteSets

CONSTANTS
  Streams,    \* stream ids
  Sizes,      \* sizes of a primary surface
  MaxObjects, \* bound: surfaces created
  Secondary   \* channel id # 0: a mark outlives its surface for a second

DisplayAssumption == MaxObjects \in Nat /\ Secondary \in BOOLEAN

VARIABLES
  created,  \* display_surfaces allocated so far
  live,     \* ... with a canvas and data
  size,     \* object -> its size
  table,    \* c->surfaces: id -> object
  primary,  \* c->primary
  mark, mark_timer, \* c->mark, mark_false_event_id
  streams,  \* id -> the surface that the stream points to
  pc, held, \* where the handler is, the surface that it works on
  legacy,   \* the server speaks MODE and not SURFACE_CREATE
  known,    \* server: surfaces that exist on this connection
  shown,    \* application: the surface whose data it was given
  marked    \* the server has marked the primary that there is

surfaces == <<created, live, size, table, primary>>
marks == <<mark, mark_timer>>
vars == <<surfaces, marks, streams, pc, held, legacy, known, shown, marked>>

None == 0
Objects == 1 .. MaxObjects
Primary == 0       \* the primary has the id 0, the other surface 1
Ids == {0, 1}

TypeOK ==
  /\ created \in 0 .. MaxObjects /\ live \subseteq Objects
  /\ size \in [Objects -> Sizes]
  /\ table \in [Ids -> Objects \union {None}] /\ primary \in Objects \union {None}
  /\ mark \in BOOLEAN /\ mark_timer \in BOOLEAN
  /\ streams \in [Streams -> Objects \union {None}]
  /\ pc \in {"ready", "replace", "created", "destroyed", "drawing"}
  /\ held \in Objects \union {None}
  /\ legacy \in BOOLEAN /\ known \subseteq Ids /\ shown \in Objects \union {None}
  /\ marked \in BOOLEAN

Init ==
  /\ created = 0 /\ live = {} /\ size \in [Objects -> {CHOOSE s \in Sizes : TRUE}]
  /\ table = [i \in Ids |-> None] /\ primary = None
  /\ mark = FALSE /\ mark_timer = FALSE
  /\ streams = [s \in Streams |-> None]
  /\ pc = "ready" /\ held = None
  /\ legacy \in BOOLEAN /\ known = {} /\ shown = None /\ marked = FALSE

-----------------------------------------------------------------------------
find_surface(id) == IF id = Primary /\ primary # None THEN primary ELSE table[id]

(* g_hash_table_remove: destroy_surface frees what the table held.          *)
Forget(ids) ==
  /\ table' = [i \in Ids |-> IF i \in ids THEN None ELSE table[i]]
  /\ live' = live \ {table[i] : i \in ids}

(* the rest of create_canvas: the canvas, the table and the primary         *)
Insert(o, id) ==
  /\ live' = (live \ {table[id]}) \union {o}
  /\ table' = [table EXCEPT ![id] = o]

(* create_canvas for a primary: one of the same size is used again, another *)
(* one goes after the application has been told.                            *)
CreatePrimary(s) ==
  /\ created < MaxObjects /\ created' = created + 1
  /\ size' = [size EXCEPT ![created + 1] = s]
  /\ known' = known \union {Primary}
  /\ IF primary # None /\ size[primary] = s
       THEN /\ pc' = "created"
            /\ UNCHANGED <<live, table, primary, held, shown>>
       ELSE IF primary # None
         THEN /\ pc' = "replace" /\ held' = created + 1 /\ shown' = None
              /\ UNCHANGED <<live, table, primary>>
         ELSE /\ Insert(created + 1, Primary) /\ primary' = created + 1
              /\ pc' = "created" /\ shown' = created + 1 /\ UNCHANGED held

Replace ==
  /\ pc = "replace" /\ Insert(held, Primary) /\ primary' = held
  /\ shown' = held /\ held' = None /\ pc' = "created"
  /\ UNCHANGED <<created, size, marks, streams, legacy, known, marked>>

Idle(id) == \A s \in Streams : streams[s] # None => streams[s] # table[id]

(* display_handle_mode *)
Mode(s) ==
  /\ pc = "ready" /\ legacy /\ Idle(Primary)
  /\ CreatePrimary(s) /\ marked' = FALSE
  /\ UNCHANGED <<marks, streams, legacy>>

(* display_handle_surface_create: the primary ...                           *)
SurfaceCreatePrimary(s) ==
  /\ pc = "ready" /\ ~legacy /\ Primary \notin known
  /\ CreatePrimary(s)
  /\ UNCHANGED <<marks, streams, legacy, marked>>

(* ... back from the signal, the timer of the mark goes; and one of the     *)
(* others, which has no signal.                                             *)
Kept == mark_timer
Removed == legacy /\ mark_timer
AfterCreate == Removed
Created ==
  /\ pc = "created" /\ pc' = "ready"
  /\ mark_timer' = AfterCreate
  /\ UNCHANGED <<surfaces, mark, streams, held, legacy, known, shown, marked>>

SurfaceCreate ==
  /\ pc = "ready" /\ ~legacy /\ 1 \notin known /\ created < MaxObjects
  /\ created' = created + 1 /\ Insert(created', 1)
  /\ known' = known \union {1}
  /\ UNCHANGED <<size, primary, marks, streams, pc, held, legacy, shown, marked>>

(* display_handle_surface_destroy: the primary leaves the table when the    *)
(* application has been told.                                               *)
SurfaceDestroy(id) ==
  /\ pc = "ready" /\ id \in known /\ ~legacy /\ Idle(id)
  /\ known' = known \ {id}
  /\ IF id = Primary
       THEN /\ mark_timer' = (mark_timer \/ Secondary)
            /\ primary' = None /\ pc' = "destroyed" /\ UNCHANGED <<table, live>>
            /\ marked' = FALSE
       ELSE Forget({id}) /\ UNCHANGED <<mark_timer, primary, pc, marked>>
  /\ UNCHANGED <<created, size, mark, streams, held, legacy, shown>>

Destroyed ==
  /\ pc = "destroyed" /\ pc' = "ready"
  /\ shown' = None /\ Forget({Primary})
  /\ UNCHANGED <<created, size, primary, marks, streams, held, legacy, known, marked>>

(* display_handle_mark *)
Mark ==
  /\ pc = "ready" /\ Primary \in known
  /\ mark' = TRUE /\ marked' = TRUE
  /\ UNCHANGED <<surfaces, mark_timer, streams, pc, held, legacy, known, shown>>

(* display_handle_reset *)
ResetDisplay ==
  /\ pc = "ready" /\ mark' = FALSE /\ marked' = FALSE
  /\ UNCHANGED <<surfaces, mark_timer, streams, pc, held, legacy, known, shown>>

(* display_mark_false: main loop *)
MarkFalse ==
  /\ mark_timer /\ mark_timer' = FALSE /\ mark' = FALSE
  /\ UNCHANGED <<surfaces, streams, pc, held, legacy, known, shown, marked>>

(* DRAW and display_handle_copy_bits: a coroutine that draws may have to    *)
(* wait for an image, and it emits the area that has changed.               *)
Draw(id) ==
  /\ pc = "ready" /\ id \in known /\ pc' = "drawing" /\ held' = find_surface(id)
  /\ UNCHANGED <<surfaces, marks, streams, legacy, known, shown, marked>>
Drawn ==
  /\ pc = "drawing" /\ pc' = "ready" /\ held' = None
  /\ UNCHANGED <<surfaces, marks, streams, legacy, known, shown, marked>>

-----------------------------------------------------------------------------
(* display_handle_stream_create: without a decoder there is no stream.      *)
StreamCreate(s, id) ==
  /\ pc = "ready" /\ id \in known /\ streams[s] = None
  /\ streams' \in {[streams EXCEPT ![s] = find_surface(id)], streams}
  /\ UNCHANGED <<surfaces, marks, pc, held, legacy, known, shown, marked>>

(* display_handle_stream_destroy, also when the decoder fails               *)
StreamDestroy(s) ==
  /\ pc = "ready" /\ streams[s] # None
  /\ streams' = [streams EXCEPT ![s] = None]
  /\ UNCHANGED <<surfaces, marks, pc, held, legacy, known, shown, marked>>

clear_streams == streams' = [s \in Streams |-> None]
keep_streams == UNCHANGED streams
clear_on_reset == clear_streams

StreamDestroyAll ==
  /\ pc = "ready" /\ clear_streams
  /\ UNCHANGED <<surfaces, marks, pc, held, legacy, known, shown, marked>>

(* spice_display_channel_reset, when the coroutine of the channel ends or   *)
(* changes host: the primary stays.                                         *)
Others == {i \in Ids : table[i] # None /\ i # Primary}
ChannelReset ==
  /\ pc = "ready" /\ clear_on_reset /\ Forget(Others)
  /\ known' = {} /\ marked' = FALSE
  /\ UNCHANGED <<created, size, primary, marks, pc, held, legacy, shown>>

Handlers ==
  \/ \E s \in Sizes : Mode(s) \/ SurfaceCreatePrimary(s)
  \/ \E id \in Ids : SurfaceDestroy(id) \/ Draw(id)
  \/ SurfaceCreate \/ Mark \/ ResetDisplay
  \/ \E s \in Streams : StreamDestroy(s) \/ \E id \in Ids : StreamCreate(s, id)
  \/ StreamDestroyAll \/ ChannelReset
Resumes == Replace \/ Created \/ Destroyed \/ Drawn

Next == Handlers \/ Resumes \/ MarkFalse
Spec == Init /\ [][Next]_vars

-----------------------------------------------------------------------------
(* A frame of a video is drawn from a timer, whatever the coroutine does:   *)
(* the surface of a stream is always there (stream_display_frame), and so   *)
(* is that of a drawing that was interrupted.                               *)
StreamsOnLive ==
  /\ \A s \in Streams : streams[s] \in live \union {None}
  /\ pc = "drawing" => held \in live

(* The application draws from the data of the primary whenever it likes:    *)
(* it is told before the data goes.                                         *)
ShownIsLive == shown \in live \union {None}

(* The pointer to the primary and the table agree.                          *)
PrimaryExact == primary # None => primary \in live /\ table[Primary] = primary

(* A primary that the server has marked is marked until it is unmarked or   *)
(* replaced: the timer of the surface before never takes its mark.          *)
MarkKept == marked => mark

(* The assertion of create_canvas (channel-display.c:952)                   *)
NoPrimaryYet == pc = "replace" => primary = None
=============================================================================
