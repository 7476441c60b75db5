-------------------------- MODULE MCMedia_proofs --------------------------
(***************************************************************************)
(* Proofs about the machines of MCMedia, for every value of their          *)
(* constants.  Each machine has an inductive invariant, an "Inv" of its    *)
(* own, and a lemma that a step of MCNext is a step of the machine or      *)
(* leaves it alone.                                                        *)
(***************************************************************************)
EXTENDS MCMedia, SequenceTheorems, WellFoundedInduction, TLAPS

-----------------------------------------------------------------------------
(* Display *)

DisplayTypes ==
  /\ created \in Nat /\ live \subseteq Nat \ {0}
  /\ table \in [D!Ids -> Nat] /\ table[0] <= created /\ table[1] <= created
  /\ streams \in [Streams -> Nat] /\ held \in Nat /\ held <= created
  /\ known \subseteq D!Ids
DisplayPhases ==
  /\ mark \in BOOLEAN /\ mark_timer \in BOOLEAN /\ marked \in BOOLEAN /\ legacy \in BOOLEAN
  /\ pc \in {"ready", "replace", "created", "destroyed", "drawing"}

\* What lives is what the table holds, each surface once.
DisplayTable ==
  /\ live = {table[0], table[1]} \ {0}
  /\ table[0] # 0 => table[0] # table[1]
  /\ shown \in {0, table[0]} /\ primary \in {0, table[0]}
  /\ 0 \in known => primary # 0
  /\ 1 \in known => table[1] # 0

\* A surface that the server does not know, or that is about to be replaced, has no
\* stream; a surface that is about to be inserted is in no other place.
DisplayStreams ==
  /\ \A s \in Streams : streams[s] \in live \cup {0}
  /\ \A i \in D!Ids : i \notin known => D!Idle(i)
  /\ pc = "replace" => /\ D!Idle(0) /\ held = created /\ held # 0
                       /\ \A i \in D!Ids : table[i] # held
  /\ pc = "destroyed" => 0 \notin known /\ primary = 0
  /\ pc = "drawing" => held \in live

\* While the timer of a mark runs, the primary is unmarked: it is gone, or being made.
DisplayMark ==
  /\ marked = TRUE => mark = TRUE
  /\ mark_timer = TRUE => /\ legacy = FALSE /\ marked = FALSE
                          /\ 0 \in known => pc \in {"replace", "created"}

DisplayInv == DisplayTypes /\ DisplayPhases /\ DisplayTable /\ DisplayStreams /\ DisplayMark

LEMMA InitDisplayInv == D!Init => DisplayInv
<1> SUFFICES ASSUME D!Init PROVE DisplayInv
    OBVIOUS
<1> USE DEF D!Ids, D!None
<1>1. /\ created = 0 /\ live = {} /\ table = [i \in {0,1} |-> 0] /\ primary = 0
      /\ mark = FALSE /\ mark_timer = FALSE
      /\ streams = [s \in Streams |-> 0]
      /\ pc = "ready" /\ held = 0
      /\ legacy \in BOOLEAN /\ known = {} /\ shown = 0 /\ marked = FALSE
      BY DEF D!Init
<1> HIDE DEF D!Init
<1>2. DisplayTypes
      BY <1>1 DEF DisplayTypes
<1>3. DisplayPhases
      BY <1>1 DEF DisplayPhases
<1>4. DisplayTable
      BY <1>1 DEF DisplayTable
<1>5. DisplayStreams
      BY <1>1 DEF DisplayStreams, D!Idle
<1>6. DisplayMark
      BY <1>1 DEF DisplayMark
<1> QED BY <1>2, <1>3, <1>4, <1>5, <1>6 DEF DisplayInv

\* A surface is made: nothing refers to it yet, nor does a stream to the one it replaces.
LEMMA CreatePrimaryKeeps ==
  ASSUME DisplayInv, pc = "ready", NEW s, D!CreatePrimary(s),
         D!Idle(0), legacy \/ 0 \notin known,
         marked' \in {marked, FALSE}, UNCHANGED <<mark, mark_timer, streams, legacy>>
  PROVE  DisplayInv'
<1> USE DEF D!Ids, D!None, D!Primary
<1>1. DisplayTypes /\ DisplayPhases /\ DisplayTable /\ DisplayStreams /\ DisplayMark
      BY DEF DisplayInv
<1>2. /\ created' = created + 1 /\ known' = known \cup {0}
      /\ \A i \in D!Ids : D!Idle(i)' <=> \A t \in Streams : streams[t] # 0 => streams[t] # table'[i]
      BY DEF D!CreatePrimary, D!Idle
<1>3. CASE primary # 0 /\ size[primary] = s
  <2>1. UNCHANGED <<live, table, primary, held, shown>> /\ pc' = "created"
        BY <1>3 DEF D!CreatePrimary
  <2>2. DisplayTypes'
        BY <1>1, <1>2, <1>3, <2>1 DEF DisplayTypes, DisplayTable
  <2>3. DisplayPhases'
        BY <1>1, <1>2, <1>3, <2>1 DEF DisplayPhases, DisplayTable
  <2>4. DisplayTable'
        BY <1>1, <1>2, <1>3, <2>1 DEF DisplayTypes, DisplayTable
  <2>5. DisplayStreams'
        BY <1>1, <1>2, <1>3, <2>1 DEF DisplayTypes, DisplayStreams, DisplayMark, D!Idle
  <2>6. DisplayMark'
        BY <1>1, <1>2, <1>3, <2>1 DEF DisplayTypes, DisplayStreams, DisplayMark, D!Idle
  <2> QED BY <2>2, <2>3, <2>4, <2>5, <2>6 DEF DisplayInv
<1>4. CASE primary # 0 /\ size[primary] # s
  <2>1. /\ UNCHANGED <<live, table, primary>> /\ pc' = "replace" /\ held' = created + 1
        /\ shown' = 0
        BY <1>4 DEF D!CreatePrimary
  <2>2. DisplayTypes'
        BY <1>1, <1>2, <1>4, <2>1 DEF DisplayTypes, DisplayTable
  <2>3. DisplayPhases'
        BY <1>1, <1>2, <1>4, <2>1 DEF DisplayPhases, DisplayTable
  <2>4. DisplayTable'
        BY <1>1, <1>2, <1>4, <2>1 DEF DisplayTypes, DisplayTable
  <2>5. DisplayStreams'
        BY <1>1, <1>2, <1>4, <2>1 DEF DisplayTypes, DisplayStreams, DisplayMark, D!Idle
  <2>6. DisplayMark'
        BY <1>1, <1>2, <1>4, <2>1 DEF DisplayTypes, DisplayStreams, DisplayMark, D!Idle
  <2> QED BY <2>2, <2>3, <2>4, <2>5, <2>6 DEF DisplayInv
<1>5. CASE primary = 0
  <2>1. /\ live' = (live \ {table[0]}) \cup {created + 1}
        /\ table' = [table EXCEPT ![0] = created + 1]
        /\ primary' = created + 1 /\ pc' = "created" /\ shown' = created + 1 /\ held' = held
        BY <1>5 DEF D!CreatePrimary, D!Insert
  <2>2. DisplayTypes'
        BY <1>1, <1>2, <1>5, <2>1 DEF DisplayTypes, DisplayTable
  <2>3. DisplayPhases'
        BY <1>1, <1>2, <1>5, <2>1 DEF DisplayPhases, DisplayTable
  <2>4. DisplayTable'
        BY <1>1, <1>2, <1>5, <2>1 DEF DisplayTypes, DisplayTable
  <2>5. \A t \in Streams : streams[t] # created + 1 \/ streams[t] = 0
        BY <1>1 DEF DisplayTypes, DisplayTable, DisplayStreams
  <2>6. DisplayStreams'
        BY <1>1, <1>2, <1>5, <2>1, <2>5
           DEF DisplayTypes, DisplayTable, DisplayStreams, DisplayMark, D!Idle
  <2>7. DisplayMark'
        BY <1>1, <1>2, <1>5, <2>1, <2>5
           DEF DisplayTypes, DisplayTable, DisplayStreams, DisplayMark, D!Idle
  <2> QED BY <2>2, <2>3, <2>4, <2>6, <2>7 DEF DisplayInv
<1> QED BY <1>3, <1>4, <1>5

LEMMA DisplayInvStep == DisplayInv /\ [D!Next]_(D!vars) => DisplayInv'
<1> SUFFICES ASSUME DisplayInv, [D!Next]_(D!vars) PROVE DisplayInv'
    OBVIOUS
<1> USE DEF D!Ids, D!None, D!Primary
<1>1. DisplayTypes /\ DisplayPhases /\ DisplayTable /\ DisplayStreams /\ DisplayMark
      BY DEF DisplayInv
<1>2. CASE UNCHANGED D!vars
  <2>1. UNCHANGED <<created, live, table, primary, mark, mark_timer, streams, pc, held,
                    legacy, known, shown, marked>>
        BY <1>2 DEF D!vars, D!surfaces, D!marks
  <2>2. DisplayTypes' /\ DisplayTable'
        BY <1>1, <2>1 DEF DisplayTypes, DisplayTable
  <2>3. DisplayPhases' /\ DisplayMark'
        BY <1>1, <2>1 DEF DisplayPhases, DisplayMark
  <2>4. DisplayStreams'
        BY <1>1, <2>1 DEF DisplayStreams, D!Idle
  <2> QED BY <2>2, <2>3, <2>4 DEF DisplayInv
<1>3. ASSUME NEW s \in Sizes, D!Mode(s) \/ D!SurfaceCreatePrimary(s) PROVE DisplayInv'
  <2>1. /\ pc = "ready" /\ D!CreatePrimary(s) /\ D!Idle(0) /\ (legacy \/ 0 \notin known)
        /\ marked' \in {marked, FALSE} /\ UNCHANGED <<mark, mark_timer, streams, legacy>>
        BY <1>1, <1>3 DEF D!Mode, D!SurfaceCreatePrimary, D!marks, DisplayStreams
  <2> QED BY <2>1, CreatePrimaryKeeps
<1>4. CASE D!Replace
  <2> USE <1>1, <1>4 DEF D!Replace, D!Insert, D!marks
  <2>1. DisplayTypes'
        BY DEF DisplayTypes, DisplayTable, DisplayStreams
  <2>2. DisplayPhases'
        BY DEF DisplayPhases, DisplayTable, DisplayStreams
  <2>3. DisplayTable'
        BY DEF DisplayTypes, DisplayTable, DisplayStreams
  <2>4. DisplayStreams'
        BY DEF DisplayTypes, DisplayTable, DisplayStreams, DisplayMark, D!Idle
  <2>5. DisplayMark'
        BY DEF DisplayTypes, DisplayTable, DisplayStreams, DisplayMark, D!Idle
  <2> QED BY <2>1, <2>2, <2>3, <2>4, <2>5 DEF DisplayInv
<1>5. CASE D!Created \/ D!Mark \/ D!ResetDisplay \/ D!MarkFalse \/ D!Drawn
  <2>1. UNCHANGED <<created, live, table, primary, streams, known, shown, legacy>>
        BY <1>5 DEF D!Created, D!Mark, D!ResetDisplay, D!MarkFalse, D!Drawn, D!surfaces
  <2>2. /\ pc' \in {"ready", pc} /\ held' \in {0, held} /\ (pc' = pc => held' = held)
        BY <1>1, <1>5
           DEF D!Created, D!Mark, D!ResetDisplay, D!MarkFalse, D!Drawn, D!marks, DisplayPhases
  <2>3. DisplayTypes'
        BY <1>1, <2>1, <2>2 DEF DisplayTypes
  <2>4. DisplayTable'
        BY <1>1, <2>1 DEF DisplayTable
  <2>5. DisplayPhases'
    <3>1. mark' \in BOOLEAN /\ mark_timer' \in BOOLEAN /\ marked' \in BOOLEAN
          BY <1>1, <1>5
             DEF D!Created, D!Mark, D!ResetDisplay, D!MarkFalse, D!Drawn, D!AfterCreate,
                 D!Removed, D!marks, DisplayPhases
    <3> QED BY <1>1, <2>1, <2>2, <3>1 DEF DisplayPhases
  <2>6. DisplayStreams'
        BY <1>1, <2>1, <2>2 DEF DisplayStreams, D!Idle
  <2>7. DisplayMark'
        BY <1>1, <1>5, <2>1
           DEF D!Created, D!Mark, D!ResetDisplay, D!MarkFalse, D!Drawn, D!AfterCreate,
               D!Removed, D!marks, DisplayTypes, DisplayMark
  <2> QED BY <2>3, <2>4, <2>5, <2>6, <2>7 DEF DisplayInv
<1>6. CASE D!SurfaceCreate
  <2> USE <1>1, <1>6 DEF D!SurfaceCreate, D!Insert, D!marks
  <2>1. DisplayTypes'
        BY DEF DisplayTypes, DisplayTable
  <2>2. DisplayPhases'
        BY DEF DisplayPhases, DisplayTable
  <2>3. DisplayTable'
        BY DEF DisplayTypes, DisplayTable
  <2>4. DisplayStreams'
        BY DEF DisplayTypes, DisplayTable, DisplayStreams, DisplayMark, D!Idle
  <2>5. DisplayMark'
        BY DEF DisplayTypes, DisplayTable, DisplayStreams, DisplayMark, D!Idle
  <2> QED BY <2>1, <2>2, <2>3, <2>4, <2>5 DEF DisplayInv
<1>7. ASSUME NEW id \in D!Ids, D!SurfaceDestroy(id) PROVE DisplayInv'
  <2> USE <1>1, <1>7 DEF D!SurfaceDestroy, D!Forget
  <2>1. DisplayTypes'
        BY DEF DisplayTypes, DisplayTable
  <2>2. DisplayPhases'
        BY DEF DisplayPhases, DisplayTable
  <2>3. DisplayTable'
        BY DEF DisplayTypes, DisplayTable
  <2>4. DisplayStreams'
        BY DEF DisplayTypes, DisplayTable, DisplayStreams, D!Idle
  <2>5. DisplayMark'
        BY DEF DisplayTypes, DisplayTable, DisplayMark
  <2> QED BY <2>1, <2>2, <2>3, <2>4, <2>5 DEF DisplayInv
<1>8. CASE D!Destroyed
  <2> USE <1>1, <1>8 DEF D!Destroyed, D!Forget, D!marks
  <2>1. DisplayTypes'
        BY DEF DisplayTypes, DisplayTable, DisplayStreams
  <2>2. DisplayPhases'
        BY DEF DisplayPhases, DisplayTable, DisplayStreams
  <2>3. DisplayTable'
        BY DEF DisplayTypes, DisplayTable, DisplayStreams
  <2>4. DisplayStreams'
        BY DEF DisplayTypes, DisplayTable, DisplayStreams, DisplayMark, D!Idle
  <2>5. DisplayMark'
        BY DEF DisplayTypes, DisplayTable, DisplayStreams, DisplayMark, D!Idle
  <2> QED BY <2>1, <2>2, <2>3, <2>4, <2>5 DEF DisplayInv
<1>9. ASSUME NEW id \in D!Ids, D!Draw(id) PROVE DisplayInv'
  <2> USE <1>1, <1>9 DEF D!Draw, D!find_surface, D!surfaces, D!marks
  <2>1. DisplayTypes'
        BY DEF DisplayTypes, DisplayTable
  <2>2. DisplayPhases'
        BY DEF DisplayPhases, DisplayTable
  <2>3. DisplayTable'
        BY DEF DisplayTypes, DisplayTable
  <2>4. DisplayStreams'
        BY DEF DisplayTypes, DisplayTable, DisplayStreams, DisplayMark, D!Idle
  <2>5. DisplayMark'
        BY DEF DisplayTypes, DisplayTable, DisplayStreams, DisplayMark, D!Idle
  <2> QED BY <2>1, <2>2, <2>3, <2>4, <2>5 DEF DisplayInv
<1>10. CASE \/ \E s \in Streams : D!StreamDestroy(s) \/ \E id \in D!Ids : D!StreamCreate(s, id)
            \/ D!StreamDestroyAll
  <2>1. /\ UNCHANGED <<created, live, table, primary, known, shown, legacy, mark, mark_timer,
                       marked, pc, held>>
        /\ pc = "ready" /\ streams' \in [Streams -> 0 .. created]
        /\ \A t \in Streams : \/ streams'[t] \in {0, streams[t]}
                              \/ \E id \in known : streams'[t] = table[id] /\ table[id] # 0
        BY <1>1, <1>10
           DEF D!StreamDestroy, D!StreamCreate, D!StreamDestroyAll, D!clear_streams,
               D!find_surface, D!surfaces, D!marks, DisplayTypes, DisplayTable, DisplayStreams
  <2>2. DisplayTypes' /\ DisplayTable' /\ DisplayMark'
        BY <1>1, <2>1 DEF DisplayTypes, DisplayTable, DisplayMark
  <2>3. DisplayPhases'
        BY <1>1, <2>1 DEF DisplayPhases, DisplayTable, DisplayMark
  <2>4. DisplayStreams'
        BY <1>1, <2>1 DEF DisplayTypes, DisplayTable, DisplayStreams, D!Idle
  <2> QED BY <2>2, <2>3, <2>4 DEF DisplayInv
<1>11. CASE D!ChannelReset
  <2> USE <1>1, <1>11 DEF D!ChannelReset, D!Forget, D!Others, D!clear_on_reset,
                          D!clear_streams, D!marks
  <2>1. DisplayTypes'
        BY DEF DisplayTypes, DisplayTable
  <2>2. DisplayPhases'
        BY DEF DisplayPhases, DisplayTable
  <2>3. DisplayTable'
        BY DEF DisplayTypes, DisplayTable
  <2>4. DisplayStreams'
        BY DEF DisplayTypes, DisplayTable, DisplayStreams, DisplayMark, D!Idle
  <2>5. DisplayMark'
        BY DEF DisplayTypes, DisplayTable, DisplayStreams, DisplayMark, D!Idle
  <2> QED BY <2>1, <2>2, <2>3, <2>4, <2>5 DEF DisplayInv
<1> QED BY <1>2, <1>3, <1>4, <1>5, <1>6, <1>7, <1>8, <1>9, <1>10, <1>11
           DEF D!Next, D!Handlers, D!Resumes

LEMMA DisplayStep == [MCNext]_mcvars => [D!Next]_(D!vars)
<1> SUFFICES ASSUME [MCNext]_mcvars PROVE [D!Next]_(D!vars)
    OBVIOUS
<1>1. UNCHANGED displayVars => UNCHANGED D!vars
      BY DEF displayVars, D!vars, D!surfaces, D!marks
<1>2. CASE UNCHANGED mcvars
      BY <1>1, <1>2 DEF mcvars
<1>3. CASE MCNext
  <2>1. ASSUME NEW x \in {"mjpeg", "glz", "cache", "gst", "cursor"}, On(x)
        PROVE  UNCHANGED displayVars
        BY <2>1 DEF On
  <2> QED BY <1>1, <1>3, <2>1 DEF MCNext, D!Next, D!Handlers, D!Resumes
<1> QED BY <1>2, <1>3

\* The surfaces of a display channel (create_canvas, display_handle_surface_create and
\* _destroy, display_handle_stream_create, spice_display_channel_reset, display_mark_false),
\* for any streams, sizes and number of surfaces: no stream and no drawing that was
\* interrupted refers to a surface that is gone, the application is told before its data
\* goes, and the timer of an old mark never takes a new one.
THEOREM DisplaySafeTheorem == MCSpec => []DisplaySafe
<1>1. MCInit => DisplayInv
      BY InitDisplayInv DEF MCInit
<1>2. DisplayInv /\ [MCNext]_mcvars => DisplayInv'
      BY DisplayStep, DisplayInvStep
<1>3. DisplayInv => DisplaySafe
      BY DEF DisplayInv, DisplayTypes, DisplayTable, DisplayStreams, DisplayMark, DisplaySafe,
             D!StreamsOnLive, D!ShownIsLive, D!PrimaryExact, D!MarkKept, D!None, D!Primary, D!Ids
<1> QED BY <1>1, <1>2, <1>3, PTL DEF MCSpec


-----------------------------------------------------------------------------
(* Cursor *)

CursorMessages ==
  {m \in [kind : C!Kinds, shape : Shapes \cup {Null}, flags : C!Flags] :
     m.flags # "none" => m.shape \in Shapes}

CursorTypes ==
  /\ wire \in Seq(CursorMessages) /\ last_cursor \in Shapes \cup {Null}
  /\ cursor_known \subseteq Shapes
  /\ init_done \in BOOLEAN /\ open \in BOOLEAN /\ hidden \in BOOLEAN

\* The widget shows the shape, or keeps it while it is hidden.
CursorShown ==
  /\ {mouse_cursor, show_cursor} \subseteq {last_cursor, Null, Blank}
  /\ show_cursor # Null => hidden = TRUE
  /\ hidden = TRUE => mouse_cursor = Blank
  /\ last_cursor # Null => \/ show_cursor = Null /\ mouse_cursor = last_cursor
                           \/ show_cursor = last_cursor

\* What message m makes of shape l, the known shapes k and the flag o, on both sides.
Tells(m, l, k, o, l2, k2, o2) ==
  /\ \/ m.flags = "none" /\ l2 = l
     \/ m.flags # "none" /\ l2 = m.shape
  /\ \/ /\ m.kind \in {"init", "init_hidden"} /\ m.flags # "from_cache"
        /\ o = FALSE /\ o2 = TRUE /\ k2 = C!Cached(m, {})
     \/ /\ m.kind = "set" /\ (m.flags = "from_cache" => m.shape \in k)
        /\ o = TRUE /\ o2 = TRUE /\ k2 = C!Cached(m, k)
     \/ m.kind = "reset" /\ m.flags = "none" /\ o2 = FALSE /\ k2 = {}
     \/ m.kind \in {"move", "hide"} /\ m.flags = "none" /\ o2 = o /\ k2 = k
     \/ /\ m.kind = "inval_one" /\ m.flags = "none"
        /\ o = TRUE /\ o2 = o /\ k2 = k \ {m.shape}
     \/ m.kind = "inval_all" /\ m.flags = "none" /\ o2 = o /\ k2 = {}

\* The messages under way lead from what the channel has to what the server believes.
Leads(L, K, O) ==
  /\ DOMAIN L = Nat /\ DOMAIN K = Nat /\ DOMAIN O = Nat
  /\ L[0] = last_cursor /\ K[0] = cursors /\ O[0] = init_done
  /\ L[Len(wire)] = cursor_sent /\ K[Len(wire)] = cursor_known /\ O[Len(wire)] = open
  /\ \A i \in 1 .. Len(wire) : Tells(wire[i], L[i - 1], K[i - 1], O[i - 1], L[i], K[i], O[i])

CursorInv == CursorTypes /\ CursorShown /\ \E L, K, O : Leads(L, K, O)

LEMMA CursorConstants == Null # Blank /\ Null \notin Shapes /\ Blank \notin Shapes
BY MediaAssumption DEF C!CursorAssumption

LEMMA InitCursorInv == C!Init => CursorInv
<1> SUFFICES ASSUME C!Init PROVE CursorInv
    OBVIOUS
<1>1. /\ cursors = {} /\ init_done = FALSE /\ last_cursor = Null
      /\ mouse_cursor = Null /\ show_cursor = Null /\ hidden = FALSE
      /\ cursor_known = {} /\ open = FALSE /\ wire = <<>> /\ cursor_sent = Null
      BY DEF C!Init
<1>2. wire \in Seq(CursorMessages) /\ Len(wire) = 0
      BY <1>1, EmptySeq
<1>3. CursorTypes /\ CursorShown
      BY <1>1, <1>2 DEF CursorTypes, CursorShown
<1> DEFINE L == [i \in Nat |-> Null]
           K == [i \in Nat |-> {}]
           O == [i \in Nat |-> FALSE]
<1>4. /\ DOMAIN L = Nat /\ DOMAIN K = Nat /\ DOMAIN O = Nat
      /\ L[0] = Null /\ K[0] = {} /\ O[0] = FALSE
      OBVIOUS
<1> HIDE DEF L, K, O
<1>5. L[0] = last_cursor /\ K[0] = cursors /\ O[0] = init_done
      BY <1>1, <1>4
<1>6. L[Len(wire)] = cursor_sent /\ K[Len(wire)] = cursor_known /\ O[Len(wire)] = open
      BY <1>1, <1>2, <1>4
<1>7. \A i \in 1 .. Len(wire) : FALSE
      BY <1>2
<1>8. Leads(L, K, O)
      BY <1>4, <1>5, <1>6, <1>7, Zenon DEF Leads
<1> QED BY <1>3, <1>8 DEF CursorInv

\* What the server says is true of what it believes.
LEMMA ServerTells ==
  ASSUME CursorTypes, C!ServerSays
  PROVE  \E m \in CursorMessages :
           /\ wire' = Append(wire, m)
           /\ Tells(m, cursor_sent, cursor_known, open, cursor_sent', cursor_known', open')
           /\ UNCHANGED <<cursors, init_done, last_cursor, mouse_cursor, show_cursor, hidden>>
<1> USE DEF C!Says_, C!Says, C!channel, C!widget
<1> DEFINE Kept == UNCHANGED <<cursors, init_done, last_cursor, mouse_cursor, show_cursor, hidden>>
<1>1. open \in BOOLEAN
      BY DEF CursorTypes
<1>2. ASSUME NEW k \in C!Kinds, NEW s \in Shapes \cup {Null}, NEW f \in C!Flags,
             f # "none" => s \in Shapes
      PROVE  /\ C!Msg(k, s, f) \in CursorMessages
             /\ C!Msg(k, s, f).kind = k /\ C!Msg(k, s, f).shape = s /\ C!Msg(k, s, f).flags = f
      BY <1>2 DEF CursorMessages, C!Msg
<1>3. ASSUME NEW s \in Shapes, NEW f \in C!Flags, f = "from_cache" => s \in cursor_known,
             \/ /\ ~open /\ f # "from_cache"
                /\ (\E k \in {"init", "init_hidden"} : C!Says_(C!Msg(k, s, f)))
                /\ cursor_known' = (IF f = "cache_me" THEN {s} ELSE {})
             \/ open /\ C!Says_(C!Msg("set", s, f)) /\ cursor_known' = C!KnownAfter(s, f),
             cursor_sent' = (IF f = "none" THEN cursor_sent ELSE s), open' = TRUE
      PROVE  \E m \in CursorMessages :
               /\ wire' = Append(wire, m)
               /\ Tells(m, cursor_sent, cursor_known, open, cursor_sent', cursor_known', open')
               /\ Kept
  <2>1. CASE ~open
    <3>1. PICK k \in {"init", "init_hidden"} : C!Says_(C!Msg(k, s, f))
          BY <1>3, <2>1
    <3>2. f # "from_cache" /\ cursor_known' = (IF f = "cache_me" THEN {s} ELSE {})
          BY <1>3, <2>1
    <3> DEFINE m == C!Msg(k, s, f)
    <3>3. k \in C!Kinds
          BY <3>1 DEF C!Kinds
    <3>4. m \in CursorMessages /\ m.kind = k /\ m.shape = s /\ m.flags = f
          BY <1>2, <3>3
    <3>5. wire' = Append(wire, m) /\ Kept
          BY <3>1
    <3> HIDE DEF m
    <3>6. Tells(m, cursor_sent, cursor_known, open, cursor_sent', cursor_known', open')
          BY <1>1, <1>3, <2>1, <3>1, <3>2, <3>4 DEF Tells, C!Cached
    <3> QED BY <3>4, <3>5, <3>6
  <2>2. CASE open
    <3> DEFINE m == C!Msg("set", s, f)
    <3>1. C!Says_(m) /\ cursor_known' = C!KnownAfter(s, f)
          BY <1>3, <2>2
    <3>2. "set" \in C!Kinds
          BY DEF C!Kinds
    <3>3. m \in CursorMessages /\ m.kind = "set" /\ m.shape = s /\ m.flags = f
          BY <1>2, <3>2
    <3>4. wire' = Append(wire, m) /\ Kept
          BY <3>1
    <3> HIDE DEF m
    <3>5. Tells(m, cursor_sent, cursor_known, open, cursor_sent', cursor_known', open')
          BY <1>1, <1>3, <2>2, <3>1, <3>3 DEF Tells, C!Cached, C!KnownAfter
    <3> QED BY <3>3, <3>4, <3>5
  <2> QED BY <2>1, <2>2
<1>4. ASSUME open, cursor_sent' = cursor_sent,
             NEW k \in {"reset", "move", "hide", "inval_one", "inval_all"},
             NEW s \in Shapes \cup {Null}, C!Says_(C!Msg(k, s, "none")),
             \/ k = "reset" /\ cursor_known' = {} /\ open' = FALSE
             \/ k \in {"move", "hide"} /\ UNCHANGED <<cursor_known, open>>
             \/ k = "inval_one" /\ cursor_known' = cursor_known \ {s} /\ open' = open
             \/ k = "inval_all" /\ cursor_known' = {} /\ open' = open
      PROVE  \E m \in CursorMessages :
               /\ wire' = Append(wire, m)
               /\ Tells(m, cursor_sent, cursor_known, open, cursor_sent', cursor_known', open')
               /\ Kept
  <2> DEFINE m == C!Msg(k, s, "none")
  <2>1. k \in C!Kinds /\ "none" \in C!Flags
        BY <1>4 DEF C!Kinds, C!Flags
  <2>2. m \in CursorMessages /\ m.kind = k /\ m.shape = s /\ m.flags = "none"
        BY <1>2, <2>1
  <2>3. wire' = Append(wire, m) /\ Kept
        BY <1>4
  <2> HIDE DEF m
  <2>4. Tells(m, cursor_sent, cursor_known, open, cursor_sent', cursor_known', open')
        BY <1>1, <1>4, <2>2 DEF Tells
  <2> QED BY <2>2, <2>3, <2>4
<1>5. CASE \E s \in Shapes, f \in C!Flags :
             /\ f = "from_cache" => s \in cursor_known
             /\ \/ /\ ~open /\ f # "from_cache"
                   /\ (\E k \in {"init", "init_hidden"} : C!Says_(C!Msg(k, s, f)))
                   /\ cursor_known' = (IF f = "cache_me" THEN {s} ELSE {})
                \/ open /\ C!Says_(C!Msg("set", s, f)) /\ cursor_known' = C!KnownAfter(s, f)
             /\ cursor_sent' = (IF f = "none" THEN cursor_sent ELSE s) /\ open' = TRUE
      BY ONLY <1>3, <1>5
<1>6. CASE /\ open /\ UNCHANGED cursor_sent
           /\ \E k \in {"reset", "move", "hide", "inval_one", "inval_all"},
                 s \in Shapes \cup {Null} :
                /\ C!Says_(C!Msg(k, s, "none"))
                /\ \/ k = "reset" /\ cursor_known' = {} /\ open' = FALSE
                   \/ k \in {"move", "hide"} /\ UNCHANGED <<cursor_known, open>>
                   \/ k = "inval_one" /\ cursor_known' = cursor_known \ {s} /\ open' = open
                   \/ k = "inval_all" /\ cursor_known' = {} /\ open' = open
      BY ONLY <1>4, <1>6
<1>7. cursor_known \subseteq Shapes
      BY DEF CursorTypes
<1> HIDE DEF C!Says_, C!Says
<1>8. CASE /\ open /\ UNCHANGED cursor_sent
           /\ \/ C!Says_(C!Msg("reset", Null, "none")) /\ cursor_known' = {} /\ open' = FALSE
              \/ \E k \in {"move", "hide"} :
                   C!Says_(C!Msg(k, Null, "none")) /\ UNCHANGED <<cursor_known, open>>
              \/ \E s \in cursor_known :
                   /\ C!Says_(C!Msg("inval_one", s, "none"))
                   /\ cursor_known' = cursor_known \ {s} /\ UNCHANGED open
              \/ C!Says_(C!Msg("inval_all", Null, "none")) /\ cursor_known' = {} /\ UNCHANGED open
      BY ONLY <1>6, <1>7, <1>8
<1> QED BY ONLY <1>5, <1>8, C!ServerSays DEF C!ServerSays

LEMMA ServerKeeps == CursorInv /\ C!ServerSays => CursorInv'
<1> SUFFICES ASSUME CursorInv, C!ServerSays PROVE CursorInv'
    OBVIOUS
<1>1. CursorTypes /\ CursorShown
      BY DEF CursorInv
<1>2. PICK m \in CursorMessages :
        /\ wire' = Append(wire, m)
        /\ Tells(m, cursor_sent, cursor_known, open, cursor_sent', cursor_known', open')
        /\ UNCHANGED <<cursors, init_done, last_cursor, mouse_cursor, show_cursor, hidden>>
      BY <1>1, ServerTells
<1>3. PICK L, K, O : Leads(L, K, O)
      BY DEF CursorInv
<1>4. PICK n \in Nat : n = Len(wire)
      BY <1>1, LenProperties DEF CursorTypes
<1>5. /\ wire' \in Seq(CursorMessages) /\ Len(wire') = n + 1
      /\ \A i \in 1 .. n : wire'[i] = wire[i]
      /\ wire'[n + 1] = m
      BY <1>1, <1>2, <1>4, AppendProperties, LenProperties DEF CursorTypes
<1>6. CursorTypes'
  <2>1. open' \in BOOLEAN /\ cursor_known' \subseteq Shapes
        BY <1>1, <1>2 DEF CursorTypes, CursorMessages, Tells, C!Cached
  <2> QED BY <1>1, <1>2, <1>5, <2>1 DEF CursorTypes
<1>7. CursorShown'
      BY <1>1, <1>2 DEF CursorShown
<1>8. PICK L2, K2, O2 :
         /\ L2 = [i \in Nat |-> IF i = n + 1 THEN cursor_sent' ELSE L[i]]
         /\ K2 = [i \in Nat |-> IF i = n + 1 THEN cursor_known' ELSE K[i]]
         /\ O2 = [i \in Nat |-> IF i = n + 1 THEN open' ELSE O[i]]
      OBVIOUS
<1>9. /\ DOMAIN L2 = Nat /\ DOMAIN K2 = Nat /\ DOMAIN O2 = Nat
      /\ L2[n + 1] = cursor_sent' /\ K2[n + 1] = cursor_known' /\ O2[n + 1] = open'
      /\ \A i \in 0 .. n : L2[i] = L[i] /\ K2[i] = K[i] /\ O2[i] = O[i]
      BY <1>4, <1>8
<1>10. Leads(L2, K2, O2)'
  <2>1. /\ L[0] = last_cursor /\ K[0] = cursors /\ O[0] = init_done
        /\ L[n] = cursor_sent /\ K[n] = cursor_known /\ O[n] = open
        /\ \A i \in 1 .. n : Tells(wire[i], L[i - 1], K[i - 1], O[i - 1], L[i], K[i], O[i])
        BY <1>3, <1>4 DEF Leads
  <2>2. /\ L2[0] = last_cursor' /\ K2[0] = cursors' /\ O2[0] = init_done'
        /\ L2[Len(wire')] = cursor_sent' /\ K2[Len(wire')] = cursor_known'
        /\ O2[Len(wire')] = open'
        BY <1>2, <1>4, <1>5, <1>9, <2>1
  <2>3. ASSUME NEW i \in 1 .. Len(wire')
        PROVE  Tells(wire'[i], L2[i - 1], K2[i - 1], O2[i - 1], L2[i], K2[i], O2[i])
    <3>1. CASE i = n + 1
          BY <1>2, <1>4, <1>5, <1>9, <2>1, <3>1
    <3>2. CASE i # n + 1
      <4>1. i \in 1 .. n /\ i \in 0 .. n /\ i - 1 \in 0 .. n
            BY <1>4, <1>5, <2>3, <3>2
      <4> QED BY <1>5, <1>9, <2>1, <4>1
    <3> QED BY <3>1, <3>2
  <2> QED BY <1>9, <2>2, <2>3 DEF Leads
<1> QED BY <1>6, <1>7, <1>10 DEF CursorInv

\* The channel makes of a message what the server made of it, and the widget what the
\* channel tells it.
LEMMA HandleTells ==
  ASSUME CursorTypes, CursorShown, C!Handle,
         NEW m \in CursorMessages, m = Head(wire),
         NEW l, NEW k, NEW o, Tells(m, last_cursor, cursors, init_done, l, k, o)
  PROVE  /\ last_cursor' = l /\ cursors' = k /\ init_done' = o
         /\ last_cursor' \in Shapes \cup {Null} /\ init_done' \in BOOLEAN
         /\ CursorShown' /\ hidden' \in BOOLEAN
<1> USE DEF C!channel, C!widget
<1>1. Null # Blank /\ Null \notin Shapes /\ Blank \notin Shapes /\ init_done \in BOOLEAN
      /\ last_cursor \in Shapes \cup {Null} /\ hidden \in BOOLEAN
      BY CursorConstants DEF CursorTypes
<1>2. /\ m.kind \in C!Kinds /\ m.flags \in C!Flags /\ (m.flags # "none" => m.shape \in Shapes)
      BY DEF CursorMessages
<1>3. ASSUME NEW c, m.flags = "from_cache" => m.shape \in c
      PROVE  C!Found(m, c) <=> m.flags # "none"
      BY <1>2, <1>3 DEF C!Found, C!Flags
<1>4. ASSUME C!cursor_hide, last_cursor' = last_cursor
      PROVE  CursorShown' /\ hidden' \in BOOLEAN
      BY <1>1, <1>4 DEF C!cursor_hide, C!AlreadyHidden, CursorShown
<1>5. ASSUME NEW s \in Shapes, last_cursor' = s, C!cursor_set(s) \/ C!set_hidden(s)
      PROVE  CursorShown' /\ hidden' \in BOOLEAN
  <2>1. CASE C!cursor_set(s)
        BY <1>1, <1>5, <2>1 DEF C!cursor_set, C!StaysHidden, C!Shown, CursorShown
  <2>2. CASE C!set_hidden(s)
        BY <1>1, <1>5, <2>2 DEF C!set_hidden, C!StaysHidden, CursorShown
  <2> QED BY <1>5, <2>1, <2>2
<1>6. ASSUME NEW c, m.flags = "from_cache" => m.shape \in c, C!SetOrHide(m, c)
      PROVE  /\ last_cursor' = l /\ cursors' = C!Cached(m, c) /\ CursorShown' /\ hidden' \in BOOLEAN
  <2>1. CASE m.flags = "none"
        BY <1>3, <1>4, <1>6, <2>1 DEF C!SetOrHide, Tells
  <2>2. CASE m.flags # "none"
        BY <1>2, <1>3, <1>5, <1>6, <2>2 DEF C!SetOrHide, Tells
  <2> QED BY <2>1, <2>2
<1>7. CASE m.kind \in {"init", "init_hidden"}
  <2>1. m.flags # "from_cache" /\ init_done = FALSE /\ o = TRUE /\ k = C!Cached(m, {})
        BY <1>7 DEF Tells
  <2>2. init_done' = TRUE /\ C!SetOrHide(m, {})
        BY <1>7, <2>1 DEF C!Handle
  <2> QED BY <1>1, <1>2, <1>6, <2>1, <2>2 DEF Tells
<1>8. CASE m.kind = "set"
  <2>1. /\ m.flags = "from_cache" => m.shape \in cursors
        /\ init_done = TRUE /\ o = TRUE /\ k = C!Cached(m, cursors)
        BY <1>8 DEF Tells
  <2>2. init_done' = init_done /\ C!SetOrHide(m, cursors)
        BY <1>8, <2>1 DEF C!Handle
  <2> QED BY <1>1, <1>2, <1>6, <2>1, <2>2 DEF Tells
<1>9. CASE m.kind = "reset"
      BY <1>1, <1>9 DEF C!Handle, Tells, CursorShown
<1>10. CASE m.kind = "move"
  <2>1. last_cursor' = l /\ cursors' = k /\ init_done' = o /\ last_cursor' = last_cursor
        BY <1>10 DEF C!Handle, Tells
  <2>2. CASE init_done = TRUE
    <3>1. C!cursor_move
          BY <1>10, <2>2 DEF C!Handle
    <3> QED BY <1>1, <1>10, <2>1, <2>2, <3>1 DEF C!cursor_move, CursorShown, Tells
  <2>3. CASE init_done = FALSE
        BY <1>1, <1>10, <2>1, <2>3 DEF C!Handle, CursorShown, Tells
  <2> QED BY <1>1, <2>2, <2>3
<1>11. CASE m.kind = "hide"
  <2>1. /\ last_cursor' = l /\ cursors' = k /\ init_done' = o /\ last_cursor' = last_cursor
        /\ init_done' = init_done /\ C!cursor_hide
        BY <1>11 DEF C!Handle, Tells
  <2> QED BY <1>1, <1>4, <2>1
<1>12. CASE m.kind \in {"inval_one", "inval_all"}
      BY <1>1, <1>12 DEF C!Handle, Tells, CursorShown
<1> QED BY <1>2, <1>7, <1>8, <1>9, <1>10, <1>11, <1>12 DEF C!Kinds

LEMMA HandleKeeps == CursorInv /\ C!Handle => CursorInv'
<1> SUFFICES ASSUME CursorInv, C!Handle PROVE CursorInv'
    OBVIOUS
<1>1. CursorTypes /\ CursorShown
      BY DEF CursorInv
<1>2. /\ wire # <<>> /\ wire' = Tail(wire)
      /\ UNCHANGED <<cursor_known, open, cursor_sent>>
      BY DEF C!Handle, C!server
<1>3. PICK L, K, O : Leads(L, K, O)
      BY DEF CursorInv
<1>4. PICK n \in Nat : n = Len(wire)
      BY <1>1, LenProperties DEF CursorTypes
<1>5. /\ n >= 1 /\ wire[1] \in CursorMessages /\ wire[1] = Head(wire)
      /\ wire' \in Seq(CursorMessages) /\ Len(wire') = n - 1
      /\ \A i \in 1 .. n - 1 : wire'[i] = wire[i + 1]
  <2>1. wire \in Seq(CursorMessages)
        BY <1>1 DEF CursorTypes
  <2>2. n >= 1
        BY <1>2, <1>4, <2>1, EmptySeq
  <2> QED BY <1>2, <1>4, <2>1, <2>2, HeadTailProperties, ElementOfSeq
<1>6. /\ L[0] = last_cursor /\ K[0] = cursors /\ O[0] = init_done
      /\ L[n] = cursor_sent /\ K[n] = cursor_known /\ O[n] = open
      /\ \A i \in 1 .. n : Tells(wire[i], L[i - 1], K[i - 1], O[i - 1], L[i], K[i], O[i])
      BY <1>3, <1>4 DEF Leads
<1>7. Tells(Head(wire), last_cursor, cursors, init_done, L[1], K[1], O[1])
  <2>1. 1 \in 1 .. n /\ 1 - 1 = 0
        BY <1>4, <1>5
  <2> QED BY <1>5, <1>6, <2>1
<1>8. /\ last_cursor' = L[1] /\ cursors' = K[1] /\ init_done' = O[1]
      /\ last_cursor' \in Shapes \cup {Null} /\ init_done' \in BOOLEAN
      /\ CursorShown' /\ hidden' \in BOOLEAN
      BY <1>1, <1>5, <1>7, HandleTells
<1>9. CursorTypes'
      BY <1>1, <1>2, <1>5, <1>8 DEF CursorTypes
<1> DEFINE L2 == [i \in Nat |-> L[i + 1]]
           K2 == [i \in Nat |-> K[i + 1]]
           O2 == [i \in Nat |-> O[i + 1]]
<1>10. /\ DOMAIN L2 = Nat /\ DOMAIN K2 = Nat /\ DOMAIN O2 = Nat
       /\ \A i \in Nat : L2[i] = L[i + 1] /\ K2[i] = K[i + 1] /\ O2[i] = O[i + 1]
       OBVIOUS
<1> HIDE DEF L2, K2, O2
<1>11. Leads(L2, K2, O2)'
  <2>1. L2[0] = L[1] /\ K2[0] = K[1] /\ O2[0] = O[1]
        BY <1>10
  <2>2. L2[n - 1] = L[n] /\ K2[n - 1] = K[n] /\ O2[n - 1] = O[n]
    <3>1. n - 1 \in Nat /\ (n - 1) + 1 = n
          BY <1>4, <1>5
    <3> QED BY <1>10, <3>1
  <2>3. ASSUME NEW i \in 1 .. Len(wire')
        PROVE  Tells(wire'[i], L2[i - 1], K2[i - 1], O2[i - 1], L2[i], K2[i], O2[i])
    <3>1. i \in 1 .. n - 1 /\ i + 1 \in 1 .. n /\ (i + 1) - 1 = (i - 1) + 1 /\ i \in Nat /\ i - 1 \in Nat
          BY <1>4, <1>5, <2>3
    <3>2. Tells(wire[i + 1], L[(i - 1) + 1], K[(i - 1) + 1], O[(i - 1) + 1],
                L[i + 1], K[i + 1], O[i + 1])
          BY <1>6, <3>1
    <3>3. wire'[i] = wire[i + 1]
          BY <1>5, <3>1
    <3> QED BY <1>10, <3>1, <3>2, <3>3
  <2> QED BY <1>2, <1>5, <1>6, <1>8, <1>10, <2>1, <2>2, <2>3 DEF Leads
<1> QED BY <1>8, <1>9, <1>11 DEF CursorInv

LEMMA CursorInvStep == CursorInv /\ [C!Next]_(C!vars) => CursorInv'
<1> SUFFICES ASSUME CursorInv, [C!Next]_(C!vars) PROVE CursorInv'
    OBVIOUS
<1>1. CursorTypes /\ CursorShown
      BY DEF CursorInv
<1>2. CASE UNCHANGED C!vars \/ C!ModeChanges
  <2>1. UNCHANGED <<cursors, init_done, last_cursor, mouse_cursor, show_cursor, hidden,
                    cursor_known, open, cursor_sent, wire>>
        BY <1>2 DEF C!vars, C!channel, C!widget, C!server, C!ModeChanges
  <2>2. CursorTypes' /\ CursorShown'
        BY <1>1, <2>1 DEF CursorTypes, CursorShown
  <2>3. PICK L, K, O : Leads(L, K, O)
        BY DEF CursorInv
  <2>4. Leads(L, K, O)'
        BY <2>1, <2>3 DEF Leads
  <2> QED BY <2>2, <2>4 DEF CursorInv
<1>3. CASE C!Reset
  <2>1. /\ wire' = <<>> /\ cursors' = {} /\ init_done' = FALSE
        /\ cursor_known' = {} /\ open' = FALSE /\ cursor_sent' = last_cursor
        /\ UNCHANGED <<last_cursor, mouse_cursor, show_cursor, hidden>>
        BY <1>3 DEF C!Reset, C!widget
  <2>2. wire' \in Seq(CursorMessages) /\ Len(wire') = 0
        BY <2>1, EmptySeq
  <2>3. CursorTypes' /\ CursorShown'
        BY <1>1, <2>1, <2>2 DEF CursorTypes, CursorShown
  <2>4. PICK L, K, O :
          L = [i \in Nat |-> last_cursor] /\ K = [i \in Nat |-> {}] /\ O = [i \in Nat |-> FALSE]
        OBVIOUS
  <2>5. /\ DOMAIN L = Nat /\ DOMAIN K = Nat /\ DOMAIN O = Nat
        /\ L[0] = last_cursor /\ K[0] = {} /\ O[0] = FALSE
        BY <2>4
  <2>6. \A i \in 1 .. Len(wire') : FALSE
        BY <2>2
  <2>7. /\ L[0] = last_cursor' /\ K[0] = cursors' /\ O[0] = init_done'
        /\ L[Len(wire')] = cursor_sent' /\ K[Len(wire')] = cursor_known' /\ O[Len(wire')] = open'
        BY <2>1, <2>2, <2>5
  <2>8. Leads(L, K, O)'
        BY <2>5, <2>6, <2>7, Zenon DEF Leads
  <2> QED BY <2>3, <2>8 DEF CursorInv
<1> QED BY <1>2, <1>3, ServerKeeps, HandleKeeps DEF C!Next

LEMMA CursorStep == [MCNext]_mcvars => [C!Next]_(C!vars)
<1> SUFFICES ASSUME [MCNext]_mcvars PROVE [C!Next]_(C!vars)
    OBVIOUS
<1>1. UNCHANGED cursorVars => UNCHANGED C!vars
      BY DEF cursorVars, C!vars, C!channel, C!widget, C!server
<1>2. CASE UNCHANGED mcvars
      BY <1>1, <1>2 DEF mcvars
<1>3. CASE MCNext
  <2>1. ASSUME NEW x \in {"display", "mjpeg", "glz", "cache", "gst"}, On(x)
        PROVE  UNCHANGED cursorVars
        BY <2>1 DEF On
  <2> QED BY <1>1, <1>3, <2>1 DEF MCNext, C!Next
<1> QED BY <1>2, <1>3

\* The cursor channel and the pointer of the widget (cursor_handle_*, set_cursor,
\* cursor_set, cursor_hide, cursor_move), for any shapes, messages under way and resets:
\* once all is handled, the channel has the shape and the cached shapes that the server
\* believes it has, and the widget shows that shape, or keeps it while it is hidden.
THEOREM CursorSafeTheorem == MCSpec => []CursorSafe
<1>1. MCInit => CursorInv
      BY InitCursorInv DEF MCInit
<1>2. CursorInv /\ [MCNext]_mcvars => CursorInv'
      BY CursorStep, CursorInvStep
<1>3. CursorInv => CursorSafe
  <2> SUFFICES ASSUME CursorInv PROVE C!ShapeAgrees /\ C!ShownWhenTold
      BY DEF CursorSafe
  <2>1. CursorTypes /\ CursorShown
        BY DEF CursorInv
  <2>2. C!ShownWhenTold
        BY <2>1, CursorConstants DEF CursorTypes, CursorShown, C!ShownWhenTold
  <2>3. C!ShapeAgrees
    <3>1. PICK L, K, O : Leads(L, K, O)
          BY DEF CursorInv
    <3>2. wire = <<>> => Len(wire) = 0
          BY <2>1, EmptySeq
    <3> QED BY <3>1, <3>2 DEF Leads, C!ShapeAgrees
  <2> QED BY <2>2, <2>3
<1> QED BY <1>1, <1>2, <1>3, PTL DEF MCSpec


-----------------------------------------------------------------------------
(* GStreamer video *)

Rising(s) == \A j, k \in 1 .. Len(s) : j < k => s[j] < s[k]

GstTypes ==
  /\ pipeline \in {"playing", "freed"} /\ stream \in {"alive", "destroyed"}
  /\ appsink \in Seq(Nat) /\ encoded \in Seq(Nat) /\ decoding_queue \in Seq(Nat)
  /\ gst_shown \in Seq(Nat)
  /\ display_frame \in Nat /\ pending_samples \in Nat /\ local \in Nat /\ queued \in Nat
  /\ timer_id \in {0, 1, 2} /\ sources \subseteq {1, 2} /\ lock \in {0, 1, 2}
  /\ DOMAIN gst_pc = {1, 2}

\* The lock is held in schedule_frame, and a pipeline that is freed has no thread; what
\* the appsink has was announced, but for the sample whose new_sample has not run.
GstPull ==
  /\ \A t \in {1, 2} : gst_pc[t] = "in" <=> lock = t
  /\ pipeline = "freed" => gst_pc[2] = "idle"
  /\ pipeline = "playing" =>
       pending_samples = Len(appsink) - (IF gst_pc[2] = "new_sample" THEN 1 ELSE 0)
  /\ gst_pc[1] # "new_sample"

\* The timer is that of timer_id, but for one that fires, and one that a reset removes.
GstTimer ==
  /\ timer_id # 0 => display_frame # 0
  /\ sources \subseteq {timer_id} \cup (IF gst_pc[1] = "remove" THEN {local} ELSE {})
  /\ timer_id # 0 /\ gst_pc[1] # "take" => timer_id \in sources
  /\ gst_pc[1] = "take" => timer_id # 0 /\ sources = {}
  /\ gst_pc[1] = "remove" => /\ local \in sources \cup {0}
                             /\ timer_id # 0 => timer_id # local

\* The frames drawn, the one that is being drawn, the one that waits for its turn and
\* those that wait to be decoded are in the order in which they came.
GstOrder ==
  /\ Rising(gst_shown) /\ Rising(decoding_queue)
  /\ \A k \in 1 .. Len(decoding_queue) :
       /\ 0 < decoding_queue[k] /\ decoding_queue[k] <= queued
       /\ display_frame < decoding_queue[k]
       /\ gst_pc[1] = "draw" => local < decoding_queue[k]
       /\ \A j \in 1 .. Len(gst_shown) : gst_shown[j] < decoding_queue[k]
  /\ \A j \in 1 .. Len(gst_shown) :
       /\ gst_shown[j] <= queued
       /\ display_frame # 0 => gst_shown[j] < display_frame
       /\ gst_pc[1] = "draw" => gst_shown[j] < local
  /\ display_frame <= queued
  /\ gst_pc[1] = "draw" => local <= queued /\ (display_frame # 0 => local < display_frame)

GstInv == GstTypes /\ GstPull /\ GstTimer /\ GstOrder

LEMMA RisingAppend ==
  ASSUME NEW s \in Seq(Nat), Rising(s), NEW x \in Nat, \A j \in 1 .. Len(s) : s[j] < x
  PROVE  /\ Append(s, x) \in Seq(Nat) /\ Len(Append(s, x)) = Len(s) + 1 /\ Rising(Append(s, x))
         /\ \A j \in 1 .. Len(s) : Append(s, x)[j] = s[j]
         /\ Append(s, x)[Len(s) + 1] = x
<1> DEFINE a == Append(s, x)
<1>1. PICK n \in Nat : n = Len(s)
      BY LenProperties
<1>2. /\ a \in Seq(Nat) /\ Len(a) = n + 1
      /\ \A j \in 1 .. n : a[j] = s[j]
      /\ a[n + 1] = x
      BY <1>1, AppendProperties
<1>3. \A j \in 1 .. n : s[j] \in Nat
      BY <1>1, ElementOfSeq
<1> HIDE DEF a
<1>4. Rising(a)
  <2> SUFFICES ASSUME NEW j \in 1 .. n + 1, NEW k \in 1 .. n + 1, j < k PROVE a[j] < a[k]
      BY <1>2 DEF Rising
  <2>1. j \in 1 .. n
        OBVIOUS
  <2>2. CASE k = n + 1
        BY <1>1, <1>2, <2>1, <2>2
  <2>3. CASE k # n + 1
    <3>1. k \in 1 .. n
          BY <2>3
    <3> QED BY <1>1, <1>2, <2>1, <3>1 DEF Rising
  <2> QED BY <2>2, <2>3
<1> QED BY <1>1, <1>2, <1>4 DEF a

LEMMA RisingRest ==
  ASSUME NEW s \in Seq(Nat), Rising(s), NEW p \in 1 .. Len(s)
  PROVE  LET r == SubSeq(s, p + 1, Len(s)) IN
         /\ r \in Seq(Nat) /\ Rising(r)
         /\ \A j \in 1 .. Len(r) : s[p] < r[j] /\ \E k \in 1 .. Len(s) : r[j] = s[k]
<1> DEFINE r == SubSeq(s, p + 1, Len(s))
<1>1. PICK n \in Nat : n = Len(s)
      BY LenProperties
<1>2. p \in 1 .. n
      BY <1>1
<1>3. /\ r \in Seq(Nat) /\ Len(r) = n - p
      /\ \A j \in 1 .. n - p : r[j] = s[p + j]
  <2>1. CASE p < n
    <3>1. p + 1 \in 1 .. Len(s) /\ Len(s) \in 1 .. Len(s)
          BY <1>1, <1>2, <2>1
    <3>2. /\ r \in Seq(Nat) /\ Len(r) = (IF p + 1 <= n THEN n - (p + 1) + 1 ELSE 0)
          /\ \A i \in 1 .. n - (p + 1) + 1 : r[i] = s[(p + 1) + i - 1]
          BY <1>1, <3>1, SubSeqProperties
    <3>3. n - (p + 1) + 1 = n - p /\ p + 1 <= n
          BY <1>2, <2>1
    <3>4. \A j \in 1 .. n - p : (p + 1) + j - 1 = p + j
          BY <1>2
    <3> QED BY <3>2, <3>3, <3>4
  <2>2. CASE p = n
    <3>1. r = <<>>
          BY <1>1, <2>2, SubSeqEmpty
    <3>2. r \in Seq(Nat) /\ Len(r) = 0
          BY <3>1, EmptySeq
    <3> QED BY <1>1, <2>2, <3>2
  <2> QED BY <1>2, <2>1, <2>2
<1>4. \A j \in 1 .. n : s[j] \in Nat
      BY <1>1, ElementOfSeq
<1> HIDE DEF r
<1>5. Rising(r)
  <2> SUFFICES ASSUME NEW j \in 1 .. n - p, NEW k \in 1 .. n - p, j < k PROVE r[j] < r[k]
      BY <1>3 DEF Rising
  <2>1. p + j \in 1 .. n /\ p + k \in 1 .. n /\ p + j < p + k
        BY <1>2
  <2> QED BY <1>1, <1>3, <2>1 DEF Rising
<1>6. ASSUME NEW j \in 1 .. n - p
      PROVE  s[p] < r[j] /\ \E k \in 1 .. n : r[j] = s[k]
  <2>1. p + j \in 1 .. n /\ p < p + j
        BY <1>2
  <2> QED BY <1>1, <1>2, <1>3, <2>1 DEF Rising
<1> QED BY <1>1, <1>3, <1>5, <1>6 DEF r

LEMMA InitGstInv == G!Init => GstInv
<1> SUFFICES ASSUME G!Init PROVE GstInv
    OBVIOUS
<1>1. /\ pipeline = "playing" /\ stream = "alive" /\ encoded = <<>> /\ appsink = <<>>
      /\ decoding_queue = <<>> /\ display_frame = 0 /\ pending_samples = 0
      /\ timer_id = 0 /\ sources = {} /\ lock = 0 /\ gst_pc = [t \in {1, 2} |-> "idle"]
      /\ local = 0 /\ queued = 0 /\ gst_shown = <<>>
      BY DEF G!Init, G!None, G!Main, G!Gst
<1>2. /\ <<>> \in Seq(Nat) /\ Len(<<>>) = 0
      BY EmptySeq
<1>3. /\ Len(appsink) = 0 /\ Len(decoding_queue) = 0 /\ Len(gst_shown) = 0
      /\ gst_pc[1] = "idle" /\ gst_pc[2] = "idle" /\ DOMAIN gst_pc = {1, 2}
      BY <1>1, <1>2
<1>4. GstTypes
      BY <1>1, <1>2, <1>3 DEF GstTypes
<1>5. GstPull /\ GstTimer
      BY <1>1, <1>3 DEF GstPull, GstTimer
<1>6. GstOrder
      BY <1>1, <1>3 DEF GstOrder, Rising
<1> QED BY <1>4, <1>5, <1>6 DEF GstInv

\* A step that draws nothing, queues nothing and fetches nothing keeps the order.
LEMMA OrderKept ==
  ASSUME GstOrder, queued \in Nat, queued' \in Nat, queued <= queued',
         display_frame \in Nat, gst_shown \in Seq(Nat), decoding_queue \in Seq(Nat),
         UNCHANGED <<gst_shown, decoding_queue>>, display_frame' \in {display_frame, 0},
         local \in Nat, gst_pc'[1] = "draw" => gst_pc[1] = "draw" /\ local' = local
  PROVE  GstOrder'
<1>1. /\ \A k \in 1 .. Len(decoding_queue) : decoding_queue[k] \in Nat
      /\ \A k \in 1 .. Len(gst_shown) : gst_shown[k] \in Nat
      BY ElementOfSeq
<1> QED BY <1>1 DEF GstOrder, Rising

LEMMA DestroyKeeps ==
  ASSUME GstInv, G!Idle, G!Destroy, UNCHANGED <<gst_shown, local, lock, gst_pc>>,
         queued' \in {queued, queued + 1}
  PROVE  GstInv'
<1> USE DEF G!None, G!Main, G!Gst
<1>1. GstTypes /\ GstPull /\ GstTimer /\ GstOrder
      BY DEF GstInv
<1>2. gst_pc[1] = "idle"
      BY DEF G!Idle
<1>3. /\ pipeline' = "freed" /\ stream' = "destroyed" /\ sources' = sources \ {timer_id}
      /\ timer_id' = 0 /\ decoding_queue' = <<>> /\ display_frame' = 0 /\ pending_samples' = 0
      /\ gst_pc[2] = "idle"
      BY <1>1 DEF G!Destroy, G!FreePipeline, G!pipe, GstTypes, GstPull
<1>4. /\ encoded' \in {encoded, <<>>} /\ appsink' \in {appsink, <<>>}
      BY DEF G!Destroy, G!FreePipeline, G!pipe
<1>5. <<>> \in Seq(Nat) /\ Len(<<>>) = 0
      BY EmptySeq
<1>6. GstTypes'
  <2>1. encoded' \in Seq(Nat) /\ appsink' \in Seq(Nat) /\ decoding_queue' \in Seq(Nat)
        BY <1>1, <1>3, <1>4, <1>5 DEF GstTypes
  <2>2. /\ sources' \subseteq {1, 2} /\ queued' \in Nat
        /\ gst_shown' \in Seq(Nat) /\ local' \in Nat /\ lock' \in {0, 1, 2} /\ DOMAIN gst_pc' = {1, 2}
        BY <1>1, <1>3 DEF GstTypes
  <2> QED BY <1>3, <2>1, <2>2 DEF GstTypes
<1>7. GstPull'
      BY <1>1, <1>3 DEF GstPull
<1>8. GstTimer'
      BY <1>1, <1>2, <1>3 DEF GstTypes, GstTimer
<1>9. GstOrder'
  <2>1. \A k \in 1 .. Len(gst_shown) : gst_shown[k] \in Nat
        BY <1>1, ElementOfSeq DEF GstTypes
  <2>2. Len(decoding_queue') = 0
        BY <1>3, <1>5
  <2> QED BY <1>1, <1>2, <1>3, <2>1, <2>2 DEF GstTypes, GstOrder, Rising
<1> QED BY <1>6, <1>7, <1>8, <1>9 DEF GstInv

\* What the pipeline and the channel do.
LEMMA PipelineKeeps ==
  ASSUME GstInv, G!QueueFrame \/ G!StreamDestroy \/ G!PipelineError \/ G!Decode \/ G!NewSample
  PROVE  GstInv'
<1> USE DEF G!None, G!Main, G!Gst, G!queues, G!timers, G!pipe
<1>1. GstTypes /\ GstPull /\ GstTimer /\ GstOrder
      BY DEF GstInv
<1>2. CASE G!QueueFrame
  <2>1. /\ G!Idle /\ queued' = queued + 1 /\ UNCHANGED <<lock, gst_pc, local, gst_shown>>
        BY <1>2 DEF G!QueueFrame
  <2>2. CASE pipeline = "freed"
    <3>1. G!Destroy
          BY <1>2, <2>2 DEF G!QueueFrame
    <3> QED BY <2>1, <3>1, DestroyKeeps
  <2>3. CASE pipeline # "freed"
    <3>1. /\ UNCHANGED <<display_frame, pending_samples, pipeline, overlay, appsink, stream,
                         timer_id, sources>>
          /\ decoding_queue' \in {decoding_queue, Append(decoding_queue, queued + 1)}
          /\ encoded' \in {encoded, Append(encoded, queued + 1)}
          BY <1>2, <2>1, <2>3 DEF G!QueueFrame
    <3>2. /\ \A k \in 1 .. Len(decoding_queue) : decoding_queue[k] \in Nat
          /\ \A k \in 1 .. Len(gst_shown) : gst_shown[k] \in Nat
          BY <1>1, ElementOfSeq DEF GstTypes
    <3>3. queued \in Nat /\ queued + 1 \in Nat /\ gst_pc[1] = "idle"
          BY <1>1, <2>1 DEF GstTypes, G!Idle
    <3>4. \A k \in 1 .. Len(decoding_queue) : decoding_queue[k] < queued + 1
          BY <1>1, <3>2, <3>3 DEF GstOrder
    <3> DEFINE a == Append(decoding_queue, queued + 1)
    <3>5. /\ a \in Seq(Nat) /\ Len(a) = Len(decoding_queue) + 1 /\ Rising(a)
          /\ \A j \in 1 .. Len(decoding_queue) : a[j] = decoding_queue[j]
          /\ a[Len(decoding_queue) + 1] = queued + 1
          BY <1>1, <3>3, <3>4, RisingAppend DEF GstTypes, GstOrder
    <3>6. Append(encoded, queued + 1) \in Seq(Nat)
          BY <1>1, <3>3, AppendProperties DEF GstTypes
    <3>7. decoding_queue' \in {decoding_queue, a}
          BY <3>1
    <3> HIDE DEF a
    <3>8. GstTypes'
          BY <1>1, <2>1, <3>1, <3>3, <3>5, <3>6, <3>7 DEF GstTypes
    <3>9. GstPull' /\ GstTimer'
          BY <1>1, <2>1, <3>1 DEF GstPull, GstTimer
    <3>10. GstOrder'
      <4>1. CASE decoding_queue' = decoding_queue
            BY <1>1, <2>1, <3>1, <3>3, <4>1, OrderKept DEF GstTypes
      <4>2. CASE decoding_queue' = a
        <5>1. PICK n \in Nat : n = Len(decoding_queue)
              BY <1>1, LenProperties DEF GstTypes
        <5>2. ASSUME NEW k \in 1 .. Len(a)
              PROVE  /\ 0 < a[k] /\ a[k] <= queued + 1 /\ display_frame < a[k]
                     /\ \A j \in 1 .. Len(gst_shown) : gst_shown[j] < a[k]
          <6>1. CASE k = n + 1
                BY <1>1, <3>2, <3>3, <3>5, <5>1, <6>1 DEF GstTypes, GstOrder
          <6>2. CASE k # n + 1
            <7>1. k \in 1 .. n
                  BY <3>5, <5>1, <6>2
            <7> QED BY <1>1, <3>2, <3>3, <3>5, <5>1, <7>1 DEF GstOrder
          <6> QED BY <6>1, <6>2
        <5>3. \A j \in 1 .. Len(gst_shown) : gst_shown[j] <= queued + 1
              BY <1>1, <3>2, <3>3 DEF GstOrder
        <5>4. display_frame <= queued + 1
              BY <1>1, <3>3 DEF GstTypes, GstOrder
        <5> QED BY <1>1, <2>1, <3>1, <3>3, <3>5, <4>2, <5>2, <5>3, <5>4 DEF GstOrder
      <4> QED BY <3>7, <4>1, <4>2
    <3> QED BY <3>8, <3>9, <3>10 DEF GstInv
  <2> QED BY <2>2, <2>3
<1>3. CASE G!StreamDestroy
      BY <1>3, DestroyKeeps DEF G!StreamDestroy
<1>4. CASE G!PipelineError
  <2>1. /\ pipeline' = "freed" /\ encoded' = <<>> /\ appsink' = <<>> /\ gst_pc[2] = "idle"
        /\ UNCHANGED <<decoding_queue, display_frame, pending_samples, timer_id, sources,
                       stream, lock, gst_pc, local, queued, gst_shown>>
        BY <1>4 DEF G!PipelineError, G!FreePipeline
  <2>2. <<>> \in Seq(Nat)
        BY EmptySeq
  <2>3. GstTypes'
        BY <1>1, <2>1, <2>2 DEF GstTypes
  <2>4. GstPull' /\ GstTimer'
        BY <1>1, <2>1 DEF GstPull, GstTimer
  <2>5. GstOrder'
        BY <1>1, <2>1, OrderKept DEF GstTypes
  <2> QED BY <2>3, <2>4, <2>5 DEF GstInv
<1>5. CASE G!Decode
  <2>1. /\ gst_pc[2] = "idle" /\ pipeline = "playing" /\ encoded # <<>> /\ encoded' = Tail(encoded)
        /\ UNCHANGED <<decoding_queue, display_frame, pending_samples, timer_id, sources,
                       pipeline, stream, lock, local, queued, gst_shown>>
        BY <1>5 DEF G!Decode
  <2>2. encoded \in Seq(Nat) /\ Head(encoded) \in Nat /\ encoded' \in Seq(Nat)
        BY <1>1, <2>1, HeadTailProperties, Zenon DEF GstTypes
  <2>3. CASE UNCHANGED <<appsink, gst_pc>>
    <3>1. GstTypes'
          BY <1>1, <2>1, <2>2, <2>3 DEF GstTypes
    <3>2. GstPull' /\ GstTimer'
          BY <1>1, <2>1, <2>3 DEF GstPull, GstTimer
    <3>3. GstOrder'
          BY <1>1, <2>1, <2>3, OrderKept DEF GstTypes
    <3> QED BY <3>1, <3>2, <3>3 DEF GstInv
  <2>4. CASE ~UNCHANGED <<appsink, gst_pc>>
    <3>1. PICK s \in (1 .. Head(encoded)) \cup {G!Odd} : appsink' = Append(appsink, s)
          BY <1>5, <2>4 DEF G!Decode
    <3>2. s \in Nat
          BY <2>2, <3>1, MediaAssumption DEF G!Odd, G!GstVideoAssumption
    <3>3. appsink' \in Seq(Nat) /\ Len(appsink') = Len(appsink) + 1 /\ Len(appsink) \in Nat
          BY <1>1, <3>1, <3>2, AppendProperties, LenProperties DEF GstTypes
    <3>4. gst_pc' = [gst_pc EXCEPT ![2] = "new_sample"]
          BY <1>5, <2>4 DEF G!Decode, G!Goto
    <3>5. DOMAIN gst_pc' = {1, 2} /\ gst_pc'[2] = "new_sample" /\ gst_pc'[1] = gst_pc[1]
          BY <1>1, <3>4 DEF GstTypes
    <3>6. GstTypes'
          BY <1>1, <2>1, <2>2, <3>3, <3>5 DEF GstTypes
    <3>7. GstPull'
          BY <1>1, <2>1, <3>3, <3>5 DEF GstTypes, GstPull
    <3>8. GstTimer'
          BY <1>1, <2>1, <3>5 DEF GstTimer
    <3>9. GstOrder'
          BY <1>1, <2>1, <3>5, OrderKept DEF GstTypes
    <3> QED BY <3>6, <3>7, <3>8, <3>9 DEF GstInv
  <2> QED BY <2>3, <2>4
<1>6. CASE G!NewSample
  <2>1. /\ gst_pc[2] = "new_sample" /\ lock = 0 /\ pending_samples' = pending_samples + 1
        /\ \E x \in {"idle", "enter"} : gst_pc' = [gst_pc EXCEPT ![2] = x]
        /\ UNCHANGED <<decoding_queue, display_frame, timer_id, sources, pipeline, encoded,
                       appsink, stream, lock, local, queued, gst_shown>>
        BY <1>6 DEF G!NewSample, G!Goto
  <2>2. DOMAIN gst_pc' = {1, 2} /\ gst_pc'[2] \in {"idle", "enter"} /\ gst_pc'[1] = gst_pc[1]
        BY <1>1, <2>1 DEF GstTypes
  <2>3. GstTypes'
        BY <1>1, <2>1, <2>2 DEF GstTypes
  <2>4. GstPull'
    <3>1. Len(appsink) \in Nat
          BY <1>1, LenProperties DEF GstTypes
    <3> QED BY <1>1, <2>1, <2>2, <3>1 DEF GstTypes, GstPull
  <2>5. GstTimer'
        BY <1>1, <2>1, <2>2 DEF GstTimer
  <2>6. GstOrder'
        BY <1>1, <2>1, <2>2, OrderKept DEF GstTypes
  <2> QED BY <2>3, <2>4, <2>5, <2>6 DEF GstInv
<1> QED BY <1>2, <1>3, <1>4, <1>5, <1>6

\* schedule_frame, run by thread t
LEMMA ScheduleKeeps ==
  ASSUME GstInv, NEW t \in {1, 2}, G!Schedule(t)
  PROVE  GstInv'
<1> USE DEF G!None, G!Main, G!Gst, G!queues, G!timers, G!pipe
<1>1. GstTypes /\ GstPull /\ GstTimer /\ GstOrder
      BY DEF GstInv
<1>2. ASSUME NEW x, gst_pc' = [gst_pc EXCEPT ![t] = x]
      PROVE  DOMAIN gst_pc' = {1, 2} /\ \A u \in {1, 2} : gst_pc'[u] = IF u = t THEN x ELSE gst_pc[u]
      BY <1>1, <1>2 DEF GstTypes
<1>3. CASE G!ScheduleLock(t)
  <2>1. /\ gst_pc[t] = "enter" /\ lock = 0 /\ lock' = t /\ gst_pc' = [gst_pc EXCEPT ![t] = "in"]
        /\ UNCHANGED <<decoding_queue, display_frame, pending_samples, timer_id, sources, pipeline,
                       encoded, appsink, stream, local, queued, gst_shown>>
        BY <1>3 DEF G!ScheduleLock, G!Goto
  <2>2. DOMAIN gst_pc' = {1, 2} /\ \A u \in {1, 2} : gst_pc'[u] = IF u = t THEN "in" ELSE gst_pc[u]
        BY <1>2, <2>1
  <2>3. GstTypes'
        BY <1>1, <2>1, <2>2 DEF GstTypes
  <2>4. GstPull'
        BY <1>1, <2>1, <2>2 DEF GstPull
  <2>5. GstTimer'
        BY <1>1, <2>1, <2>2 DEF GstTimer
  <2>6. GstOrder'
        BY <1>1, <2>1, <2>2, OrderKept DEF GstTypes
  <2> QED BY <2>3, <2>4, <2>5, <2>6 DEF GstInv
<1>4. CASE G!Scheduled(t)
  <2>1. /\ gst_pc[t] = "in" /\ lock' = 0 /\ gst_pc' = [gst_pc EXCEPT ![t] = "idle"]
        /\ UNCHANGED <<decoding_queue, display_frame, pending_samples, timer_id, sources, pipeline,
                       encoded, appsink, stream, local, queued, gst_shown>>
        BY <1>4 DEF G!Scheduled, G!Goto
  <2>2. DOMAIN gst_pc' = {1, 2} /\ \A u \in {1, 2} : gst_pc'[u] = IF u = t THEN "idle" ELSE gst_pc[u]
        BY <1>2, <2>1
  <2>3. GstTypes'
        BY <1>1, <2>1, <2>2 DEF GstTypes
  <2>4. GstPull'
        BY <1>1, <2>1, <2>2 DEF GstPull
  <2>5. GstTimer'
        BY <1>1, <2>1, <2>2 DEF GstTimer
  <2>6. GstOrder'
        BY <1>1, <2>1, <2>2, OrderKept DEF GstTypes
  <2> QED BY <2>3, <2>4, <2>5, <2>6 DEF GstInv
<1>5. CASE G!SetTimer(t)
  <2>1. /\ gst_pc[t] = "in" /\ timer_id = 0 /\ display_frame # 0
        /\ timer_id' = G!NewTimer /\ sources' = sources \cup {G!NewTimer}
        /\ UNCHANGED <<decoding_queue, display_frame, pending_samples, pipeline, encoded, appsink,
                       stream, lock, gst_pc, local, queued, gst_shown>>
        BY <1>5 DEF G!SetTimer
  <2>2. sources \subseteq {local} /\ sources \subseteq {1, 2}
        BY <1>1, <2>1 DEF GstTypes, GstTimer
  <2>3. G!NewTimer \in {1, 2} \ sources
    <3>1. \E i \in 1 .. 2 : i \notin sources
          BY <1>1, <2>2 DEF GstTypes
    <3> QED BY <3>1 DEF G!NewTimer
  <2>4. GstTypes'
        BY <1>1, <2>1, <2>3 DEF GstTypes
  <2>5. GstPull'
        BY <1>1, <2>1 DEF GstPull
  <2>6. GstTimer'
        BY <1>1, <2>1, <2>2, <2>3 DEF GstTypes, GstTimer
  <2>7. GstOrder'
        BY <1>1, <2>1, OrderKept DEF GstTypes
  <2> QED BY <2>4, <2>5, <2>6, <2>7 DEF GstInv
<1>6. CASE G!DropLate(t)
  <2>1. /\ timer_id = 0 /\ display_frame' = 0
        /\ UNCHANGED <<decoding_queue, pending_samples, timer_id, sources, pipeline, encoded, appsink,
                       stream, lock, gst_pc, local, queued, gst_shown>>
        BY <1>6 DEF G!DropLate
  <2>2. GstTypes'
        BY <1>1, <2>1 DEF GstTypes
  <2>3. GstPull' /\ GstTimer'
        BY <1>1, <2>1 DEF GstPull, GstTimer
  <2>4. GstOrder'
        BY <1>1, <2>1, OrderKept DEF GstTypes
  <2> QED BY <2>2, <2>3, <2>4 DEF GstInv
<1>7. CASE G!Fetch(t)
  <2>1. /\ timer_id = 0 /\ display_frame = 0 /\ pending_samples > 0
        /\ UNCHANGED <<timer_id, sources, pipeline, encoded, stream, lock, gst_pc, local, queued,
                       gst_shown>>
        BY <1>7 DEF G!Fetch, G!Fetching
  <2>2. CASE pipeline = "freed"
    <3>1. pending_samples' = 0 /\ UNCHANGED <<appsink, display_frame, decoding_queue>>
          BY <1>7, <2>2 DEF G!Fetch
    <3>2. GstTypes'
          BY <1>1, <2>1, <3>1 DEF GstTypes
    <3>3. GstPull' /\ GstTimer'
          BY <1>1, <2>1, <2>2, <3>1 DEF GstPull, GstTimer
    <3>4. GstOrder'
          BY <1>1, <2>1, <3>1, OrderKept DEF GstTypes
    <3> QED BY <3>2, <3>3, <3>4 DEF GstInv
  <2>3. CASE pipeline = "playing"
    <3>1. PICK s : s = Head(appsink)
          OBVIOUS
    <3>2. /\ appsink # <<>> /\ appsink' = Tail(appsink) /\ pending_samples' = pending_samples - 1
          /\ IF \E k \in DOMAIN decoding_queue : decoding_queue[k] = s
               THEN display_frame' = s /\ decoding_queue' = G!UpTo(s, decoding_queue)
               ELSE UNCHANGED <<display_frame, decoding_queue>>
          BY <1>7, <2>3, <3>1 DEF G!Fetch, G!Fetched
    <3>3. /\ s \in Nat /\ appsink' \in Seq(Nat) /\ Len(appsink) \in Nat
          /\ Len(appsink') = Len(appsink) - 1
          BY <1>1, <3>1, <3>2, HeadTailProperties, LenProperties DEF GstTypes
    <3>4. GstPull'
      <4>1. pending_samples \in Nat /\ UNCHANGED <<pipeline, lock, gst_pc>>
            BY <1>1, <2>1 DEF GstTypes
      <4>2. pending_samples = Len(appsink) - (IF gst_pc[2] = "new_sample" THEN 1 ELSE 0)
            BY <1>1, <2>3 DEF GstPull
      <4>3. pending_samples' = Len(appsink') - (IF gst_pc[2] = "new_sample" THEN 1 ELSE 0)
        <5>1. pending_samples' = pending_samples - 1
              BY <3>2
        <5>2. PICK n \in Nat : n = Len(appsink)
              BY <3>3
        <5>3. Len(appsink') = n - 1
              BY <3>3, <5>2
        <5>4. CASE gst_pc[2] = "new_sample"
              BY ONLY <4>1, <4>2, <5>1, <5>2, <5>3, <5>4
        <5>5. CASE gst_pc[2] # "new_sample"
              BY ONLY <4>1, <4>2, <5>1, <5>2, <5>3, <5>5
        <5> QED BY <5>4, <5>5
      <4> QED BY <1>1, <2>3, <4>1, <4>3 DEF GstPull
    <3>5. GstTimer'
          BY <1>1, <2>1 DEF GstTimer
    <3>6. CASE ~\E k \in DOMAIN decoding_queue : decoding_queue[k] = s
      <4>1. UNCHANGED <<display_frame, decoding_queue>>
            BY <3>2, <3>6
      <4>2. GstTypes'
            BY <1>1, <2>1, <3>2, <3>3, <4>1 DEF GstTypes
      <4>3. GstOrder'
            BY <1>1, <2>1, <4>1, OrderKept DEF GstTypes
      <4> QED BY <3>4, <3>5, <4>2, <4>3 DEF GstInv
    <3>7. CASE \E k \in DOMAIN decoding_queue : decoding_queue[k] = s
      <4>1. decoding_queue \in Seq(Nat) /\ Rising(decoding_queue)
            /\ DOMAIN decoding_queue = 1 .. Len(decoding_queue)
            BY <1>1, LenProperties DEF GstTypes, GstOrder
      <4>2. PICK p \in 1 .. Len(decoding_queue) :
              decoding_queue[p] = s /\ p = G!Place(s, decoding_queue)
            BY <3>7, <4>1 DEF G!Place
      <4>3. display_frame' = s /\ decoding_queue' = SubSeq(decoding_queue, p + 1, Len(decoding_queue))
            BY <3>2, <3>7, <4>2 DEF G!UpTo
      <4>4. /\ decoding_queue' \in Seq(Nat) /\ Rising(decoding_queue')
            /\ \A j \in 1 .. Len(decoding_queue') :
                 /\ s < decoding_queue'[j]
                 /\ \E k \in 1 .. Len(decoding_queue) : decoding_queue'[j] = decoding_queue[k]
            BY <4>1, <4>2, <4>3, RisingRest
      <4>5. /\ s <= queued /\ (gst_pc[1] = "draw" => local < s)
            /\ \A j \in 1 .. Len(gst_shown) : gst_shown[j] < s
            BY <1>1, <4>2 DEF GstOrder
      <4>6. GstTypes'
            BY <1>1, <2>1, <3>2, <3>3, <4>3, <4>4 DEF GstTypes
      <4>7. ASSUME NEW j \in 1 .. Len(decoding_queue')
            PROVE  /\ 0 < decoding_queue'[j] /\ decoding_queue'[j] <= queued
                   /\ s < decoding_queue'[j]
                   /\ gst_pc[1] = "draw" => local < decoding_queue'[j]
                   /\ \A i \in 1 .. Len(gst_shown) : gst_shown[i] < decoding_queue'[j]
            BY <1>1, <4>4 DEF GstOrder
      <4>8. GstOrder'
            BY <1>1, <2>1, <4>3, <4>4, <4>5, <4>7 DEF GstOrder
      <4> QED BY <3>4, <3>5, <4>6, <4>8 DEF GstInv
    <3> QED BY <3>6, <3>7
  <2> QED BY <1>1, <2>2, <2>3 DEF GstTypes
<1> QED BY <1>3, <1>4, <1>5, <1>6, <1>7 DEF G!Schedule

\* The main loop: the timer that draws, and a clock that is reset.
LEMMA MainKeeps ==
  ASSUME GstInv,
         \/ G!TimerFires \/ G!TakeFrame \/ G!Draw
         \/ G!Reschedule \/ G!TakeTimer \/ G!RemoveTimer
  PROVE  GstInv'
<1> USE DEF G!None, G!Main, G!Gst, G!queues, G!timers, G!pipe
<1>1. GstTypes /\ GstPull /\ GstTimer /\ GstOrder
      BY DEF GstInv
<1>2. /\ UNCHANGED <<decoding_queue, pending_samples, pipeline, encoded, appsink, stream, lock, queued>>
      /\ \E x \in {"idle", "take", "draw", "reset", "remove", "enter"} :
           gst_pc' = [gst_pc EXCEPT ![1] = x]
      /\ gst_pc[1] # "in"
      BY DEF G!TimerFires, G!TakeFrame, G!Draw, G!AfterDraw, G!Reschedule, G!TakeTimer,
             G!RemoveTimer, G!Goto, G!Idle
<1>3. /\ DOMAIN gst_pc' = {1, 2} /\ gst_pc'[2] = gst_pc[2]
      /\ gst_pc'[1] \notin {"in", "new_sample"}
      /\ \A x : gst_pc' = [gst_pc EXCEPT ![1] = x] => gst_pc'[1] = x
      BY <1>1, <1>2 DEF GstTypes
<1>4. GstPull'
      BY <1>1, <1>2, <1>3 DEF GstPull
<1>5. CASE G!TimerFires
  <2>1. PICK i \in sources : sources' = sources \ {i}
        BY <1>5 DEF G!TimerFires
  <2>2. /\ gst_pc[1] = "idle" /\ gst_pc'[1] = "take"
        /\ UNCHANGED <<display_frame, timer_id, local, gst_shown>>
        BY <1>3, <1>5 DEF G!TimerFires, G!Goto, G!Idle
  <2>3. GstTypes'
        BY <1>1, <1>2, <1>3, <2>1, <2>2 DEF GstTypes
  <2>4. GstTimer'
        BY <1>1, <2>1, <2>2 DEF GstTypes, GstTimer
  <2>5. GstOrder'
        BY <1>1, <1>2, <2>2, OrderKept DEF GstTypes
  <2> QED BY <1>4, <2>3, <2>4, <2>5 DEF GstInv
<1>6. CASE G!TakeFrame
  <2>1. /\ gst_pc[1] = "take" /\ timer_id' = 0 /\ local' = display_frame /\ display_frame' = 0
        /\ gst_pc'[1] = (IF display_frame = 0 THEN "idle" ELSE "draw")
        /\ UNCHANGED <<sources, gst_shown>>
        BY <1>3, <1>6 DEF G!TakeFrame, G!Goto
  <2>2. GstTypes'
        BY <1>1, <1>2, <1>3, <2>1 DEF GstTypes
  <2>3. GstTimer'
        BY <1>1, <2>1 DEF GstTypes, GstTimer
  <2>4. GstOrder'
    <3>1. /\ \A k \in 1 .. Len(decoding_queue) : decoding_queue[k] \in Nat
          /\ \A k \in 1 .. Len(gst_shown) : gst_shown[k] \in Nat
          BY <1>1, ElementOfSeq DEF GstTypes
    <3> QED BY <1>1, <1>2, <2>1, <3>1 DEF GstTypes, GstOrder
  <2> QED BY <1>4, <2>2, <2>3, <2>4 DEF GstInv
<1>7. CASE G!Draw
  <2>1. /\ gst_pc[1] = "draw" /\ gst_shown' = Append(gst_shown, local) /\ local' = 0
        /\ gst_pc'[1] = "enter" /\ UNCHANGED <<display_frame, timer_id, sources>>
        BY <1>3, <1>7 DEF G!Draw, G!AfterDraw, G!Goto
  <2>2. /\ gst_shown' \in Seq(Nat) /\ Len(gst_shown') = Len(gst_shown) + 1 /\ Rising(gst_shown')
        /\ \A j \in 1 .. Len(gst_shown) : gst_shown'[j] = gst_shown[j]
        /\ gst_shown'[Len(gst_shown) + 1] = local
        BY <1>1, <2>1, RisingAppend DEF GstTypes, GstOrder
  <2>3. GstTypes'
        BY <1>1, <1>2, <1>3, <2>1, <2>2 DEF GstTypes
  <2>4. GstTimer'
        BY <1>1, <2>1 DEF GstTypes, GstTimer
  <2>5. PICK n \in Nat : n = Len(gst_shown)
        BY <1>1, LenProperties DEF GstTypes
  <2>6. ASSUME NEW j \in 1 .. n + 1
        PROVE  /\ gst_shown'[j] <= queued
               /\ display_frame # 0 => gst_shown'[j] < display_frame
               /\ \A k \in 1 .. Len(decoding_queue) : gst_shown'[j] < decoding_queue[k]
    <3>1. CASE j = n + 1
          BY <1>1, <2>1, <2>2, <2>5, <3>1 DEF GstOrder
    <3>2. CASE j # n + 1
      <4>1. j \in 1 .. n
            BY <3>2
      <4> QED BY <1>1, <2>2, <2>5, <4>1 DEF GstOrder
    <3> QED BY <3>1, <3>2
  <2>7. GstOrder'
        BY <1>1, <1>2, <2>1, <2>2, <2>5, <2>6 DEF GstOrder
  <2> QED BY <1>4, <2>3, <2>4, <2>7 DEF GstInv
<1>8. CASE G!Reschedule
  <2>1. /\ gst_pc[1] = "idle" /\ gst_pc'[1] = "reset"
        /\ UNCHANGED <<display_frame, timer_id, sources, local, gst_shown>>
        BY <1>3, <1>8 DEF G!Reschedule, G!Goto, G!Idle
  <2>2. GstTypes'
        BY <1>1, <1>2, <1>3, <2>1 DEF GstTypes
  <2>3. GstTimer'
        BY <1>1, <2>1 DEF GstTimer
  <2>4. GstOrder'
        BY <1>1, <1>2, <2>1, OrderKept DEF GstTypes
  <2> QED BY <1>4, <2>2, <2>3, <2>4 DEF GstInv
<1>9. CASE G!TakeTimer
  <2>1. /\ gst_pc[1] = "reset" /\ gst_pc'[1] = "remove" /\ local' = timer_id /\ timer_id' = 0
        /\ UNCHANGED <<display_frame, sources, gst_shown>>
        BY <1>3, <1>9 DEF G!TakeTimer, G!Goto
  <2>2. GstTypes'
        BY <1>1, <1>2, <1>3, <2>1 DEF GstTypes
  <2>3. GstTimer'
        BY <1>1, <2>1 DEF GstTypes, GstTimer
  <2>4. GstOrder'
        BY <1>1, <1>2, <2>1, OrderKept DEF GstTypes
  <2> QED BY <1>4, <2>2, <2>3, <2>4 DEF GstInv
<1>10. CASE G!RemoveTimer
  <2>1. /\ gst_pc[1] = "remove" /\ gst_pc'[1] = "enter" /\ sources' = sources \ {local} /\ local' = 0
        /\ UNCHANGED <<display_frame, timer_id, gst_shown>>
        BY <1>3, <1>10 DEF G!RemoveTimer, G!Removed, G!Goto
  <2>2. GstTypes'
        BY <1>1, <1>2, <1>3, <2>1 DEF GstTypes
  <2>3. GstTimer'
        BY <1>1, <2>1 DEF GstTypes, GstTimer
  <2>4. GstOrder'
        BY <1>1, <1>2, <2>1, OrderKept DEF GstTypes
  <2> QED BY <1>4, <2>2, <2>3, <2>4 DEF GstInv
<1> QED BY <1>5, <1>6, <1>7, <1>8, <1>9, <1>10

LEMMA GstStill == GstInv /\ UNCHANGED gstVars => GstInv'
<1> SUFFICES ASSUME GstInv, UNCHANGED gstVars PROVE GstInv'
    OBVIOUS
<1>1. GstTypes /\ GstPull /\ GstTimer /\ GstOrder
      BY DEF GstInv
<1>2. UNCHANGED <<pipeline, stream, encoded, appsink, decoding_queue, display_frame,
                  pending_samples, timer_id, sources, lock, gst_pc, local, queued, gst_shown>>
      BY DEF gstVars
<1>3. GstTypes'
      BY <1>1, <1>2 DEF GstTypes
<1>4. GstPull' /\ GstTimer'
      BY <1>1, <1>2 DEF GstPull, GstTimer
<1>5. GstOrder'
      BY <1>1, <1>2, OrderKept DEF GstTypes
<1> QED BY <1>3, <1>4, <1>5 DEF GstInv

LEMMA GstStep == GstInv /\ [MCNext]_mcvars => GstInv'
<1> SUFFICES ASSUME GstInv, [MCNext]_mcvars PROVE GstInv'
    OBVIOUS
<1>1. CASE UNCHANGED gstVars
      BY <1>1, GstStill
<1>2. CASE ~UNCHANGED gstVars
  <2>1. MCNext
        BY <1>2 DEF mcvars
  <2>2. ASSUME NEW x \in {"display", "mjpeg", "glz", "cache", "cursor"}, On(x)
        PROVE  FALSE
        BY <1>2, <2>2 DEF On
  <2>3. \/ G!QueueFrame \/ G!StreamDestroy \/ G!PipelineError \/ G!Decode \/ G!NewSample
        \/ \E t \in {1, 2} : G!Schedule(t)
        \/ G!TimerFires \/ G!TakeFrame \/ G!Draw
        \/ G!Reschedule \/ G!TakeTimer \/ G!RemoveTimer
        BY <2>1, <2>2 DEF MCNext
  <2> QED BY <2>3, PipelineKeeps, ScheduleKeeps, MainKeeps
<1> QED BY <1>1, <1>2

\* The GStreamer decoder of a stream (schedule_frame, fetch_pending_sample, new_sample,
\* display_frame, spice_gst_decoder_reschedule and _destroy), for any number of frames and
\* resets of the clock: whichever of its two threads runs, a pull finds a sample, there is
\* one timer and it has a frame, and frames are drawn once and in order.
THEOREM GstSafeTheorem == MCSpec => []GstSafe
<1>1. MCInit => GstInv
      BY InitGstInv DEF MCInit
<1>2. GstInv /\ [MCNext]_mcvars => GstInv'
      BY GstStep
<1>3. GstInv => GstSafe
  <2> SUFFICES ASSUME GstInv PROVE G!PullNeverWaits /\ G!OneTimer /\ G!DrawnInOrder
      BY DEF GstSafe
  <2>1. GstTypes /\ GstPull /\ GstTimer /\ GstOrder
        BY DEF GstInv
  <2>2. G!PullNeverWaits
        BY <2>1 DEF GstTypes, GstPull, G!PullNeverWaits, G!None, G!Gst
  <2>3. G!OneTimer
        BY <2>1 DEF GstTimer, G!OneTimer, G!None, G!Main
  <2>4. G!DrawnInOrder
    <3>1. DOMAIN gst_shown = 1 .. Len(gst_shown)
          BY <2>1, LenProperties DEF GstTypes
    <3> QED BY <2>1, <3>1 DEF GstOrder, Rising, G!DrawnInOrder
  <2> QED BY <2>2, <2>3, <2>4
<1> QED BY <1>1, <1>2, <1>3, PTL DEF MCSpec


-----------------------------------------------------------------------------
(* MJPEG video *)

MjpegFrames == [n : Nat \ {0}, time : 0 .. W - 1]
Decoders == [msgq : Seq(MjpegFrames), cur : MjpegFrames \cup {J!None}, wait : Int, slipped : Int]

\* f is a frame that decoder d keeps.
Keeps(d, f) == \/ f = d.cur /\ d.cur # J!None
               \/ \E k \in 1 .. Len(d.msgq) : f = d.msgq[k]
InTurn(s) == \A j, k \in 1 .. Len(s) : j < k => s[j].n < s[k].n
Ordered(d) == /\ InTurn(d.msgq)
              /\ d.cur # J!None => \A k \in 1 .. Len(d.msgq) : d.cur.n < d.msgq[k].n
Timed(d) == /\ d.wait = -1 => d.cur = J!None /\ d.msgq = <<>>
            /\ d.wait # -1 => d.wait >= 0 /\ d.cur # J!None
\* The timer of decoder d is right when the clock shows t.
RightAt(d, t) == d.wait # -1 => d.wait = (d.cur.time + d.slipped - t) % W

MjpegTypes ==
  /\ now \in 0 .. W - 1 /\ resetting \in BOOLEAN /\ decoder \in Decoders
  /\ frames \in Nat /\ drawn \in Seq(Nat)
MjpegQueue ==
  /\ Ordered(decoder) /\ Timed(decoder) /\ Rising(drawn)
  /\ \A f : Keeps(decoder, f) => f.n <= frames /\ \A j \in 1 .. Len(drawn) : drawn[j] < f.n
  /\ \A j \in 1 .. Len(drawn) : drawn[j] <= frames
  /\ resetting = FALSE => RightAt(decoder, now)
MjpegReports ==
  /\ report \in [frames : Nat, drops : Nat, run : Nat, active : BOOLEAN]
  /\ told \in [frames : Nat, drops : Nat] /\ since \in [frames : Nat, drops : Nat]
  /\ late_run \in Nat /\ syncs \in Nat /\ syncs <= late_run /\ late_run < SyncLimit
  /\ since.frames = told.frames + report.frames /\ since.drops = told.drops + report.drops
  /\ report.run < DropLimit
  /\ report.active = FALSE => report.frames = 0 /\ report.drops = 0
MjpegInv == MjpegTypes /\ MjpegQueue /\ MjpegReports

LEMMA MjpegConstants ==
  W \in Nat \ {0} /\ W > 4 /\ DropLimit \in Nat \ {0} /\ SyncLimit \in Nat \ {0}
BY MediaAssumption DEF J!MjpegStreamAssumption

\* Differences modulo W
LEMMA ModIs ==
  ASSUME NEW x \in Int
  PROVE  x % W \in 0 .. W - 1 /\ x \div W \in Int /\ x = W * (x \div W) + (x % W)
BY MjpegConstants

LEMMA ModUnique ==
  ASSUME NEW q \in Int, NEW r \in Nat, r < W, NEW x \in Int, x = q * W + r
  PROVE  x % W = r
BY MjpegConstants

\* Numbers that differ by a multiple of W are the same time.
LEMMA ModSame ==
  ASSUME NEW x \in Int, NEW y \in Int, NEW k \in Int, x = y + k * W
  PROVE  x % W = y % W
<1>1. PICK r \in 0 .. W - 1, q \in Int : r = y % W /\ q = y \div W
      BY ModIs
<1>2. y = W * q + r
      BY <1>1, ModIs
<1>3. PICK p \in Int : p = q + k
      OBVIOUS
<1>4. W \in Nat /\ r \in Nat /\ r < W /\ x = p * W + r
      BY <1>1, <1>2, <1>3, MjpegConstants
<1>5. x % W = r
      BY <1>4, ModUnique
<1> QED BY <1>1, <1>5

\* A clock that goes on: what is left is one less.
LEMMA ModLess ==
  ASSUME NEW x \in Int, x % W > 0
  PROVE  (x - 1) % W = (x % W) - 1
<1>1. PICK r \in 0 .. W - 1, q \in Int : r = x % W /\ q = x \div W
      BY ModIs
<1>2. x = W * q + r
      BY <1>1, ModIs
<1>3. PICK p \in Nat : p = r - 1
      BY <1>1
<1>4. PICK y \in Int : y = x - 1
      OBVIOUS
<1>5. W \in Nat /\ p < W /\ y = q * W + p
      BY <1>1, <1>2, <1>3, <1>4, MjpegConstants
<1>6. y % W = p
      BY <1>5, ModUnique
<1> QED BY <1>1, <1>3, <1>4, <1>6

LEMMA DiffIs ==
  ASSUME NEW a \in Int, NEW b \in Int
  PROVE  J!mmtime_diff(a, b) \in Int /\ \E k \in Int : a = b + J!mmtime_diff(a, b) + k * W
<1> DEFINE r == (a - b) % W
<1>1. r \in 0 .. W - 1 /\ (a - b) \div W \in Int /\ a - b = W * ((a - b) \div W) + r
      BY ModIs
<1> HIDE DEF r
<1>2. PICK q \in Int : a - b = W * q + r
      BY <1>1
<1>3. J!mmtime_diff(a, b) = r \/ J!mmtime_diff(a, b) = r - W
      BY DEF J!mmtime_diff, J!Wrapped, r
<1>4. W \in Nat
      BY MjpegConstants
<1>5. CASE J!mmtime_diff(a, b) = r
  <2>1. a = b + r + q * W
        BY <1>1, <1>2, <1>4
  <2> QED BY <1>1, <1>5, <2>1
<1>6. CASE J!mmtime_diff(a, b) = r - W
  <2>1. a = b + (r - W) + (q + 1) * W
        BY <1>1, <1>2, <1>4
  <2> QED BY <1>1, <1>4, <1>6, <2>1
<1> QED BY <1>3, <1>5, <1>6

\* A set of naturals has a least one.
LEMMA SmallestNat ==
  ASSUME NEW T \in SUBSET Nat, T # {}
  PROVE  \E x \in T : \A y \in T : x <= y
<1> DEFINE R == OpToRel(<, Nat)
<1>1. IsWellFoundedOn(R, Nat)
      BY NatLessThanWellFounded
<1>2. \A x, y \in Nat : x < y => <<x, y>> \in R
      BY DEF OpToRel
<1> HIDE DEF R
<1>3. \E x \in T : \A y \in T : ~ (<<y, x>> \in R)
      BY <1>1, WFMin
<1>4. PICK x \in T : \A y \in T : ~ (<<y, x>> \in R)
      BY <1>3
<1>5. ASSUME NEW y \in T PROVE x <= y
  <2>1. x \in Nat /\ y \in Nat /\ ~ (<<y, x>> \in R)
        BY <1>4
  <2>2. ~ (y < x)
        BY <1>2, <2>1
  <2> QED BY <2>1, <2>2
<1> QED BY <1>5

LEMMA FramesAre == J!None \notin MjpegFrames /\ J!NoTimer = -1 /\ J!Times = 0 .. W - 1
BY DEF J!None, MjpegFrames, J!NoTimer, J!Times

LEMMA EmptyIs ==
  /\ J!Empty \in Decoders /\ J!Empty.msgq = <<>> /\ J!Empty.cur = J!None
  /\ J!Empty.wait = -1 /\ J!Empty.slipped = 0
  /\ Ordered(J!Empty) /\ Timed(J!Empty) /\ \A f : ~Keeps(J!Empty, f) /\ \A t : RightAt(J!Empty, t)
<1>1. <<>> \in Seq(MjpegFrames) /\ Len(<<>>) = 0
      BY EmptySeq
<1>2. /\ J!Empty \in Decoders /\ J!Empty.msgq = <<>> /\ J!Empty.cur = J!None
      /\ J!Empty.wait = -1 /\ J!Empty.slipped = 0
      BY <1>1 DEF J!Empty, J!NoTimer, Decoders
<1> QED BY <1>1, <1>2 DEF Ordered, InTurn, Timed, Keeps, RightAt

\* What mjpeg_decoder_schedule leaves when there is no timer.
LEMMA NextScheduled ==
  ASSUME NEW d \in Decoders, d.wait = -1, Ordered(d), now \in 0 .. W - 1
  PROVE  LET s == J!schedule(d) IN
         /\ s \in Decoders /\ Ordered(s) /\ Timed(s) /\ RightAt(s, now)
         /\ \A f : Keeps(s, f) => Keeps(d, f)
<1> DEFINE all == (IF d.cur = J!None THEN <<>> ELSE <<d.cur>>) \o d.msgq
           due == {k \in DOMAIN all : J!mmtime_diff(now, all[k].time) <= 0}
<1>1. d.msgq \in Seq(MjpegFrames) /\ d.cur \in MjpegFrames \cup {J!None}
      BY DEF Decoders
<1>2. PICK n \in Nat : n = Len(d.msgq)
      BY <1>1, LenProperties
<1>3. /\ all \in Seq(MjpegFrames) /\ InTurn(all)
      /\ \A j \in 1 .. Len(all) : Keeps(d, all[j])
  <2>1. CASE d.cur = J!None
    <3>1. /\ <<>> \in Seq(MjpegFrames) /\ Len(<<>>) = 0
          BY EmptySeq
    <3>2. /\ all \in Seq(MjpegFrames) /\ Len(all) = n
          /\ \A j \in 1 .. n : all[j] = d.msgq[j]
          BY <1>1, <1>2, <2>1, <3>1, ConcatProperties
    <3> HIDE DEF all
    <3> QED BY <1>2, <3>2 DEF Ordered, InTurn, Keeps
  <2>2. CASE d.cur # J!None
    <3>1. /\ <<d.cur>> \in Seq(MjpegFrames) /\ Len(<<d.cur>>) = 1 /\ <<d.cur>>[1] = d.cur
          BY <1>1, <2>2
    <3>2. /\ all \in Seq(MjpegFrames) /\ Len(all) = 1 + n
          /\ all[1] = d.cur /\ \A j \in 2 .. n + 1 : all[j] = d.msgq[j - 1]
          BY <1>1, <1>2, <2>2, <3>1, ConcatProperties
    <3> HIDE DEF all
    <3>3. ASSUME NEW j \in 1 .. n + 1 PROVE Keeps(d, all[j])
      <4>1. CASE j = 1
            BY <2>2, <3>2, <4>1 DEF Keeps
      <4>2. CASE j # 1
        <5>1. j - 1 \in 1 .. n /\ j \in 2 .. n + 1
              BY <4>2
        <5> QED BY <1>2, <3>2, <5>1 DEF Keeps
      <4> QED BY <4>1, <4>2
    <3>4. ASSUME NEW j \in 1 .. n + 1, NEW k \in 1 .. n + 1, j < k PROVE all[j].n < all[k].n
      <4>1. k - 1 \in 1 .. n /\ k \in 2 .. n + 1
            BY <3>4
      <4>2. CASE j = 1
            BY <1>2, <2>2, <3>2, <4>1, <4>2 DEF Ordered
      <4>3. CASE j # 1
        <5>1. j - 1 \in 1 .. n /\ j \in 2 .. n + 1 /\ j - 1 < k - 1
              BY <3>4, <4>3
        <5> QED BY <1>2, <3>2, <4>1, <5>1 DEF Ordered, InTurn
      <4> QED BY <4>2, <4>3
    <3> QED BY <3>2, <3>3, <3>4 DEF InTurn
  <2> QED BY <2>1, <2>2
<1>4. J!schedule(d) = IF due = {} THEN J!Empty
                      ELSE LET k == CHOOSE k \in due : \A j \in due : k <= j
                           IN [msgq |-> SubSeq(all, k + 1, Len(all)), cur |-> all[k],
                               wait |-> (all[k].time - now) % W, slipped |-> 0]
      BY DEF J!schedule, J!NoTimer
<1>5. DOMAIN all = 1 .. Len(all) /\ Len(all) \in Nat
      BY <1>3, LenProperties
<1>6. CASE due = {}
      BY <1>4, <1>6, EmptyIs
<1>7. CASE due # {}
  <2> HIDE DEF all
  <2>1. due \subseteq Nat
        BY <1>5 DEF due
  <2>2. \E k \in due : \A j \in due : k <= j
        BY <1>7, <2>1, SmallestNat
  <2>3. PICK k : k = CHOOSE i \in due : \A j \in due : i <= j
        OBVIOUS
  <2>4. k \in due
        BY <2>2, <2>3
  <2>5. k \in 1 .. Len(all)
        BY <1>5, <2>4
  <2>6. PICK m \in Nat : m = Len(all)
        BY <1>5
  <2>7. J!schedule(d) = [msgq |-> SubSeq(all, k + 1, m), cur |-> all[k],
                         wait |-> (all[k].time - now) % W, slipped |-> 0]
        BY <1>4, <1>7, <2>3, <2>6
  <2> HIDE DEF all, due
  <2>8. \A j \in 1 .. m : all[j] \in MjpegFrames /\ Keeps(d, all[j])
        BY <1>3, <2>6, ElementOfSeq
  <2>9. PICK q : q = SubSeq(all, k + 1, m)
        OBVIOUS
  <2>10. q \in Seq(MjpegFrames) /\ Len(q) = m - k /\ \A j \in 1 .. m - k : q[j] = all[k + j]
    <3>1. k + 1 \in Int /\ m \in Int /\ \A j \in k + 1 .. m : all[j] \in MjpegFrames
          BY <2>5, <2>6, <2>8
    <3>2. /\ q \in Seq(MjpegFrames) /\ Len(q) = IF k + 1 <= m THEN m - (k + 1) + 1 ELSE 0
          /\ \A j \in 1 .. m - (k + 1) + 1 : q[j] = all[(k + 1) + j - 1]
          BY <2>9, <3>1, SubSeqProperties
    <3>3. Len(q) = m - k
          BY <2>5, <2>6, <3>2
    <3>4. ASSUME NEW j \in 1 .. m - k PROVE q[j] = all[k + j]
      <4>1. j \in 1 .. m - (k + 1) + 1 /\ (k + 1) + j - 1 = k + j
            BY <2>5, <2>6
      <4> QED BY <3>2, <4>1
    <3> QED BY <3>2, <3>3, <3>4
  <2>11. PICK w \in 0 .. W - 1 : w = (all[k].time - now) % W
    <3>1. all[k].time - now \in Int
          BY <2>5, <2>6, <2>8, MjpegConstants DEF MjpegFrames
    <3> QED BY <3>1, ModIs
  <2>12. J!schedule(d) = [msgq |-> q, cur |-> all[k], wait |-> w, slipped |-> 0]
        BY <2>7, <2>9, <2>11
  <2>13. PICK s : s = J!schedule(d)
        OBVIOUS
  <2>14. s.msgq = q /\ s.cur = all[k] /\ s.wait = w /\ s.slipped = 0
        BY <2>12, <2>13
  <2>15. all[k] \in MjpegFrames /\ all[k] # J!None /\ w >= 0 /\ w \in Int
        BY <2>5, <2>6, <2>8, <2>11, FramesAre, MjpegConstants
  <2>16. s \in Decoders
        BY <2>10, <2>12, <2>13, <2>15 DEF Decoders
  <2>17. \A i \in 1 .. m - k : k + i \in 1 .. m /\ k < k + i
        BY <2>5, <2>6
  <2>18. Ordered(s)
    <3>1. \A i, j \in 1 .. m - k : i < j => q[i].n < q[j].n
      <4>1. ASSUME NEW i \in 1 .. m - k, NEW j \in 1 .. m - k, i < j PROVE q[i].n < q[j].n
        <5>1. k + i \in 1 .. m /\ k + j \in 1 .. m /\ k + i < k + j
              BY <2>5, <2>6, <4>1
        <5> QED BY <1>3, <2>6, <2>10, <5>1 DEF InTurn
      <4> QED BY <4>1
    <3>2. \A i \in 1 .. m - k : all[k].n < q[i].n
          BY <1>3, <2>5, <2>6, <2>10, <2>17 DEF InTurn
    <3> QED BY <2>10, <2>14, <3>1, <3>2 DEF Ordered, InTurn
  <2>19. Timed(s)
        BY <2>14, <2>15 DEF Timed
  <2>20. RightAt(s, now)
    <3>1. all[k].time + 0 - now = all[k].time - now
          BY <2>15, MjpegConstants DEF MjpegFrames
    <3> QED BY <2>11, <2>14, <3>1 DEF RightAt
  <2>21. \A f : Keeps(s, f) => Keeps(d, f)
    <3>1. ASSUME NEW i \in 1 .. m - k PROVE Keeps(d, q[i])
          BY <2>8, <2>10, <2>17
    <3>2. Keeps(d, all[k])
          BY <2>5, <2>6, <2>8
    <3> QED BY <2>10, <2>14, <3>1, <3>2 DEF Keeps
  <2> QED BY <2>13, <2>16, <2>18, <2>19, <2>20, <2>21
<1> QED BY <1>6, <1>7

\* A decoder that has its timer keeps it; otherwise the next frame gets one.
LEMMA Schedules ==
  ASSUME NEW d \in Decoders, d.wait >= -1, d.wait # -1 => d.cur # J!None,
         Ordered(d), now \in 0 .. W - 1
  PROVE  LET s == J!schedule(d) IN
         /\ s \in Decoders /\ Ordered(s) /\ Timed(s)
         /\ \A f : Keeps(s, f) => Keeps(d, f)
         /\ (d.wait = -1 \/ RightAt(d, now)) => RightAt(s, now)
<1>1. CASE d.wait = -1
      BY <1>1, NextScheduled
<1>2. CASE d.wait # -1
  <2>1. J!schedule(d) = d
        BY <1>2 DEF J!schedule, J!NoTimer
  <2>2. Timed(d)
        BY <1>2 DEF Timed, Decoders
  <2> QED BY <1>2, <2>1, <2>2
<1> QED BY <1>1, <1>2

LEMMA QueueFrame ==
  ASSUME NEW d \in Decoders, Timed(d), Ordered(d), now \in 0 .. W - 1,
         NEW f \in MjpegFrames, \A g : Keeps(d, g) => g.n < f.n,
         NEW late
  PROVE  LET s == J!queue_frame(d, f, late) IN
         /\ s \in Decoders /\ Ordered(s) /\ Timed(s) /\ (RightAt(d, now) => RightAt(s, now))
         /\ \A g : Keeps(s, g) => Keeps(d, g) \/ g = f
<1>1. PICK e : e = (IF J!Before(f, d) THEN J!Empty ELSE d)
      OBVIOUS
<1>2. /\ e \in Decoders /\ Timed(e) /\ Ordered(e) /\ (RightAt(d, now) => RightAt(e, now))
      /\ \A g : Keeps(e, g) => Keeps(d, g) /\ g.n < f.n
      BY <1>1, EmptyIs
<1>3. CASE late
  <2>1. J!queue_frame(d, f, late) = e
        BY <1>1, <1>3 DEF J!queue_frame
  <2> QED BY <1>2, <2>1
<1>4. CASE ~late
  <2>1. PICK b : b = [e EXCEPT !.msgq = Append(@, f)]
        OBVIOUS
  <2>2. J!queue_frame(d, f, late) = J!schedule(b)
        BY <1>1, <1>4, <2>1 DEF J!queue_frame
  <2>3. PICK n \in Nat : n = Len(e.msgq)
        BY <1>2, LenProperties DEF Decoders
  <2>4. PICK q : q = Append(e.msgq, f)
        OBVIOUS
  <2>5. /\ q \in Seq(MjpegFrames) /\ Len(q) = n + 1 /\ q[n + 1] = f
        /\ \A k \in 1 .. n : q[k] = e.msgq[k]
        BY <1>2, <2>3, <2>4, AppendProperties DEF Decoders
  <2>6. b.msgq = q /\ b.cur = e.cur /\ b.wait = e.wait /\ b.slipped = e.slipped /\ b \in Decoders
        BY <1>2, <2>1, <2>4, <2>5 DEF Decoders
  <2>7. \A k \in 1 .. n : Keeps(e, q[k])
        BY <2>3, <2>5 DEF Keeps
  <2>8. Ordered(b)
    <3>1. ASSUME NEW j \in 1 .. n + 1, NEW k \in 1 .. n + 1, j < k PROVE q[j].n < q[k].n
      <4>1. j \in 1 .. n
            BY <3>1
      <4>2. CASE k = n + 1
            BY <1>2, <2>5, <2>7, <4>1, <4>2
      <4>3. CASE k # n + 1
        <5>1. k \in 1 .. n
              BY <4>3
        <5> QED BY <1>2, <2>3, <2>5, <3>1, <4>1, <5>1 DEF Ordered, InTurn
      <4> QED BY <4>2, <4>3
    <3>2. ASSUME e.cur # J!None, NEW k \in 1 .. n + 1 PROVE e.cur.n < q[k].n
      <4>1. CASE k = n + 1
            BY <1>2, <2>5, <3>2, <4>1 DEF Keeps
      <4>2. CASE k # n + 1
        <5>1. k \in 1 .. n
              BY <4>2
        <5> QED BY <1>2, <2>3, <2>5, <3>2, <5>1 DEF Ordered
      <4> QED BY <4>1, <4>2
    <3> QED BY <2>5, <2>6, <3>1, <3>2 DEF Ordered, InTurn
  <2>9. /\ b.wait >= -1 /\ (b.wait # -1 => b.cur # J!None)
        /\ (RightAt(e, now) => RightAt(b, now))
        BY <1>2, <2>6 DEF Timed, RightAt, Decoders
  <2>10. \A g : Keeps(b, g) => Keeps(e, g) \/ g = f
    <3>1. ASSUME NEW k \in 1 .. n + 1 PROVE Keeps(e, q[k]) \/ q[k] = f
      <4>1. k = n + 1 \/ k \in 1 .. n
            OBVIOUS
      <4> QED BY <2>5, <2>7, <4>1
    <3> QED BY <2>5, <2>6, <3>1 DEF Keeps
  <2> QED BY <1>2, <2>2, <2>6, <2>8, <2>9, <2>10, Schedules
<1> QED BY <1>3, <1>4

\* What the invariant asks of a next state, spelled out.
LEMMA QueueNext ==
  ASSUME NEW s \in Decoders, decoder' = s, Ordered(s), Timed(s),
         NEW z \in Seq(Nat), drawn' = z, Rising(z), NEW n \in Nat, frames' = n,
         \A f : Keeps(s, f) => f.n <= n /\ \A j \in 1 .. Len(z) : z[j] < f.n,
         \A j \in 1 .. Len(z) : z[j] <= n,
         NEW t \in 0 .. W - 1, now' = t, resetting' \in BOOLEAN,
         resetting' = FALSE => RightAt(s, t)
  PROVE  MjpegTypes' /\ MjpegQueue'
<1>1. MjpegTypes'
      BY DEF MjpegTypes
<1>2. MjpegQueue'
      BY DEF MjpegQueue, Ordered, Timed, RightAt, Keeps, InTurn, Rising
<1> QED BY <1>1, <1>2

LEMMA ClearedIs ==
  ASSUME NEW r
  PROVE  J!AfterReport(r) = [frames |-> 0, drops |-> 0, run |-> 0, active |-> TRUE]
<1>1. J!AfterReport(r) = [J!Off EXCEPT !.active = TRUE]
      BY DEF J!AfterReport, J!Cleared
<1>2. J!Off = [frames |-> 0, drops |-> 0, run |-> 0, active |-> FALSE]
      BY DEF J!Off
<1> QED BY <1>1, <1>2

LEMMA ReportKeeps ==
  ASSUME MjpegReports, NEW late, J!UpdateReport(late),
         late_run' = (LET run == IF late THEN late_run + 1 ELSE 0 IN
                      IF run >= SyncLimit THEN 0 ELSE run),
         syncs' = (LET run == IF late THEN late_run + 1 ELSE 0 IN
                   IF late /\ run < SyncLimit THEN syncs + 1 ELSE 0)
  PROVE  MjpegReports'
<1>1. /\ report \in [frames : Nat, drops : Nat, run : Nat, active : BOOLEAN]
      /\ told \in [frames : Nat, drops : Nat] /\ since \in [frames : Nat, drops : Nat]
      /\ late_run \in Nat /\ syncs \in Nat /\ syncs <= late_run /\ late_run < SyncLimit
      /\ since.frames = told.frames + report.frames /\ since.drops = told.drops + report.drops
      /\ report.run < DropLimit
      /\ report.active = FALSE => report.frames = 0 /\ report.drops = 0
      BY DEF MjpegReports
<1>2. late_run' \in Nat /\ syncs' \in Nat /\ syncs' <= late_run' /\ late_run' < SyncLimit
      BY <1>1, MjpegConstants
<1>3. CASE report.active = FALSE
  <2>1. UNCHANGED <<report, told, since>>
        BY <1>3 DEF J!UpdateReport
  <2> QED BY <1>1, <1>2, <2>1 DEF MjpegReports
<1>4. CASE report.active # FALSE
  <2>1. PICK f \in Nat, p \in Nat, u \in Nat :
          report = [frames |-> f, drops |-> p, run |-> u, active |-> TRUE]
        BY <1>1, <1>4
  <2>2. PICK o \in 0 .. 1 : o = IF late THEN 1 ELSE 0
        OBVIOUS
  <2>3. PICK v \in Nat : v = IF late THEN u + 1 ELSE 0
        OBVIOUS
  <2>4. J!Counted(late) = [frames |-> f + 1, drops |-> p + o, run |-> v, active |-> TRUE]
        BY <2>1, <2>2, <2>3 DEF J!Counted
  <2>5. PICK r : r = J!Counted(late)
        OBVIOUS
  <2>6. J!AfterReport(r) = [frames |-> 0, drops |-> 0, run |-> 0, active |-> TRUE]
        BY ClearedIs
  <2>7. /\ since' = [frames |-> since.frames + 1, drops |-> since.drops + (IF late THEN 1 ELSE 0)]
         /\ \/ /\ report' = J!AfterReport(r)
               /\ told' = [frames |-> told.frames + r.frames, drops |-> told.drops + r.drops]
            \/ /\ r.frames < Window /\ r.run < DropLimit
               /\ report' = r /\ UNCHANGED told
        BY <2>1, <2>5 DEF J!UpdateReport
  <2>8. /\ since' = [frames |-> since.frames + 1, drops |-> since.drops + o]
        /\ \/ /\ report' = [frames |-> 0, drops |-> 0, run |-> 0, active |-> TRUE]
              /\ told' = [frames |-> told.frames + (f + 1), drops |-> told.drops + (p + o)]
           \/ /\ v < DropLimit /\ told' = told
              /\ report' = [frames |-> f + 1, drops |-> p + o, run |-> v, active |-> TRUE]
        BY <2>2, <2>4, <2>5, <2>6, <2>7
  <2>9. since.frames = told.frames + f /\ since.drops = told.drops + p
        BY <1>1, <2>1
  <2>10. /\ told.frames \in Nat /\ told.drops \in Nat /\ since.frames \in Nat
        /\ since.drops \in Nat /\ DropLimit \in Nat /\ DropLimit > 0
        BY <1>1, MjpegConstants
  <2>11. /\ since' \in [frames : Nat, drops : Nat] /\ since'.frames = since.frames + 1
        /\ since'.drops = since.drops + o
        BY <2>8, <2>10
  <2>12. CASE report' = [frames |-> 0, drops |-> 0, run |-> 0, active |-> TRUE]
             /\ told' = [frames |-> told.frames + (f + 1), drops |-> told.drops + (p + o)]
        BY <1>2, <2>9, <2>10, <2>11, <2>12 DEF MjpegReports
  <2>13. CASE /\ v < DropLimit /\ told' = told
              /\ report' = [frames |-> f + 1, drops |-> p + o, run |-> v, active |-> TRUE]
        BY <1>1, <1>2, <2>9, <2>10, <2>11, <2>13 DEF MjpegReports
  <2> QED BY <2>8, <2>12, <2>13
<1> QED BY <1>3, <1>4

LEMMA InitMjpegInv == J!Init => MjpegInv
<1> SUFFICES ASSUME J!Init PROVE MjpegInv
    OBVIOUS
<1>1. /\ now = W - 2 /\ resetting = FALSE /\ decoder = J!Empty /\ frames = 0 /\ drawn = <<>>
      /\ report = [frames |-> 0, drops |-> 0, run |-> 0, active |-> FALSE]
      /\ told = [frames |-> 0, drops |-> 0] /\ since = [frames |-> 0, drops |-> 0]
      /\ late_run = 0 /\ syncs = 0
      BY DEF J!Init, J!Off, J!Zero
<1>2. <<>> \in Seq(Nat) /\ Len(<<>>) = 0
      BY EmptySeq
<1>3. now \in 0 .. W - 1 /\ decoder \in Decoders /\ W \in Nat
      BY <1>1, EmptyIs, MjpegConstants
<1> HIDE DEF J!Init
<1>4. MjpegTypes
      BY <1>1, <1>2, <1>3 DEF MjpegTypes
<1>5. RightAt(decoder, now)
      BY <1>1, EmptyIs
<1>6. MjpegQueue
      BY <1>1, <1>2, <1>5, EmptyIs DEF MjpegQueue, Rising
<1>7. MjpegReports
      BY <1>1, MjpegConstants DEF MjpegReports
<1> QED BY <1>4, <1>6, <1>7 DEF MjpegInv

LEMMA StreamDataKeeps ==
  ASSUME MjpegInv, NEW time \in 0 .. W - 1, J!StreamData(time)
  PROVE  MjpegInv'
<1>1. MjpegTypes /\ MjpegQueue /\ MjpegReports
      BY DEF MjpegInv
<1>2. PICK late : late = (J!mmtime_diff(time, now) < 0)
      OBVIOUS
<1>3. /\ frames' = frames + 1 /\ J!UpdateReport(late)
      /\ decoder' = J!queue_frame(decoder, [n |-> frames + 1, time |-> time], late)
      /\ late_run' = (LET run == IF late THEN late_run + 1 ELSE 0 IN
                      IF run >= SyncLimit THEN 0 ELSE run)
      /\ syncs' = (LET run == IF late THEN late_run + 1 ELSE 0 IN
                   IF late /\ run < SyncLimit THEN syncs + 1 ELSE 0)
      /\ UNCHANGED <<now, resetting, drawn>>
      BY <1>2 DEF J!StreamData, J!clock
<1>4. MjpegReports'
      BY <1>1, <1>3, ReportKeeps
<1>5. PICK f : f = [n |-> frames + 1, time |-> time]
      OBVIOUS
<1>6. f \in MjpegFrames /\ f.n = frames + 1 /\ frames \in Nat
      BY <1>1, <1>5 DEF MjpegTypes, MjpegFrames
<1>7. \A g : Keeps(decoder, g) => g.n <= frames /\ g.n \in Nat
  <2>1. ASSUME NEW g, Keeps(decoder, g) PROVE g \in MjpegFrames
    <3>1. \A k \in 1 .. Len(decoder.msgq) : decoder.msgq[k] \in MjpegFrames
          BY <1>1, ElementOfSeq DEF MjpegTypes, Decoders
    <3> QED BY <1>1, <2>1, <3>1 DEF Keeps, MjpegTypes, Decoders
  <2> QED BY <1>1, <2>1 DEF MjpegQueue, MjpegFrames
<1>8. \A g : Keeps(decoder, g) => g.n < f.n
      BY <1>6, <1>7
<1>9. PICK s : s = J!queue_frame(decoder, f, late)
      OBVIOUS
<1>10. /\ s \in Decoders /\ Ordered(s) /\ Timed(s) /\ (RightAt(decoder, now) => RightAt(s, now))
       /\ \A g : Keeps(s, g) => Keeps(decoder, g) \/ g = f
       BY <1>1, <1>6, <1>8, <1>9, QueueFrame DEF MjpegTypes, MjpegQueue
<1>11. /\ decoder' = s /\ drawn' = drawn /\ frames' = frames + 1 /\ now' = now
       /\ resetting' = resetting
       BY <1>3, <1>5, <1>9
<1>12. \A j \in 1 .. Len(drawn) : drawn[j] \in Nat /\ drawn[j] <= frames
       BY <1>1, ElementOfSeq DEF MjpegTypes, MjpegQueue
<1>13. ASSUME NEW g, Keeps(s, g)
       PROVE  g.n <= frames + 1 /\ \A j \in 1 .. Len(drawn) : drawn[j] < g.n
  <2>1. CASE g = f
        BY <1>6, <1>12, <2>1
  <2>2. CASE Keeps(decoder, g)
        BY <1>1, <1>6, <1>7, <2>2 DEF MjpegQueue
  <2> QED BY <1>10, <1>13, <2>1, <2>2
<1>14. resetting = FALSE => RightAt(s, now)
       BY <1>1, <1>10 DEF MjpegQueue
<1>15. frames + 1 \in Nat /\ \A j \in 1 .. Len(drawn) : drawn[j] <= frames + 1
       BY <1>6, <1>12
<1>16. /\ drawn \in Seq(Nat) /\ Rising(drawn) /\ now \in 0 .. W - 1 /\ resetting \in BOOLEAN
       BY <1>1 DEF MjpegTypes, MjpegQueue
<1>17. MjpegTypes' /\ MjpegQueue'
       BY <1>10, <1>11, <1>13, <1>14, <1>15, <1>16, QueueNext
<1> QED BY <1>4, <1>17 DEF MjpegInv

LEMMA TickKeeps == ASSUME MjpegInv, J!Tick PROVE MjpegInv'
<1>1. MjpegTypes /\ MjpegQueue /\ MjpegReports
      BY DEF MjpegInv
<1>2. /\ now' = (now + 1) % W /\ decoder.wait > 0 /\ decoder.wait # -1
      /\ decoder' = [decoder EXCEPT !.wait = @ - 1]
      /\ UNCHANGED <<resetting, frames, drawn, report, late_run, told, since, syncs>>
      BY DEF J!Tick, J!stats, J!NoTimer
<1>3. MjpegReports'
      BY <1>1, <1>2 DEF MjpegReports
<1>4. PICK q, c, w, l :
        /\ decoder.msgq = q /\ decoder.cur = c /\ decoder.wait = w /\ decoder.slipped = l
        /\ q \in Seq(MjpegFrames) /\ c \in MjpegFrames /\ w \in Int /\ w > 0 /\ l \in Int
      BY <1>1, <1>2 DEF MjpegTypes, Decoders, MjpegQueue, Timed
<1>5. PICK s : s = [decoder EXCEPT !.wait = @ - 1]
      OBVIOUS
<1>6. decoder' = s /\ s \in Decoders /\ s.msgq = q /\ s.cur = c /\ s.wait = w - 1 /\ s.slipped = l
  <2>1. decoder \in Decoders
        BY <1>1 DEF MjpegTypes
  <2>2. PICK v \in Int : v = w - 1
        BY <1>4
  <2>3. s = [decoder EXCEPT !.wait = v] /\ decoder' = s
        BY <1>2, <1>4, <1>5, <2>2
  <2>4. s \in Decoders /\ s.msgq = decoder.msgq /\ s.cur = decoder.cur /\ s.wait = v
        /\ s.slipped = decoder.slipped
        BY ONLY <2>1, <2>2, <2>3 DEF Decoders
  <2> QED BY <1>4, <2>2, <2>3, <2>4
<1>7. decoder.msgq = q /\ decoder.cur = c /\ decoder.wait = w /\ decoder.slipped = l
      BY <1>4
<1>8. c # J!None /\ w - 1 >= 0
      BY <1>4, FramesAre
<1>9. Ordered(s) /\ Timed(s) /\ \A g : Keeps(s, g) => Keeps(decoder, g)
      BY <1>1, <1>4, <1>6, <1>7, <1>8 DEF Ordered, Timed, Keeps, MjpegQueue
<1>10. PICK t : t = (now + 1) % W
       OBVIOUS
<1>11. t \in 0 .. W - 1 /\ now \in 0 .. W - 1 /\ W \in Nat /\ c.time \in Int
       BY <1>1, <1>4, <1>10, ModIs, MjpegConstants DEF MjpegTypes, MjpegFrames
<1>12. ASSUME resetting = FALSE PROVE RightAt(s, t)
  <2>1. PICK x \in Int : x = c.time + l - now
        BY <1>4, <1>11
  <2>2. w = x % W
        BY <1>1, <1>4, <1>7, <1>12, <2>1 DEF MjpegQueue, RightAt
  <2>3. (x - 1) % W = w - 1
        BY <1>4, <2>1, <2>2, ModLess
  <2>4. PICK z \in Int : z = now + 1
        BY <1>11
  <2>5. z \div W \in Int /\ z = W * (z \div W) + (z % W)
        BY ModIs
  <2>6. PICK k \in Int : now + 1 = W * k + t
        BY <1>10, <2>4, <2>5
  <2>7. PICK y \in Int : y = c.time + l - t
        BY <1>4, <1>11
  <2>8. y = (x - 1) + k * W
        BY <1>4, <1>11, <2>1, <2>6, <2>7
  <2>9. y % W = (x - 1) % W
        BY <2>1, <2>7, <2>8, ModSame
  <2> QED BY <1>6, <2>3, <2>7, <2>9 DEF RightAt
<1>13. /\ drawn \in Seq(Nat) /\ Rising(drawn) /\ resetting \in BOOLEAN /\ frames \in Nat
       /\ \A f : Keeps(s, f) => f.n <= frames /\ \A j \in 1 .. Len(drawn) : drawn[j] < f.n
       /\ \A j \in 1 .. Len(drawn) : drawn[j] <= frames
       BY <1>1, <1>9 DEF MjpegTypes, MjpegQueue
<1>14. MjpegTypes' /\ MjpegQueue'
       BY <1>2, <1>6, <1>9, <1>10, <1>11, <1>12, <1>13, QueueNext
<1> QED BY <1>3, <1>14 DEF MjpegInv

LEMMA SetTimeKeeps ==
  ASSUME MjpegInv, NEW time \in 0 .. W - 1, J!SetTime(time)
  PROVE  MjpegInv'
<1>1. MjpegTypes /\ MjpegQueue /\ MjpegReports
      BY DEF MjpegInv
<1>2. /\ now' = time /\ resetting = FALSE
      /\ UNCHANGED <<frames, drawn, report, late_run, told, since, syncs>>
      /\ \/ resetting' = TRUE /\ decoder' = decoder
         \/ /\ resetting' = resetting
            /\ decoder' = [decoder EXCEPT !.slipped =
                             IF decoder.wait = -1 THEN 0 ELSE @ + J!mmtime_diff(time, now)]
      BY <1>1 DEF J!SetTime, J!stats, J!NoTimer, MjpegTypes
<1>3. MjpegReports'
      BY <1>1, <1>2 DEF MjpegReports
<1>4. /\ drawn \in Seq(Nat) /\ Rising(drawn) /\ resetting' \in BOOLEAN /\ frames \in Nat
      /\ \A f : Keeps(decoder, f) => f.n <= frames /\ \A j \in 1 .. Len(drawn) : drawn[j] < f.n
      /\ \A j \in 1 .. Len(drawn) : drawn[j] <= frames
      /\ decoder \in Decoders /\ Ordered(decoder) /\ Timed(decoder)
      BY <1>1, <1>2 DEF MjpegTypes, MjpegQueue
<1>5. CASE resetting' = TRUE /\ decoder' = decoder
      BY <1>2, <1>3, <1>4, <1>5, QueueNext DEF MjpegInv
<1>6. CASE decoder' = [decoder EXCEPT !.slipped =
                         IF decoder.wait = -1 THEN 0 ELSE @ + J!mmtime_diff(time, now)]
  <2>1. /\ now \in 0 .. W - 1 /\ W \in Nat
        /\ RightAt(decoder, now)
        BY <1>1, <1>2, MjpegConstants DEF MjpegTypes, MjpegQueue
  <2>2. time \in Int /\ now \in Int
         BY <2>1
  <2>3. /\ J!mmtime_diff(time, now) \in Int
         /\ \E k \in Int : time = now + J!mmtime_diff(time, now) + k * W
         BY <2>2, DiffIs
  <2>4. PICK x \in Int : x = J!mmtime_diff(time, now) /\ \E k \in Int : time = now + x + k * W
        BY <2>3
  <2>5. PICK k \in Int : time = now + x + k * W
        BY <2>4
  <2>6. decoder.slipped \in Int
        BY <1>4 DEF Decoders
  <2>7. PICK l \in Int : l = IF decoder.wait = -1 THEN 0 ELSE decoder.slipped + x
        BY <2>6
  <2>8. PICK s : s = [decoder EXCEPT !.slipped = l]
        OBVIOUS
  <2>9. decoder' = s
        BY <1>6, <2>4, <2>7, <2>8
  <2>10. /\ s \in Decoders /\ s.msgq = decoder.msgq /\ s.cur = decoder.cur
        /\ s.wait = decoder.wait /\ s.slipped = l
        BY <1>4, <2>8 DEF Decoders
  <2>11. Ordered(s) /\ Timed(s) /\ \A f : Keeps(s, f) => Keeps(decoder, f)
        BY <1>4, <2>10 DEF Ordered, Timed, Keeps
  <2>12. ASSUME s.wait # -1 PROVE s.wait = (s.cur.time + s.slipped - time) % W
    <3>1. decoder.cur.time \in Int
          BY <1>4, <2>1, <2>10, <2>12 DEF Timed, Decoders, MjpegFrames
    <3>2. decoder.wait = (decoder.cur.time + decoder.slipped - now) % W
          BY <2>1, <2>10, <2>12 DEF RightAt
    <3>3. PICK a \in Int : a = decoder.cur.time + decoder.slipped - now
          BY <2>1, <2>6, <3>1
    <3>4. PICK b \in Int : b = decoder.cur.time + l - time
          BY <2>1, <2>7, <3>1
    <3>5. l = decoder.slipped + x
          BY <2>7, <2>10, <2>12
    <3>6. a = b + k * W
          BY <2>1, <2>5, <2>6, <3>1, <3>3, <3>4, <3>5
    <3>7. a % W = b % W
          BY <3>6, ModSame
    <3> QED BY <2>10, <3>2, <3>3, <3>4, <3>7
  <2>13. RightAt(s, time)
         BY <2>12 DEF RightAt
  <2>14. MjpegTypes' /\ MjpegQueue'
         BY <1>2, <1>4, <2>9, <2>10, <2>11, <2>13, QueueNext
  <2> QED BY <1>3, <2>14 DEF MjpegInv
<1> QED BY <1>2, <1>5, <1>6

LEMMA RescheduleKeeps == ASSUME MjpegInv, J!Reschedule PROVE MjpegInv'
<1>1. MjpegTypes /\ MjpegQueue /\ MjpegReports
      BY DEF MjpegInv
<1>2. PICK d : d = [decoder EXCEPT !.wait = -1]
      OBVIOUS
<1>3. /\ resetting' = FALSE /\ decoder' = J!schedule(d)
      /\ UNCHANGED <<now, frames, drawn, report, late_run, told, since, syncs>>
      BY <1>2 DEF J!Reschedule, J!rescheduled, J!DropTimer, J!stats, J!NoTimer
<1>4. MjpegReports'
      BY <1>1, <1>3 DEF MjpegReports
<1>5. /\ d \in Decoders /\ d.msgq = decoder.msgq /\ d.cur = decoder.cur /\ d.wait = -1
      BY <1>1, <1>2 DEF MjpegTypes, Decoders
<1>6. Ordered(d) /\ (\A f : Keeps(d, f) => Keeps(decoder, f)) /\ now \in 0 .. W - 1
      BY <1>1, <1>5 DEF Ordered, Keeps, MjpegQueue, MjpegTypes
<1>7. PICK s : s = J!schedule(d)
      OBVIOUS
<1>8. /\ s \in Decoders /\ Ordered(s) /\ Timed(s) /\ RightAt(s, now)
      /\ \A f : Keeps(s, f) => Keeps(d, f)
      BY <1>5, <1>6, <1>7, NextScheduled
<1>9. /\ drawn \in Seq(Nat) /\ Rising(drawn) /\ frames \in Nat
      /\ \A f : Keeps(s, f) => f.n <= frames /\ \A j \in 1 .. Len(drawn) : drawn[j] < f.n
      /\ \A j \in 1 .. Len(drawn) : drawn[j] <= frames
      BY <1>1, <1>6, <1>8 DEF MjpegTypes, MjpegQueue
<1>10. MjpegTypes' /\ MjpegQueue'
       BY <1>3, <1>6, <1>7, <1>8, <1>9, QueueNext
<1> QED BY <1>4, <1>10 DEF MjpegInv

LEMMA DecodeFrameKeeps == ASSUME MjpegInv, J!DecodeFrame PROVE MjpegInv'
<1>1. MjpegTypes /\ MjpegQueue /\ MjpegReports
      BY DEF MjpegInv
<1>2. /\ decoder.wait = 0 /\ drawn' = Append(drawn, decoder.cur.n)
      /\ decoder' = J!schedule([decoder EXCEPT !.cur = J!None, !.wait = J!NoTimer])
      /\ UNCHANGED <<now, resetting, frames, report, late_run, told, since, syncs>>
      BY DEF J!DecodeFrame, J!clock, J!stats
<1>3. MjpegReports'
      BY <1>1, <1>2 DEF MjpegReports
<1>4. PICK q, c, l :
        /\ decoder.msgq = q /\ decoder.cur = c /\ decoder.slipped = l /\ l \in Int
        /\ q \in Seq(MjpegFrames) /\ c \in MjpegFrames
      BY <1>1, <1>2 DEF MjpegTypes, Decoders, MjpegQueue, Timed
<1>5. PICK d : d = [decoder EXCEPT !.cur = J!None, !.wait = J!NoTimer]
      OBVIOUS
<1>6. decoder' = J!schedule(d)
      BY <1>2, <1>5
<1>7. /\ d \in Decoders /\ d.msgq = q /\ d.cur = J!None /\ d.wait = -1
  <2>1. decoder \in Decoders /\ J!None \in MjpegFrames \cup {J!None}
        BY <1>1 DEF MjpegTypes
  <2>2. d = [decoder EXCEPT !.cur = J!None, !.wait = -1]
        BY <1>5 DEF J!NoTimer
  <2>3. d = [msgq |-> decoder.msgq, cur |-> J!None, wait |-> -1, slipped |-> decoder.slipped]
        BY ONLY <2>1, <2>2 DEF Decoders
  <2>4. decoder.msgq \in Seq(MjpegFrames) /\ decoder.slipped \in Int
        BY ONLY <2>1 DEF Decoders
  <2>5. d \in Decoders
        BY ONLY <2>3, <2>4 DEF Decoders
  <2>6. d.msgq = decoder.msgq /\ d.cur = J!None /\ d.wait = -1
        BY ONLY <2>1, <2>2 DEF Decoders
  <2> QED BY <1>4, <2>5, <2>6
<1>8. decoder.msgq = q /\ decoder.cur = c /\ c # J!None /\ c.n \in Nat
      BY <1>4, FramesAre DEF MjpegFrames
<1>9. \A k \in 1 .. Len(q) : q[k] \in MjpegFrames
      BY <1>4, ElementOfSeq
<1>10. /\ Ordered(d) /\ now \in 0 .. W - 1
       /\ \A f : Keeps(d, f) => Keeps(decoder, f) /\ c.n < f.n
       BY <1>1, <1>7, <1>8, <1>9 DEF Ordered, Keeps, MjpegQueue, MjpegTypes
<1>11. PICK s : s = J!schedule(d)
       OBVIOUS
<1>12. /\ s \in Decoders /\ Ordered(s) /\ Timed(s) /\ RightAt(s, now)
       /\ \A f : Keeps(s, f) => Keeps(d, f)
       BY <1>7, <1>10, <1>11, NextScheduled
<1>13. PICK m \in Nat : m = Len(drawn)
       BY <1>1, LenProperties DEF MjpegTypes
<1>14. PICK z : z = Append(drawn, c.n)
       OBVIOUS
<1>15. z \in Seq(Nat) /\ Len(z) = m + 1 /\ z[m + 1] = c.n /\ \A j \in 1 .. m : z[j] = drawn[j]
       BY <1>1, <1>8, <1>13, <1>14, AppendProperties DEF MjpegTypes
<1>16. /\ c.n <= frames /\ \A j \in 1 .. m : drawn[j] < c.n /\ drawn[j] <= frames /\ drawn[j] \in Nat
       BY <1>1, <1>8, <1>13, ElementOfSeq DEF MjpegQueue, MjpegTypes, Keeps
<1>17. \A j \in 1 .. m + 1 : j = m + 1 \/ j \in 1 .. m
       BY <1>13
<1>18. Rising(z) /\ \A j \in 1 .. Len(z) : z[j] <= frames /\ z[j] <= c.n
  <2>1. ASSUME NEW j \in 1 .. m + 1, NEW k \in 1 .. m + 1, j < k PROVE z[j] < z[k]
    <3>1. j \in 1 .. m
          BY <1>13, <2>1
    <3>2. k = m + 1 \/ k \in 1 .. m
          BY <1>17
    <3>3. drawn[j] < c.n /\ z[j] = drawn[j]
          BY <1>15, <1>16, <3>1
    <3>4. CASE k = m + 1
          BY <1>15, <3>3, <3>4
    <3>5. CASE k \in 1 .. m
      <4>1. drawn[j] < drawn[k]
            BY <1>1, <1>13, <2>1, <3>1, <3>5 DEF MjpegQueue, Rising
      <4> QED BY <1>15, <3>3, <3>5, <4>1
    <3> QED BY <3>2, <3>4, <3>5
  <2>2. ASSUME NEW j \in 1 .. m + 1 PROVE z[j] <= frames /\ z[j] <= c.n
    <3>1. j = m + 1 \/ j \in 1 .. m
          BY <1>17
    <3> QED BY <1>8, <1>15, <1>16, <3>1
  <2> QED BY <1>15, <2>1, <2>2 DEF Rising
<1>19. ASSUME NEW f, Keeps(s, f)
       PROVE  f.n <= frames /\ \A j \in 1 .. Len(z) : z[j] < f.n
  <2>1. Keeps(decoder, f) /\ c.n < f.n
        BY <1>10, <1>12, <1>19
  <2>2. f.n <= frames /\ f \in MjpegFrames
        BY <1>1, <1>4, <1>8, <1>9, <2>1 DEF MjpegQueue, Keeps
  <2>3. \A j \in 1 .. Len(z) : z[j] \in Nat /\ z[j] <= c.n
        BY <1>15, <1>18, ElementOfSeq
  <2> QED BY <1>8, <2>1, <2>2, <2>3 DEF MjpegFrames
<1>20. resetting \in BOOLEAN /\ frames \in Nat
       BY <1>1 DEF MjpegTypes
<1>21. decoder' = s /\ drawn' = z /\ frames' = frames /\ now' = now /\ resetting' = resetting
       BY <1>2, <1>6, <1>8, <1>11, <1>14
<1>22. MjpegTypes' /\ MjpegQueue'
       BY <1>10, <1>12, <1>15, <1>18, <1>19, <1>20, <1>21, QueueNext
<1> QED BY <1>3, <1>22 DEF MjpegInv

LEMMA ActivateKeeps == ASSUME MjpegInv, J!ActivateReport PROVE MjpegInv'
<1>1. MjpegTypes /\ MjpegQueue /\ MjpegReports
      BY DEF MjpegInv
<1>2. /\ report.active = FALSE /\ report' = [J!Off EXCEPT !.active = TRUE]
      /\ UNCHANGED <<now, resetting, decoder, frames, drawn, late_run, told, since, syncs>>
      BY <1>1 DEF J!ActivateReport, J!clock, MjpegReports
<1>3. report' = [frames |-> 0, drops |-> 0, run |-> 0, active |-> TRUE]
      BY <1>2, ClearedIs DEF J!AfterReport, J!Cleared
<1>4. /\ told' \in [frames : Nat, drops : Nat] /\ since' \in [frames : Nat, drops : Nat]
      /\ late_run' \in Nat /\ syncs' \in Nat /\ syncs' <= late_run' /\ late_run' < SyncLimit
      /\ since'.frames = told'.frames + 0 /\ since'.drops = told'.drops + 0
      BY <1>1, <1>2 DEF MjpegReports
<1>5. 0 < DropLimit
      BY MjpegConstants
<1>6. MjpegReports'
      BY <1>3, <1>4, <1>5 DEF MjpegReports
<1>7. MjpegTypes' /\ MjpegQueue'
      BY <1>1, <1>2 DEF MjpegTypes, MjpegQueue
<1> QED BY <1>6, <1>7 DEF MjpegInv

LEMMA MjpegStep == MjpegInv /\ [MCNext]_mcvars => MjpegInv'
<1> SUFFICES ASSUME MjpegInv, [MCNext]_mcvars PROVE MjpegInv'
    OBVIOUS
<1>1. CASE UNCHANGED mjpegVars
  <2>1. UNCHANGED <<now, resetting, decoder, frames, drawn, report, late_run, told, since,
                    syncs>>
        BY <1>1 DEF mjpegVars
  <2>2. MjpegTypes' /\ MjpegReports'
        BY <2>1 DEF MjpegInv, MjpegTypes, MjpegReports
  <2>3. MjpegQueue'
        BY <2>1 DEF MjpegInv, MjpegQueue
  <2> QED BY <2>2, <2>3 DEF MjpegInv
<1>2. CASE ~UNCHANGED mjpegVars
  <2>1. MCNext
        BY <1>2 DEF mcvars
  <2>2. ASSUME NEW x \in {"display", "glz", "cache", "gst", "cursor"}, On(x)
        PROVE  FALSE
        BY <1>2, <2>2 DEF On
  <2>3. \/ \E time \in {(now + k) % W : k \in {-1, 0, 2}} : J!StreamData(time)
        \/ \E time \in J!Times : J!SetTime(time)
        \/ J!ActivateReport \/ J!Tick \/ J!DecodeFrame \/ J!Reschedule
        BY <2>1, <2>2 DEF MCNext
  <2>4. now \in Int /\ W \in Int
        BY MjpegConstants DEF MjpegInv, MjpegTypes
  <2>5. \A k \in {-1, 0, 2} : (now + k) % W \in 0 .. W - 1
        BY <2>4, ModIs
  <2> QED BY <2>3, <2>5, FramesAre, StreamDataKeeps, SetTimeKeeps, ActivateKeeps, TickKeeps,
             DecodeFrameKeeps, RescheduleKeeps
<1> QED BY <1>1, <1>2

\* The built-in decoder of a video stream and its reports (display_handle_stream_data,
\* mjpeg_decoder_schedule, _queue_frame, _decode_frame, _reschedule), for any modulus of
\* the clock, thresholds and number of frames: a frame that is kept has a timer, the timer
\* tells the truth, frames are drawn in order, and the reports miss nothing.
THEOREM MjpegSafeTheorem == MCSpec => []MjpegSafe
<1>1. MCInit => MjpegInv
      BY InitMjpegInv DEF MCInit
<1>2. MjpegInv /\ [MCNext]_mcvars => MjpegInv'
      BY MjpegStep
<1>3. MjpegInv => MjpegSafe
  <2> SUFFICES ASSUME MjpegInv
               PROVE  J!NoFrameForgotten /\ J!TimerIsTrue /\ J!InOrder /\ J!ReportsComplete
      BY DEF MjpegSafe
  <2>1. MjpegTypes /\ MjpegQueue /\ MjpegReports
        BY DEF MjpegInv
  <2>2. J!NoFrameForgotten
        BY <2>1 DEF MjpegQueue, Timed, J!NoFrameForgotten, J!NoTimer
  <2>3. J!TimerIsTrue
        BY <2>1 DEF MjpegTypes, MjpegQueue, RightAt, J!TimerIsTrue, J!NoTimer
  <2>4. J!InOrder
    <3>1. DOMAIN drawn = 1 .. Len(drawn)
          BY <2>1, LenProperties DEF MjpegTypes
    <3> QED BY <2>1, <3>1 DEF MjpegQueue, Rising, J!InOrder
  <2>5. J!ReportsComplete
        BY <2>1, MjpegConstants DEF MjpegReports, J!ReportsComplete
  <2> QED BY <2>2, <2>3, <2>4, <2>5
<1> QED BY <1>1, <1>2, <1>3, PTL DEF MCSpec

============================================================================
