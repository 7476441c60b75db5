------------------------------- MODULE Cursor -------------------------------
(***************************************************************************)
(* The cursor channel (channel-cursor.c, spice-channel-cache.h) and what   *)
(* the widget makes of its signals (spice-widget.c): the shape of the      *)
(* pointer, a cache of shapes that the server believes to know, and a      *)
(* pointer hidden and shown by either side of the mouse mode.              *)
(*                                                                         *)
(* Shapes are numbers; the conversion of their pixels is left out.         *)
(***************************************************************************)
EXTENDS Integers, Sequences, FiniteSets

CONSTANTS Shapes, Null, Blank, \* shapes; no cursor and the invisible one of GDK
          MaxMessages, MaxResets \* bounds

CursorAssumption ==
  /\ Null # Blank /\ Shapes \intersect {Null, Blank} = {}
  /\ MaxMessages \in Nat /\ MaxResets \in Nat

VARIABLES
  cursors,     \* the cache, of the shapes
  init_done,
  last_cursor, \* the shape the channel has
  mouse_cursor, show_cursor, \* of the widget: the cursor shown, and the one hidden
  mouse_mode,
  known, open, \* the server: shapes it believes cached, INIT was sent
  wire,        \* messages under way
  sent,        \* the shape of the server when what is under way is handled
  hidden,      \* the last the widget was told: hidden, and not moved or set since
  messages, resets

channel == <<cursors, init_done, last_cursor>>
widget == <<mouse_cursor, show_cursor, hidden>>
server == <<known, open, sent>>
vars == <<channel, widget, mouse_mode, server, wire, messages, resets>>

Kinds == {"init", "init_hidden", "reset", "set", "move", "hide", "inval_one", "inval_all"}
Flags == {"none", "cache_me", "from_cache", "plain"}
Msg(k, s, f) == [kind |-> k, shape |-> s, flags |-> f]

TypeOK ==
  /\ cursors \subseteq Shapes /\ init_done \in BOOLEAN /\ last_cursor \in Shapes \union {Null}
  /\ {mouse_cursor, show_cursor} \subseteq Shapes \union {Null, Blank}
  /\ mouse_mode \in {"client", "server"} /\ known \subseteq Shapes /\ open \in BOOLEAN
  /\ wire \in Seq([kind : Kinds, shape : Shapes \union {Null}, flags : Flags])
  /\ sent \in Shapes \union {Null} /\ hidden \in BOOLEAN
  /\ messages \in 0 .. MaxMessages /\ resets \in 0 .. MaxResets

Init ==
  /\ cursors = {} /\ init_done = FALSE /\ last_cursor = Null
  /\ mouse_cursor = Null /\ show_cursor = Null /\ hidden = FALSE
  /\ mouse_mode \in {"client", "server"}
  /\ known = {} /\ open = FALSE /\ wire = <<>> /\ sent = Null /\ messages = 0 /\ resets = 0

(***************************************************************************)
(* The server                                                              *)
(***************************************************************************)
Says(m) == messages < MaxMessages /\ messages' = messages + 1 /\ wire' = Append(wire, m)
Says_(m) == Says(m) /\ UNCHANGED <<channel, widget, mouse_mode, resets>>
KnownAfter(s, f) == IF f = "cache_me" THEN known \union {s} ELSE known

ServerSays ==
  \/ \E s \in Shapes, f \in Flags :
       /\ f = "from_cache" => s \in known
       /\ \/ ~open /\ f # "from_cache" /\ (\E k \in {"init", "init_hidden"} : Says_(Msg(k, s, f)))
             /\ known' = (IF f = "cache_me" THEN {s} ELSE {})
          \/ open /\ Says_(Msg("set", s, f)) /\ known' = KnownAfter(s, f)
       /\ sent' = (IF f = "none" THEN sent ELSE s) /\ open' = TRUE
  \/ /\ open /\ UNCHANGED sent
     /\ \/ Says_(Msg("reset", Null, "none")) /\ known' = {} /\ open' = FALSE
        \/ \E k \in {"move", "hide"} : Says_(Msg(k, Null, "none")) /\ UNCHANGED <<known, open>>
        \/ \E s \in known : Says_(Msg("inval_one", s, "none")) /\ known' = known \ {s}
                            /\ UNCHANGED open
        \/ Says_(Msg("inval_all", Null, "none")) /\ known' = {} /\ UNCHANGED open

(***************************************************************************)
(* The widget                                                              *)
(***************************************************************************)
\* cursor_set: a hidden cursor stays hidden while the server moves the mouse
Shown(s) == mouse_cursor' = s /\ show_cursor' = Null /\ hidden' = FALSE
StaysHidden == show_cursor # Null /\ mouse_mode = "server"
cursor_set(s) ==
  \/ StaysHidden /\ show_cursor' = s /\ UNCHANGED <<mouse_cursor, hidden>>
  \/ ~StaysHidden /\ Shown(s)

\* cursor_hide
HidesAgain == FALSE \* a mutant
AlreadyHidden == show_cursor # Null
cursor_hide ==
  /\ hidden' = TRUE
  /\ IF AlreadyHidden THEN UNCHANGED <<mouse_cursor, show_cursor>>
     ELSE show_cursor' = mouse_cursor /\ mouse_cursor' = Blank
\* cursor_set, then cursor_hide
set_hidden(s) ==
  /\ hidden' = TRUE /\ show_cursor' = s
  /\ mouse_cursor' = IF StaysHidden THEN mouse_cursor ELSE Blank

\* cursor_move
cursor_move ==
  /\ hidden' = FALSE
  /\ IF show_cursor = Null THEN UNCHANGED <<mouse_cursor, show_cursor>>
     ELSE mouse_cursor' = show_cursor /\ show_cursor' = Null

\* update_mouse_mode changes which cursor the window has, and not these.
ModeChanges ==
  /\ mouse_mode' \in {"client", "server"} \ {mouse_mode}
  /\ UNCHANGED <<channel, widget, server, wire, messages, resets>>

(***************************************************************************)
(* The channel                                                             *)
(***************************************************************************)
\* set_cursor: a shape, or none to be had, and the cache after
Found(m, cache) == m.flags \in {"cache_me", "plain"} \/ (m.flags = "from_cache" /\ m.shape \in cache)
Cached(m, cache) == IF m.flags = "cache_me" THEN cache \union {m.shape} ELSE cache
\* emit_cursor_set, or the signal cursor-hide
SetOrHide(m, cache) ==
  /\ cursors' = Cached(m, cache)
  /\ \/ /\ Found(m, cache) /\ last_cursor' = m.shape
        /\ IF m.kind = "init_hidden" THEN set_hidden(m.shape) ELSE cursor_set(m.shape)
     \/ ~Found(m, cache) /\ UNCHANGED last_cursor /\ cursor_hide

\* cursor_handle_*
Handle ==
  /\ wire # <<>> /\ wire' = Tail(wire)
  /\ LET m == Head(wire) IN
       \/ /\ m.kind \in {"init", "init_hidden"} /\ ~init_done /\ init_done' = TRUE
          /\ SetOrHide(m, {})
       \/ /\ m.kind \in {"init", "init_hidden"} /\ init_done /\ UNCHANGED <<channel, widget>>
       \/ /\ m.kind = "reset" /\ cursors' = {} /\ init_done' = FALSE
          /\ UNCHANGED <<last_cursor, widget>>
       \/ /\ m.kind = "set" /\ init_done /\ SetOrHide(m, cursors) /\ UNCHANGED init_done
       \/ /\ m.kind = "set" /\ ~init_done /\ UNCHANGED <<channel, widget>>
       \/ /\ m.kind = "move" /\ UNCHANGED channel
          /\ IF init_done THEN cursor_move ELSE UNCHANGED widget
       \/ /\ m.kind = "hide" /\ cursor_hide /\ UNCHANGED channel
       \/ /\ m.kind = "inval_one" /\ UNCHANGED <<init_done, last_cursor, widget>>
          /\ cursors' = IF init_done THEN cursors \ {m.shape} ELSE cursors
       \/ /\ m.kind = "inval_all" /\ cursors' = {}
          /\ UNCHANGED <<init_done, last_cursor, widget>>
  /\ UNCHANGED <<mouse_mode, server, messages, resets>>

\* spice_cursor_channel_reset, and a server that begins again
Reset ==
  /\ resets < MaxResets /\ resets' = resets + 1 /\ wire' = <<>>
  /\ cursors' = {} /\ init_done' = FALSE
  /\ known' = {} /\ open' = FALSE /\ sent' = last_cursor
  /\ UNCHANGED <<last_cursor, widget, mouse_mode, messages>>

Next == ServerSays \/ Handle \/ ModeChanges \/ Reset
Spec == Init /\ [][Next]_vars

(***************************************************************************)
(* Properties                                                              *)
(***************************************************************************)
\* When nothing is under way the channel has the shape the server set last, and
\* the shapes the server believes cached: none was dropped because a reset, a
\* reconnection or an invalidation crossed it.
ShapeAgrees ==
  wire = <<>> => last_cursor = sent /\ known = cursors

\* The widget shows or keeps hidden that shape and no older one, and hides it
\* only after it was told to, until it is moved or set.
ShownWhenTold ==
  /\ {mouse_cursor, show_cursor} \subseteq {last_cursor, Null, Blank}
  /\ mouse_cursor = Blank /\ last_cursor # Null => hidden
  /\ hidden => mouse_cursor = Blank
=============================================================================
