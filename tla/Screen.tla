------------------------------- MODULE Screen -------------------------------
(***************************************************************************)
(* What a display widget shows (spice-widget.c, spice-widget-cairo.c,      *)
(* spice-widget-egl.c): the canvas over the primary of its channel, the    *)
(* part of it that is its monitor, when it is "ready", and the GL scanout  *)
(* that replaces the canvas.                                               *)
(*                                                                         *)
(* The channel is external here (Display models it): a step is the handler *)
(* of the channel and the signal it emits.  GTK is external: it realizes   *)
(* the widget when the application shows it, the GL area when the stack    *)
(* first shows that, and renders what was queued when it is shown.         *)
(* Pictures have one row; an area is the set of its columns.               *)
(***************************************************************************)
EXTENDS Integers, FiniteSets

CONSTANTS
  Width,       \* widest primary
  Gl,          \* the server sends GL scanouts
  Mixed,       \* ... and draws on the primary while a GL draw is not answered
  Anytime,     \* the widget is shown, or a picture of it is taken, whatever it
               \* was last told, and surfaces of 16 bits are mixed with GL
  MaxImages,   \* bounds: primaries (and scanouts),
  MaxShows,    \* times that the widget is hidden,
  MaxChannels  \* display channels

ScreenAssumption ==
  /\ {Width, MaxImages, MaxShows, MaxChannels} \subseteq Nat
  /\ {Gl, Mixed, Anytime} \subseteq BOOLEAN

VARIABLES
  c,        \* the display channel
  attached, \* d->display # NULL: the widget is connected to its signals
  built,    \* the widget exists
  d,        \* SpiceDisplayPrivate
  realized, \* gtk_widget_get_realized
  draws,    \* GL draws that the server waits for
  images, shows, channels

vars == <<c, attached, built, d, realized, draws, images, shows, channels>>

None == 0
NoSurface == -1          \* d->canvas.surface is NULL; else the data it is over
Copy == MaxImages + 1    \* memory of the widget, d->canvas.convert
Columns(w) == 1 .. w
All == Columns(Width)

NoChannel ==
  [image |-> None, width |-> 0, deep |-> FALSE, marked |-> FALSE,
   mine |-> {}, alone |-> FALSE, scanout |-> None, swidth |-> 0]

NoPicture(whole, cap) ==
  [whole |-> whole, cap |-> cap,  \* monitor_id < 0; the channel has MONITORS_CONFIG
   width |-> 0, deep |-> FALSE, origin |-> None, data |-> None,
   convert |-> FALSE, surface |-> NoSurface, copy |-> {},
   area |-> {}, mark |-> FALSE, monitor_ready |-> FALSE, ready |-> FALSE,
   enabled |-> FALSE, context_ready |-> FALSE, gl_realized |-> FALSE,
   texture |-> None, call_draw_done |-> FALSE, faulty |-> FALSE]

TypeOK ==
  /\ c.image \in 0 .. MaxImages /\ c.scanout \in 0 .. MaxImages
  /\ c.width \in 0 .. Width /\ c.swidth \in 0 .. Width /\ c.mine \subseteq All
  /\ d.data \in 0 .. Copy /\ d.origin \in 0 .. MaxImages
  /\ d.surface \in NoSurface .. Copy
  /\ d.area \subseteq All /\ d.copy \subseteq All /\ d.width \in 0 .. Width
  /\ d.texture \in 0 .. MaxImages
  /\ {attached, built, realized} \subseteq BOOLEAN /\ draws \in 0 .. 1
  /\ {d.mark, d.monitor_ready, d.ready, d.enabled, d.context_ready,
      d.gl_realized, d.call_draw_done, d.faulty, d.convert, d.deep,
      d.whole, d.cap} \subseteq BOOLEAN

Init ==
  /\ c = NoChannel /\ attached = FALSE /\ built = FALSE
  /\ d \in {NoPicture(whole, cap) : whole \in BOOLEAN, cap \in BOOLEAN}
  /\ realized = FALSE /\ draws = 0 /\ images = 0 /\ shows = 0 /\ channels = 1

-----------------------------------------------------------------------------
(* The canvas.  e is the widget, h the channel.                            *)
Live(h, cols) == cols \subseteq Columns(h.width) /\ h.image # None

(* spice_cairo_image_destroy frees d->canvas.data when it is a copy.       *)
Freed(e) == IF e.convert THEN None ELSE e.data
image_destroy(e) ==
  [e EXCEPT !.surface = NoSurface, !.data = Freed(e), !.convert = FALSE,
            !.faulty = @ \/ (e.convert /\ e.data # Copy)]

(* spice_cairo_image_create: a surface over the image of the channel, or   *)
(* over a copy of the area when that has 16 bits per pixel                 *)
image_create(e) ==
  IF e.surface # NoSurface THEN e
  ELSE IF e.deep
    THEN [e EXCEPT !.convert = TRUE, !.data = Copy, !.copy = e.area, !.surface = Copy]
    ELSE [e EXCEPT !.convert = FALSE, !.surface = e.data]

(* do_color_convert reads the columns from the channel's image and writes  *)
(* them into the copy, that begins where the area begins.                  *)
do_color_convert(h, e, cols) ==
  IF ~e.convert THEN e
  ELSE [e EXCEPT !.faulty = @ \/ (cols # {} /\ ~( /\ e.origin = h.image /\ Live(h, cols)
                                                /\ e.copy = e.area /\ cols \subseteq e.copy))]

update_image(h, e) == LET made == image_create(e) IN do_color_convert(h, made, made.area)

-----------------------------------------------------------------------------
(* Readiness.                                                              *)
update_ready(e) == [e EXCEPT !.ready = e.monitor_ready /\ (e.enabled \/ e.mark)]
set_monitor_ready(e, on) == update_ready([e EXCEPT !.monitor_ready = on])

(* update_area, with what the caller wants to be shown                     *)
Refreshed(h, e) == LET gone == image_destroy(e)
                   IN IF realized THEN update_image(h, gone) ELSE gone
AreaOf(h, e, cols) == cols \intersect Columns(IF e.enabled THEN h.swidth ELSE e.width)
update_area(h, e, cols) ==
  IF e.enabled /\ h.scanout = None THEN [e EXCEPT !.area = cols]
  ELSE LET placed == [e EXCEPT !.area = AreaOf(h, e, cols)]
       IN IF placed.area = {} THEN set_monitor_ready(placed, FALSE)
          ELSE set_monitor_ready(IF e.enabled THEN placed ELSE Refreshed(h, placed), TRUE)

(* spice_display_widget_update_monitor_area                                *)
Whole(h, e) == set_monitor_ready(update_area(h, e, Columns(e.width)), TRUE)
Waits(e) == set_monitor_ready(e, FALSE)
StaysReady(e) == e
Missing(e) == Waits(e)
update_monitor_area(h, e) ==
  IF e.whole THEN Whole(h, e)
  ELSE IF h.mine = {} THEN IF e.cap THEN Missing(e) ELSE Whole(h, Missing(e))
  ELSE IF h.alone /\ ~e.enabled THEN update_area(h, e, Columns(Cardinality(h.mine)))
  ELSE update_area(h, e, h.mine)

primary_create(h, e) ==
  update_monitor_area(h, [e EXCEPT !.width = h.width, !.deep = h.deep,
                                   !.origin = h.image, !.data = h.image])

(* primary_destroy: the surface and the pointers to the image of the       *)
(* channel go; the format, the area and the mark stay.                     *)
Emptied(e) == [image_destroy(e) EXCEPT !.width = 0, !.data = None, !.origin = None]
OnlyEmptied(e) == [e EXCEPT !.width = 0, !.origin = None]
Cleared(e) == Emptied(e)
primary_destroy(e) == set_monitor_ready(Cleared(e), FALSE)

mark(e, on) == update_ready([e EXCEPT !.mark = on])

-----------------------------------------------------------------------------
(* The GL scanout.  The stack shows the GL area, which is realized when    *)
(* that happens first: spice_egl_init finds the scanout and the area.      *)
spice_egl_init(h, e) ==
  LET made == [e EXCEPT !.gl_realized = TRUE, !.context_ready = TRUE]
  IN IF h.scanout = None THEN made
     ELSE update_monitor_area(h, [made EXCEPT !.enabled = TRUE, !.texture = h.scanout])

set_egl_enabled(h, e, on) ==
  IF e.enabled = on THEN e
  ELSE IF on /\ realized /\ ~e.gl_realized
    THEN [spice_egl_init(h, e) EXCEPT !.enabled = TRUE]
    ELSE [e EXCEPT !.enabled = on]

(* spice_display_widget_gl_scanout                                         *)
gl_scanout(h, e) ==
  LET shown == set_egl_enabled(h, e, TRUE)
  IN IF shown.context_ready /\ h.scanout # None
       THEN [shown EXCEPT !.texture = h.scanout] ELSE shown

(* gl_draw: without a context it is answered at once, else when GTK has    *)
(* rendered the area.                                                      *)
QueuesRender(e) == [e EXCEPT !.call_draw_done = TRUE]
ForgetsDone(e) == e
Drawn(e) == QueuesRender(e)
gl_draw(h, e) ==
  LET shown == set_egl_enabled(h, e, TRUE)
  IN IF shown.context_ready THEN Drawn(shown) ELSE shown

-----------------------------------------------------------------------------
(* Messages.  A widget that is built later finds what came before.         *)
Message(h) == c' = h /\ UNCHANGED <<attached, built, realized, shows, channels>>
Told(e) == /\ attached \/ ~built
           /\ d' = IF attached THEN e ELSE d

PrimaryCreate(w, deep) ==
  /\ c.image = None /\ images < MaxImages /\ images' = images + 1
  /\ Gl /\ deep => Anytime
  /\ LET h == [c EXCEPT !.image = images', !.width = w, !.deep = deep]
     IN Message(h) /\ Told(primary_create(h, d))
  /\ UNCHANGED draws

PrimaryDestroy ==
  /\ c.image # None
  /\ Message([c EXCEPT !.image = None, !.width = 0]) /\ Told(primary_destroy(d))
  /\ UNCHANGED <<draws, images>>

Mark(on) ==
  /\ on => c.image # None
  /\ Message([c EXCEPT !.marked = on]) /\ Told(mark(d, on))
  /\ UNCHANGED <<draws, images>>

(* display_handle_monitors_config                                          *)
MonitorsConfig(mine, alone) ==
  /\ LET h == [c EXCEPT !.mine = mine, !.alone = alone]
     IN Message(h) /\ Told(update_monitor_area(h, d))
  /\ UNCHANGED <<draws, images>>

(* invalidate: the canvas is shown again, and converted where it changed.  *)
Invalidate(cols) ==
  /\ c.image # None /\ (Mixed \/ draws = 0)
  /\ Message(c)
  /\ LET shown == set_egl_enabled(c, d, FALSE)
     IN Told(IF realized THEN do_color_convert(c, shown, cols \intersect d.area) ELSE shown)
  /\ UNCHANGED <<draws, images>>

(* display_handle_gl_scanout_unix; a scanout without a format is none.     *)
GlScanout(w) ==
  /\ Gl /\ images < MaxImages /\ images' = images + 1
  /\ LET h == [c EXCEPT !.scanout = IF w = 0 THEN None ELSE images', !.swidth = w]
     IN Message(h) /\ Told(gl_scanout(h, d))
  /\ UNCHANGED draws

(* display_handle_gl_draw; the server waits for one draw at a time.        *)
GlDraw ==
  /\ attached /\ c.scanout # None /\ draws = 0
  /\ Message(c) /\ Told(gl_draw(c, d))
  /\ draws' = IF gl_draw(c, d).context_ready THEN 1 ELSE 0
  /\ UNCHANGED images

-----------------------------------------------------------------------------
(* channel_new: the first channel may have a primary already.              *)
ChannelNew ==
  /\ ~attached /\ attached' = TRUE /\ built' = TRUE
  /\ d' = IF c.image = None THEN d ELSE mark(primary_create(c, d), c.marked)
  /\ UNCHANGED <<c, realized, draws, images, shows, channels>>

ChannelDestroy ==
  /\ attached /\ channels < MaxChannels /\ channels' = channels + 1
  /\ attached' = FALSE /\ d' = primary_destroy(d)
  /\ c' = NoChannel /\ draws' = 0
  /\ UNCHANGED <<built, realized, images, shows>>

(* realize, and gl_area_realize when the stack shows the GL area           *)
Realize ==
  /\ built /\ ~realized /\ realized' = TRUE
  /\ Anytime \/ ~d.deep
  /\ LET made == update_image(c, d)
     IN d' = IF made.enabled THEN spice_egl_init(c, made) ELSE made
  /\ UNCHANGED <<c, attached, built, draws, images, shows, channels>>

Unrealize ==
  /\ realized /\ shows < MaxShows /\ shows' = shows + 1
  /\ realized' = FALSE
  /\ d' = [image_destroy(d) EXCEPT !.gl_realized = FALSE, !.texture = None]
  /\ UNCHANGED <<c, attached, built, draws, images, channels>>

(* gl_area_render *)
Answered == draws' = 0
GlAreaRender ==
  /\ realized /\ d.enabled /\ d.gl_realized /\ d.call_draw_done
  /\ d' = [d EXCEPT !.call_draw_done = FALSE] /\ Answered
  /\ UNCHANGED <<c, attached, built, realized, images, shows, channels>>

(* spice_display_get_pixbuf *)
GetPixbuf ==
  /\ attached /\ ~d.enabled /\ d.data # None
  /\ Anytime \/ (~Gl /\ d.ready /\ ~d.deep)
  /\ d' = [d EXCEPT !.faulty = @ \/ d.convert \/ ~(d.area \subseteq Columns(d.width))]
  /\ UNCHANGED <<c, attached, built, realized, draws, images, shows, channels>>

Messages ==
  \/ \E w \in All, deep \in BOOLEAN : PrimaryCreate(w, deep)
  \/ PrimaryDestroy
  \/ \E on \in BOOLEAN : Mark(on)
  \/ \E mine \in SUBSET All, alone \in BOOLEAN : MonitorsConfig(mine, alone)
  \/ \E cols \in SUBSET All : Invalidate(cols)
  \/ \E w \in 0 .. Width : GlScanout(w)
  \/ GlDraw
Next == Messages \/ ChannelNew \/ ChannelDestroy \/ Realize \/ Unrealize
        \/ GlAreaRender \/ GetPixbuf
Fairness == WF_vars(GlAreaRender)
Spec == Init /\ [][Next]_vars /\ Fairness

-----------------------------------------------------------------------------
(* What the widget draws from is its own copy of the area, or the image    *)
(* that the channel has now; nothing was read outside of them, or freed    *)
(* that is not the widget's.                                               *)
PictureIsLive ==
  /\ {d.data, d.surface} \subseteq {NoSurface, None, Copy, c.image} /\ ~d.faulty
  /\ d.convert <=> d.data = Copy
  /\ d.surface = Copy <=> d.convert
  /\ d.convert => d.area \in {d.copy, {}}

(* A widget of one monitor is ready exactly when the primary, the monitor  *)
(* configuration and the mark say so, in whatever order they came and went. *)
Expected == (IF c.alone THEN Columns(Cardinality(c.mine)) ELSE c.mine)
              \intersect Columns(c.width)
ReadyExact ==
  attached /\ ~Gl /\ ~d.whole =>
    /\ d.cap => (d.ready <=> c.image # None /\ Expected # {} /\ d.mark)
    /\ d.ready /\ c.mine # {} => d.area = Expected

(* A GL draw that waits for its answer is always remembered, and what is    *)
(* remembered waits, unless it was a draw of a channel that is gone, ...   *)
DrawRemembered ==
  /\ draws = 1 => d.call_draw_done
  /\ d.call_draw_done => draws = 1 \/ channels > 1

(* ... and answered, unless the widget is hidden.                          *)
DrawAnswered == draws = 1 ~> draws = 0 \/ ~realized
=============================================================================
