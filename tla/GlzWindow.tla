----------------------------- MODULE GlzWindow -----------------------------
(***************************************************************************)
(* The window of decoded GLZ images (decode-glz.c), which the display      *)
(* channels of a session share.  The server numbers the images of all the  *)
(* channels in one sequence, and an image may copy from any image of the   *)
(* server's window; each channel has a socket of its own, so that images   *)
(* arrive out of order.  A coroutine whose image refers to one that has    *)
(* not come yet waits for it.                                              *)
(***************************************************************************)
EXTENDS Integers, Sequences, FiniteSets, FiniteSetsExt

CONSTANTS
  Displays,  \* the display channels
  Capacity,  \* slots of a fresh window: 16 in glz_decoder_window_clear
  MaxImages, \* bound: images of one connection
  MaxLag,    \* bound: how far an image may overtake those of other displays,
  LagAfterClear, \* ... and once the window has been cleared
  MaxClears  \* bound: migrations and disconnections

GlzWindowAssumption ==
  /\ Capacity \in Nat \ {0} /\ MaxImages \in Nat
  /\ MaxLag \in Nat /\ LagAfterClear \in Nat /\ MaxClears \in Nat

VARIABLES
  images,   \* slot -> image
  nimages, oldest, tail_gap,
  incoming, \* display -> the images that its server has sent and it has not decoded
  sent,     \* the id of the server's next image
  first,    \* the oldest image of the server's window
  clears

window == <<images, nimages, oldest, tail_gap>>
vars == <<window, incoming, sent, first, clears>>

Ids == 0 .. MaxImages - 1
Empty == [id |-> -1, head |-> -1]
(* hdr: head is id - win_head_dist; ref is the image it copies from, or id  *)
Headers == [id : Ids, head : Ids, ref : Ids]

TypeOK ==
  /\ nimages \in Nat \ {0}
  /\ images \in [0 .. nimages - 1 -> [id : Ids, head : Ids] \union {Empty}]
  /\ oldest \in 0 .. MaxImages /\ tail_gap \in 0 .. MaxImages
  /\ incoming \in [Displays -> Seq(Headers)]
  /\ sent \in 0 .. MaxImages /\ first \in 0 .. MaxImages
  /\ clears \in 0 .. MaxClears

Init ==
  /\ nimages = Capacity /\ images = [s \in 0 .. Capacity - 1 |-> Empty]
  /\ oldest = 0 /\ tail_gap = 0
  /\ incoming = [d \in Displays |-> <<>>] /\ sent = 0 /\ first = 0 /\ clears = 0

Waiting(d) == {incoming[d][k] : k \in DOMAIN incoming[d]}
Pending == {h.id : h \in UNION {Waiting(d) : d \in Displays}}

-----------------------------------------------------------------------------
(* The server: its window only ever moves on.  An image copies from the     *)
(* oldest of the window, the one that goes next, or from none.              *)
ServerSends ==
  /\ sent < MaxImages
  /\ \A i \in Pending : sent - i <= IF clears = 0 THEN MaxLag ELSE LagAfterClear
  /\ \E d \in Displays, head \in {first, first + 1} :
       /\ head <= sent
       /\ \E ref \in {head, sent} :
            incoming' = [incoming EXCEPT
                           ![d] = Append(@, [id |-> sent, head |-> head, ref |-> ref])]
       /\ first' = head
  /\ sent' = sent + 1
  /\ UNCHANGED <<window, clears>>

-----------------------------------------------------------------------------
InSlot(id) == images[id % nimages]

(* wait_for_image *)
Ready(h) == h.ref = h.id \/ InSlot(h.ref).id = h.ref

(* glz_decoder_window_resize: each image moves to its slot of twice as many. *)
MovedTo(id, n) == id % n
NotMoved(id, n) == id % (n \div 2)
NewSlot(id, n) == MovedTo(id, n)
Resized ==
  [s \in 0 .. 2 * nimages - 1 |->
     LET there == {images[k] : k \in {j \in 0 .. nimages - 1 :
                     images[j] # Empty /\ NewSlot(images[j].id, 2 * nimages) = s}}
     IN IF there = {} THEN Empty ELSE CHOOSE i \in there : TRUE]

(* glz_decoder_window_add: one resize at most, then the slot is taken.      *)
Roomy(id) == IF InSlot(id) = Empty THEN images ELSE Resized
Added(h) == LET w == Roomy(h.id) IN
            [w EXCEPT ![h.id % Cardinality(DOMAIN w)] = [id |-> h.id, head |-> h.head]]

(* ... and the gap is closed as far as the slots are taken.                 *)
ClosedGap(w, id) ==
  LET open == {g \in tail_gap .. id : w[g % Cardinality(DOMAIN w)] = Empty} IN
  IF tail_gap > id THEN tail_gap ELSE IF open = {} THEN id + 1 ELSE Min(open)

(* decode releases from the image before the gap ...                        *)
BeforeLast(w, gap, id) == w[id % Cardinality(DOMAIN w)]
BeforeGap(w, gap, id) == w[(gap - 1) % Cardinality(DOMAIN w)]
LastClosed(w, gap, id) == BeforeGap(w, gap, id)

(* ... and glz_decoder_window_release empties slots up to that one's head.  *)
Released(w, from, to) ==
  [s \in DOMAIN w |->
     IF \E g \in from .. to - 1 : g % Cardinality(DOMAIN w) = s THEN Empty ELSE w[s]]

(* decode: once the image it copies from is in the window                   *)
Decode(d) ==
  /\ incoming[d] # <<>> /\ Ready(Head(incoming[d]))
  /\ LET h == Head(incoming[d])
         w == Added(h)
         gap == ClosedGap(w, h.id)
         last == LastClosed(w, gap, h.id)
     IN
     /\ nimages' = Cardinality(DOMAIN w) /\ tail_gap' = gap
     /\ IF last = Empty \/ last.head <= oldest
          THEN images' = w /\ UNCHANGED oldest
          ELSE images' = Released(w, oldest, last.head) /\ oldest' = last.head
  /\ incoming' = [incoming EXCEPT ![d] = Tail(@)]
  /\ UNCHANGED <<sent, first, clears>>

(* glz_decoder_window_clear, when the session disconnects or migrates: the  *)
(* server that comes next starts anew.                                      *)
Clear ==
  /\ clears < MaxClears /\ sent > 0
  /\ nimages' = Capacity /\ images' = [s \in 0 .. Capacity - 1 |-> Empty]
  /\ tail_gap' = 0 /\ UNCHANGED oldest
  /\ incoming' = [d \in Displays |-> <<>>] /\ sent' = 0 /\ first' = 0
  /\ clears' = clears + 1

Next == ServerSends \/ Clear \/ \E d \in Displays : Decode(d)

Spec == Init /\ [][Next]_vars

-----------------------------------------------------------------------------
InWindow(id) == \E s \in DOMAIN images : images[s].id = id

(* No image is dropped that another, on its way, copies from: the coroutine *)
(* that waits for it would never go on (decode-glz.c:166).                  *)
ReferencesKept ==
  \A d \in Displays : \A h \in Waiting(d) :
    h.ref = h.id \/ h.ref \in Pending \/ InWindow(h.ref)

(* "only if the gap is closed" (decode-glz.c:387): every image before       *)
(* tail_gap has been decoded.                                               *)
GapClosed == \A i \in Pending : i >= tail_gap

(* The displays never wait for each other in a ring: one can always go on.  *)
NeverStuck == Pending # {} => \E d \in Displays :
                incoming[d] # <<>> /\ Ready(Head(incoming[d]))
=============================================================================
