----------------------------- MODULE ImageCache -----------------------------
(***************************************************************************)
(* The cache of images that the display channels of a session share        *)
(* (spice-channel-cache.h, the image_* operations of channel-display.c)    *)
(* and the messages that wait for other channels (channel-base.c).         *)
(*                                                                         *)
(* The server keeps the mirror of the cache and speaks to each display on  *)
(* a socket of its own, so that what it says comes in any order between    *)
(* displays: an image may be added again before its removal has come, or   *)
(* drawn from before it has.  What the server keeps is external.           *)
(***************************************************************************)
EXTENDS Integers, Sequences, Functions

CONSTANTS
  Displays, Ids, \* the display channels and the images
  AnyOrder,      \* lossy images overtake those of other displays, too
  MaxMessages    \* bound: messages in all

ImageCacheAssumption == AnyOrder \in BOOLEAN /\ MaxMessages \in Nat

VARIABLES
  images,    \* c->images: id -> item
  handled,   \* last_message_serial of each display
  messages,  \* display -> what its server has sent and it has not handled
  mirror,    \* the server: id -> what the cache should hold
  lastUse,   \* ... id -> display -> serial of the last message that used it
  stale      \* ... displays that have to wait for a cache that was emptied

server == <<mirror, lastUse, stale>>
vars == <<images, handled, messages, server>>

Absent == [lossy |-> FALSE, ref_count |-> 0]
Messages == [kind : {"put", "put_lossy", "replace", "get", "get_lossless", "inval"},
             id : Ids, wait : [Displays -> Nat]]
             \union [kind : {"inval_all", "wait"}, wait : [Displays -> Nat]]

TypeOK ==
  /\ images \in [Ids -> [lossy : BOOLEAN, ref_count : Nat]]
  /\ handled \in [Displays -> 0 .. MaxMessages]
  /\ \A d \in Displays : \A k \in DOMAIN messages[d] : messages[d][k] \in Messages
  /\ mirror \in [Ids -> {"absent", "lossy", "lossless"}]
  /\ lastUse \in [Ids -> [Displays -> 0 .. MaxMessages]]
  /\ stale \in [Displays -> BOOLEAN]

Nowhere == [d \in Displays |-> 0]
Init ==
  /\ images = [i \in Ids |-> Absent]
  /\ handled = Nowhere /\ messages = [d \in Displays |-> <<>>]
  /\ mirror = [i \in Ids |-> "absent"] /\ lastUse = [i \in Ids |-> Nowhere]
  /\ stale = [d \in Displays |-> FALSE]

-----------------------------------------------------------------------------
(* The server *)
Serial(d) == handled[d] + Len(messages[d])
Serials == [d \in Displays |-> Serial(d)]

(* bound: the messages of all the displays *)
RoomFor(n) == FoldFunction(+, 0, Serials) + n <= MaxMessages

Sends(d, m) == messages' = [messages EXCEPT ![d] = Append(@, m)]
Uses(d, kind, id) ==
  /\ ~stale[d]
  /\ Sends(d, [kind |-> kind, id |-> id, wait |-> Nowhere])
  /\ lastUse' = [lastUse EXCEPT ![id][d] = Serial(d) + 1]
  /\ UNCHANGED <<images, handled, stale>>

(* A lossy image and what replaces it do not overtake, and are not          *)
(* overtaken, unless AnyOrder says so.                                      *)
LossyKinds == {"put_lossy", "replace"}
InOrder(d, kind) ==
  AnyOrder \/ \A e \in Displays \ {d} : \A k \in DOMAIN messages[e] :
               kind \notin LossyKinds /\ messages[e][k].kind \notin LossyKinds

ServerAdds(d, id) ==
  /\ mirror[id] = "absent"
  /\ \E kind \in {"put", "put_lossy"} :
       /\ InOrder(d, kind)
       /\ Uses(d, kind, id)
       /\ mirror' = [mirror EXCEPT ![id] = IF kind = "put" THEN "lossless" ELSE "lossy"]

ServerReplaces(d, id) ==
  /\ mirror[id] = "lossy"
  /\ InOrder(d, "replace")
  /\ Uses(d, "replace", id)
  /\ mirror' = [mirror EXCEPT ![id] = "lossless"]

ServerDraws(d, id) ==
  /\ mirror[id] # "absent"
  /\ Uses(d, IF mirror[id] = "lossy" THEN "get" ELSE "get_lossless", id)
  /\ UNCHANGED mirror

(* The removal waits for the displays that have used the image.             *)
ServerRemoves(d, id) ==
  /\ mirror[id] # "absent" /\ mirror' = [mirror EXCEPT ![id] = "absent"]
  /\ Sends(d, [kind |-> "inval", id |-> id, wait |-> [lastUse[id] EXCEPT ![d] = 0]])
  /\ lastUse' = [lastUse EXCEPT ![id] = Nowhere]
  /\ UNCHANGED <<images, handled, stale>>

(* ... and so does that of all the images, and then the others wait for it. *)
ServerRemovesAll(d) ==
  /\ mirror' = [i \in Ids |-> "absent"] /\ lastUse' = [i \in Ids |-> Nowhere]
  /\ \A e \in Displays : ~stale[e]
  /\ Sends(d, [kind |-> "inval_all", wait |-> [Serials EXCEPT ![d] = 0]])
  /\ stale' = [e \in Displays |-> e # d]
  /\ UNCHANGED <<images, handled>>

ServerSyncs(d) ==
  /\ stale[d] /\ stale' = [stale EXCEPT ![d] = FALSE]
  /\ Sends(d, [kind |-> "wait", wait |-> [Serials EXCEPT ![d] = 0]])
  /\ UNCHANGED <<images, handled, mirror, lastUse>>

Server(d) ==
  /\ RoomFor(1)
  /\ \/ ServerRemovesAll(d) \/ ServerSyncs(d)
     \/ \E id \in Ids : \/ ServerAdds(d, id) \/ ServerReplaces(d, id)
                        \/ ServerDraws(d, id) \/ ServerRemoves(d, id)

-----------------------------------------------------------------------------
Present(id) == images[id].ref_count > 0

(* cache_add_lossy, cache_replace_lossy and cache_remove, counted           *)
Uncounted(item, lossy) == [lossy |-> lossy, ref_count |-> 1]
Counted(item, lossy) == [lossy |-> lossy, ref_count |-> item.ref_count + 1]
cache_add_lossy(item, lossy) == Counted(item, lossy)
cache_replace_lossy(item, lossy) ==
  [lossy |-> lossy, ref_count |-> IF item.ref_count = 0 THEN 1 ELSE item.ref_count]
cache_remove(item) ==
  IF item.ref_count <= 1 THEN Absent ELSE [item EXCEPT !.ref_count = @ - 1]

(* wait_image, and wait_for_channel                                         *)
Found(id, lossy) == Present(id) /\ (images[id].lossy => lossy)
Seen(d, e, serial) == serial <= handled[e]
Unseen(d, e, serial) == TRUE
WaitedFor(d, e, serial) == Seen(d, e, serial)

(* What the handler of a message leaves in the cache, once it need not wait *)
HandledBy(m) ==
  CASE m.kind = "put"       -> [images EXCEPT ![m.id] = cache_add_lossy(@, FALSE)]
    [] m.kind = "put_lossy" -> [images EXCEPT ![m.id] = cache_add_lossy(@, TRUE)]
    [] m.kind = "replace"   -> [images EXCEPT ![m.id] = cache_replace_lossy(@, FALSE)]
    [] m.kind = "inval"     -> [images EXCEPT ![m.id] = cache_remove(@)]
    [] m.kind = "inval_all" -> [i \in Ids |-> Absent]
    [] OTHER -> images

CanHandle(d) ==
  /\ messages[d] # <<>>
  /\ LET m == Head(messages[d]) IN
     /\ \A e \in Displays : WaitedFor(d, e, m.wait[e])
     /\ m.kind = "get" => Found(m.id, TRUE)
     /\ m.kind = "get_lossless" => Found(m.id, FALSE)

Handle(d) ==
  /\ CanHandle(d)
  /\ images' = HandledBy(Head(messages[d]))
  /\ messages' = [messages EXCEPT ![d] = Tail(@)]
  /\ handled' = [handled EXCEPT ![d] = @ + 1]
  /\ UNCHANGED server

Next == \E d \in Displays : Handle(d) \/ Server(d)
Spec == Init /\ [][Next]_vars

-----------------------------------------------------------------------------
Quiet == \A d \in Displays : messages[d] = <<>>

(* When every message has been handled the cache holds what the server      *)
(* believes it holds: nothing that was removed, and all that was added,     *)
(* whatever the order in which additions and removals came.                 *)
MirrorHolds ==
  Quiet => \A i \in Ids :
    images[i] = CASE mirror[i] = "absent" -> Absent
                  [] mirror[i] = "lossy" -> [lossy |-> TRUE, ref_count |-> 1]
                  [] OTHER -> [lossy |-> FALSE, ref_count |-> 1]

(* The displays never wait for each other, or for an image, for ever.       *)
SomeoneGoesOn == ~Quiet => \E d \in Displays : CanHandle(d)

(* The assertion of image_put_lossy (channel-display.c:782): a lossy image  *)
(* is added where there is none.                                            *)
PutsLossyAnew ==
  \A d \in Displays :
    messages[d] # <<>> /\ Head(messages[d]).kind = "put_lossy"
      => ~Present(Head(messages[d]).id)
=============================================================================
