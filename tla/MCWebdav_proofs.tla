------------------------- MODULE MCWebdav_proofs --------------------------
(***************************************************************************)
(* Proofs about folder sharing among the machines of MCDevices, for every  *)
(* value of their constants.  The invariant has three parts: the clients,  *)
(* the queue of the answers, and the stream of the guest's frames with the *)
(* demultiplexer that reads it.                                            *)
(***************************************************************************)
EXTENDS MCDevices, FiniteSetTheorems, SequenceTheorems, TLAPS

-----------------------------------------------------------------------------
(* Folder sharing: the clients *)

DavClients ==
  [id : Ids \cup {nobody}, refs : Nat, cancelled : BOOLEAN,
   read : {"none", "reading", "ready", "queued"}, closed : BOOLEAN]

\* A client that lives is in the table unless it was removed; its read holds a reference.
DavClient(o) ==
  \/ obj[o] = W!Free
  \/ /\ obj[o].id \in Ids /\ obj[o].read \in {"reading", "ready", "queued"}
     /\ obj[o].refs = IF obj[o].cancelled = TRUE THEN 1 ELSE 2
     /\ obj[o].cancelled = FALSE => clients[obj[o].id] = o
     /\ obj[o].closed = TRUE => obj[o].read # "reading"

DavClientsInv ==
  /\ writing \in Objects \cup {nobody} /\ clients \in [Ids -> Objects \cup {nobody}]
  /\ obj \in [Objects -> DavClients]
  /\ \A o \in Objects : DavClient(o)
  /\ \A i \in Ids : clients[i] # nobody =>
       obj[clients[i]].id = i /\ obj[clients[i]].cancelled = FALSE
  /\ writing # nobody => obj[writing].id # nobody /\ obj[writing].cancelled = FALSE

\* What the other parts need: only one client changes, and it keeps its number.
DavOthersSame(o) == \A p \in Objects : p # o => obj'[p] = obj[p]

LEMMA DavConstants ==
  /\ nobody \notin Ids /\ nobody \notin Objects /\ W!Free \in DavClients
  /\ W!Free.id = nobody /\ W!Free.refs = 0 /\ W!Free.cancelled = FALSE
  /\ W!Free.read = "none" /\ W!Free.closed = FALSE
<1>1. nobody \notin Ids /\ nobody \notin Objects
      BY DevicesAssumption DEF W!WebdavAssumption
<1>2. W!Free \in DavClients
      BY DEF W!Free, DavClients
<1>3. /\ W!Free.id = nobody /\ W!Free.refs = 0 /\ W!Free.cancelled = FALSE
      /\ W!Free.read = "none" /\ W!Free.closed = FALSE
      BY DEF W!Free
<1> QED BY <1>1, <1>2, <1>3

LEMMA InitDavClients == W!Init => DavClientsInv
<1> SUFFICES ASSUME W!Init PROVE DavClientsInv
    OBVIOUS
<1>1. /\ writing = nobody /\ clients = [i \in Ids |-> nobody]
      /\ obj = [o \in Objects |-> W!Free]
      BY DEF W!Init
<1> QED BY <1>1, DavConstants DEF DavClientsInv, DavClient

\* A client that is alive, by its fields
LEMMA DavAlive ==
  ASSUME DavClientsInv, NEW o \in Objects, obj[o] # W!Free
  PROVE  /\ obj[o] \in DavClients /\ obj[o].id \in Ids /\ obj[o].id # nobody
         /\ obj[o].read \in {"reading", "ready", "queued"}
         /\ obj[o].refs = IF obj[o].cancelled = TRUE THEN 1 ELSE 2
         /\ obj[o].cancelled = FALSE => clients[obj[o].id] = o
         /\ obj[o].closed = TRUE => obj[o].read # "reading"
BY DavConstants DEF DavClientsInv, DavClient

\* Client o is r now, and is taken from the table if it was and is no more in it.
LEMMA DavChanged ==
  ASSUME DavClientsInv, NEW o \in Objects, NEW r \in DavClients,
         obj' = [obj EXCEPT ![o] = r], writing' \in Objects \cup {nobody},
         obj[o] # W!Free,
         \/ r = W!Free
         \/ /\ r.id = obj[o].id /\ r.read \in {"reading", "ready", "queued"}
            /\ r.refs = IF r.cancelled = TRUE THEN 1 ELSE 2
            /\ r.closed = TRUE => r.read # "reading",
         \/ clients' = clients /\ r # W!Free /\ r.cancelled = obj[o].cancelled
         \/ clients' = clients /\ obj[o].cancelled = TRUE /\ (r = W!Free \/ r.cancelled = TRUE)
         \/ /\ clients' = [clients EXCEPT ![obj[o].id] = nobody]
            /\ obj[o].cancelled = FALSE /\ (r = W!Free \/ r.cancelled = TRUE),
         writing' # nobody => /\ writing' = writing
                              /\ writing' = o => r # W!Free /\ r.cancelled = FALSE
  PROVE  DavClientsInv' /\ DavOthersSame(o) /\ obj'[o] = r
<1>1. /\ obj \in [Objects -> DavClients] /\ clients \in [Ids -> Objects \cup {nobody}]
      /\ \A p \in Objects : DavClient(p)
      /\ \A i \in Ids : clients[i] # nobody =>
           obj[clients[i]].id = i /\ obj[clients[i]].cancelled = FALSE
      /\ writing # nobody => obj[writing].id # nobody /\ obj[writing].cancelled = FALSE
      BY DEF DavClientsInv
<1>2. obj[o].id \in Ids /\ (obj[o].cancelled = FALSE => clients[obj[o].id] = o)
      BY DavAlive
<1>3. obj' \in [Objects -> DavClients] /\ obj'[o] = r /\ \A p \in Objects : p # o => obj'[p] = obj[p]
      BY <1>1
<1>4. clients' \in [Ids -> Objects \cup {nobody}]
      BY <1>1
<1>5. \A i \in Ids : i # obj[o].id => clients'[i] = clients[i]
      BY <1>1, <1>2
<1>6. r \in DavClients /\ r.cancelled \in BOOLEAN /\ obj[o].cancelled \in BOOLEAN
      BY <1>1 DEF DavClients
<1>7. ASSUME NEW p \in Objects PROVE DavClient(p)'
  <2>1. CASE p = o
    <3>1. CASE r = W!Free
          BY <1>3, <2>1, <3>1 DEF DavClient
    <3>2. CASE r # W!Free
      <4>1. r.cancelled = FALSE => clients'[r.id] = o
            BY <1>2, <1>6, <3>2
      <4> QED BY <1>2, <1>3, <2>1, <3>2, <4>1 DEF DavClient
    <3> QED BY <3>1, <3>2
  <2>2. CASE p # o
    <3>1. obj'[p] = obj[p] /\ DavClient(p)
          BY <1>1, <1>3, <2>2
    <3>2. CASE obj[p] = W!Free
          BY <3>1, <3>2 DEF DavClient
    <3>3. CASE obj[p] # W!Free
      <4>1. obj[p].cancelled = FALSE => clients[obj[p].id] = p /\ obj[p].id \in Ids
            BY <3>1, <3>3 DEF DavClient
      <4>2. obj[p].cancelled = FALSE => clients'[obj[p].id] = p
        <5>1. CASE obj[p].id # obj[o].id
              BY <1>5, <4>1, <5>1
        <5>2. CASE obj[p].id = obj[o].id
              BY <1>2, <1>6, <2>2, <4>1, <5>2
        <5> QED BY <5>1, <5>2
      <4> QED BY <3>1, <3>3, <4>2 DEF DavClient
    <3> QED BY <3>2, <3>3
  <2> QED BY <2>1, <2>2
<1>8. ASSUME NEW i \in Ids, clients'[i] # nobody
      PROVE  obj'[clients'[i]].id = i /\ obj'[clients'[i]].cancelled = FALSE
  <2>1. clients'[i] = clients[i]
        BY <1>1, <1>2, <1>8
  <2>2. clients[i] \in Objects /\ obj[clients[i]].id = i /\ obj[clients[i]].cancelled = FALSE
        BY <1>1, <1>8, <2>1
  <2>3. CASE clients[i] # o
        BY <1>3, <2>1, <2>2, <2>3
  <2>4. CASE clients[i] = o
    <3>1. obj[o].cancelled = FALSE /\ obj[o].id = i
          BY <2>2, <2>4
    <3>2. clients' = clients /\ r # W!Free /\ r.cancelled = obj[o].cancelled
      <4>1. ~(clients' = [clients EXCEPT ![obj[o].id] = nobody])
            BY <1>1, <1>8, <3>1
      <4> QED BY <3>1, <4>1
    <3> QED BY <1>3, <2>1, <2>4, <3>1, <3>2
  <2> QED BY <2>3, <2>4
<1>9. ASSUME writing' # nobody
      PROVE  obj'[writing'].id # nobody /\ obj'[writing'].cancelled = FALSE
  <2>1. writing' = writing /\ writing \in Objects
        BY <1>9
  <2>2. CASE writing' = o
    <3>1. r # W!Free /\ r.cancelled = FALSE /\ r.id = obj[o].id
          BY <1>9, <2>2
    <3> QED BY <1>2, <1>3, <2>2, <3>1, DavConstants
  <2>3. CASE writing' # o
        BY <1>1, <1>3, <1>9, <2>1, <2>3
  <2> QED BY <2>2, <2>3
<1> QED BY <1>3, <1>4, <1>7, <1>8, <1>9 DEF DavClientsInv, DavOthersSame

DavQueuedSame == \A p \in Objects : obj[p].read = "queued" => obj'[p].read = "queued"
DavWriterSame == writing # nobody => obj'[writing].id = obj[writing].id

LEMMA DavReplies ==
  ASSUME DavClientsInv, NEW o \in Objects, W!ServerReplies(o)
  PROVE  DavClientsInv' /\ DavQueuedSame /\ DavWriterSame
<1>1. PICK c \in BOOLEAN : obj' = [obj EXCEPT ![o].read = "ready", ![o].closed = c]
      BY DEF W!ServerReplies
<1>2. obj[o].read = "reading" /\ writing' = writing /\ clients' = clients
      BY DEF W!ServerReplies
<1>3. obj[o] # W!Free /\ obj \in [Objects -> DavClients] /\ writing \in Objects \cup {nobody}
      BY <1>2, DavConstants DEF DavClientsInv
<1>4. PICK s \in DavClients : s = obj[o]
      BY <1>3
<1>5. PICK r : r = [s EXCEPT !.read = "ready", !.closed = c]
      OBVIOUS
<1>6. /\ r \in DavClients /\ r.id = s.id /\ r.refs = s.refs /\ r.cancelled = s.cancelled
      /\ r.read = "ready"
      BY <1>5 DEF DavClients
<1>7. obj' = [obj EXCEPT ![o] = r]
      BY <1>1, <1>3, <1>4, <1>5
<1>8. r # W!Free
      BY <1>6, DavConstants
<1>9. r.refs = IF r.cancelled = TRUE THEN 1 ELSE 2
      BY <1>3, <1>4, <1>6, DavAlive
<1>10. writing # nobody => obj[writing].cancelled = FALSE
      BY DEF DavClientsInv
<1>11. DavClientsInv' /\ DavOthersSame(o) /\ obj'[o] = r
  <2>1. writing' = o => r.cancelled = FALSE
        BY <1>2, <1>4, <1>6, <1>10, DavConstants
  <2> QED BY <1>2, <1>3, <1>4, <1>6, <1>7, <1>8, <1>9, <2>1, DavChanged
<1>12. DavQueuedSame
      BY <1>2, <1>11 DEF DavOthersSame, DavQueuedSame
<1>13. DavWriterSame
      BY <1>3, <1>4, <1>6, <1>11 DEF DavOthersSame, DavWriterSame
<1> QED BY <1>11, <1>12, <1>13

\* What client_unref and remove_client make of one client
LEMMA DavUnref ==
  ASSUME NEW f \in [Objects -> DavClients], NEW o \in Objects
  PROVE  /\ f[o].refs = 1 => W!Unref(f, o) = [f EXCEPT ![o] = W!Free]
         /\ f[o].refs # 1 => W!Unref(f, o) = [f EXCEPT ![o] = [f[o] EXCEPT !.refs = @ - 1]]
BY DEF W!Unref

LEMMA DavReplyCb ==
  ASSUME DavClientsInv, NEW o \in Objects, W!ServerReplyCb(o)
  PROVE  DavClientsInv' /\ DavQueuedSame /\ DavWriterSame
<1>1. /\ writing' = writing /\ clients' = clients
      /\ obj[o].read = "ready" \/ (obj[o].read = "reading" /\ obj[o].cancelled)
      BY DEF W!ServerReplyCb, W!ReadReady
<1>2. obj \in [Objects -> DavClients] /\ writing \in Objects \cup {nobody} /\ obj[o] # W!Free
      BY <1>1, DavConstants DEF DavClientsInv
<1>3. PICK s \in DavClients : s = obj[o]
      BY <1>2
<1>4. writing # nobody => obj[writing].cancelled = FALSE /\ obj[writing].id # nobody
      BY DEF DavClientsInv
<1>5. s.refs = IF s.cancelled = TRUE THEN 1 ELSE 2
      BY <1>2, <1>3, DavAlive
<1>6. CASE obj[o].cancelled /\ obj' = W!Unref([obj EXCEPT ![o].read = "none"], o)
  <2>1. PICK f : f = [obj EXCEPT ![o].read = "none"]
        OBVIOUS
  <2>2. /\ f \in [Objects -> DavClients] /\ f[o].refs = s.refs
        /\ \A p \in Objects : p # o => f[p] = obj[p]
        BY <1>2, <1>3, <2>1 DEF DavClients
  <2>3. s.cancelled = TRUE /\ s.refs = 1
        BY <1>3, <1>5, <1>6 DEF DavClients
  <2>4. obj' = [f EXCEPT ![o] = W!Free]
        BY <1>6, <2>1, <2>2, <2>3, DavUnref
  <2>5. obj' = [obj EXCEPT ![o] = W!Free]
        BY <1>2, <2>1, <2>4
  <2>6. W!Free \in DavClients
        BY DavConstants
  <2>7. DavClientsInv' /\ DavOthersSame(o)
    <3>1. writing' # o
          BY <1>1, <1>3, <1>4, <2>3, DavConstants
    <3> QED BY <1>1, <1>2, <1>3, <2>3, <2>5, <2>6, <3>1, DavChanged
  <2>8. DavQueuedSame
        BY <1>1, <2>7 DEF DavQueuedSame, DavOthersSame
  <2>9. DavWriterSame
    <3>1. writing # nobody => writing # o
          BY <1>3, <1>4, <2>3
    <3> QED BY <1>2, <2>7, <3>1 DEF DavWriterSame, DavOthersSame
  <2> QED BY <2>7, <2>8, <2>9
<1>7. CASE ~obj[o].cancelled /\ obj' = [obj EXCEPT ![o].read = "queued"]
  <2>1. PICK r : r = [s EXCEPT !.read = "queued"]
        OBVIOUS
  <2>2. /\ r \in DavClients /\ r.id = s.id /\ r.refs = s.refs /\ r.cancelled = s.cancelled
        /\ r.read = "queued"
        BY <2>1 DEF DavClients
  <2>3. obj' = [obj EXCEPT ![o] = r] /\ r # W!Free
        BY <1>2, <1>3, <1>7, <2>1, <2>2, DavConstants
  <2>4. DavClientsInv' /\ DavOthersSame(o) /\ obj'[o] = r
    <3>1. writing' = o => r.cancelled = FALSE
          BY <1>1, <1>3, <1>4, <2>2, DavConstants
    <3>2. r.refs = IF r.cancelled = TRUE THEN 1 ELSE 2
          BY <1>5, <2>2
    <3> QED BY <1>1, <1>2, <1>3, <2>2, <2>3, <3>1, <3>2, DavChanged
  <2>5. DavQueuedSame
        BY <2>2, <2>4 DEF DavQueuedSame, DavOthersSame
  <2>6. DavWriterSame
        BY <1>2, <1>3, <2>2, <2>4 DEF DavWriterSame, DavOthersSame
  <2> QED BY <2>4, <2>5, <2>6
<1> QED BY <1>6, <1>7 DEF W!ServerReplyCb

\* A client taken from the table by remove_client loses that reference.
LEMMA DavRemoveClient ==
  ASSUME DavClientsInv, NEW o \in Objects, obj[o] # W!Free, obj[o].cancelled = FALSE,
         obj' = W!RemoveClient(obj, o), clients' = W!RemovedFrom(o),
         obj[o].closed = TRUE, writing = o, writing' = nobody
  PROVE  DavClientsInv' /\ DavQueuedSame
<1>1. obj \in [Objects -> DavClients] /\ nobody \notin Objects
      BY DavConstants DEF DavClientsInv
<1>2. PICK s \in DavClients : s = obj[o]
      BY <1>1
<1>3. /\ s.refs = 2 /\ s.read \in {"reading", "ready", "queued"} /\ s.read # "reading"
      /\ s.id # nobody
      BY <1>2, DavAlive
<1>4. PICK f : f = [obj EXCEPT ![o].cancelled = TRUE]
      OBVIOUS
<1>5. /\ f \in [Objects -> DavClients] /\ f[o] = [s EXCEPT !.cancelled = TRUE]
      /\ f[o].refs = 2
      BY <1>1, <1>2, <1>3, <1>4 DEF DavClients
<1>6. obj' = W!Unref(f, o) /\ clients' = [clients EXCEPT ![obj[o].id] = nobody]
      BY <1>4 DEF W!RemoveClient, W!RemovedFrom, W!Removed
<1>7. PICK r : r = [s EXCEPT !.cancelled = TRUE, !.refs = 1]
      OBVIOUS
<1>8. /\ r \in DavClients /\ r.id = s.id /\ r.refs = 1 /\ r.cancelled = TRUE /\ r.read = s.read
      /\ r.closed = s.closed
      BY <1>3, <1>7 DEF DavClients
<1>9. obj' = [f EXCEPT ![o] = r]
  <2>1. PICK g \in DavClients : g = f[o]
        BY <1>5
  <2>2. [g EXCEPT !.refs = @ - 1] = r
    <3>1. g.refs - 1 = 1
          BY <1>5, <2>1
    <3>2. [g EXCEPT !.refs = @ - 1] = [g EXCEPT !.refs = 1]
          BY <3>1
    <3>3. [g EXCEPT !.refs = 1] = r
          BY <1>5, <1>7, <2>1 DEF DavClients
    <3> QED BY <3>2, <3>3
  <2>3. obj' = [f EXCEPT ![o] = [g EXCEPT !.refs = @ - 1]]
    <3>1. f[o].refs # 1
          BY <1>5
    <3>2. obj' = [f EXCEPT ![o] = [f[o] EXCEPT !.refs = @ - 1]]
          BY <1>5, <1>6, <3>1, DavUnref
    <3> QED BY <2>1, <3>2
  <2> QED BY <2>2, <2>3
<1>10. obj' = [obj EXCEPT ![o] = r]
      BY <1>1, <1>4, <1>9
<1>11. r # W!Free
      BY <1>3, <1>8, DavConstants
<1>12. DavClientsInv' /\ DavOthersSame(o) /\ obj'[o] = r
      BY <1>2, <1>3, <1>6, <1>8, <1>10, <1>11, DavChanged
<1> QED BY <1>2, <1>8, <1>12 DEF DavQueuedSame, DavOthersSame

\* Another reference gone, after what changed client o alone: the client is freed.
LEMMA DavFreed ==
  ASSUME obj \in [Objects -> DavClients], NEW o \in Objects, NEW f \in [Objects -> DavClients],
         \A p \in Objects : p # o => f[p] = obj[p], f[o].refs = 1
  PROVE  W!Unref(f, o) = [obj EXCEPT ![o] = W!Free]
<1>1. W!Unref(f, o) = [f EXCEPT ![o] = W!Free]
      BY DavUnref
<1>2. [f EXCEPT ![o] = W!Free] = [obj EXCEPT ![o] = W!Free]
      OBVIOUS
<1> QED BY <1>1, <1>2

LEMMA DavPushed ==
  ASSUME DavClientsInv, NEW o \in Objects, obj[o].read = "queued", W!Pushed(o),
         writing' = writing, W!Idle
  PROVE  DavClientsInv' /\ DavOthersSame(o) /\ DavWriterSame
<1>1. /\ obj \in [Objects -> DavClients] /\ writing \in Objects \cup {nobody}
      /\ writing # nobody => obj[writing].cancelled = FALSE /\ obj[writing].id # nobody
      BY DEF DavClientsInv
<1>2. PICK s \in DavClients : s = obj[o]
      BY <1>1
<1>3. obj[o] # W!Free
      BY DavConstants
<1>4. s.refs = IF s.cancelled = TRUE THEN 1 ELSE 2
      BY <1>2, <1>3, DavAlive
<1>5. s.cancelled \in BOOLEAN /\ s.closed \in BOOLEAN
      BY DEF DavClients
<1>6. CASE obj[o].closed
  <2>1. PICK f : f = [obj EXCEPT ![o].read = "none"]
        OBVIOUS
  <2>2. /\ f \in [Objects -> DavClients] /\ f[o] = [s EXCEPT !.read = "none"]
        /\ f[o].refs = s.refs /\ \A p \in Objects : p # o => f[p] = obj[p]
        BY <1>1, <1>2, <2>1 DEF DavClients
  <2>3. obj' = W!Unref(W!RemoveClient(f, o), o) /\ clients' = W!RemovedFrom(o)
        BY <1>6, <2>1 DEF W!Pushed
  <2>4. writing # o
        BY <1>6, DavConstants DEF W!Idle, W!WriteFails
  <2>5. W!Free \in DavClients
        BY DavConstants
  <2>6. CASE s.cancelled = TRUE
    <3>1. W!RemoveClient(f, o) = f /\ clients' = clients
          BY <1>2, <2>3, <2>6 DEF W!RemoveClient, W!RemovedFrom, W!Removed
    <3>2. f[o].refs = 1
          BY <1>4, <2>2, <2>6
    <3>3. obj' = [obj EXCEPT ![o] = W!Free]
      <4>1. obj' = W!Unref(f, o)
            BY <2>3, <3>1
      <4>2. W!Unref(f, o) = [obj EXCEPT ![o] = W!Free]
        <5>1. obj \in [Objects -> DavClients]
              BY <1>1
        <5>2. f \in [Objects -> DavClients] /\ \A p \in Objects : p # o => f[p] = obj[p]
              BY <2>2
        <5> QED BY <3>2, <5>1, <5>2, DavFreed
      <4> QED BY <4>1, <4>2
    <3>4. DavClientsInv' /\ DavOthersSame(o)
          BY <1>1, <1>2, <1>3, <2>4, <2>5, <2>6, <3>1, <3>3, DavChanged
    <3> QED BY <1>1, <2>4, <3>4 DEF DavWriterSame, DavOthersSame
  <2>7. CASE s.cancelled = FALSE
    <3>1. PICK g : g = [f EXCEPT ![o].cancelled = TRUE]
          OBVIOUS
    <3>2. W!RemoveClient(f, o) = W!Unref(g, o) /\ clients' = [clients EXCEPT ![obj[o].id] = nobody]
          BY <1>2, <2>3, <2>7, <3>1 DEF W!RemoveClient, W!RemovedFrom, W!Removed
    <3>3. /\ g \in [Objects -> DavClients] /\ g[o].refs = 2
          /\ \A p \in Objects : p # o => g[p] = obj[p]
          BY <1>4, <2>2, <2>7, <3>1 DEF DavClients
    <3>4. PICK h : h = W!Unref(g, o)
          OBVIOUS
    <3>5. h = [g EXCEPT ![o] = [g[o] EXCEPT !.refs = @ - 1]]
      <4>1. g[o].refs # 1
            BY <3>3
      <4> QED BY <3>3, <3>4, <4>1, DavUnref
    <3>6. PICK u \in DavClients : u = g[o] /\ u.refs = 2
          BY <3>3
    <3>7. [u EXCEPT !.refs = @ - 1] \in DavClients /\ [u EXCEPT !.refs = @ - 1].refs = 1
          BY <3>6 DEF DavClients
    <3>8. /\ h \in [Objects -> DavClients] /\ h[o].refs = 1
          /\ \A p \in Objects : p # o => h[p] = obj[p]
          BY <3>3, <3>5, <3>6, <3>7
    <3>9. obj' = W!Unref(h, o)
          BY <2>3, <3>2, <3>4
    <3>10. obj' = [obj EXCEPT ![o] = W!Free]
          BY <1>1, <3>8, <3>9, DavFreed
    <3>11. DavClientsInv' /\ DavOthersSame(o)
          BY <1>1, <1>2, <1>3, <2>4, <2>5, <2>7, <3>2, <3>10, DavChanged
    <3> QED BY <1>1, <2>4, <3>11 DEF DavWriterSame, DavOthersSame
  <2> QED BY <1>5, <2>6, <2>7
<1>7. CASE ~obj[o].closed
  <2>1. obj' = [obj EXCEPT ![o].read = "reading"] /\ clients' = clients
        BY <1>7 DEF W!Pushed
  <2>2. PICK r : r = [s EXCEPT !.read = "reading"]
        OBVIOUS
  <2>3. /\ r \in DavClients /\ r.id = s.id /\ r.refs = s.refs /\ r.cancelled = s.cancelled
        /\ r.read = "reading" /\ r.closed = s.closed
        BY <2>2 DEF DavClients
  <2>4. r.closed = FALSE
        BY <1>2, <1>5, <1>7, <2>3
  <2>5. obj' = [obj EXCEPT ![o] = r] /\ r # W!Free
        BY <1>1, <1>2, <2>1, <2>2, <2>3, DavConstants
  <2>6. DavClientsInv' /\ DavOthersSame(o) /\ obj'[o] = r
    <3>1. writing' = o => r.cancelled = FALSE
          BY <1>1, <1>2, <2>3, DavConstants
    <3>2. r.refs = IF r.cancelled = TRUE THEN 1 ELSE 2
          BY <1>4, <2>3
    <3> QED BY <1>1, <1>2, <1>3, <2>1, <2>3, <2>4, <2>5, <3>1, <3>2, DavChanged
  <2> QED BY <1>1, <1>2, <2>3, <2>6 DEF DavWriterSame, DavOthersSame
<1> QED BY <1>6, <1>7

LEMMA DavStart ==
  ASSUME DavClientsInv, writing = nobody, demux.client \in Ids,
         clients[demux.client] = nobody, NEW n \in Objects, W!StartClient(n)
  PROVE  DavClientsInv' /\ DavQueuedSame /\ obj'[n].id = demux.client
<1>1. PICK c \in Ids : c = demux.client /\ clients[c] = nobody
      OBVIOUS
<1>2. PICK r : r = [id |-> c, refs |-> 2, cancelled |-> FALSE, read |-> "reading", closed |-> FALSE]
      OBVIOUS
<1>3. /\ r \in DavClients /\ r.id = c /\ r.refs = 2 /\ r.cancelled = FALSE
      /\ r.read = "reading" /\ r.closed = FALSE
      BY <1>2 DEF DavClients
<1>4. /\ obj[n] = W!Free /\ obj' = [obj EXCEPT ![n] = r] /\ clients' = [clients EXCEPT ![c] = n]
      /\ writing' = n \/ writing' = nobody
      BY <1>1, <1>2 DEF W!StartClient, W!ToClient
<1>5. /\ obj \in [Objects -> DavClients] /\ clients \in [Ids -> Objects \cup {nobody}]
      /\ \A p \in Objects : DavClient(p)
      /\ \A i \in Ids : clients[i] # nobody =>
           obj[clients[i]].id = i /\ obj[clients[i]].cancelled = FALSE
      BY DEF DavClientsInv
<1>6. /\ obj' \in [Objects -> DavClients] /\ obj'[n] = r
      /\ \A p \in Objects : p # n => obj'[p] = obj[p]
      BY <1>3, <1>4, <1>5
<1>7. /\ clients' \in [Ids -> Objects \cup {nobody}] /\ clients'[c] = n
      /\ \A i \in Ids : i # c => clients'[i] = clients[i]
      BY <1>4, <1>5
<1>8. ASSUME NEW p \in Objects PROVE DavClient(p)'
  <2>1. CASE p = n
        BY <1>3, <1>6, <1>7, <2>1 DEF DavClient
  <2>2. CASE p # n
    <3>1. obj'[p] = obj[p] /\ DavClient(p)
          BY <1>5, <1>6, <2>2
    <3>2. CASE obj[p] = W!Free
          BY <3>1, <3>2 DEF DavClient
    <3>3. CASE obj[p] # W!Free
      <4>1. obj[p].cancelled = FALSE => clients[obj[p].id] = p /\ obj[p].id \in Ids
            BY <3>1, <3>3 DEF DavClient
      <4>2. obj[p].cancelled = FALSE => obj[p].id # c
            BY <1>1, <4>1, DavConstants
      <4>3. obj[p].cancelled = FALSE => clients'[obj[p].id] = p
            BY <1>7, <4>1, <4>2
      <4> QED BY <3>1, <3>3, <4>3 DEF DavClient
    <3> QED BY <3>2, <3>3
  <2> QED BY <2>1, <2>2
<1>9. ASSUME NEW i \in Ids, clients'[i] # nobody
      PROVE  obj'[clients'[i]].id = i /\ obj'[clients'[i]].cancelled = FALSE
  <2>1. CASE i = c
        BY <1>3, <1>6, <1>7, <2>1
  <2>2. CASE i # c
    <3>1. clients'[i] = clients[i] /\ obj[clients[i]].id = i /\ clients[i] \in Objects
          BY <1>5, <1>7, <1>9, <2>2
    <3>2. clients[i] # n
          BY <1>4, <3>1, DavConstants
    <3> QED BY <1>5, <1>6, <1>9, <3>1, <3>2
  <2> QED BY <2>1, <2>2
<1>10. /\ writing' \in Objects \cup {nobody}
       /\ writing' # nobody => obj'[writing'].id # nobody /\ obj'[writing'].cancelled = FALSE
       BY <1>3, <1>4, <1>6, DavConstants
<1>11. DavQueuedSame
       BY <1>4, <1>6, DavConstants DEF DavQueuedSame
<1> QED BY <1>1, <1>3, <1>6, <1>7, <1>8, <1>9, <1>10, <1>11 DEF DavClientsInv

LEMMA DavPortClosed ==
  ASSUME DavClientsInv, writing = nobody, W!PortClosed
  PROVE  DavClientsInv' /\ DavQueuedSame
<1>1. /\ obj' = [o \in Objects |->
           IF W!InTable(o) THEN W!Unref([obj EXCEPT ![o].cancelled = TRUE], o)[o] ELSE obj[o]]
      /\ clients' = [i \in Ids |-> nobody] /\ writing' = nobody
      BY DEF W!PortClosed
<1>2. /\ obj \in [Objects -> DavClients] /\ \A p \in Objects : DavClient(p)
      /\ clients \in [Ids -> Objects \cup {nobody}]
      /\ \A i \in Ids : clients[i] # nobody =>
           obj[clients[i]].id = i /\ obj[clients[i]].cancelled = FALSE
      BY DEF DavClientsInv
<1>3. ASSUME NEW o \in Objects
      PROVE  /\ obj'[o] \in DavClients /\ DavClient(o)'
             /\ obj[o].read = "queued" => obj'[o].read = "queued"
  <2>1. PICK s \in DavClients : s = obj[o]
        BY <1>2
  <2>2. CASE W!InTable(o)
    <3>1. s.id \in Ids /\ s.cancelled = FALSE
          BY <1>2, <2>1, <2>2, DavConstants DEF W!InTable
    <3>2. s # W!Free
          BY <3>1, DavConstants
    <3>3. /\ s.refs = 2 /\ s.read \in {"reading", "ready", "queued"}
          /\ s.closed = TRUE => s.read # "reading"
          BY <2>1, <3>1, <3>2, DavAlive
    <3>4. PICK f : f = [obj EXCEPT ![o].cancelled = TRUE]
          OBVIOUS
    <3>5. f \in [Objects -> DavClients] /\ f[o] = [s EXCEPT !.cancelled = TRUE] /\ f[o].refs = 2
          BY <1>2, <2>1, <3>3, <3>4 DEF DavClients
    <3>6. PICK g \in DavClients : g = f[o]
          BY <3>5
    <3>7. g.refs = 2 /\ g.cancelled = TRUE /\ g.id = s.id /\ g.read = s.read /\ g.closed = s.closed
          BY <3>5, <3>6 DEF DavClients
    <3>8. PICK r : r = [g EXCEPT !.refs = 1]
          OBVIOUS
    <3>9. /\ r \in DavClients /\ r.refs = 1 /\ r.cancelled = TRUE /\ r.id = s.id
          /\ r.read = s.read /\ r.closed = s.closed
          BY <3>7, <3>8 DEF DavClients
    <3>10. W!Unref(f, o) = [f EXCEPT ![o] = [f[o] EXCEPT !.refs = @ - 1]]
      <4>1. f[o].refs # 1
            BY <3>5
      <4> QED BY <3>5, <4>1, DavUnref
    <3>11. W!Unref(f, o)[o] = [g EXCEPT !.refs = @ - 1]
          BY <3>5, <3>6, <3>10
    <3>12. [g EXCEPT !.refs = @ - 1] = r
      <4>1. g.refs - 1 = 1
            BY <3>7
      <4> QED BY <3>8, <4>1
    <3>13. obj'[o] = r
          BY <1>1, <2>2, <3>4, <3>11, <3>12
    <3> QED BY <2>1, <3>1, <3>3, <3>9, <3>13 DEF DavClient
  <2>3. CASE ~W!InTable(o)
    <3>1. obj'[o] = s
          BY <1>1, <2>1, <2>3
    <3>2. s # W!Free => s.cancelled # FALSE
          BY <2>1, <2>3, DavAlive DEF W!InTable
    <3>3. s.cancelled \in BOOLEAN
          BY DEF DavClients
    <3>4. DavClient(o)
          BY <1>2
    <3> QED BY <2>1, <3>1, <3>2, <3>3, <3>4 DEF DavClient
  <2> QED BY <2>2, <2>3
<1>4. obj' \in [Objects -> DavClients]
  <2>1. obj' = [o \in Objects |-> obj'[o]]
        BY <1>1
  <2> QED BY <1>3, <2>1
<1>5. clients' \in [Ids -> Objects \cup {nobody}] /\ \A i \in Ids : clients'[i] = nobody
      BY <1>1
<1> QED BY <1>1, <1>3, <1>4, <1>5 DEF DavClientsInv, DavQueuedSame

-----------------------------------------------------------------------------
(* Folder sharing: the output queue *)

DavPart(k) == IF k = 0 THEN "id" ELSE IF k = 1 THEN "size" ELSE "data"

\* Whole answers, each of one client
DavWhole(s) ==
  /\ Len(s) % 3 = 0
  /\ \A i \in 1 .. Len(s) : /\ s[i].part = DavPart((i - 1) % 3)
                            /\ s[i].obj = s[i - ((i - 1) % 3)].obj

\* A client has one answer at most in the queue.
DavQueueInv ==
  /\ queue \in [elems : Seq(W!Elements), flushing : BOOLEAN, idle : BOOLEAN]
  /\ muxed \in Seq(W!Elements) /\ DavWhole(muxed \o queue.elems)
  /\ queue.elems # <<>> => queue.idle = TRUE \/ queue.flushing = TRUE
  /\ \A i \in 1 .. Len(queue.elems) : obj[queue.elems[i].obj].read = "queued"
  /\ \A i, j \in 1 .. Len(queue.elems) :
       i < j /\ queue.elems[i].part = "data" => queue.elems[i].obj # queue.elems[j].obj

LEMMA InitDavQueue == W!Init => DavQueueInv
<1> SUFFICES ASSUME W!Init PROVE DavQueueInv
    OBVIOUS
<1>1. queue = [elems |-> <<>>, flushing |-> FALSE, idle |-> FALSE] /\ muxed = <<>>
      BY DEF W!Init
<1>2. /\ queue.elems = <<>> /\ <<>> \in Seq(W!Elements) /\ Len(queue.elems) = 0
      /\ queue.flushing = FALSE /\ queue.idle = FALSE
      BY <1>1, EmptySeq
<1>3. muxed \o queue.elems = <<>>
      BY <1>1, <1>2, ConcatEmptySeq
<1>4. DavWhole(muxed \o queue.elems)
      BY <1>3, EmptySeq DEF DavWhole
<1>5. queue \in [elems : Seq(W!Elements), flushing : BOOLEAN, idle : BOOLEAN]
      BY <1>1, <1>2
<1> QED BY <1>1, <1>2, <1>4, <1>5 DEF DavQueueInv

\* A queue that is left alone, with the reads of its clients
LEMMA DavQueueKept ==
  ASSUME DavQueueInv, DavQueuedSame, queue' = queue, muxed' = muxed
  PROVE  DavQueueInv'
<1>1. \A i \in 1 .. Len(queue.elems) : queue.elems[i].obj \in Objects
  <2>1. queue.elems \in Seq(W!Elements)
        BY DEF DavQueueInv
  <2>2. \A i \in 1 .. Len(queue.elems) : queue.elems[i] \in W!Elements
        BY <2>1, ElementOfSeq
  <2> QED BY <2>2 DEF W!Elements
<1>2. \A i \in 1 .. Len(queue'.elems) : obj'[queue'.elems[i].obj].read = "queued"
      BY <1>1 DEF DavQueueInv, DavQueuedSame
<1>3. DavWhole(muxed' \o queue'.elems)
      BY DEF DavQueueInv
<1> QED BY <1>2, <1>3 DEF DavQueueInv

LEMMA DavThirds ==
  ASSUME NEW n \in Nat, n % 3 = 0
  PROVE  (n + 1) % 3 = 1 /\ (n + 2) % 3 = 2 /\ (n + 3) % 3 = 0
OBVIOUS

LEMMA DavWholeMore ==
  ASSUME NEW s \in Seq(W!Elements), DavWhole(s), NEW o \in Objects, NEW t,
         t = <<[part |-> "id", obj |-> o], [part |-> "size", obj |-> o],
               [part |-> "data", obj |-> o]>>
  PROVE  t \in Seq(W!Elements) /\ Len(t) = 3 /\ DavWhole(s \o t)
<1>1. PICK n \in Nat : n = Len(s) /\ n % 3 = 0
      BY LenProperties DEF DavWhole
<1>2. /\ t \in Seq(W!Elements) /\ Len(t) = 3 /\ t[1].part = "id" /\ t[2].part = "size"
      /\ t[3].part = "data" /\ t[1].obj = o /\ t[2].obj = o /\ t[3].obj = o
  <2>1. /\ [part |-> "id", obj |-> o] \in W!Elements /\ [part |-> "size", obj |-> o] \in W!Elements
        /\ [part |-> "data", obj |-> o] \in W!Elements
        BY DEF W!Elements, W!Reads
  <2> QED BY <2>1
<1>3. PICK u : u = s \o t
      OBVIOUS
<1>4. Len(u) = n + 3
      BY <1>1, <1>2, <1>3, ConcatProperties
<1>5. \A i \in 1 .. n + 3 : u[i] = IF i <= n THEN s[i] ELSE t[i - n]
  <2>1. \A i \in 1 .. Len(s) + Len(t) : u[i] = IF i <= Len(s) THEN s[i] ELSE t[i - Len(s)]
        BY <1>2, <1>3, ConcatProperties, Zenon
  <2> QED BY <1>1, <1>2, <2>1
<1>6. \A i \in 1 .. n : /\ s[i].part = DavPart((i - 1) % 3)
                        /\ s[i].obj = s[i - ((i - 1) % 3)].obj
      BY <1>1 DEF DavWhole
<1>7. ASSUME NEW i \in 1 .. n + 3
      PROVE  u[i].part = DavPart((i - 1) % 3) /\ u[i].obj = u[i - ((i - 1) % 3)].obj
  <2>1. CASE i <= n
    <3>1. PICK k \in 0 .. 2 : k = (i - 1) % 3
          OBVIOUS
    <3>2. k <= i - 1
          BY <3>1
    <3>3. i - k \in 1 .. n /\ i \in 1 .. n /\ i - k <= n
          BY <2>1, <3>2
    <3>4. u[i] = s[i] /\ u[i - k] = s[i - k]
          BY <1>5, <2>1, <3>3
    <3> QED BY <1>6, <3>1, <3>3, <3>4
  <2>2. CASE i = n + 1
    <3>1. (i - 1) % 3 = 0 /\ i - 0 = i /\ u[i] = t[1]
          BY <1>1, <1>5, <2>2
    <3> QED BY <1>2, <3>1 DEF DavPart
  <2>3. CASE i = n + 2
    <3>1. i - 1 = n + 1 /\ (n + 1) % 3 = 1
          BY <1>1, <2>3, DavThirds
    <3>2. u[i] = t[2] /\ u[i - 1] = t[1]
          BY <1>5, <2>3
    <3> QED BY <1>2, <3>1, <3>2 DEF DavPart
  <2>4. CASE i = n + 3
    <3>1. i - 1 = n + 2 /\ (n + 2) % 3 = 2
          BY <1>1, <2>4, DavThirds
    <3>2. u[i] = t[3] /\ u[i - 2] = t[1]
          BY <1>5, <2>4
    <3> QED BY <1>2, <3>1, <3>2 DEF DavPart
  <2> QED BY <2>1, <2>2, <2>3, <2>4
<1>8. Len(u) % 3 = 0
      BY <1>1, <1>4, DavThirds
<1> QED BY <1>2, <1>3, <1>4, <1>7, <1>8 DEF DavWhole

LEMMA DavRegroup ==
  ASSUME NEW m \in Seq(W!Elements), NEW q \in Seq(W!Elements), NEW t \in Seq(W!Elements)
  PROVE  m \o (q \o t) = (m \o q) \o t
BY ConcatAssociative

LEMMA DavLonger ==
  ASSUME NEW q \in Seq(W!Elements), NEW t \in Seq(W!Elements), NEW n \in Nat, n = Len(q),
         Len(t) = 3
  PROVE  /\ q \o t \in Seq(W!Elements) /\ Len(q \o t) = n + 3
         /\ \A i \in 1 .. n + 3 : (q \o t)[i] = IF i <= n THEN q[i] ELSE t[i - n]
<1>1. PICK u : u = q \o t
      OBVIOUS
<1>2. u \in Seq(W!Elements) /\ Len(u) = n + 3
  <2>1. u \in Seq(W!Elements) /\ Len(u) = Len(q) + Len(t)
        BY <1>1, ConcatProperties, Zenon
  <2> QED BY <2>1
<1>3. \A i \in 1 .. Len(q) + Len(t) : u[i] = IF i <= Len(q) THEN q[i] ELSE t[i - Len(q)]
      BY <1>1, ConcatProperties, Zenon
<1>4. \A i \in 1 .. n + 3 : u[i] = IF i <= n THEN q[i] ELSE t[i - n]
      BY <1>3
<1> QED BY <1>1, <1>2, <1>4

LEMMA DavQueuePut ==
  ASSUME DavQueueInv, DavClientsInv, NEW o \in Objects, W!ServerReplyCb(o), DavQueuedSame
  PROVE  DavQueueInv'
<1>1. muxed' = muxed
      BY DEF W!ServerReplyCb
<1>2. CASE queue' = queue
      BY <1>1, <1>2, DavQueueKept
<1>3. CASE queue' # queue
  <2>1. PICK t : t = <<[part |-> "id", obj |-> o], [part |-> "size", obj |-> o],
                       [part |-> "data", obj |-> o]>>
        OBVIOUS
  <2>2. /\ obj' = [obj EXCEPT ![o].read = "queued"]
        /\ queue' = [queue EXCEPT !.elems = @ \o t, !.idle = W!Starts(queue)]
        /\ obj[o].read # "queued"
        BY <1>3, <2>1 DEF W!ServerReplyCb, W!ReadReady
  <2>3. PICK q \in Seq(W!Elements) : q = queue.elems
        BY DEF DavQueueInv
  <2>4. PICK s \in Seq(W!Elements) : s = muxed \o q
        BY <2>3, ConcatProperties DEF DavQueueInv
  <2>5. t \in Seq(W!Elements) /\ Len(t) = 3 /\ DavWhole(s \o t)
    <3>1. DavWhole(s)
          BY <2>3, <2>4 DEF DavQueueInv
    <3> QED BY <2>1, <3>1, DavWholeMore
  <2>6. PICK u \in Seq(W!Elements) : u = q \o t
        BY <2>5, ConcatProperties, Zenon
  <2>7. queue \in [elems : Seq(W!Elements), flushing : BOOLEAN, idle : BOOLEAN]
        BY DEF DavQueueInv
  <2>8. /\ queue'.elems = u /\ queue'.flushing = queue.flushing
        /\ queue'.idle = TRUE \/ queue.flushing = TRUE
        /\ queue' \in [elems : Seq(W!Elements), flushing : BOOLEAN, idle : BOOLEAN]
    <3>1. PICK b \in BOOLEAN : b = W!Starts(queue)
          BY <2>7 DEF W!Starts
    <3>2. queue' = [queue EXCEPT !.elems = u, !.idle = b]
          BY <2>2, <2>3, <2>6, <2>7, <3>1
    <3>3. b = TRUE \/ queue.flushing = TRUE
          BY <2>7, <3>1 DEF W!Starts
    <3> QED BY <2>7, <3>2, <3>3
  <2>9. muxed \o u = s \o t
    <3>1. muxed \in Seq(W!Elements)
          BY DEF DavQueueInv
    <3>2. muxed \o (q \o t) = (muxed \o q) \o t
          BY <2>5, <3>1, DavRegroup
    <3> QED BY <2>4, <2>6, <3>2
  <2>10. PICK n \in Nat : n = Len(q)
        BY LenProperties
  <2>11. Len(u) = n + 3 /\ \A i \in 1 .. n + 3 : u[i] = IF i <= n THEN q[i] ELSE t[i - n]
        BY <2>5, <2>6, <2>10, DavLonger
  <2>12. \A i \in 1 .. n : q[i].obj \in Objects /\ obj[q[i].obj].read = "queued"
    <3>1. \A i \in 1 .. n : q[i] \in W!Elements
          BY <2>10, ElementOfSeq
    <3> QED BY <2>3, <2>10, <3>1 DEF DavQueueInv, W!Elements
  <2>13. /\ t[1].obj = o /\ t[2].obj = o /\ t[3].obj = o
         /\ t[1].part = "id" /\ t[2].part = "size" /\ t[3].part = "data"
        BY <2>1
  <2>14. ASSUME NEW i \in 1 .. n + 3, i > n
         PROVE  u[i].obj = o /\ (u[i].part = "data" => i = n + 3)
    <3>1. i - n \in {1, 2, 3} /\ u[i] = t[i - n]
          BY <2>11, <2>14
    <3> QED BY <2>13, <3>1
  <2>15. ASSUME NEW i \in 1 .. n + 3, i <= n
         PROVE  u[i] = q[i] /\ u[i].obj # o /\ u[i].obj \in Objects
    <3>1. i \in 1 .. n /\ u[i] = q[i]
          BY <2>11, <2>15
    <3> QED BY <2>2, <2>12, <3>1
  <2>16. obj' \in [Objects -> DavClients] /\ obj'[o].read = "queued"
    <3>1. PICK d \in DavClients : d = obj[o]
          BY DEF DavClientsInv
    <3>2. PICK r : r = [d EXCEPT !.read = "queued"]
          OBVIOUS
    <3>3. r \in DavClients /\ r.read = "queued"
          BY <3>2 DEF DavClients
    <3>4. obj' = [obj EXCEPT ![o] = r] /\ obj \in [Objects -> DavClients]
          BY <2>2, <3>1, <3>2 DEF DavClientsInv
    <3> QED BY <3>3, <3>4
  <2>17. ASSUME NEW i \in 1 .. n + 3 PROVE obj'[u[i].obj].read = "queued"
    <3>1. CASE i <= n
      <4>1. i \in 1 .. n
            BY <3>1
      <4> QED BY <2>12, <2>15, <3>1, <4>1 DEF DavQueuedSame
    <3>2. CASE i > n
          BY <2>14, <2>16, <3>2
    <3> QED BY <3>1, <3>2
  <2>18. ASSUME NEW i \in 1 .. n + 3, NEW j \in 1 .. n + 3, i < j, u[i].part = "data"
         PROVE  u[i].obj # u[j].obj
    <3>1. CASE j <= n
      <4>1. i \in 1 .. n /\ j \in 1 .. n /\ i <= n
            BY <2>18, <3>1
      <4>2. u[i] = q[i] /\ u[j] = q[j]
            BY <2>15, <3>1, <4>1
      <4> QED BY <2>3, <2>10, <2>18, <4>1, <4>2 DEF DavQueueInv
    <3>2. CASE j > n /\ i <= n
          BY <2>14, <2>15, <3>2
    <3>3. CASE j > n /\ i > n
          BY <2>14, <2>18, <3>3
    <3> QED BY <3>1, <3>2, <3>3
  <2>19. DavWhole(muxed' \o queue'.elems)
        BY <1>1, <2>5, <2>8, <2>9
  <2> QED BY <1>1, <2>8, <2>11, <2>17, <2>18, <2>19 DEF DavQueueInv
<1> QED BY <1>2, <1>3

LEMMA DavQueueTaken ==
  ASSUME DavQueueInv, DavClientsInv, W!OutputIdle
  PROVE  DavQueueInv' /\ DavClientsInv' /\ DavWriterSame
<1>1. queue \in [elems : Seq(W!Elements), flushing : BOOLEAN, idle : BOOLEAN]
      BY DEF DavQueueInv
<1>2. writing' = writing /\ W!Idle
      BY DEF W!OutputIdle
<1>3. CASE /\ queue.flushing \/ queue.elems = <<>>
           /\ queue' = [queue EXCEPT !.idle = FALSE] /\ UNCHANGED <<muxed, clients, obj>>
  <2>1. /\ queue'.elems = queue.elems /\ queue'.flushing = queue.flushing /\ muxed' = muxed
        /\ clients' = clients /\ obj' = obj
        /\ queue' \in [elems : Seq(W!Elements), flushing : BOOLEAN, idle : BOOLEAN]
        /\ queue.elems # <<>> => queue.flushing = TRUE
        BY <1>1, <1>3
  <2>2. DavQueueInv'
    <3>1. DavWhole(muxed' \o queue'.elems)
          BY <2>1 DEF DavQueueInv
    <3> QED BY <2>1, <3>1 DEF DavQueueInv
  <2>3. DavClientsInv' /\ DavWriterSame
        BY <1>2, <2>1 DEF DavClientsInv, DavClient, DavWriterSame
  <2> QED BY <2>2, <2>3
<1>4. CASE /\ ~queue.flushing /\ queue.elems # <<>>
           /\ queue' = [queue EXCEPT !.elems = Tail(@), !.flushing = TRUE]
           /\ muxed' = Append(muxed, Head(queue.elems))
           /\ IF Head(queue.elems).part = "data" THEN W!Pushed(Head(queue.elems).obj)
                                                 ELSE UNCHANGED <<clients, obj>>
  <2>1. PICK q \in Seq(W!Elements) : q = queue.elems /\ q # <<>>
        BY <1>1, <1>4
  <2>2. PICK e : e = Head(q)
        OBVIOUS
  <2>3. PICK u \in Seq(W!Elements) : u = Tail(q)
        BY <2>1, HeadTailProperties
  <2>4. PICK n \in Nat : n = Len(u)
        BY LenProperties
  <2>5. /\ Len(q) = n + 1 /\ e = q[1] /\ e \in W!Elements /\ \A i \in 1 .. n : u[i] = q[i + 1]
    <3>1. Len(q) \in Nat /\ Len(q) # 0 /\ Len(u) = Len(q) - 1 /\ e \in W!Elements
          BY <2>1, <2>2, <2>3, HeadTailProperties, EmptySeq, LenProperties
    <3>2. \A i \in 1 .. Len(u) : u[i] = q[i + 1]
          BY <2>1, <2>3, HeadTailProperties
    <3>3. e = q[1]
          BY <2>1, <2>2
    <3> QED BY <2>4, <3>1, <3>2, <3>3
  <2>6. e.obj \in Objects /\ obj[e.obj].read = "queued"
    <3>1. 1 \in 1 .. Len(q)
          BY <2>5
    <3> QED BY <2>1, <2>5, <3>1 DEF DavQueueInv, W!Elements
  <2>7. /\ queue'.elems = u /\ queue'.flushing = TRUE /\ muxed' = Append(muxed, e)
        /\ queue' \in [elems : Seq(W!Elements), flushing : BOOLEAN, idle : BOOLEAN]
    <3>1. queue' = [queue EXCEPT !.elems = u, !.flushing = TRUE]
          BY <1>1, <1>4, <2>1, <2>3
    <3> QED BY <1>1, <1>4, <2>1, <2>2, <3>1
  <2>8. muxed' \o u = muxed \o q /\ muxed' \in Seq(W!Elements)
    <3>1. muxed \in Seq(W!Elements)
          BY DEF DavQueueInv
    <3>2. q = <<e>> \o u
          BY <2>1, <2>2, <2>3, HeadTailProperties
    <3>3. Append(muxed, e) = muxed \o <<e>> /\ Append(muxed, e) \in Seq(W!Elements)
          BY <2>5, <3>1, AppendIsConcat, AppendProperties
    <3>4. (muxed \o <<e>>) \o u = muxed \o (<<e>> \o u)
      <4>1. <<e>> \in Seq(W!Elements)
            BY <2>5
      <4> QED BY <3>1, <4>1, ConcatAssociative
    <3> QED BY <2>7, <3>2, <3>3, <3>4
  <2>9. DavWhole(muxed' \o queue'.elems)
        BY <2>1, <2>7, <2>8 DEF DavQueueInv
  <2>10. \A i \in 1 .. n : u[i].obj \in Objects /\ obj[u[i].obj].read = "queued"
    <3>1. \A i \in 1 .. n : u[i] \in W!Elements
          BY <2>4, ElementOfSeq
    <3>2. \A i \in 1 .. n : i + 1 \in 1 .. Len(q)
          BY <2>5
    <3> QED BY <2>1, <2>5, <3>1, <3>2 DEF DavQueueInv, W!Elements
  <2>11. ASSUME NEW i \in 1 .. n, NEW j \in 1 .. n, i < j, u[i].part = "data"
         PROVE  u[i].obj # u[j].obj
    <3>1. i + 1 \in 1 .. Len(q) /\ j + 1 \in 1 .. Len(q) /\ i + 1 < j + 1
          BY <2>5, <2>11
    <3>2. u[i] = q[i + 1] /\ u[j] = q[j + 1]
          BY <2>5
    <3> QED BY <2>1, <2>11, <3>1, <3>2 DEF DavQueueInv
  <2>12. CASE e.part = "data"
    <3>1. DavClientsInv' /\ DavOthersSame(e.obj) /\ DavWriterSame
      <4>1. W!Pushed(e.obj)
            BY <1>4, <2>1, <2>2, <2>12
      <4> QED BY <1>2, <2>6, <4>1, DavPushed
    <3>2. ASSUME NEW i \in 1 .. n PROVE u[i].obj # e.obj
      <4>1. 1 \in 1 .. Len(q) /\ i + 1 \in 1 .. Len(q) /\ 1 < i + 1
            BY <2>5
      <4>2. u[i] = q[i + 1]
            BY <2>5
      <4> QED BY <2>1, <2>5, <2>12, <4>1, <4>2 DEF DavQueueInv
    <3>3. \A i \in 1 .. n : obj'[u[i].obj].read = "queued"
          BY <2>10, <3>1, <3>2 DEF DavOthersSame
    <3>4. DavQueueInv'
          BY <2>4, <2>7, <2>8, <2>9, <2>11, <3>3 DEF DavQueueInv
    <3> QED BY <3>1, <3>4
  <2>13. CASE e.part # "data"
    <3>1. clients' = clients /\ obj' = obj
          BY <1>4, <2>1, <2>2, <2>13
    <3>2. DavQueueInv'
          BY <2>4, <2>7, <2>8, <2>9, <2>10, <2>11, <3>1 DEF DavQueueInv
    <3>3. DavClientsInv' /\ DavWriterSame
          BY <1>2, <3>1 DEF DavClientsInv, DavClient, DavWriterSame
    <3> QED BY <3>2, <3>3
  <2> QED BY <2>12, <2>13
<1> QED BY <1>3, <1>4 DEF W!OutputIdle

-----------------------------------------------------------------------------
(* Folder sharing: the stream *)

DavVals == Ids \cup Nat
DavItems == [read : W!Reads, val : DavVals]
DavReads == [read : W!Reads, val : DavVals, cancelled : BOOLEAN]

\* Frame n of those the guest wrote (f) is for client c.
DavNamed(f, n, c) == n \in 1 .. Len(f) /\ f[n] = c

\* A stream s is made of whole frames, but for the first of them; their numbers grow.
DavFits(f, a) == IF a.read = "id" THEN a.val \in Ids ELSE a.val \in 0 .. Len(f)
DavFollows(f, a, b) ==
  \/ a.read = "id" /\ b.read = "size" /\ (b.val # 0 => DavNamed(f, b.val, a.val))
  \/ a.read = "size" /\ a.val = 0 /\ b.read = "id"
  \/ a.read = "size" /\ a.val # 0 /\ b.read = "data" /\ b.val = a.val
  \/ a.read = "data" /\ b.read = "id"
DavEnds(a) == a.read = "data" \/ (a.read = "size" /\ a.val = 0)
DavNumber(a) == a.read = "size" /\ a.val # 0
DavStream(f, s) ==
  /\ \A i \in 1 .. Len(s) : DavFits(f, s[i])
  /\ \A i \in 1 .. Len(s) : i # Len(s) => DavFollows(f, s[i], s[i + 1])
  /\ s # <<>> => DavEnds(s[Len(s)])
  /\ \A i, j \in 1 .. Len(s) :
       i < j /\ s[i].read # "id" /\ DavNumber(s[j]) => s[i].val < s[j].val
DavLater(s, n) == \A j \in 1 .. Len(s) : DavNumber(s[j]) => n < s[j].val

LEMMA DavTailStream ==
  ASSUME NEW f, NEW s \in Seq(DavItems), s # <<>>, DavStream(f, s), NEW t, t = Tail(s)
  PROVE  /\ t \in Seq(DavItems) /\ DavStream(f, t) /\ s[1] \in DavItems /\ DavFits(f, s[1])
         /\ t # <<>> => DavFollows(f, s[1], t[1])
         /\ t = <<>> => DavEnds(s[1])
         /\ s[1].read # "id" => DavLater(t, s[1].val)
         /\ \A n : DavLater(s, n) => DavLater(t, n)
<1>1. Len(s) \in Nat /\ Len(s) # 0 /\ t \in Seq(DavItems) /\ Len(t) = Len(s) - 1
      BY HeadTailProperties, EmptySeq, LenProperties
<1>2. \A i \in 1 .. Len(t) : t[i] = s[i + 1]
      BY HeadTailProperties
<1>3. PICK n \in Nat : n = Len(t) /\ Len(s) = n + 1
  <2>1. PICK k \in Nat : k = Len(s) /\ k # 0 /\ Len(t) = k - 1
        BY <1>1
  <2>2. k - 1 \in Nat /\ (k - 1) + 1 = k
        BY <2>1
  <2> QED BY <2>1, <2>2
<1>4. \A i \in 1 .. n : t[i] = s[i + 1] /\ i + 1 \in 1 .. n + 1
      BY <1>2, <1>3
<1>5. /\ \A i \in 1 .. n + 1 : DavFits(f, s[i])
      /\ \A i \in 1 .. n + 1 : i # n + 1 => DavFollows(f, s[i], s[i + 1])
      /\ DavEnds(s[n + 1])
      /\ \A i, j \in 1 .. n + 1 :
           i < j /\ s[i].read # "id" /\ DavNumber(s[j]) => s[i].val < s[j].val
      BY <1>3 DEF DavStream
<1>6. t = <<>> <=> n = 0
      BY <1>1, <1>3, EmptySeq
<1>7. DavStream(f, t)
  <2>1. \A i \in 1 .. n : DavFits(f, t[i])
        BY <1>4, <1>5
  <2>2. ASSUME NEW i \in 1 .. n, i # n PROVE DavFollows(f, t[i], t[i + 1])
    <3>1. i + 1 \in 1 .. n /\ i + 1 # n + 1
          BY <2>2
    <3>2. t[i] = s[i + 1] /\ t[i + 1] = s[(i + 1) + 1]
          BY <1>4, <3>1
    <3>3. i + 1 \in 1 .. n + 1
          BY <3>1
    <3> QED BY <1>5, <3>1, <3>2, <3>3
  <2>3. t # <<>> => DavEnds(t[n])
    <3>1. n # 0 => n \in 1 .. n
          OBVIOUS
    <3> QED BY <1>4, <1>5, <1>6, <3>1
  <2>4. ASSUME NEW i \in 1 .. n, NEW j \in 1 .. n, i < j, t[i].read # "id", DavNumber(t[j])
        PROVE  t[i].val < t[j].val
    <3>1. i + 1 \in 1 .. n + 1 /\ j + 1 \in 1 .. n + 1 /\ i + 1 < j + 1
          BY <2>4
    <3>2. t[i] = s[i + 1] /\ t[j] = s[j + 1]
          BY <1>4
    <3> QED BY <1>5, <2>4, <3>1, <3>2
  <2> QED BY <1>3, <2>1, <2>2, <2>3, <2>4 DEF DavStream
<1>8. 1 \in 1 .. n + 1 /\ s[1] \in DavItems /\ DavFits(f, s[1])
  <2>1. 1 \in 1 .. n + 1
        OBVIOUS
  <2>2. s[1] \in DavItems
        BY <1>3, <2>1, ElementOfSeq
  <2> QED BY <1>5, <2>1, <2>2
<1>9. t # <<>> => DavFollows(f, s[1], t[1])
  <2> SUFFICES ASSUME t # <<>> PROVE DavFollows(f, s[1], t[1])
      OBVIOUS
  <2>1. 1 \in 1 .. n /\ 1 # n + 1 /\ 1 + 1 = 2
        BY <1>6
  <2>2. t[1] = s[1 + 1]
        BY <1>4, <2>1
  <2> QED BY <1>5, <1>8, <2>1, <2>2
<1>10. t = <<>> => DavEnds(s[1])
  <2>1. n = 0 => n + 1 = 1
        OBVIOUS
  <2> QED BY <1>5, <1>6, <2>1
<1>11. s[1].read # "id" => DavLater(t, s[1].val)
  <2> SUFFICES ASSUME s[1].read # "id", NEW j \in 1 .. n, DavNumber(t[j])
               PROVE  s[1].val < t[j].val
      BY <1>3 DEF DavLater
  <2>1. t[j] = s[j + 1] /\ j + 1 \in 1 .. n + 1
        BY <1>4
  <2>2. 1 < j + 1
        OBVIOUS
  <2> QED BY <1>5, <1>8, <2>1, <2>2
<1>12. ASSUME NEW k, DavLater(s, k) PROVE DavLater(t, k)
      BY <1>3, <1>4, <1>12 DEF DavLater
<1> QED BY <1>1, <1>7, <1>8, <1>9, <1>10, <1>11, <1>12

\* One more frame, g[m], after the others
DavFrame(t, c, m) ==
  /\ t \in Seq(DavItems) /\ Len(t) \in {2, 3}
  /\ t[1].read = "id" /\ t[1].val = c /\ t[2].read = "size"
  /\ Len(t) = 2 => t[2].val = 0
  /\ Len(t) = 3 => t[2].val = m /\ t[3].read = "data" /\ t[3].val = m

LEMMA DavMoreFrames ==
  ASSUME NEW f \in Seq(Ids), NEW c \in Ids, NEW g, g = Append(f, c), NEW m, m = Len(f)
  PROVE  /\ g \in Seq(Ids) /\ m \in Nat /\ Len(g) = m + 1 /\ g[m + 1] = c
         /\ DavNamed(g, m + 1, c)
         /\ \A n, d : DavNamed(f, n, d) => DavNamed(g, n, d) /\ n \in 1 .. m
         /\ \A a : DavFits(f, a) => DavFits(g, a)
         /\ \A a, b : DavFollows(f, a, b) => DavFollows(g, a, b)
<1>1. /\ g \in Seq(Ids) /\ m \in Nat /\ Len(g) = m + 1 /\ g[m + 1] = c
      /\ \A i \in 1 .. m : g[i] = f[i]
      BY AppendProperties, LenProperties
<1>2. DavNamed(g, m + 1, c)
      BY <1>1 DEF DavNamed
<1>3. \A n, d : DavNamed(f, n, d) => DavNamed(g, n, d) /\ n \in 1 .. m
      BY <1>1 DEF DavNamed
<1>4. \A a : DavFits(f, a) => DavFits(g, a)
      BY <1>1 DEF DavFits
<1>5. \A a, b : DavFollows(f, a, b) => DavFollows(g, a, b)
      BY <1>3 DEF DavFollows
<1> QED BY <1>1, <1>2, <1>3, <1>4, <1>5

LEMMA DavFrameStream ==
  ASSUME NEW g, NEW c \in Ids, NEW m \in Nat, Len(g) = m + 1, DavNamed(g, m + 1, c),
         NEW t, DavFrame(t, c, m + 1)
  PROVE  DavStream(g, t)
<1>1. /\ t \in Seq(DavItems) /\ t # <<>> /\ Len(t) \in {2, 3}
      /\ t[1].read = "id" /\ t[1].val = c /\ t[2].read = "size"
      /\ Len(t) = 2 => t[2].val = 0
      /\ Len(t) = 3 => t[2].val = m + 1 /\ t[3].read = "data" /\ t[3].val = m + 1
      BY EmptySeq DEF DavFrame
<1>2. CASE Len(t) = 2
  <2>1. \A i \in 1 .. 2 : i = 1 \/ i = 2
        OBVIOUS
  <2>2. DavFits(g, t[1]) /\ DavFits(g, t[2])
        BY <1>1, <1>2 DEF DavFits
  <2>3. DavFollows(g, t[1], t[2])
        BY <1>1, <1>2 DEF DavFollows
  <2>4. DavEnds(t[2])
        BY <1>1, <1>2 DEF DavEnds
  <2>5. ~DavNumber(t[1]) /\ ~DavNumber(t[2])
        BY <1>1, <1>2 DEF DavNumber
  <2>6. \A i \in 1 .. 2 : i # 2 => i = 1 /\ i + 1 = 2
        OBVIOUS
  <2>7. \A i \in 1 .. 2 : i # 2 => DavFollows(g, t[i], t[i + 1])
        BY <2>3, <2>6
  <2> QED BY <1>2, <2>1, <2>2, <2>4, <2>5, <2>7 DEF DavStream
<1>3. CASE Len(t) = 3
  <2>1. \A i \in 1 .. 3 : i = 1 \/ i = 2 \/ i = 3
        OBVIOUS
  <2>2. DavFits(g, t[1]) /\ DavFits(g, t[2]) /\ DavFits(g, t[3])
        BY <1>1, <1>3 DEF DavFits
  <2>3. DavFollows(g, t[1], t[2])
        BY <1>1, <1>3 DEF DavFollows
  <2>4. DavFollows(g, t[2], t[3])
        BY <1>1, <1>3 DEF DavFollows
  <2>5. DavEnds(t[3])
        BY <1>1, <1>3 DEF DavEnds
  <2>6. ~DavNumber(t[1]) /\ ~DavNumber(t[3])
        BY <1>1, <1>3 DEF DavNumber
  <2>7. \A i \in 1 .. 3 : i # 3 => DavFollows(g, t[i], t[i + 1])
    <3>1. \A i \in 1 .. 3 : i # 3 => (i = 1 /\ i + 1 = 2) \/ (i = 2 /\ i + 1 = 3)
          OBVIOUS
    <3> QED BY <2>3, <2>4, <3>1
  <2>8. ASSUME NEW i \in 1 .. 3, NEW j \in 1 .. 3, i < j, t[i].read # "id", DavNumber(t[j])
        PROVE  t[i].val < t[j].val
    <3>1. j = 2
          BY <2>1, <2>6, <2>8
    <3>2. i = 1
          BY <2>1, <2>8, <3>1
    <3> QED BY <1>1, <2>8, <3>2
  <2>9. \A i \in 1 .. 3 : DavFits(g, t[i])
        BY <2>1, <2>2
  <2> QED BY <1>3, <2>5, <2>7, <2>8, <2>9 DEF DavStream
<1> QED BY <1>1, <1>2, <1>3

LEMMA DavJoined ==
  ASSUME NEW s \in Seq(DavItems), NEW t \in Seq(DavItems), NEW p \in Nat, p = Len(s),
         NEW q \in Nat, q = Len(t), NEW u, u = s \o t
  PROVE  /\ u \in Seq(DavItems) /\ Len(u) = p + q
         /\ \A i \in 1 .. p : u[i] = s[i]
         /\ \A i \in 1 .. q : u[p + i] = t[i]
<1>1. u \in Seq(DavItems) /\ Len(u) = p + q
  <2>1. u \in Seq(DavItems) /\ Len(u) = Len(s) + Len(t)
        BY ConcatProperties, Zenon
  <2> QED BY <2>1
<1>2. \A i \in 1 .. Len(s) + Len(t) : u[i] = IF i <= Len(s) THEN s[i] ELSE t[i - Len(s)]
      BY ConcatProperties, Zenon
<1>3. \A i \in 1 .. p + q : u[i] = IF i <= p THEN s[i] ELSE t[i - p]
      BY <1>2
<1>4. \A i \in 1 .. p : u[i] = s[i]
  <2>1. \A i \in 1 .. p : i \in 1 .. p + q /\ i <= p
        OBVIOUS
  <2> QED BY <1>3, <2>1
<1>5. \A i \in 1 .. q : u[p + i] = t[i]
  <2>1. \A i \in 1 .. q : p + i \in 1 .. p + q /\ ~(p + i <= p) /\ (p + i) - p = i
        OBVIOUS
  <2> QED BY <1>3, <2>1
<1> QED BY <1>1, <1>4, <1>5

\* One more frame, number m + 1, was added to stream s, which is u now.
DavGrown(m, s, u) ==
  /\ u # <<>>
  /\ s # <<>> => u[1] = s[1]
  /\ s = <<>> => u[1].read = "id"
  /\ \A k \in 0 .. m : DavLater(s, k) => DavLater(u, k)
  /\ \A j \in 1 .. Len(u) : DavNumber(u[j]) =>
       u[j].val = m + 1 \/ \E i \in 1 .. Len(s) : u[j] = s[i]

LEMMA DavMoreStream ==
  ASSUME NEW f \in Seq(Ids), NEW c \in Ids, NEW g, g = Append(f, c), NEW m, m = Len(f),
         NEW s \in Seq(DavItems), DavStream(f, s), NEW t, DavFrame(t, c, m + 1),
         NEW u, u = s \o t
  PROVE  u \in Seq(DavItems) /\ DavStream(g, u) /\ DavGrown(m, s, u)
<1>1. /\ g \in Seq(Ids) /\ m \in Nat /\ Len(g) = m + 1 /\ DavNamed(g, m + 1, c)
      /\ \A a : DavFits(f, a) => DavFits(g, a)
      /\ \A a, b : DavFollows(f, a, b) => DavFollows(g, a, b)
      BY DavMoreFrames
<1>2. DavStream(g, t)
      BY <1>1, DavFrameStream
<1>3. t \in Seq(DavItems) /\ t[1].read = "id"
      BY DEF DavFrame
<1>4. PICK q \in Nat : q = Len(t) /\ q \in {2, 3}
      BY DEF DavFrame
<1>5. PICK p \in Nat : p = Len(s)
      BY LenProperties
<1>6. /\ u \in Seq(DavItems) /\ Len(u) = p + q
      /\ \A i \in 1 .. p : u[i] = s[i]
      /\ \A i \in 1 .. q : u[p + i] = t[i]
      BY <1>3, <1>4, <1>5, DavJoined
<1>7. s = <<>> <=> p = 0
      BY <1>5, EmptySeq
<1>8. \A i \in 1 .. q : DavNumber(t[i]) => t[i].val = m + 1
  <2>1. ASSUME NEW i \in 1 .. q PROVE i = 1 \/ i = 2 \/ (i = 3 /\ q = 3)
    <3>1. CASE q = 2
          BY <3>1
    <3>2. CASE q = 3
          BY <3>2
    <3> QED BY <1>4, <3>1, <3>2
  <2>2. /\ ~DavNumber(t[1])
        /\ DavNumber(t[2]) => t[2].val = m + 1
        /\ Len(t) = 3 => ~DavNumber(t[3])
        BY <1>4 DEF DavFrame, DavNumber
  <2> QED BY <1>4, <2>1, <2>2
<1>9. /\ \A i \in 1 .. p : DavFits(f, s[i])
      /\ \A i \in 1 .. p : i # p => DavFollows(f, s[i], s[i + 1])
      /\ p # 0 => DavEnds(s[p])
      /\ \A i, j \in 1 .. p :
           i < j /\ s[i].read # "id" /\ DavNumber(s[j]) => s[i].val < s[j].val
      BY <1>5, <1>7 DEF DavStream
<1>10. /\ \A i \in 1 .. q : DavFits(g, t[i])
       /\ \A i \in 1 .. q : i # q => DavFollows(g, t[i], t[i + 1])
       /\ DavEnds(t[q])
       /\ \A i, j \in 1 .. q :
            i < j /\ t[i].read # "id" /\ DavNumber(t[j]) => t[i].val < t[j].val
  <2>1. t # <<>>
        BY <1>4, EmptySeq
  <2> QED BY <1>2, <1>4, <2>1 DEF DavStream
<1>11. \A i \in 1 .. p + q : i \in 1 .. p \/ \E k \in 1 .. q : i = p + k
  <2>1. \A i \in 1 .. p + q : i > p => i - p \in 1 .. q /\ i = p + (i - p)
        OBVIOUS
  <2> QED BY <2>1
<1>12. \A i \in 1 .. p + q : DavFits(g, u[i])
  <2> SUFFICES ASSUME NEW i \in 1 .. p + q PROVE DavFits(g, u[i])
      OBVIOUS
  <2>1. CASE i \in 1 .. p
        BY <1>1, <1>6, <1>9, <2>1
  <2>2. ASSUME NEW k \in 1 .. q, i = p + k PROVE DavFits(g, u[i])
        BY <1>6, <1>10, <2>2
  <2> QED BY <1>11, <2>1, <2>2
<1>13. ASSUME NEW i \in 1 .. p + q, i # p + q PROVE DavFollows(g, u[i], u[i + 1])
  <2>1. CASE i \in 1 .. p /\ i # p
    <3>1. i + 1 \in 1 .. p
          BY <2>1
    <3> QED BY <1>1, <1>6, <1>9, <2>1, <3>1
  <2>2. CASE i \in 1 .. p /\ i = p
    <3>1. 1 \in 1 .. q /\ p # 0
          BY <1>4, <2>2
    <3>2. u[i] = s[p] /\ u[i + 1] = t[1]
          BY <1>6, <2>2, <3>1
    <3>3. DavFollows(g, s[p], t[1])
          BY <1>3, <1>9, <3>1 DEF DavEnds, DavFollows
    <3> QED BY <3>2, <3>3
  <2>3. ASSUME NEW k \in 1 .. q, i = p + k PROVE DavFollows(g, u[i], u[i + 1])
    <3>1. k + 1 \in 1 .. q /\ k # q /\ i + 1 = p + (k + 1)
          BY <1>13, <2>3
    <3>2. u[i] = t[k] /\ u[i + 1] = t[k + 1]
          BY <1>6, <2>3, <3>1
    <3> QED BY <1>10, <3>1, <3>2
  <2> QED BY <1>11, <2>1, <2>2, <2>3
<1>14. DavEnds(u[p + q])
  <2>1. q \in 1 .. q
        BY <1>4
  <2> QED BY <1>6, <1>10, <2>1
<1>15. ASSUME NEW i \in 1 .. p + q, NEW j \in 1 .. p + q, i < j, u[i].read # "id",
              DavNumber(u[j])
       PROVE  u[i].val < u[j].val
  <2>1. CASE j \in 1 .. p
    <3>1. i \in 1 .. p
          BY <1>15, <2>1
    <3> QED BY <1>6, <1>9, <1>15, <2>1, <3>1
  <2>2. ASSUME NEW k \in 1 .. q, j = p + k PROVE u[i].val < u[j].val
    <3>1. u[j] = t[k] /\ t[k].val = m + 1
          BY <1>6, <1>8, <1>15, <2>2
    <3>2. CASE i \in 1 .. p
      <4>1. u[i] = s[i] /\ DavFits(f, s[i])
            BY <1>6, <1>9, <3>2
      <4>2. s[i].val \in 0 .. m
            BY <1>15, <4>1 DEF DavFits
      <4> QED BY <1>1, <3>1, <4>1, <4>2
    <3>3. ASSUME NEW h \in 1 .. q, i = p + h PROVE u[i].val < u[j].val
      <4>1. u[i] = t[h]
            BY <1>6, <3>3
      <4>2. h < k
            BY <1>15, <2>2, <3>3
      <4> QED BY <1>10, <1>15, <3>1, <4>1, <4>2
    <3> QED BY <1>11, <3>2, <3>3
  <2> QED BY <1>11, <2>1, <2>2
<1>16. DavStream(g, u)
      BY <1>6, <1>12, <1>13, <1>14, <1>15 DEF DavStream
<1>17. u # <<>> /\ (s # <<>> => u[1] = s[1]) /\ (s = <<>> => u[1].read = "id")
  <2>1. u # <<>>
        BY <1>4, <1>6, EmptySeq
  <2>2. p # 0 => 1 \in 1 .. p
        OBVIOUS
  <2>3. p = 0 => u[1] = t[1]
    <3>1. 1 \in 1 .. q /\ (p = 0 => p + 1 = 1)
          BY <1>4
    <3> QED BY <1>6, <3>1
  <2> QED BY <1>3, <1>6, <1>7, <2>1, <2>2, <2>3
<1>18. ASSUME NEW j \in 1 .. p + q, DavNumber(u[j])
       PROVE  (u[j].val = m + 1) \/ \E i \in 1 .. p : u[j] = s[i]
  <2>1. CASE j \in 1 .. p
        BY <1>6, <2>1
  <2>2. ASSUME NEW k \in 1 .. q, j = p + k PROVE u[j].val = m + 1
        BY <1>6, <1>8, <1>18, <2>2
  <2> QED BY <1>11, <2>1, <2>2
<1>19. ASSUME NEW k \in 0 .. m, DavLater(s, k) PROVE DavLater(u, k)
  <2>1. \A i \in 1 .. p : DavNumber(s[i]) => k < s[i].val
        BY <1>5, <1>19 DEF DavLater
  <2>2. ASSUME NEW j \in 1 .. p + q, DavNumber(u[j]) PROVE k < u[j].val
    <3>1. CASE u[j].val = m + 1
          BY <1>1, <3>1
    <3>2. ASSUME NEW i \in 1 .. p, u[j] = s[i] PROVE k < u[j].val
          BY <2>1, <2>2, <3>2
    <3> QED BY <1>18, <2>2, <3>1, <3>2
  <2> QED BY <1>6, <2>2 DEF DavLater
<1>20. \A j \in 1 .. Len(u) : DavNumber(u[j]) =>
         u[j].val = m + 1 \/ \E i \in 1 .. Len(s) : u[j] = s[i]
      BY <1>5, <1>6, <1>18
<1>21. DavGrown(m, s, u)
      BY <1>17, <1>19, <1>20 DEF DavGrown
<1> QED BY <1>6, <1>16, <1>21

\* What was delivered is named right and in order, and before what the stream still holds.
DavPast(dl, n) == \A i \in 1 .. Len(dl) : dl[i][2] < n
DavDelivered(f, dl, s) ==
  /\ \A i \in 1 .. Len(dl) : DavNamed(f, dl[i][2], dl[i][1])
  /\ \A i, j \in 1 .. Len(dl) : i < j => dl[i][2] < dl[j][2]
  /\ \A j \in 1 .. Len(s) : DavNumber(s[j]) => DavPast(dl, s[j].val)

\* What the stream holds before each read and, at "write", once a frame was read
DavInHand(dl, s, n) == (n # 0 => DavPast(dl, n)) /\ DavLater(s, n)
DavBegins(s) == s # <<>> => s[1].read = "id"
DavAwaits(f, dl, s, step, c, n) ==
  \/ step = "id" /\ DavBegins(s)
  \/ /\ step = "size" /\ c \in Ids /\ s # <<>> /\ s[1].read = "size"
     /\ s[1].val # 0 => DavNamed(f, s[1].val, c)
  \/ /\ step = "data" /\ c \in Ids /\ n \in Nat /\ DavInHand(dl, s, n)
     /\ n = 0 => DavBegins(s)
     /\ n # 0 => DavNamed(f, n, c) /\ s # <<>> /\ s[1].read = "data" /\ s[1].val = n
  \/ /\ step = "write" /\ c \in Ids /\ n \in Nat /\ DavInHand(dl, s, n) /\ DavBegins(s)
     /\ n # 0 => DavNamed(f, n, c)
DavNext(step) == IF step = "id" THEN "size" ELSE IF step = "size" THEN "data" ELSE "write"

LEMMA DavAwaitsMore ==
  ASSUME NEW f \in Seq(Ids), NEW c \in Ids, NEW g, g = Append(f, c), NEW m, m = Len(f),
         NEW s \in Seq(DavItems), DavStream(f, s), NEW t, DavFrame(t, c, m + 1),
         NEW u, u = s \o t, NEW dl, DavDelivered(f, dl, s)
  PROVE  /\ DavDelivered(g, dl, u)
         /\ \A step, k, n : DavAwaits(f, dl, s, step, k, n) => DavAwaits(g, dl, u, step, k, n)
<1>1. /\ m \in Nat /\ \A n, d : DavNamed(f, n, d) => DavNamed(g, n, d) /\ n \in 1 .. m
      BY DavMoreFrames
<1>2. /\ u # <<>> /\ (s # <<>> => u[1] = s[1]) /\ (s = <<>> => u[1].read = "id")
      /\ \A k \in 0 .. m : DavLater(s, k) => DavLater(u, k)
      /\ \A j \in 1 .. Len(u) : DavNumber(u[j]) =>
           u[j].val = m + 1 \/ \E i \in 1 .. Len(s) : u[j] = s[i]
  <2>1. DavGrown(m, s, u)
        BY DavMoreStream
  <2> QED BY <2>1 DEF DavGrown
<1>3. DavDelivered(g, dl, u)
  <2>1. DavPast(dl, m + 1)
    <3>1. \A i \in 1 .. Len(dl) : dl[i][2] \in 1 .. m
          BY <1>1 DEF DavDelivered
    <3> QED BY <1>1, <3>1 DEF DavPast
  <2>2. \A j \in 1 .. Len(u) : DavNumber(u[j]) => DavPast(dl, u[j].val)
    <3>1. \A i \in 1 .. Len(s) : DavNumber(s[i]) => DavPast(dl, s[i].val)
          BY DEF DavDelivered
    <3> QED BY <1>2, <2>1, <3>1
  <2>3. \A i \in 1 .. Len(dl) : DavNamed(g, dl[i][2], dl[i][1])
        BY <1>1 DEF DavDelivered
  <2>4. \A i, j \in 1 .. Len(dl) : i < j => dl[i][2] < dl[j][2]
        BY DEF DavDelivered
  <2> QED BY <2>2, <2>3, <2>4 DEF DavDelivered
<1>4. ASSUME NEW step, NEW k, NEW n, DavAwaits(f, dl, s, step, k, n)
      PROVE  DavAwaits(g, dl, u, step, k, n)
  <2>1. DavBegins(s) => DavBegins(u)
        BY <1>2 DEF DavBegins
  <2>2. n \in Nat /\ DavInHand(dl, s, n) /\ (n # 0 => DavNamed(f, n, k)) => DavInHand(dl, u, n)
    <3> SUFFICES ASSUME n \in Nat, DavInHand(dl, s, n), n # 0 => DavNamed(f, n, k)
                 PROVE  DavInHand(dl, u, n)
        OBVIOUS
    <3>1. n \in 0 .. m
      <4>1. n # 0 => n \in 1 .. m
            BY <1>1
      <4> QED BY <1>1, <4>1
    <3> QED BY <1>2, <3>1 DEF DavInHand
  <2>3. \A v : DavNamed(f, v, k) => DavNamed(g, v, k)
        BY <1>1
  <2>4. CASE step = "id"
        BY <1>4, <2>1, <2>4 DEF DavAwaits
  <2>5. CASE step = "size"
        BY <1>2, <1>4, <2>3, <2>5 DEF DavAwaits
  <2>6. CASE step = "data"
        BY <1>2, <1>4, <2>1, <2>2, <2>3, <2>6 DEF DavAwaits
  <2>7. CASE step = "write"
        BY <1>4, <2>1, <2>2, <2>3, <2>7 DEF DavAwaits
  <2> QED BY <1>4, <2>4, <2>5, <2>6, <2>7 DEF DavAwaits
<1> QED BY <1>3, <1>4

\* What the stream holds once the read of step has its value v
DavStepped(f, dl, t, step, k, n, v) ==
  /\ v \in DavVals /\ DavDelivered(f, dl, t)
  /\ step = "id" => DavAwaits(f, dl, t, "size", v, n)
  /\ step = "size" => DavAwaits(f, dl, t, "data", k, v)
  /\ step = "data" => DavAwaits(f, dl, t, "write", k, n)
DavGets(f, dl, s, step, k, n) ==
  /\ s # <<>> /\ DavStream(f, s) /\ DavDelivered(f, dl, s) /\ step \in W!Reads
  /\ DavAwaits(f, dl, s, step, k, n) /\ (step = "data" => n # 0)

LEMMA DavAwaitsNext ==
  ASSUME NEW s \in Seq(DavItems), NEW f, NEW dl, NEW step, NEW k, NEW n,
         DavGets(f, dl, s, step, k, n)
  PROVE  DavStepped(f, dl, Tail(s), step, k, n, s[1].val)
<1>a. PICK t : t = Tail(s)
      OBVIOUS
<1>b. PICK v : v = s[1].val
      OBVIOUS
<1>c. /\ s # <<>> /\ DavStream(f, s) /\ DavDelivered(f, dl, s) /\ step \in W!Reads
      /\ DavAwaits(f, dl, s, step, k, n) /\ (step = "data" => n # 0)
      BY DEF DavGets
<1>1. /\ s[1] \in DavItems /\ DavFits(f, s[1])
      /\ t # <<>> => DavFollows(f, s[1], t[1])
      /\ t = <<>> => DavEnds(s[1])
      /\ s[1].read # "id" => DavLater(t, s[1].val)
      /\ \A x : DavLater(s, x) => DavLater(t, x)
      BY <1>a, <1>c, DavTailStream
<1>2. v \in DavVals
      BY <1>1, <1>b DEF DavItems
<1>3. DavDelivered(f, dl, t) /\ (DavNumber(s[1]) => DavPast(dl, v))
  <2>1. Len(s) \in Nat /\ Len(s) # 0 /\ Len(t) = Len(s) - 1 /\ \A i \in 1 .. Len(t) : t[i] = s[i + 1]
    <3>1. Len(s) \in Nat /\ Len(s) # 0 /\ Len(t) = Len(s) - 1
          BY <1>a, <1>c, HeadTailProperties, EmptySeq, LenProperties
    <3>2. \A i \in 1 .. Len(t) : t[i] = s[i + 1]
          BY <1>a, <1>c, HeadTailProperties
    <3> QED BY <3>1, <3>2
  <2>2. PICK p \in Nat : p = Len(t) /\ Len(s) = p + 1
    <3>1. PICK x \in Nat : x = Len(s) /\ x # 0 /\ Len(t) = x - 1
          BY <2>1
    <3>2. x - 1 \in Nat /\ (x - 1) + 1 = x
          BY <3>1
    <3> QED BY <3>1, <3>2
  <2>3. \A j \in 1 .. p + 1 : DavNumber(s[j]) => DavPast(dl, s[j].val)
        BY <1>c, <2>2 DEF DavDelivered
  <2>4. \A j \in 1 .. p : t[j] = s[j + 1] /\ j + 1 \in 1 .. p + 1
        BY <2>1, <2>2
  <2>5. \A j \in 1 .. p : DavNumber(t[j]) => DavPast(dl, t[j].val)
        BY <2>3, <2>4
  <2>6. 1 \in 1 .. p + 1
        OBVIOUS
  <2> QED BY <1>b, <1>c, <2>2, <2>3, <2>5, <2>6 DEF DavDelivered
<1>4. ASSUME step = "id" PROVE DavAwaits(f, dl, t, "size", v, n)
  <2>1. s[1].read = "id"
        BY <1>4, <1>c DEF DavAwaits, DavBegins
  <2>2. v \in Ids /\ t # <<>>
        BY <1>1, <1>b, <2>1 DEF DavFits, DavEnds
  <2>3. t[1].read = "size" /\ (t[1].val # 0 => DavNamed(f, t[1].val, v))
        BY <1>1, <1>b, <2>1, <2>2 DEF DavFollows
  <2> QED BY <2>2, <2>3 DEF DavAwaits
<1>5. ASSUME step = "size" PROVE DavAwaits(f, dl, t, "data", k, v)
  <2>1. s[1].read = "size" /\ k \in Ids /\ (v # 0 => DavNamed(f, v, k))
        BY <1>5, <1>b, <1>c DEF DavAwaits
  <2>2. v \in Nat
        BY <1>1, <1>b, <2>1 DEF DavFits
  <2>3. DavInHand(dl, t, v)
        BY <1>1, <1>3, <1>b, <2>1 DEF DavInHand, DavNumber
  <2>4. v = 0 => DavBegins(t)
        BY <1>1, <1>b, <2>1 DEF DavBegins, DavFollows
  <2>5. v # 0 => t # <<>> /\ t[1].read = "data" /\ t[1].val = v
        BY <1>1, <1>b, <2>1 DEF DavFollows, DavEnds
  <2> QED BY <2>1, <2>2, <2>3, <2>4, <2>5 DEF DavAwaits
<1>6. ASSUME step = "data" PROVE DavAwaits(f, dl, t, "write", k, n)
  <2>1. /\ k \in Ids /\ n \in Nat /\ DavInHand(dl, s, n) /\ DavNamed(f, n, k)
        /\ s[1].read = "data"
        BY <1>6, <1>b, <1>c DEF DavAwaits
  <2>2. DavBegins(t)
        BY <1>1, <1>b, <2>1 DEF DavBegins, DavFollows
  <2>3. DavInHand(dl, t, n)
        BY <1>1, <1>b, <2>1 DEF DavInHand
  <2> QED BY <1>6, <1>c, <2>1, <2>2, <2>3 DEF DavAwaits
<1>7. DavStepped(f, dl, t, step, k, n, v)
      BY <1>2, <1>3, <1>4, <1>5, <1>6 DEF DavStepped
<1> QED BY <1>a, <1>b, <1>7

DavTypes ==
  /\ opened \in BOOLEAN /\ demuxing \in BOOLEAN /\ frames \in Seq(Ids)
  /\ pending \in Seq(DavItems) /\ co \in Seq(DavItems)
  /\ task \in W!Reads \cup {"none"} /\ done \in Seq(DavReads)
  /\ demux \in [client : Ids \cup {nobody}, size : Nat]
  /\ delivered \in Seq(Ids \X Nat)

\* Of the reads that ended, only the last may not have been cancelled.
DavPile(dn) == \A i \in 1 .. Len(dn) : i # Len(dn) => dn[i].cancelled = TRUE
DavLive(dn) == dn # <<>> /\ dn[Len(dn)].cancelled = FALSE
DavLast == done[Len(done)]

\* The demultiplexer does one thing, and the stream holds what it expects.
DavExpects(step, c, n) == DavAwaits(frames, delivered, co \o pending, step, c, n)
DavStage ==
  \/ /\ opened = FALSE /\ task = "none" /\ writing = nobody /\ ~DavLive(done)
     /\ demuxing = FALSE /\ co = <<>> /\ DavExpects("id", nobody, 0)
  \/ /\ opened = TRUE /\ task # "none" /\ writing = nobody /\ ~DavLive(done)
     /\ DavExpects(task, demux.client, demux.size)
  \/ /\ opened = TRUE /\ task = "none" /\ writing = nobody /\ DavLive(done)
     /\ DavExpects(DavNext(DavLast.read),
                   IF DavLast.read = "id" THEN DavLast.val ELSE demux.client,
                   IF DavLast.read = "size" THEN DavLast.val ELSE demux.size)
  \/ /\ opened = TRUE /\ task = "none" /\ writing # nobody /\ ~DavLive(done)
     /\ demux.size # 0 /\ DavExpects("write", obj[writing].id, demux.size)

DavStreamInv ==
  /\ DavTypes /\ DavPile(done) /\ DavStream(frames, co \o pending)
  /\ DavDelivered(frames, delivered, co \o pending) /\ DavStage

LEMMA InitDavStream == W!Init => DavStreamInv
<1> SUFFICES ASSUME W!Init PROVE DavStreamInv
    OBVIOUS
<1>1. /\ opened = FALSE /\ frames = <<>> /\ pending = <<>> /\ co = <<>> /\ task = "none"
      /\ done = <<>> /\ demuxing = FALSE /\ demux = [client |-> nobody, size |-> 0]
      /\ writing = nobody /\ delivered = <<>>
      BY DEF W!Init
<1>2. DavTypes
  <2>1. /\ <<>> \in Seq(Ids) /\ <<>> \in Seq(DavItems) /\ <<>> \in Seq(DavReads)
        /\ <<>> \in Seq(Ids \X Nat)
        BY EmptySeq
  <2>2. demux \in [client : Ids \cup {nobody}, size : Nat]
        BY <1>1
  <2> QED BY <1>1, <2>1, <2>2 DEF DavTypes
<1>3. co \o pending = <<>> /\ Len(<<>>) = 0
  <2>1. <<>> \in Seq(DavItems)
        OBVIOUS
  <2> QED BY <1>1, <2>1, ConcatEmptySeq, EmptySeq
<1>4. DavPile(done) /\ ~DavLive(done)
      BY <1>1, <1>3 DEF DavPile, DavLive
<1>5. DavStream(frames, co \o pending) /\ DavDelivered(frames, delivered, co \o pending)
      BY <1>1, <1>3 DEF DavStream, DavDelivered
<1>6. DavStage
      BY <1>1, <1>3, <1>4 DEF DavStage, DavExpects, DavAwaits, DavBegins
<1> QED BY <1>2, <1>4, <1>5, <1>6 DEF DavStreamInv

LEMMA DavAppended ==
  ASSUME NEW dn \in Seq(DavReads), DavPile(dn), ~DavLive(dn), NEW r \in DavReads,
         r.cancelled = FALSE, NEW x, x = Append(dn, r)
  PROVE  x \in Seq(DavReads) /\ DavPile(x) /\ DavLive(x) /\ x[Len(x)] = r
<1>1. PICK n \in Nat : n = Len(dn)
      BY LenProperties
<1>2. /\ x \in Seq(DavReads) /\ Len(x) = n + 1 /\ x[n + 1] = r
      /\ \A i \in 1 .. n : x[i] = dn[i]
      BY <1>1, AppendProperties
<1>3. \A i \in 1 .. n : dn[i].cancelled = TRUE
  <2>1. \A i \in 1 .. n : dn[i] \in DavReads
        BY <1>1, ElementOfSeq
  <2>2. \A i \in 1 .. n : dn[i].cancelled \in BOOLEAN
        BY <2>1 DEF DavReads
  <2>3. n # 0 => dn # <<>>
        BY <1>1, EmptySeq
  <2>4. n # 0 => dn[n].cancelled # FALSE
        BY <1>1, <2>3 DEF DavLive
  <2>5. n # 0 => n \in 1 .. n
        OBVIOUS
  <2>6. n # 0 => dn[n].cancelled = TRUE
        BY <2>2, <2>4, <2>5
  <2>7. \A i \in 1 .. n : i # n => dn[i].cancelled = TRUE
        BY <1>1 DEF DavPile
  <2>8. \A i \in 1 .. n : n # 0
        OBVIOUS
  <2> QED BY <2>6, <2>7, <2>8
<1>4. DavPile(x)
  <2>1. \A i \in 1 .. n + 1 : i # n + 1 => i \in 1 .. n
        OBVIOUS
  <2> QED BY <1>2, <1>3, <2>1 DEF DavPile
<1>5. x # <<>>
      BY <1>2, EmptySeq
<1> QED BY <1>2, <1>4, <1>5 DEF DavLive

LEMMA DavShifted ==
  ASSUME NEW dn \in Seq(DavReads), dn # <<>>, DavPile(dn), NEW x, x = Tail(dn)
  PROVE  /\ x \in Seq(DavReads) /\ DavPile(x) /\ dn[1] \in DavReads
         /\ dn[1].cancelled = TRUE =>
              (DavLive(x) <=> DavLive(dn)) /\ (DavLive(x) => x[Len(x)] = dn[Len(dn)])
         /\ dn[1].cancelled = FALSE => ~DavLive(x) /\ DavLive(dn) /\ dn[Len(dn)] = dn[1]
<1>1. Len(dn) \in Nat /\ Len(dn) # 0 /\ x \in Seq(DavReads) /\ Len(x) = Len(dn) - 1
      BY HeadTailProperties, EmptySeq, LenProperties
<1>2. \A i \in 1 .. Len(x) : x[i] = dn[i + 1]
      BY HeadTailProperties
<1>3. PICK n \in Nat : n = Len(x) /\ Len(dn) = n + 1
  <2>1. PICK k \in Nat : k = Len(dn) /\ k # 0 /\ Len(x) = k - 1
        BY <1>1
  <2>2. k - 1 \in Nat /\ (k - 1) + 1 = k
        BY <2>1
  <2> QED BY <2>1, <2>2
<1>4. \A i \in 1 .. n : x[i] = dn[i + 1] /\ i + 1 \in 1 .. n + 1
      BY <1>2, <1>3
<1>5. \A i \in 1 .. n + 1 : i # n + 1 => dn[i].cancelled = TRUE
      BY <1>3 DEF DavPile
<1>6. DavPile(x)
      BY <1>3, <1>4, <1>5 DEF DavPile
<1>7. dn[1] \in DavReads
  <2>1. 1 \in 1 .. Len(dn)
        BY <1>3
  <2> QED BY <2>1, ElementOfSeq
<1>8. x = <<>> <=> n = 0
      BY <1>1, <1>3, EmptySeq
<1>9. n # 0 => x[n] = dn[n + 1]
  <2>1. n # 0 => n \in 1 .. n
        OBVIOUS
  <2> QED BY <1>4, <2>1
<1>10. n = 0 => dn[n + 1] = dn[1]
      OBVIOUS
<1>11. n # 0 => dn[1].cancelled = TRUE
  <2>1. n # 0 => 1 \in 1 .. n + 1 /\ 1 # n + 1
        OBVIOUS
  <2> QED BY <1>5, <2>1
<1>12. ASSUME dn[1].cancelled = TRUE
       PROVE  (DavLive(x) <=> DavLive(dn)) /\ (DavLive(x) => x[Len(x)] = dn[Len(dn)])
      BY <1>3, <1>8, <1>9, <1>10, <1>12 DEF DavLive
<1>13. ASSUME dn[1].cancelled = FALSE
       PROVE  ~DavLive(x) /\ DavLive(dn) /\ dn[Len(dn)] = dn[1]
  <2>1. n = 0
        BY <1>11, <1>13
  <2> QED BY <1>3, <1>8, <1>10, <1>13, <2>1 DEF DavLive
<1> QED BY <1>1, <1>6, <1>7, <1>12, <1>13

LEMMA DavNoneLeft ==
  ASSUME NEW dn \in Seq(DavReads), NEW x,
         x = [i \in DOMAIN dn |-> [dn[i] EXCEPT !.cancelled = TRUE]]
  PROVE  x \in Seq(DavReads) /\ DavPile(x) /\ ~DavLive(x)
<1>1. PICK n \in Nat : n = Len(dn) /\ DOMAIN dn = 1 .. n
      BY LenProperties
<1>2. x = [i \in 1 .. n |-> [dn[i] EXCEPT !.cancelled = TRUE]]
      BY <1>1
<1>3. ASSUME NEW i \in 1 .. n
      PROVE  [dn[i] EXCEPT !.cancelled = TRUE] \in DavReads
             /\ [dn[i] EXCEPT !.cancelled = TRUE].cancelled = TRUE
  <2>1. PICK e \in DavReads : e = dn[i]
        BY <1>1, ElementOfSeq
  <2> QED BY <2>1 DEF DavReads
<1>4. x \in [1 .. n -> DavReads] /\ \A i \in 1 .. n : x[i].cancelled = TRUE
      BY <1>2, <1>3
<1>5. x \in Seq(DavReads) /\ Len(x) = n
      BY <1>4, SeqDef, LenProperties
<1>6. n # 0 => n \in 1 .. n
      OBVIOUS
<1>7. x # <<>> => n # 0
      BY <1>5, EmptySeq
<1> QED BY <1>4, <1>5, <1>6, <1>7 DEF DavPile, DavLive

\* The stream, its first item taken by the coroutine
LEMMA DavFed ==
  ASSUME NEW a \in Seq(DavItems), a # <<>>, NEW b \in Seq(DavItems), NEW s, s = a \o b
  PROVE  /\ s \in Seq(DavItems) /\ s # <<>> /\ s[1] = Head(a)
         /\ Tail(a) \in Seq(DavItems) /\ Tail(s) = Tail(a) \o b
<1>1. PICK t \in Seq(DavItems) : t = Tail(a)
      BY HeadTailProperties
<1>2. PICK p \in Nat : p = Len(t) /\ Len(a) = p + 1
  <2>1. Len(a) \in Nat /\ Len(a) # 0 /\ Len(t) = Len(a) - 1
        BY <1>1, HeadTailProperties, EmptySeq, LenProperties
  <2> QED BY <2>1
<1>3. \A i \in 1 .. p : t[i] = a[i + 1]
      BY <1>1, <1>2, HeadTailProperties
<1>4. PICK q \in Nat : q = Len(b)
      BY LenProperties
<1>5. /\ s \in Seq(DavItems) /\ Len(s) = (p + 1) + q
      /\ \A i \in 1 .. p + 1 : s[i] = a[i]
      /\ \A i \in 1 .. q : s[(p + 1) + i] = b[i]
      BY <1>2, <1>4, DavJoined
<1>6. s # <<>>
      BY <1>5, EmptySeq
<1>7. s[1] = Head(a)
  <2>1. 1 \in 1 .. p + 1
        OBVIOUS
  <2> QED BY <1>5, <2>1
<1>8. PICK u : u = t \o b
      OBVIOUS
<1>9. /\ u \in Seq(DavItems) /\ Len(u) = p + q
      /\ \A i \in 1 .. p : u[i] = t[i]
      /\ \A i \in 1 .. q : u[p + i] = b[i]
      BY <1>2, <1>4, <1>8, DavJoined
<1>10. PICK v \in Seq(DavItems) : v = Tail(s)
      BY <1>5, <1>6, HeadTailProperties
<1>11. Len(v) = p + q /\ \A i \in 1 .. p + q : v[i] = s[i + 1]
  <2>1. Len(v) = Len(s) - 1 /\ \A i \in 1 .. Len(v) : v[i] = s[i + 1]
        BY <1>5, <1>6, <1>10, HeadTailProperties
  <2>2. ((p + 1) + q) - 1 = p + q
        OBVIOUS
  <2> QED BY <1>5, <2>1, <2>2
<1>12. ASSUME NEW i \in 1 .. p + q PROVE v[i] = u[i]
  <2>1. CASE i \in 1 .. p
    <3>1. i + 1 \in 1 .. p + 1
          BY <2>1
    <3> QED BY <1>3, <1>5, <1>9, <1>11, <2>1, <3>1
  <2>2. CASE i > p
    <3>1. i - p \in 1 .. q /\ i = p + (i - p) /\ i + 1 = (p + 1) + (i - p)
          BY <2>2
    <3>2. u[i] = b[i - p] /\ s[i + 1] = b[i - p]
          BY <1>5, <1>9, <3>1
    <3> QED BY <1>11, <3>2
  <2> QED BY <2>1, <2>2
<1>13. v = u
      BY <1>9, <1>11, <1>12, SeqEqual
<1> QED BY <1>1, <1>5, <1>6, <1>7, <1>8, <1>10, <1>13

\* The first m items of s, and the q after them
DavHead(a, s, m) == m = Len(a) /\ \A i \in 1 .. m : a[i] = s[i]
DavRest(b, s, m, q) == q = Len(b) /\ Len(s) = m + q /\ \A i \in 1 .. q : b[i] = s[m + i]

LEMMA DavHalves ==
  ASSUME NEW s \in Seq(DavItems), NEW m \in Nat, NEW q \in Nat,
         NEW a \in Seq(DavItems), DavHead(a, s, m), NEW b \in Seq(DavItems), DavRest(b, s, m, q)
  PROVE  a \o b = s
<1>0. /\ m = Len(a) /\ q = Len(b) /\ Len(s) = m + q
      /\ \A i \in 1 .. m : a[i] = s[i]
      /\ \A i \in 1 .. q : b[i] = s[m + i]
      BY DEF DavHead, DavRest
<1>1. PICK u : u = a \o b
      OBVIOUS
<1>2. /\ u \in Seq(DavItems) /\ Len(u) = m + q
      /\ \A i \in 1 .. m : u[i] = a[i]
      /\ \A i \in 1 .. q : u[m + i] = b[i]
      BY <1>0, <1>1, DavJoined
<1>3. ASSUME NEW i \in 1 .. m + q PROVE u[i] = s[i]
  <2>1. CASE i \in 1 .. m
        BY <1>0, <1>2, <2>1
  <2>2. CASE i > m
    <3>1. PICK j \in 1 .. q : i = m + j
      <4>1. i - m \in 1 .. q /\ i = m + (i - m)
            BY <2>2
      <4> QED BY <4>1
    <3>2. u[m + j] = b[j] /\ b[j] = s[m + j]
          BY <1>0, <1>2
    <3> QED BY <3>1, <3>2
  <2> QED BY <2>1, <2>2
<1>4. u = s
      BY <1>0, <1>2, <1>3, SeqEqual
<1> QED BY <1>1, <1>4

LEMMA DavSplit ==
  ASSUME NEW s \in Seq(DavItems), NEW m \in Nat, m \in 1 .. Len(s)
  PROVE  /\ SubSeq(s, 1, m) \in Seq(DavItems) /\ SubSeq(s, m + 1, Len(s)) \in Seq(DavItems)
         /\ SubSeq(s, 1, m) \o SubSeq(s, m + 1, Len(s)) = s
<1>a. PICK a : a = SubSeq(s, 1, m)
      OBVIOUS
<1>b. PICK b : b = SubSeq(s, m + 1, Len(s))
      OBVIOUS
<1>1. PICK n \in Nat : n = Len(s) /\ m \in 1 .. n
      BY LenProperties
<1>2. /\ a \in Seq(DavItems) /\ Len(a) = m /\ \A i \in 1 .. m : a[i] = s[i]
  <2>1. \A i \in 1 .. n : s[i] \in DavItems
        BY <1>1, ElementOfSeq
  <2>2. a = [i \in 1 .. m |-> s[i]]
        BY <1>1, <1>a
  <2>3. a \in [1 .. m -> DavItems]
    <3>1. \A i \in 1 .. m : i \in 1 .. n
          BY <1>1
    <3> QED BY <2>1, <2>2, <3>1
  <2> QED BY <1>1, <2>2, <2>3, SeqDef, LenProperties
<1>3. PICK q \in Nat : q = n - m /\ n = m + q
  <2>1. m <= n
        BY <1>1
  <2>2. n - m \in Nat /\ n = m + (n - m)
        BY <2>1
  <2> QED BY <2>2
<1>4. /\ b \in Seq(DavItems) /\ Len(b) = q /\ \A i \in 1 .. q : b[i] = s[m + i]
  <2>1. \A i \in 1 .. n : s[i] \in DavItems
        BY <1>1, ElementOfSeq
  <2>2. b = [i \in 1 .. q |-> s[m + i]]
        BY <1>1, <1>3, <1>b
  <2>3. b \in [1 .. q -> DavItems]
    <3>1. \A i \in 1 .. q : m + i \in 1 .. n
          BY <1>1, <1>3
    <3> QED BY <2>1, <2>2, <3>1
  <2>4. b \in Seq(DavItems) /\ Len(b) = q
        BY <2>3, SeqDef, LenProperties
  <2> QED BY <2>2, <2>4
<1>5. DavHead(a, s, m) /\ DavRest(b, s, m, q)
      BY <1>1, <1>2, <1>3, <1>4 DEF DavHead, DavRest
<1>6. a \in Seq(DavItems) /\ b \in Seq(DavItems)
      BY <1>2, <1>4
<1>7. a \o b = s
      BY <1>5, <1>6, DavHalves
<1> QED BY <1>a, <1>b, <1>6, <1>7

LEMMA DavStageMore ==
  ASSUME DavStage, opened' = opened, task' = task, writing' = writing, done' = done,
         demuxing' = demuxing, demux' = demux, DavWriterSame, opened = FALSE => co' = co,
         \A step, k, n : DavAwaits(frames, delivered, co \o pending, step, k, n) =>
           DavAwaits(frames', delivered', co' \o pending', step, k, n)
  PROVE  DavStage'
<1>1. CASE /\ opened = FALSE /\ task = "none" /\ writing = nobody /\ ~DavLive(done)
           /\ demuxing = FALSE /\ co = <<>> /\ DavExpects("id", nobody, 0)
      BY <1>1 DEF DavStage, DavExpects
<1>2. CASE /\ opened = TRUE /\ task # "none" /\ writing = nobody /\ ~DavLive(done)
           /\ DavExpects(task, demux.client, demux.size)
      BY <1>2 DEF DavStage, DavExpects
<1>3. CASE /\ opened = TRUE /\ task = "none" /\ writing = nobody /\ DavLive(done)
           /\ DavExpects(DavNext(DavLast.read),
                         IF DavLast.read = "id" THEN DavLast.val ELSE demux.client,
                         IF DavLast.read = "size" THEN DavLast.val ELSE demux.size)
      BY <1>3 DEF DavStage, DavExpects, DavLast
<1>4. CASE /\ opened = TRUE /\ task = "none" /\ writing # nobody /\ ~DavLive(done)
           /\ demux.size # 0 /\ DavExpects("write", obj[writing].id, demux.size)
  <2>1. obj'[writing'].id = obj[writing].id
        BY <1>4 DEF DavWriterSame
  <2> QED BY <1>4, <2>1 DEF DavStage, DavExpects
<1> QED BY <1>1, <1>2, <1>3, <1>4 DEF DavStage

LEMMA DavStreamKept ==
  ASSUME DavStreamInv, opened' = opened, frames' = frames, pending' = pending, co' = co,
         task' = task, done' = done, demuxing' = demuxing, demux' = demux,
         writing' = writing, delivered' = delivered, DavWriterSame
  PROVE  DavStreamInv'
<1>1. DavTypes'
      BY DEF DavStreamInv, DavTypes
<1>2. /\ DavPile(done') /\ DavStream(frames', co' \o pending')
      /\ DavDelivered(frames', delivered', co' \o pending')
      BY DEF DavStreamInv
<1>3. DavStage'
      BY DavStageMore DEF DavStreamInv
<1> QED BY <1>1, <1>2, <1>3 DEF DavStreamInv

LEMMA DavItemsRegroup ==
  ASSUME NEW m \in Seq(DavItems), NEW q \in Seq(DavItems), NEW t \in Seq(DavItems)
  PROVE  m \o (q \o t) = (m \o q) \o t
BY ConcatAssociative

\* The frame the guest writes
DavWritten(p, c, n, size) ==
  p \o <<W!Item("id", c), W!Item("size", n)>>
    \o (IF size THEN <<W!Item("data", n)>> ELSE <<>>)
DavWrites(p, c, m, size) ==
  \E t : DavFrame(t, c, m) /\ DavWritten(p, c, IF size THEN m ELSE 0, size) = p \o t

\* t is the p items of a, then the q items of b.
DavJoins(t, a, b, p, q) ==
  /\ t \in Seq(DavItems) /\ Len(t) = p + q
  /\ \A i \in 1 .. p : t[i] = a[i]
  /\ \A i \in 1 .. q : t[p + i] = b[i]

LEMMA DavConcatJoins ==
  ASSUME NEW a \in Seq(DavItems), NEW b \in Seq(DavItems)
  PROVE  DavJoins(a \o b, a, b, Len(a), Len(b))
<1>1. PICK p \in Nat : p = Len(a)
      BY LenProperties
<1>2. PICK q \in Nat : q = Len(b)
      BY LenProperties
<1>3. PICK t : t = a \o b
      OBVIOUS
<1>4. /\ t \in Seq(DavItems) /\ Len(t) = p + q
      /\ \A i \in 1 .. p : t[i] = a[i]
      /\ \A i \in 1 .. q : t[p + i] = b[i]
      BY <1>1, <1>2, <1>3, DavJoined
<1>5. DavJoins(t, a, b, p, q)
      BY <1>4 DEF DavJoins
<1> QED BY <1>1, <1>2, <1>3, <1>5

LEMMA DavThree ==
  ASSUME NEW a \in Seq(DavItems), NEW b \in Seq(DavItems), DavJoins(a \o b, a, b, 2, 1)
  PROVE  /\ a \o b \in Seq(DavItems) /\ Len(a \o b) = 3
         /\ (a \o b)[1] = a[1] /\ (a \o b)[2] = a[2] /\ (a \o b)[3] = b[1]
<1>1. PICK t : t = a \o b
      OBVIOUS
<1>2. t \in Seq(DavItems) /\ Len(t) = 3 /\ t[1] = a[1] /\ t[2] = a[2] /\ t[3] = b[1]
  <2>1. DavJoins(t, a, b, 2, 1)
        BY <1>1
  <2>2. 1 \in 1 .. 2 /\ 2 \in 1 .. 2 /\ 1 \in 1 .. 1 /\ 2 + 1 = 3
        OBVIOUS
  <2> QED BY <2>1, <2>2 DEF DavJoins
<1> QED BY <1>1, <1>2

LEMMA DavNewFrame ==
  ASSUME NEW c \in Ids, NEW m \in Nat, NEW p \in Seq(DavItems), NEW size \in BOOLEAN
  PROVE  DavWrites(p, c, m, size)
<1>0. PICK n : n = IF size THEN m ELSE 0
      OBVIOUS
<1>1. PICK k \in Nat : k = n
      BY <1>0
<1>2. /\ W!Item("id", c) \in DavItems /\ W!Item("size", k) \in DavItems
      /\ W!Item("data", k) \in DavItems
      BY DEF W!Item, DavItems, DavVals, W!Reads
<1>3. PICK a : a = <<W!Item("id", c), W!Item("size", k)>>
      OBVIOUS
<1>4. /\ a \in Seq(DavItems) /\ Len(a) = 2 /\ a[1].read = "id" /\ a[1].val = c
      /\ a[2].read = "size" /\ a[2].val = k
  <2>1. a \in Seq(DavItems) /\ Len(a) = 2 /\ a[1] = W!Item("id", c) /\ a[2] = W!Item("size", k)
        BY <1>2, <1>3
  <2> QED BY <2>1 DEF W!Item
<1>5. CASE size = TRUE
  <2>1. PICK b : b = <<W!Item("data", k)>>
        OBVIOUS
  <2>2. b \in Seq(DavItems) /\ Len(b) = 1 /\ b[1].read = "data" /\ b[1].val = k
    <3>1. b \in Seq(DavItems) /\ Len(b) = 1 /\ b[1] = W!Item("data", k)
          BY <1>2, <2>1
    <3> QED BY <3>1 DEF W!Item
  <2>3. PICK t : t = a \o b
        OBVIOUS
  <2>4. t \in Seq(DavItems) /\ Len(t) = 3 /\ t[1] = a[1] /\ t[2] = a[2] /\ t[3] = b[1]
    <3>1. DavJoins(a \o b, a, b, Len(a), Len(b))
          BY <1>4, <2>2, DavConcatJoins
    <3>2. DavJoins(a \o b, a, b, 2, 1)
          BY <1>4, <2>2, <3>1
    <3> QED BY <1>4, <2>2, <2>3, <3>2, DavThree
  <2>5. k = m
        BY <1>0, <1>1, <1>5
  <2>6. DavFrame(t, c, m)
        BY <1>4, <2>2, <2>4, <2>5 DEF DavFrame
  <2>7. (p \o a) \o b = p \o t
        BY <1>4, <2>2, <2>3, DavItemsRegroup
  <2>8. DavWritten(p, c, n, size) = p \o t
        BY <1>1, <1>3, <1>5, <2>1, <2>7 DEF DavWritten
  <2> QED BY <1>0, <2>6, <2>8 DEF DavWrites
<1>6. CASE size = FALSE
  <2>1. DavFrame(a, c, m)
        BY <1>0, <1>1, <1>4, <1>6 DEF DavFrame
  <2>2. (p \o a) \o <<>> = p \o a
    <3>1. p \o a \in Seq(DavItems)
          BY <1>4, ConcatProperties
    <3> QED BY <3>1, ConcatEmptySeq
  <2>3. DavWritten(p, c, n, size) = p \o a
        BY <1>1, <1>3, <1>6, <2>2 DEF DavWritten
  <2> QED BY <1>0, <2>1, <2>3 DEF DavWrites
<1> QED BY <1>5, <1>6

LEMMA DavGuest ==
  ASSUME DavStreamInv, NEW c \in Ids, NEW size \in BOOLEAN, W!GuestWrites(c, size)
  PROVE  DavStreamInv'
<1>1. /\ frames \in Seq(Ids) /\ pending \in Seq(DavItems) /\ co \in Seq(DavItems)
      /\ DavStream(frames, co \o pending) /\ DavDelivered(frames, delivered, co \o pending)
      BY DEF DavStreamInv, DavTypes
<1>2. /\ opened' = opened /\ co' = co /\ task' = task /\ done' = done /\ demuxing' = demuxing
      /\ demux' = demux /\ writing' = writing /\ delivered' = delivered /\ obj' = obj
      /\ frames' = Append(frames, c)
      BY DEF W!GuestWrites, W!stream
<1>3. PICK m \in Nat : m = Len(frames)
      BY <1>1, LenProperties
<1>4. frames' \in Seq(Ids) /\ Len(frames') = m + 1
      BY <1>1, <1>2, <1>3, DavMoreFrames
<1>5. PICK t : DavFrame(t, c, m + 1) /\ pending' = pending \o t
  <2>1. PICK k \in Nat : k = m + 1
        BY <1>4
  <2>2. pending' = DavWritten(pending, c, IF size THEN k ELSE 0, size)
        BY <1>4, <2>1 DEF W!GuestWrites, DavWritten
  <2>3. pending \in Seq(DavItems)
        BY <1>1
  <2>4. DavWrites(pending, c, k, size)
        BY <2>3, DavNewFrame
  <2> QED BY <2>1, <2>2, <2>4 DEF DavWrites
<1>6. t \in Seq(DavItems)
      BY <1>5 DEF DavFrame
<1>7. PICK s \in Seq(DavItems) : s = co \o pending
      BY <1>1, ConcatProperties
<1>8. PICK u : u = s \o t
      OBVIOUS
<1>9. co' \o pending' = u
      BY <1>1, <1>2, <1>5, <1>6, <1>7, <1>8, DavItemsRegroup
<1>10. u \in Seq(DavItems) /\ DavStream(frames', u)
       BY <1>1, <1>2, <1>3, <1>5, <1>7, <1>8, DavMoreStream
<1>11. /\ DavDelivered(frames', delivered, u)
       /\ \A step, k, n : DavAwaits(frames, delivered, s, step, k, n) =>
            DavAwaits(frames', delivered, u, step, k, n)
       BY <1>1, <1>2, <1>3, <1>5, <1>7, <1>8, DavAwaitsMore
<1>12. pending' \in Seq(DavItems)
       BY <1>1, <1>5, <1>6, ConcatProperties
<1>13. DavTypes'
       BY <1>2, <1>4, <1>12 DEF DavStreamInv, DavTypes
<1>14. DavStage'
  <2>1. DavWriterSame
        BY <1>2 DEF DavWriterSame
  <2> QED BY <1>2, <1>7, <1>9, <1>11, <2>1, DavStageMore DEF DavStreamInv
<1>15. DavPile(done')
       BY <1>2 DEF DavStreamInv
<1> QED BY <1>2, <1>9, <1>10, <1>11, <1>13, <1>14, <1>15 DEF DavStreamInv

LEMMA DavSends ==
  ASSUME DavStreamInv, W!ServerSends
  PROVE  DavStreamInv'
<1>1. /\ opened' = opened /\ frames' = frames /\ task' = task /\ done' = done
      /\ demuxing' = demuxing /\ demux' = demux /\ writing' = writing
      /\ delivered' = delivered /\ obj' = obj /\ opened /\ co = <<>>
      BY DEF W!ServerSends
<1>2. PICK m \in 1 .. Len(pending) :
        co' = SubSeq(pending, 1, m) /\ pending' = SubSeq(pending, m + 1, Len(pending))
      BY DEF W!ServerSends
<1>3. pending \in Seq(DavItems)
      BY DEF DavStreamInv, DavTypes
<1>4. co' \in Seq(DavItems) /\ pending' \in Seq(DavItems) /\ co' \o pending' = pending
  <2>1. m \in Nat
        BY <1>2, <1>3
  <2> QED BY <1>2, <1>3, <2>1, DavSplit
<1>5. co \o pending = pending
      BY <1>1, <1>3, ConcatEmptySeq
<1>6. DavTypes'
      BY <1>1, <1>4 DEF DavStreamInv, DavTypes
<1>7. /\ DavPile(done') /\ DavStream(frames', co' \o pending')
      /\ DavDelivered(frames', delivered', co' \o pending')
      BY <1>1, <1>4, <1>5 DEF DavStreamInv
<1>8. DavStage'
  <2>1. DavWriterSame /\ DavStage /\ opened # FALSE
        BY <1>1 DEF DavWriterSame, DavStreamInv
  <2> QED BY <1>1, <1>4, <1>5, <2>1, DavStageMore
<1> QED BY <1>6, <1>7, <1>8 DEF DavStreamInv

LEMMA DavFeeds ==
  ASSUME DavStreamInv, W!CoFeeds
  PROVE  DavStreamInv'
<1>1. /\ opened' = opened /\ frames' = frames /\ pending' = pending /\ demuxing' = demuxing
      /\ demux' = demux /\ writing' = writing /\ delivered' = delivered /\ obj' = obj
      /\ task' = "none" /\ co # <<>> /\ task # "none"
      BY DEF W!CoFeeds, W!guest
<1>2. /\ pending \in Seq(DavItems) /\ co \in Seq(DavItems) /\ task \in W!Reads
      /\ done \in Seq(DavReads) /\ DavPile(done) /\ DavStream(frames, co \o pending)
      /\ DavDelivered(frames, delivered, co \o pending)
      BY <1>1 DEF DavStreamInv, DavTypes
<1>3. /\ opened = TRUE /\ writing = nobody /\ ~DavLive(done)
      /\ DavExpects(task, demux.client, demux.size)
      BY <1>1 DEF DavStreamInv, DavStage
<1>4. PICK s \in Seq(DavItems) : /\ s = co \o pending /\ s # <<>> /\ s[1] = Head(co)
                                 /\ Tail(co) \in Seq(DavItems) /\ Tail(s) = Tail(co) \o pending
      BY <1>1, <1>2, DavFed
<1>5. DavAwaits(frames, delivered, s, task, demux.client, demux.size)
      BY <1>3, <1>4 DEF DavExpects
<1>6. ASSUME NEW v \in DavVals, NEW z \in Seq(DavItems), co' = z, 
             done' = Append(done, [read |-> task, val |-> v, cancelled |-> FALSE]),
             DavStream(frames, z \o pending), DavDelivered(frames, delivered, z \o pending),
             DavAwaits(frames, delivered, z \o pending, DavNext(task),
                       IF task = "id" THEN v ELSE demux.client,
                       IF task = "size" THEN v ELSE demux.size)
      PROVE  DavStreamInv'
  <2>1. PICK r : r = [read |-> task, val |-> v, cancelled |-> FALSE]
        OBVIOUS
  <2>2. r \in DavReads /\ r.read = task /\ r.val = v /\ r.cancelled = FALSE
        BY <1>2, <2>1 DEF DavReads
  <2>3. /\ done' \in Seq(DavReads) /\ DavPile(done') /\ DavLive(done')
        /\ done'[Len(done')] = r
        BY <1>2, <1>3, <1>6, <2>1, <2>2, DavAppended
  <2>4. DavTypes'
        BY <1>1, <1>6, <2>3 DEF DavStreamInv, DavTypes
  <2>5. DavStage'
        BY <1>1, <1>3, <1>6, <2>2, <2>3 DEF DavStage, DavExpects, DavLast
  <2> QED BY <1>1, <1>6, <2>3, <2>4, <2>5 DEF DavStreamInv
<1>7. CASE task = "data" /\ demux.size = 0
  <2>1. co' = co /\ done' = Append(done, [read |-> task, val |-> 0, cancelled |-> FALSE])
        BY <1>7 DEF W!CoFeeds
  <2>2. DavAwaits(frames, delivered, s, "write", demux.client, demux.size)
        BY <1>5, <1>7 DEF DavAwaits
  <2>3. 0 \in DavVals /\ DavNext(task) = "write"
        BY <1>7 DEF DavVals, DavNext
  <2> QED BY <1>2, <1>4, <1>6, <1>7, <2>1, <2>2, <2>3
<1>8. CASE ~(task = "data" /\ demux.size = 0)
  <2>1. PICK v : v = s[1].val
        OBVIOUS
  <2>2. co' = Tail(co) /\ done' = Append(done, [read |-> task, val |-> v, cancelled |-> FALSE])
        BY <1>4, <1>8, <2>1 DEF W!CoFeeds
  <2>3. PICK t : t = Tail(s) /\ t = Tail(co) \o pending
        BY <1>4
  <2>4. DavStream(frames, s) /\ DavDelivered(frames, delivered, s)
        BY <1>2, <1>4
  <2>5. DavStream(frames, t)
        BY <1>4, <2>3, <2>4, DavTailStream
  <2>6. /\ v \in DavVals /\ DavDelivered(frames, delivered, t)
        /\ task = "id" => DavAwaits(frames, delivered, t, "size", v, demux.size)
        /\ task = "size" => DavAwaits(frames, delivered, t, "data", demux.client, v)
        /\ task = "data" => DavAwaits(frames, delivered, t, "write", demux.client, demux.size)
    <3>1. PICK k : k = demux.client
          OBVIOUS
    <3>2. PICK n : n = demux.size
          OBVIOUS
    <3>3. DavAwaits(frames, delivered, s, task, k, n) /\ (task = "data" => n # 0)
          BY <1>5, <1>8, <3>1, <3>2
    <3>4. DavGets(frames, delivered, s, task, k, n)
          BY <1>2, <1>4, <2>4, <3>3 DEF DavGets
    <3>5. DavStepped(frames, delivered, Tail(s), task, k, n, s[1].val)
          BY <3>4, DavAwaitsNext
    <3>6. DavStepped(frames, delivered, t, task, k, n, v)
          BY <2>1, <2>3, <3>5
    <3> QED BY <3>1, <3>2, <3>6 DEF DavStepped
  <2>7. DavAwaits(frames, delivered, t, DavNext(task),
                  IF task = "id" THEN v ELSE demux.client,
                  IF task = "size" THEN v ELSE demux.size)
        BY <1>2, <2>6 DEF DavNext, W!Reads
  <2> QED BY <1>4, <1>6, <2>2, <2>3, <2>5, <2>6, <2>7
<1> QED BY <1>7, <1>8

\* The clients are left alone; the pipe of one that is listed may be written now.
LEMMA DavClientsKept ==
  ASSUME DavClientsInv, obj' = obj, clients' = clients,
         writing' \in {writing, nobody} \/ \E i \in Ids : writing' = clients[i]
  PROVE  DavClientsInv' /\ DavQueuedSame
<1>1. /\ writing \in Objects \cup {nobody} /\ clients \in [Ids -> Objects \cup {nobody}]
      /\ obj \in [Objects -> DavClients] /\ \A o \in Objects : DavClient(o)
      /\ \A i \in Ids : clients[i] # nobody =>
           obj[clients[i]].id = i /\ obj[clients[i]].cancelled = FALSE
      /\ writing # nobody => obj[writing].id # nobody /\ obj[writing].cancelled = FALSE
      BY DEF DavClientsInv
<1>2. \A o \in Objects : DavClient(o)'
      BY <1>1 DEF DavClient
<1>3. /\ writing' \in Objects \cup {nobody}
      /\ writing' # nobody => obj'[writing'].id # nobody /\ obj'[writing'].cancelled = FALSE
  <2>1. CASE writing' \in {writing, nobody}
        BY <1>1, <2>1
  <2>2. ASSUME NEW i \in Ids, writing' = clients[i]
        PROVE  /\ writing' \in Objects \cup {nobody}
               /\ writing' # nobody =>
                    obj'[writing'].id # nobody /\ obj'[writing'].cancelled = FALSE
        BY <1>1, <2>2, DavConstants
  <2> QED BY <2>1, <2>2
<1> QED BY <1>1, <1>2, <1>3 DEF DavClientsInv, DavQueuedSame

\* A frame that was read goes to client o, and the next read begins if it is empty.
LEMMA DavToClient ==
  ASSUME DavTypes, DavPile(done), DavStream(frames, co \o pending),
         DavDelivered(frames, delivered, co \o pending),
         DavAwaits(frames, delivered, co \o pending, "write", demux.client, demux.size),
         opened = TRUE, task = "none", writing = nobody,
         opened' = opened, frames' = frames, pending' = pending, co' = co, demux' = demux,
         delivered' = delivered, done' \in Seq(DavReads), DavPile(done'), ~DavLive(done'),
         NEW o \in Objects, W!ToClient(o), obj'[o].id = demux.client
  PROVE  DavStreamInv' /\ writing' \in {o, nobody}
<1>1. demux.client \in Ids /\ demux.size \in Nat /\ DavBegins(co \o pending)
      BY DEF DavAwaits
<1>2. CASE demux.size > 0 /\ writing' = o /\ UNCHANGED <<demuxing, task>>
  <2>1. DavTypes'
        BY <1>2 DEF DavTypes
  <2>2. DavStage'
    <3>1. writing' # nobody /\ demux'.size # 0
          BY <1>1, <1>2, DavConstants
    <3>2. DavAwaits(frames', delivered', co' \o pending', "write", obj'[writing'].id, demux'.size)
          BY <1>2
    <3> QED BY <1>2, <3>1, <3>2 DEF DavStage, DavExpects
  <2> QED BY <1>2, <2>1, <2>2 DEF DavStreamInv
<1>3. CASE demux.size = 0 /\ W!Demux /\ UNCHANGED writing
  <2>1. demuxing' = TRUE /\ task' = "id" /\ writing' = nobody
        BY <1>3 DEF W!Demux
  <2>2. DavTypes'
        BY <2>1 DEF DavTypes, W!Reads
  <2>3. DavAwaits(frames', delivered', co' \o pending', task', demux'.client, demux'.size)
        BY <1>1, <2>1 DEF DavAwaits
  <2>4. DavStage'
        BY <2>1, <2>3 DEF DavStage, DavExpects
  <2> QED BY <2>1, <2>2, <2>4 DEF DavStreamInv
<1> QED BY <1>2, <1>3 DEF W!ToClient

LEMMA DavReadDone ==
  ASSUME Fallible = FALSE, DavClientsInv, DavStreamInv, W!ReadDone
  PROVE  DavClientsInv' /\ DavQueuedSame /\ DavStreamInv'
<1>1. /\ opened' = opened /\ frames' = frames /\ pending' = pending /\ co' = co
      /\ delivered' = delivered /\ done # <<>> /\ done' = Tail(done)
      BY DEF W!ReadDone, W!guest
<1>2. /\ DavTypes /\ DavPile(done) /\ DavStream(frames, co \o pending)
      /\ DavDelivered(frames, delivered, co \o pending) /\ DavStage /\ done \in Seq(DavReads)
      BY DEF DavStreamInv, DavTypes
<1>3. /\ done' \in Seq(DavReads) /\ DavPile(done') /\ done[1] \in DavReads
      /\ done[1].cancelled = TRUE =>
           (DavLive(done') <=> DavLive(done)) /\ (DavLive(done') => done'[Len(done')] = DavLast)
      /\ done[1].cancelled = FALSE => ~DavLive(done') /\ DavLive(done) /\ DavLast = done[1]
      BY <1>1, <1>2, DavShifted DEF DavLast
<1>4. PICK d \in DavReads : d = done[1] /\ d = Head(done)
      BY <1>3
<1>5. d.cancelled \in BOOLEAN /\ d.read \in W!Reads /\ d.val \in DavVals
      BY DEF DavReads
<1>6. CASE d.cancelled /\ UNCHANGED <<demuxing, demux, task, writing, clients, obj>>
  <2>1. /\ DavLive(done') <=> DavLive(done)
        /\ DavLive(done') => done'[Len(done')] = DavLast
        BY <1>3, <1>4, <1>5, <1>6
  <2>2. DavClientsInv' /\ DavQueuedSame
        BY <1>6, DavClientsKept
  <2>3. DavTypes'
        BY <1>1, <1>2, <1>3, <1>6 DEF DavTypes
  <2>4. DavStage'
    <3>1. CASE DavLive(done)
      <4>1. /\ opened = TRUE /\ task = "none" /\ writing = nobody
            /\ DavExpects(DavNext(DavLast.read),
                          IF DavLast.read = "id" THEN DavLast.val ELSE demux.client,
                          IF DavLast.read = "size" THEN DavLast.val ELSE demux.size)
            BY <1>2, <3>1 DEF DavStage
      <4>2. DavLive(done') /\ DavLast' = DavLast
            BY <2>1, <3>1 DEF DavLast
      <4> QED BY <1>1, <1>6, <4>1, <4>2 DEF DavStage, DavExpects
    <3>2. CASE ~DavLive(done)
      <4>1. ~DavLive(done')
            BY <2>1, <3>2
      <4> QED BY <1>1, <1>2, <1>6, <3>2, <4>1 DEF DavStage, DavExpects
    <3> QED BY <3>1, <3>2
  <2> QED BY <1>1, <1>2, <1>3, <2>2, <2>3, <2>4 DEF DavStreamInv
<1>7. CASE d.cancelled = FALSE
  <2>1. /\ opened = TRUE /\ task = "none" /\ writing = nobody /\ ~DavLive(done')
        /\ DavAwaits(frames, delivered, co \o pending, DavNext(d.read),
                     IF d.read = "id" THEN d.val ELSE demux.client,
                     IF d.read = "size" THEN d.val ELSE demux.size)
        BY <1>2, <1>3, <1>4, <1>7 DEF DavStage, DavExpects
  <2>2. demux \in [client : Ids \cup {nobody}, size : Nat]
        BY <1>2 DEF DavTypes
  <2>3. CASE /\ d.read = "id" /\ demux' = [demux EXCEPT !.client = d.val] /\ task' = "size"
             /\ UNCHANGED <<demuxing, writing, clients, obj>>
    <3>1. DavClientsInv' /\ DavQueuedSame
          BY <2>3, DavClientsKept
    <3>2. DavAwaits(frames, delivered, co \o pending, "size", d.val, demux.size)
          BY <2>1, <2>3 DEF DavNext
    <3>3. d.val \in Ids
          BY <3>2 DEF DavAwaits
    <3>4. /\ demux' \in [client : Ids \cup {nobody}, size : Nat] /\ demux'.client = d.val
          /\ demux'.size = demux.size
          BY <2>2, <2>3, <3>3
    <3>5. DavTypes'
          BY <1>1, <1>2, <1>3, <2>3, <3>4 DEF DavTypes, W!Reads
    <3>6. DavStage'
          BY <1>1, <2>1, <2>3, <3>2, <3>4 DEF DavStage, DavExpects
    <3> QED BY <1>1, <1>2, <1>3, <3>1, <3>5, <3>6 DEF DavStreamInv
  <2>4. CASE /\ d.read = "size" /\ demux' = [demux EXCEPT !.size = d.val] /\ task' = "data"
             /\ UNCHANGED <<demuxing, writing, clients, obj>>
    <3>1. DavClientsInv' /\ DavQueuedSame
          BY <2>4, DavClientsKept
    <3>2. DavAwaits(frames, delivered, co \o pending, "data", demux.client, d.val)
          BY <2>1, <2>4 DEF DavNext
    <3>3. d.val \in Nat
          BY <3>2 DEF DavAwaits
    <3>4. /\ demux' \in [client : Ids \cup {nobody}, size : Nat] /\ demux'.size = d.val
          /\ demux'.client = demux.client
          BY <2>2, <2>4, <3>3
    <3>5. DavTypes'
          BY <1>1, <1>2, <1>3, <2>4, <3>4 DEF DavTypes, W!Reads
    <3>6. DavStage'
          BY <1>1, <2>1, <2>4, <3>2, <3>4 DEF DavStage, DavExpects
    <3> QED BY <1>1, <1>2, <1>3, <3>1, <3>5, <3>6 DEF DavStreamInv
  <2>5. ASSUME d.read = "data", demux' = demux
        PROVE  /\ DavAwaits(frames, delivered, co \o pending, "write", demux.client, demux.size)
               /\ demux.client \in Ids
    <3>1. DavAwaits(frames, delivered, co \o pending, "write", demux.client, demux.size)
          BY <2>1, <2>5 DEF DavNext
    <3> QED BY <3>1 DEF DavAwaits
  <2>6. PICK o : o = clients[demux.client]
        OBVIOUS
  <2>7. CASE /\ d.read = "data" /\ demux' = demux /\ o # nobody /\ W!ToClient(o)
             /\ UNCHANGED <<clients, obj>>
    <3>1. o \in Objects /\ obj[o].id = demux.client
          BY <2>5, <2>6, <2>7 DEF DavClientsInv
    <3>2. DavStreamInv' /\ writing' \in {o, nobody}
          BY <1>1, <1>2, <1>3, <2>1, <2>5, <2>7, <3>1, DavToClient
    <3>3. DavClientsInv' /\ DavQueuedSame
          BY <2>5, <2>6, <2>7, <3>2, DavClientsKept
    <3> QED BY <3>2, <3>3
  <2>8. ASSUME d.read = "data", demux' = demux, o = nobody, NEW n \in Objects, W!StartClient(n)
        PROVE  DavClientsInv' /\ DavQueuedSame /\ DavStreamInv'
    <3>1. DavClientsInv' /\ DavQueuedSame /\ obj'[n].id = demux.client
          BY <2>1, <2>5, <2>6, <2>8, DavStart
    <3>2. W!ToClient(n)
          BY <2>8 DEF W!StartClient
    <3>3. DavStreamInv'
          BY <1>1, <1>2, <1>3, <2>1, <2>5, <2>8, <3>1, <3>2, DavToClient
    <3> QED BY <3>1, <3>3
  <2>9. \/ /\ d.read = "id" /\ demux' = [demux EXCEPT !.client = d.val] /\ task' = "size"
           /\ UNCHANGED <<demuxing, writing, clients, obj>>
        \/ /\ d.read = "size" /\ demux' = [demux EXCEPT !.size = d.val] /\ task' = "data"
           /\ UNCHANGED <<demuxing, writing, clients, obj>>
        \/ /\ d.read = "data" /\ demux' = demux
           /\ \/ o # nobody /\ W!ToClient(o) /\ UNCHANGED <<clients, obj>>
              \/ o = nobody /\ \E n \in Objects : W!StartClient(n)
        BY <1>4, <1>7, <2>6 DEF W!ReadDone
  <2> QED BY <2>3, <2>4, <2>7, <2>8, <2>9
<1>8. d.cancelled => UNCHANGED <<demuxing, demux, task, writing, clients, obj>>
      BY <1>4 DEF W!ReadDone
<1> QED BY <1>5, <1>6, <1>7, <1>8

LEMMA DavWriteDone ==
  ASSUME DavClientsInv, DavStreamInv, W!WriteDone
  PROVE  DavClientsInv' /\ DavQueuedSame /\ DavStreamInv'
<1>1. /\ opened' = opened /\ frames' = frames /\ pending' = pending /\ co' = co
      /\ done' = done /\ demux' = demux /\ writing # nobody /\ writing' = nobody /\ W!Demux
      BY DEF W!WriteDone, W!guest
<1>2. /\ DavTypes /\ DavPile(done) /\ DavStream(frames, co \o pending)
      /\ DavDelivered(frames, delivered, co \o pending)
      BY DEF DavStreamInv
<1>3. /\ opened = TRUE /\ task = "none" /\ ~DavLive(done) /\ demux.size # 0
      /\ DavAwaits(frames, delivered, co \o pending, "write", obj[writing].id, demux.size)
      BY <1>1 DEF DavStreamInv, DavStage, DavExpects
<1>4. demuxing' = TRUE /\ task' = "id"
      BY <1>1, <1>3 DEF W!Demux
<1>5. /\ obj[writing].id \in Ids /\ demux.size \in Nat /\ DavBegins(co \o pending)
      /\ DavInHand(delivered, co \o pending, demux.size)
      /\ DavNamed(frames, demux.size, obj[writing].id)
      BY <1>3 DEF DavAwaits
<1>6. ASSUME delivered' \in Seq(Ids \X Nat), DavDelivered(frames, delivered', co \o pending)
      PROVE  DavStreamInv'
  <2>1. DavTypes'
        BY <1>1, <1>2, <1>4, <1>6 DEF DavTypes, W!Reads
  <2>2. DavAwaits(frames', delivered', co' \o pending', task', demux'.client, demux'.size)
        BY <1>1, <1>4, <1>5 DEF DavAwaits
  <2>3. DavStage'
        BY <1>1, <1>3, <1>4, <2>2 DEF DavStage, DavExpects
  <2> QED BY <1>1, <1>2, <1>6, <2>1, <2>3 DEF DavStreamInv
<1>7. CASE /\ W!WriteFails /\ obj' = W!RemoveClient(obj, writing)
           /\ clients' = W!RemovedFrom(writing) /\ UNCHANGED delivered
  <2>1. DavStreamInv'
        BY <1>2, <1>6, <1>7 DEF DavTypes
  <2>2. /\ writing \in Objects /\ obj[writing].id # nobody /\ obj[writing].cancelled = FALSE
        /\ obj \in [Objects -> DavClients]
        BY <1>1 DEF DavClientsInv
  <2>3. obj[writing].closed = TRUE
    <3>1. obj[writing].closed
          BY <1>3, <1>7 DEF W!WriteFails
    <3>2. obj[writing].closed \in BOOLEAN
          BY <2>2 DEF DavClients
    <3> QED BY <3>1, <3>2
  <2>4. PICK o \in Objects : o = writing
        BY <2>2
  <2>5. obj[o] # W!Free
        BY <2>2, <2>4, DavConstants
  <2>6. DavClientsInv' /\ DavQueuedSame
        BY <1>1, <1>7, <2>2, <2>3, <2>4, <2>5, DavRemoveClient
  <2> QED BY <2>1, <2>6
<1>8. CASE /\ delivered' = Append(delivered, <<obj[writing].id, demux.size>>)
           /\ UNCHANGED <<clients, obj>>
  <2>1. DavClientsInv' /\ DavQueuedSame
        BY <1>1, <1>8, DavClientsKept
  <2>2. PICK e \in Ids \X Nat : e = <<obj[writing].id, demux.size>>
        BY <1>5
  <2>3. delivered \in Seq(Ids \X Nat)
        BY <1>2 DEF DavTypes
  <2>4. PICK n \in Nat : n = Len(delivered)
        BY <2>3, LenProperties
  <2>5. /\ delivered' \in Seq(Ids \X Nat) /\ Len(delivered') = n + 1 /\ delivered'[n + 1] = e
        /\ \A i \in 1 .. n : delivered'[i] = delivered[i]
        BY <1>8, <2>2, <2>3, <2>4, AppendProperties
  <2>6. e[1] = obj[writing].id /\ e[2] = demux.size
        BY <2>2
  <2>7. /\ \A i \in 1 .. n : DavNamed(frames, delivered[i][2], delivered[i][1])
        /\ \A i, j \in 1 .. n : i < j => delivered[i][2] < delivered[j][2]
        /\ \A j \in 1 .. Len(co \o pending) : DavNumber((co \o pending)[j]) =>
             DavPast(delivered, (co \o pending)[j].val)
        BY <1>2, <2>4 DEF DavDelivered
  <2>8. \A i \in 1 .. n : delivered[i][2] < demux.size
        BY <1>3, <1>5, <2>4 DEF DavInHand, DavPast
  <2>9. \A j \in 1 .. Len(co \o pending) : DavNumber((co \o pending)[j]) =>
          demux.size < (co \o pending)[j].val
        BY <1>5 DEF DavInHand, DavLater
  <2>10. \A i \in 1 .. n + 1 : i \in 1 .. n \/ i = n + 1
        OBVIOUS
  <2>11. \A i \in 1 .. n + 1 : DavNamed(frames, delivered'[i][2], delivered'[i][1])
        BY <1>5, <2>5, <2>6, <2>7, <2>10
  <2>12. \A i, j \in 1 .. n + 1 : i < j => delivered'[i][2] < delivered'[j][2]
    <3> SUFFICES ASSUME NEW i \in 1 .. n + 1, NEW j \in 1 .. n + 1, i < j
                 PROVE  delivered'[i][2] < delivered'[j][2]
        OBVIOUS
    <3>1. i \in 1 .. n
          OBVIOUS
    <3>2. CASE j \in 1 .. n
          BY <2>5, <2>7, <3>1, <3>2
    <3>3. CASE j = n + 1
          BY <2>5, <2>6, <2>8, <3>1, <3>3
    <3> QED BY <2>10, <3>2, <3>3
  <2>13. \A j \in 1 .. Len(co \o pending) : DavNumber((co \o pending)[j]) =>
           DavPast(delivered', (co \o pending)[j].val)
    <3> SUFFICES ASSUME NEW j \in 1 .. Len(co \o pending), DavNumber((co \o pending)[j])
                 PROVE  DavPast(delivered', (co \o pending)[j].val)
        OBVIOUS
    <3>1. PICK v : v = (co \o pending)[j].val
          OBVIOUS
    <3>2. DavPast(delivered, v) /\ demux.size < v
          BY <2>7, <2>9, <3>1
    <3>3. \A i \in 1 .. n : delivered[i][2] < v
          BY <2>4, <3>2 DEF DavPast
    <3>4. \A i \in 1 .. n + 1 : delivered'[i][2] < v
          BY <2>5, <2>6, <2>10, <3>2, <3>3
    <3> QED BY <2>5, <3>1, <3>4 DEF DavPast
  <2>14. DavDelivered(frames, delivered', co \o pending)
        BY <2>5, <2>11, <2>12, <2>13 DEF DavDelivered
  <2> QED BY <1>6, <2>1, <2>5, <2>14
<1> QED BY <1>7, <1>8 DEF W!WriteDone

LEMMA DavOpens ==
  ASSUME DavClientsInv, DavStreamInv, W!PortOpened
  PROVE  DavClientsInv' /\ DavQueuedSame /\ DavStreamInv'
<1>1. /\ frames' = frames /\ pending' = pending /\ co' = co /\ done' = done /\ demux' = demux
      /\ writing' = writing /\ delivered' = delivered /\ clients' = clients /\ obj' = obj
      /\ ~opened /\ opened' = TRUE
      BY DEF W!PortOpened, W!guest
<1>2. /\ DavTypes /\ DavPile(done) /\ DavStream(frames, co \o pending)
      /\ DavDelivered(frames, delivered, co \o pending)
      BY DEF DavStreamInv
<1>3. /\ task = "none" /\ writing = nobody /\ ~DavLive(done) /\ demuxing = FALSE
      /\ DavAwaits(frames, delivered, co \o pending, "id", nobody, 0)
      BY <1>1 DEF DavStreamInv, DavStage, DavExpects
<1>4. demuxing' = TRUE /\ task' = "id"
      BY <1>3 DEF W!PortOpened
<1>5. DavTypes'
      BY <1>1, <1>2, <1>4 DEF DavTypes, W!Reads
<1>6. DavAwaits(frames', delivered', co' \o pending', task', demux'.client, demux'.size)
      BY <1>1, <1>3, <1>4 DEF DavAwaits
<1>7. DavStage'
      BY <1>1, <1>3, <1>4, <1>6 DEF DavStage, DavExpects
<1>8. DavClientsInv' /\ DavQueuedSame
      BY <1>1, DavClientsKept
<1> QED BY <1>1, <1>2, <1>5, <1>7, <1>8 DEF DavStreamInv

LEMMA DavCloses ==
  ASSUME Fallible = FALSE, DavClientsInv, DavStreamInv, W!PortClosed
  PROVE  DavClientsInv' /\ DavQueuedSame /\ DavStreamInv'
<1>1. /\ frames' = frames /\ pending' = <<>> /\ co' = co /\ co = <<>> /\ demux' = demux
      /\ writing' = writing /\ delivered' = delivered /\ opened' = FALSE /\ writing = nobody
      /\ task' = "none" /\ demuxing' = FALSE
      /\ done' = [i \in DOMAIN done |-> [done[i] EXCEPT !.cancelled = TRUE]]
      BY DEF W!PortClosed, W!CancelledReads
<1>2. DavTypes /\ DavDelivered(frames, delivered, co \o pending) /\ done \in Seq(DavReads)
      BY DEF DavStreamInv, DavTypes
<1>3. done' \in Seq(DavReads) /\ DavPile(done') /\ ~DavLive(done')
      BY <1>1, <1>2, DavNoneLeft
<1>4. co' \o pending' = <<>> /\ Len(<<>>) = 0 /\ <<>> \in Seq(DavItems)
  <2>1. <<>> \in Seq(DavItems)
        OBVIOUS
  <2> QED BY <1>1, <2>1, ConcatEmptySeq, EmptySeq
<1>5. DavTypes'
      BY <1>1, <1>2, <1>3, <1>4 DEF DavTypes
<1>6. DavStream(frames', <<>>)
      BY <1>4 DEF DavStream
<1>7. DavDelivered(frames', delivered', <<>>)
      BY <1>1, <1>2, <1>4 DEF DavDelivered
<1>8. DavAwaits(frames', delivered', <<>>, "id", nobody, 0)
      BY DEF DavAwaits, DavBegins
<1>9. DavStage'
      BY <1>1, <1>3, <1>4, <1>8 DEF DavStage, DavExpects
<1>10. DavClientsInv' /\ DavQueuedSame
      BY <1>1, DavPortClosed
<1> QED BY <1>3, <1>4, <1>5, <1>6, <1>7, <1>9, <1>10 DEF DavStreamInv

DavInv == DavClientsInv /\ DavQueueInv /\ DavStreamInv

LEMMA DavInvStep ==
  ASSUME Fallible = FALSE, DavInv, [W!Next]_(W!vars)
  PROVE  DavInv'
<1>1. DavClientsInv /\ DavQueueInv /\ DavStreamInv
      BY DEF DavInv
<1>2. ASSUME opened' = opened, frames' = frames, pending' = pending, co' = co, task' = task,
             done' = done, demuxing' = demuxing, demux' = demux, writing' = writing,
             delivered' = delivered, DavWriterSame
      PROVE  DavStreamInv'
      BY <1>1, <1>2, DavStreamKept
<1>3. ASSUME writing' = writing, clients' = clients, obj' = obj
      PROVE  DavClientsInv' /\ DavQueuedSame /\ DavWriterSame
  <2>1. DavClientsInv' /\ DavQueuedSame
        BY <1>1, <1>3, DavClientsKept
  <2> QED BY <1>3, <2>1 DEF DavWriterSame
<1>4. ASSUME NEW c \in Ids, NEW size \in BOOLEAN, W!GuestWrites(c, size) PROVE DavInv'
  <2>1. /\ writing' = writing /\ clients' = clients /\ obj' = obj /\ queue' = queue
        /\ muxed' = muxed
        BY <1>4 DEF W!GuestWrites, W!output
  <2>2. DavStreamInv'
        BY <1>1, <1>4, DavGuest
  <2> QED BY <1>1, <1>3, <2>1, <2>2, DavQueueKept DEF DavInv
<1>5. CASE W!ServerSends
  <2>1. /\ writing' = writing /\ clients' = clients /\ obj' = obj /\ queue' = queue
        /\ muxed' = muxed
        BY <1>5 DEF W!ServerSends, W!output
  <2>2. DavStreamInv'
        BY <1>1, <1>5, DavSends
  <2> QED BY <1>1, <1>3, <2>1, <2>2, DavQueueKept DEF DavInv
<1>6. CASE W!CoFeeds
  <2>1. /\ writing' = writing /\ clients' = clients /\ obj' = obj /\ queue' = queue
        /\ muxed' = muxed
        BY <1>6 DEF W!CoFeeds, W!output
  <2>2. DavStreamInv'
        BY <1>1, <1>6, DavFeeds
  <2> QED BY <1>1, <1>3, <2>1, <2>2, DavQueueKept DEF DavInv
<1>7. CASE W!ReadDone
  <2>1. queue' = queue /\ muxed' = muxed
        BY <1>7 DEF W!ReadDone, W!output
  <2> QED BY <1>1, <1>7, <2>1, DavReadDone, DavQueueKept DEF DavInv
<1>8. CASE W!WriteDone
  <2>1. queue' = queue /\ muxed' = muxed
        BY <1>8 DEF W!WriteDone, W!output
  <2> QED BY <1>1, <1>8, <2>1, DavWriteDone, DavQueueKept DEF DavInv
<1>9. ASSUME NEW o \in Objects, W!ServerReplies(o) PROVE DavInv'
  <2>1. queue' = queue /\ muxed' = muxed
        BY <1>9 DEF W!ServerReplies
  <2>2. DavClientsInv' /\ DavQueuedSame /\ DavWriterSame
        BY <1>1, <1>9, DavReplies
  <2>3. DavStreamInv'
        BY <1>2, <1>9, <2>2 DEF W!ServerReplies, W!guest, W!stream
  <2> QED BY <1>1, <2>1, <2>2, <2>3, DavQueueKept DEF DavInv
<1>10. ASSUME NEW o \in Objects, W!ServerReplyCb(o) PROVE DavInv'
  <2>1. DavClientsInv' /\ DavQueuedSame /\ DavWriterSame
        BY <1>1, <1>10, DavReplyCb
  <2>2. DavQueueInv'
        BY <1>1, <1>10, <2>1, DavQueuePut
  <2>3. DavStreamInv'
        BY <1>2, <1>10, <2>1 DEF W!ServerReplyCb, W!guest, W!stream
  <2> QED BY <2>1, <2>2, <2>3 DEF DavInv
<1>11. CASE W!OutputIdle
  <2>1. DavQueueInv' /\ DavClientsInv' /\ DavWriterSame
        BY <1>1, <1>11, DavQueueTaken
  <2>2. DavStreamInv'
        BY <1>2, <1>11, <2>1 DEF W!OutputIdle, W!guest, W!stream
  <2> QED BY <2>1, <2>2 DEF DavInv
<1>12. CASE W!OutputFlushed
  <2>1. /\ writing' = writing /\ clients' = clients /\ obj' = obj /\ muxed' = muxed
        /\ queue' = [queue EXCEPT !.flushing = FALSE, !.idle = TRUE]
        BY <1>12 DEF W!OutputFlushed, W!Flushed
  <2>2. DavClientsInv' /\ DavWriterSame
        BY <1>3, <2>1
  <2>3. DavStreamInv'
        BY <1>2, <1>12, <2>2 DEF W!OutputFlushed, W!guest, W!stream
  <2>4. DavQueueInv'
    <3>1. queue \in [elems : Seq(W!Elements), flushing : BOOLEAN, idle : BOOLEAN]
          BY <1>1 DEF DavQueueInv
    <3>2. /\ queue' \in [elems : Seq(W!Elements), flushing : BOOLEAN, idle : BOOLEAN]
          /\ queue'.elems = queue.elems /\ queue'.idle = TRUE
          BY <2>1, <3>1
    <3>3. DavWhole(muxed' \o queue'.elems)
          BY <1>1, <2>1, <3>2 DEF DavQueueInv
    <3> QED BY <1>1, <2>1, <3>2, <3>3 DEF DavQueueInv
  <2> QED BY <2>2, <2>3, <2>4 DEF DavInv
<1>13. CASE W!PortOpened
  <2>1. queue' = queue /\ muxed' = muxed
        BY <1>13 DEF W!PortOpened, W!output
  <2> QED BY <1>1, <1>13, <2>1, DavOpens, DavQueueKept DEF DavInv
<1>14. CASE W!PortClosed
  <2>1. queue' = queue /\ muxed' = muxed
        BY <1>14 DEF W!PortClosed, W!output
  <2> QED BY <1>1, <1>14, <2>1, DavCloses, DavQueueKept DEF DavInv
<1>15. CASE UNCHANGED W!vars
  <2>1. /\ opened' = opened /\ frames' = frames /\ pending' = pending /\ co' = co
        /\ task' = task /\ done' = done /\ demuxing' = demuxing /\ demux' = demux
        /\ writing' = writing /\ delivered' = delivered /\ clients' = clients /\ obj' = obj
        /\ queue' = queue /\ muxed' = muxed
        BY <1>15 DEF W!vars, W!guest, W!stream, W!output
  <2> QED BY <1>1, <1>2, <1>3, <2>1, DavQueueKept DEF DavInv
<1> QED BY <1>4, <1>5, <1>6, <1>7, <1>8, <1>9, <1>10, <1>11, <1>12, <1>13, <1>14, <1>15
        DEF W!Next

LEMMA WebdavStep == [MCNext]_mcvars => [W!Next]_(W!vars)
<1> SUFFICES ASSUME [MCNext]_mcvars PROVE [W!Next]_(W!vars)
    OBVIOUS
<1>1. UNCHANGED webdavVars => UNCHANGED W!vars
      BY DEF webdavVars, W!vars, W!guest, W!stream, W!output
<1>2. CASE UNCHANGED mcvars
      BY <1>1, <1>2 DEF mcvars
<1>3. CASE MCNext
  <2>1. ASSUME NEW x \in {"usb", "smartcard", "pipe", "pulse", "record", "playback"}, On(x)
        PROVE  UNCHANGED webdavVars
        BY <2>1 DEF On
  <2> QED BY <1>1, <1>3, <2>1 DEF MCNext, W!Next
<1> QED BY <1>2, <1>3

LEMMA DavCardSame == ASSUME NEW X PROVE W!Cardinality(X) = Cardinality(X)
BY DEF W!Cardinality, Cardinality

\* What DavInv says of each property
LEMMA DavRouted == ASSUME DavStreamInv PROVE W!Routed
<1>1. delivered \in Seq(Ids \X Nat) /\ DavDelivered(frames, delivered, co \o pending)
      BY DEF DavStreamInv, DavTypes
<1>2. DOMAIN delivered = 1 .. Len(delivered)
      BY <1>1, LenProperties
<1> QED BY <1>1, <1>2 DEF W!Routed, DavDelivered, DavNamed

LEMMA DavOneReader == ASSUME DavStreamInv PROVE W!OneReader
<1> SUFFICES ASSUME opened
             PROVE  W!Cardinality({i \in DOMAIN done : ~done[i].cancelled})
                    + (IF task = "none" THEN 0 ELSE 1) + (IF writing = nobody THEN 0 ELSE 1) = 1
    BY DEF W!OneReader
<1>1. done \in Seq(DavReads) /\ DavPile(done) /\ DavStage
      BY DEF DavStreamInv, DavTypes
<1>2. PICK n \in Nat : n = Len(done) /\ DOMAIN done = 1 .. n
      BY <1>1, LenProperties
<1>3. \A i \in 1 .. n : done[i].cancelled \in BOOLEAN
  <2>1. \A i \in 1 .. n : done[i] \in DavReads
        BY <1>1, <1>2, ElementOfSeq
  <2> QED BY <2>1 DEF DavReads
<1>4. \A i \in 1 .. n : i # n => done[i].cancelled = TRUE
      BY <1>1, <1>2 DEF DavPile
<1>5. PICK x : x = {i \in DOMAIN done : ~done[i].cancelled}
      OBVIOUS
<1>6. CASE DavLive(done)
  <2>1. n \in 1 .. n /\ done[n].cancelled = FALSE
    <3>1. n # 0
          BY <1>1, <1>2, <1>6, EmptySeq DEF DavLive
    <3> QED BY <1>2, <1>6, <3>1 DEF DavLive
  <2>2. x = {n}
        BY <1>2, <1>4, <1>5, <2>1
  <2>3. W!Cardinality(x) = 1
        BY <2>2, FS_Singleton, DavCardSame
  <2>4. task = "none" /\ writing = nobody
        BY <1>1, <1>6 DEF DavStage
  <2> QED BY <1>5, <2>3, <2>4
<1>7. CASE ~DavLive(done)
  <2>1. \A i \in 1 .. n : done[i].cancelled = TRUE
    <3>1. n # 0 => done # <<>>
          BY <1>1, <1>2, EmptySeq
    <3>2. n # 0 => done[n].cancelled # FALSE
          BY <1>2, <1>7, <3>1 DEF DavLive
    <3>3. n # 0 => n \in 1 .. n
          OBVIOUS
    <3>4. n # 0 => done[n].cancelled = TRUE
          BY <1>3, <3>2, <3>3
    <3>5. \A i \in 1 .. n : n # 0
          OBVIOUS
    <3> QED BY <1>4, <3>4, <3>5
  <2>2. x = {}
        BY <1>2, <1>5, <2>1
  <2>3. W!Cardinality(x) = 0
        BY <2>2, FS_EmptySet, DavCardSame
  <2>4. (task = "none") # (writing = nobody)
        BY <1>1, <1>7 DEF DavStage
  <2> QED BY <1>5, <2>3, <2>4
<1> QED BY <1>6, <1>7

LEMMA DavMuxWhole == ASSUME DavQueueInv PROVE W!MuxWhole
<1>1. /\ queue \in [elems : Seq(W!Elements), flushing : BOOLEAN, idle : BOOLEAN]
      /\ muxed \in Seq(W!Elements) /\ DavWhole(muxed \o queue.elems)
      BY DEF DavQueueInv
<1>2. PICK s \in Seq(W!Elements) : s = muxed \o queue.elems
      BY <1>1, ConcatProperties
<1>3. PICK n \in Nat : n = Len(s) /\ DOMAIN s = 1 .. n
      BY LenProperties
<1>4. \A i \in 1 .. n : s[i].part = DavPart((i - 1) % 3) /\ s[i].obj = s[i - ((i - 1) % 3)].obj
      BY <1>1, <1>2, <1>3 DEF DavWhole
<1>5. ASSUME NEW i \in 1 .. n
      PROVE  DavPart((i - 1) % 3) = <<"id", "size", "data">>[1 + ((i - 1) % 3)]
  <2>1. PICK k \in 0 .. 2 : k = (i - 1) % 3
        OBVIOUS
  <2>2. k = 0 \/ k = 1 \/ k = 2
        OBVIOUS
  <2> QED BY <2>1, <2>2 DEF DavPart
<1>6. /\ queue.elems # <<>> => queue.idle \/ queue.flushing
      /\ \A i \in DOMAIN queue.elems : obj[queue.elems[i].obj].read = "queued"
  <2>1. DOMAIN queue.elems = 1 .. Len(queue.elems)
        BY <1>1, LenProperties
  <2> QED BY <2>1 DEF DavQueueInv
<1>7. \A i \in DOMAIN s : /\ s[i].part = <<"id", "size", "data">>[1 + ((i - 1) % 3)]
                          /\ s[i].obj = s[i - ((i - 1) % 3)].obj
      BY <1>3, <1>4, <1>5
<1> QED BY <1>2, <1>6, <1>7 DEF W!MuxWhole

LEMMA DavClientsLive == ASSUME DavClientsInv PROVE W!ClientsLive
<1>1. /\ writing \in Objects \cup {nobody} /\ clients \in [Ids -> Objects \cup {nobody}]
      /\ obj \in [Objects -> DavClients]
      /\ \A i \in Ids : clients[i] # nobody =>
           obj[clients[i]].id = i /\ obj[clients[i]].cancelled = FALSE
      /\ writing # nobody => obj[writing].id # nobody /\ obj[writing].cancelled = FALSE
      BY DEF DavClientsInv
<1>2. ASSUME NEW o \in Objects, obj[o].id # nobody
      PROVE  /\ obj[o].refs > 0
             /\ ~obj[o].cancelled => clients[obj[o].id] = o
  <2>1. obj[o] # W!Free
        BY <1>2, DavConstants
  <2>2. obj[o].cancelled \in BOOLEAN
        BY <1>1 DEF DavClients
  <2>3. /\ obj[o].refs = IF obj[o].cancelled = TRUE THEN 1 ELSE 2
        /\ obj[o].cancelled = FALSE => clients[obj[o].id] = o
        BY <2>1, DavAlive
  <2>4. obj[o].refs = 1 \/ obj[o].refs = 2
        BY <2>3
  <2>5. obj[o].refs > 0
        BY <2>4
  <2>6. ~obj[o].cancelled => clients[obj[o].id] = o
        BY <2>2, <2>3
  <2> QED BY <2>5, <2>6
<1>3. writing # nobody => obj[writing].refs > 0
      BY <1>1, <1>2
<1>4. ASSUME NEW i \in Ids, clients[i] # nobody
      PROVE  obj[clients[i]].id = i /\ obj[clients[i]].refs > 0 /\ ~obj[clients[i]].cancelled
  <2>1. clients[i] \in Objects /\ obj[clients[i]].id = i /\ obj[clients[i]].cancelled = FALSE
        BY <1>1, <1>4
  <2>2. i # nobody
        BY DavConstants
  <2> QED BY <1>2, <2>1, <2>2
<1> QED BY <1>2, <1>3, <1>4 DEF W!ClientsLive

\* Folder sharing (data_read_cb, server_reply_cb, port_event), for any clients, frames and
\* answers, with the port opened and closed any number of times, if it is not closed while
\* a frame is written and the WebDAV server takes every stream: a client is given only
\* frames the guest wrote for it, in order and at most once; one step of the demultiplexer
\* is under way while the port is open; answers go out whole; and no client that is listed
\* or written to was freed.
THEOREM WebdavSafeTheorem == Fallible = FALSE /\ MCSpec => []WebdavSafe
<1>1. MCInit => DavInv
      BY InitDavClients, InitDavQueue, InitDavStream DEF MCInit, DavInv
<1>2. Fallible = FALSE /\ DavInv /\ [MCNext]_mcvars => DavInv'
      BY WebdavStep, DavInvStep
<1>3. DavInv => WebdavSafe
      BY DavRouted, DavOneReader, DavMuxWhole, DavClientsLive DEF DavInv, WebdavSafe
<1>4. Fallible = FALSE => (MCInit /\ [][MCNext]_mcvars => []WebdavSafe)
  <2> SUFFICES ASSUME Fallible = FALSE PROVE MCInit /\ [][MCNext]_mcvars => []WebdavSafe
      OBVIOUS
  <2>1. DavInv /\ [MCNext]_mcvars => DavInv'
        BY <1>2
  <2> QED BY <1>1, <1>3, <2>1, PTL
<1> QED BY <1>4 DEF MCSpec
=============================================================================
