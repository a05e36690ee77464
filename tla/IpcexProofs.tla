---------------------------- MODULE IpcexProofs ----------------------------
(***************************************************************************)
(* The services on the dual-core queues, for every number of blocks,       *)
(* setters and variables, every size of the queues and every build: a      *)
(* block has one owner at a time, a shared variable ends with the value of *)
(* its owner on both cores, and the LED blinks in turn.                    *)
(***************************************************************************)
EXTENDS Ipcex, FiniteSetTheorems, TLAPS

(***************************************************************************)
(* Who has a block: a setter, a dispatch task, or a message.               *)
(***************************************************************************)
SetterHas(t, b) == sblk[t] = b
DispatcherHas(c, b) == dpc[c] # "pop" /\ Carries(popped[Peer(c)], b)
MessageHas(c, k, b) == k \in 1 .. Len(chan[c]) /\ Carries(chan[c][k], b)

(* No two of them have the same block.                                     *)
Unique ==
    \A b \in Block :
      /\ \A t, u \in Setter : SetterHas(t, b) /\ SetterHas(u, b) => t = u
      /\ \A t \in Setter, c \in Core : SetterHas(t, b) => ~DispatcherHas(c, b)
      /\ \A t \in Setter, c \in Core, k \in Nat : SetterHas(t, b) => ~MessageHas(c, k, b)
      /\ \A c, d \in Core : DispatcherHas(c, b) /\ DispatcherHas(d, b) => c = d
      /\ \A c, d \in Core, k \in Nat : DispatcherHas(c, b) => ~MessageHas(d, k, b)
      /\ \A c, d \in Core, k, l \in Nat :
           MessageHas(c, k, b) /\ MessageHas(d, l, b) => c = d /\ k = l

Held(b) ==
    \/ \E t \in Setter : SetterHas(t, b)
    \/ \E c \in Core : DispatcherHas(c, b)
    \/ \E c \in Core, k \in Nat : MessageHas(c, k, b)

(* Who has a block has an allocated one, and under an RTOS an allocated    *)
(* block is with somebody.                                                 *)
Owned ==
    \A b \in Block : /\ Held(b) => b \in used
                     /\ build.rtos /\ b \in used => Held(b)

(* What the places of setters and dispatch tasks say of their block.       *)
Places ==
    /\ \A t \in Setter : spc[t] = "push" <=> sblk[t] # NoBlock
    /\ \A c \in Core : dpc[c] # "pop" => popped[Peer(c)] \in Message
    /\ \A c \in Core : dpc[c] \in {"return", "asleep"} => popped[Peer(c)].id = "GBLUPDATE"
    /\ \A c \in Core : dpc[c] = "asleep" => build.rtos
    /\ \A b \in used : cell[b] \in [index : Index, val : Val]

Inv == TypeOK /\ Unique /\ Owned /\ Places

LEMMA CorePeer ==
    ASSUME NEW c \in Core, NEW d \in Core
    PROVE  /\ Peer(c) \in Core
           /\ Peer(Peer(c)) = c
           /\ Peer(c) = Peer(d) => c = d
  BY IpcexAssumption DEF Core, Peer

LEMMA BuildTyped ==
    ASSUME TypeOK
    PROVE  /\ build.rtos \in BOOLEAN /\ build.setters \subseteq Setter
           /\ build.blinkers \subseteq Core /\ build.heap \subseteq Block
           /\ used \subseteq Block /\ Count \in Nat \ {0}
  BY IpcexAssumption DEF TypeOK

LEMMA MessageFields ==
    ASSUME NEW m \in Message
    PROVE  /\ m.id \in {"GBLUPDATE", "FREEMEM", "BLINKY"}
           /\ m.id # "BLINKY" => m.data \in Block
           /\ m.id = "BLINKY" => m.data \in {0, 1}
  BY DEF Message

(***************************************************************************)
(* What a message does to the queue it is sent to or taken from.           *)
(***************************************************************************)
LEMMA SendStep ==
    ASSUME TypeOK, NEW c \in Core, NEW m \in Message, Send(c, m)
    PROVE  /\ chan' \in [Core -> Seq(Message)] /\ \A d \in Core : Len(chan'[d]) <= Count
           /\ popped' = popped
           /\ \A d \in Core, k \in Nat, b \in Block :
                MessageHas(d, k, b)' <=>
                    \/ MessageHas(d, k, b)
                    \/ d = c /\ k = Len(chan[c]) + 1 /\ Carries(m, b)
           /\ Len(chan[c]) + 1 \in Nat
           /\ \A k \in Nat, b \in Block : MessageHas(c, k, b) => k # Len(chan[c]) + 1
<1>1. /\ chan \in [Core -> Seq(Message)] /\ Len(chan[c]) < Count /\ Count \in Nat
      /\ chan' = [chan EXCEPT ![c] = Append(chan[c], m)] /\ popped' = popped
      /\ \A d \in Core : Len(chan[d]) <= Count
  BY BuildTyped DEF TypeOK, Send
<1>2. /\ chan[c] \in Seq(Message) /\ Len(chan[c]) \in Nat
      /\ chan'[c] = Append(chan[c], m)
      /\ \A d \in Core : d # c => chan'[d] = chan[d]
  BY <1>1
<1>3. chan' \in [Core -> Seq(Message)]
  BY <1>1, <1>2
<1>4. /\ Len(chan'[c]) = Len(chan[c]) + 1
      /\ \A k \in 1 .. Len(chan[c]) : chan'[c][k] = chan[c][k]
      /\ chan'[c][Len(chan[c]) + 1] = m
  BY <1>2
<1>5. \A d \in Core : Len(chan'[d]) <= Count
  BY <1>1, <1>2, <1>4
<1>6. \A d \in Core, k \in Nat, b \in Block :
         MessageHas(d, k, b)' <=>
             \/ MessageHas(d, k, b)
             \/ d = c /\ k = Len(chan[c]) + 1 /\ Carries(m, b)
  <2> SUFFICES ASSUME NEW d \in Core, NEW k \in Nat, NEW b \in Block
               PROVE  MessageHas(d, k, b)' <=>
                          \/ MessageHas(d, k, b)
                          \/ d = c /\ k = Len(chan[c]) + 1 /\ Carries(m, b)
    OBVIOUS
  <2>1. CASE d # c
    BY <1>2, <2>1 DEF MessageHas, Carries
  <2>2. CASE d = c /\ k = Len(chan[c]) + 1
    <3>1. k \in 1 .. Len(chan'[c]) /\ k \notin 1 .. Len(chan[c])
      BY <1>2, <1>4, <2>2
    <3> QED
      BY <1>4, <2>2, <3>1 DEF MessageHas, Carries
  <2>3. CASE d = c /\ k # Len(chan[c]) + 1
    <3>1. k \in 1 .. Len(chan'[c]) <=> k \in 1 .. Len(chan[c])
      BY <1>2, <1>4, <2>3
    <3> QED
      BY <1>4, <2>3, <3>1 DEF MessageHas, Carries
  <2> QED
    BY <2>1, <2>2, <2>3
<1>7. \A k \in Nat, b \in Block : MessageHas(c, k, b) => k # Len(chan[c]) + 1
  BY <1>2 DEF MessageHas
<1> QED
  BY <1>1, <1>2, <1>3, <1>5, <1>6, <1>7

LEMMA RecvStep ==
    ASSUME TypeOK, NEW c \in Core, Recv(c)
    PROVE  /\ chan' \in [Core -> Seq(Message)] /\ \A d \in Core : Len(chan'[d]) <= Count
           /\ popped' \in [Core -> Message \union {NoMsg}]
           /\ popped'[c] \in Message
           /\ \A d \in Core : d # c => popped'[d] = popped[d]
           /\ \A b \in Block : Carries(popped'[c], b) <=> MessageHas(c, 1, b)
           /\ \A k \in Nat, b \in Block :
                MessageHas(c, k, b)' <=> k # 0 /\ MessageHas(c, k + 1, b)
           /\ \A d \in Core, k \in Nat, b \in Block :
                d # c => (MessageHas(d, k, b)' <=> MessageHas(d, k, b))
<1>1. /\ chan \in [Core -> Seq(Message)] /\ chan[c] # <<>> /\ Count \in Nat
      /\ chan' = [chan EXCEPT ![c] = Tail(chan[c])]
      /\ popped \in [Core -> Message \union {NoMsg}]
      /\ popped' = [popped EXCEPT ![c] = Head(chan[c])]
      /\ \A d \in Core : Len(chan[d]) <= Count
  BY BuildTyped DEF TypeOK, Recv
<1>2. /\ chan[c] \in Seq(Message) /\ Len(chan[c]) \in Nat \ {0}
      /\ chan'[c] = Tail(chan[c]) /\ popped'[c] = Head(chan[c])
      /\ \A d \in Core : d # c => chan'[d] = chan[d] /\ popped'[d] = popped[d]
  BY <1>1
<1>3. /\ chan'[c] \in Seq(Message) /\ Len(chan'[c]) = Len(chan[c]) - 1
      /\ \A k \in 1 .. Len(chan[c]) - 1 : chan'[c][k] = chan[c][k + 1]
      /\ popped'[c] = chan[c][1] /\ popped'[c] \in Message
  BY <1>1, <1>2
<1>4. chan' \in [Core -> Seq(Message)] /\ popped' \in [Core -> Message \union {NoMsg}]
  BY <1>1, <1>2, <1>3
<1>5. \A d \in Core : Len(chan'[d]) <= Count
  BY <1>1, <1>2, <1>3
<1>6. \A b \in Block : Carries(popped'[c], b) <=> MessageHas(c, 1, b)
  BY <1>2, <1>3 DEF MessageHas, Carries
<1>7. ASSUME NEW k \in Nat, NEW b \in Block
      PROVE  MessageHas(c, k, b)' <=> k # 0 /\ MessageHas(c, k + 1, b)
  <2>1. k \in 1 .. Len(chan'[c]) <=> k # 0 /\ k + 1 \in 1 .. Len(chan[c])
    BY <1>2, <1>3
  <2>2. k \in 1 .. Len(chan'[c]) => chan'[c][k] = chan[c][k + 1]
    BY <1>2, <1>3
  <2> QED
    BY <2>1, <2>2 DEF MessageHas, Carries
<1>8. ASSUME NEW d \in Core, NEW k \in Nat, NEW b \in Block, d # c
      PROVE  MessageHas(d, k, b)' <=> MessageHas(d, k, b)
  BY <1>2, <1>8 DEF MessageHas, Carries
<1> QED
  BY <1>2, <1>3, <1>4, <1>5, <1>6, <1>7, <1>8

(***************************************************************************)
(* How blocks change hands.  Each lemma is about one way and says that     *)
(* nobody shares a block afterwards and that the accounts still agree.     *)
(***************************************************************************)
SettersStay == \A t \in Setter, b \in Block : SetterHas(t, b)' <=> SetterHas(t, b)
DispatchersStay == \A c \in Core, b \in Block : DispatcherHas(c, b)' <=> DispatcherHas(c, b)
MessagesStay ==
    \A c \in Core, k \in Nat, b \in Block : MessageHas(c, k, b)' <=> MessageHas(c, k, b)

LEMMA Stay ==
    ASSUME Unique, Owned, SettersStay, DispatchersStay, MessagesStay, used' = used, build' = build
    PROVE  Unique' /\ Owned'
<1>1. Unique'
  BY DEF Unique, SettersStay, DispatchersStay, MessagesStay
<1>2. \A b \in Block : Held(b)' <=> Held(b)
  BY DEF Held, SettersStay, DispatchersStay, MessagesStay
<1>3. Owned'
  BY <1>2 DEF Owned
<1> QED
  BY <1>1, <1>3

(* malloc: a setter gets a block that nobody has.                          *)
LEMMA Malloc ==
    ASSUME Unique, Owned, NEW t \in Setter, NEW x \in Block, x \notin used,
           \A u \in Setter, b \in Block :
               SetterHas(u, b)' <=> SetterHas(u, b) \/ (u = t /\ b = x),
           DispatchersStay, MessagesStay, used' = used \union {x}, build' = build
    PROVE  Unique' /\ Owned'
<1>1. ~Held(x)
  BY DEF Owned
<1>2. Unique'
  BY <1>1 DEF Unique, DispatchersStay, MessagesStay, Held
<1>3. \A b \in Block : Held(b)' <=> Held(b) \/ b = x
  BY DEF Held, DispatchersStay, MessagesStay
<1>4. Owned'
  BY <1>3 DEF Owned
<1> QED
  BY <1>2, <1>4

(* A setter puts its block into a message.                                 *)
LEMMA SetterSends ==
    ASSUME Unique, Owned, NEW t \in Setter, NEW x \in Block, SetterHas(t, x),
           \A u \in Setter, b \in Block : SetterHas(u, b)' <=> SetterHas(u, b) /\ u # t,
           DispatchersStay, NEW c \in Core, NEW n \in Nat,
           \A b \in Block : ~MessageHas(c, n, b),
           \A d \in Core, k \in Nat, b \in Block :
               MessageHas(d, k, b)' <=> MessageHas(d, k, b) \/ (d = c /\ k = n /\ b = x),
           used' = used, build' = build
    PROVE  Unique' /\ Owned'
<1>1. \A b \in Block : SetterHas(t, b) => b = x
  BY DEF SetterHas
<1>2. Unique'
  BY <1>1 DEF Unique, DispatchersStay
<1>3. \A b \in Block : Held(b)' <=> Held(b)
  BY <1>1 DEF Held, DispatchersStay
<1>4. Owned'
  BY <1>3 DEF Owned
<1> QED
  BY <1>2, <1>4

(* A setter whose push has failed frees its block.                         *)
LEMMA SetterFrees ==
    ASSUME Unique, Owned, NEW t \in Setter, NEW x \in Block, SetterHas(t, x),
           \A u \in Setter, b \in Block : SetterHas(u, b)' <=> SetterHas(u, b) /\ u # t,
           DispatchersStay, MessagesStay, used' = used \ {x}, build' = build
    PROVE  Unique' /\ Owned'
<1>1. \A b \in Block : SetterHas(t, b) => b = x
  BY DEF SetterHas
<1>2. Unique'
  BY DEF Unique, DispatchersStay, MessagesStay
<1>3. \A b \in Block : Held(b)' <=> Held(b) /\ b # x
  BY <1>1 DEF Held, DispatchersStay, MessagesStay, Unique
<1>4. Owned'
  BY <1>3 DEF Owned
<1> QED
  BY <1>2, <1>4

(* A dispatch task takes the oldest message of a queue.                    *)
LEMMA DispatcherTakes ==
    ASSUME Unique, Owned, SettersStay, NEW c \in Core, NEW e \in Core,
           \A b \in Block : ~DispatcherHas(c, b),
           \A b \in Block : DispatcherHas(c, b)' <=> MessageHas(e, 1, b),
           \A d \in Core, b \in Block : d # c => (DispatcherHas(d, b)' <=> DispatcherHas(d, b)),
           \A k \in Nat, b \in Block :
               MessageHas(e, k, b)' <=> k # 0 /\ MessageHas(e, k + 1, b),
           \A d \in Core, k \in Nat, b \in Block :
               d # e => (MessageHas(d, k, b)' <=> MessageHas(d, k, b)),
           used' = used, build' = build
    PROVE  Unique' /\ Owned'
<1>1. \A k \in Nat : k + 1 \in Nat /\ (k # 0 => k + 1 # 1)
  OBVIOUS
<1>2. ASSUME NEW b \in Block
      PROVE  /\ \A t, u \in Setter : SetterHas(t, b)' /\ SetterHas(u, b)' => t = u
             /\ \A t \in Setter, d \in Core : SetterHas(t, b)' => ~DispatcherHas(d, b)'
             /\ \A d, f \in Core : DispatcherHas(d, b)' /\ DispatcherHas(f, b)' => d = f
  BY DEF Unique, SettersStay
<1>3. ASSUME NEW b \in Block
      PROVE  /\ \A t \in Setter, d \in Core, k \in Nat :
                   SetterHas(t, b)' => ~MessageHas(d, k, b)'
             /\ \A f, d \in Core, k \in Nat : DispatcherHas(f, b)' => ~MessageHas(d, k, b)'
  BY <1>1 DEF Unique, SettersStay
<1>4. ASSUME NEW b \in Block, NEW f \in Core, NEW d \in Core, NEW k \in Nat, NEW l \in Nat,
             MessageHas(f, k, b)', MessageHas(d, l, b)'
      PROVE  f = d /\ k = l
  <2>1. f = e /\ d # e => FALSE
    BY <1>1, <1>4 DEF Unique
  <2>2. f # e /\ d = e => FALSE
    BY <1>1, <1>4 DEF Unique
  <2>3. f # e /\ d # e => f = d /\ k = l
    BY <1>4 DEF Unique
  <2>4. f = e /\ d = e => k + 1 = l + 1
    BY <1>1, <1>4 DEF Unique
  <2> QED
    BY <2>1, <2>2, <2>3, <2>4
<1>5. Unique'
  BY <1>2, <1>3, <1>4 DEF Unique
<1>6. ASSUME NEW b \in Block
      PROVE  Held(b)' <=> Held(b)
  <2>1. ASSUME NEW k \in Nat, MessageHas(e, k, b)
        PROVE  Held(b)'
    <3>1. CASE k = 1
      BY <2>1, <3>1 DEF Held
    <3>2. CASE k # 1
      <4>1. k # 0
        BY <2>1 DEF MessageHas
      <4>2. k - 1 \in Nat /\ k - 1 # 0 /\ (k - 1) + 1 = k
        BY <3>2, <4>1
      <4>3. MessageHas(e, k - 1, b)'
        BY <2>1, <4>2
      <4> QED
        BY <4>2, <4>3 DEF Held
    <3> QED
      BY <3>1, <3>2
  <2>2. Held(b) => Held(b)'
    BY <2>1 DEF Held, SettersStay
  <2>3. Held(b)' => Held(b)
    <3>1. 1 \in Nat
      OBVIOUS
    <3> QED
      BY <1>1, <3>1 DEF Held, SettersStay
  <2> QED
    BY <2>2, <2>3
<1>7. Owned'
  BY <1>6 DEF Owned
<1> QED
  BY <1>5, <1>7

(* A dispatch task sends the block back that it has.                       *)
LEMMA DispatcherSends ==
    ASSUME Unique, Owned, NEW c \in Core, NEW x \in Block, DispatcherHas(c, x),
           SettersStay,
           \A d \in Core, b \in Block : DispatcherHas(d, b)' <=> DispatcherHas(d, b) /\ d # c,
           NEW e \in Core, NEW n \in Nat, \A b \in Block : ~MessageHas(e, n, b),
           \A d \in Core, k \in Nat, b \in Block :
               MessageHas(d, k, b)' <=> MessageHas(d, k, b) \/ (d = e /\ k = n /\ b = x),
           used' = used, build' = build
    PROVE  Unique' /\ Owned'
<1>1. \A b \in Block : DispatcherHas(c, b) => b = x
  BY DEF DispatcherHas, Carries
<1>2. Unique'
  BY <1>1 DEF Unique, SettersStay
<1>3. \A b \in Block : Held(b)' <=> Held(b)
  BY <1>1 DEF Held, SettersStay
<1>4. Owned'
  BY <1>3 DEF Owned
<1> QED
  BY <1>2, <1>4

(* A dispatch task frees the block it has, or, in a stand-alone build,     *)
(* fails to send it back.                                                  *)
LEMMA DispatcherDrops ==
    ASSUME Unique, Owned, NEW c \in Core, NEW x \in Block, DispatcherHas(c, x),
           SettersStay, MessagesStay,
           \A d \in Core, b \in Block : DispatcherHas(d, b)' <=> DispatcherHas(d, b) /\ d # c,
           used' = used \ {x} \/ (used' = used /\ ~build.rtos), build' = build
    PROVE  Unique' /\ Owned'
<1>1. \A b \in Block : DispatcherHas(c, b) => b = x
  BY DEF DispatcherHas, Carries
<1>2. Unique'
  BY DEF Unique, SettersStay, MessagesStay
<1>3. \A b \in Block : Held(b)' <=> Held(b) /\ b # x
  BY <1>1 DEF Held, SettersStay, MessagesStay, Unique
<1>4. Owned'
  BY <1>3 DEF Owned
<1> QED
  BY <1>2, <1>4

(***************************************************************************)
(* Every step keeps the invariant.                                         *)
(***************************************************************************)
LEMMA SameHolders ==
    /\ UNCHANGED sblk => SettersStay
    /\ UNCHANGED <<dpc, popped>> => DispatchersStay
    /\ UNCHANGED chan => MessagesStay
<1>1. UNCHANGED sblk => SettersStay
  BY DEF SettersStay, SetterHas
<1>2. UNCHANGED <<dpc, popped>> => DispatchersStay
  BY DEF DispatchersStay, DispatcherHas, Carries, Peer
<1>3. UNCHANGED chan => MessagesStay
  BY DEF MessagesStay, MessageHas, Carries
<1> QED
  BY <1>1, <1>2, <1>3

(* The end of a call of ipcex_setGblVal takes the block from the setter.   *)
LEMMA SetterDone ==
    ASSUME TypeOK, Places, NEW t \in Setter, spc[t] = "push", NEW r \in {0, 1}, SetDone(t, r)
    PROVE  /\ sblk[t] \in Block /\ SetterHas(t, sblk[t])
           /\ \A u \in Setter, b \in Block : SetterHas(u, b)' <=> SetterHas(u, b) /\ u # t
           /\ \A u \in Setter : spc'[u] = "push" <=> sblk'[u] # NoBlock
           /\ spc' \in [Setter -> {"idle", "push"}]
           /\ sblk' \in [Setter -> Block \union {NoBlock}]
           /\ sidx' \in [Setter -> Index \union {NoBlock}]
           /\ res' \in [Index -> {0, 1}]
<1>1. /\ spc \in [Setter -> {"idle", "push"}] /\ spc' = [spc EXCEPT ![t] = "idle"]
      /\ sblk \in [Setter -> Block \union {NoBlock}] /\ sblk' = [sblk EXCEPT ![t] = NoBlock]
      /\ sidx \in [Setter -> Index \union {NoBlock}] /\ sidx' = [sidx EXCEPT ![t] = NoBlock]
      /\ res \in [Index -> {0, 1}] /\ res' = [res EXCEPT ![sidx[t]] = r]
  BY DEF TypeOK, SetDone
<1>2. NoBlock \notin Block /\ sblk[t] # NoBlock
      /\ \A u \in Setter : spc[u] = "push" <=> sblk[u] # NoBlock
  BY IpcexAssumption DEF Places
<1>3. sblk[t] \in Block /\ SetterHas(t, sblk[t])
  BY <1>1, <1>2 DEF SetterHas
<1>4. \A u \in Setter, b \in Block : SetterHas(u, b)' <=> SetterHas(u, b) /\ u # t
  BY <1>1, <1>2 DEF SetterHas
<1>5. \A u \in Setter : spc'[u] = "push" <=> sblk'[u] # NoBlock
  BY <1>1, <1>2
<1>6. /\ spc' \in [Setter -> {"idle", "push"}]
      /\ sblk' \in [Setter -> Block \union {NoBlock}]
      /\ sidx' \in [Setter -> Index \union {NoBlock}]
  BY <1>1
<1>7. res' \in [Index -> {0, 1}]
  BY <1>1
<1> QED
  BY <1>3, <1>4, <1>5, <1>6, <1>7

(* free takes a block out of use.                                          *)
LEMMA FreeTyped ==
    ASSUME TypeOK, Places, NEW b \in Block, Free(b)
    PROVE  /\ used' = used \ {b} /\ used' \subseteq build.heap
           /\ cell' \in [Block -> [index : Index, val : Val] \union {NoMsg}]
           /\ \A x \in used' : cell'[x] \in [index : Index, val : Val]
<1>1. /\ used' = used \ {b} /\ cell' = [cell EXCEPT ![b] = NoMsg]
      /\ cell \in [Block -> [index : Index, val : Val] \union {NoMsg}]
      /\ used \subseteq build.heap /\ used \subseteq Block
      /\ \A x \in used : cell[x] \in [index : Index, val : Val]
  BY BuildTyped DEF TypeOK, Free, Places
<1> DEFINE R == [index : Index, val : Val]
<1> HIDE DEF R
<1>2. cell' \in [Block -> R \union {NoMsg}]
  BY <1>1 DEF R
<1>3. \A x \in used' : cell'[x] \in R
  BY <1>1 DEF R
<1> QED
  BY <1>1, <1>2, <1>3 DEF R

LEMMA SetStepInv ==
    ASSUME Inv, NEW t \in build.setters, Set(t)
    PROVE  Inv'
<1> DEFINE c == SetterCore[t]
<1> USE DEF Inv
<1>1. t \in Setter /\ c \in Core /\ build' = build /\ NoBlock \notin Block
  BY BuildTyped, IpcexAssumption DEF Set
<1> HIDE DEF c
<1>2. ASSUME NEW i \in Index, SetNoMem(t, c, i)
      PROVE  Inv'
  <2>1. /\ UNCHANGED <<queues, heap, gblCfg, dpc, spc, sblk, sidx, leds>>
        /\ res' = [res EXCEPT ![i] = 1]
    BY <1>2 DEF SetNoMem
  <2>2. Unique' /\ Owned'
    BY <1>1, <2>1, Stay, SameHolders DEF queues, heap
  <2>3. res' \in [Index -> {0, 1}]
    BY <2>1 DEF TypeOK
  <2>4. TypeOK' /\ Places'
    BY <1>1, <2>1, <2>3 DEF TypeOK, Places, queues, heap, leds, Peer
  <2> QED
    BY <2>2, <2>4
<1>3. ASSUME NEW i \in Index, NEW v \in Val, SetAlloc(t, c, i, v)
      PROVE  Inv'
  <2>1. PICK b \in build.heap \ used :
           /\ used' = used \union {b}
           /\ cell' = [cell EXCEPT ![b] = [index |-> i, val |-> v]]
           /\ sblk' = [sblk EXCEPT ![t] = b]
    BY <1>3 DEF SetAlloc
  <2>2. /\ spc[t] = "idle" /\ spc' = [spc EXCEPT ![t] = "push"]
        /\ sidx' = [sidx EXCEPT ![t] = i]
        /\ gblCfg' = [gblCfg EXCEPT ![c][i] = v]
        /\ UNCHANGED <<queues, dpc, res, leds>>
    BY <1>3 DEF SetAlloc
  <2>3. b \in Block /\ b \notin used /\ b # NoBlock
    BY <1>1, <2>1, BuildTyped
  <2>4. /\ sblk \in [Setter -> Block \union {NoBlock}] /\ sblk[t] = NoBlock
        /\ \A u \in Setter : spc[u] = "push" <=> sblk[u] # NoBlock
    BY <1>1, <2>2 DEF TypeOK, Places
  <2>5. \A u \in Setter, x \in Block :
           SetterHas(u, x)' <=> SetterHas(u, x) \/ (u = t /\ x = b)
    BY <1>1, <2>1, <2>3, <2>4 DEF SetterHas
  <2>6. Unique' /\ Owned'
    BY <1>1, <2>1, <2>2, <2>3, <2>5, Malloc, SameHolders DEF queues
  <2>7. /\ sblk' \in [Setter -> Block \union {NoBlock}]
        /\ spc' \in [Setter -> {"idle", "push"}]
        /\ sidx' \in [Setter -> Index \union {NoBlock}]
    BY <2>1, <2>2, <2>3 DEF TypeOK
  <2>8. gblCfg' \in [Core -> [Index -> Val]]
    BY <1>1, <2>2 DEF TypeOK
  <2>9. used' \subseteq build.heap
    BY <2>1 DEF TypeOK
  <2> DEFINE R == [index : Index, val : Val]
  <2>10. /\ cell \in [Block -> R \union {NoMsg}] /\ [index |-> i, val |-> v] \in R
         /\ \A x \in used : cell[x] \in R
         /\ used \subseteq Block
    BY BuildTyped DEF TypeOK, Places
  <2> HIDE DEF R
  <2>11. /\ cell' \in [Block -> R \union {NoMsg}]
         /\ \A x \in used' : cell'[x] \in R
    BY <2>1, <2>3, <2>10
  <2>12. \A u \in Setter : spc'[u] = "push" <=> sblk'[u] # NoBlock
    BY <1>1, <2>1, <2>2, <2>3, <2>4 DEF TypeOK
  <2>13. TypeOK'
    BY <1>1, <2>2, <2>7, <2>8, <2>9, <2>11 DEF TypeOK, R, queues, leds
  <2>14. Places'
    BY <1>1, <2>2, <2>11, <2>12 DEF Places, R, queues, Peer
  <2> QED
    BY <2>6, <2>13, <2>14
<1>4. CASE SetPush(t, c)
  <2> DEFINE m == [id |-> "GBLUPDATE", data |-> sblk[t]]
  <2>1. /\ spc[t] = "push" /\ Send(c, m) /\ SetDone(t, 0)
        /\ UNCHANGED <<heap, gblCfg, dpc, leds>>
    BY <1>4 DEF SetPush
  <2>2. /\ sblk[t] \in Block /\ SetterHas(t, sblk[t])
        /\ \A u \in Setter, b \in Block : SetterHas(u, b)' <=> SetterHas(u, b) /\ u # t
        /\ \A u \in Setter : spc'[u] = "push" <=> sblk'[u] # NoBlock
        /\ spc' \in [Setter -> {"idle", "push"}]
        /\ sblk' \in [Setter -> Block \union {NoBlock}]
        /\ sidx' \in [Setter -> Index \union {NoBlock}]
        /\ res' \in [Index -> {0, 1}]
    BY <1>1, <2>1, SetterDone
  <2>3. m \in Message /\ \A b \in Block : Carries(m, b) <=> b = sblk[t]
    BY <2>2 DEF Message, Carries
  <2> HIDE DEF m
  <2>4. /\ chan' \in [Core -> Seq(Message)] /\ \A d \in Core : Len(chan'[d]) <= Count
        /\ popped' = popped
        /\ \A d \in Core, k \in Nat, b \in Block :
             MessageHas(d, k, b)' <=>
                 MessageHas(d, k, b) \/ (d = c /\ k = Len(chan[c]) + 1 /\ Carries(m, b))
        /\ Len(chan[c]) + 1 \in Nat
        /\ \A k \in Nat, b \in Block : MessageHas(c, k, b) => k # Len(chan[c]) + 1
    BY <1>1, <2>1, <2>3, SendStep
  <2>5. \A b \in Block : ~MessageHas(c, Len(chan[c]) + 1, b)
    BY <2>4
  <2>6. DispatchersStay /\ used' = used
    BY <2>1, <2>4, SameHolders DEF heap
  <2>7. \A d \in Core, k \in Nat, b \in Block :
           MessageHas(d, k, b)' <=>
               MessageHas(d, k, b) \/ (d = c /\ k = Len(chan[c]) + 1 /\ b = sblk[t])
    BY <2>3, <2>4
  <2>8. Unique' /\ Owned'
    <3> DEFINE n == Len(chan[c]) + 1
               x == sblk[t]
    <3>1. n \in Nat /\ x \in Block /\ SetterHas(t, x)
      BY <2>2, <2>4
    <3>2. \A b \in Block : ~MessageHas(c, n, b)
      BY <2>5
    <3>3. \A d \in Core, k \in Nat, b \in Block :
             MessageHas(d, k, b)' <=> MessageHas(d, k, b) \/ (d = c /\ k = n /\ b = x)
      BY <2>7
    <3>4. \A u \in Setter, b \in Block : SetterHas(u, b)' <=> SetterHas(u, b) /\ u # t
      BY <2>2
    <3> HIDE DEF n, x
    <3> QED
      BY <1>1, <2>6, <3>1, <3>2, <3>3, <3>4, SetterSends
  <2>9. TypeOK'
    BY <1>1, <2>1, <2>2, <2>4 DEF TypeOK, heap, leds
  <2>10. Places'
    BY <1>1, <2>1, <2>2, <2>4 DEF Places, heap, Peer
  <2> QED
    BY <2>8, <2>9, <2>10
<1>5. CASE SetPushFailed(t, c)
  <2>1. /\ spc[t] = "push" /\ Free(sblk[t]) /\ SetDone(t, 1)
        /\ UNCHANGED <<queues, gblCfg, dpc, leds>>
    BY <1>5 DEF SetPushFailed
  <2>2. /\ sblk[t] \in Block /\ SetterHas(t, sblk[t])
        /\ \A u \in Setter, b \in Block : SetterHas(u, b)' <=> SetterHas(u, b) /\ u # t
        /\ \A u \in Setter : spc'[u] = "push" <=> sblk'[u] # NoBlock
        /\ spc' \in [Setter -> {"idle", "push"}]
        /\ sblk' \in [Setter -> Block \union {NoBlock}]
        /\ sidx' \in [Setter -> Index \union {NoBlock}]
        /\ res' \in [Index -> {0, 1}]
    BY <1>1, <2>1, SetterDone
  <2>3. /\ used' = used \ {sblk[t]} /\ used' \subseteq build.heap
        /\ cell' \in [Block -> [index : Index, val : Val] \union {NoMsg}]
        /\ \A x \in used' : cell'[x] \in [index : Index, val : Val]
    BY <2>1, <2>2, FreeTyped
  <2>4. DispatchersStay /\ MessagesStay
    BY <2>1, SameHolders DEF queues
  <2>5. Unique' /\ Owned'
    BY <1>1, <2>2, <2>3, <2>4, SetterFrees
  <2>6. TypeOK'
    BY <1>1, <2>1, <2>2, <2>3 DEF TypeOK, queues, leds
  <2>7. Places'
    BY <1>1, <2>1, <2>2, <2>3 DEF Places, queues, Peer
  <2> QED
    BY <2>5, <2>6, <2>7
<1> QED
  BY <1>2, <1>3, <1>4, <1>5 DEF Set, c

LEMMA BlinkStepInv ==
    ASSUME Inv, NEW c \in build.blinkers, BlinkStep(c)
    PROVE  Inv'
<1> USE DEF Inv
<1> DEFINE m == [id |-> "BLINKY", data |-> blink[c]]
<1>1. /\ c \in Core /\ build' = build /\ Send(c, m)
      /\ blink' = [blink EXCEPT ![c] = 1 - blink[c]]
      /\ UNCHANGED <<heap, gblCfg, dpc, setters, led>>
  BY BuildTyped DEF BlinkStep, Blink
<1>2. blink[c] \in {0, 1} /\ blink' \in [Core -> {0, 1}]
  BY <1>1 DEF TypeOK
<1>3. m \in Message /\ \A b \in Block : ~Carries(m, b)
  BY <1>2 DEF Message, Carries
<1> HIDE DEF m
<1>4. /\ chan' \in [Core -> Seq(Message)] /\ \A d \in Core : Len(chan'[d]) <= Count
      /\ popped' = popped
      /\ \A d \in Core, k \in Nat, b \in Block :
           MessageHas(d, k, b)' <=>
               MessageHas(d, k, b) \/ (d = c /\ k = Len(chan[c]) + 1 /\ Carries(m, b))
  BY <1>1, <1>3, SendStep
<1>5. MessagesStay
  BY <1>3, <1>4 DEF MessagesStay
<1>6. Unique' /\ Owned'
  BY <1>1, <1>4, <1>5, Stay, SameHolders DEF heap, setters
<1>7. TypeOK'
  BY <1>1, <1>2, <1>4 DEF TypeOK, heap, setters
<1>8. Places'
  BY <1>1, <1>4 DEF Places, heap, setters, Peer
<1> QED
  BY <1>6, <1>7, <1>8

LEMMA PopInv ==
    ASSUME Inv, NEW c \in Core, DispatchPop(c), build' = build
    PROVE  Inv'
<1> USE DEF Inv
<1> DEFINE e == Peer(c)
<1>1. /\ dpc[c] = "pop" /\ Recv(e) /\ dpc' = [dpc EXCEPT ![c] = "handle"]
      /\ UNCHANGED <<heap, gblCfg, setters, leds>> /\ e \in Core
  BY CorePeer DEF DispatchPop
<1>2. \A d \in Core : Peer(d) \in Core /\ (Peer(d) = e => d = c)
  BY CorePeer
<1>3. /\ dpc \in [Core -> {"pop", "handle", "return", "asleep"}]
      /\ dpc' \in [Core -> {"pop", "handle", "return", "asleep"}]
      /\ dpc'[c] = "handle" /\ \A d \in Core : d # c => dpc'[d] = dpc[d]
  BY <1>1 DEF TypeOK
<1>4. /\ chan' \in [Core -> Seq(Message)] /\ \A d \in Core : Len(chan'[d]) <= Count
      /\ popped' \in [Core -> Message \union {NoMsg}]
      /\ popped'[e] \in Message
      /\ \A d \in Core : d # e => popped'[d] = popped[d]
      /\ \A b \in Block : Carries(popped'[e], b) <=> MessageHas(e, 1, b)
      /\ \A k \in Nat, b \in Block :
           MessageHas(e, k, b)' <=> k # 0 /\ MessageHas(e, k + 1, b)
      /\ \A d \in Core, k \in Nat, b \in Block :
           d # e => (MessageHas(d, k, b)' <=> MessageHas(d, k, b))
  BY <1>1, RecvStep
<1>5. /\ \A b \in Block : ~DispatcherHas(c, b)
      /\ \A b \in Block : DispatcherHas(c, b)' <=> MessageHas(e, 1, b)
  BY <1>1, <1>3, <1>4 DEF DispatcherHas, Carries, Peer
<1>6. \A d \in Core, b \in Block : d # c => (DispatcherHas(d, b)' <=> DispatcherHas(d, b))
  <2> SUFFICES ASSUME NEW d \in Core, NEW b \in Block, d # c
               PROVE  DispatcherHas(d, b)' <=> DispatcherHas(d, b)
    OBVIOUS
  <2>1. dpc'[d] = dpc[d] /\ popped'[Peer(d)] = popped[Peer(d)]
    BY <1>2, <1>3, <1>4
  <2> QED
    BY <2>1 DEF DispatcherHas, Carries, Peer
<1>7. SettersStay /\ used' = used
  BY <1>1, SameHolders DEF setters, heap
<1> HIDE DEF e
<1>8. Unique' /\ Owned'
  BY <1>1, <1>4, <1>5, <1>6, <1>7, DispatcherTakes
<1>9. TypeOK'
  BY <1>1, <1>3, <1>4 DEF TypeOK, heap, setters, leds
<1>10. /\ \A d \in Core : dpc'[d] # "pop" => popped'[Peer(d)] \in Message
       /\ \A d \in Core : dpc'[d] \in {"return", "asleep"} => popped'[Peer(d)].id = "GBLUPDATE"
       /\ \A d \in Core : dpc'[d] = "asleep" => build.rtos
  <2> SUFFICES ASSUME NEW d \in Core
               PROVE  /\ dpc'[d] # "pop" => popped'[Peer(d)] \in Message
                      /\ dpc'[d] \in {"return", "asleep"} => popped'[Peer(d)].id = "GBLUPDATE"
                      /\ dpc'[d] = "asleep" => build.rtos
    OBVIOUS
  <2>1. CASE d = c
    BY <1>3, <1>4, <2>1 DEF e
  <2>2. CASE d # c
    <3>1. dpc'[d] = dpc[d] /\ popped'[Peer(d)] = popped[Peer(d)]
      BY <1>2, <1>3, <1>4, <2>2
    <3> QED
      BY <3>1 DEF Places
  <2> QED
    BY <2>1, <2>2
<1>11. Places'
  BY <1>1, <1>10 DEF Places, heap, setters, Peer
<1> QED
  BY <1>8, <1>9, <1>11

(* A dispatch task moves on and keeps the message it works on.             *)
LEMMA DispatcherGoes ==
    ASSUME Inv, NEW c \in Core, NEW to \in {"pop", "return", "asleep"},
           dpc' = [dpc EXCEPT ![c] = to], popped' = popped, build' = build
    PROVE  /\ dpc' \in [Core -> {"pop", "handle", "return", "asleep"}]
           /\ to # "pop" /\ dpc[c] # "pop" => DispatchersStay
           /\ to = "pop" => \A d \in Core, b \in Block :
                                DispatcherHas(d, b)' <=> DispatcherHas(d, b) /\ d # c
           /\ \/ to = "pop"
              \/ /\ dpc[c] # "pop" /\ popped[Peer(c)].id = "GBLUPDATE"
                 /\ to = "asleep" => build.rtos
              => /\ \A d \in Core : dpc'[d] # "pop" => popped'[Peer(d)] \in Message
                 /\ \A d \in Core : dpc'[d] \in {"return", "asleep"} =>
                                        popped'[Peer(d)].id = "GBLUPDATE"
                 /\ \A d \in Core : dpc'[d] = "asleep" => build.rtos
<1>1. /\ dpc \in [Core -> {"pop", "handle", "return", "asleep"}]
      /\ dpc'[c] = to /\ \A d \in Core : d # c => dpc'[d] = dpc[d]
  BY DEF Inv, TypeOK
<1>2. dpc' \in [Core -> {"pop", "handle", "return", "asleep"}]
  BY <1>1
<1>3. to # "pop" /\ dpc[c] # "pop" => DispatchersStay
  BY <1>1 DEF DispatchersStay, DispatcherHas, Carries, Peer
<1>4. to = "pop" => \A d \in Core, b \in Block :
                       DispatcherHas(d, b)' <=> DispatcherHas(d, b) /\ d # c
  BY <1>1 DEF DispatcherHas, Carries, Peer
<1>5. ASSUME \/ to = "pop"
             \/ /\ dpc[c] # "pop" /\ popped[Peer(c)].id = "GBLUPDATE"
                /\ to = "asleep" => build.rtos
      PROVE  /\ \A d \in Core : dpc'[d] # "pop" => popped'[Peer(d)] \in Message
             /\ \A d \in Core : dpc'[d] \in {"return", "asleep"} =>
                                    popped'[Peer(d)].id = "GBLUPDATE"
             /\ \A d \in Core : dpc'[d] = "asleep" => build.rtos
  BY <1>1, <1>5 DEF Inv, Places
<1> QED
  BY <1>2, <1>3, <1>4, <1>5

LEMMA HandleInv ==
    ASSUME Inv, NEW c \in Core, DispatchHandle(c, popped[Peer(c)]), build' = build
    PROVE  Inv'
<1> USE DEF Inv
<1> DEFINE m == popped[Peer(c)]
           b == m.data
<1>1. dpc[c] = "handle" /\ UNCHANGED <<queues, setters, blink>> /\ m \in Message
  BY DEF DispatchHandle, Places
<1>2. SettersStay /\ MessagesStay /\ popped' = popped
  BY <1>1, SameHolders DEF queues, setters
<1>3. /\ m.id \in {"GBLUPDATE", "FREEMEM", "BLINKY"}
      /\ m.id # "BLINKY" => b \in Block /\ DispatcherHas(c, b)
      /\ m.id = "BLINKY" => b \in {0, 1} /\ \A x \in Block : ~DispatcherHas(c, x)
  BY <1>1, MessageFields DEF DispatcherHas, Carries
<1>4. CASE m.id = "GBLUPDATE" /\ UpdateGblVal(c, b)
  <2>1. /\ gblCfg' = [gblCfg EXCEPT ![c][cell[b].index] = cell[b].val]
        /\ dpc' = [dpc EXCEPT ![c] = "return"]
        /\ UNCHANGED <<heap, led>>
    BY <1>4 DEF UpdateGblVal
  <2>2. /\ dpc' \in [Core -> {"pop", "handle", "return", "asleep"}]
        /\ DispatchersStay
        /\ \A d \in Core : dpc'[d] # "pop" => popped'[Peer(d)] \in Message
        /\ \A d \in Core : dpc'[d] \in {"return", "asleep"} => popped'[Peer(d)].id = "GBLUPDATE"
        /\ \A d \in Core : dpc'[d] = "asleep" => build.rtos
    BY <1>1, <1>2, <1>4, <2>1, DispatcherGoes
  <2>3. Unique' /\ Owned'
    BY <1>2, <2>1, <2>2, Stay DEF heap
  <2>4. b \in used
    BY <1>3, <1>4 DEF Owned, Held
  <2>5. cell[b].index \in Index /\ cell[b].val \in Val
    BY <2>4 DEF Places
  <2>6. gblCfg' \in [Core -> [Index -> Val]]
    BY <2>1, <2>5 DEF TypeOK
  <2>7. TypeOK'
    BY <1>1, <2>1, <2>2, <2>6 DEF TypeOK, queues, setters, heap
  <2>8. Places'
    BY <1>1, <2>1, <2>2 DEF Places, queues, setters, heap
  <2> QED
    BY <2>3, <2>7, <2>8
<1>5. CASE m.id = "FREEMEM" /\ FreeMem(c, b)
  <2>1. /\ Free(b) /\ dpc' = [dpc EXCEPT ![c] = "pop"] /\ UNCHANGED <<gblCfg, led>>
    BY <1>5 DEF FreeMem
  <2>2. /\ dpc' \in [Core -> {"pop", "handle", "return", "asleep"}]
        /\ \A d \in Core, x \in Block : DispatcherHas(d, x)' <=> DispatcherHas(d, x) /\ d # c
        /\ \A d \in Core : dpc'[d] # "pop" => popped'[Peer(d)] \in Message
        /\ \A d \in Core : dpc'[d] \in {"return", "asleep"} => popped'[Peer(d)].id = "GBLUPDATE"
        /\ \A d \in Core : dpc'[d] = "asleep" => build.rtos
    BY <1>2, <2>1, DispatcherGoes
  <2>3. /\ used' = used \ {b} /\ used' \subseteq build.heap
        /\ cell' \in [Block -> [index : Index, val : Val] \union {NoMsg}]
        /\ \A x \in used' : cell'[x] \in [index : Index, val : Val]
    BY <1>3, <1>5, <2>1, FreeTyped
  <2>4. b \in Block /\ DispatcherHas(c, b)
    BY <1>3, <1>5
  <2>5. Unique' /\ Owned'
    <3> HIDE DEF b
    <3> QED
      BY <1>2, <2>2, <2>3, <2>4, DispatcherDrops
  <2>6. TypeOK'
    BY <1>1, <2>1, <2>2, <2>3 DEF TypeOK, queues, setters
  <2>7. Places'
    BY <1>1, <2>2, <2>3 DEF Places, queues, setters
  <2> QED
    BY <2>5, <2>6, <2>7
<1>6. CASE m.id = "BLINKY" /\ BlinkProc(c, b)
  <2>1. /\ led' = [led EXCEPT ![c] = b] /\ dpc' = [dpc EXCEPT ![c] = "pop"]
        /\ UNCHANGED <<heap, gblCfg>>
    BY <1>6 DEF BlinkProc
  <2>2. /\ dpc' \in [Core -> {"pop", "handle", "return", "asleep"}]
        /\ \A d \in Core, x \in Block : DispatcherHas(d, x)' <=> DispatcherHas(d, x) /\ d # c
        /\ \A d \in Core : dpc'[d] # "pop" => popped'[Peer(d)] \in Message
        /\ \A d \in Core : dpc'[d] \in {"return", "asleep"} => popped'[Peer(d)].id = "GBLUPDATE"
        /\ \A d \in Core : dpc'[d] = "asleep" => build.rtos
    BY <1>2, <2>1, DispatcherGoes
  <2>3. DispatchersStay
    BY <1>3, <1>6, <2>2 DEF DispatchersStay
  <2>4. Unique' /\ Owned'
    BY <1>2, <2>1, <2>3, Stay DEF heap
  <2>5. led' \in [Core -> {0, 1}]
    BY <1>3, <1>6, <2>1 DEF TypeOK
  <2>6. TypeOK'
    BY <1>1, <2>1, <2>2, <2>5 DEF TypeOK, queues, setters, heap
  <2>7. Places'
    BY <1>1, <2>1, <2>2 DEF Places, queues, setters, heap
  <2> QED
    BY <2>4, <2>6, <2>7
<1> QED
  BY <1>4, <1>5, <1>6 DEF DispatchHandle

LEMMA ReturnInv ==
    ASSUME Inv, NEW c \in Core, DispatchReturn(c, popped[Peer(c)].data), build' = build
    PROVE  Inv'
<1> USE DEF Inv
<1> DEFINE b == popped[Peer(c)].data
           m == [id |-> "FREEMEM", data |-> b]
<1>1. /\ dpc[c] = "return" /\ popped[Peer(c)].id = "GBLUPDATE" /\ popped[Peer(c)] \in Message
      /\ UNCHANGED <<heap, gblCfg, setters, leds>>
  BY DEF DispatchReturn, Places
<1>2. b \in Block /\ DispatcherHas(c, b)
  BY <1>1, MessageFields DEF DispatcherHas, Carries
<1>3. SettersStay /\ used' = used
  BY <1>1, SameHolders DEF setters, heap
<1>4. CASE Send(c, m) /\ dpc' = [dpc EXCEPT ![c] = "pop"]
  <2> DEFINE n == Len(chan[c]) + 1
  <2>1. m \in Message /\ \A x \in Block : Carries(m, x) <=> x = b
    BY <1>2 DEF Message, Carries
  <2> HIDE DEF m
  <2>2. /\ chan' \in [Core -> Seq(Message)] /\ \A d \in Core : Len(chan'[d]) <= Count
        /\ popped' = popped
        /\ \A d \in Core, k \in Nat, x \in Block :
             MessageHas(d, k, x)' <=> MessageHas(d, k, x) \/ (d = c /\ k = n /\ Carries(m, x))
        /\ n \in Nat
        /\ \A k \in Nat, x \in Block : MessageHas(c, k, x) => k # n
    BY <1>4, <2>1, SendStep
  <2>3. /\ dpc' \in [Core -> {"pop", "handle", "return", "asleep"}]
        /\ \A d \in Core, x \in Block : DispatcherHas(d, x)' <=> DispatcherHas(d, x) /\ d # c
        /\ \A d \in Core : dpc'[d] # "pop" => popped'[Peer(d)] \in Message
        /\ \A d \in Core : dpc'[d] \in {"return", "asleep"} => popped'[Peer(d)].id = "GBLUPDATE"
        /\ \A d \in Core : dpc'[d] = "asleep" => build.rtos
    BY <1>4, <2>2, DispatcherGoes
  <2>4. Unique' /\ Owned'
    <3> HIDE DEF b, n
    <3>1. \A x \in Block : ~MessageHas(c, n, x)
      BY <2>2
    <3>2. \A d \in Core, k \in Nat, x \in Block :
             MessageHas(d, k, x)' <=> MessageHas(d, k, x) \/ (d = c /\ k = n /\ x = b)
      BY <2>1, <2>2
    <3> QED
      BY <1>2, <1>3, <2>2, <2>3, <3>1, <3>2, DispatcherSends
  <2>5. TypeOK'
    BY <1>1, <2>2, <2>3 DEF TypeOK, heap, setters, leds
  <2>6. Places'
    BY <1>1, <2>2, <2>3 DEF Places, heap, setters
  <2> QED
    BY <2>4, <2>5, <2>6
<1>5. CASE UNCHANGED queues /\ dpc' = [dpc EXCEPT ![c] = IF build.rtos THEN "asleep" ELSE "pop"]
  <2> DEFINE to == IF build.rtos THEN "asleep" ELSE "pop"
  <2>1. /\ to \in {"pop", "return", "asleep"} /\ dpc' = [dpc EXCEPT ![c] = to]
        /\ popped' = popped /\ MessagesStay
        /\ to = "asleep" => build.rtos
        /\ to = "pop" => ~build.rtos
    BY <1>5, SameHolders, BuildTyped DEF queues
  <2> HIDE DEF to
  <2>2. /\ dpc' \in [Core -> {"pop", "handle", "return", "asleep"}]
        /\ \A d \in Core : dpc'[d] # "pop" => popped'[Peer(d)] \in Message
        /\ \A d \in Core : dpc'[d] \in {"return", "asleep"} => popped'[Peer(d)].id = "GBLUPDATE"
        /\ \A d \in Core : dpc'[d] = "asleep" => build.rtos
    BY <1>1, <2>1, DispatcherGoes
  <2>3. CASE to = "pop"
    <3> HIDE DEF b
    <3>1. \A d \in Core, x \in Block : DispatcherHas(d, x)' <=> DispatcherHas(d, x) /\ d # c
      BY <2>1, <2>3, DispatcherGoes
    <3> QED
      <4>1. Unique' /\ Owned'
        BY <1>2, <1>3, <2>1, <2>3, <3>1, DispatcherDrops
      <4>2. TypeOK'
        BY <1>1, <1>5, <2>2 DEF TypeOK, queues, heap, setters, leds
      <4>3. Places'
        BY <1>1, <1>5, <2>2 DEF Places, queues, heap, setters
      <4> QED
        BY <4>1, <4>2, <4>3
  <2>4. CASE to # "pop"
    <3>1. DispatchersStay
      BY <1>1, <2>1, <2>4, DispatcherGoes
    <3>2. Unique' /\ Owned'
      BY <1>3, <2>1, <3>1, Stay
    <3>3. TypeOK'
      BY <1>1, <1>5, <2>2 DEF TypeOK, queues, heap, setters, leds
    <3>4. Places'
      BY <1>1, <1>5, <2>2 DEF Places, queues, heap, setters
    <3> QED
      BY <3>2, <3>3, <3>4
  <2> QED
    BY <2>3, <2>4
<1> QED
  BY <1>4, <1>5 DEF DispatchReturn

LEMMA WakeInv ==
    ASSUME Inv, NEW c \in Core, Wake(c)
    PROVE  Inv'
<1> USE DEF Inv
<1>1. /\ dpc[c] = "asleep" /\ dpc' = [dpc EXCEPT ![c] = "return"]
      /\ UNCHANGED <<queues, heap, gblCfg, setters, leds, build>>
  BY DEF Wake, DispatchPoll
<1>2. popped[Peer(c)].id = "GBLUPDATE" /\ popped' = popped
  BY <1>1 DEF Places, queues
<1>3. /\ dpc' \in [Core -> {"pop", "handle", "return", "asleep"}]
      /\ DispatchersStay
      /\ \A d \in Core : dpc'[d] # "pop" => popped'[Peer(d)] \in Message
      /\ \A d \in Core : dpc'[d] \in {"return", "asleep"} => popped'[Peer(d)].id = "GBLUPDATE"
      /\ \A d \in Core : dpc'[d] = "asleep" => build.rtos
  BY <1>1, <1>2, DispatcherGoes
<1>4. Unique' /\ Owned'
  BY <1>1, <1>3, Stay, SameHolders DEF queues, heap, setters
<1>5. TypeOK'
  BY <1>1, <1>3 DEF TypeOK, queues, heap, setters, leds
<1>6. Places'
  BY <1>1, <1>3 DEF Places, queues, heap, setters
<1> QED
  BY <1>4, <1>5, <1>6

LEMMA InitInv ==
    ASSUME Init
    PROVE  Inv
<1> USE DEF Init, ChanInit
<1>1. NoBlock \notin Block /\ 0 \in Val /\ Count \in Nat \ {0}
  BY IpcexAssumption
<1>2. chan \in [Core -> Seq(Message)] /\ \A c \in Core : chan[c] = <<>>
  OBVIOUS
<1>3. \A c \in Core : Len(chan[c]) = 0
  BY <1>2
<1>4. TypeOK
  BY <1>1, <1>2, <1>3 DEF TypeOK
<1>5. \A b \in Block : ~Held(b)
  <2>1. \A c \in Core, k \in Nat, b \in Block : ~MessageHas(c, k, b)
    BY <1>3 DEF MessageHas
  <2> QED
    BY <1>1, <2>1 DEF Held, SetterHas, DispatcherHas
<1>6. Unique
  BY <1>5 DEF Unique, Held
<1>7. Owned
  BY <1>5 DEF Owned
<1>8. Places
  BY <1>1 DEF Places
<1> QED
  BY <1>4, <1>6, <1>7, <1>8 DEF Inv

(* The inductive invariant holds in every state of every behaviour.        *)
THEOREM Invariant == Spec => []Inv
<1>1. Init => Inv
  BY InitInv
<1>2. Inv /\ [Next]_vars => Inv'
  <2> SUFFICES ASSUME Inv, [Next]_vars
               PROVE  Inv'
    OBVIOUS
  <2>1. ASSUME NEW t \in build.setters, Set(t)
        PROVE  Inv'
    BY <2>1, SetStepInv
  <2>2. ASSUME NEW c \in build.blinkers, BlinkStep(c)
        PROVE  Inv'
    BY <2>2, BlinkStepInv
  <2>3. ASSUME NEW c \in Core, Dispatch(c)
        PROVE  Inv'
    <3>1. build' = build
      BY <2>3 DEF Dispatch
    <3> QED
      BY <2>3, <3>1, PopInv, HandleInv, ReturnInv DEF Dispatch
  <2>4. ASSUME NEW c \in Core, Wake(c)
        PROVE  Inv'
    BY <2>4, WakeInv
  <2>5. CASE UNCHANGED vars
    <3>1. Unique' /\ Owned'
      BY <2>5, Stay, SameHolders DEF Inv, vars, queues, heap, setters
    <3>2. TypeOK'
      BY <2>5 DEF Inv, TypeOK, vars, queues, heap, setters, leds
    <3>3. Places'
      BY <2>5 DEF Inv, Places, vars, queues, heap, setters, Peer
    <3> QED
      BY <3>1, <3>2, <3>3 DEF Inv
  <2> QED
    BY <2>1, <2>2, <2>3, <2>4, <2>5 DEF Next
<1> QED
  BY <1>1, <1>2, PTL DEF Spec

(* Type correctness: what a dispatch task reads out of a block is an index *)
(* of the table and a value, and every variable keeps its type             *)
(* (ipc_example.c:96-119).                                                 *)
THEOREM TypeCorrect == Spec => []TypeOK
  BY Invariant, PTL DEF Inv

(***************************************************************************)
(* Counting those who have a block.                                        *)
(***************************************************************************)
LEMMA AtMostOne ==
    ASSUME NEW S, \A x, y \in S : x = y
    PROVE  /\ S = {} => Cardinality(S) = 0
           /\ S # {} => Cardinality(S) = 1
<1>1. S = {} => Cardinality(S) = 0
  BY FS_EmptySet
<1>2. ASSUME S # {} PROVE Cardinality(S) = 1
  <2>1. PICK x : S = {x}
    BY <1>2
  <2> QED
    BY <2>1, FS_Singleton
<1> QED
  BY <1>1, <1>2

LEMMA HolderCount ==
    ASSUME Inv, NEW b \in Block
    PROVE  IF Held(b) THEN Holders(b) = 1 ELSE Holders(b) = 0
<1> DEFINE S == HoldingSetters(b)
           D == HoldingDispatchers(b)
           M == HoldingMessages(b)
<1>0. /\ \A c \in Core : Len(chan[c]) \in Nat /\ Len(chan[c]) <= Count
      /\ Count \in Nat
  BY BuildTyped DEF Inv, TypeOK
<1>1. \A t : t \in S <=> t \in Setter /\ SetterHas(t, b)
  BY DEF HoldingSetters, SetterHas
<1>2. \A c : c \in D <=> c \in Core /\ DispatcherHas(c, b)
  BY DEF HoldingDispatchers, DispatcherHas
<1>3. /\ \A c \in Core, k \in Nat : MessageHas(c, k, b) => <<c, k>> \in M
      /\ \A x \in M : \E c \in Core, k \in Nat : x = <<c, k>> /\ MessageHas(c, k, b)
  BY <1>0 DEF HoldingMessages, MessageHas
<1> HIDE DEF S, D, M
<1>4. \A x, y \in S : x = y
  BY <1>1 DEF Inv, Unique
<1>5. \A x, y \in D : x = y
  BY <1>2 DEF Inv, Unique
<1>6. \A x, y \in M : x = y
  BY <1>3 DEF Inv, Unique
<1>7. /\ S = {} => Cardinality(S) = 0
      /\ S # {} => Cardinality(S) = 1
      /\ D = {} => Cardinality(D) = 0
      /\ D # {} => Cardinality(D) = 1
      /\ M = {} => Cardinality(M) = 0
      /\ M # {} => Cardinality(M) = 1
  BY <1>4, <1>5, <1>6, AtMostOne
<1>8. /\ S # {} => D = {} /\ M = {}
      /\ D # {} => M = {}
  BY <1>1, <1>2, <1>3 DEF Inv, Unique
<1>9. Held(b) <=> S # {} \/ D # {} \/ M # {}
  BY <1>1, <1>2, <1>3 DEF Held
<1>10. Holders(b) = Cardinality(S) + Cardinality(D) + Cardinality(M)
  BY DEF Holders, S, D, M
<1> QED
  BY <1>7, <1>8, <1>9, <1>10

(* A block has one owner at a time, and one that anybody can reach is      *)
(* allocated: no double free and no use after free, and under an RTOS no   *)
(* block is lost (ipc_example.c:102-119, 194-217).                         *)
THEOREM OwnerCorrect == Spec => []OneHolder
<1>1. Inv => OneHolder
  <2> SUFFICES ASSUME Inv, NEW b \in Block
               PROVE  /\ Holders(b) <= 1
                      /\ Holders(b) = 1 => b \in used
                      /\ build.rtos /\ b \in used => Holders(b) = 1
    BY DEF OneHolder
  <2>1. IF Held(b) THEN Holders(b) = 1 ELSE Holders(b) = 0
    BY HolderCount
  <2>2. Held(b) => b \in used
    BY DEF Inv, Owned
  <2>3. build.rtos /\ b \in used => Held(b)
    BY DEF Inv, Owned
  <2> QED
    BY <2>1, <2>2, <2>3
<1> QED
  BY <1>1, Invariant, PTL

(***************************************************************************)
(* Shared variables.  The updates of a variable on their way from core c   *)
(* to the other: place 0 is the message that the dispatch task there is    *)
(* about to copy, the others are in the queue.                             *)
(***************************************************************************)
Update(i, v) == [index |-> i, val |-> v]
Updates(m, i, v) == m.id = "GBLUPDATE" /\ cell[m.data] = Update(i, v)
OnWay(c, k, i, v) ==
    IF k = 0 THEN dpc[Peer(c)] = "handle" /\ Updates(popped[c], i, v)
             ELSE k \in 1 .. Len(chan[c]) /\ Updates(chan[c][k], i, v)

(* Only the core that owns a variable sends its updates.                   *)
Home == \A i \in Index, c \in Core, k \in Nat, v \in Val : OnWay(c, k, i, v) => c = OwnerOf(i)

(* A call of ipcex_setGblVal is about a variable of its setter, and the    *)
(* block it has not sent yet holds the value of the local copy.            *)
Pending ==
    \A t \in Setter :
        IF spc[t] = "push"
          THEN /\ sidx[t] \in Index /\ SetterOf[sidx[t]] = t
               /\ cell[sblk[t]] = Update(sidx[t], gblCfg[OwnerOf(sidx[t])][sidx[t]])
          ELSE sidx[t] = NoBlock

(* The last update on its way has the value of the owner's copy, and when  *)
(* there is none the copies agree.                                         *)
LastIsOwn(i) ==
    \A k \in Nat, v \in Val :
        OnWay(OwnerOf(i), k, i, v) /\ (\A l \in Nat, w \in Val : OnWay(OwnerOf(i), l, i, w) => l <= k)
            => v = gblCfg[OwnerOf(i)][i]
Agreed(i) ==
    (\A k \in Nat, v \in Val : ~OnWay(OwnerOf(i), k, i, v)) =>
        gblCfg[Peer(OwnerOf(i))][i] = gblCfg[OwnerOf(i)][i]
Settled(i) == LastIsOwn(i) /\ Agreed(i)

(* This is so of every variable whose last set has succeeded.              *)
Idle(i) == res[i] = 0 /\ sidx[SetterOf[i]] # i
SyncInv == Home /\ Pending /\ \A i \in Index : Idle(i) => Settled(i)

WayStays ==
    \A c \in Core, k \in Nat, i \in Index, v \in Val : OnWay(c, k, i, v)' <=> OnWay(c, k, i, v)

LEMMA OwnerTyped ==
    ASSUME NEW i \in Index
    PROVE  /\ SetterOf[i] \in Setter /\ OwnerOf(i) \in Core /\ Peer(OwnerOf(i)) \in Core
           /\ Peer(OwnerOf(i)) # OwnerOf(i) /\ i # NoBlock /\ OwnerOf(i)' = OwnerOf(i)
<1>1. SetterOf[i] \in Setter /\ OwnerOf(i) \in Core /\ i # NoBlock /\ OwnerOf(i)' = OwnerOf(i)
  BY IpcexAssumption DEF OwnerOf
<1> QED
  BY <1>1, IpcexAssumption DEF Core, Peer

LEMMA UpdateIs ==
    ASSUME NEW i, NEW j, NEW v, NEW w, Update(i, v) = Update(j, w)
    PROVE  i = j /\ v = w
  BY DEF Update

(* What sends and receives do to the updates on their way.                 *)
LEMMA SendWay ==
    ASSUME TypeOK, NEW c \in Core, NEW m \in Message, Send(c, m), cell' = cell,
           \A d \in Core : dpc'[d] = "handle" <=> dpc[d] = "handle"
    PROVE  /\ \A d \in Core, k \in Nat, i \in Index, v \in Val :
                OnWay(d, k, i, v)' <=>
                    \/ OnWay(d, k, i, v)
                    \/ d = c /\ k = Len(chan[c]) + 1 /\ Updates(m, i, v)
           /\ Len(chan[c]) + 1 \in Nat
           /\ \A k \in Nat, i \in Index, v \in Val : OnWay(c, k, i, v) => k < Len(chan[c]) + 1
<1>1. /\ chan \in [Core -> Seq(Message)] /\ popped' = popped
      /\ chan' = [chan EXCEPT ![c] = Append(chan[c], m)]
  BY DEF TypeOK, Send
<1>2. /\ chan[c] \in Seq(Message) /\ Len(chan[c]) \in Nat
      /\ chan'[c] = Append(chan[c], m)
      /\ \A d \in Core : d # c => chan'[d] = chan[d]
  BY <1>1
<1>3. /\ Len(chan'[c]) = Len(chan[c]) + 1
      /\ \A k \in 1 .. Len(chan[c]) : chan'[c][k] = chan[c][k]
      /\ chan'[c][Len(chan[c]) + 1] = m
  BY <1>2
<1>4. ASSUME NEW d \in Core, NEW k \in Nat, NEW i \in Index, NEW v \in Val
      PROVE  OnWay(d, k, i, v)' <=> \/ OnWay(d, k, i, v)
                                    \/ d = c /\ k = Len(chan[c]) + 1 /\ Updates(m, i, v)
  <2>0. Peer(d) \in Core
    BY CorePeer
  <2>1. CASE k = 0
    BY <1>1, <1>2, <2>0, <2>1 DEF OnWay, Updates, Peer
  <2>2. CASE k # 0 /\ d # c
    BY <1>2, <2>2 DEF OnWay, Updates
  <2>3. CASE k # 0 /\ d = c /\ k = Len(chan[c]) + 1
    <3>1. k \in 1 .. Len(chan'[c]) /\ k \notin 1 .. Len(chan[c])
      BY <1>2, <1>3, <2>3
    <3> QED
      BY <1>3, <2>3, <3>1 DEF OnWay, Updates
  <2>4. CASE k # 0 /\ d = c /\ k # Len(chan[c]) + 1
    <3>1. k \in 1 .. Len(chan'[c]) <=> k \in 1 .. Len(chan[c])
      BY <1>2, <1>3, <2>4
    <3> QED
      BY <1>3, <2>4, <3>1 DEF OnWay, Updates
  <2> QED
    BY <2>1, <2>2, <2>3, <2>4
<1>5. \A k \in Nat, i \in Index, v \in Val : OnWay(c, k, i, v) => k < Len(chan[c]) + 1
  BY <1>2 DEF OnWay
<1> QED
  BY <1>2, <1>4, <1>5

LEMMA RecvWay ==
    ASSUME TypeOK, NEW c \in Core, Recv(c), cell' = cell, dpc[Peer(c)] = "pop",
           dpc' = [dpc EXCEPT ![Peer(c)] = "handle"]
    PROVE  /\ \A k \in Nat, i \in Index, v \in Val :
                OnWay(c, k, i, v)' <=> OnWay(c, k + 1, i, v)
           /\ \A k \in Nat, i \in Index, v \in Val : OnWay(c, k, i, v) => k # 0
           /\ \A d \in Core, k \in Nat, i \in Index, v \in Val :
                d # c => (OnWay(d, k, i, v)' <=> OnWay(d, k, i, v))
<1>1. /\ chan \in [Core -> Seq(Message)] /\ chan[c] # <<>>
      /\ chan' = [chan EXCEPT ![c] = Tail(chan[c])]
      /\ popped \in [Core -> Message \union {NoMsg}]
      /\ popped' = [popped EXCEPT ![c] = Head(chan[c])]
      /\ dpc \in [Core -> {"pop", "handle", "return", "asleep"}]
  BY DEF TypeOK, Recv
<1>2. /\ chan[c] \in Seq(Message) /\ Len(chan[c]) \in Nat \ {0}
      /\ chan'[c] = Tail(chan[c]) /\ popped'[c] = Head(chan[c])
      /\ \A d \in Core : d # c => chan'[d] = chan[d] /\ popped'[d] = popped[d]
  BY <1>1
<1>3. /\ Len(chan'[c]) = Len(chan[c]) - 1 /\ popped'[c] = chan[c][1]
      /\ \A k \in 1 .. Len(chan[c]) - 1 : chan'[c][k] = chan[c][k + 1]
  BY <1>1, <1>2
<1>4. /\ dpc'[Peer(c)] = "handle"
      /\ \A d \in Core : d # c => dpc'[Peer(d)] = dpc[Peer(d)]
  BY <1>1, CorePeer
<1>5. ASSUME NEW k \in Nat, NEW i \in Index, NEW v \in Val
      PROVE  OnWay(c, k, i, v)' <=> OnWay(c, k + 1, i, v)
  <2>1. CASE k = 0
    <3>1. 1 \in 1 .. Len(chan[c]) /\ 0 + 1 = 1 /\ 1 # 0
      BY <1>2
    <3> QED
      BY <1>3, <1>4, <2>1, <3>1 DEF OnWay, Updates, Peer
  <2>2. CASE k # 0
    <3>1. k + 1 # 0 /\ (k \in 1 .. Len(chan'[c]) <=> k + 1 \in 1 .. Len(chan[c]))
      BY <1>2, <1>3, <2>2
    <3>2. k \in 1 .. Len(chan'[c]) => chan'[c][k] = chan[c][k + 1]
      BY <1>2, <1>3
    <3> QED
      BY <2>2, <3>1, <3>2 DEF OnWay, Updates
  <2> QED
    BY <2>1, <2>2
<1>6. ASSUME NEW d \in Core, NEW k \in Nat, NEW i \in Index, NEW v \in Val, d # c
      PROVE  OnWay(d, k, i, v)' <=> OnWay(d, k, i, v)
  BY <1>2, <1>4, <1>6 DEF OnWay, Updates, Peer
<1>7. \A k \in Nat, i \in Index, v \in Val : OnWay(c, k, i, v) => k # 0
  BY DEF OnWay
<1> QED
  BY <1>5, <1>6, <1>7

(* malloc and free touch no block whose update is on its way.              *)
LEMMA WayKept ==
    ASSUME Inv, NEW b \in Block, UNCHANGED queues,
           \A x \in Block : x # b => cell'[x] = cell[x],
           \A c \in Core, k \in Nat : ~MessageHas(c, k, b),
           \A c \in Core : popped[Peer(c)].id = "GBLUPDATE" =>
               ~DispatcherHas(c, b) /\ (dpc'[c] = "handle" <=> dpc[c] = "handle")
    PROVE  WayStays
<1>1. /\ chan' = chan /\ popped' = popped /\ chan \in [Core -> Seq(Message)]
  BY DEF Inv, TypeOK, queues
<1>2. SUFFICES ASSUME NEW c \in Core, NEW k \in Nat, NEW i \in Index, NEW v \in Val
               PROVE  OnWay(c, k, i, v)' <=> OnWay(c, k, i, v)
  BY DEF WayStays
<1>3. CASE k # 0 /\ k \in 1 .. Len(chan[c])
  <2>1. chan[c][k] \in Message /\ chan'[c] = chan[c]
    BY <1>1, <1>3
  <2>2. chan[c][k].id = "GBLUPDATE" => chan[c][k].data \in Block /\ chan[c][k].data # b
    BY <1>3, <2>1, MessageFields DEF MessageHas, Carries
  <2> QED
    BY <1>3, <2>1, <2>2 DEF OnWay, Updates
<1>4. CASE k # 0 /\ k \notin 1 .. Len(chan[c])
  BY <1>1, <1>4 DEF OnWay
<1>5. CASE k = 0
  <2>1. Peer(c) \in Core /\ Peer(Peer(c)) = c
    BY CorePeer
  <2>2. CASE popped[c].id = "GBLUPDATE" /\ dpc[Peer(c)] = "handle"
    <3>1. popped[c].data \in Block /\ popped[c].data # b
      BY <2>1, <2>2, MessageFields DEF Inv, Places, DispatcherHas, Carries
    <3> QED
      BY <1>1, <1>5, <2>1, <2>2, <3>1 DEF OnWay, Updates, Peer
  <2>3. CASE ~(popped[c].id = "GBLUPDATE" /\ dpc[Peer(c)] = "handle")
    BY <1>1, <1>5, <2>1, <2>3 DEF OnWay, Updates, Peer
  <2> QED
    BY <2>2, <2>3
<1> QED
  BY <1>3, <1>4, <1>5

(* A dispatch task has copied a value.                                     *)
LEMMA HandledWay ==
    ASSUME TypeOK, NEW c \in Core, UNCHANGED <<queues, cell>>,
           dpc' = [dpc EXCEPT ![c] = "return"]
    PROVE  \A d \in Core, k \in Nat, i \in Index, v \in Val :
               OnWay(d, k, i, v)' <=> OnWay(d, k, i, v) /\ (d = Peer(c) => k # 0)
<1>1. SUFFICES ASSUME NEW d \in Core, NEW k \in Nat, NEW i \in Index, NEW v \in Val
               PROVE  OnWay(d, k, i, v)' <=> OnWay(d, k, i, v) /\ (d = Peer(c) => k # 0)
  OBVIOUS
<1>2. /\ Peer(d) \in Core /\ Peer(c) \in Core /\ (d = Peer(c) <=> Peer(d) = c)
      /\ dpc'[Peer(d)] = IF Peer(d) = c THEN "return" ELSE dpc[Peer(d)]
  BY CorePeer DEF TypeOK
<1>3. CASE k = 0
  BY <1>2, <1>3 DEF OnWay, Updates, queues, Peer
<1>4. CASE k # 0
  BY <1>4 DEF OnWay, Updates, queues
<1> QED
  BY <1>3, <1>4

LEMMA SettledStays ==
    ASSUME NEW i \in Index, Settled(i), WayStays, \A c \in Core : gblCfg'[c][i] = gblCfg[c][i]
    PROVE  Settled(i)'
<1> DEFINE c == OwnerOf(i)
<1>1. c \in Core /\ Peer(c) \in Core /\ Peer(c)' = Peer(c) /\ OwnerOf(i)' = OwnerOf(i)
  BY OwnerTyped DEF Peer
<1>2. LastIsOwn(i)'
  BY <1>1 DEF Settled, LastIsOwn, WayStays
<1>3. Agreed(i)'
  BY <1>1 DEF Settled, Agreed, WayStays
<1> QED
  BY <1>2, <1>3 DEF Settled

LEMMA HomeStays ==
    ASSUME Home, WayStays
    PROVE  Home'
  BY OwnerTyped DEF Home, WayStays

LEMMA SameWay ==
    UNCHANGED <<chan, popped, dpc, cell>> => WayStays
  BY DEF WayStays, OnWay, Updates, Peer

(***************************************************************************)
(* Every step keeps the last update of a variable its owner's value.       *)
(***************************************************************************)
LEMMA BlockKept ==
    ASSUME Inv, NEW x \in Block, UNCHANGED <<queues, dpc>>,
           \A y \in Block : y # x => cell'[y] = cell[y],
           x \notin used \/ \E t \in Setter : SetterHas(t, x)
    PROVE  WayStays
<1>1. /\ \A c \in Core, k \in Nat : ~MessageHas(c, k, x)
      /\ \A c \in Core : ~DispatcherHas(c, x)
  BY DEF Inv, Unique, Owned, Held
<1> QED
  BY <1>1, WayKept

(* The block of a call of ipcex_setGblVal is its own.                      *)
LEMMA OwnBlock ==
    ASSUME Inv, NEW t \in Setter, spc[t] = "push"
    PROVE  /\ sblk[t] \in Block /\ SetterHas(t, sblk[t]) /\ sblk[t] \in used
           /\ \A u \in Setter : u # t => sblk[u] # sblk[t]
<1>1. sblk[t] # NoBlock /\ sblk[t] \in Block /\ SetterHas(t, sblk[t])
  BY IpcexAssumption DEF Inv, TypeOK, Places, SetterHas
<1>2. sblk[t] \in used
  BY <1>1 DEF Inv, Owned, Held
<1>3. \A u \in Setter : u # t => sblk[u] # sblk[t]
  BY <1>1 DEF Inv, Unique, SetterHas
<1> QED
  BY <1>1, <1>2, <1>3

LEMMA NoMemSync ==
    ASSUME Inv, SyncInv, NEW t \in Setter, NEW i \in Index, SetNoMem(t, SetterCore[t], i)
    PROVE  SyncInv'
<1>1. /\ res' = [res EXCEPT ![i] = 1] /\ res \in [Index -> {0, 1}]
      /\ UNCHANGED <<chan, popped, dpc, cell, gblCfg, spc, sblk, sidx>>
  BY DEF SetNoMem, queues, heap, Inv, TypeOK
<1>2. WayStays /\ Home'
  BY <1>1, SameWay, HomeStays DEF SyncInv
<1>3. Pending'
  BY <1>1 DEF SyncInv, Pending, OwnerOf, Update
<1>4. ASSUME NEW j \in Index, Idle(j)'
      PROVE  Settled(j)'
  <2>1. Idle(j)
    BY <1>1, <1>4 DEF Idle
  <2> QED
    BY <1>1, <1>2, <2>1, SettledStays DEF SyncInv
<1> QED
  BY <1>2, <1>3, <1>4 DEF SyncInv

LEMMA AllocSync ==
    ASSUME Inv, SyncInv, NEW t \in Setter, NEW i \in Index, NEW v \in Val,
           SetAlloc(t, SetterCore[t], i, v)
    PROVE  SyncInv'
<1> DEFINE c == SetterCore[t]
<1>1. /\ spc[t] = "idle" /\ SetterOf[i] = t /\ c = OwnerOf(i) /\ c \in Core
      /\ gblCfg' = [gblCfg EXCEPT ![c][i] = v] /\ gblCfg \in [Core -> [Index -> Val]]
      /\ spc' = [spc EXCEPT ![t] = "push"] /\ spc \in [Setter -> {"idle", "push"}]
      /\ sidx' = [sidx EXCEPT ![t] = i] /\ sidx \in [Setter -> Index \union {NoBlock}]
      /\ UNCHANGED <<queues, dpc, res>>
  BY OwnerTyped DEF SetAlloc, OwnerOf, Inv, TypeOK
<1>2. PICK b \in build.heap \ used :
         /\ cell' = [cell EXCEPT ![b] = Update(i, v)]
         /\ sblk' = [sblk EXCEPT ![t] = b]
  BY DEF SetAlloc, Update
<1>3. /\ b \in Block /\ b \notin used
      /\ cell'[b] = Update(i, v) /\ \A y \in Block : y # b => cell'[y] = cell[y]
      /\ sblk'[t] = b /\ \A u \in Setter : u # t => sblk'[u] = sblk[u]
  BY <1>2, BuildTyped DEF Inv, TypeOK
<1>4. WayStays /\ Home'
  BY <1>1, <1>3, BlockKept, HomeStays DEF SyncInv
<1>5. /\ gblCfg'[c][i] = v
      /\ \A j \in Index, d \in Core : j # i => gblCfg'[d][j] = gblCfg[d][j]
  BY <1>1
<1>6. Pending'
  <2>1. SUFFICES ASSUME NEW u \in Setter
                 PROVE  IF spc'[u] = "push"
                          THEN /\ sidx'[u] \in Index /\ SetterOf[sidx'[u]] = u
                               /\ cell'[sblk'[u]] =
                                      Update(sidx'[u], gblCfg'[OwnerOf(sidx'[u])][sidx'[u]])
                          ELSE sidx'[u] = NoBlock
    BY DEF Pending, Update, OwnerOf
  <2>2. CASE u = t
    BY <1>1, <1>3, <1>5, <2>2
  <2>3. CASE u # t /\ spc[u] = "push"
    <3>1. /\ sidx[u] \in Index /\ SetterOf[sidx[u]] = u
          /\ cell[sblk[u]] = Update(sidx[u], gblCfg[OwnerOf(sidx[u])][sidx[u]])
      BY <2>3 DEF SyncInv, Pending
    <3>2. sblk[u] \in Block /\ sblk[u] # b
      BY <1>3, <2>3, OwnBlock
    <3>3. sidx[u] # i /\ OwnerOf(sidx[u]) \in Core
      BY <1>1, <2>3, <3>1, OwnerTyped
    <3> QED
      BY <1>1, <1>3, <1>5, <2>3, <3>1, <3>2, <3>3
  <2>4. CASE u # t /\ spc[u] # "push"
    BY <1>1, <2>4 DEF SyncInv, Pending
  <2> QED
    BY <2>2, <2>3, <2>4
<1>7. ASSUME NEW j \in Index, Idle(j)'
      PROVE  Settled(j)'
  <2>0. SetterOf[j] \in Setter /\ j # NoBlock
    BY OwnerTyped
  <2>1. j # i
    BY <1>1, <1>7 DEF Idle
  <2>2. sidx[t] = NoBlock
    BY <1>1 DEF SyncInv, Pending
  <2>3. Idle(j)
    BY <1>1, <1>7, <2>0, <2>2 DEF Idle
  <2> QED
    BY <1>4, <1>5, <2>1, <2>3, SettledStays DEF SyncInv
<1> QED
  BY <1>4, <1>6, <1>7 DEF SyncInv

(* What the end of a call leaves of the other setters' calls.              *)
LEMMA DonePending ==
    ASSUME Inv, Pending, NEW t \in Setter, NEW r \in {0, 1}, spc[t] = "push", SetDone(t, r),
           gblCfg' = gblCfg, \A y \in Block : y # sblk[t] => cell'[y] = cell[y]
    PROVE  /\ Pending'
           /\ sidx[t] \in Index /\ SetterOf[sidx[t]] = t /\ res'[sidx[t]] = r
           /\ \A j \in Index : j # sidx[t] /\ Idle(j)' => Idle(j)
<1>1. /\ spc \in [Setter -> {"idle", "push"}] /\ spc' = [spc EXCEPT ![t] = "idle"]
      /\ sblk \in [Setter -> Block \union {NoBlock}] /\ sblk' = [sblk EXCEPT ![t] = NoBlock]
      /\ sidx \in [Setter -> Index \union {NoBlock}] /\ sidx' = [sidx EXCEPT ![t] = NoBlock]
      /\ res \in [Index -> {0, 1}] /\ res' = [res EXCEPT ![sidx[t]] = r]
  BY DEF Inv, TypeOK, SetDone
<1>2. sidx[t] \in Index /\ SetterOf[sidx[t]] = t /\ res'[sidx[t]] = r
  BY <1>1 DEF Pending
<1>3. Pending'
  <2>1. SUFFICES ASSUME NEW u \in Setter
                 PROVE  IF spc'[u] = "push"
                          THEN /\ sidx'[u] \in Index /\ SetterOf[sidx'[u]] = u
                               /\ cell'[sblk'[u]] =
                                      Update(sidx'[u], gblCfg'[OwnerOf(sidx'[u])][sidx'[u]])
                          ELSE sidx'[u] = NoBlock
    BY DEF Pending, Update, OwnerOf
  <2>2. CASE u = t
    BY <1>1, <2>2
  <2>3. CASE u # t /\ spc[u] = "push"
    <3>1. sblk[u] \in Block /\ sblk[u] # sblk[t]
      BY <2>3, OwnBlock
    <3> QED
      BY <1>1, <2>3, <3>1 DEF Pending
  <2>4. CASE u # t /\ spc[u] # "push"
    BY <1>1, <2>4 DEF Pending
  <2> QED
    BY <2>2, <2>3, <2>4
<1>4. ASSUME NEW j \in Index, j # sidx[t], Idle(j)'
      PROVE  Idle(j)
  <2>1. res'[j] = 0 /\ sidx'[SetterOf[j]] # j /\ SetterOf[j] \in Setter
    BY <1>4, OwnerTyped DEF Idle
  <2>2. res[j] = 0
    BY <1>1, <1>4, <2>1
  <2>3. sidx[SetterOf[j]] # j
    BY <1>1, <1>4, <2>1
  <2> QED
    BY <2>2, <2>3 DEF Idle
<1> QED
  BY <1>2, <1>3, <1>4

LEMMA PushSync ==
    ASSUME Inv, SyncInv, NEW t \in Setter, SetPush(t, SetterCore[t])
    PROVE  SyncInv'
<1> DEFINE c == SetterCore[t]
           m == [id |-> "GBLUPDATE", data |-> sblk[t]]
<1>1. /\ spc[t] = "push" /\ Send(c, m) /\ SetDone(t, 0) /\ c \in Core
      /\ UNCHANGED <<used, cell, gblCfg, dpc>>
  BY IpcexAssumption DEF SetPush, heap
<1>2. PICK i \in Index : i = sidx[t]
  BY <1>1, DonePending DEF SyncInv
<1>3. /\ Pending' /\ SetterOf[i] = t
      /\ \A j \in Index : j # i /\ Idle(j)' => Idle(j)
  BY <1>2, <1>1, DonePending DEF SyncInv
<1>4. c = OwnerOf(i) /\ cell[sblk[t]] = Update(i, gblCfg[c][i])
      /\ gblCfg[c][i] \in Val
  BY <1>2, <1>1, <1>3 DEF OwnerOf, SyncInv, Pending, Inv, TypeOK
<1>5. m \in Message /\ \A j \in Index, v \in Val : Updates(m, j, v) <=> j = i /\ v = gblCfg[c][i]
  BY <1>1, <1>4, OwnBlock, UpdateIs DEF Message, Updates
<1> HIDE DEF m
<1>6. PICK n \in Nat : n = Len(chan[c]) + 1
  BY <1>1, <1>5, SendWay DEF Inv
<1>7. /\ \A d \in Core, k \in Nat, j \in Index, v \in Val :
           OnWay(d, k, j, v)' <=> OnWay(d, k, j, v) \/ (d = c /\ k = n /\ Updates(m, j, v))
      /\ \A k \in Nat, j \in Index, v \in Val : OnWay(c, k, j, v) => k < n
  BY <1>1, <1>5, <1>6, SendWay DEF Inv
<1> HIDE DEF c
<1>8. PICK x \in Val : x = gblCfg[c][i]
  BY <1>4
<1>9. \A d \in Core, k \in Nat, j \in Index, v \in Val :
         OnWay(d, k, j, v)' <=>
             OnWay(d, k, j, v) \/ (d = c /\ k = n /\ j = i /\ v = x)
  BY <1>5, <1>7, <1>8
<1>10. Home'
  BY <1>4, <1>9, OwnerTyped DEF SyncInv, Home
<1>11. ASSUME NEW j \in Index, Idle(j)'
      PROVE  Settled(j)'
  <2>0. OwnerOf(j) \in Core /\ OwnerOf(j)' = OwnerOf(j) /\ Peer(OwnerOf(j))' = Peer(OwnerOf(j))
    BY OwnerTyped DEF Peer
  <2>1. CASE j = i
    <3>1. \A k \in Nat, v \in Val : OnWay(c, k, i, v)' <=>
              OnWay(c, k, i, v) \/ (k = n /\ v = x)
      BY <1>1, <1>3, <1>9
    <3>2. OnWay(c, n, i, x)'
      BY <3>1
    <3>3. LastIsOwn(i)'
      <4>1. SUFFICES ASSUME NEW k \in Nat, NEW v \in Val, OnWay(c, k, i, v)',
                            \A l \in Nat, w \in Val : OnWay(c, l, i, w)' => l <= k
                     PROVE  v = gblCfg'[c][i]
        BY <1>4, <2>0, <2>1 DEF LastIsOwn
      <4>2. n <= k
        BY <1>4, <1>7, <3>2, <4>1
      <4>3. ~OnWay(c, k, i, v)
        BY <1>3, <1>7, <4>2
      <4> QED
        BY <1>1, <1>8, <3>1, <4>1, <4>3
    <3>4. Agreed(i)'
      BY <1>4, <1>7, <2>0, <2>1, <3>2 DEF Agreed
    <3> QED
      BY <2>1, <3>3, <3>4 DEF Settled
  <2>2. CASE j # i
    <3>1. \A k \in Nat, v \in Val : OnWay(OwnerOf(j), k, j, v)' <=> OnWay(OwnerOf(j), k, j, v)
      BY <1>9, <2>0, <2>2
    <3>2. Settled(j)
      BY <1>3, <1>11, <2>2 DEF SyncInv
    <3> QED
      BY <1>1, <2>0, <3>1, <3>2 DEF Settled, LastIsOwn, Agreed
  <2> QED
    BY <2>1, <2>2
<1> QED
  BY <1>3, <1>10, <1>11 DEF SyncInv

LEMMA FailedSync ==
    ASSUME Inv, SyncInv, NEW t \in Setter, SetPushFailed(t, SetterCore[t])
    PROVE  SyncInv'
<1>1. /\ spc[t] = "push" /\ Free(sblk[t]) /\ SetDone(t, 1)
      /\ UNCHANGED <<queues, gblCfg, dpc>>
  BY DEF SetPushFailed
<1>2. /\ sblk[t] \in Block /\ SetterHas(t, sblk[t])
      /\ \A y \in Block : y # sblk[t] => cell'[y] = cell[y]
  BY <1>1, OwnBlock DEF Free, Inv, TypeOK
<1>3. /\ Pending' /\ res'[sidx[t]] = 1
      /\ \A j \in Index : j # sidx[t] /\ Idle(j)' => Idle(j)
  BY <1>1, <1>2, DonePending DEF SyncInv
<1>4. WayStays /\ Home'
  BY <1>1, <1>2, BlockKept, HomeStays DEF SyncInv
<1>5. ASSUME NEW j \in Index, Idle(j)'
      PROVE  Settled(j)'
  <2>1. Idle(j)
    BY <1>3, <1>5 DEF Idle
  <2> QED
    BY <1>1, <1>4, <2>1, SettledStays DEF SyncInv
<1> QED
  BY <1>3, <1>4, <1>5 DEF SyncInv

(* Steps that touch neither a variable nor an update.                      *)
LEMMA QuietSync ==
    ASSUME Inv, SyncInv, WayStays, UNCHANGED <<gblCfg, setters>>,
           \A t \in Setter : spc[t] = "push" => cell'[sblk[t]] = cell[sblk[t]]
    PROVE  SyncInv'
<1>1. UNCHANGED <<spc, sblk, sidx, res>>
  BY DEF setters
<1>2. Home'
  BY HomeStays DEF SyncInv
<1>3. Pending'
  BY <1>1 DEF SyncInv, Pending, OwnerOf, Update
<1>4. \A i \in Index : Idle(i)' => Settled(i)'
  BY <1>1, SettledStays DEF SyncInv, Idle
<1> QED
  BY <1>2, <1>3, <1>4 DEF SyncInv

LEMMA OtherSent ==
    ASSUME Inv, SyncInv, NEW c \in Core, NEW m \in Message, m.id # "GBLUPDATE", Send(c, m),
           UNCHANGED <<cell, gblCfg, setters>>,
           \A d \in Core : dpc'[d] = "handle" <=> dpc[d] = "handle"
    PROVE  SyncInv'
<1>1. WayStays
  BY SendWay DEF WayStays, Updates, Inv
<1> QED
  BY <1>1, QuietSync

LEMMA PopSync ==
    ASSUME Inv, SyncInv, NEW c \in Core, DispatchPop(c)
    PROVE  SyncInv'
<1> DEFINE e == Peer(c)
<1>1. /\ dpc[c] = "pop" /\ Recv(e) /\ dpc' = [dpc EXCEPT ![c] = "handle"]
      /\ UNCHANGED <<cell, gblCfg, spc, sblk, sidx, res>> /\ e \in Core /\ Peer(e) = c
  BY CorePeer DEF DispatchPop, heap, setters
<1>2. /\ \A k \in Nat, i \in Index, v \in Val : OnWay(e, k, i, v)' <=> OnWay(e, k + 1, i, v)
      /\ \A k \in Nat, i \in Index, v \in Val : OnWay(e, k, i, v) => k # 0
      /\ \A d \in Core, k \in Nat, i \in Index, v \in Val :
           d # e => (OnWay(d, k, i, v)' <=> OnWay(d, k, i, v))
  BY <1>1, RecvWay DEF Inv
<1> HIDE DEF e
<1>3. Home'
  <2>1. \A k \in Nat : k + 1 \in Nat
    OBVIOUS
  <2> QED
    BY <1>2, <2>1, OwnerTyped DEF SyncInv, Home
<1>4. Pending'
  BY <1>1 DEF SyncInv, Pending, OwnerOf, Update
<1>5. ASSUME NEW j \in Index, Idle(j)'
      PROVE  Settled(j)'
  <2>1. /\ OwnerOf(j) \in Core /\ OwnerOf(j)' = OwnerOf(j)
        /\ Peer(OwnerOf(j))' = Peer(OwnerOf(j))
    BY OwnerTyped DEF Peer
  <2>2. Settled(j)
    BY <1>1, <1>5 DEF SyncInv, Idle
  <2>3. CASE OwnerOf(j) = e
    <3>1. /\ \A k \in Nat, v \in Val : OnWay(e, k, j, v)' <=> OnWay(e, k + 1, j, v)
          /\ \A l \in Nat, w \in Val : OnWay(e, l, j, w) =>
                 l - 1 \in Nat /\ OnWay(e, l - 1, j, w)'
      <4>1. ASSUME NEW l \in Nat, NEW w \in Val, OnWay(e, l, j, w)
            PROVE  l - 1 \in Nat /\ OnWay(e, l - 1, j, w)'
        <5>1. l - 1 \in Nat /\ (l - 1) + 1 = l
          BY <1>2, <4>1
        <5> QED
          BY <1>2, <4>1, <5>1
      <4> QED
        BY <1>2, <4>1
    <3>2. LastIsOwn(j)'
      <4>1. SUFFICES ASSUME NEW k \in Nat, NEW v \in Val, OnWay(e, k, j, v)',
                            \A l \in Nat, w \in Val : OnWay(e, l, j, w)' => l <= k
                     PROVE  v = gblCfg'[e][j]
        BY <1>1, <2>1, <2>3 DEF LastIsOwn
      <4>2. k + 1 \in Nat /\ OnWay(e, k + 1, j, v)
        BY <3>1, <4>1
      <4>3. \A l \in Nat, w \in Val : OnWay(e, l, j, w) => l <= k + 1
        <5>1. \A l \in Nat, w \in Val : OnWay(e, l, j, w) => l - 1 <= k
          BY <3>1, <4>1
        <5> QED
          BY <5>1
      <4> QED
        BY <1>1, <2>2, <2>3, <4>2, <4>3 DEF Settled, LastIsOwn
    <3>3. Agreed(j)'
      BY <1>1, <2>1, <2>2, <2>3, <3>1 DEF Settled, Agreed
    <3> QED
      BY <3>2, <3>3 DEF Settled
  <2>4. CASE OwnerOf(j) # e
    BY <1>1, <1>2, <2>1, <2>2, <2>4 DEF Settled, LastIsOwn, Agreed
  <2> QED
    BY <2>3, <2>4
<1> QED
  BY <1>3, <1>4, <1>5 DEF SyncInv

(* ipcex_updateGblVal copies the value of the oldest update on its way.    *)
LEMMA CopySync ==
    ASSUME Inv, SyncInv, NEW c \in Core, dpc[c] = "handle", popped[Peer(c)].id = "GBLUPDATE",
           UpdateGblVal(c, popped[Peer(c)].data), UNCHANGED <<queues, setters>>
    PROVE  SyncInv'
<1> DEFINE e == Peer(c)
           b == popped[e].data
<1>1. /\ dpc' = [dpc EXCEPT ![c] = "return"] /\ e \in Core /\ Peer(e) = c /\ c # e
      /\ UNCHANGED <<queues, cell, spc, sblk, sidx, res>>
  BY CorePeer, IpcexAssumption DEF UpdateGblVal, heap, setters, Core, Peer
<1>2. b \in Block /\ DispatcherHas(c, b)
  BY <1>1, MessageFields DEF Inv, Places, DispatcherHas, Carries
<1>3. cell[b] \in [index : Index, val : Val]
  BY <1>2 DEF Inv, Owned, Places, Held
<1>4. PICK i \in Index, v \in Val : i = cell[b].index /\ v = cell[b].val
  BY <1>3
<1>5. cell[b] = Update(i, v)
  BY <1>3, <1>4 DEF Update
<1>6. /\ gblCfg' = [gblCfg EXCEPT ![c][i] = v] /\ gblCfg \in [Core -> [Index -> Val]]
  BY <1>4 DEF UpdateGblVal, Inv, TypeOK
<1>7. /\ OnWay(e, 0, i, v)
      /\ \A j \in Index, w \in Val : OnWay(e, 0, j, w) => j = i /\ w = v
  BY <1>1, <1>5, UpdateIs DEF OnWay, Updates
<1>8. \A d \in Core, k \in Nat, j \in Index, w \in Val :
         OnWay(d, k, j, w)' <=> OnWay(d, k, j, w) /\ (d = e => k # 0)
  BY <1>1, HandledWay DEF Inv
<1>9. e = OwnerOf(i) /\ 0 \in Nat
  BY <1>1, <1>7 DEF SyncInv, Home
<1> HIDE DEF e, b
<1>10. gblCfg'[c][i] = v /\ gblCfg'[e] = gblCfg[e]
       /\ \A d \in Core, j \in Index : j # i => gblCfg'[d][j] = gblCfg[d][j]
  BY <1>1, <1>6
<1>11. Home'
  BY <1>8, OwnerTyped DEF SyncInv, Home
<1>12. Pending'
  <2>1. SUFFICES ASSUME NEW t \in Setter
                 PROVE  IF spc[t] = "push"
                          THEN /\ sidx[t] \in Index /\ SetterOf[sidx[t]] = t
                               /\ cell[sblk[t]] =
                                      Update(sidx[t], gblCfg'[OwnerOf(sidx[t])][sidx[t]])
                          ELSE sidx[t] = NoBlock
    BY <1>1 DEF Pending, Update, OwnerOf
  <2>2. sidx[t] \in Index => OwnerOf(sidx[t]) \in Core
    BY OwnerTyped
  <2> QED
    BY <1>9, <1>10, <2>2 DEF SyncInv, Pending
<1>13. ASSUME NEW j \in Index, Idle(j)'
       PROVE  Settled(j)'
  <2>1. /\ OwnerOf(j) \in Core /\ OwnerOf(j)' = OwnerOf(j) /\ Peer(OwnerOf(j)) \in Core
        /\ Peer(OwnerOf(j))' = Peer(OwnerOf(j))
    BY OwnerTyped DEF Peer
  <2>2. Settled(j)
    BY <1>1, <1>13 DEF SyncInv, Idle
  <2>3. CASE j = i
    <3>1. \A k \in Nat, w \in Val : OnWay(e, k, i, w)' <=> OnWay(e, k, i, w) /\ k # 0
      BY <1>1, <1>8
    <3>2. LastIsOwn(i)'
      <4>1. SUFFICES ASSUME NEW k \in Nat, NEW w \in Val, OnWay(e, k, i, w)',
                            \A l \in Nat, x \in Val : OnWay(e, l, i, x)' => l <= k
                     PROVE  w = gblCfg'[e][i]
        BY <1>9, <2>1, <2>3 DEF LastIsOwn
      <4>2. \A l \in Nat, x \in Val : OnWay(e, l, i, x) => l <= k
        BY <3>1, <4>1
      <4> QED
        BY <1>9, <1>10, <2>2, <2>3, <3>1, <4>1, <4>2 DEF Settled, LastIsOwn
    <3>3. Agreed(i)'
      <4>1. SUFFICES ASSUME \A k \in Nat, w \in Val : ~OnWay(e, k, i, w)'
                     PROVE  gblCfg'[c][i] = gblCfg'[e][i]
        BY <1>1, <1>9, <2>1, <2>3 DEF Agreed
      <4>2. \A k \in Nat, w \in Val : OnWay(e, k, i, w) => k <= 0
        BY <3>1, <4>1
      <4> QED
        BY <1>7, <1>9, <1>10, <2>2, <2>3, <4>2 DEF Settled, LastIsOwn
    <3> QED
      BY <2>3, <3>2, <3>3 DEF Settled
  <2>4. CASE j # i
    <3>1. \A k \in Nat, w \in Val : OnWay(OwnerOf(j), k, j, w)' <=> OnWay(OwnerOf(j), k, j, w)
      BY <1>7, <1>8, <2>1, <2>4
    <3> QED
      BY <1>10, <2>1, <2>2, <2>4, <3>1 DEF Settled, LastIsOwn, Agreed
  <2> QED
    BY <2>3, <2>4
<1> QED
  BY <1>11, <1>12, <1>13 DEF SyncInv

LEMMA HandleSync ==
    ASSUME Inv, SyncInv, NEW c \in Core, DispatchHandle(c, popped[Peer(c)])
    PROVE  SyncInv'
<1> DEFINE m == popped[Peer(c)]
           b == m.data
<1>1. dpc[c] = "handle" /\ UNCHANGED <<queues, setters>> /\ m \in Message
      /\ dpc \in [Core -> {"pop", "handle", "return", "asleep"}]
  BY DEF DispatchHandle, Inv, Places, TypeOK
<1>2. CASE m.id = "GBLUPDATE" /\ UpdateGblVal(c, b)
  BY <1>1, <1>2, CopySync
<1>3. ASSUME m.id # "GBLUPDATE", dpc' = [dpc EXCEPT ![c] = "pop"]
      PROVE  \A d \in Core : popped[Peer(d)].id = "GBLUPDATE" =>
                 (dpc'[d] = "handle" <=> dpc[d] = "handle")
  BY <1>1, <1>3
<1>4. CASE m.id = "FREEMEM" /\ FreeMem(c, b)
  <2>1. /\ cell' = [cell EXCEPT ![b] = NoMsg] /\ dpc' = [dpc EXCEPT ![c] = "pop"]
        /\ gblCfg' = gblCfg
    BY <1>4 DEF FreeMem, Free
  <2>2. b \in Block /\ DispatcherHas(c, b)
    BY <1>1, <1>4, MessageFields DEF DispatcherHas, Carries
  <2>3. \A x \in Block : x # b => cell'[x] = cell[x]
    BY <2>1 DEF Inv, TypeOK
  <2>4. /\ \A d \in Core, k \in Nat : ~MessageHas(d, k, b)
        /\ \A t \in Setter : ~SetterHas(t, b)
        /\ \A d \in Core : d # c => ~DispatcherHas(d, b)
    BY <2>2 DEF Inv, Unique
  <2>5. \A d \in Core : popped[Peer(d)].id = "GBLUPDATE" => ~DispatcherHas(d, b)
    BY <1>4, <2>4
  <2> HIDE DEF b
  <2>6. WayStays
    BY <1>1, <1>3, <1>4, <2>1, <2>2, <2>3, <2>4, <2>5, WayKept
  <2>7. \A t \in Setter : spc[t] = "push" => cell'[sblk[t]] = cell[sblk[t]]
    BY <2>3, <2>4, OwnBlock DEF SetterHas
  <2> QED
    BY <1>1, <2>1, <2>6, <2>7, QuietSync
<1>5. CASE m.id = "BLINKY" /\ BlinkProc(c, b)
  <2>1. /\ cell' = cell /\ dpc' = [dpc EXCEPT ![c] = "pop"] /\ gblCfg' = gblCfg
    BY <1>5 DEF BlinkProc, heap
  <2>2. WayStays
    <3>1. ASSUME NEW d \in Core, NEW k \in Nat, NEW i \in Index, NEW v \in Val
          PROVE  OnWay(d, k, i, v)' <=> OnWay(d, k, i, v)
      <4>1. Peer(d) \in Core /\ Peer(Peer(d)) = d
        BY CorePeer
      <4> QED
        BY <1>1, <1>3, <1>5, <2>1, <4>1 DEF OnWay, Updates, queues, Peer
    <3> QED
      BY <3>1 DEF WayStays
  <2> QED
    BY <1>1, <2>1, <2>2, QuietSync
<1> QED
  BY <1>2, <1>4, <1>5 DEF DispatchHandle

LEMMA ReturnSync ==
    ASSUME Inv, SyncInv, NEW c \in Core, DispatchReturn(c, popped[Peer(c)].data)
    PROVE  SyncInv'
<1> DEFINE m == [id |-> "FREEMEM", data |-> popped[Peer(c)].data]
<1>1. /\ dpc[c] = "return" /\ UNCHANGED <<cell, gblCfg, setters>>
      /\ dpc \in [Core -> {"pop", "handle", "return", "asleep"}]
  BY DEF DispatchReturn, heap, Inv, TypeOK
<1>2. m \in Message /\ m.id # "GBLUPDATE"
  BY <1>1, MessageFields DEF Inv, Places, Message
<1> HIDE DEF m
<1>3. CASE Send(c, m) /\ dpc' = [dpc EXCEPT ![c] = "pop"]
  BY <1>1, <1>2, <1>3, OtherSent
<1>4. CASE UNCHANGED queues /\ dpc' = [dpc EXCEPT ![c] = IF build.rtos THEN "asleep" ELSE "pop"]
  <2>1. \A d \in Core : dpc'[d] = "handle" <=> dpc[d] = "handle"
    BY <1>1, <1>4
  <2>2. WayStays
    BY <1>1, <1>4, <2>1, CorePeer DEF WayStays, OnWay, Updates, queues, Peer
  <2> QED
    BY <1>1, <2>2, QuietSync
<1> QED
  BY <1>3, <1>4 DEF DispatchReturn, m

LEMMA WakeSync ==
    ASSUME Inv, SyncInv, NEW c \in Core, Wake(c)
    PROVE  SyncInv'
<1>1. /\ dpc[c] = "asleep" /\ dpc' = [dpc EXCEPT ![c] = "return"]
      /\ dpc \in [Core -> {"pop", "handle", "return", "asleep"}]
      /\ UNCHANGED <<chan, popped, cell, gblCfg, setters>>
  BY DEF Wake, DispatchPoll, queues, heap, Inv, TypeOK
<1>2. \A d \in Core : dpc'[d] = "handle" <=> dpc[d] = "handle"
  BY <1>1
<1>3. WayStays
  BY <1>1, <1>2, CorePeer DEF WayStays, OnWay, Updates, Peer
<1> QED
  BY <1>1, <1>3, QuietSync

LEMMA BlinkSync ==
    ASSUME Inv, SyncInv, NEW c \in build.blinkers, BlinkStep(c)
    PROVE  SyncInv'
<1> DEFINE m == [id |-> "BLINKY", data |-> blink[c]]
<1>1. /\ c \in Core /\ Send(c, m) /\ UNCHANGED <<cell, gblCfg, dpc, setters>>
  BY BuildTyped DEF BlinkStep, Blink, heap, Inv
<1>2. m \in Message /\ m.id # "GBLUPDATE"
  BY <1>1 DEF Inv, TypeOK, Message
<1> HIDE DEF m
<1> QED
  BY <1>1, <1>2, OtherSent

LEMMA InitSync ==
    ASSUME Init
    PROVE  SyncInv
<1>1. \A c \in Core : Peer(c) \in Core /\ dpc[c] = "pop" /\ chan[c] = <<>> /\ Len(chan[c]) = 0
  BY CorePeer DEF Init, ChanInit
<1>2. \A c \in Core, k \in Nat, i \in Index, v \in Val : ~OnWay(c, k, i, v)
  BY <1>1 DEF OnWay
<1>3. \A i \in Index : gblCfg[Peer(OwnerOf(i))][i] = gblCfg[OwnerOf(i)][i]
  BY OwnerTyped DEF Init
<1>4. Home /\ \A i \in Index : Settled(i)
  BY <1>2, <1>3, OwnerTyped DEF Home, Settled, LastIsOwn, Agreed
<1>5. Pending
  BY DEF Init, Pending
<1> QED
  BY <1>4, <1>5 DEF SyncInv

(* "M0-M4 shared variable": once the last set of a variable has returned 0 *)
(* and its message is delivered, both cores read the value that was set    *)
(* last, whatever the queues and heaps hold and however the updates of     *)
(* other variables, failed sets and returned blocks come in between        *)
(* (ipc_example.h:108-121).                                                *)
THEOREM SyncCorrect == Spec => []Synchronized
<1>1. Init => SyncInv
  BY InitSync
<1>2. Inv /\ SyncInv /\ [Next]_vars => SyncInv'
  <2> SUFFICES ASSUME Inv, SyncInv, [Next]_vars
               PROVE  SyncInv'
    OBVIOUS
  <2>1. ASSUME NEW t \in build.setters, Set(t)
        PROVE  SyncInv'
    <3>1. t \in Setter
      BY BuildTyped DEF Inv
    <3> QED
      BY <2>1, <3>1, NoMemSync, AllocSync, PushSync, FailedSync DEF Set
  <2>2. ASSUME NEW c \in build.blinkers, BlinkStep(c)
        PROVE  SyncInv'
    BY <2>2, BlinkSync
  <2>3. ASSUME NEW c \in Core, Dispatch(c)
        PROVE  SyncInv'
    BY <2>3, PopSync, HandleSync, ReturnSync DEF Dispatch
  <2>4. ASSUME NEW c \in Core, Wake(c)
        PROVE  SyncInv'
    BY <2>4, WakeSync
  <2>5. CASE UNCHANGED vars
    <3>1. WayStays /\ UNCHANGED <<gblCfg, setters, cell>>
      BY <2>5, SameWay DEF vars, queues, heap
    <3> QED
      BY <3>1, QuietSync
  <2> QED
    BY <2>1, <2>2, <2>3, <2>4, <2>5 DEF Next
<1>3. Inv /\ SyncInv => Synchronized
  <2>1. SUFFICES ASSUME Inv, SyncInv, NEW i \in Index, res[i] = 0, ~InFlight(i),
                        sidx[SetterOf[i]] # i
                 PROVE  gblCfg[M4][i] = gblCfg[M0][i]
    BY DEF Synchronized
  <2> DEFINE c == OwnerOf(i)
  <2>2. c \in Core /\ Peer(c) \in Core /\ Peer(Peer(c)) = c
    BY OwnerTyped, CorePeer
  <2>3. \A k \in Nat, v \in Val : ~OnWay(c, k, i, v)
    BY <2>1 DEF InFlight, UpdateOf, OnWay, Updates, Update
  <2>4. gblCfg[Peer(c)][i] = gblCfg[c][i]
    BY <2>1, <2>3 DEF SyncInv, Idle, Settled, Agreed
  <2> QED
    BY <2>2, <2>4, IpcexAssumption DEF Core, Peer
<1> QED
  BY <1>1, <1>2, <1>3, Invariant, PTL DEF Spec

(***************************************************************************)
(* The LED of the other core.  What steps do to the places of the blink    *)
(* states: f is where each of them was before.                             *)
(***************************************************************************)
Train(c) ==
    /\ \A k, l \in BlinkPlaces(c) : Follows(c, k, l) => BlinkState(c, l) = 1 - BlinkState(c, k)
    /\ led[Peer(c)] = 1 =>
           \A k \in BlinkPlaces(c) :
               (\A j \in BlinkPlaces(c) : k <= j) => BlinkState(c, k) = 0

LEMMA TrainMoves ==
    ASSUME NEW c \in Core, Train(c), NEW f,
           BlinkPlaces(c) \subseteq Nat, BlinkPlaces(c)' \subseteq Nat,
           \A k \in BlinkPlaces(c)' :
               f[k] \in BlinkPlaces(c) /\ BlinkState(c, k)' = BlinkState(c, f[k]),
           \A k \in BlinkPlaces(c) : \E l \in BlinkPlaces(c)' : f[l] = k,
           \A k, l \in BlinkPlaces(c)' : k < l => f[k] < f[l],
           led'[Peer(c)] = led[Peer(c)]
    PROVE  Train(c)'
<1>1. \A k, l \in BlinkPlaces(c)' : k <= l => f[k] <= f[l]
  OBVIOUS
<1>2. ASSUME NEW k \in BlinkPlaces(c)', NEW l \in BlinkPlaces(c)', Follows(c, k, l)'
      PROVE  BlinkState(c, l)' = 1 - BlinkState(c, k)'
  <2>1. k < l /\ \A j \in BlinkPlaces(c)' : j <= k \/ l <= j
    BY <1>2 DEF Follows
  <2>2. f[k] < f[l]
    BY <2>1
  <2>3. \A j \in BlinkPlaces(c) : j <= f[k] \/ f[l] <= j
    BY <1>1, <2>1
  <2> QED
    BY <2>2, <2>3 DEF Train, Follows
<1>3. ASSUME led'[Peer(c)] = 1, NEW k \in BlinkPlaces(c)', \A j \in BlinkPlaces(c)' : k <= j
      PROVE  BlinkState(c, k)' = 0
  <2>1. \A j \in BlinkPlaces(c) : f[k] <= j
    BY <1>1, <1>3
  <2> QED
    BY <1>3, <2>1 DEF Train
<1>4. Peer(c)' = Peer(c)
  BY DEF Peer
<1> QED
  BY <1>2, <1>3, <1>4 DEF Train

LEMMA PlaceTyped ==
    ASSUME TypeOK, NEW c \in Core
    PROVE  /\ Len(chan[c]) \in Nat /\ BlinkPlaces(c) \subseteq Nat
           /\ \A k \in BlinkPlaces(c) : k <= Len(chan[c]) + 1
           /\ Len(chan[c]) + 1 \in BlinkPlaces(c)
           /\ BlinkState(c, Len(chan[c]) + 1) = blink[c]
<1>1. chan[c] \in Seq(Message) /\ Len(chan[c]) \in Nat
  BY DEF TypeOK
<1>2. Len(chan[c]) + 1 \in BlinkPlaces(c) /\ BlinkState(c, Len(chan[c]) + 1) = blink[c]
  BY <1>1 DEF BlinkPlaces, BlinkState
<1> QED
  BY <1>1, <1>2 DEF BlinkPlaces

(* Nothing happens to the states between c and its peer.                   *)
LEMMA TrainStays ==
    ASSUME TypeOK, NEW c \in Core, Train(c), chan'[c] = chan[c], popped'[c] = popped[c],
           blink'[c] = blink[c], led'[Peer(c)] = led[Peer(c)],
           popped[c].id = "BLINKY" => (dpc'[Peer(c)] = "handle" <=> dpc[Peer(c)] = "handle")
    PROVE  Train(c)'
<1>1. Peer(c)' = Peer(c) /\ BlinkPlaces(c)' = BlinkPlaces(c)
  BY DEF BlinkPlaces, Peer
<1>2. \A k \in BlinkPlaces(c) : BlinkState(c, k)' = BlinkState(c, k)
  BY DEF BlinkState
<1> QED
  BY <1>1, <1>2 DEF Train, Follows

(* A message is sent: it takes the end place, and the end moves on.        *)
LEMMA SendPlaces ==
    ASSUME TypeOK, NEW c \in Core, NEW m \in Message, Send(c, m), NEW n, n = Len(chan[c]) + 1,
           dpc'[Peer(c)] = "handle" <=> dpc[Peer(c)] = "handle"
    PROVE  /\ n \in Nat
           /\ BlinkPlaces(c)' =
                  (IF m.id = "BLINKY" THEN BlinkPlaces(c) ELSE BlinkPlaces(c) \ {n}) \union {n + 1}
           /\ \A k \in BlinkPlaces(c) : k # n => BlinkState(c, k)' = BlinkState(c, k)
           /\ m.id = "BLINKY" => BlinkState(c, n)' = m.data
           /\ BlinkState(c, n + 1)' = blink'[c]
<1>1. /\ chan \in [Core -> Seq(Message)] /\ popped' = popped
      /\ chan' = [chan EXCEPT ![c] = Append(chan[c], m)]
  BY DEF TypeOK, Send
<1>2. /\ chan[c] \in Seq(Message) /\ Len(chan[c]) \in Nat
      /\ chan'[c] = Append(chan[c], m)
  BY <1>1
<1>3. /\ Len(chan'[c]) = n /\ chan'[c][n] = m
      /\ \A k \in 1 .. Len(chan[c]) : chan'[c][k] = chan[c][k]
  BY <1>2
<1>4. n \in Nat /\ n # 0 /\ Peer(c)' = Peer(c)
  BY <1>2 DEF Peer
<1> DEFINE Q(k) == IF k = 0 THEN dpc[Peer(c)] = "handle" /\ popped[c].id = "BLINKY"
                            ELSE chan[c][k].id = "BLINKY"
<1>5. ASSUME NEW k
      PROVE  k \in BlinkPlaces(c)' <=>
                 \/ k = n + 1
                 \/ k \in 0 .. n - 1 /\ Q(k)
                 \/ k = n /\ m.id = "BLINKY"
  <2>1. k \in BlinkPlaces(c)' <=>
            \/ k = n + 1
            \/ /\ k \in 0 .. n
               /\ IF k = 0 THEN dpc'[Peer(c)] = "handle" /\ popped'[c].id = "BLINKY"
                           ELSE chan'[c][k].id = "BLINKY"
    BY <1>3, <1>4 DEF BlinkPlaces
  <2>2. k \in 0 .. n <=> k \in 0 .. n - 1 \/ k = n
    BY <1>4
  <2>3. k \in 0 .. n - 1 /\ k # 0 => chan'[c][k] = chan[c][k]
    BY <1>2, <1>3
  <2>4. n \notin 0 .. n - 1
    BY <1>4
  <2> QED
    BY <1>1, <1>3, <1>4, <2>1, <2>2, <2>3, <2>4
<1>6. ASSUME NEW k
      PROVE  k \in BlinkPlaces(c) <=> k = n \/ (k \in 0 .. n - 1 /\ Q(k))
  <2>1. 0 .. Len(chan[c]) = 0 .. n - 1
    BY <1>2
  <2>2. k \in BlinkPlaces(c) <=> k = n \/ (k \in 0 .. Len(chan[c]) /\ Q(k))
    BY Zenon DEF BlinkPlaces
  <2> QED
    BY <2>1, <2>2
<1>7. ASSUME NEW k \in BlinkPlaces(c), k # n
      PROVE  BlinkState(c, k)' = BlinkState(c, k)
  <2>1. k \in 0 .. n - 1 /\ k # n + 1
    BY <1>4, <1>6, <1>7
  <2>2. k # 0 => chan'[c][k] = chan[c][k]
    BY <1>2, <1>3, <2>1
  <2> QED
    BY <1>1, <1>3, <1>7, <2>1, <2>2 DEF BlinkState
<1>8. BlinkState(c, n)' = m.data
  BY <1>3, <1>4 DEF BlinkState
<1>9. BlinkState(c, n + 1)' = blink'[c]
  BY <1>3, <1>4 DEF BlinkState
<1>10. n \notin 0 .. n - 1
  BY <1>4
<1> HIDE DEF Q
<1>11. BlinkPlaces(c)' =
           (IF m.id = "BLINKY" THEN BlinkPlaces(c) ELSE BlinkPlaces(c) \ {n}) \union {n + 1}
  <2>1. ASSUME NEW k
        PROVE  k \in BlinkPlaces(c)' <=>
                   \/ k = n + 1
                   \/ k \in BlinkPlaces(c) /\ (m.id = "BLINKY" \/ k # n)
    BY <1>5, <1>6, <1>10
  <2> QED
    BY <2>1
<1> QED
  BY <1>4, <1>7, <1>8, <1>9, <1>11

(* A message of the services is sent: the train of states is as it was.    *)
LEMMA OtherTrain ==
    ASSUME TypeOK, NEW c \in Core, Train(c), NEW m \in Message, m.id # "BLINKY", Send(c, m),
           UNCHANGED leds, dpc'[Peer(c)] = "handle" <=> dpc[Peer(c)] = "handle"
    PROVE  Train(c)'
<1>1. PICK n : n = Len(chan[c]) + 1
  OBVIOUS
<1> DEFINE f == [k \in Nat |-> IF k = n + 1 THEN n ELSE k]
<1>2. /\ n \in Nat
      /\ BlinkPlaces(c)' = (BlinkPlaces(c) \ {n}) \union {n + 1}
      /\ \A k \in BlinkPlaces(c) : k # n => BlinkState(c, k)' = BlinkState(c, k)
      /\ BlinkState(c, n + 1)' = blink[c]
  BY <1>1, SendPlaces DEF leds
<1>3. /\ BlinkPlaces(c) \subseteq Nat /\ n \in BlinkPlaces(c) /\ BlinkState(c, n) = blink[c]
      /\ \A k \in BlinkPlaces(c) : k <= n
  BY <1>1, PlaceTyped
<1>4. BlinkPlaces(c)' \subseteq Nat
  BY <1>2, <1>3
<1>5. \A k \in BlinkPlaces(c)' : f[k] = IF k = n + 1 THEN n ELSE k
  BY <1>4
<1> HIDE DEF f
<1>6. \A k \in BlinkPlaces(c)' :
         f[k] \in BlinkPlaces(c) /\ BlinkState(c, k)' = BlinkState(c, f[k])
  BY <1>2, <1>3, <1>5
<1>7. ASSUME NEW k \in BlinkPlaces(c)
      PROVE  \E l \in BlinkPlaces(c)' : f[l] = k
  <2>1. CASE k = n
    BY <1>2, <1>5, <2>1
  <2>2. CASE k # n
    <3>1. k \in BlinkPlaces(c)' /\ k # n + 1
      BY <1>2, <1>3, <2>2
    <3> QED
      BY <1>5, <3>1
  <2> QED
    BY <2>1, <2>2
<1>8. \A k, l \in BlinkPlaces(c)' : k < l => f[k] < f[l]
  BY <1>2, <1>3, <1>4, <1>5
<1>9. led'[Peer(c)] = led[Peer(c)]
  BY DEF leds
<1> QED
  BY <1>3, <1>4, <1>6, <1>7, <1>8, <1>9, TrainMoves

(* LED_Event_Task sends a state, and turns to the other one.               *)
LEMMA BlinkTrains ==
    ASSUME Inv, NEW c \in Core, Train(c), Blink(c)
    PROVE  Train(c)'
<1> DEFINE m == [id |-> "BLINKY", data |-> blink[c]]
<1>1. /\ Send(c, m) /\ dpc' = dpc /\ led' = led /\ blink[c] \in {0, 1}
      /\ blink'[c] = 1 - blink[c]
  BY DEF Blink, Inv, TypeOK
<1>2. m \in Message /\ m.id = "BLINKY" /\ m.data = blink[c]
  BY <1>1 DEF Message
<1> HIDE DEF m
<1>3. PICK n : n = Len(chan[c]) + 1
  OBVIOUS
<1>4. /\ n \in Nat
      /\ BlinkPlaces(c)' = BlinkPlaces(c) \union {n + 1}
      /\ \A k \in BlinkPlaces(c) : k # n => BlinkState(c, k)' = BlinkState(c, k)
      /\ BlinkState(c, n)' = blink[c]
      /\ BlinkState(c, n + 1)' = 1 - blink[c]
  BY <1>1, <1>2, <1>3, SendPlaces DEF Inv
<1>5. /\ BlinkPlaces(c) \subseteq Nat /\ n \in BlinkPlaces(c) /\ BlinkState(c, n) = blink[c]
      /\ \A k \in BlinkPlaces(c) : k <= n
  BY <1>3, PlaceTyped DEF Inv
<1>6. \A k \in BlinkPlaces(c) : BlinkState(c, k)' = BlinkState(c, k)
  BY <1>4, <1>5
<1>7. ASSUME NEW k \in BlinkPlaces(c)', NEW l \in BlinkPlaces(c)', Follows(c, k, l)'
      PROVE  BlinkState(c, l)' = 1 - BlinkState(c, k)'
  <2>1. k < l /\ \A j \in BlinkPlaces(c)' : j <= k \/ l <= j
    BY <1>7 DEF Follows
  <2>2. CASE l = n + 1
    <3>1. k \in BlinkPlaces(c) /\ (n <= k \/ n + 1 <= n)
      BY <1>4, <1>5, <2>1, <2>2
    <3>2. k = n
      BY <1>4, <1>5, <3>1
    <3> QED
      BY <1>4, <2>2, <3>2
  <2>3. CASE l # n + 1
    <3>1. l \in BlinkPlaces(c) /\ k \in BlinkPlaces(c)
      BY <1>4, <1>5, <2>1, <2>3
    <3>2. Follows(c, k, l)
      BY <1>4, <2>1 DEF Follows
    <3> QED
      BY <1>6, <3>1, <3>2 DEF Train
  <2> QED
    BY <2>2, <2>3
<1>8. ASSUME led'[Peer(c)] = 1, NEW k \in BlinkPlaces(c)', \A j \in BlinkPlaces(c)' : k <= j
      PROVE  BlinkState(c, k)' = 0
  <2>1. k \in BlinkPlaces(c) /\ \A j \in BlinkPlaces(c) : k <= j
    BY <1>4, <1>5, <1>8
  <2> QED
    BY <1>1, <1>6, <1>8, <2>1 DEF Train
<1>9. Peer(c)' = Peer(c)
  BY DEF Peer
<1> QED
  BY <1>7, <1>8, <1>9 DEF Train

(* A message is taken: every place moves down by one.                      *)
LEMMA PopTrains ==
    ASSUME Inv, NEW c \in Core, Train(c), DispatchPop(Peer(c))
    PROVE  Train(c)'
<1>1. /\ Peer(c) \in Core /\ Peer(Peer(c)) = c /\ dpc[Peer(c)] = "pop" /\ Recv(c)
      /\ dpc' = [dpc EXCEPT ![Peer(c)] = "handle"] /\ UNCHANGED leds
      /\ dpc'[Peer(c)] = "handle"
  BY CorePeer DEF DispatchPop, Inv, TypeOK
<1>2. /\ chan \in [Core -> Seq(Message)] /\ chan[c] # <<>>
      /\ chan' = [chan EXCEPT ![c] = Tail(chan[c])]
      /\ popped \in [Core -> Message \union {NoMsg}]
      /\ popped' = [popped EXCEPT ![c] = Head(chan[c])]
  BY <1>1 DEF Inv, TypeOK, Recv
<1>3. PICK n \in Nat : n = Len(chan[c])
  BY PlaceTyped DEF Inv
<1>4. /\ chan[c] \in Seq(Message) /\ n # 0 /\ chan'[c] = Tail(chan[c])
      /\ popped'[c] = chan[c][1]
  BY <1>2, <1>3
<1>5. /\ Len(chan'[c]) = n - 1
      /\ \A k \in 1 .. n - 1 : chan'[c][k] = chan[c][k + 1]
  BY <1>3, <1>4
<1>6. Peer(c)' = Peer(c)
  BY DEF Peer
<1>7. ASSUME NEW k
      PROVE  k \in BlinkPlaces(c)' <=> k \in 0 .. n /\ k + 1 \in BlinkPlaces(c)
  <2>1. k \in BlinkPlaces(c)' <=>
            \/ k = n
            \/ /\ k \in 0 .. n - 1
               /\ IF k = 0 THEN popped'[c].id = "BLINKY" ELSE chan'[c][k].id = "BLINKY"
    <3>1. Len(chan'[c]) + 1 = n
      BY <1>4, <1>5
    <3>2. k \in BlinkPlaces(c)' <=>
              \/ k = Len(chan'[c]) + 1
              \/ /\ k \in 0 .. Len(chan'[c])
                 /\ IF k = 0 THEN dpc'[Peer(c)] = "handle" /\ popped'[c].id = "BLINKY"
                             ELSE chan'[c][k].id = "BLINKY"
      BY <1>6, Zenon DEF BlinkPlaces
    <3> QED
      BY <1>1, <1>5, <3>1, <3>2
  <2>2. ASSUME k \in 0 .. n
        PROVE  k + 1 \in BlinkPlaces(c) <=>
                   k = n \/ (k \in 0 .. n - 1 /\ chan[c][k + 1].id = "BLINKY")
    <3>1. k + 1 \in BlinkPlaces(c) <=>
              \/ k + 1 = n + 1
              \/ /\ k + 1 \in 0 .. n
                 /\ IF k + 1 = 0 THEN dpc[Peer(c)] = "handle" /\ popped[c].id = "BLINKY"
                                 ELSE chan[c][k + 1].id = "BLINKY"
      BY <1>3, Zenon DEF BlinkPlaces
    <3>2. (k + 1 = n + 1 <=> k = n) /\ (k + 1 \in 0 .. n <=> k \in 0 .. n - 1) /\ k + 1 # 0
      BY <2>2
    <3> QED
      BY <3>1, <3>2
  <2>3. k \in 0 .. n - 1 /\ k # 0 => chan'[c][k] = chan[c][k + 1]
    BY <1>5
  <2>4. k = 0 => chan[c][k + 1] = popped'[c]
    BY <1>4
  <2>5. k = n \/ k \in 0 .. n - 1 => k \in 0 .. n
    BY <1>3
  <2> QED
    BY <2>1, <2>2, <2>3, <2>4, <2>5
<1>8. ASSUME NEW k \in BlinkPlaces(c)'
      PROVE  BlinkState(c, k)' = BlinkState(c, k + 1)
  <2>1. k \in 0 .. n /\ k + 1 # 0 /\ (k + 1 = n + 1 <=> k = n) /\ n # 0
    BY <1>4, <1>7
  <2>2. BlinkState(c, k + 1) = IF k = n THEN blink[c] ELSE chan[c][k + 1].data
    BY <1>3, <2>1 DEF BlinkState
  <2>3. BlinkState(c, k)' = IF k = 0 THEN popped'[c].data
                            ELSE IF k = n THEN blink[c] ELSE chan'[c][k].data
    <3>1. Len(chan'[c]) + 1 = n
      BY <1>4, <1>5
    <3> QED
      BY <1>1, <3>1 DEF BlinkState, leds
  <2>4. k = 0 => chan[c][k + 1] = popped'[c] /\ k # n
    BY <1>4, <2>1
  <2>5. k # 0 /\ k # n => chan'[c][k] = chan[c][k + 1]
    BY <1>5, <2>1
  <2> QED
    BY <2>2, <2>3, <2>4, <2>5
<1>9. /\ BlinkPlaces(c) \subseteq Nat /\ \A k \in BlinkPlaces(c) : k <= n + 1
      /\ 0 \notin BlinkPlaces(c)
  <2>1. 0 \notin BlinkPlaces(c)
    BY <1>1, <1>3 DEF BlinkPlaces
  <2> QED
    BY <1>3, <2>1, PlaceTyped DEF Inv
<1> DEFINE f == [k \in Nat |-> k + 1]
<1>10. BlinkPlaces(c)' \subseteq Nat /\ \A k \in BlinkPlaces(c)' : f[k] = k + 1
  BY <1>7
<1> HIDE DEF f
<1>11. ASSUME NEW k \in BlinkPlaces(c)
       PROVE  \E l \in BlinkPlaces(c)' : f[l] = k
  <2>1. k - 1 \in 0 .. n /\ (k - 1) + 1 = k
    BY <1>9
  <2>2. k - 1 \in BlinkPlaces(c)'
    BY <1>7, <2>1
  <2> QED
    BY <1>10, <2>1, <2>2
<1>12. \A k, l \in BlinkPlaces(c)' : k < l => f[k] < f[l]
  BY <1>10
<1>13. \A k \in BlinkPlaces(c)' :
          f[k] \in BlinkPlaces(c) /\ BlinkState(c, k)' = BlinkState(c, f[k])
  BY <1>7, <1>8, <1>10
<1>14. led'[Peer(c)] = led[Peer(c)]
  BY <1>1 DEF leds
<1> QED
  BY <1>9, <1>10, <1>11, <1>12, <1>13, <1>14, TrainMoves

(* The state at place 0 is shown.                                          *)
LEMMA ShowTrains ==
    ASSUME Inv, NEW c \in Core, Train(c), dpc[Peer(c)] = "handle", popped[c].id = "BLINKY",
           BlinkProc(Peer(c), popped[c].data), UNCHANGED <<queues, blink>>
    PROVE  Train(c)'
<1>1. /\ Peer(c) \in Core /\ dpc' = [dpc EXCEPT ![Peer(c)] = "pop"]
      /\ led' = [led EXCEPT ![Peer(c)] = popped[c].data]
      /\ chan' = chan /\ popped' = popped /\ blink' = blink /\ Peer(c)' = Peer(c)
      /\ dpc'[Peer(c)] = "pop" /\ led'[Peer(c)] = popped[c].data
  BY CorePeer DEF BlinkProc, queues, Inv, TypeOK, Peer
<1>2. Len(chan[c]) \in Nat /\ BlinkPlaces(c) \subseteq Nat
  BY PlaceTyped DEF Inv
<1>3. BlinkPlaces(c)' = BlinkPlaces(c) \ {0}
  <2>1. 0 # Len(chan[c]) + 1
    BY <1>2
  <2> QED
    BY <1>1, <2>1 DEF BlinkPlaces
<1>4. 0 \in BlinkPlaces(c) /\ BlinkState(c, 0) = popped[c].data
  BY <1>2 DEF BlinkPlaces, BlinkState
<1>5. \A k : BlinkState(c, k)' = BlinkState(c, k)
  BY <1>1 DEF BlinkState
<1>6. ASSUME NEW k \in BlinkPlaces(c)', NEW l \in BlinkPlaces(c)', Follows(c, k, l)'
      PROVE  BlinkState(c, l)' = 1 - BlinkState(c, k)'
  <2>1. Follows(c, k, l)
    BY <1>2, <1>3, <1>6 DEF Follows
  <2> QED
    BY <1>3, <1>5, <2>1 DEF Train
<1>7. ASSUME led'[Peer(c)] = 1, NEW k \in BlinkPlaces(c)', \A j \in BlinkPlaces(c)' : k <= j
      PROVE  BlinkState(c, k)' = 0
  <2>1. k \in BlinkPlaces(c) /\ Follows(c, 0, k)
    BY <1>2, <1>3, <1>7 DEF Follows
  <2>2. BlinkState(c, k) = 1 - BlinkState(c, 0)
    BY <1>4, <2>1 DEF Train
  <2> QED
    BY <1>1, <1>4, <1>5, <1>7, <2>2
<1> QED
  BY <1>1, <1>6, <1>7 DEF Train

LEMMA DispatchTrains ==
    ASSUME Inv, NEW c \in Core, Train(c), NEW d \in Core, Dispatch(d)
    PROVE  Train(c)'
<1>1. /\ Peer(c) \in Core /\ Peer(Peer(c)) = c /\ Peer(d) \in Core /\ Peer(Peer(d)) = d
      /\ (d # Peer(c) => d = c) /\ c # Peer(c)
  BY CorePeer, IpcexAssumption DEF Core, Peer
<1>2. TypeOK /\ dpc \in [Core -> {"pop", "handle", "return", "asleep"}]
  BY DEF Inv, TypeOK
<1>3. CASE DispatchPop(d)
  <2>1. CASE d = Peer(c)
    BY <1>3, <2>1, PopTrains
  <2>2. CASE d # Peer(c)
    <3>1. /\ chan' = [chan EXCEPT ![Peer(c)] = Tail(chan[Peer(c)])]
          /\ popped' = [popped EXCEPT ![Peer(c)] = Head(chan[Peer(c)])]
          /\ dpc' = [dpc EXCEPT ![c] = "handle"] /\ UNCHANGED leds
      BY <1>1, <1>3, <2>2 DEF DispatchPop, Recv
    <3>2. chan'[c] = chan[c] /\ popped'[c] = popped[c] /\ dpc'[Peer(c)] = dpc[Peer(c)]
      BY <1>1, <1>2, <3>1 DEF TypeOK
    <3> QED
      BY <1>2, <3>1, <3>2, TrainStays DEF leds
  <2> QED
    BY <2>1, <2>2
<1>4. CASE DispatchHandle(d, popped[Peer(d)])
  <2> DEFINE m == popped[Peer(d)]
  <2>1. /\ dpc[d] = "handle" /\ UNCHANGED <<queues, blink>> /\ chan' = chan /\ popped' = popped
        /\ \/ m.id = "GBLUPDATE" /\ UpdateGblVal(d, m.data)
           \/ m.id = "FREEMEM" /\ FreeMem(d, m.data)
           \/ m.id = "BLINKY" /\ BlinkProc(d, m.data)
    BY <1>4 DEF DispatchHandle, queues
  <2>2. CASE d = Peer(c) /\ m.id = "BLINKY"
    BY <1>1, <2>1, <2>2, ShowTrains
  <2>3. CASE d = Peer(c) /\ m.id # "BLINKY"
    <3>1. led' = led
      BY <2>1, <2>3 DEF UpdateGblVal, FreeMem
    <3> QED
      BY <1>1, <1>2, <2>1, <2>3, <3>1, TrainStays
  <2>4. CASE d # Peer(c)
    <3>1. /\ \E to \in {"pop", "return"} : dpc' = [dpc EXCEPT ![d] = to]
          /\ led' = led \/ \E v : led' = [led EXCEPT ![d] = v]
      BY <2>1 DEF UpdateGblVal, FreeMem, BlinkProc
    <3>2. dpc'[Peer(c)] = dpc[Peer(c)] /\ led'[Peer(c)] = led[Peer(c)]
      BY <1>1, <1>2, <2>4, <3>1 DEF TypeOK
    <3> QED
      BY <1>2, <2>1, <3>2, TrainStays
  <2> QED
    BY <2>2, <2>3, <2>4
<1>5. CASE DispatchReturn(d, popped[Peer(d)].data)
  <2> DEFINE m == [id |-> "FREEMEM", data |-> popped[Peer(d)].data]
  <2>1. /\ dpc[d] = "return" /\ UNCHANGED leds
        /\ \/ Send(d, m) /\ dpc' = [dpc EXCEPT ![d] = "pop"]
           \/ /\ dpc' = [dpc EXCEPT ![d] = IF build.rtos THEN "asleep" ELSE "pop"]
              /\ UNCHANGED queues
    BY <1>5 DEF DispatchReturn
  <2>2. m \in Message /\ m.id # "BLINKY"
    BY <2>1, MessageFields DEF Inv, Places, Message
  <2> HIDE DEF m
  <2>3. dpc'[Peer(c)] = "handle" <=> dpc[Peer(c)] = "handle"
    BY <1>1, <1>2, <2>1
  <2>4. CASE Send(d, m) /\ d = c
    BY <1>2, <2>1, <2>2, <2>3, <2>4, OtherTrain
  <2>5. CASE Send(d, m) /\ d # c
    <3>1. chan'[c] = chan[c] /\ popped' = popped
      BY <1>2, <2>5 DEF Send, TypeOK
    <3> QED
      BY <1>2, <2>1, <2>3, <3>1, TrainStays DEF leds
  <2>6. CASE UNCHANGED queues
    BY <1>2, <2>1, <2>3, <2>6, TrainStays DEF leds, queues
  <2> QED
    BY <2>1, <2>4, <2>5, <2>6
<1> QED
  BY <1>3, <1>4, <1>5 DEF Dispatch

LEMMA SetTrains ==
    ASSUME Inv, NEW c \in Core, Train(c), NEW t \in Setter, Set(t)
    PROVE  Train(c)'
<1> DEFINE d == SetterCore[t]
           m == [id |-> "GBLUPDATE", data |-> sblk[t]]
<1>1. TypeOK /\ d \in Core
  BY IpcexAssumption DEF Inv
<1>2. UNCHANGED <<dpc, leds>> /\ (UNCHANGED queues \/ (spc[t] = "push" /\ Send(d, m)))
  BY DEF Set, SetNoMem, SetAlloc, SetPush, SetPushFailed
<1>3. CASE UNCHANGED queues
  BY <1>1, <1>2, <1>3, TrainStays DEF queues, leds
<1>4. CASE spc[t] = "push" /\ Send(d, m)
  <2>1. m \in Message /\ m.id # "BLINKY"
    BY <1>4, OwnBlock DEF Message
  <2> HIDE DEF m, d
  <2>2. CASE c = d
    BY <1>1, <1>2, <1>4, <2>1, <2>2, OtherTrain
  <2>3. CASE c # d
    <3>1. chan'[c] = chan[c] /\ popped' = popped
      BY <1>1, <1>4, <2>3 DEF Send, TypeOK
    <3> QED
      BY <1>1, <1>2, <3>1, TrainStays DEF leds
  <2> QED
    BY <2>2, <2>3
<1> QED
  BY <1>2, <1>3, <1>4

(* The LED of the other core goes on and off in turn: no failed push drops *)
(* or repeats a blink, for every size of the queues and whatever else they *)
(* carry (dualcore_blinky.c:121-131).                                      *)
THEOREM TrainCorrect == Spec => []BlinkTrain
<1>1. BlinkTrain <=> \A c \in Core : Train(c)
  BY DEF BlinkTrain, Train
<1>2. Init => \A c \in Core : Train(c)
  <2>1. SUFFICES ASSUME Init, NEW c \in Core
                 PROVE  Train(c)
    OBVIOUS
  <2>2. /\ Len(chan[c]) = 0 /\ blink[c] = 0 /\ Peer(c) \in Core /\ dpc[Peer(c)] = "pop"
        /\ led[Peer(c)] = 0
    BY <2>1, CorePeer DEF Init, ChanInit
  <2>3. BlinkPlaces(c) = {1}
    BY <2>2 DEF BlinkPlaces
  <2> QED
    BY <2>2, <2>3 DEF Train, Follows
<1>3. Inv /\ (\A c \in Core : Train(c)) /\ [Next]_vars => (\A c \in Core : Train(c))'
  <2>1. SUFFICES ASSUME Inv, NEW c \in Core, Train(c), [Next]_vars
                 PROVE  Train(c)'
    BY DEF Core
  <2>2. TypeOK
    BY <2>1 DEF Inv
  <2>3. ASSUME NEW t \in build.setters, Set(t)
        PROVE  Train(c)'
    <3>1. t \in Setter
      BY <2>2, BuildTyped
    <3> QED
      BY <2>1, <2>3, <3>1, SetTrains
  <2>4. ASSUME NEW d \in build.blinkers, BlinkStep(d)
        PROVE  Train(c)'
    <3>1. d \in Core /\ Blink(d)
      BY <2>2, <2>4, BuildTyped DEF BlinkStep
    <3>2. CASE d = c
      BY <2>1, <3>1, <3>2, BlinkTrains
    <3>3. CASE d # c
      <4>1. chan'[c] = chan[c] /\ popped' = popped /\ blink'[c] = blink[c] /\ UNCHANGED <<dpc, led>>
        BY <2>2, <3>1, <3>3 DEF Blink, Send, TypeOK
      <4> QED
        BY <2>1, <2>2, <4>1, TrainStays
    <3> QED
      BY <3>2, <3>3
  <2>5. ASSUME NEW d \in Core, Dispatch(d)
        PROVE  Train(c)'
    BY <2>1, <2>5, DispatchTrains
  <2>6. ASSUME NEW d \in Core, Wake(d)
        PROVE  Train(c)'
    <3>1. /\ dpc[d] = "asleep" /\ dpc' = [dpc EXCEPT ![d] = "return"]
          /\ UNCHANGED <<chan, popped, blink, led>>
      BY <2>6 DEF Wake, DispatchPoll, queues, leds
    <3>2. dpc'[Peer(c)] = "handle" <=> dpc[Peer(c)] = "handle"
      BY <2>2, <3>1, CorePeer DEF TypeOK
    <3> QED
      BY <2>1, <2>2, <3>1, <3>2, TrainStays
  <2>7. CASE UNCHANGED vars
    BY <2>1, <2>2, <2>7, TrainStays DEF vars, queues, leds
  <2> QED
    BY <2>1, <2>3, <2>4, <2>5, <2>6, <2>7 DEF Next
<1> QED
  BY <1>1, <1>2, <1>3, Invariant, PTL DEF Spec
=============================================================================
