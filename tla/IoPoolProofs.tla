---------------------------- MODULE IoPoolProofs ----------------------------
(***************************************************************************)
(* Proofs about the pool of batch I/O entries, for every number of         *)
(* entries, streams and transfers and every batch size.                    *)
(*                                                                         *)
(* The stack of free entries is a linked list in next; the invariant says  *)
(* that some sequence of nodes, bottom first, is this list.  A push        *)
(* appends to it and a pop takes its last element.  What makes the plain   *)
(* compare-and-swap of acquire sound is that one thread pops: a node it    *)
(* has loaded stays in the list with its next field unchanged, however     *)
(* many callbacks push above it (IssuerInv).                               *)
(***************************************************************************)
EXTENDS IoPool, SequenceFacts

Item == [kind : {"kernel", "release"}, entries : Seq(Nodes)]

PoolTypes ==
    /\ head \in Nodes \cup {Nil}
    /\ next \in [Nodes -> Nodes \cup {Nil}]
    /\ pc \in {"idle", "load", "next", "swap", "launch", "release"}
    /\ stream \in Streams
    /\ ctxs \in 0 .. MaxCtx
    /\ node \in Nodes \cup {Nil}
    /\ below \in Nodes \cup {Nil}
    /\ got \in Seq(Nodes)
    /\ sent \in Seq([first : 0 .. MaxCtx, n : 0 .. MaxCtx])
    /\ issued \in 0 .. MaxXfers
    /\ queue \in [Streams -> Seq(Item)]
    /\ cb \in [Streams -> Seq(Nodes)]
    /\ old \in [Streams -> Nodes \cup {Nil, NotLoaded}]
    /\ leaked \subseteq Nodes

\* st is the stack of free entries, bottom first.
IsStack(st) ==
    /\ st \in Seq(Nodes)
    /\ Injective(st)
    /\ head = IF st = << >> THEN Nil ELSE st[Len(st)]
    /\ \A i \in DOMAIN st : next[st[i]] = IF i = 1 THEN Nil ELSE st[i - 1]

\* Free entries F, acquired ones G, leaked ones L and those of each stream
\* share the nodes among them.
Partition(F, G, L, own) ==
    /\ F \subseteq Nodes /\ G \subseteq Nodes /\ L \subseteq Nodes
    /\ \A s \in Streams : own[s] \subseteq Nodes
    /\ \A x \in Nodes : x \in F \/ x \in G \/ x \in L \/ \E s \in Streams : x \in own[s]
    /\ \A x \in F : x \notin G /\ x \notin L
    /\ \A x \in G : x \notin L
    /\ \A s \in Streams : \A x \in own[s] : x \notin F /\ x \notin G /\ x \notin L
    /\ \A s, u \in Streams : \A x \in own[s] : x \in own[u] => s = u

IsRelease(q, k) == q[k].kind = "release"

\* Entries of the queue q and the running callback c of a stream.
OwnedIn(q, c) ==
    Range(c) \cup UNION {Range(x.entries) : x \in {y \in Range(q) : y.kind = "release"}}

Own == [s \in Streams |-> OwnedBy(s)]

\* No entry is to be released twice.
ReleasedOnce(q, c) ==
    /\ Injective(c)
    /\ \A k \in DOMAIN q : IsRelease(q, k) =>
          Injective(q[k].entries) /\ Range(q[k].entries) \cap Range(c) = {}
    /\ \A k, l \in DOMAIN q : IsRelease(q, k) /\ IsRelease(q, l) /\ k # l =>
          Range(q[k].entries) \cap Range(q[l].entries) = {}

\* The entry of a kernel is held, or released by a callback behind the kernel.
ReleasedBehind(q, held) ==
    \A k \in DOMAIN q : ~IsRelease(q, k) =>
        \A x \in Range(q[k].entries) :
            \/ x \in held
            \/ \E l \in DOMAIN q : l > k /\ IsRelease(q, l) /\ x \in Range(q[l].entries)

\* Entries that a kernel of stream s may read without a callback behind it.
Held(s) == leaked \cup (IF s = stream THEN Range(got) ELSE {})

StreamInv ==
    \A s \in Streams : ReleasedOnce(queue[s], cb[s]) /\ ReleasedBehind(queue[s], Held(s))

IssuerInv(F) ==
    /\ Injective(got)
    /\ pc = "idle" => got = << >> /\ sent = << >>
    /\ pc \in {"next", "swap"} => node \in F
    /\ pc = "swap" => below = next[node]

\* A callback between Hang and Push: its node hangs above the head it loaded.
CallbackInv ==
    \A s \in Streams : old[s] # NotLoaded => cb[s] # << >> /\ next[Head(cb[s])] = old[s]

BatchRange(i) == [first |-> i * ioctxs_per_batch(ctxs), n |-> this_batch_size(ctxs, i)]

BatchInv ==
    /\ pc # "idle" => ctxs \in 1 .. MaxCtx
    /\ pc \in {"load", "next", "swap"} => sent = << >> /\ Len(got) < batch_loop_size(ctxs)
    /\ pc = "launch" => Len(got) = batch_loop_size(ctxs) /\ Len(sent) < Len(got)
    /\ pc = "release" /\ got # << >> /\ Len(sent) = Len(got) => Len(got) = batch_loop_size(ctxs)
    /\ \A i \in DOMAIN sent : sent[i] = BatchRange(i - 1)

PoolInv ==
    /\ PoolTypes
    /\ StreamInv
    /\ CallbackInv
    /\ BatchInv
    /\ \E st : IsStack(st) /\ Partition(Range(st), Range(got), leaked, Own) /\ IssuerInv(Range(st))

-----------------------------------------------------------------------------
(* Who owns an entry. *)

LEMMA PopPartition ==
    ASSUME NEW F, NEW G, NEW L, NEW own, Partition(F, G, L, own), NEW x \in F
    PROVE  Partition(F \ {x}, G \cup {x}, L, own)
BY DEF Partition

LEMMA CallbackPartition ==
    ASSUME NEW F, NEW G, NEW L, NEW own, Partition(F, G, L, own), NEW s \in Streams,
           NEW own2, \A u \in Streams : own2[u] = IF u = s THEN own[s] \cup G ELSE own[u]
    PROVE  Partition(F, {}, L, own2)
BY DEF Partition

LEMMA LeakPartition ==
    ASSUME NEW F, NEW G, NEW L, NEW own, Partition(F, G, L, own)
    PROVE  Partition(F, {}, L \cup G, own)
BY DEF Partition

LEMMA PushPartition ==
    ASSUME NEW F, NEW G, NEW L, NEW own, Partition(F, G, L, own), NEW s \in Streams,
           NEW x \in own[s],
           NEW own2, \A u \in Streams : own2[u] = IF u = s THEN own[s] \ {x} ELSE own[u]
    PROVE  Partition(F \cup {x}, G, L, own2)
BY DEF Partition

LEMMA OwnedMember ==
    ASSUME NEW q, NEW c, NEW x
    PROVE  x \in OwnedIn(q, c) <=>
              \/ x \in Range(c)
              \/ \E k \in DOMAIN q : IsRelease(q, k) /\ x \in Range(q[k].entries)
BY DEF OwnedIn, Range, IsRelease

LEMMA OwnIs == ASSUME NEW s \in Streams
               PROVE  /\ Own[s] = OwnedIn(queue[s], cb[s])
                      /\ Own'[s] = OwnedIn(queue'[s], cb'[s])
BY DEF Own, OwnedBy, ItemsOf, OwnedIn

-----------------------------------------------------------------------------
(* What the steps of a stream do to its queue. *)

LEMMA AppendKernel ==
    ASSUME NEW q \in Seq(Item), NEW c, NEW e \in Nodes, NEW held,
           ReleasedOnce(q, c), ReleasedBehind(q, held), e \in held
    PROVE  /\ Append(q, Kernel(e)) \in Seq(Item)
           /\ OwnedIn(Append(q, Kernel(e)), c) = OwnedIn(q, c)
           /\ ReleasedOnce(Append(q, Kernel(e)), c)
           /\ ReleasedBehind(Append(q, Kernel(e)), held)
<1> DEFINE q2 == Append(q, Kernel(e))
<1>1. Kernel(e) \in Item /\ Kernel(e).kind = "kernel" /\ Kernel(e).entries = <<e>>
    BY DEF Kernel, Item
<1>2. /\ q2 \in Seq(Item) /\ Len(q) \in Nat
      /\ DOMAIN q = 1 .. Len(q) /\ DOMAIN q2 = 1 .. Len(q) + 1
      /\ \A k \in DOMAIN q : q2[k] = q[k]
      /\ q2[Len(q) + 1] = Kernel(e)
    BY <1>1
<1>3. \A k \in DOMAIN q2 : IsRelease(q2, k) => k \in DOMAIN q /\ IsRelease(q, k)
    BY <1>1, <1>2 DEF IsRelease
<1>4. \A k \in DOMAIN q : IsRelease(q, k) <=> IsRelease(q2, k)
    BY <1>2 DEF IsRelease
<1> HIDE DEF q2
<1>5. OwnedIn(q2, c) = OwnedIn(q, c)
  <2>1. \A x : x \in OwnedIn(q2, c) <=> x \in OwnedIn(q, c)
      BY <1>2, <1>3, <1>4, OwnedMember
  <2> QED BY <2>1
<1>6. ReleasedOnce(q2, c)
    BY <1>2, <1>3, <1>4 DEF ReleasedOnce
<1>7. ReleasedBehind(q2, held)
  <2> SUFFICES ASSUME NEW k \in DOMAIN q2, ~IsRelease(q2, k), NEW x \in Range(q2[k].entries)
               PROVE  \/ x \in held
                      \/ \E l \in DOMAIN q2 : l > k /\ IsRelease(q2, l) /\ x \in Range(q2[l].entries)
      BY DEF ReleasedBehind
  <2>1. CASE k = Len(q) + 1
      BY <1>1, <1>2, <2>1 DEF Range
  <2>2. CASE k \in DOMAIN q
      BY <1>2, <1>4, <2>2 DEF ReleasedBehind
  <2> QED BY <1>2, <2>1, <2>2
<1> QED BY <1>2, <1>5, <1>6, <1>7 DEF q2

LEMMA AppendRelease ==
    ASSUME NEW q \in Seq(Item), NEW c, NEW es \in Seq(Nodes), NEW held, NEW held2,
           ReleasedOnce(q, c), ReleasedBehind(q, held),
           Injective(es), Range(es) \cap OwnedIn(q, c) = {},
           held \subseteq held2 \cup Range(es)
    PROVE  /\ Append(q, Release(es)) \in Seq(Item)
           /\ OwnedIn(Append(q, Release(es)), c) = OwnedIn(q, c) \cup Range(es)
           /\ ReleasedOnce(Append(q, Release(es)), c)
           /\ ReleasedBehind(Append(q, Release(es)), held2)
<1> DEFINE q2 == Append(q, Release(es))
<1>1. Release(es) \in Item /\ Release(es).kind = "release" /\ Release(es).entries = es
    BY DEF Release, Item
<1>2. /\ q2 \in Seq(Item) /\ Len(q) \in Nat
      /\ DOMAIN q = 1 .. Len(q) /\ DOMAIN q2 = 1 .. Len(q) + 1
      /\ \A k \in DOMAIN q : q2[k] = q[k]
      /\ q2[Len(q) + 1] = Release(es)
    BY <1>1
<1>3. /\ \A k \in DOMAIN q : IsRelease(q, k) <=> IsRelease(q2, k)
      /\ IsRelease(q2, Len(q) + 1)
    BY <1>1, <1>2 DEF IsRelease
<1>4. \A k \in DOMAIN q : IsRelease(q, k) => Range(q[k].entries) \cap Range(es) = {}
    BY OwnedMember
<1>5. Range(c) \cap Range(es) = {}
    BY OwnedMember
<1> HIDE DEF q2
<1>6. OwnedIn(q2, c) = OwnedIn(q, c) \cup Range(es)
  <2>1. \A x : x \in OwnedIn(q2, c) <=> x \in OwnedIn(q, c) \/ x \in Range(es)
    <3>1. ASSUME NEW x PROVE x \in OwnedIn(q2, c) => x \in OwnedIn(q, c) \/ x \in Range(es)
        BY <1>1, <1>2, <1>3, OwnedMember
    <3>2. ASSUME NEW x PROVE x \in OwnedIn(q, c) => x \in OwnedIn(q2, c)
        BY <1>2, <1>3, OwnedMember
    <3>3. ASSUME NEW x PROVE x \in Range(es) => x \in OwnedIn(q2, c)
        BY <1>1, <1>2, <1>3, OwnedMember
    <3> QED BY <3>1, <3>2, <3>3
  <2> QED BY <2>1
<1>7. ReleasedOnce(q2, c)
  <2>1. \A k \in DOMAIN q2 : k \in DOMAIN q \/ k = Len(q) + 1
      BY <1>2
  <2>2. q2[Len(q) + 1].entries = es
      BY <1>1, <1>2
  <2> QED BY <1>2, <1>3, <1>4, <1>5, <2>1, <2>2 DEF ReleasedOnce
<1>8. ReleasedBehind(q2, held2)
  <2> SUFFICES ASSUME NEW k \in DOMAIN q2, ~IsRelease(q2, k), NEW x \in Range(q2[k].entries)
               PROVE  \/ x \in held2
                      \/ \E l \in DOMAIN q2 : l > k /\ IsRelease(q2, l) /\ x \in Range(q2[l].entries)
      BY DEF ReleasedBehind
  <2>1. k \in DOMAIN q /\ k < Len(q) + 1
      BY <1>2, <1>3
  <2>2. CASE x \in Range(es)
      BY <1>1, <1>2, <1>3, <2>1, <2>2
  <2>3. CASE x \notin Range(es)
      BY <1>2, <1>3, <2>1, <2>3 DEF ReleasedBehind
  <2> QED BY <2>2, <2>3
<1> QED BY <1>2, <1>6, <1>7, <1>8 DEF q2

\* The positions behind the head.
LEMMA TailPositions ==
    ASSUME NEW q \in Seq(Item), q # << >>
    PROVE  /\ Tail(q) \in Seq(Item) /\ Head(q) \in Item
           /\ Len(q) \in Nat \ {0}
           /\ DOMAIN q = 1 .. Len(q) /\ DOMAIN Tail(q) = 1 .. Len(q) - 1
           /\ \A k \in DOMAIN Tail(q) :
                 k + 1 \in DOMAIN q /\ Tail(q)[k] = q[k + 1]
                 /\ (IsRelease(Tail(q), k) <=> IsRelease(q, k + 1))
           /\ \A k \in DOMAIN q : k # 1 =>
                 k - 1 \in DOMAIN Tail(q) /\ Tail(q)[k - 1] = q[k]
                 /\ (IsRelease(Tail(q), k - 1) <=> IsRelease(q, k))
           /\ Head(q) = q[1]
BY DEF IsRelease

LEMMA DropHead ==
    ASSUME NEW q \in Seq(Item), q # << >>, NEW c, NEW held,
           ReleasedOnce(q, c), ReleasedBehind(q, held)
    PROVE  /\ ReleasedOnce(Tail(q), c)
           /\ ReleasedBehind(Tail(q), held)
<1> DEFINE t == Tail(q)
<1>0. /\ t \in Seq(Item) /\ Len(q) \in Nat \ {0}
      /\ DOMAIN q = 1 .. Len(q) /\ DOMAIN t = 1 .. Len(q) - 1
      /\ \A k \in DOMAIN t : k + 1 \in DOMAIN q /\ t[k] = q[k + 1]
                            /\ (IsRelease(t, k) <=> IsRelease(q, k + 1))
      /\ \A k \in DOMAIN q : k # 1 => k - 1 \in DOMAIN t /\ t[k - 1] = q[k]
                            /\ (IsRelease(t, k - 1) <=> IsRelease(q, k))
      /\ Head(q) = q[1]
    BY TailPositions
<1> HIDE DEF t
<1>1. ReleasedOnce(t, c)
  <2>1. ASSUME NEW k \in DOMAIN t, IsRelease(t, k)
        PROVE  Injective(t[k].entries) /\ Range(t[k].entries) \cap Range(c) = {}
    <3>1. k + 1 \in DOMAIN q /\ IsRelease(q, k + 1) /\ t[k] = q[k + 1]
        BY <1>0, <2>1
    <3> QED BY <3>1 DEF ReleasedOnce
  <2>2. ASSUME NEW k \in DOMAIN t, NEW l \in DOMAIN t,
               IsRelease(t, k), IsRelease(t, l), k # l
        PROVE  Range(t[k].entries) \cap Range(t[l].entries) = {}
    <3>1. /\ k + 1 \in DOMAIN q /\ IsRelease(q, k + 1) /\ t[k] = q[k + 1]
          /\ l + 1 \in DOMAIN q /\ IsRelease(q, l + 1) /\ t[l] = q[l + 1]
          /\ k + 1 # l + 1
        BY <1>0, <2>2
    <3> QED BY <3>1 DEF ReleasedOnce
  <2> QED BY <2>1, <2>2 DEF ReleasedOnce
<1>2. ReleasedBehind(t, held)
  <2> SUFFICES ASSUME NEW k \in DOMAIN t, ~IsRelease(t, k),
                      NEW x \in Range(t[k].entries), x \notin held
               PROVE  \E l \in DOMAIN t : l > k /\ IsRelease(t, l)
                                              /\ x \in Range(t[l].entries)
      BY <1>0 DEF ReleasedBehind
  <2>1. PICK l \in DOMAIN q : l > k + 1 /\ IsRelease(q, l) /\ x \in Range(q[l].entries)
      BY <1>0 DEF ReleasedBehind
  <2>2. l - 1 \in DOMAIN t /\ l - 1 > k /\ (l - 1) + 1 = l
      BY <1>0, <2>1
  <2> QED BY <1>0, <2>1, <2>2
<1> QED BY <1>1, <1>2 DEF t

LEMMA DropKernel ==
    ASSUME NEW q \in Seq(Item), q # << >>, NEW c, Head(q).kind = "kernel"
    PROVE  OwnedIn(Tail(q), c) = OwnedIn(q, c)
<1> DEFINE t == Tail(q)
<1>0. /\ t \in Seq(Item) /\ Len(q) \in Nat \ {0}
      /\ DOMAIN q = 1 .. Len(q) /\ DOMAIN t = 1 .. Len(q) - 1
      /\ \A k \in DOMAIN t : k + 1 \in DOMAIN q /\ t[k] = q[k + 1]
                            /\ (IsRelease(t, k) <=> IsRelease(q, k + 1))
      /\ \A k \in DOMAIN q : k # 1 => k - 1 \in DOMAIN t /\ t[k - 1] = q[k]
                            /\ (IsRelease(t, k - 1) <=> IsRelease(q, k))
      /\ Head(q) = q[1]
    BY TailPositions
<1> HIDE DEF t
<1>1. ~IsRelease(q, 1)
    BY <1>0 DEF IsRelease
<1>2. ASSUME NEW x \in OwnedIn(t, c) PROVE x \in OwnedIn(q, c)
  <2>1. CASE x \in Range(c)
      BY <2>1, OwnedMember
  <2>2. CASE \E k \in DOMAIN t : IsRelease(t, k) /\ x \in Range(t[k].entries)
    <3>1. PICK k \in DOMAIN t : IsRelease(t, k) /\ x \in Range(t[k].entries)
        BY <2>2
    <3>2. k + 1 \in DOMAIN q /\ IsRelease(q, k + 1) /\ x \in Range(q[k + 1].entries)
        BY <1>0, <3>1
    <3> QED BY <3>2, OwnedMember
  <2> QED BY <2>1, <2>2, OwnedMember
<1>3. ASSUME NEW x \in OwnedIn(q, c) PROVE x \in OwnedIn(t, c)
  <2>1. CASE x \in Range(c)
      BY <1>0, <2>1, OwnedMember
  <2>2. CASE \E k \in DOMAIN q : IsRelease(q, k) /\ x \in Range(q[k].entries)
    <3>1. PICK k \in DOMAIN q : IsRelease(q, k) /\ x \in Range(q[k].entries)
        BY <1>0, <2>2
    <3>2. k - 1 \in DOMAIN t /\ (k - 1) + 1 = k
        BY <1>0, <1>1, <3>1
    <3> QED BY <1>0, <3>1, <3>2, OwnedMember
  <2> QED BY <1>0, <2>1, <2>2, OwnedMember
<1> QED BY <1>2, <1>3 DEF t

\* A callback starts: its entries move from the queue to the callback.
LEMMA TakeRelease ==
    ASSUME NEW q \in Seq(Item), q # << >>, NEW c, Range(c) = {}, Head(q).kind = "release",
           ReleasedOnce(q, c)
    PROVE  /\ OwnedIn(Tail(q), Head(q).entries) = OwnedIn(q, c)
           /\ ReleasedOnce(Tail(q), Head(q).entries)
<1> DEFINE t == Tail(q)
<1>0. /\ t \in Seq(Item) /\ Len(q) \in Nat \ {0}
      /\ DOMAIN q = 1 .. Len(q) /\ DOMAIN t = 1 .. Len(q) - 1
      /\ \A k \in DOMAIN t : k + 1 \in DOMAIN q /\ t[k] = q[k + 1]
                            /\ (IsRelease(t, k) <=> IsRelease(q, k + 1))
      /\ \A k \in DOMAIN q : k # 1 => k - 1 \in DOMAIN t /\ t[k - 1] = q[k]
                            /\ (IsRelease(t, k - 1) <=> IsRelease(q, k))
      /\ Head(q) = q[1]
    BY TailPositions
<1> HIDE DEF t
<1>1. IsRelease(q, 1)
    BY <1>0 DEF IsRelease
<1>2. ASSUME NEW x \in OwnedIn(t, Head(q).entries) PROVE x \in OwnedIn(q, c)
  <2>1. CASE x \in Range(Head(q).entries)
      BY <1>0, <1>1, <2>1, OwnedMember
  <2>2. CASE \E k \in DOMAIN t : IsRelease(t, k) /\ x \in Range(t[k].entries)
    <3>1. PICK k \in DOMAIN t : IsRelease(t, k) /\ x \in Range(t[k].entries)
        BY <2>2
    <3>2. k + 1 \in DOMAIN q /\ IsRelease(q, k + 1) /\ x \in Range(q[k + 1].entries)
        BY <1>0, <3>1
    <3> QED BY <3>2, OwnedMember
  <2> QED BY <2>1, <2>2, OwnedMember
<1>3. ASSUME NEW x \in OwnedIn(q, c) PROVE x \in OwnedIn(t, Head(q).entries)
  <2>1. PICK k \in DOMAIN q : IsRelease(q, k) /\ x \in Range(q[k].entries)
      BY <1>0, OwnedMember
  <2>2. CASE k = 1
      BY <1>0, <2>1, <2>2, OwnedMember
  <2>3. CASE k # 1
    <3>1. k - 1 \in DOMAIN t /\ IsRelease(t, k - 1) /\ x \in Range(t[k - 1].entries)
        BY <1>0, <2>1, <2>3
    <3> QED BY <3>1, OwnedMember
  <2> QED BY <2>2, <2>3
<1>4. ReleasedOnce(t, Head(q).entries)
  <2>1. Injective(Head(q).entries)
      BY <1>0, <1>1 DEF ReleasedOnce
  <2>2. ASSUME NEW k \in DOMAIN t, IsRelease(t, k)
        PROVE  Injective(t[k].entries) /\ Range(t[k].entries) \cap Range(Head(q).entries) = {}
    <3>1. /\ k + 1 \in DOMAIN q /\ IsRelease(q, k + 1) /\ t[k] = q[k + 1] /\ k + 1 # 1
          /\ 1 \in DOMAIN q
        BY <1>0, <2>2
    <3> QED BY <1>0, <1>1, <3>1 DEF ReleasedOnce
  <2>3. ASSUME NEW k \in DOMAIN t, NEW l \in DOMAIN t,
               IsRelease(t, k), IsRelease(t, l), k # l
        PROVE  Range(t[k].entries) \cap Range(t[l].entries) = {}
    <3>1. /\ k + 1 \in DOMAIN q /\ IsRelease(q, k + 1) /\ t[k] = q[k + 1]
          /\ l + 1 \in DOMAIN q /\ IsRelease(q, l + 1) /\ t[l] = q[l + 1]
          /\ k + 1 # l + 1
        BY <1>0, <2>3
    <3> QED BY <3>1 DEF ReleasedOnce
  <2> QED BY <2>1, <2>2, <2>3 DEF ReleasedOnce
<1> QED BY <1>2, <1>3, <1>4 DEF t

\* A callback has pushed its first entry.
LEMMA DropPushed ==
    ASSUME NEW q, NEW c \in Seq(Nodes), c # << >>, ReleasedOnce(q, c)
    PROVE  /\ OwnedIn(q, Tail(c)) = OwnedIn(q, c) \ {Head(c)}
           /\ Head(c) \in OwnedIn(q, c)
           /\ ReleasedOnce(q, Tail(c))
<1>1. /\ Range(Tail(c)) = Range(c) \ {Head(c)} /\ Injective(Tail(c))
      /\ Head(c) \in Range(c)
    BY TailRange DEF ReleasedOnce
<1>2. \A k \in DOMAIN q : IsRelease(q, k) => Head(c) \notin Range(q[k].entries)
    BY <1>1 DEF ReleasedOnce
<1>3. ReleasedOnce(q, Tail(c))
    BY <1>1 DEF ReleasedOnce
<1>4. \A x : x \in OwnedIn(q, Tail(c)) <=> x \in OwnedIn(q, c) /\ x # Head(c)
    BY <1>1, <1>2, OwnedMember
<1> QED BY <1>1, <1>3, <1>4, OwnedMember

-----------------------------------------------------------------------------
(* The walk down the stack. *)

\* A walk from the head meets the stack's nodes, top first, and ends in Nil.
LEMMA WalkDown ==
    ASSUME PoolTypes, NEW st, IsStack(st)
    PROVE  /\ Len(st) <= Capacity
           /\ Walk = [k \in 0 .. Capacity |-> IF k < Len(st) THEN st[Len(st) - k] ELSE Nil]
<1> DEFINE Step(f) == [k \in 0 .. Capacity |->
                          IF k = 0 THEN head
                          ELSE IF f[k - 1] = Nil THEN Nil ELSE next[f[k - 1]]]
           w == [k \in 0 .. Capacity |-> IF k < Len(st) THEN st[Len(st) - k] ELSE Nil]
<1>1. /\ Capacity \in Nat \ {0} /\ Len(st) \in Nat /\ DOMAIN st = 1 .. Len(st)
      /\ \A i \in DOMAIN st : st[i] \in Nodes /\ st[i] # Nil
    BY PoolAssumption DEF IsStack, Nodes, Nil
<1>2. Len(st) <= Capacity
  <2>1. IsFiniteSet(Nodes) /\ Cardinality(Nodes) = Capacity
      BY <1>1, FS_Interval DEF Nodes
  <2> QED BY <2>1, InjectiveLen DEF IsStack
<1>3. w = Step(w)
  <2>1. ASSUME NEW k \in 0 .. Capacity
        PROVE  w[k] = IF k = 0 THEN head ELSE IF w[k - 1] = Nil THEN Nil ELSE next[w[k - 1]]
    <3>1. CASE k = 0
        BY <1>1, <3>1 DEF IsStack
    <3>2. CASE k # 0 /\ k - 1 < Len(st)
      <4>1. /\ k - 1 \in 0 .. Capacity /\ w[k - 1] = st[Len(st) - (k - 1)]
            /\ Len(st) - (k - 1) \in DOMAIN st
          BY <1>1, <3>2
      <4>2. next[st[Len(st) - (k - 1)]] =
              IF Len(st) - (k - 1) = 1 THEN Nil ELSE st[Len(st) - (k - 1) - 1]
          BY <4>1 DEF IsStack
      <4>3. CASE Len(st) - (k - 1) = 1
          BY <1>1, <3>2, <4>1, <4>2, <4>3
      <4>4. CASE Len(st) - (k - 1) # 1
        <5>1. k < Len(st) /\ Len(st) - (k - 1) - 1 = Len(st) - k
            BY <1>1, <3>2, <4>4
        <5>2. w[k] = st[Len(st) - k]
            BY <1>1, <5>1
        <5>3. next[w[k - 1]] = st[Len(st) - k]
          <6>1. PICK i : i = Len(st) - (k - 1)
              OBVIOUS
          <6>2. w[k - 1] = st[i] /\ i # 1 /\ i - 1 = Len(st) - k
              BY <4>1, <4>4, <5>1, <6>1
          <6>3. next[st[i]] = st[i - 1]
              BY <4>2, <6>1, <6>2
          <6> HIDE DEF w
          <6> QED BY <6>2, <6>3
        <5>4. w[k - 1] # Nil
            BY <1>1, <4>1
        <5> QED BY <3>2, <5>2, <5>3, <5>4
      <4> QED BY <4>3, <4>4
    <3>3. CASE k # 0 /\ ~(k - 1 < Len(st))
        BY <1>1, <3>3
    <3> QED BY <3>1, <3>2, <3>3
  <2> QED BY <2>1
<1>4. Walk = CHOOSE f : f = Step(f)
    BY SMTT(30) DEF Walk
<1>5. Walk = Step(Walk)
    BY <1>3, <1>4
<1>6. \A k \in 0 .. Capacity : Walk[k] = w[k]
  <2> DEFINE T == {k \in 0 .. Capacity : Walk[k] # w[k]}
  <2> SUFFICES ASSUME T # {} PROVE FALSE
      OBVIOUS
  <2>0. T \subseteq Nat
      BY <1>1
  <2> HIDE DEF T
  <2>1. PICK k \in T : \A j \in T : k <= j
      BY <2>0, NatMin
  <2>2. k \in 0 .. Capacity /\ Walk[k] # w[k]
      BY DEF T
  <2> HIDE DEF w
  <2>3. k # 0
      BY <1>3, <1>5, <2>2
  <2>4. k - 1 \in 0 .. Capacity /\ k - 1 \notin T
      BY <1>1, <2>1, <2>2, <2>3
  <2>5. Walk[k - 1] = w[k - 1]
      BY <2>4 DEF T
  <2>6. Step(Walk)[k] = Step(w)[k]
      BY <2>2, <2>5
  <2> HIDE DEF Step
  <2> QED BY <1>3, <1>5, <2>2, <2>6
<1>7. DOMAIN Walk = 0 .. Capacity
    BY <1>5
<1>8. Walk = w
  <2>1. Walk = [k \in 0 .. Capacity |-> Walk[k]]
      BY <1>5
  <2> QED BY <1>6, <2>1
<1> QED BY <1>2, <1>8

LEMMA FreeIsStack ==
    ASSUME PoolTypes, NEW st, IsStack(st)
    PROVE  Free = Range(st) /\ Walk[Capacity] = Nil
<1>1. /\ Capacity \in Nat \ {0} /\ Len(st) \in Nat /\ DOMAIN st = 1 .. Len(st)
      /\ \A i \in DOMAIN st : st[i] \in Nodes /\ st[i] # Nil
    BY PoolAssumption DEF IsStack, Nodes, Nil
<1>2. Len(st) <= Capacity
    BY WalkDown
<1>3. \A k \in 0 .. Capacity : Walk[k] = IF k < Len(st) THEN st[Len(st) - k] ELSE Nil
    BY WalkDown
<1> HIDE DEF Walk
<1>4. ASSUME NEW x \in Free PROVE x \in Range(st)
  <2>1. PICK k \in 0 .. Capacity : x = Walk[k] /\ x # Nil
      BY DEF Free
  <2>2. k < Len(st) /\ x = st[Len(st) - k] /\ Len(st) - k \in DOMAIN st
      BY <1>1, <1>3, <2>1
  <2> QED BY <2>2 DEF Range
<1>5. ASSUME NEW x \in Range(st) PROVE x \in Free
  <2>1. PICK i \in DOMAIN st : x = st[i]
      BY DEF Range
  <2>2. /\ Len(st) - i \in 0 .. Capacity /\ Len(st) - i < Len(st)
        /\ Len(st) - (Len(st) - i) = i
      BY <1>1, <1>2
  <2>3. Walk[Len(st) - i] = x
      BY <1>3, <2>1, <2>2
  <2> QED BY <1>1, <2>1, <2>2, <2>3 DEF Free
<1>6. Walk[Capacity] = Nil
    BY <1>1, <1>2, <1>3
<1> QED BY <1>4, <1>5, <1>6

-----------------------------------------------------------------------------
(* The ranges of contexts of a transfer's batches. *)

LEMMA Multiples ==
    ASSUME NEW P \in Nat \ {0}, NEW a \in Nat, NEW b \in Nat, a < b
    PROVE  a * P \in Nat /\ b * P \in Nat /\ (a + 1) * P = a * P + P /\ a * P + P <= b * P
<1>1. PICK d \in Nat : b = a + 1 + d
  <2>1. b - a - 1 \in Nat /\ b = a + 1 + (b - a - 1)
      OBVIOUS
  <2> QED BY <2>1
<1>2. b * P = a * P + P + d * P /\ d * P >= 0
    BY <1>1
<1> QED BY <1>2

LEMMA Quotient ==
    ASSUME NEW P \in Nat \ {0}, NEW c \in Nat
    PROVE  /\ c \div P \in Nat
           /\ (c \div P) * P \in Nat
           /\ (c \div P) * P <= c
           /\ c < (c \div P) * P + P
OBVIOUS

\* The number of batches: the last one starts inside the transfer, and the
\* batches reach to its end.
LEMMA BatchCount ==
    ASSUME NEW c \in Nat \ {0}
    PROVE  /\ batch_loop_size(c) \in Nat \ {0}
           /\ ioctxs_per_batch(c) \in 1 .. PerEntry
           /\ \A i \in Nat : i * ioctxs_per_batch(c) \in Nat
           /\ \A i \in Nat : i < batch_loop_size(c) <=> i * ioctxs_per_batch(c) < c
<1> DEFINE P == PerEntry
           n == batch_loop_size(c)
           m == ioctxs_per_batch(c)
<1>1. P \in Nat \ {0}
    BY PoolAssumption
<1>2. n \in Nat /\ n * P \in Nat /\ n * P <= c + P - 1 /\ c + P - 1 < n * P + P
    BY <1>1, Quotient, c + P - 1 \in Nat DEF batch_loop_size
<1>3. n # 0
    BY <1>1, <1>2
<1>4. m \in 1 .. P /\ m = IF P < c THEN P ELSE c
    BY <1>1 DEF ioctxs_per_batch, Least
<1> HIDE DEF P, n, m
<1>5. \A i \in Nat : i * m \in Nat
    BY <1>1, <1>4
<1>6. ASSUME NEW i \in Nat PROVE i < n <=> i * m < c
  <2>1. CASE P < c
    <3>1. ASSUME i < n PROVE i * P < c
        BY <1>1, <1>2, <1>3, <3>1, Multiples
    <3>2. ASSUME n < i PROVE c <= i * P
        BY <1>1, <1>2, <1>3, <3>2, Multiples
    <3>3. ASSUME n = i PROVE c <= i * P
        BY <1>1, <1>2, <3>3
    <3> QED BY <1>1, <1>2, <1>4, <1>5, <2>1, <3>1, <3>2, <3>3
  <2>2. CASE ~(P < c)
    <3>1. n = 1
      <4>1. ASSUME 1 < n PROVE FALSE
        <5>1. 1 * P + P <= n * P
            BY <1>1, <1>2, <4>1, Multiples
        <5> QED BY <1>1, <1>2, <2>2, <5>1
      <4> QED BY <1>2, <1>3, <4>1
    <3>2. m = c
        BY <1>4, <2>2
    <3>3. CASE i = 0
        BY <3>1, <3>2, <3>3
    <3>4. CASE i > 0
      <4>1. 0 * c + c <= i * c
          BY <3>4, Multiples
      <4> QED BY <3>1, <3>2, <3>4, <4>1
    <3> QED BY <3>3, <3>4
  <2> QED BY <2>1, <2>2
<1> QED BY <1>2, <1>3, <1>4, <1>5, <1>6 DEF P, n, m

LEMMA BatchSize ==
    ASSUME NEW c \in Nat \ {0}, NEW i \in Nat, i < batch_loop_size(c)
    PROVE  /\ i * ioctxs_per_batch(c) \in 0 .. c
           /\ this_batch_size(c, i) \in 1 .. c
           /\ this_batch_size(c, i) <= PerEntry
           /\ this_batch_size(c, i) =
                 IF ioctxs_per_batch(c) < c - i * ioctxs_per_batch(c)
                 THEN ioctxs_per_batch(c) ELSE c - i * ioctxs_per_batch(c)
<1> DEFINE m == ioctxs_per_batch(c)
<1>1. PerEntry \in Nat /\ m \in 1 .. PerEntry /\ i * m \in Nat /\ i * m < c
    BY BatchCount, PoolAssumption
<1>2. m * i = i * m
    BY <1>1
<1>3. this_batch_size(c, i) = IF m < c - i * m THEN m ELSE c - i * m
    BY <1>2 DEF this_batch_size, Least
<1> HIDE DEF m
<1>4. /\ i * m \in 0 .. c /\ this_batch_size(c, i) \in 1 .. c /\ this_batch_size(c, i) <= PerEntry
    BY <1>1, <1>3
<1> QED BY <1>3, <1>4 DEF m

\* Each context x of a transfer of c contexts is in one batch, x \div per.
LEMMA BatchOf ==
    ASSUME NEW c \in Nat \ {0}, NEW x \in 0 .. c - 1
    PROVE  \E b \in Nat :
              /\ b < batch_loop_size(c)
              /\ \A i \in Nat : i < batch_loop_size(c) =>
                    ((i * ioctxs_per_batch(c) <= x
                        /\ x < i * ioctxs_per_batch(c) + this_batch_size(c, i)) <=> i = b)
<1> DEFINE m == ioctxs_per_batch(c)
           n == batch_loop_size(c)
           b == x \div m
<1>1. /\ PerEntry \in Nat /\ m \in 1 .. PerEntry /\ n \in Nat
      /\ \A i \in Nat : i * m \in Nat /\ (i < n <=> i * m < c)
    BY BatchCount, PoolAssumption
<1>2. b \in Nat /\ b * m \in Nat /\ b * m <= x /\ x < b * m + m
    BY <1>1, Quotient, m \in Nat \ {0}, x \in Nat
<1>3. \A i \in Nat : i < n => this_batch_size(c, i) = IF m < c - i * m THEN m ELSE c - i * m
    BY BatchSize
<1> HIDE DEF m, n, b
<1>4. b < n
    BY <1>1, <1>2
<1>5. ASSUME NEW i \in Nat, i < n
      PROVE  (i * m <= x /\ x < i * m + this_batch_size(c, i)) <=> i = b
  <2>1. this_batch_size(c, i) = (IF m < c - i * m THEN m ELSE c - i * m) /\ i * m \in Nat
      BY <1>1, <1>3, <1>5
  <2>2. CASE i = b
      BY <1>1, <1>2, <2>1, <2>2
  <2>3. CASE i < b
    <3>1. i * m + m <= b * m
        BY <1>1, <1>2, <2>3, Multiples
    <3> QED BY <1>1, <1>2, <2>1, <2>3, <3>1
  <2>4. CASE b < i
    <3>1. b * m + m <= i * m
        BY <1>1, <1>2, <2>4, Multiples
    <3> QED BY <1>1, <1>2, <2>1, <2>4, <3>1
  <2> QED BY <1>2, <2>2, <2>3, <2>4
<1> QED BY <1>2, <1>4, <1>5 DEF m, n

-----------------------------------------------------------------------------
(* The actions of the issuing thread. *)

\* What the invariant says of the stack, for the sequence st that it is.
StackInv(st) ==
    /\ IsStack(st)
    /\ Partition(Range(st), Range(got), leaked, Own)
    /\ IssuerInv(Range(st))

LEMMA InitPool == Init => PoolInv
<1> SUFFICES ASSUME Init PROVE PoolInv
    OBVIOUS
<1> DEFINE st == [i \in 1 .. Capacity |-> i - 1]
<1>1. Capacity \in Nat \ {0} /\ MaxCtx \in Nat \ {0} /\ MaxXfers \in Nat
    BY PoolAssumption
<1>2. PoolTypes
  <2>1. head \in Nodes /\ next \in [Nodes -> Nodes \cup {Nil}]
      BY <1>1 DEF Init, Nodes, Nil
  <2>2. queue \in [Streams -> Seq(Item)] /\ cb \in [Streams -> Seq(Nodes)]
      BY DEF Init
  <2>3. got \in Seq(Nodes) /\ sent \in Seq([first : 0 .. MaxCtx, n : 0 .. MaxCtx])
      BY DEF Init
  <2>4. ctxs \in 0 .. MaxCtx /\ issued \in 0 .. MaxXfers
      BY <1>1 DEF Init
  <2> QED BY <2>1, <2>2, <2>3, <2>4 DEF Init, PoolTypes
<1>3. StreamInv
    BY DEF Init, StreamInv, ReleasedOnce, ReleasedBehind, Injective, Range
<1>4. CallbackInv
    BY DEF Init, CallbackInv
<1>5. BatchInv
    BY DEF Init, BatchInv
<1>6. /\ st \in Seq(Nodes) /\ Len(st) = Capacity /\ DOMAIN st = 1 .. Capacity
      /\ \A i \in 1 .. Capacity : st[i] = i - 1
    BY <1>1 DEF Nodes
<1> HIDE DEF st
<1>7. IsStack(st)
  <2>1. st # << >> /\ head = st[Len(st)]
      BY <1>1, <1>6 DEF Init
  <2>2. Injective(st)
      BY <1>1, <1>6 DEF Injective
  <2>3. ASSUME NEW i \in DOMAIN st
        PROVE  next[st[i]] = IF i = 1 THEN Nil ELSE st[i - 1]
    <3>1. i - 1 \in Nodes /\ next[st[i]] = i - 2
        BY <1>1, <1>6 DEF Init, Nodes
    <3> QED BY <1>1, <1>6, <3>1 DEF Nil
  <2> QED BY <1>6, <2>1, <2>2, <2>3 DEF IsStack
<1>8. Range(st) = Nodes
  <2>1. ASSUME NEW x \in Nodes PROVE x \in Range(st)
    <3>1. x + 1 \in 1 .. Capacity /\ (x + 1) - 1 = x
        BY <1>1 DEF Nodes
    <3> QED BY <1>6, <3>1 DEF Range
  <2> QED BY <1>6, <2>1 DEF Range
<1>9. Range(got) = {} /\ \A s \in Streams : Own[s] = {}
    BY DEF Init, Own, OwnedBy, ItemsOf, Range
<1>10. Partition(Range(st), Range(got), leaked, Own)
    BY <1>8, <1>9 DEF Partition, Init
<1>11. IssuerInv(Range(st))
    BY DEF IssuerInv, Init, Injective
<1> QED BY <1>2, <1>3, <1>4, <1>5, <1>7, <1>10, <1>11 DEF PoolInv

\* Steps that change neither the stack nor who owns an entry.
LEMMA SameOwners ==
    ASSUME NEW st, IsStack(st), Partition(Range(st), Range(got), leaked, Own),
           UNCHANGED <<head, next, got, queue, cb, leaked>>
    PROVE  IsStack(st)' /\ Partition(Range(st), Range(got'), leaked', Own')
BY DEF IsStack, Own, OwnedBy, ItemsOf

LEMMA SameStreams ==
    ASSUME StreamInv, UNCHANGED <<queue, cb, leaked>>,
           (Range(got) = {} /\ Range(got') = {}) \/ UNCHANGED <<got, stream>>
    PROVE  StreamInv'
BY DEF StreamInv, Held

LEMMA SameCallbacks ==
    ASSUME CallbackInv, UNCHANGED <<next, cb, old>>
    PROVE  CallbackInv'
BY DEF CallbackInv

LEMMA BeginPool ==
    ASSUME PoolInv, NEW s \in Streams, NEW c \in 1 .. MaxCtx, Begin(s, c)
    PROVE  PoolInv'
<1>1. /\ MaxCtx \in Nat \ {0} /\ MaxXfers \in Nat /\ issued \in 0 .. MaxXfers
      /\ got = << >> /\ sent = << >>
    BY PoolAssumption DEF PoolInv, PoolTypes, IssuerInv, Begin
<1>2. PoolTypes'
    BY <1>1 DEF PoolInv, PoolTypes, Begin
<1>3. StreamInv'
    BY <1>1, SameStreams DEF PoolInv, Begin, Range
<1>4. CallbackInv'
    BY SameCallbacks DEF PoolInv, Begin
<1>5. BatchInv'
  <2>1. batch_loop_size(ctxs') \in Nat \ {0}
      BY <1>1, BatchCount DEF Begin
  <2> QED BY <1>1, <2>1 DEF BatchInv, Begin
<1>6. PICK st : StackInv(st)
    BY DEF PoolInv, StackInv
<1>7. IsStack(st)' /\ Partition(Range(st), Range(got'), leaked', Own')
    BY <1>6, SameOwners DEF StackInv, Begin
<1>8. IssuerInv(Range(st))'
    BY <1>6 DEF StackInv, IssuerInv, Begin
<1> QED BY <1>2, <1>3, <1>4, <1>5, <1>7, <1>8 DEF PoolInv

LEMMA LoadHeadPool == ASSUME PoolInv, LoadHead PROVE PoolInv'
<1>2. PoolTypes'
    BY DEF PoolInv, PoolTypes, LoadHead
<1>3. StreamInv'
    BY SameStreams DEF PoolInv, LoadHead
<1>4. CallbackInv'
    BY SameCallbacks DEF PoolInv, LoadHead
<1>5. BatchInv'
    BY DEF PoolInv, PoolTypes, BatchInv, LoadHead, BatchRange
<1>6. PICK st : StackInv(st)
    BY DEF PoolInv, StackInv
<1>7. IsStack(st)' /\ Partition(Range(st), Range(got'), leaked', Own')
    BY <1>6, SameOwners DEF StackInv, LoadHead
<1>8. IssuerInv(Range(st))'
  <2>1. head # Nil => head \in Range(st)
      BY <1>6 DEF StackInv, IsStack, Range
  <2> QED BY <1>6, <2>1 DEF StackInv, IssuerInv, LoadHead
<1> QED BY <1>2, <1>3, <1>4, <1>5, <1>7, <1>8 DEF PoolInv

LEMMA LoadNextPool == ASSUME PoolInv, LoadNext PROVE PoolInv'
<1>6. PICK st : StackInv(st)
    BY DEF PoolInv, StackInv
<1>1. node \in Nodes
    BY <1>6 DEF StackInv, IssuerInv, LoadNext, Partition
<1>2. PoolTypes'
    BY <1>1 DEF PoolInv, PoolTypes, LoadNext
<1>3. StreamInv'
    BY SameStreams DEF PoolInv, LoadNext
<1>4. CallbackInv'
    BY SameCallbacks DEF PoolInv, LoadNext
<1>5. BatchInv'
    BY DEF PoolInv, PoolTypes, BatchInv, LoadNext, BatchRange
<1>7. IsStack(st)' /\ Partition(Range(st), Range(got'), leaked', Own')
    BY <1>6, SameOwners DEF StackInv, LoadNext
<1>8. IssuerInv(Range(st))'
    BY <1>6 DEF StackInv, IssuerInv, LoadNext
<1> QED BY <1>2, <1>3, <1>4, <1>5, <1>7, <1>8 DEF PoolInv

LEMMA CopyFailsPool == ASSUME PoolInv, CopyFails PROVE PoolInv'
<1>2. PoolTypes'
    BY DEF PoolInv, PoolTypes, CopyFails
<1>3. StreamInv'
    BY SameStreams DEF PoolInv, CopyFails
<1>4. CallbackInv'
    BY SameCallbacks DEF PoolInv, CopyFails
<1>5. BatchInv'
    BY DEF PoolInv, PoolTypes, BatchInv, CopyFails, BatchRange
<1>6. PICK st : StackInv(st)
    BY DEF PoolInv, StackInv
<1>7. IsStack(st)' /\ Partition(Range(st), Range(got'), leaked', Own')
    BY <1>6, SameOwners DEF StackInv, CopyFails
<1>8. IssuerInv(Range(st))'
    BY <1>6 DEF StackInv, IssuerInv, CopyFails
<1> QED BY <1>2, <1>3, <1>4, <1>5, <1>7, <1>8 DEF PoolInv

\* The stack without its top.
LEMMA PopStack ==
    ASSUME PoolTypes, NEW st, IsStack(st), head # Nil,
           head' = next[head], next' = next
    PROVE  \E st2 : IsStack(st2)' /\ Range(st2) = Range(st) \ {head}
<1>1. /\ Len(st) \in Nat /\ DOMAIN st = 1 .. Len(st) /\ st # << >> /\ Len(st) # 0
      /\ head = st[Len(st)] /\ st \in Seq(Nodes)
    BY DEF IsStack
<1> DEFINE st2 == SubSeq(st, 1, Len(st) - 1)
<1>2. /\ st2 \in Seq(Nodes) /\ Len(st2) = Len(st) - 1 /\ DOMAIN st2 = 1 .. Len(st) - 1
      /\ \A i \in 1 .. Len(st) - 1 : st2[i] = st[i]
    BY <1>1
<1> HIDE DEF st2
<1>8. st2 = << >> <=> Len(st) = 1
    BY <1>1, <1>2
<1>3. Injective(st2)
    BY <1>1, <1>2 DEF IsStack, Injective
<1>4. head' = IF st2 = << >> THEN Nil ELSE st2[Len(st2)]
    BY <1>1, <1>2, <1>8 DEF IsStack
<1>5. \A i \in DOMAIN st2 : next'[st2[i]] = IF i = 1 THEN Nil ELSE st2[i - 1]
  <2> SUFFICES ASSUME NEW i \in DOMAIN st2
               PROVE  next[st2[i]] = IF i = 1 THEN Nil ELSE st2[i - 1]
      OBVIOUS
  <2>1. i \in DOMAIN st /\ st2[i] = st[i] /\ (i # 1 => st2[i - 1] = st[i - 1])
      BY <1>1, <1>2
  <2> QED BY <2>1 DEF IsStack
<1>6. Range(st2) = Range(st) \ {head}
  <2>1. \A i \in DOMAIN st2 : st2[i] = st[i] /\ i \in DOMAIN st /\ i # Len(st)
      BY <1>1, <1>2
  <2>2. \A i \in DOMAIN st : i \in DOMAIN st2 \/ st[i] = head
      BY <1>1, <1>2
  <2>3. Len(st) \in DOMAIN st
      BY <1>1
  <2>4. \A i \in DOMAIN st2 : st2[i] # head
      BY <1>1, <2>1, <2>3 DEF IsStack, Injective
  <2> QED BY <2>1, <2>2, <2>4 DEF Range
<1>7. IsStack(st2)'
    BY <1>2, <1>3, <1>4, <1>5 DEF IsStack
<1> QED BY <1>6, <1>7

LEMMA PopPool == ASSUME PoolInv, Pop PROVE PoolInv'
<1>1. PICK st : StackInv(st)
    BY DEF PoolInv, StackInv
<1>2. /\ node \in Range(st) /\ node \in Nodes /\ below = next[node] /\ below \in Nodes \cup {Nil}
      /\ node # Nil
    BY <1>1, PoolAssumption DEF StackInv, IssuerInv, Partition, Pop, PoolInv, PoolTypes, Nodes, Nil
<1>3. CallbackInv'
    BY SameCallbacks DEF PoolInv, Pop
<1>4. CASE head # node
  <2>1. UNCHANGED <<head, got>> /\ pc' = "load"
      BY <1>4 DEF Pop
  <2>2. PoolTypes'
      BY <2>1 DEF PoolInv, PoolTypes, Pop
  <2>3. StreamInv'
      BY <2>1, SameStreams DEF PoolInv, Pop
  <2>4. BatchInv'
      BY <2>1 DEF PoolInv, BatchInv, Pop
  <2>5. IsStack(st)' /\ Partition(Range(st), Range(got'), leaked', Own')
      BY <1>1, <2>1, SameOwners DEF StackInv, Pop
  <2>6. IssuerInv(Range(st))'
      BY <1>1, <2>1 DEF StackInv, IssuerInv, Pop
  <2> QED BY <1>3, <2>2, <2>3, <2>4, <2>5, <2>6 DEF PoolInv
<1>5. CASE head = node
  <2>1. /\ head' = below /\ got' = Append(got, node)
        /\ pc' = IF Len(got') = batch_loop_size(ctxs) THEN "launch" ELSE "load"
        /\ UNCHANGED <<next, stream, ctxs, sent, issued, queue, cb, old, leaked>>
        /\ node' = Nil /\ below' = Nil
      BY <1>5 DEF Pop
  <2>2. got \in Seq(Nodes) /\ Injective(got) /\ node \notin Range(got)
      BY <1>1, <1>2 DEF PoolInv, PoolTypes, StackInv, IssuerInv, Partition
  <2>3. /\ got' \in Seq(Nodes) /\ Len(got') = Len(got) + 1 /\ Len(got) \in Nat
        /\ Range(got') = Range(got) \cup {node} /\ Injective(got')
      BY <1>2, <2>1, <2>2, AppendRange
  <2>4. PoolTypes'
      BY <1>2, <2>1, <2>3 DEF PoolInv, PoolTypes
  <2>5. StreamInv'
    <3>1. \A s \in Streams : Held(s) \subseteq Held(s)'
        BY <2>1, <2>3 DEF Held
    <3>2. ASSUME NEW s \in Streams
          PROVE  ReleasedOnce(queue'[s], cb'[s]) /\ ReleasedBehind(queue'[s], Held(s)')
      <4>1. ReleasedOnce(queue[s], cb[s]) /\ ReleasedBehind(queue[s], Held(s))
          BY DEF PoolInv, StreamInv
      <4>2. ReleasedBehind(queue[s], Held(s)')
          BY <3>1, <4>1 DEF ReleasedBehind
      <4> QED BY <2>1, <4>1, <4>2
    <3> QED BY <3>2 DEF StreamInv
  <2>6. BatchInv'
    <3>1. /\ ctxs \in 1 .. MaxCtx /\ MaxCtx \in Nat /\ sent = << >>
          /\ Len(got) < batch_loop_size(ctxs)
        BY PoolAssumption DEF PoolInv, BatchInv, Pop
    <3>2. batch_loop_size(ctxs) \in Nat \ {0}
        BY <3>1, BatchCount
    <3>3. sent' = << >> /\ ctxs' = ctxs /\ pc' \in {"launch", "load"} /\ Len(sent') = 0
        BY <2>1, <3>1
    <3>4. batch_loop_size(ctxs') = batch_loop_size(ctxs)
        BY <3>3
    <3>5. pc' = "launch" => Len(got') = batch_loop_size(ctxs')
        BY <2>1, <3>4
    <3>6. pc' = "load" => Len(got') < batch_loop_size(ctxs')
        BY <2>1, <2>3, <3>1, <3>2, <3>4
    <3> QED BY <3>1, <3>2, <3>3, <3>4, <3>5, <3>6 DEF BatchInv
  <2>7. PICK st2 : IsStack(st2)' /\ Range(st2) = Range(st) \ {node}
      BY <1>1, <1>2, <1>5, <2>1, PopStack DEF StackInv, PoolInv
  <2>8. Own' = Own
      BY <2>1 DEF Own, OwnedBy, ItemsOf
  <2>9. Partition(Range(st2), Range(got'), leaked', Own')
      BY <1>1, <1>2, <2>1, <2>3, <2>7, <2>8, PopPartition DEF StackInv
  <2>10. IssuerInv(Range(st2))'
      BY <2>1, <2>3 DEF IssuerInv
  <2> QED BY <1>3, <2>4, <2>5, <2>6, <2>7, <2>9, <2>10 DEF PoolInv
<1> QED BY <1>4, <1>5

\* A kernel enters the stream with an entry the issuer still holds.
LEMMA LaunchPool == ASSUME PoolInv, Launch PROVE PoolInv'
<1> DEFINE i == Len(sent)
           e == got[i + 1]
<1>1. PICK st : StackInv(st)
    BY DEF PoolInv, StackInv
<1>2. /\ i \in Nat /\ Len(got) \in Nat /\ i < Len(got) /\ Len(got) = batch_loop_size(ctxs)
      /\ ctxs \in 1 .. MaxCtx /\ MaxCtx \in Nat /\ got \in Seq(Nodes)
    BY PoolAssumption DEF PoolInv, PoolTypes, BatchInv, Launch
<1>3. e \in Nodes /\ e \in Range(got)
    BY <1>2 DEF Range
<1>4. /\ queue' = [queue EXCEPT ![stream] = Append(@, Kernel(e))]
      /\ sent' = Append(sent, BatchRange(i))
      /\ pc' = IF Len(sent') = batch_loop_size(ctxs) THEN "release" ELSE "launch"
      /\ UNCHANGED <<head, next, stream, ctxs, node, below, got, issued, cb, old, leaked>>
    BY DEF Launch, BatchRange
<1>5. BatchRange(i) \in [first : 0 .. MaxCtx, n : 0 .. MaxCtx]
  <2>1. /\ i * ioctxs_per_batch(ctxs) \in 0 .. ctxs
        /\ this_batch_size(ctxs, i) \in 1 .. ctxs
      BY <1>2, BatchSize
  <2>2. i * ioctxs_per_batch(ctxs) \in 0 .. MaxCtx /\ this_batch_size(ctxs, i) \in 0 .. MaxCtx
      BY <1>2, <2>1
  <2> QED BY <2>2 DEF BatchRange
<1> HIDE DEF e
<1>6. stream \in Streams /\ queue \in [Streams -> Seq(Item)] /\ cb \in [Streams -> Seq(Nodes)]
    BY DEF PoolInv, PoolTypes
<1>7. /\ Append(queue[stream], Kernel(e)) \in Seq(Item)
      /\ OwnedIn(Append(queue[stream], Kernel(e)), cb[stream]) = OwnedIn(queue[stream], cb[stream])
      /\ ReleasedOnce(Append(queue[stream], Kernel(e)), cb[stream])
      /\ ReleasedBehind(Append(queue[stream], Kernel(e)), Held(stream))
  <2>1. e \in Held(stream) /\ queue[stream] \in Seq(Item)
      BY <1>3, <1>6 DEF Held
  <2>2. ReleasedOnce(queue[stream], cb[stream]) /\ ReleasedBehind(queue[stream], Held(stream))
      BY <1>6 DEF PoolInv, StreamInv
  <2> QED BY <1>3, <2>1, <2>2, AppendKernel
<1>8. \A s \in Streams :
         queue'[s] = IF s = stream THEN Append(queue[stream], Kernel(e)) ELSE queue[s]
    BY <1>4, <1>6
<1>9. queue' \in [Streams -> Seq(Item)]
    BY <1>4, <1>6, <1>7
<1>10. /\ sent' \in Seq([first : 0 .. MaxCtx, n : 0 .. MaxCtx])
       /\ Len(sent') = i + 1 /\ DOMAIN sent' = 1 .. i + 1 /\ DOMAIN sent = 1 .. i
       /\ sent'[i + 1] = BatchRange(i) /\ \A k \in 1 .. i : sent'[k] = sent[k]
    BY <1>4, <1>5 DEF PoolInv, PoolTypes
<1>11. PoolTypes'
    BY <1>4, <1>9, <1>10 DEF PoolInv, PoolTypes
<1>12. StreamInv'
  <2>1. ASSUME NEW s \in Streams
        PROVE  ReleasedOnce(queue'[s], cb'[s]) /\ ReleasedBehind(queue'[s], Held(s)')
    <3>1. Held(s)' = Held(s) /\ cb' = cb
        BY <1>4 DEF Held
    <3>2. ReleasedOnce(queue[s], cb[s]) /\ ReleasedBehind(queue[s], Held(s))
        BY DEF PoolInv, StreamInv
    <3> QED BY <1>7, <1>8, <3>1, <3>2
  <2> QED BY <2>1 DEF StreamInv
<1>13. CallbackInv'
    BY <1>4, SameCallbacks DEF PoolInv
<1>14. BatchInv'
  <2>1. ctxs' = ctxs /\ got' = got /\ pc' \in {"release", "launch"}
      BY <1>4
  <2>2. batch_loop_size(ctxs') = batch_loop_size(ctxs)
      BY <2>1
  <2>3. pc' = "launch" => Len(sent') < Len(got')
      BY <1>2, <1>4, <1>10, <2>1
  <2>4. ASSUME NEW k \in DOMAIN sent' PROVE sent'[k] = BatchRange(k - 1)'
    <3>1. BatchRange(k - 1)' = BatchRange(k - 1)
        BY <2>1 DEF BatchRange
    <3>2. CASE k = i + 1
        BY <1>2, <1>10, <3>1, <3>2, (i + 1) - 1 = i
    <3>3. CASE k \in 1 .. i
        BY <1>10, <3>1, <3>3 DEF PoolInv, BatchInv
    <3> QED BY <1>2, <1>10, <3>2, <3>3
  <2> QED BY <1>2, <2>1, <2>2, <2>3, <2>4 DEF BatchInv
<1>15. Partition(Range(st), Range(got'), leaked', Own')
  <2>1. \A s \in Streams : Own'[s] = Own[s]
      BY <1>4, <1>7, <1>8, OwnIs
  <2>2. DOMAIN Own = Streams /\ DOMAIN Own' = Streams /\ Own = [s \in Streams |-> Own[s]]
          /\ Own' = [s \in Streams |-> Own'[s]]
      BY DEF Own
  <2>3. Own' = Own
      BY <2>1, <2>2
  <2> QED BY <1>1, <1>4, <2>3 DEF StackInv
<1>16. IsStack(st)' /\ IssuerInv(Range(st))'
    BY <1>1, <1>4 DEF StackInv, IsStack, IssuerInv
<1> QED BY <1>11, <1>12, <1>13, <1>14, <1>15, <1>16 DEF PoolInv

\* The end of a transfer: the issuer holds nothing any more.
LEMMA ReturnBatch ==
    ASSUME PoolInv, Return
    PROVE  /\ BatchInv' /\ CallbackInv'
           /\ \A F : IssuerInv(F)'
           /\ \A st : IsStack(st) => IsStack(st)'
           /\ got' \in Seq(Nodes) /\ sent' \in Seq([first : 0 .. MaxCtx, n : 0 .. MaxCtx])
           /\ ctxs' \in 0 .. MaxCtx /\ Range(got') = {}
<1>1. MaxCtx \in Nat
    BY PoolAssumption
<1>2. BatchInv'
    BY DEF Return, BatchInv
<1>3. CallbackInv'
    BY SameCallbacks DEF Return, PoolInv
<1>4. \A F : IssuerInv(F)'
    BY DEF Return, IssuerInv, Injective
<1>5. \A st : IsStack(st) => IsStack(st)'
    BY DEF Return, IsStack
<1> QED BY <1>1, <1>2, <1>3, <1>4, <1>5 DEF Return, Range

\* The release callback takes over the issuer's entries, behind the kernels.
LEMMA LaunchCallbackPool == ASSUME PoolInv, LaunchCallback PROVE PoolInv'
<1>1. PICK st : StackInv(st)
    BY DEF PoolInv, StackInv
<1>2. Return
    BY DEF LaunchCallback
<1>3. /\ queue' = [queue EXCEPT ![stream] = Append(@, Release(got))]
      /\ UNCHANGED <<head, next, stream, below, issued, cb, old, leaked>>
      /\ pc' = "idle" /\ node' = Nil
    BY DEF LaunchCallback, Return
<1>4. stream \in Streams /\ queue \in [Streams -> Seq(Item)] /\ cb \in [Streams -> Seq(Nodes)]
      /\ got \in Seq(Nodes) /\ Injective(got)
    BY <1>1 DEF PoolInv, PoolTypes, StackInv, IssuerInv
<1>5. Range(got) \cap OwnedIn(queue[stream], cb[stream]) = {}
  <2>1. \A x \in Own[stream] : x \notin Range(got)
      BY <1>1, <1>4 DEF StackInv, Partition
  <2> QED BY <1>4, <2>1, OwnIs
<1>6. /\ Append(queue[stream], Release(got)) \in Seq(Item)
      /\ OwnedIn(Append(queue[stream], Release(got)), cb[stream])
            = OwnedIn(queue[stream], cb[stream]) \cup Range(got)
      /\ ReleasedOnce(Append(queue[stream], Release(got)), cb[stream])
      /\ ReleasedBehind(Append(queue[stream], Release(got)), leaked)
  <2>1. ReleasedOnce(queue[stream], cb[stream]) /\ ReleasedBehind(queue[stream], Held(stream))
      BY <1>4 DEF PoolInv, StreamInv
  <2>2. Held(stream) \subseteq leaked \cup Range(got)
      BY DEF Held
  <2>3. queue[stream] \in Seq(Item)
      BY <1>4
  <2> QED BY <1>4, <1>5, <2>1, <2>2, <2>3, AppendRelease
<1>7. \A s \in Streams :
         queue'[s] = IF s = stream THEN Append(queue[stream], Release(got)) ELSE queue[s]
    BY <1>3, <1>4
<1>8. queue' \in [Streams -> Seq(Item)]
    BY <1>3, <1>4, <1>6
<1>9. PoolTypes'
    BY <1>2, <1>3, <1>8, ReturnBatch DEF PoolInv, PoolTypes
<1>10. StreamInv'
  <2>1. ASSUME NEW s \in Streams
        PROVE  ReleasedOnce(queue'[s], cb'[s]) /\ ReleasedBehind(queue'[s], Held(s)')
    <3>1. Held(s)' = leaked /\ cb' = cb
        BY <1>2, <1>3, ReturnBatch DEF Held
    <3>2. ReleasedOnce(queue[s], cb[s]) /\ ReleasedBehind(queue[s], Held(s))
        BY DEF PoolInv, StreamInv
    <3>3. s # stream => Held(s) = leaked
        BY DEF Held
    <3> QED BY <1>6, <1>7, <3>1, <3>2, <3>3
  <2> QED BY <2>1 DEF StreamInv
<1>11. Partition(Range(st), Range(got'), leaked', Own')
  <2>1. \A s \in Streams : Own'[s] = IF s = stream THEN Own[stream] \cup Range(got) ELSE Own[s]
      BY <1>3, <1>4, <1>6, <1>7, OwnIs
  <2>2. Partition(Range(st), {}, leaked, Own')
      BY <1>1, <1>4, <2>1, CallbackPartition DEF StackInv
  <2> QED BY <1>2, <1>3, <2>2, ReturnBatch
<1>12. IsStack(st)' /\ IssuerInv(Range(st))' /\ BatchInv' /\ CallbackInv'
    BY <1>1, <1>2, ReturnBatch DEF StackInv
<1> QED BY <1>9, <1>10, <1>11, <1>12 DEF PoolInv

\* A refused callback: the issuer's entries are leaked.
LEMMA CallbackFailsPool == ASSUME PoolInv, CallbackFails PROVE PoolInv'
<1>1. PICK st : StackInv(st)
    BY DEF PoolInv, StackInv
<1>2. Return
    BY DEF CallbackFails
<1>3. /\ leaked' = leaked \cup Range(got)
      /\ UNCHANGED <<head, next, stream, below, issued, cb, old, queue>>
      /\ pc' = "idle" /\ node' = Nil
    BY DEF CallbackFails, Return
<1>4. PoolTypes'
  <2>1. Range(got) \subseteq Nodes
      BY <1>1 DEF StackInv, Partition
  <2> QED BY <1>2, <1>3, <2>1, ReturnBatch DEF PoolInv, PoolTypes
<1>5. StreamInv'
  <2>1. ASSUME NEW s \in Streams
        PROVE  ReleasedOnce(queue'[s], cb'[s]) /\ ReleasedBehind(queue'[s], Held(s)')
    <3>1. Held(s) \subseteq Held(s)'
        BY <1>2, <1>3, ReturnBatch DEF Held
    <3>2. ReleasedOnce(queue[s], cb[s]) /\ ReleasedBehind(queue[s], Held(s))
        BY DEF PoolInv, StreamInv
    <3>3. ReleasedBehind(queue[s], Held(s)')
        BY <3>1, <3>2 DEF ReleasedBehind
    <3> QED BY <1>3, <3>2, <3>3
  <2> QED BY <2>1 DEF StreamInv
<1>6. Partition(Range(st), Range(got'), leaked', Own')
  <2>1. Own' = Own
      BY <1>3 DEF Own, OwnedBy, ItemsOf
  <2>2. Partition(Range(st), {}, leaked \cup Range(got), Own)
      BY <1>1, LeakPartition DEF StackInv
  <2> QED BY <1>2, <1>3, <2>1, <2>2, ReturnBatch
<1>7. IsStack(st)' /\ IssuerInv(Range(st))' /\ BatchInv' /\ CallbackInv'
    BY <1>1, <1>2, ReturnBatch DEF StackInv
<1> QED BY <1>4, <1>5, <1>6, <1>7 DEF PoolInv

-----------------------------------------------------------------------------
(* The actions of the streams. *)

\* Own as a function is determined by its values.
LEMMA SameOwn == ASSUME \A s \in Streams : Own'[s] = Own[s] PROVE Own' = Own
<1>1. Own = [s \in Streams |-> Own[s]] /\ Own' = [s \in Streams |-> Own'[s]]
    BY DEF Own
<1> QED BY <1>1

LEMMA RunKernelPool ==
    ASSUME PoolInv, NEW s \in Streams, RunKernel(s)
    PROVE  PoolInv'
<1>1. PICK st : StackInv(st)
    BY DEF PoolInv, StackInv
<1>2. queue \in [Streams -> Seq(Item)] /\ queue[s] \in Seq(Item) /\ queue[s] # << >>
      /\ Head(queue[s]).kind = "kernel"
    BY DEF PoolInv, PoolTypes, RunKernel
<1>3. queue' = [queue EXCEPT ![s] = Tail(@)] /\ UNCHANGED <<head, next, main, cb, old, leaked>>
    BY DEF RunKernel
<1>4. \A u \in Streams : queue'[u] = IF u = s THEN Tail(queue[s]) ELSE queue[u]
    BY <1>2, <1>3
<1>5. PoolTypes'
  <2>1. Tail(queue[s]) \in Seq(Item)
      BY <1>2, TailPositions
  <2>2. queue' \in [Streams -> Seq(Item)]
      BY <1>2, <1>3, <2>1
  <2> QED BY <1>3, <2>2 DEF PoolInv, PoolTypes, main
<1>6. StreamInv'
  <2>1. ASSUME NEW u \in Streams
        PROVE  ReleasedOnce(queue'[u], cb'[u]) /\ ReleasedBehind(queue'[u], Held(u)')
    <3>1. Held(u)' = Held(u) /\ cb' = cb
        BY <1>3 DEF Held, main
    <3>2. ReleasedOnce(queue[u], cb[u]) /\ ReleasedBehind(queue[u], Held(u))
        BY DEF PoolInv, StreamInv
    <3> QED BY <1>2, <1>4, <3>1, <3>2, DropHead
  <2> QED BY <2>1 DEF StreamInv
<1>7. CallbackInv' /\ BatchInv' /\ IsStack(st)' /\ IssuerInv(Range(st))'
    BY <1>1, <1>3 DEF PoolInv, StackInv, CallbackInv, BatchInv, IsStack, IssuerInv, main, BatchRange
<1>8. Partition(Range(st), Range(got'), leaked', Own')
  <2>1. \A u \in Streams : Own'[u] = Own[u]
      BY <1>2, <1>3, <1>4, OwnIs, DropKernel
  <2> QED BY <1>1, <1>3, <2>1, SameOwn DEF StackInv, main
<1> QED BY <1>5, <1>6, <1>7, <1>8 DEF PoolInv

LEMMA ReleasePool ==
    ASSUME PoolInv, NEW s \in Streams, release_ioctx(s)
    PROVE  PoolInv'
<1>1. PICK st : StackInv(st)
    BY DEF PoolInv, StackInv
<1>2. /\ queue \in [Streams -> Seq(Item)] /\ queue[s] \in Seq(Item) /\ queue[s] # << >>
      /\ cb \in [Streams -> Seq(Nodes)] /\ cb[s] = << >> /\ Range(cb[s]) = {}
      /\ Head(queue[s]).kind = "release" /\ Head(queue[s]).entries \in Seq(Nodes)
  <2>1. /\ queue \in [Streams -> Seq(Item)] /\ queue[s] \in Seq(Item) /\ queue[s] # << >>
        /\ cb \in [Streams -> Seq(Nodes)] /\ cb[s] = << >> /\ Head(queue[s]).kind = "release"
      BY DEF PoolInv, PoolTypes, release_ioctx
  <2>2. Head(queue[s]) \in Item
      BY <2>1, TailPositions
  <2> QED BY <2>1, <2>2 DEF Item, Range
<1>3. /\ queue' = [queue EXCEPT ![s] = Tail(@)] /\ cb' = [cb EXCEPT ![s] = Head(queue[s]).entries]
      /\ UNCHANGED <<head, next, main, old, leaked>>
    BY DEF release_ioctx
<1>4. \A u \in Streams :
         /\ queue'[u] = IF u = s THEN Tail(queue[s]) ELSE queue[u]
         /\ cb'[u] = IF u = s THEN Head(queue[s]).entries ELSE cb[u]
    BY <1>2, <1>3
<1>5. PoolTypes'
  <2>1. Tail(queue[s]) \in Seq(Item)
      BY <1>2, TailPositions
  <2>2. queue' \in [Streams -> Seq(Item)] /\ cb' \in [Streams -> Seq(Nodes)]
      BY <1>2, <1>3, <2>1
  <2> QED BY <1>3, <2>2 DEF PoolInv, PoolTypes, main
<1>6. StreamInv'
  <2>1. ASSUME NEW u \in Streams
        PROVE  ReleasedOnce(queue'[u], cb'[u]) /\ ReleasedBehind(queue'[u], Held(u)')
    <3>1. Held(u)' = Held(u)
        BY <1>3 DEF Held, main
    <3>2. ReleasedOnce(queue[u], cb[u]) /\ ReleasedBehind(queue[u], Held(u))
        BY DEF PoolInv, StreamInv
    <3> QED BY <1>2, <1>4, <3>1, <3>2, DropHead, TakeRelease
  <2> QED BY <2>1 DEF StreamInv
<1>7. CallbackInv'
  <2>1. old[s] = NotLoaded
      BY <1>2 DEF PoolInv, CallbackInv
  <2> QED BY <1>3, <1>4, <2>1 DEF PoolInv, CallbackInv
<1>8. BatchInv' /\ IsStack(st)' /\ IssuerInv(Range(st))'
    BY <1>1, <1>3 DEF PoolInv, StackInv, BatchInv, IsStack, IssuerInv, main, BatchRange
<1>9. Partition(Range(st), Range(got'), leaked', Own')
  <2>1. ASSUME NEW u \in Streams PROVE Own'[u] = Own[u]
    <3>1. ReleasedOnce(queue[u], cb[u])
        BY DEF PoolInv, StreamInv
    <3>2. CASE u = s
      <4>1. OwnedIn(Tail(queue[s]), Head(queue[s]).entries) = OwnedIn(queue[s], cb[s])
          BY <1>2, <3>1, <3>2, TakeRelease
      <4>2. queue'[s] = Tail(queue[s]) /\ cb'[s] = Head(queue[s]).entries
          BY <1>4
      <4> QED BY <3>2, <4>1, <4>2, OwnIs
    <3>3. CASE u # s
      <4>1. queue'[u] = queue[u] /\ cb'[u] = cb[u]
          BY <1>4, <3>3
      <4> QED BY <4>1, OwnIs
    <3> QED BY <3>2, <3>3
  <2> QED BY <1>1, <1>3, <2>1, SameOwn DEF StackInv, main
<1> QED BY <1>5, <1>6, <1>7, <1>8, <1>9 DEF PoolInv

\* The entry a running callback works on belongs to its stream alone.
LEMMA CallbackHead ==
    ASSUME PoolInv, NEW st, StackInv(st), NEW s \in Streams, cb[s] # << >>
    PROVE  /\ Head(cb[s]) \in Own[s] /\ Head(cb[s]) \in Nodes
           /\ Head(cb[s]) \notin Range(st)
           /\ \A u \in Streams : u # s /\ cb[u] # << >> => Head(cb[u]) # Head(cb[s])
<1>1. \A u \in Streams : cb[u] \in Seq(Nodes) /\ ReleasedOnce(queue[u], cb[u])
    BY DEF PoolInv, PoolTypes, StreamInv
<1>2. \A u \in Streams : cb[u] # << >> => Head(cb[u]) \in Own[u]
    BY <1>1, DropPushed, OwnIs
<1> QED BY <1>2 DEF StackInv, Partition

LEMMA HangPool ==
    ASSUME PoolInv, NEW s \in Streams, Hang(s)
    PROVE  PoolInv'
<1> DEFINE h == Head(cb[s])
<1>1. PICK st : StackInv(st)
    BY DEF PoolInv, StackInv
<1>2. /\ cb[s] # << >> /\ old' = [old EXCEPT ![s] = head] /\ next' = [next EXCEPT ![h] = head]
      /\ UNCHANGED <<head, main, queue, cb, leaked>>
    BY DEF Hang
<1>3. /\ h \in Nodes /\ h \notin Range(st)
      /\ \A u \in Streams : u # s /\ cb[u] # << >> => Head(cb[u]) # h
    BY <1>1, <1>2, CallbackHead
<1> HIDE DEF h
<1>4. /\ next \in [Nodes -> Nodes \cup {Nil}] /\ head \in Nodes \cup {Nil}
      /\ old \in [Streams -> Nodes \cup {Nil, NotLoaded}] /\ cb \in [Streams -> Seq(Nodes)]
    BY DEF PoolInv, PoolTypes
<1>5. \A x \in Nodes : next'[x] = IF x = h THEN head ELSE next[x]
    BY <1>2, <1>4
<1>6. PoolTypes'
  <2>1. next' \in [Nodes -> Nodes \cup {Nil}] /\ old' \in [Streams -> Nodes \cup {Nil, NotLoaded}]
      BY <1>2, <1>3, <1>4
  <2> QED BY <1>2, <2>1 DEF PoolInv, PoolTypes, main
<1>7. StreamInv'
    BY <1>2, SameStreams DEF PoolInv, main
<1>8. CallbackInv'
  <2> SUFFICES ASSUME NEW u \in Streams, old'[u] # NotLoaded
               PROVE  cb[u] # << >> /\ next'[Head(cb[u])] = old'[u]
      BY <1>2 DEF CallbackInv
  <2>1. CASE u = s
      BY <1>2, <1>3, <1>4, <1>5, <2>1 DEF h
  <2>2. CASE u # s
    <3>1. old'[u] = old[u]
        BY <1>2, <1>4, <2>2
    <3>2. cb[u] # << >> /\ next[Head(cb[u])] = old[u]
        BY <3>1 DEF PoolInv, CallbackInv
    <3>3. Head(cb[u]) \in Nodes /\ Head(cb[u]) # h
        BY <1>3, <1>4, <2>2, <3>2
    <3> QED BY <1>5, <3>1, <3>2, <3>3
  <2> QED BY <2>1, <2>2
<1>9. BatchInv'
    BY <1>2 DEF PoolInv, BatchInv, main, BatchRange
<1>10. IsStack(st)'
  <2>1. \A i \in DOMAIN st : st[i] \in Nodes /\ st[i] # h
      BY <1>1, <1>3 DEF StackInv, IsStack, Range
  <2> QED BY <1>1, <1>2, <1>5, <2>1 DEF StackInv, IsStack
<1>11. IssuerInv(Range(st))'
  <2>1. \A x \in Range(st) : x \in Nodes /\ x # h
      BY <1>1, <1>3 DEF StackInv, Partition
  <2> QED BY <1>1, <1>2, <1>5, <2>1 DEF StackInv, IssuerInv, main
<1>12. Partition(Range(st), Range(got'), leaked', Own')
    BY <1>1, <1>2 DEF StackInv, Own, OwnedBy, ItemsOf, main
<1> QED BY <1>6, <1>7, <1>8, <1>9, <1>10, <1>11, <1>12 DEF PoolInv

\* The stack with a node hung above its top.
LEMMA PushStack ==
    ASSUME PoolTypes, NEW st, IsStack(st), NEW x \in Nodes, x \notin Range(st),
           next[x] = head, head' = x, next' = next
    PROVE  IsStack(Append(st, x))' /\ Range(Append(st, x)) = Range(st) \cup {x}
<1> DEFINE st2 == Append(st, x)
<1>1. st \in Seq(Nodes) /\ Len(st) \in Nat /\ DOMAIN st = 1 .. Len(st)
    BY DEF IsStack
<1>2. /\ st2 \in Seq(Nodes) /\ Len(st2) = Len(st) + 1 /\ DOMAIN st2 = 1 .. Len(st) + 1
      /\ \A i \in DOMAIN st : st2[i] = st[i]
      /\ st2[Len(st) + 1] = x /\ st2 # << >>
    BY <1>1
<1>3. Range(st2) = Range(st) \cup {x} /\ Injective(st2)
    BY <1>1, AppendRange DEF IsStack
<1> HIDE DEF st2
<1>4. ASSUME NEW i \in DOMAIN st2 PROVE next[st2[i]] = IF i = 1 THEN Nil ELSE st2[i - 1]
  <2>1. CASE i \in DOMAIN st
    <3>1. i # 1 => i - 1 \in DOMAIN st
        BY <1>1, <2>1
    <3> QED BY <1>2, <2>1, <3>1 DEF IsStack
  <2>2. CASE i = Len(st) + 1
    <3>1. st = << >> <=> Len(st) = 0
        BY <1>1
    <3>2. next[st2[i]] = IF st = << >> THEN Nil ELSE st[Len(st)]
        BY <1>2, <2>2 DEF IsStack
    <3>3. i - 1 = Len(st) /\ (Len(st) # 0 => Len(st) \in DOMAIN st)
        BY <1>1, <2>2
    <3> QED BY <1>1, <1>2, <2>2, <3>1, <3>2, <3>3
  <2> QED BY <1>1, <1>2, <2>1, <2>2
<1>5. IsStack(st2)'
    BY <1>2, <1>3, <1>4 DEF IsStack
<1> QED BY <1>3, <1>5 DEF st2

LEMMA PushPool ==
    ASSUME PoolInv, NEW s \in Streams, Push(s)
    PROVE  PoolInv'
<1>1. PICK st : StackInv(st)
    BY DEF PoolInv, StackInv
<1>2. /\ old \in [Streams -> Nodes \cup {Nil, NotLoaded}] /\ cb \in [Streams -> Seq(Nodes)]
      /\ cb[s] # << >> /\ next[Head(cb[s])] = old[s] /\ old' = [old EXCEPT ![s] = NotLoaded]
      /\ UNCHANGED <<next, main, queue, leaked>>
    BY DEF PoolInv, PoolTypes, CallbackInv, Push
<1>3. old' \in [Streams -> Nodes \cup {Nil, NotLoaded}]
      /\ \A u \in Streams : old'[u] = IF u = s THEN NotLoaded ELSE old[u]
    BY <1>2
<1>4. BatchInv'
    BY <1>2 DEF PoolInv, BatchInv, main, BatchRange
<1>5. CASE head # old[s]
  <2>1. UNCHANGED <<head, cb>>
      BY <1>5 DEF Push
  <2>2. PoolTypes' /\ CallbackInv'
      BY <1>2, <1>3, <2>1 DEF PoolInv, PoolTypes, CallbackInv, main
  <2>3. StreamInv'
      BY <1>2, <2>1, SameStreams DEF PoolInv, main
  <2>4. IsStack(st)' /\ IssuerInv(Range(st))'
      BY <1>1, <1>2, <2>1 DEF StackInv, IsStack, IssuerInv, main
  <2>5. Partition(Range(st), Range(got'), leaked', Own')
      BY <1>1, <1>2, <2>1 DEF StackInv, Own, OwnedBy, ItemsOf, main
  <2> QED BY <1>4, <2>2, <2>3, <2>4, <2>5 DEF PoolInv
<1>6. CASE head = old[s]
  <2>0. PICK x : x = Head(cb[s])
      OBVIOUS
  <2>1. head' = x /\ cb' = [cb EXCEPT ![s] = Tail(@)]
      BY <1>6, <2>0 DEF Push
  <2>2. x \in Own[s] /\ x \in Nodes /\ x \notin Range(st)
      BY <1>1, <1>2, <2>0, CallbackHead
  <2>3. next[x] = head
      BY <1>2, <1>6, <2>0
  <2>4. /\ cb[s] \in Seq(Nodes) /\ ReleasedOnce(queue[s], cb[s])
      BY <1>2 DEF PoolInv, StreamInv
  <2>5. /\ OwnedIn(queue[s], Tail(cb[s])) = OwnedIn(queue[s], cb[s]) \ {x}
        /\ ReleasedOnce(queue[s], Tail(cb[s]))
      BY <1>2, <2>0, <2>4, DropPushed
  <2>6. Tail(cb[s]) \in Seq(Nodes)
      BY <1>2, <2>4
  <2>7. \A u \in Streams : cb'[u] = IF u = s THEN Tail(cb[s]) ELSE cb[u]
      BY <1>2, <2>1
  <2>8. cb' \in [Streams -> Seq(Nodes)]
      BY <1>2, <2>1, <2>6
  <2>9. PoolTypes'
      BY <1>2, <1>3, <2>1, <2>2, <2>8 DEF PoolInv, PoolTypes, main
  <2>10. StreamInv'
    <3>1. ASSUME NEW u \in Streams
          PROVE  ReleasedOnce(queue'[u], cb'[u]) /\ ReleasedBehind(queue'[u], Held(u)')
      <4>1. Held(u)' = Held(u) /\ queue' = queue
          BY <1>2 DEF Held, main
      <4>2. ReleasedOnce(queue[u], cb[u]) /\ ReleasedBehind(queue[u], Held(u))
          BY DEF PoolInv, StreamInv
      <4> QED BY <2>5, <2>7, <4>1, <4>2
    <3> QED BY <3>1 DEF StreamInv
  <2>11. CallbackInv'
      BY <1>2, <1>3, <2>7 DEF PoolInv, CallbackInv
  <2>12. /\ IsStack(Append(st, x))' /\ Range(Append(st, x)) = Range(st) \cup {x}
      BY <1>1, <1>2, <2>1, <2>2, <2>3, PushStack DEF StackInv, PoolInv
  <2>13. Partition(Range(st) \cup {x}, Range(got'), leaked', Own')
    <3>1. \A u \in Streams : Own'[u] = IF u = s THEN Own[s] \ {x} ELSE Own[u]
        BY <1>2, <2>5, <2>7, OwnIs
    <3>2. Partition(Range(st), Range(got), leaked, Own)
        BY <1>1 DEF StackInv
    <3>3. Partition(Range(st) \cup {x}, Range(got), leaked, Own')
        BY <2>2, <3>1, <3>2, PushPartition
    <3> QED BY <1>2, <3>3 DEF main
  <2>14. IssuerInv(Range(st) \cup {x})'
      BY <1>1, <1>2 DEF StackInv, IssuerInv, main
  <2> QED BY <1>4, <2>9, <2>10, <2>11, <2>12, <2>13, <2>14 DEF PoolInv
<1> QED BY <1>5, <1>6

-----------------------------------------------------------------------------
(* Theorems *)

\* The invariant the properties rest on: the free entries form a list without
\* a cycle, every entry has one owner, the entry of a waiting kernel is held
\* until a callback behind it releases it, and the issuer's loaded head is
\* still in the list.
THEOREM PoolInvariant == Spec => []PoolInv
<1>1. Init => PoolInv
    BY InitPool
<1>2. PoolInv /\ [Next]_vars => PoolInv'
  <2> SUFFICES ASSUME PoolInv, [Next]_vars PROVE PoolInv'
      OBVIOUS
  <2>1. ASSUME NEW s \in Streams, NEW c \in 1 .. MaxCtx, Begin(s, c) PROVE PoolInv'
      BY <2>1, BeginPool
  <2>2. CASE LoadHead
      BY <2>2, LoadHeadPool
  <2>3. CASE LoadNext
      BY <2>3, LoadNextPool
  <2>4. CASE Pop
      BY <2>4, PopPool
  <2>5. CASE Launch
      BY <2>5, LaunchPool
  <2>6. CASE CopyFails
      BY <2>6, CopyFailsPool
  <2>7. CASE LaunchCallback
      BY <2>7, LaunchCallbackPool
  <2>8. CASE CallbackFails
      BY <2>8, CallbackFailsPool
  <2>9. ASSUME NEW s \in Streams, RunKernel(s) PROVE PoolInv'
      BY <2>9, RunKernelPool
  <2>10. ASSUME NEW s \in Streams, release_ioctx(s) PROVE PoolInv'
      BY <2>10, ReleasePool
  <2>11. ASSUME NEW s \in Streams, Hang(s) PROVE PoolInv'
      BY <2>11, HangPool
  <2>12. ASSUME NEW s \in Streams, Push(s) PROVE PoolInv'
      BY <2>12, PushPool
  <2>13. CASE UNCHANGED vars
    <3>1. PICK st : StackInv(st)
        BY DEF PoolInv, StackInv
    <3>2. IsStack(st)' /\ Partition(Range(st), Range(got'), leaked', Own')
        BY <2>13, <3>1, SameOwners DEF StackInv, vars, main
    <3>3. StreamInv' /\ CallbackInv'
        BY <2>13, SameStreams, SameCallbacks DEF PoolInv, vars, main
    <3>4. PoolTypes' /\ BatchInv' /\ IssuerInv(Range(st))'
        BY <2>13, <3>1 DEF PoolInv, PoolTypes, BatchInv, BatchRange, StackInv, IssuerInv, vars, main
    <3> QED BY <3>2, <3>3, <3>4 DEF PoolInv
  <2> QED BY <2>1, <2>2, <2>3, <2>4, <2>5, <2>6, <2>7, <2>8, <2>9, <2>10, <2>11, <2>12, <2>13
          DEF Next, Issue, Work, Done
<1> QED BY <1>1, <1>2, PTL DEF Spec

\* BatchIoPool: every node, position and count stays in the pool's range, and
\* a walk down the list of free entries from the head ends.
THEOREM PoolTypeOK == Spec => []TypeOK
<1>1. PoolInv => TypeOK
  <2> SUFFICES ASSUME PoolInv PROVE TypeOK
      OBVIOUS
  <2>1. PICK st : IsStack(st)
      BY DEF PoolInv
  <2>2. Walk[Capacity] = Nil
      BY <2>1, FreeIsStack DEF PoolInv
  <2>3. \A s \in Streams : \A k \in DOMAIN queue[s] : queue[s][k] \in Item
      BY DEF PoolInv, PoolTypes
  <2>4. PoolTypes
      BY DEF PoolInv
  <2> QED BY <2>2, <2>3, <2>4 DEF TypeOK, PoolTypes, Item
<1> QED BY <1>1, PoolInvariant, PTL

\* acquire, release and the release callback: however pushes and pops cross,
\* every entry is free, held by the transfer being issued, waiting for one
\* stream's callback or leaked by a refused callback, and only one of these.
THEOREM PoolOneOwner == Spec => []OneOwner
<1>1. PoolInv => OneOwner
  <2> SUFFICES ASSUME PoolInv PROVE OneOwner
      OBVIOUS
  <2>1. PICK st : IsStack(st) /\ Partition(Range(st), Range(got), leaked, Own)
      BY DEF PoolInv
  <2>2. Free = Range(st)
      BY <2>1, FreeIsStack DEF PoolInv
  <2>3. \A s \in Streams : OwnedBy(s) = Own[s]
      BY DEF Own
  <2> HIDE DEF Free
  <2>4. \A x : x \in UNION {OwnedBy(s) : s \in Streams} <=> \E s \in Streams : x \in Own[s]
      BY <2>3
  <2>5. \A s, u \in Streams : s # u => OwnedBy(s) \cap OwnedBy(u) = {}
      BY <2>1, <2>3 DEF Partition
  <2> DEFINE U == UNION {OwnedBy(s) : s \in Streams}
  <2>6. \A x : x \in U <=> \E s \in Streams : x \in Own[s]
      BY <2>4
  <2> HIDE DEF U
  <2>7. Free \cup Range(got) \cup leaked \cup U = Nodes
      BY <2>1, <2>2, <2>6 DEF Partition
  <2>8. Free \cap (Range(got) \cup leaked \cup U) = {}
      BY <2>1, <2>2, <2>6 DEF Partition
  <2>9. Range(got) \cap (leaked \cup U) = {}
      BY <2>1, <2>2, <2>6 DEF Partition
  <2> QED BY <2>5, <2>7, <2>8, <2>9 DEF OneOwner, U
<1> QED BY <1>1, PoolInvariant, PTL

\* A kernel launched by geminifs_batched_xfer reads its entry on the GPU: the
\* entry is never free while the kernel waits in a stream, also after a failed
\* copy or a refused callback.
THEOREM PoolKernelsReadOwnEntries == Spec => []KernelsReadOwnEntries
<1>1. PoolInv => KernelsReadOwnEntries
  <2> SUFFICES ASSUME PoolInv, NEW s \in Streams, NEW k \in DOMAIN queue[s],
                      queue[s][k].kind = "kernel", NEW x \in Range(queue[s][k].entries)
               PROVE  x \notin Free
      BY DEF KernelsReadOwnEntries, ItemsOf, Range
  <2>1. PICK st : IsStack(st) /\ Partition(Range(st), Range(got), leaked, Own)
      BY DEF PoolInv
  <2>2. Free = Range(st)
      BY <2>1, FreeIsStack DEF PoolInv
  <2>3. ~IsRelease(queue[s], k)
      BY DEF IsRelease
  <2>4. \/ x \in Held(s)
        \/ \E l \in DOMAIN queue[s] : IsRelease(queue[s], l) /\ x \in Range(queue[s][l].entries)
      BY <2>3 DEF PoolInv, StreamInv, ReleasedBehind
  <2>5. x \in Held(s) \/ x \in Own[s]
      BY <2>4, OwnedMember, OwnIs
  <2> QED BY <2>1, <2>2, <2>5 DEF Held, Partition
<1> QED BY <1>1, PoolInvariant, PTL

\* geminifs_batched_xfer: the launched batches cover each context of the
\* transfer exactly once and none is larger than an entry, for every number of
\* contexts, also one that the entry size does not divide.
THEOREM PoolBatchesCover == Spec => []BatchesCover
<1>1. PoolInv => BatchesCover
  <2> SUFFICES ASSUME PoolInv, pc = "release", got # << >>, Len(sent) = Len(got)
               PROVE  /\ \A i \in DOMAIN sent : sent[i].n \in 1 .. PerEntry
                      /\ \A c \in 0 .. ctxs - 1 :
                            Cardinality({i \in DOMAIN sent :
                               sent[i].first <= c /\ c < sent[i].first + sent[i].n}) = 1
      BY DEF BatchesCover
  <2>1. /\ ctxs \in Nat \ {0} /\ Len(sent) = batch_loop_size(ctxs) /\ Len(sent) \in Nat
        /\ DOMAIN sent = 1 .. Len(sent) /\ PerEntry \in Nat
      BY PoolAssumption DEF PoolInv, PoolTypes, BatchInv
  <2>2. \A i \in DOMAIN sent :
           /\ i - 1 \in Nat /\ i - 1 < batch_loop_size(ctxs)
           /\ sent[i].first = (i - 1) * ioctxs_per_batch(ctxs)
           /\ sent[i].n = this_batch_size(ctxs, i - 1)
      BY <2>1 DEF PoolInv, BatchInv, BatchRange
  <2>3. \A i \in DOMAIN sent : sent[i].n \in 1 .. PerEntry
    <3> SUFFICES ASSUME NEW i \in DOMAIN sent PROVE sent[i].n \in 1 .. PerEntry
        OBVIOUS
    <3>1. this_batch_size(ctxs, i - 1) \in 1 .. ctxs /\ this_batch_size(ctxs, i - 1) <= PerEntry
        BY <2>1, <2>2, BatchSize
    <3> QED BY <2>1, <2>2, <3>1
  <2>4. ASSUME NEW c \in 0 .. ctxs - 1
        PROVE  Cardinality({i \in DOMAIN sent :
                   sent[i].first <= c /\ c < sent[i].first + sent[i].n}) = 1
    <3>1. PICK b \in Nat :
             /\ b < batch_loop_size(ctxs)
             /\ \A i \in Nat : i < batch_loop_size(ctxs) =>
                   ((i * ioctxs_per_batch(ctxs) <= c
                       /\ c < i * ioctxs_per_batch(ctxs) + this_batch_size(ctxs, i)) <=> i = b)
        BY <2>1, BatchOf
    <3>2. b + 1 \in DOMAIN sent
        BY <2>1, <3>1
    <3>3. ASSUME NEW i \in DOMAIN sent
          PROVE  (sent[i].first <= c /\ c < sent[i].first + sent[i].n) <=> i = b + 1
      <4>1. (sent[i].first <= c /\ c < sent[i].first + sent[i].n) <=> i - 1 = b
          BY <2>2, <3>1
      <4> QED BY <2>1, <3>1, <4>1
    <3>4. {i \in DOMAIN sent : sent[i].first <= c /\ c < sent[i].first + sent[i].n} = {b + 1}
        BY <3>2, <3>3
    <3> QED BY <3>4, FS_Singleton
  <2> QED BY <2>3, <2>4
<1> QED BY <1>1, PoolInvariant, PTL
=============================================================================
