----------------------- MODULE CacheControllerProofs -----------------------
(***************************************************************************)
(* Proofs about the cache controller and its worker agents, for every      *)
(* number of workers, instances and lives of a worker.                     *)
(*                                                                         *)
(* The invariants are about the messages a worker's connection still has   *)
(* to deliver, in the order in which they will arrive, and about what the  *)
(* controller knows by then.  They are predicates of a controller state c  *)
(* and of those streams F, so that they can be followed through a batch    *)
(* message by message although the batch is one step.                      *)
(***************************************************************************)
EXTENDS CacheController, SequenceFacts, SequenceTheorems

-----------------------------------------------------------------------------
(* Streams *)

\* The sequences of S, one behind the other.
Flat(S) ==
    LET f[n \in 0 .. Len(S)] == IF n = 0 THEN << >> ELSE f[n - 1] \o S[n]
    IN  f[Len(S)]

Connections == Workers \X Lives

\* What the life p[2] of the worker p[1] has sent or will send from its queue.
StreamsOf(W, Q, L) ==
    [p \in Connections |-> Flat(W[p]) \o (IF p[2] = L[p[1]] THEN Q[p[1]] ELSE << >>)]

Streams == StreamsOf(wire, queue, life)

Has(s, type) == \E j \in DOMAIN s : s[j].type = type

\* A life's messages: its registration is the first of them, its
\* deregistration the last.
WellFormed(w, s) ==
    \A j \in DOMAIN s :
        /\ s[j].worker = w
        /\ s[j].type = "Register" => j = 1
        /\ s[j].type = "DeRegister" => j = Len(s)

-----------------------------------------------------------------------------
(* Invariants *)

Controllers ==
    [worker_mapping : [Instances -> Seq(Workers)],
     socket_mapping : SUBSET Workers,
     instance_mapping : SUBSET Instances,
     raised : BOOLEAN]

Types ==
    /\ instance \in [Workers -> Instances]
    /\ phase \in [Workers -> {"down", "running", "closing"}]
    /\ life \in [Workers -> 0 .. MaxStarts]
    /\ queue \in [Workers -> Seq(Message)]
    /\ wire \in [Connections -> Seq(Seq(Message))]
    /\ ctl \in Controllers

\* Every start counts, a worker that is down has nothing queued, and a life
\* that has not begun has sent nothing.
Lifetimes ==
    /\ starts \in Nat
    /\ starts <= MaxStarts
    /\ \A w \in Workers :
          /\ life[w] <= starts
          /\ phase[w] = "down" => queue[w] = << >>
          /\ phase[w] # "down" => life[w] > 0
          /\ \A l \in Lives : l > life[w] => wire[<<w, l>>] = << >>

StreamsOk(F) ==
    /\ F \in [Connections -> Seq(Message)]
    /\ \A w \in Workers, l \in Lives :
          /\ WellFormed(w, F[<<w, l>>])
          /\ l > life[w] => F[<<w, l>>] = << >>
          /\ l = life[w] /\ phase[w] = "running" => ~Has(F[<<w, l>>], "DeRegister")

\* How often the list names w.
Listings(list, w) == Cardinality({j \in DOMAIN list : list[j] = w})

\* Lives of w that are registered and may still deregister.
Open(F, w) ==
    {l \in Lives :
        /\ ~Has(F[<<w, l>>], "Register")
        /\ Has(F[<<w, l>>], "DeRegister") \/ (l = life[w] /\ phase[w] = "running")}

Registry(c, F) ==
    /\ ~c.raised
    /\ \A w \in c.socket_mapping : Contains(c.worker_mapping[instance[w]], w)
    /\ \A i \in c.instance_mapping : c.worker_mapping[i] # << >>
    /\ \A w \in Workers : Cardinality(Open(F, w)) <= Listings(c.worker_mapping[instance[w]], w)

\* A worker before and in its first life is registered once its registration
\* has been handled.
First(c, F) ==
    \A w \in Workers :
        /\ life[w] = 0 => Listings(c.worker_mapping[instance[w]], w) = 0
        /\ FirstLife(w) =>
              IF Has(F[<<w, 1>>], "Register")
              THEN Listings(c.worker_mapping[instance[w]], w) = 0
              ELSE Listings(c.worker_mapping[instance[w]], w) = 1 /\ w \in c.socket_mapping

Known(c, F) ==
    /\ StreamsOk(F)
    /\ c \in Controllers
    /\ Registry(c, F)
    /\ First(c, F)

ControllerInv == Types /\ Lifetimes /\ Known(ctl, Streams)

-----------------------------------------------------------------------------
(* Folds *)

\* list.remove takes out one place of the list, where the element is.
LEMMA RemoveFirstOf ==
    ASSUME NEW S, NEW s \in Seq(S), NEW w, Contains(s, w)
    PROVE  \E p \in 1 .. Len(s) :
              /\ s[p] = w
              /\ RemoveFirst(s, w) \in Seq(S)
              /\ Len(RemoveFirst(s, w)) = Len(s) - 1
              /\ \A j \in 1 .. Len(s) - 1 : RemoveFirst(s, w)[j] = IF j < p THEN s[j] ELSE s[j + 1]
<1> DEFINE I == {i \in 1 .. Len(s) : s[i] = w}
<1>1. Len(s) \in Nat /\ I # {} /\ I \subseteq Nat
    BY DEF Contains
<1>2. PICK q \in I : \A y \in I : q <= y
    BY <1>1, NatMin
<1>3. Min(I) \in I
    BY <1>2 DEF Min
<1>4. SelectInSeq(s, LAMBDA v : v = w) = Min(I)
    BY <1>1 DEF SelectInSeq
<1>5. PICK p : p = Min(I)
    OBVIOUS
<1>6. p \in 1 .. Len(s) /\ s[p] = w
    BY <1>3, <1>5
<1>7. RemoveFirst(s, w) = SubSeq(s, 1, p - 1) \o SubSeq(s, p + 1, Len(s))
    BY <1>4, <1>5 DEF RemoveFirst, RemoveAt, Contains
<1>8. PICK n \in Nat : n = Len(s)
    BY <1>1
<1>9. PICK a, b : a = SubSeq(s, 1, p - 1) /\ b = SubSeq(s, p + 1, Len(s))
    OBVIOUS
<1>10. /\ a \in Seq(S) /\ Len(a) = p - 1 /\ \A j \in 1 .. p - 1 : a[j] = s[j]
    BY <1>6, <1>8, <1>9
<1>11. /\ b \in Seq(S) /\ Len(b) = n - p /\ \A j \in 1 .. n - p : b[j] = s[j + p]
    BY <1>6, <1>8, <1>9
<1>12. PICK t : t = a \o b
    OBVIOUS
<1>15. PICK i \in Nat : i = p - 1 /\ Len(a) = i /\ Len(b) = n - 1 - i
    BY <1>6, <1>8, <1>10, <1>11
<1>16. t \in Seq(S) /\ Len(t) = Len(a) + Len(b)
    BY <1>10, <1>11, <1>12, ConcatProperties
<1>17. \A j \in 1 .. Len(a) : t[j] = a[j]
    BY <1>10, <1>11, <1>12
<1>18. \A j \in 1 .. Len(b) : t[j + Len(a)] = b[j]
    BY <1>10, <1>11, <1>12
<1>13. /\ t \in Seq(S) /\ Len(t) = n - 1
    BY <1>8, <1>15, <1>16
<1>14. ASSUME NEW j \in 1 .. n - 1 PROVE t[j] = IF j < p THEN s[j] ELSE s[j + 1]
  <2>1. CASE j < p
    <3>1. j \in 1 .. p - 1 /\ j \in 1 .. Len(a)
        BY <1>6, <1>10, <2>1
    <3> QED BY <1>10, <1>17, <2>1, <3>1
  <2>2. CASE ~(j < p)
    <3>1. PICK x \in 1 .. n - p : x = j - i
        BY <1>6, <1>8, <1>15, <2>2
    <3>2. x + i = j /\ x + p = j + 1 /\ x \in 1 .. Len(b)
        BY <1>6, <1>8, <1>15, <1>11, <3>1
    <3> QED BY <1>11, <1>15, <1>18, <2>2, <3>1, <3>2
  <2> QED BY <2>1, <2>2
<1> QED BY <1>6, <1>7, <1>8, <1>9, <1>12, <1>13, <1>14

-----------------------------------------------------------------------------
(* The registry's lists *)

\* Listings counts places.
LEMMA ListingsCount ==
    ASSUME NEW S, NEW list \in Seq(S), NEW w
    PROVE  /\ IsFiniteSet({j \in DOMAIN list : list[j] = w})
           /\ Listings(list, w) \in Nat
           /\ Listings(list, w) > 0 <=> Contains(list, w)
           /\ Listings(<< >>, w) = 0
<1> DEFINE P == {j \in DOMAIN list : list[j] = w}
<1>1. Len(list) \in Nat /\ DOMAIN list = 1 .. Len(list) /\ P \subseteq 1 .. Len(list)
    OBVIOUS
<1>2. IsFiniteSet(1 .. Len(list))
    BY <1>1, FS_Interval
<1>3. IsFiniteSet(P)
    BY <1>1, <1>2, FS_Subset
<1>4. Cardinality(P) \in Nat /\ (Cardinality(P) = 0 <=> P = {})
    BY <1>3, FS_CardinalityType, FS_EmptySet
<1>5. P # {} <=> Contains(list, w)
    BY <1>1 DEF Contains
<1>6. {j \in DOMAIN << >> : << >>[j] = w} = {}
    OBVIOUS
<1>7. Listings(<< >>, w) = 0
    BY <1>6, FS_EmptySet DEF Listings
<1>8. Listings(list, w) = Cardinality(P)
    BY DEF Listings
<1> HIDE DEF P
<1>9. Listings(list, w) > 0 <=> Contains(list, w)
    BY <1>4, <1>5, <1>8
<1> QED BY <1>3, <1>4, <1>7, <1>8, <1>9 DEF P

\* A registration lists the worker once more, and nobody else.
LEMMA ListingsAppend ==
    ASSUME NEW S, NEW list \in Seq(S), NEW v \in S, NEW w
    PROVE  Listings(Append(list, v), w) = Listings(list, w) + (IF v = w THEN 1 ELSE 0)
<1> DEFINE P == {j \in DOMAIN list : list[j] = w}
           Q == {j \in DOMAIN Append(list, v) : Append(list, v)[j] = w}
<1>1. PICK n \in Nat : n = Len(list)
    OBVIOUS
<1>2. PICK t : t = Append(list, v)
    OBVIOUS
<1>3. /\ DOMAIN list = 1 .. n /\ DOMAIN t = 1 .. n + 1 /\ t[n + 1] = v
      /\ \A j \in 1 .. n : t[j] = list[j]
    BY <1>1, <1>2
<1>4. IsFiniteSet(P) /\ Cardinality(P) \in Nat
    BY ListingsCount, FS_CardinalityType
<1>5. \A j \in 1 .. n + 1 : j \in 1 .. n \/ j = n + 1
    BY <1>1
<1>6. CASE v = w
  <2>1. Q = P \cup {n + 1}
    <3>1. Q = {j \in 1 .. n + 1 : t[j] = w} /\ P = {j \in 1 .. n : list[j] = w} /\ n + 1 \in 1 .. n + 1
        BY <1>1, <1>2, <1>3
    <3>2. \A j : j \in Q <=> j \in P \/ j = n + 1
        BY <1>1, <1>3, <1>5, <1>6, <3>1
    <3> QED BY <3>2
  <2>2. n + 1 \notin P
      BY <1>1, <1>3
  <2> HIDE DEF P, Q
  <2>3. Cardinality(Q) = Cardinality(P) + 1
      BY <1>4, <2>1, <2>2, FS_AddElement
  <2> QED BY <1>6, <2>3 DEF P, Q, Listings
<1>7. CASE v # w
  <2>1. Q = P
    <3>1. Q = {j \in 1 .. n + 1 : t[j] = w} /\ P = {j \in 1 .. n : list[j] = w}
        BY <1>1, <1>2, <1>3
    <3>2. \A j : j \in Q <=> j \in P
        BY <1>1, <1>3, <1>5, <1>7, <3>1
    <3> QED BY <3>2
  <2>2. Cardinality(Q) = Cardinality(P) + 0
    <3> HIDE DEF P, Q
    <3> QED BY <1>4, <2>1
  <2> QED BY <1>7, <2>2 DEF Listings
<1> QED BY <1>6, <1>7

\* A deregistration drops one listing of the worker, and nobody else's.
LEMMA ListingsRemove ==
    ASSUME NEW S, NEW list \in Seq(S), NEW v, NEW w, Contains(list, v)
    PROVE  Listings(RemoveFirst(list, v), w) = Listings(list, w) - (IF v = w THEN 1 ELSE 0)
<1>1. PICK p \in 1 .. Len(list) :
         /\ list[p] = v
         /\ RemoveFirst(list, v) \in Seq(S)
         /\ Len(RemoveFirst(list, v)) = Len(list) - 1
         /\ \A j \in 1 .. Len(list) - 1 : RemoveFirst(list, v)[j] = IF j < p THEN list[j] ELSE list[j + 1]
    BY RemoveFirstOf
<1>2. PICK n \in Nat : n = Len(list) /\ DOMAIN list = 1 .. n
    OBVIOUS
<1>3. PICK t : t = RemoveFirst(list, v)
    OBVIOUS
<1>4. /\ p \in 1 .. n /\ DOMAIN t = 1 .. n - 1
      /\ \A j \in 1 .. n - 1 : t[j] = IF j < p THEN list[j] ELSE list[j + 1]
    BY <1>1, <1>2, <1>3
<1> DEFINE P == {j \in DOMAIN list : list[j] = w}
           Q == {j \in DOMAIN t : t[j] = w}
<1>16. t \in Seq(S)
    BY <1>1, <1>3
<1>17. IsFiniteSet(P) /\ IsFiniteSet(Q)
    BY <1>16, ListingsCount
<1>5. IsFiniteSet(P) /\ Cardinality(P) \in Nat /\ IsFiniteSet(Q)
    BY <1>17, FS_CardinalityType
<1>6. PICK f : f = [j \in Q |-> IF j < p THEN j ELSE j + 1]
    OBVIOUS
<1>7. \A j \in Q : j \in 1 .. n - 1 /\ t[j] = w
    BY <1>4
<1>8. \A j \in Q : f[j] = (IF j < p THEN j ELSE j + 1) /\ f[j] \in 1 .. n /\ f[j] # p /\ list[f[j]] = w
    BY <1>2, <1>4, <1>6, <1>7
<1>9. \A j \in Q : f[j] \in P \ {p}
    BY <1>2, <1>8
<1>10. \A i, j \in Q : f[i] = f[j] => i = j
    BY <1>2, <1>4, <1>7, <1>8
<1>11. \A y \in P \ {p} : \E j \in Q : f[j] = y
  <2> SUFFICES ASSUME NEW y \in P \ {p} PROVE \E j \in Q : f[j] = y
      OBVIOUS
  <2>1. y \in 1 .. n /\ y # p /\ list[y] = w
      BY <1>2
  <2>2. CASE y < p
    <3>1. y \in 1 .. n - 1 /\ t[y] = w
        BY <1>2, <1>4, <2>1, <2>2
    <3>2. y \in Q
        BY <1>4, <3>1
    <3> QED BY <1>8, <2>2, <3>2
  <2>3. CASE ~(y < p)
    <3>1. PICK x \in 1 .. n - 1 : x = y - 1
        BY <1>2, <1>4, <2>1, <2>3
    <3>2. ~(x < p) /\ x + 1 = y
        BY <1>4, <2>1, <2>3, <3>1
    <3>3. t[x] = w
        BY <1>4, <2>1, <3>1, <3>2
    <3>4. x \in Q
        BY <1>4, <3>1, <3>3
    <3> QED BY <1>8, <3>2, <3>4
  <2> QED BY <2>2, <2>3
<1>12. Cardinality(Q) = Cardinality(P \ {p})
  <2>1. DOMAIN f = Q
      BY <1>6
  <2> HIDE DEF P, Q
  <2>2. f \in Bijection(Q, P \ {p})
      BY <1>6, <1>9, <1>10, <1>11, <2>1 DEF Bijection, Injection, Surjection, IsInjective
  <2>3. ExistsBijection(Q, P \ {p})
      BY <2>2 DEF ExistsBijection
  <2> QED BY <1>5, <2>3, FS_Bijection
<1>13. Listings(list, w) = Cardinality(P) /\ Listings(t, w) = Cardinality(Q)
    BY DEF Listings
<1>14. CASE v = w
  <2>1. p \in P
      BY <1>1, <1>2, <1>14
  <2> HIDE DEF P, Q
  <2>2. Cardinality(P \ {p}) = Cardinality(P) - 1
      BY <1>5, <2>1, FS_RemoveElement
  <2> QED BY <1>3, <1>12, <1>13, <1>14, <2>2
<1>15. CASE v # w
  <2>1. P \ {p} = P
      BY <1>1, <1>15
  <2>2. Listings(t, w) = Listings(list, w) /\ Listings(list, w) \in Nat
    <3> HIDE DEF P, Q
    <3> QED BY <1>5, <1>12, <1>13, <2>1
  <2> QED BY <1>3, <1>15, <2>2
<1> QED BY <1>14, <1>15

-----------------------------------------------------------------------------
(* One message *)

LEMMA MessageFields ==
    ASSUME NEW m \in Message
    PROVE  /\ m.worker \in Workers
           /\ m.type \in {"Register", "DeRegister"}
BY DEF Message

LEMMA RegisterEffect ==
    ASSUME NEW c \in Controllers, NEW m \in Message, instance \in [Workers -> Instances]
    PROVE  LET i == instance[m.worker]
               d == register(c, m)
           IN  /\ d \in Controllers
               /\ d.worker_mapping = [c.worker_mapping EXCEPT ![i] = Append(@, m.worker)]
               /\ d.instance_mapping = c.instance_mapping \cup {i}
               /\ d.socket_mapping = c.socket_mapping \cup {m.worker}
               /\ d.raised = c.raised
<1>1. PICK w \in Workers : w = m.worker
    BY MessageFields
<1>2. PICK i \in Instances : i = instance[w]
    BY <1>1
<1>3. PICK W : W = [c.worker_mapping EXCEPT ![i] = Append(c.worker_mapping[i], w)]
    OBVIOUS
<1>4. W \in [Instances -> Seq(Workers)]
  <2>1. c.worker_mapping \in [Instances -> Seq(Workers)]
      BY DEF Controllers
  <2>2. Append(c.worker_mapping[i], w) \in Seq(Workers)
      BY <2>1
  <2> QED BY <1>3, <2>1, <2>2
<1>5. register(c, m) = [c EXCEPT !.instance_mapping = c.instance_mapping \cup {i},
                                 !.socket_mapping = c.socket_mapping \cup {w},
                                 !.worker_mapping = W]
    BY <1>1, <1>2, <1>3 DEF register, Controllers
<1>6. PICK d : d = [c EXCEPT !.instance_mapping = c.instance_mapping \cup {i},
                             !.socket_mapping = c.socket_mapping \cup {w},
                             !.worker_mapping = W]
    OBVIOUS
<1>7. /\ d \in Controllers /\ d.worker_mapping = W /\ d.instance_mapping = c.instance_mapping \cup {i}
      /\ d.socket_mapping = c.socket_mapping \cup {w} /\ d.raised = c.raised
    BY <1>4, <1>6 DEF Controllers
<1> QED BY <1>1, <1>2, <1>3, <1>5, <1>6, <1>7

LEMMA RemoveFirstType ==
    ASSUME NEW S, NEW list \in Seq(S), NEW w
    PROVE  /\ RemoveFirst(list, w) \in Seq(S)
           /\ ~Contains(list, w) => RemoveFirst(list, w) = list
<1>1. CASE Contains(list, w)
    BY <1>1, RemoveFirstOf
<1>2. CASE ~Contains(list, w)
    BY <1>2 DEF RemoveFirst, Contains
<1> QED BY <1>1, <1>2

LEMMA DeregisterEffect ==
    ASSUME NEW c \in Controllers, NEW m \in Message, instance \in [Workers -> Instances]
    PROVE  LET i == instance[m.worker]
               d == deregister(c, m)
           IN  /\ d \in Controllers
               /\ Contains(c.worker_mapping[i], m.worker) =>
                     /\ d.worker_mapping = [c.worker_mapping EXCEPT ![i] = RemoveFirst(@, m.worker)]
                     /\ d.socket_mapping = c.socket_mapping \ {m.worker}
                     /\ d.raised = c.raised
               /\ d.instance_mapping = c.instance_mapping \ {i}
<1>1. PICK w \in Workers : w = m.worker
    BY MessageFields
<1>2. PICK i \in Instances : i = instance[w]
    BY <1>1
<1>3. PICK W : W = [c.worker_mapping EXCEPT ![i] = RemoveFirst(c.worker_mapping[i], w)]
    OBVIOUS
<1>4. W \in [Instances -> Seq(Workers)]
  <2>1. c.worker_mapping \in [Instances -> Seq(Workers)]
      BY DEF Controllers
  <2>2. RemoveFirst(c.worker_mapping[i], w) \in Seq(Workers)
      BY <2>1, RemoveFirstType
  <2> QED BY <1>3, <2>1, <2>2
<1>5. PICK p : p = [c EXCEPT !.instance_mapping = c.instance_mapping \ {i}]
    OBVIOUS
<1>6. p \in Controllers /\ p.worker_mapping = c.worker_mapping /\ p.socket_mapping = c.socket_mapping
      /\ p.raised = c.raised /\ p.instance_mapping = c.instance_mapping \ {i}
    BY <1>5 DEF Controllers
<1>7. deregister(c, m) =
        IF c.worker_mapping[i] # <<>> /\ ~Contains(c.worker_mapping[i], w)
        THEN [p EXCEPT !.raised = TRUE]
        ELSE [p EXCEPT !.worker_mapping = W, !.socket_mapping = p.socket_mapping \ {w}]
    BY <1>1, <1>2, <1>3, <1>5, <1>6 DEF deregister, Controllers
<1>8. CASE c.worker_mapping[i] # <<>> /\ ~Contains(c.worker_mapping[i], w)
  <2>1. PICK d : d = [p EXCEPT !.raised = TRUE]
      OBVIOUS
  <2>2. d \in Controllers /\ d.instance_mapping = c.instance_mapping \ {i}
      BY <1>6, <2>1 DEF Controllers
  <2> QED BY <1>1, <1>2, <1>7, <1>8, <2>1, <2>2
<1>9. CASE ~(c.worker_mapping[i] # <<>> /\ ~Contains(c.worker_mapping[i], w))
  <2>1. PICK d : d = [p EXCEPT !.worker_mapping = W, !.socket_mapping = p.socket_mapping \ {w}]
      OBVIOUS
  <2>2. d \in Controllers /\ d.instance_mapping = c.instance_mapping \ {i}
        /\ d.worker_mapping = W /\ d.socket_mapping = c.socket_mapping \ {w} /\ d.raised = c.raised
      BY <1>4, <1>6, <2>1 DEF Controllers
  <2> QED BY <1>1, <1>2, <1>3, <1>7, <1>9, <2>1, <2>2
<1> QED BY <1>8, <1>9

\* The dispatch, when no handler has raised.
LEMMA Dispatch ==
    ASSUME NEW c \in Controllers, NEW m \in Message
    PROVE  /\ c.raised => handle_worker_message(c, m) = c
           /\ ~c.raised =>
                 /\ m.type = "Register" => handle_worker_message(c, m) = register(c, m)
                 /\ m.type = "DeRegister" => handle_worker_message(c, m) = deregister(c, m)
BY DEF handle_worker_message

LEMMA HandleType ==
    ASSUME NEW c \in Controllers, NEW m \in Message, instance \in [Workers -> Instances]
    PROVE  handle_worker_message(c, m) \in Controllers
<1>1. CASE c.raised
    BY <1>1, Dispatch
<1>2. CASE ~c.raised /\ m.type = "Register"
    BY <1>2, Dispatch, RegisterEffect
<1>3. CASE ~c.raised /\ m.type = "DeRegister"
    BY <1>3, Dispatch, DeregisterEffect
<1> QED BY <1>1, <1>2, <1>3, MessageFields

\* The controller's states in the course of a batch.
LEMMA BatchSteps ==
    ASSUME NEW c0 \in Controllers, NEW b \in Seq(Message), instance \in [Workers -> Instances]
    PROVE  \E h \in [0 .. Len(b) -> Controllers] :
              /\ h[0] = c0
              /\ \A k \in 1 .. Len(b) : h[k] = handle_worker_message(h[k - 1], b[k])
              /\ h[Len(b)] = FoldLeft(handle_worker_message, c0, b)
<1> DEFINE H == [p \in Controllers \X Message |-> handle_worker_message(p[1], p[2])]
<1>1. H \in [Controllers \X Message -> Controllers] /\ Len(b) \in Nat /\ DOMAIN b = 1 .. Len(b)
    BY HandleType
<1>2. PICK g : IsFold(g, Controllers, H, c0, b, Len(b))
    BY <1>1, FoldExists
<1>3. /\ g \in [SUBSET (1 .. Len(b)) -> Controllers]
      /\ g[{}] = c0
      /\ \A s \in SUBSET (1 .. Len(b)) : s # {} =>
            g[s] = handle_worker_message(g[s \ {Max(s)}], b[Max(s)])
  <2>1. /\ g \in [SUBSET (1 .. Len(b)) -> Controllers] /\ g[{}] = c0
      BY <1>2 DEF IsFold
  <2>2. ASSUME NEW s \in SUBSET (1 .. Len(b)), s # {}
        PROVE  g[s] = handle_worker_message(g[s \ {Max(s)}], b[Max(s)])
    <3>1. Max(s) \in s
        BY <1>1, <2>2, MaxOf
    <3>4. s \ {Max(s)} \in SUBSET (1 .. Len(b)) /\ Max(s) \in 1 .. Len(b)
        BY <3>1
    <3>5. g[s \ {Max(s)}] \in Controllers /\ b[Max(s)] \in Message
        BY <2>1, <3>4
    <3>2. <<g[s \ {Max(s)}], b[Max(s)]>> \in Controllers \X Message
        BY <3>5
    <3>3. g[s] = H[<<g[s \ {Max(s)}], b[Max(s)]>>]
        BY <1>2, <2>2 DEF IsFold
    <3> QED BY <3>2, <3>3
  <2> QED BY <2>1, <2>2
<1>4. g = [s \in SUBSET DOMAIN b |-> IF s = {} THEN c0 ELSE handle_worker_message(g[s \ {Max(s)}], b[Max(s)])]
    BY <1>1, <1>3
<1>5. PICK f : /\ f = [s \in SUBSET DOMAIN b |->
                          IF s = {} THEN c0 ELSE handle_worker_message(f[s \ {Max(s)}], b[Max(s)])]
               /\ FoldLeft(handle_worker_message, c0, b) = f[DOMAIN b]
    BY <1>4 DEF FoldLeft, MapThenFoldSet
<1>6. f[{}] = c0
    BY <1>5
<1>7. ASSUME NEW k \in 1 .. Len(b)
      PROVE  f[1 .. k] = handle_worker_message(f[1 .. k - 1], b[k])
  <2>1. /\ 1 .. k \in SUBSET (1 .. Len(b)) /\ 1 .. k # {} /\ Max(1 .. k) = k
        /\ (1 .. k) \ {k} = 1 .. k - 1
      BY <1>1, UpTo
  <2>2. f[1 .. k] = handle_worker_message(f[(1 .. k) \ {Max(1 .. k)}], b[Max(1 .. k)])
      BY <1>1, <1>5, <2>1
  <2> QED BY <2>1, <2>2
<1> DEFINE T == {n \in 0 .. Len(b) : f[1 .. n] \notin Controllers}
<1>8. T = {}
  <2> SUFFICES ASSUME T # {} PROVE FALSE
      OBVIOUS
  <2>1. PICK n \in T : \A u \in T : n <= u
    <3>1. T \subseteq Nat
        BY <1>1
    <3> HIDE DEF T
    <3> QED BY <3>1, NatMin
  <2>2. n \in 0 .. Len(b) /\ n \in Nat /\ f[1 .. n] \notin Controllers
      BY <1>1, <2>1
  <2>3. n # 0
    <3> SUFFICES ASSUME n = 0 PROVE FALSE
        OBVIOUS
    <3>1. 1 .. 0 = {}
        OBVIOUS
    <3> QED BY <1>6, <2>2, <3>1
  <2>4. n \in 1 .. Len(b) /\ n - 1 \in 0 .. Len(b)
      BY <1>1, <2>2, <2>3
  <2>5. f[1 .. n - 1] \in Controllers
    <3> SUFFICES ASSUME n - 1 \in T PROVE FALSE
        BY <2>4
    <3>1. n <= n - 1
        BY <2>1
    <3> QED BY <2>2, <3>1
  <2>6. b[n] \in Message
      BY <2>4
  <2> QED BY <1>7, <2>2, <2>4, <2>5, <2>6, HandleType
<1>9. PICK h : h = [n \in 0 .. Len(b) |-> f[1 .. n]]
    OBVIOUS
<1>10. h \in [0 .. Len(b) -> Controllers]
    BY <1>8, <1>9
<1>11. h[0] = c0
  <2>1. 1 .. 0 = {} /\ 0 \in 0 .. Len(b)
      BY <1>1
  <2>2. h[0] = f[1 .. 0]
      BY <1>9, <2>1
  <2> QED BY <1>6, <2>1, <2>2
<1>12. ASSUME NEW k \in 1 .. Len(b) PROVE h[k] = handle_worker_message(h[k - 1], b[k])
  <2>1. k \in 0 .. Len(b) /\ k - 1 \in 0 .. Len(b)
      BY <1>1
  <2>2. h[k] = f[1 .. k] /\ h[k - 1] = f[1 .. k - 1]
      BY <1>9, <2>1
  <2> QED BY <1>7, <2>2
<1>13. h[Len(b)] = FoldLeft(handle_worker_message, c0, b)
  <2>1. Len(b) \in 0 .. Len(b)
      BY <1>1
  <2> QED BY <1>1, <1>5, <1>9, <2>1
<1> QED BY <1>10, <1>11, <1>12, <1>13

-----------------------------------------------------------------------------
(* Multipart messages, one behind the other *)

\* f[k] is the first k sequences of S, one behind the other.
IsFlat(f, M, S, n) ==
    /\ f \in [0 .. n -> Seq(M)]
    /\ f[0] = << >>
    /\ \A k \in 1 .. n : f[k] = f[k - 1] \o S[k]

LEMMA FlatExists ==
    ASSUME NEW M, NEW S \in Seq(Seq(M))
    PROVE  \E f : IsFlat(f, M, S, Len(S))
<1> DEFINE T == {n \in 0 .. Len(S) : ~ \E f : IsFlat(f, M, S, n)}
<1>1. Len(S) \in Nat /\ \A n \in 1 .. Len(S) : S[n] \in Seq(M)
    OBVIOUS
<1> SUFFICES ASSUME T # {} PROVE FALSE
    BY <1>1
<1>2. T \subseteq Nat
    BY <1>1
<1>3. PICK n \in T : \A u \in T : n <= u
    BY <1>2, NatMin
<1>4. n \in 0 .. Len(S) /\ n \in Nat /\ ~ \E f : IsFlat(f, M, S, n)
    BY <1>1, <1>3
<1>5. n # 0
  <2> SUFFICES ASSUME n = 0 PROVE FALSE
      OBVIOUS
  <2>1. PICK f : f = [k \in 0 .. 0 |-> << >>]
      OBVIOUS
  <2>2. IsFlat(f, M, S, 0)
      BY <2>1 DEF IsFlat
  <2> QED BY <1>4, <2>2
<1>6. n - 1 \in 0 .. Len(S) /\ n - 1 \in Nat /\ n \in 1 .. Len(S)
    BY <1>1, <1>4, <1>5
<1>7. n - 1 \notin T
  <2> SUFFICES ASSUME n - 1 \in T PROVE FALSE
      OBVIOUS
  <2>1. n <= n - 1
      BY <1>3
  <2> QED BY <1>4, <2>1
<1>8. PICK g : IsFlat(g, M, S, n - 1)
    BY <1>6, <1>7
<1>9. /\ g \in [0 .. n - 1 -> Seq(M)] /\ g[0] = << >>
      /\ \A k \in 1 .. n - 1 : g[k] = g[k - 1] \o S[k]
    BY <1>8 DEF IsFlat
<1>10. PICK x \in Seq(M) : x = g[n - 1] \o S[n]
  <2>1. g[n - 1] \in Seq(M) /\ S[n] \in Seq(M)
      BY <1>1, <1>6, <1>9
  <2> QED BY <2>1, ConcatProperties
<1>11. PICK f : f = [k \in 0 .. n |-> IF k = n THEN x ELSE g[k]]
    OBVIOUS
<1>12. f[n] = x /\ f[0] = << >> /\ \A k \in 0 .. n - 1 : f[k] = g[k] /\ f[k] \in Seq(M)
  <2>1. n \in 0 .. n /\ 0 \in 0 .. n /\ 0 \in 0 .. n - 1 /\ \A k \in 0 .. n - 1 : k \in 0 .. n /\ k # n
      BY <1>4, <1>5
  <2> QED BY <1>9, <1>11, <2>1
<1>13. f \in [0 .. n -> Seq(M)]
  <2>1. \A k \in 0 .. n : k = n \/ k \in 0 .. n - 1
      BY <1>4
  <2>2. \A k \in 0 .. n : f[k] \in Seq(M)
      BY <1>10, <1>12, <2>1
  <2> QED BY <1>11, <2>2
<1>14. ASSUME NEW k \in 1 .. n PROVE f[k] = f[k - 1] \o S[k]
  <2>1. CASE k = n
    <3>1. k - 1 \in 0 .. n - 1 /\ k - 1 = n - 1
        BY <1>4, <2>1
    <3> QED BY <1>10, <1>12, <2>1, <3>1
  <2>2. CASE k # n
    <3>1. k \in 0 .. n - 1 /\ k - 1 \in 0 .. n - 1 /\ k \in 1 .. n - 1
        BY <1>4, <2>2
    <3> QED BY <1>9, <1>12, <3>1
  <2> QED BY <2>1, <2>2
<1>15. IsFlat(f, M, S, n)
    BY <1>12, <1>13, <1>14 DEF IsFlat
<1> QED BY <1>4, <1>15

\* It is determined by the sequences it puts together.
Agree(S, R, n) == \A k \in 1 .. n : S[k] = R[k]

LEMMA FlatAgree ==
    ASSUME NEW M, NEW S, NEW R, NEW a \in Nat, NEW m \in 0 .. a, NEW f, NEW g,
           IsFlat(f, M, S, m), IsFlat(g, M, R, a), Agree(S, R, m)
    PROVE  f[m] = g[m]
<1> DEFINE T == {n \in 0 .. m : f[n] # g[n]}
<1>1. SUFFICES ASSUME T # {} PROVE FALSE
    OBVIOUS
<1>2. T \subseteq Nat
    OBVIOUS
<1>3. PICK n \in T : \A u \in T : n <= u
    BY <1>1, <1>2, NatMin
<1>4. n \in 0 .. m /\ n \in Nat /\ f[n] # g[n]
    BY <1>3
<1>5. n # 0
    BY <1>4 DEF IsFlat
<1>6. n \in 1 .. m /\ n - 1 \in 0 .. m /\ n \in 1 .. a
    BY <1>4, <1>5
<1>7. f[n - 1] = g[n - 1]
  <2> SUFFICES ASSUME n - 1 \in T PROVE FALSE
      BY <1>6
  <2>1. n <= n - 1
      BY <1>3
  <2> QED BY <1>4, <2>1
<1>8. f[n] = f[n - 1] \o S[n] /\ g[n] = g[n - 1] \o R[n]
    BY <1>6 DEF IsFlat
<1> QED BY <1>4, <1>6, <1>7, <1>8 DEF Agree

LEMMA FlatIs ==
    ASSUME NEW M, NEW S \in Seq(Seq(M))
    PROVE  \E f : IsFlat(f, M, S, Len(S)) /\ Flat(S) = f[Len(S)]
<1>1. PICK g : IsFlat(g, M, S, Len(S))
    BY FlatExists
<1>2. Len(S) \in Nat
    OBVIOUS
<1>3. g = [n \in 0 .. Len(S) |-> IF n = 0 THEN << >> ELSE g[n - 1] \o S[n]]
  <2>1. \A n \in 0 .. Len(S) : n = 0 \/ n \in 1 .. Len(S)
      BY <1>2
  <2> QED BY <1>1, <2>1 DEF IsFlat
<1>4. PICK f : /\ f = [n \in 0 .. Len(S) |-> IF n = 0 THEN << >> ELSE f[n - 1] \o S[n]]
               /\ Flat(S) = f[Len(S)]
    BY <1>3 DEF Flat
<1>5. f[0] = << >> /\ \A n \in 1 .. Len(S) : f[n] = f[n - 1] \o S[n]
  <2>1. 0 \in 0 .. Len(S) /\ \A n \in 1 .. Len(S) : n \in 0 .. Len(S) /\ n # 0
      BY <1>2
  <2> QED BY <1>4, <2>1
<1> DEFINE T == {n \in 0 .. Len(S) : f[n] \notin Seq(M)}
<1>6. T = {}
  <2> SUFFICES ASSUME T # {} PROVE FALSE
      OBVIOUS
  <2>1. PICK n \in T : \A u \in T : n <= u
    <3>1. T \subseteq Nat
        BY <1>2
    <3> HIDE DEF T
    <3> QED BY <3>1, NatMin
  <2>2. n \in 0 .. Len(S) /\ n \in Nat /\ f[n] \notin Seq(M)
      BY <1>2, <2>1
  <2>3. n # 0
    <3>1. << >> \in Seq(M)
        OBVIOUS
    <3> QED BY <1>5, <2>2, <3>1
  <2>4. n \in 1 .. Len(S) /\ n - 1 \in 0 .. Len(S) /\ S[n] \in Seq(M)
      BY <1>2, <2>2, <2>3
  <2>5. f[n - 1] \in Seq(M)
    <3> SUFFICES ASSUME n - 1 \in T PROVE FALSE
        BY <2>4
    <3>1. n <= n - 1
        BY <2>1
    <3> QED BY <2>2, <3>1
  <2>6. f[n - 1] \o S[n] \in Seq(M)
      BY <2>4, <2>5, ConcatProperties
  <2> QED BY <1>5, <2>2, <2>4, <2>6
<1>7. DOMAIN f = 0 .. Len(S) /\ f = [n \in 0 .. Len(S) |-> f[n]]
    BY <1>4
<1>8. f \in [0 .. Len(S) -> Seq(M)]
    BY <1>6, <1>7
<1> QED BY <1>4, <1>5, <1>8 DEF IsFlat

LEMMA FlatEmpty ==
    Flat(<< >>) = << >>
<1>1. << >> \in Seq(Seq({})) /\ Len(<< >>) = 0
    OBVIOUS
<1>2. PICK f : IsFlat(f, {}, << >>, Len(<< >>)) /\ Flat(<< >>) = f[Len(<< >>)]
    BY <1>1, FlatIs
<1> QED BY <1>1, <1>2 DEF IsFlat

LEMMA FlatType ==
    ASSUME NEW M, NEW S \in Seq(Seq(M))
    PROVE  Flat(S) \in Seq(M)
<1>1. PICK f : IsFlat(f, M, S, Len(S)) /\ Flat(S) = f[Len(S)]
    BY FlatIs
<1>2. Len(S) \in Nat /\ Len(S) \in 0 .. Len(S)
    OBVIOUS
<1> QED BY <1>1, <1>2 DEF IsFlat

LEMMA FlatAppend ==
    ASSUME NEW M, NEW S \in Seq(Seq(M)), NEW b \in Seq(M)
    PROVE  Flat(Append(S, b)) = Flat(S) \o b
<1>1. PICK f : IsFlat(f, M, S, Len(S)) /\ Flat(S) = f[Len(S)]
    BY FlatIs
<1>2. PICK R : R = Append(S, b)
    OBVIOUS
<1>8. R \in Seq(Seq(M))
    BY <1>2, AppendProperties
<1>3. PICK g : IsFlat(g, M, R, Len(R)) /\ Flat(R) = g[Len(R)]
    BY <1>8, FlatIs
<1>4. PICK n \in Nat : n = Len(S)
    OBVIOUS
<1>5. Len(R) = n + 1 /\ R[n + 1] = b /\ \A k \in 1 .. n : S[k] = R[k]
    BY <1>2, <1>4
<1>6. f[n] = g[n]
  <2>1. PICK a \in Nat : a = n + 1 /\ n \in 0 .. a
      BY <1>4
  <2>2. IsFlat(f, M, S, n) /\ IsFlat(g, M, R, a)
      BY <1>1, <1>3, <1>4, <1>5, <2>1
  <2>3. Agree(S, R, n)
      BY <1>5 DEF Agree
  <2> QED BY <2>1, <2>2, <2>3, FlatAgree
<1>7. g[n + 1] = g[n] \o b
  <2>2. n + 1 \in 1 .. n + 1 /\ (n + 1) - 1 = n
      OBVIOUS
  <2>1. n + 1 \in 1 .. Len(R) /\ (n + 1) - 1 = n
      BY <1>5, <2>2
  <2> QED BY <1>3, <1>5, <2>1 DEF IsFlat
<1> QED BY <1>1, <1>2, <1>3, <1>4, <1>5, <1>6, <1>7

\* A prefix of the multipart messages carries a prefix of the messages.
LEMMA FlatPrefix ==
    ASSUME NEW M, NEW S \in Seq(Seq(M)), NEW n \in 0 .. Len(S)
    PROVE  \E u \in Seq(M) : Flat(S) = Flat(SubSeq(S, 1, n)) \o u
<1>1. PICK f : IsFlat(f, M, S, Len(S)) /\ Flat(S) = f[Len(S)]
    BY FlatIs
<1>2. PICK R : R = SubSeq(S, 1, n)
    OBVIOUS
<1>3. n \in Nat /\ Len(S) \in Nat /\ R \in Seq(Seq(M)) /\ Len(R) = n /\ \A k \in 1 .. n : S[k] = R[k]
    BY <1>2
<1>4. PICK g : IsFlat(g, M, R, n) /\ Flat(R) = g[n]
    BY <1>3, FlatIs
<1>5. f[n] = g[n]
  <2>1. PICK a \in Nat : a = Len(S)
      BY <1>3
  <2>2. Agree(R, S, n) /\ IsFlat(f, M, S, a) /\ n \in 0 .. a
      BY <1>1, <1>3, <2>1 DEF Agree
  <2> QED BY <1>4, <2>2, FlatAgree
<1>6. \A k \in 0 .. Len(S) : f[k] \in Seq(M)
    BY <1>1 DEF IsFlat
<1> DEFINE T == {k \in n .. Len(S) : ~ \E u \in Seq(M) : f[k] = f[n] \o u}
<1>7. T = {}
  <2> SUFFICES ASSUME T # {} PROVE FALSE
      OBVIOUS
  <2>1. PICK k \in T : \A x \in T : k <= x
    <3>1. T \subseteq Nat
        BY <1>3
    <3> HIDE DEF T
    <3> QED BY <3>1, NatMin
  <2>9. k \in n .. Len(S)
      BY <2>1
  <2>10. k \in Nat
      BY <1>3, <2>9
  <2>11. ~ \E u \in Seq(M) : f[k] = f[n] \o u
      BY <2>1
  <2>2. k \in n .. Len(S) /\ k \in Nat /\ ~ \E u \in Seq(M) : f[k] = f[n] \o u
      BY <2>9, <2>10, <2>11
  <2>3. k # n
    <3>1. << >> \in Seq(M) /\ f[n] \in Seq(M)
        BY <1>6
    <3>2. f[n] = f[n] \o << >>
        BY <3>1, ConcatEmptySeq
    <3> QED BY <2>2, <3>1, <3>2
  <2>4. k \in 1 .. Len(S) /\ k - 1 \in n .. Len(S) /\ S[k] \in Seq(M) /\ k - 1 \in 0 .. Len(S)
      BY <1>3, <2>2, <2>3
  <2>5. k - 1 \notin T
    <3> SUFFICES ASSUME k - 1 \in T PROVE FALSE
        OBVIOUS
    <3>1. k <= k - 1
        BY <2>1
    <3> QED BY <2>2, <3>1
  <2>6. PICK u \in Seq(M) : f[k - 1] = f[n] \o u
      BY <2>4, <2>5
  <2>7. f[k] = f[k - 1] \o S[k]
      BY <1>1, <2>4 DEF IsFlat
  <2>8. (f[n] \o u) \o S[k] = f[n] \o (u \o S[k]) /\ u \o S[k] \in Seq(M)
    <3>1. PICK x, y : x = f[n] /\ y = S[k]
        OBVIOUS
    <3>2. x \in Seq(M) /\ y \in Seq(M)
        BY <1>6, <2>4, <3>1
    <3>3. (x \o u) \o y = x \o (u \o y)
        BY <3>2, ConcatAssociative, SMTT(30)
    <3>4. u \o y \in Seq(M)
        BY <3>2, ConcatProperties
    <3> QED BY <3>1, <3>3, <3>4
  <2> QED BY <2>2, <2>6, <2>7, <2>8
<1>8. Len(S) \in n .. Len(S)
    BY <1>3
<1>9. PICK u \in Seq(M) : f[Len(S)] = f[n] \o u
    BY <1>7, <1>8
<1> QED BY <1>1, <1>2, <1>4, <1>5, <1>9

\* The first multipart message carries the first messages.
LEMMA FlatTail ==
    ASSUME NEW M, NEW S \in Seq(Seq(M)), S # << >>
    PROVE  Flat(S) = Head(S) \o Flat(Tail(S)) /\ Head(S) \in Seq(M)
<1>1. PICK f : IsFlat(f, M, S, Len(S)) /\ Flat(S) = f[Len(S)]
    BY FlatIs
<1>2. PICK R, b : R = Tail(S) /\ b = Head(S)
    OBVIOUS
<1>10. Len(S) \in Nat /\ Len(S) # 0
    BY EmptySeq, LenProperties
<1>9. PICK n \in Nat : n + 1 = Len(S)
  <2>1. Len(S) - 1 \in Nat /\ (Len(S) - 1) + 1 = Len(S)
      BY <1>10
  <2> QED BY <2>1
<1>3. R \in Seq(Seq(M)) /\ Len(R) = n /\ b \in Seq(M) /\ b = S[1] /\ \A k \in 1 .. n : R[k] = S[k + 1]
    BY <1>2, <1>9
<1>4. PICK g : IsFlat(g, M, R, n) /\ Flat(R) = g[n]
    BY <1>3, FlatIs
<1>5. /\ \A k \in 0 .. n : g[k] \in Seq(M) /\ g[0] = << >>
      /\ \A k \in 1 .. n : g[k] = g[k - 1] \o R[k]
    BY <1>4 DEF IsFlat
<1>6. f[0] = << >> /\ \A k \in 1 .. n + 1 : f[k] = f[k - 1] \o S[k]
    BY <1>1, <1>9 DEF IsFlat
<1>11. \A x, y \in Seq(M) : (b \o x) \o y = b \o (x \o y)
  <2> SUFFICES ASSUME NEW x \in Seq(M), NEW y \in Seq(M) PROVE (b \o x) \o y = b \o (x \o y)
      OBVIOUS
  <2>1. b \in Seq(M)
      BY <1>3
  <2> QED BY <2>1, ConcatAssociative, SMTT(30)
<1> DEFINE T == {k \in 0 .. n : f[k + 1] # b \o g[k]}
<1>7. T = {}
  <2> SUFFICES ASSUME T # {} PROVE FALSE
      OBVIOUS
  <2>1. PICK k \in T : \A x \in T : k <= x
    <3>1. T \subseteq Nat
        BY <1>9
    <3> HIDE DEF T
    <3> QED BY <3>1, NatMin
  <2>2. k \in 0 .. n /\ k \in Nat /\ f[k + 1] # b \o g[k]
      BY <1>9, <2>1
  <2>3. k # 0
    <3> SUFFICES ASSUME k = 0 PROVE FALSE
        OBVIOUS
    <3>1. 1 \in 1 .. n + 1 /\ 1 - 1 = 0 /\ 0 + 1 = 1 /\ 0 \in 0 .. n
        BY <1>9
    <3>2. f[1] = << >> \o b
        BY <1>3, <1>6, <3>1
    <3>3. b \o << >> = b /\ << >> \o b = b
        BY <1>3, ConcatEmptySeq
    <3> QED BY <1>5, <2>2, <3>1, <3>2, <3>3
  <2>4. k \in 1 .. n /\ k - 1 \in 0 .. n /\ k + 1 \in 1 .. n + 1 /\ (k + 1) - 1 = k /\ (k - 1) + 1 = k
      BY <1>9, <2>2, <2>3
  <2>5. k - 1 \notin T
    <3> SUFFICES ASSUME k - 1 \in T PROVE FALSE
        OBVIOUS
    <3>1. k <= k - 1
        BY <2>1
    <3> QED BY <2>2, <3>1
  <2>6. f[k] = b \o g[k - 1]
      BY <2>4, <2>5
  <2>9. R[k] \in Seq(M)
      BY <1>3, <2>4
  <2>10. f[k + 1] = f[k] \o S[k + 1]
      BY <1>6, <2>4
  <2>7. f[k + 1] = f[k] \o R[k] /\ R[k] \in Seq(M)
      BY <1>3, <2>4, <2>9, <2>10
  <2>8. (b \o g[k - 1]) \o R[k] = b \o (g[k - 1] \o R[k])
    <3>1. PICK x, y : x = g[k - 1] /\ y = R[k]
        OBVIOUS
    <3>2. x \in Seq(M) /\ y \in Seq(M)
        BY <1>5, <2>4, <2>9, <3>1
    <3>3. (b \o x) \o y = b \o (x \o y)
        BY <1>11, <3>2
    <3> QED BY <3>1, <3>3
  <2> QED BY <1>5, <2>2, <2>4, <2>6, <2>7, <2>8
<1>8. f[n + 1] = b \o g[n]
  <2>1. n \in 0 .. n
      OBVIOUS
  <2> QED BY <1>7, <2>1
<1> QED BY <1>1, <1>2, <1>3, <1>4, <1>8, <1>9

-----------------------------------------------------------------------------
(* The first message leaves its stream *)

LEMMA TailStep ==
    ASSUME NEW s \in Seq(Message), s # << >>, NEW w \in Workers, WellFormed(w, s)
    PROVE  LET m == Head(s)
               t == Tail(s)
           IN  /\ m \in Message /\ t \in Seq(Message) /\ m.worker = w
               /\ WellFormed(w, t)
               /\ ~Has(t, "Register")
               /\ \A type : Has(s, type) <=> (m.type = type \/ Has(t, type))
               /\ m.type = "DeRegister" => ~Has(t, "DeRegister")
<1>1. PICK m, t : m = Head(s) /\ t = Tail(s)
    OBVIOUS
<1>2. Len(s) \in Nat /\ Len(s) # 0
    BY EmptySeq, LenProperties
<1>3. PICK n \in Nat : n + 1 = Len(s)
  <2>1. Len(s) - 1 \in Nat /\ (Len(s) - 1) + 1 = Len(s)
      BY <1>2
  <2> QED BY <2>1
<1>4. /\ t \in Seq(Message) /\ Len(t) = n /\ DOMAIN t = 1 .. n /\ \A j \in 1 .. n : t[j] = s[j + 1]
      /\ m = s[1] /\ DOMAIN s = 1 .. n + 1 /\ m \in Message
    BY <1>1, <1>3
<1>5. 1 \in 1 .. n + 1 /\ \A j \in 1 .. n : j + 1 \in 1 .. n + 1 /\ j + 1 # 1 /\ j + 1 > 1
    OBVIOUS
<1>6. \A j \in 1 .. n + 1 : j = 1 \/ (j - 1 \in 1 .. n /\ (j - 1) + 1 = j)
    OBVIOUS
<1>7. ASSUME NEW j \in 1 .. n + 1 PROVE (j = 1 /\ s[j] = m) \/ (j - 1 \in 1 .. n /\ s[j] = t[j - 1])
    BY <1>4, <1>6
<1>8. \A j \in 1 .. n + 1 : /\ s[j].worker = w
                            /\ s[j].type = "Register" => j = 1
                            /\ s[j].type = "DeRegister" => j = n + 1
    BY <1>3, <1>4 DEF WellFormed
<1>9. m.worker = w
    BY <1>4, <1>5, <1>8
<1>10. \A j \in 1 .. n : /\ t[j].worker = w /\ t[j].type # "Register"
                         /\ t[j].type = "DeRegister" => j = n
  <2> SUFFICES ASSUME NEW j \in 1 .. n
               PROVE  /\ t[j].worker = w /\ t[j].type # "Register"
                      /\ t[j].type = "DeRegister" => j = n
      OBVIOUS
  <2>1. PICK i \in 1 .. n + 1 : i = j + 1
      BY <1>5
  <2>2. t[j] = s[i] /\ i # 1 /\ (i = n + 1 => j = n)
      BY <1>4, <1>5, <2>1
  <2> QED BY <1>8, <2>2
<1>11. WellFormed(w, t) /\ ~Has(t, "Register")
    BY <1>4, <1>10 DEF WellFormed, Has
<1>12. ASSUME NEW type PROVE Has(s, type) <=> (m.type = type \/ Has(t, type))
  <2>1. ASSUME Has(s, type) PROVE m.type = type \/ Has(t, type)
    <3>1. PICK j \in 1 .. n + 1 : s[j].type = type
        BY <1>4, <2>1 DEF Has
    <3>2. CASE s[j] = m
        BY <3>1, <3>2
    <3>3. CASE j - 1 \in 1 .. n /\ s[j] = t[j - 1]
      <4>1. PICK i \in 1 .. n : i = j - 1
          BY <3>3
      <4>2. t[i].type = type
          BY <3>1, <3>3, <4>1
      <4> QED BY <1>4, <4>2 DEF Has
    <3> QED BY <1>7, <3>2, <3>3
  <2>2. ASSUME m.type = type PROVE Has(s, type)
    <3>1. 1 \in DOMAIN s /\ s[1].type = type
        BY <1>4, <1>5, <2>2
    <3> QED BY <3>1 DEF Has
  <2>3. ASSUME Has(t, type) PROVE Has(s, type)
    <3>1. PICK j \in 1 .. n : t[j].type = type
        BY <1>4, <2>3 DEF Has
    <3>2. PICK i \in 1 .. n + 1 : i = j + 1
        BY <1>5
    <3>3. s[i].type = type
        BY <1>4, <3>1, <3>2
    <3> QED BY <1>4, <3>3 DEF Has
  <2> QED BY <2>1, <2>2, <2>3
<1>13. m.type = "DeRegister" => ~Has(t, "DeRegister")
  <2> SUFFICES ASSUME m.type = "DeRegister" PROVE ~Has(t, "DeRegister")
      OBVIOUS
  <2>1. 1 = n + 1
      BY <1>4, <1>5, <1>8
  <2>2. n = 0
      BY <2>1
  <2> QED BY <1>4, <2>2 DEF Has
<1> QED BY <1>1, <1>4, <1>9, <1>11, <1>12, <1>13

\* G is F without the first message m of the life l of w.
Delivered(F, G, w, l, m) ==
    LET s == F[<<w, l>>]
        t == G[<<w, l>>]
    IN  /\ w \in Workers /\ l \in Lives /\ l <= life[w] /\ m \in Message /\ m.worker = w
        /\ m.type = "DeRegister" => ~(l = life[w] /\ phase[w] = "running")
        /\ \A v \in Workers, n \in Lives : v # w \/ n # l => G[<<v, n>>] = F[<<v, n>>]
        /\ ~Has(t, "Register")
        /\ \A type : Has(s, type) <=> (m.type = type \/ Has(t, type))
        /\ m.type = "DeRegister" => ~Has(t, "DeRegister")

LEMMA DeliverStreams ==
    ASSUME NEW F, StreamsOk(F), life \in [Workers -> 0 .. MaxStarts],
           NEW w \in Workers, NEW l \in Lives, F[<<w, l>>] # << >>
    PROVE  LET G == [F EXCEPT ![<<w, l>>] = Tail(@)]
           IN  StreamsOk(G) /\ Delivered(F, G, w, l, Head(F[<<w, l>>]))
<1>1. PICK p \in Connections : p = <<w, l>>
    BY DEF Connections
<1>2. PICK s, t, m : s = F[p] /\ t = Tail(s) /\ m = Head(s)
    OBVIOUS
<1>3. PICK G : G = [F EXCEPT ![p] = t]
    OBVIOUS
<1>4. F \in [Connections -> Seq(Message)] /\ s \in Seq(Message) /\ s # << >>
    BY <1>1, <1>2 DEF StreamsOk
<1>5. \A v \in Workers, n \in Lives :
          /\ WellFormed(v, F[<<v, n>>])
          /\ n > life[v] => F[<<v, n>>] = << >>
          /\ n = life[v] /\ phase[v] = "running" => ~Has(F[<<v, n>>], "DeRegister")
    BY DEF StreamsOk
<1>6. WellFormed(w, s)
    BY <1>1, <1>2, <1>5
<1>7. /\ m \in Message /\ t \in Seq(Message) /\ m.worker = w
      /\ WellFormed(w, t)
      /\ ~Has(t, "Register")
      /\ \A type : Has(s, type) <=> (m.type = type \/ Has(t, type))
      /\ m.type = "DeRegister" => ~Has(t, "DeRegister")
    BY <1>2, <1>4, <1>6, TailStep
<1>8. G \in [Connections -> Seq(Message)] /\ G[p] = t /\ \A q \in Connections : q # p => G[q] = F[q]
    BY <1>3, <1>4, <1>7
<1>9. \A v \in Workers, n \in Lives : v # w \/ n # l => G[<<v, n>>] = F[<<v, n>>]
  <2>1. \A v \in Workers, n \in Lives : v # w \/ n # l => <<v, n>> \in Connections /\ <<v, n>> # p
      BY <1>1 DEF Connections
  <2> QED BY <1>8, <2>1
<1>10. l <= life[w]
  <2>1. ~(l > life[w])
      BY <1>1, <1>2, <1>4, <1>5
  <2>2. l \in Int /\ life[w] \in Int
      BY DEF Lives
  <2> QED BY <2>1, <2>2
<1>11. l = life[w] /\ phase[w] = "running" => ~Has(s, "DeRegister") /\ ~Has(t, "DeRegister") /\ m.type # "DeRegister"
    BY <1>1, <1>2, <1>5, <1>7
<1>12. ASSUME NEW v \in Workers, NEW n \in Lives
       PROVE  /\ WellFormed(v, G[<<v, n>>])
              /\ n > life[v] => G[<<v, n>>] = << >>
              /\ n = life[v] /\ phase[v] = "running" => ~Has(G[<<v, n>>], "DeRegister")
  <2>1. CASE v # w \/ n # l
      BY <1>5, <1>9, <2>1
  <2>2. CASE v = w /\ n = l
    <3>1. ~(l > life[w])
        BY <1>1, <1>2, <1>4, <1>5
    <3>2. G[<<v, n>>] = t
        BY <1>1, <1>8, <2>2
    <3> QED BY <1>7, <1>11, <2>2, <3>1, <3>2
  <2> QED BY <2>1, <2>2
<1>13. StreamsOk(G)
    BY <1>8, <1>12 DEF StreamsOk
<1>14. Delivered(F, G, w, l, m)
  <2>1. F[<<w, l>>] = s /\ G[<<w, l>>] = t
      BY <1>1, <1>2, <1>8
  <2> QED BY <1>7, <1>9, <1>10, <1>11, <2>1 DEF Delivered
<1> QED BY <1>1, <1>2, <1>3, <1>13, <1>14

\* What the handler of m did to the registry.
Handled(c, d, m) ==
    LET w == m.worker
        i == instance[w]
    IN  /\ c \in Controllers /\ d \in Controllers /\ d.raised = c.raised
        /\ m.type \in {"Register", "DeRegister"}
        /\ m.type = "Register" =>
              /\ d.worker_mapping = [c.worker_mapping EXCEPT ![i] = Append(@, w)]
              /\ d.instance_mapping = c.instance_mapping \cup {i}
              /\ d.socket_mapping = c.socket_mapping \cup {w}
        /\ m.type = "DeRegister" =>
              /\ Contains(c.worker_mapping[i], w)
              /\ d.worker_mapping = [c.worker_mapping EXCEPT ![i] = RemoveFirst(@, w)]
              /\ d.instance_mapping = c.instance_mapping \ {i}
              /\ d.socket_mapping = c.socket_mapping \ {w}

\* The lives that may still deregister are finitely many.
LEMMA OpenFinite ==
    ASSUME NEW F, NEW w
    PROVE  IsFiniteSet(Open(F, w)) /\ Cardinality(Open(F, w)) \in Nat
<1>1. IsFiniteSet(Lives) /\ Open(F, w) \in SUBSET Lives
    BY ControllerAssumption, FS_Interval DEF Lives, Open
<1> QED BY <1>1, FS_Subset, FS_CardinalityType

\* A deregistration finds the worker, so no handler raises.
LEMMA HandledStep ==
    ASSUME NEW c, NEW F, NEW G, NEW w, NEW l, NEW m, Types,
           c \in Controllers, Registry(c, F), Delivered(F, G, w, l, m)
    PROVE  Handled(c, handle_worker_message(c, m), m)
<1>1. w \in Workers /\ l \in Lives /\ m \in Message /\ m.worker = w
    BY DEF Delivered
<1>2. instance \in [Workers -> Instances] /\ ~c.raised
    BY DEF Types, Registry
<1>3. m.type = "DeRegister" => Contains(c.worker_mapping[instance[w]], w)
  <2> SUFFICES ASSUME m.type = "DeRegister" PROVE Contains(c.worker_mapping[instance[w]], w)
      OBVIOUS
  <2>1. Has(F[<<w, l>>], "DeRegister") /\ ~Has(F[<<w, l>>], "Register")
      BY DEF Delivered
  <2>2. l \in Open(F, w)
      BY <1>1, <2>1 DEF Open
  <2>3. Cardinality(Open(F, w)) # 0
      BY <2>2, OpenFinite, FS_EmptySet
  <2>4. PICK list : list = c.worker_mapping[instance[w]]
      OBVIOUS
  <2>5. list \in Seq(Workers) /\ Cardinality(Open(F, w)) <= Listings(list, w)
      BY <1>1, <1>2, <2>4 DEF Controllers, Registry
  <2>6. Listings(list, w) > 0
    <3>1. Listings(list, w) \in Nat
        BY <2>5, ListingsCount
    <3>2. PICK x \in Nat : x = Cardinality(Open(F, w))
        BY OpenFinite
    <3> QED BY <2>3, <2>5, <3>1, <3>2
  <2> QED BY <2>4, <2>5, <2>6, ListingsCount
<1>4. PICK d : d = handle_worker_message(c, m)
    OBVIOUS
<1>5. CASE m.type = "Register"
  <2>1. d = register(c, m)
      BY <1>1, <1>2, <1>4, <1>5, Dispatch
  <2> QED BY <1>1, <1>2, <1>4, <1>5, <2>1, RegisterEffect DEF Handled
<1>6. CASE m.type = "DeRegister"
  <2>1. d = deregister(c, m)
      BY <1>1, <1>2, <1>4, <1>6, Dispatch
  <2> QED BY <1>1, <1>2, <1>3, <1>4, <1>6, <2>1, DeregisterEffect DEF Handled
<1> QED BY <1>1, <1>5, <1>6, MessageFields

\* How often a worker is listed before and after.
LEMMA ListingsStep ==
    ASSUME NEW c, NEW d, NEW m, m \in Message, Handled(c, d, m),
           instance \in [Workers -> Instances], NEW v \in Workers
    PROVE  LET x == Listings(c.worker_mapping[instance[v]], v)
               y == Listings(d.worker_mapping[instance[v]], v)
           IN  /\ x \in Nat /\ y \in Nat
               /\ m.type = "Register" /\ v = m.worker => y = x + 1
               /\ m.type = "DeRegister" /\ v = m.worker => y = x - 1
               /\ v # m.worker => y = x
<1>1. PICK w \in Workers, i \in Instances, j \in Instances :
         w = m.worker /\ i = instance[w] /\ j = instance[v]
    BY MessageFields
<1>2. PICK C, D : C = c.worker_mapping /\ D = d.worker_mapping
    OBVIOUS
<1>3. C \in [Instances -> Seq(Workers)] /\ D \in [Instances -> Seq(Workers)]
    BY <1>2 DEF Handled, Controllers
<1>4. C[j] \in Seq(Workers) /\ D[j] \in Seq(Workers)
    BY <1>1, <1>3
<1>5. Listings(C[j], v) \in Nat /\ Listings(D[j], v) \in Nat
    BY <1>4, ListingsCount
<1>6. CASE m.type = "Register"
  <2>1. D = [C EXCEPT ![i] = Append(C[i], w)]
      BY <1>1, <1>2, <1>6 DEF Handled
  <2>2. CASE j = i
    <3>1. D[j] = Append(C[j], w)
        BY <1>1, <1>3, <2>1, <2>2
    <3>2. Listings(D[j], v) = Listings(C[j], v) + (IF w = v THEN 1 ELSE 0)
        BY <1>4, <3>1, ListingsAppend
    <3> QED BY <1>1, <1>2, <1>5, <1>6, <3>2
  <2>3. CASE j # i
    <3>1. D[j] = C[j] /\ v # w
        BY <1>1, <1>3, <2>1, <2>3
    <3> QED BY <1>1, <1>2, <1>5, <1>6, <3>1
  <2> QED BY <2>2, <2>3
<1>7. CASE m.type = "DeRegister"
  <2>1. D = [C EXCEPT ![i] = RemoveFirst(C[i], w)] /\ Contains(C[i], w)
      BY <1>1, <1>2, <1>7 DEF Handled
  <2>2. CASE j = i
    <3>1. D[j] = RemoveFirst(C[j], w) /\ Contains(C[j], w)
        BY <1>1, <1>3, <2>1, <2>2
    <3>2. Listings(D[j], v) = Listings(C[j], v) - (IF w = v THEN 1 ELSE 0)
        BY <1>4, <3>1, ListingsRemove
    <3> QED BY <1>1, <1>2, <1>5, <1>7, <3>2
  <2>3. CASE j # i
    <3>1. D[j] = C[j] /\ v # w
        BY <1>1, <1>3, <2>1, <2>3
    <3> QED BY <1>1, <1>2, <1>5, <1>7, <3>1
  <2> QED BY <2>2, <2>3
<1> QED BY <1>6, <1>7, MessageFields

\* Which lives may still deregister before and after.
LEMMA OpenStep ==
    ASSUME NEW F, NEW G, NEW w, NEW l, NEW m, Delivered(F, G, w, l, m), NEW v \in Workers
    PROVE  /\ Open(G, v) \subseteq Open(F, v) \cup {l}
           /\ v # w \/ m.type # "Register" => Open(G, v) \subseteq Open(F, v)
           /\ v = w /\ m.type = "DeRegister" => l \in Open(F, v) /\ l \notin Open(G, v)
<1>1. \A n \in Lives : n # l \/ v # w => G[<<v, n>>] = F[<<v, n>>]
    BY DEF Delivered
<1>2. \A n \in Lives : n # l \/ v # w => (n \in Open(G, v) <=> n \in Open(F, v))
    BY <1>1 DEF Open
<1>3. Open(G, v) \subseteq Lives
    BY DEF Open
<1>4. ASSUME v = w, m.type # "Register", l \in Open(G, v) PROVE l \in Open(F, v)
  <2>1. /\ l \in Lives
        /\ ~Has(G[<<w, l>>], "Register")
        /\ Has(G[<<w, l>>], "DeRegister") \/ (l = life[w] /\ phase[w] = "running")
      BY <1>4 DEF Open
  <2>2. ~Has(F[<<w, l>>], "Register") /\ (Has(G[<<w, l>>], "DeRegister") => Has(F[<<w, l>>], "DeRegister"))
      BY <1>4, <2>1 DEF Delivered
  <2> QED BY <1>4, <2>1, <2>2 DEF Open
<1>5. ASSUME v = w, m.type = "DeRegister" PROVE l \in Open(F, v) /\ l \notin Open(G, v)
  <2>1. /\ l \in Lives /\ ~Has(F[<<w, l>>], "Register") /\ Has(F[<<w, l>>], "DeRegister")
        /\ ~Has(G[<<w, l>>], "DeRegister") /\ ~(l = life[w] /\ phase[w] = "running")
      BY <1>5 DEF Delivered
  <2> QED BY <1>5, <2>1 DEF Open
<1> QED BY <1>2, <1>3, <1>4, <1>5

LEMMA RegistryStep ==
    ASSUME NEW c, NEW d, NEW F, NEW G, NEW w, NEW l, NEW m, Types,
           Registry(c, F), Delivered(F, G, w, l, m), Handled(c, d, m)
    PROVE  Registry(d, G)
<1>1. /\ w \in Workers /\ l \in Lives /\ m \in Message /\ m.worker = w
      /\ instance \in [Workers -> Instances]
    BY DEF Delivered, Types
<1>2. PICK i \in Instances : i = instance[w]
    BY <1>1
<1>3. PICK C, D : C = c.worker_mapping /\ D = d.worker_mapping
    OBVIOUS
<1>4. /\ C \in [Instances -> Seq(Workers)] /\ D \in [Instances -> Seq(Workers)]
      /\ c.socket_mapping \subseteq Workers /\ c.instance_mapping \subseteq Instances
    BY <1>3 DEF Handled, Controllers
<1>5. \A v \in Workers : /\ C[instance[v]] \in Seq(Workers) /\ D[instance[v]] \in Seq(Workers)
                         /\ Contains(C[instance[v]], v) <=> Listings(C[instance[v]], v) > 0
                         /\ Contains(D[instance[v]], v) <=> Listings(D[instance[v]], v) > 0
    BY <1>1, <1>4, ListingsCount
<1>6. ~d.raised
    BY DEF Registry, Handled
<1>7. ASSUME NEW v \in d.socket_mapping PROVE Contains(D[instance[v]], v)
  <2>1. v \in Workers
      BY DEF Handled, Controllers
  <2>2. PICK x, y \in Nat : x = Listings(C[instance[v]], v) /\ y = Listings(D[instance[v]], v)
      BY <1>1, <1>3, <2>1, ListingsStep
  <2>3. v \in c.socket_mapping => x > 0
      BY <1>3, <1>5, <2>1, <2>2 DEF Registry
  <2>4. y > 0
    <3>1. CASE m.type = "Register" /\ v = w
      <4>1. y = x + 1
          BY <1>1, <1>3, <2>1, <2>2, <3>1, ListingsStep
      <4> QED BY <4>1
    <3>2. CASE ~(m.type = "Register" /\ v = w)
      <4>1. v \in c.socket_mapping /\ ~(m.type = "DeRegister" /\ v = w)
          BY <1>1, <3>2 DEF Handled
      <4>3. v # w
          BY <1>1, <3>2, <4>1, MessageFields
      <4>2. y = x
          BY <1>1, <1>3, <2>1, <2>2, <4>3, ListingsStep
      <4> QED BY <2>3, <4>1, <4>2
    <3> QED BY <3>1, <3>2
  <2> QED BY <1>5, <2>1, <2>2, <2>4
<1>8. ASSUME NEW j \in d.instance_mapping PROVE D[j] # << >>
  <2>1. \A x \in c.instance_mapping : C[x] # << >>
      BY <1>3 DEF Registry
  <2>2. CASE m.type = "Register"
    <3>1. D = [C EXCEPT ![i] = Append(C[i], w)] /\ d.instance_mapping = c.instance_mapping \cup {i}
        BY <1>1, <1>2, <1>3, <2>2 DEF Handled
    <3>2. Append(C[i], w) # << >>
      <4>1. C[i] \in Seq(Workers)
          BY <1>4
      <4>2. Len(Append(C[i], w)) = Len(C[i]) + 1 /\ Len(C[i]) \in Nat
          BY <4>1
      <4> QED BY <4>2
    <3> QED BY <1>4, <2>1, <3>1, <3>2
  <2>3. CASE m.type = "DeRegister"
    <3>1. D = [C EXCEPT ![i] = RemoveFirst(C[i], w)] /\ d.instance_mapping = c.instance_mapping \ {i}
        BY <1>1, <1>2, <1>3, <2>3 DEF Handled
    <3> QED BY <1>4, <2>1, <3>1
  <2> QED BY <2>2, <2>3 DEF Handled
<1>9. ASSUME NEW v \in Workers
      PROVE  Cardinality(Open(G, v)) <= Listings(D[instance[v]], v)
  <2>1. PICK x, y \in Nat : x = Listings(C[instance[v]], v) /\ y = Listings(D[instance[v]], v)
      BY <1>1, <1>3, ListingsStep
  <2>2. PICK A, B : A = Open(F, v) /\ B = Open(G, v)
      OBVIOUS
  <2>3. IsFiniteSet(A) /\ Cardinality(A) \in Nat /\ IsFiniteSet(B) /\ Cardinality(B) \in Nat
      BY <2>2, OpenFinite
  <2>4. Cardinality(A) <= x
      BY <1>3, <2>1, <2>2 DEF Registry
  <2>5. CASE v = w /\ m.type = "Register"
    <3>1. B \in SUBSET (A \cup {l})
        BY <2>2, OpenStep
    <3>2. IsFiniteSet(A \cup {l}) /\ Cardinality(A \cup {l}) \in Nat /\ Cardinality(A \cup {l}) <= Cardinality(A) + 1
      <4>1. /\ IsFiniteSet(A \cup {l})
            /\ Cardinality(A \cup {l}) = IF l \in A THEN Cardinality(A) ELSE Cardinality(A) + 1
          BY <2>3, FS_AddElement
      <4> QED BY <2>3, <4>1
    <3>3. Cardinality(B) <= Cardinality(A \cup {l})
        BY <3>1, <3>2, FS_Subset
    <3>4. y = x + 1
        BY <1>1, <1>3, <2>1, <2>5, ListingsStep
    <3> QED BY <2>1, <2>2, <2>3, <2>4, <3>2, <3>3, <3>4
  <2>6. CASE v = w /\ m.type = "DeRegister"
    <3>1. B \in SUBSET (A \ {l}) /\ l \in A
        BY <2>2, <2>6, OpenStep
    <3>2. IsFiniteSet(A \ {l}) /\ Cardinality(A \ {l}) = Cardinality(A) - 1
        BY <2>3, <3>1, FS_RemoveElement
    <3>3. Cardinality(B) <= Cardinality(A \ {l})
        BY <3>1, <3>2, FS_Subset
    <3>4. y = x - 1
        BY <1>1, <1>3, <2>1, <2>6, ListingsStep
    <3> QED BY <2>1, <2>2, <2>3, <2>4, <3>2, <3>3, <3>4
  <2>7. CASE v # w
    <3>1. B \in SUBSET A
        BY <2>2, <2>7, OpenStep
    <3>2. Cardinality(B) <= Cardinality(A)
        BY <2>3, <3>1, FS_Subset
    <3>3. y = x
        BY <1>1, <1>3, <2>1, <2>7, ListingsStep
    <3> QED BY <2>1, <2>2, <2>3, <2>4, <3>2, <3>3
  <2> QED BY <1>1, <2>5, <2>6, <2>7, MessageFields
<1> QED BY <1>3, <1>6, <1>7, <1>8, <1>9 DEF Registry

\* A worker in its first life sends from that life only.
LEMMA FirstLifeOnly ==
    ASSUME NEW F, NEW G, NEW w, NEW l, NEW m, Types, Delivered(F, G, w, l, m)
    PROVE  /\ life[w] # 0
           /\ life[w] = 1 => l = 1
           /\ FirstLife(w) => m.type # "DeRegister"
<1>1. w \in Workers /\ l \in Lives /\ l <= life[w] /\ life[w] \in 0 .. MaxStarts
    BY DEF Delivered, Types
<1>2. l \in Int /\ l >= 1 /\ life[w] \in Int
    BY <1>1 DEF Lives
<1>3. life[w] # 0 /\ (life[w] = 1 => l = 1)
    BY <1>1, <1>2
<1>4. FirstLife(w) => l = life[w] /\ phase[w] = "running"
    BY <1>3 DEF FirstLife
<1> QED BY <1>3, <1>4 DEF Delivered

LEMMA FirstStep ==
    ASSUME NEW c, NEW d, NEW F, NEW G, NEW w, NEW l, NEW m, Types,
           First(c, F), Delivered(F, G, w, l, m), Handled(c, d, m)
    PROVE  First(d, G)
<1>1. /\ w \in Workers /\ l \in Lives /\ m \in Message /\ m.worker = w
      /\ instance \in [Workers -> Instances]
      /\ \A v \in Workers, n \in Lives : v # w \/ n # l => G[<<v, n>>] = F[<<v, n>>]
    BY DEF Delivered, Types
<1> SUFFICES ASSUME NEW v \in Workers
             PROVE  /\ life[v] = 0 => Listings(d.worker_mapping[instance[v]], v) = 0
                    /\ FirstLife(v) =>
                          IF Has(G[<<v, 1>>], "Register")
                          THEN Listings(d.worker_mapping[instance[v]], v) = 0
                          ELSE Listings(d.worker_mapping[instance[v]], v) = 1 /\ v \in d.socket_mapping
    BY DEF First
<1>2. PICK x, y \in Nat : /\ x = Listings(c.worker_mapping[instance[v]], v)
                          /\ y = Listings(d.worker_mapping[instance[v]], v)
    BY <1>1, ListingsStep
<1>3. ASSUME life[v] = 0 PROVE y = 0
  <2>1. v # w
      BY <1>3, FirstLifeOnly
  <2>2. x = 0
      BY <1>2, <1>3 DEF First
  <2>3. y = x
      BY <1>1, <1>2, <2>1, ListingsStep
  <2> QED BY <2>2, <2>3
<1>4. ASSUME FirstLife(v)
      PROVE  IF Has(G[<<v, 1>>], "Register") THEN y = 0 ELSE y = 1 /\ v \in d.socket_mapping
  <2>1. IF Has(F[<<v, 1>>], "Register") THEN x = 0 ELSE x = 1 /\ v \in c.socket_mapping
      BY <1>2, <1>4 DEF First
  <2>2. CASE v # w
    <3>1. y = x
        BY <1>1, <1>2, <2>2, ListingsStep
    <3>2. v \in c.socket_mapping => v \in d.socket_mapping
        BY <1>1, <2>2 DEF Handled
    <3>3. 1 \in Lives
      <4>1. life[v] = 1 /\ life[v] \in 0 .. MaxStarts
          BY <1>4 DEF FirstLife, Types
      <4> QED BY <4>1, ControllerAssumption DEF Lives
    <3>4. G[<<v, 1>>] = F[<<v, 1>>]
        BY <1>1, <2>2, <3>3
    <3> QED BY <2>1, <3>1, <3>2, <3>4
  <2>3. CASE v = w
    <3>1. l = 1 /\ m.type # "DeRegister"
        BY <1>4, <2>3, FirstLifeOnly DEF FirstLife
    <3>2. /\ ~Has(G[<<v, 1>>], "Register")
          /\ Has(F[<<v, 1>>], "Register") <=> m.type = "Register"
        BY <2>3, <3>1 DEF Delivered
    <3>3. CASE m.type = "Register"
      <4>1. y = x + 1
          BY <1>1, <1>2, <2>3, <3>3, ListingsStep
      <4>2. v \in d.socket_mapping
          BY <1>1, <2>3, <3>3 DEF Handled
      <4> QED BY <2>1, <3>2, <3>3, <4>1, <4>2
    <3>4. m.type = "Register"
        BY <1>1, <3>1, MessageFields
    <3> QED BY <3>3, <3>4
  <2> QED BY <2>2, <2>3
<1> QED BY <1>2, <1>3, <1>4

\* The controller handles the first message of a stream.
LEMMA KnownStep ==
    ASSUME NEW c, NEW F, NEW w \in Workers, NEW l \in Lives, Types, Known(c, F), F[<<w, l>>] # << >>
    PROVE  Known(handle_worker_message(c, Head(F[<<w, l>>])), [F EXCEPT ![<<w, l>>] = Tail(@)])
<1>1. PICK G, m : G = [F EXCEPT ![<<w, l>>] = Tail(@)] /\ m = Head(F[<<w, l>>])
    OBVIOUS
<1>2. /\ StreamsOk(F) /\ c \in Controllers /\ Registry(c, F) /\ First(c, F)
    BY DEF Known
<1>3. life \in [Workers -> 0 .. MaxStarts]
    BY DEF Types
<1>4. StreamsOk(G) /\ Delivered(F, G, w, l, m)
    BY <1>1, <1>2, <1>3, DeliverStreams
<1>5. PICK d : d = handle_worker_message(c, m)
    OBVIOUS
<1>6. Handled(c, d, m)
    BY <1>2, <1>4, <1>5, HandledStep
<1>7. d \in Controllers
    BY <1>6 DEF Handled
<1>8. Registry(d, G)
    BY <1>2, <1>4, <1>6, RegistryStep
<1>9. First(d, G)
    BY <1>2, <1>4, <1>6, FirstStep
<1>12. Known(d, G)
    BY <1>4, <1>7, <1>8, <1>9 DEF Known
<1> QED BY <1>1, <1>5, <1>12

\* The controller handles the first messages of a stream.
LEMMA KnownBatch ==
    ASSUME NEW c, NEW F, NEW w \in Workers, NEW l \in Lives, Types, Known(c, F),
           NEW b \in Seq(Message), NEW r \in Seq(Message), F[<<w, l>>] = b \o r
    PROVE  Known(FoldLeft(handle_worker_message, c, b), [F EXCEPT ![<<w, l>>] = r])
<1>1. PICK p : p = <<w, l>>
    OBVIOUS
<1>2. p \in Connections /\ F \in [Connections -> Seq(Message)] /\ c \in Controllers
      /\ instance \in [Workers -> Instances]
    BY <1>1 DEF Connections, Known, StreamsOk, Types
<1>3. PICK h \in [0 .. Len(b) -> Controllers] :
         /\ h[0] = c
         /\ \A k \in 1 .. Len(b) : h[k] = handle_worker_message(h[k - 1], b[k])
         /\ h[Len(b)] = FoldLeft(handle_worker_message, c, b)
    BY <1>2, BatchSteps
<1>4. PICK s : s = F[p]
    OBVIOUS
<1>5. PICK n, z \in Nat : n = Len(b) /\ z = Len(s)
    BY <1>2, <1>4
<1>6. /\ s \in Seq(Message) /\ n <= z
      /\ \A k \in 1 .. n : s[k] = b[k]
      /\ SubSeq(s, n + 1, z) = r
  <2>1. s \in Seq(Message)
      BY <1>2, <1>4
  <2>2. s = b \o r
      BY <1>1, <1>4
  <2>3. z = n + Len(r) /\ Len(r) \in Nat
      BY <1>5, <2>2, ConcatProperties
  <2>4. \A k \in 1 .. n : s[k] = b[k]
      BY <1>5, <2>2, <2>3, ConcatProperties
  <2>5. \A k \in 1 .. Len(r) : s[k + n] = r[k]
      BY <1>5, <2>2
  <2>6. PICK u : u = SubSeq(s, n + 1, z)
      OBVIOUS
  <2>10. PICK e \in Nat : e = Len(r) /\ z = n + e
      BY <2>3
  <2>13. PICK f \in Int : f = n + 1 /\ z \in Int /\ \A i \in f .. z : i \in 1 .. z
      BY <1>5
  <2>14. \A i \in f .. z : s[i] \in Message
      BY <1>5, <2>1, <2>13
  <2>15. u \in Seq(Message) /\ Len(u) = IF f <= z THEN z - f + 1 ELSE 0
      BY <2>6, <2>13, <2>14, SubSeqProperties
  <2>11. u \in Seq(Message) /\ Len(u) = e
      BY <2>10, <2>13, <2>15
  <2>12. \A k \in 1 .. e : u[k] = s[k + n]
      BY <1>5, <2>1, <2>6, <2>10
  <2>7. u \in Seq(Message) /\ Len(u) = Len(r) /\ \A k \in 1 .. Len(r) : u[k] = s[k + n]
      BY <2>10, <2>11, <2>12
  <2>9. Len(u) = Len(r) /\ \A k \in 1 .. Len(u) : u[k] = r[k]
      BY <2>5, <2>7
  <2>8. u = r
      BY <2>7, <2>9, SeqEqual
  <2> QED BY <2>1, <2>3, <2>4, <2>6, <2>8
<1> DEFINE G(k) == [F EXCEPT ![p] = SubSeq(s, k + 1, z)]
           T == {k \in 0 .. n : ~Known(h[k], G(k))}
<1>7. T = {}
  <2> SUFFICES ASSUME T # {} PROVE FALSE
      OBVIOUS
  <2>1. PICK k \in T : \A x \in T : k <= x
    <3>1. T \subseteq Nat
        OBVIOUS
    <3> HIDE DEF T
    <3> QED BY <3>1, NatMin
  <2>2. k \in 0 .. n /\ k \in Nat /\ ~Known(h[k], G(k))
      BY <2>1
  <2>3. k # 0
    <3> SUFFICES ASSUME k = 0 PROVE FALSE
        OBVIOUS
    <3>1. SubSeq(s, 0 + 1, z) = s
        BY <1>5, <1>6, SubSeqFull
    <3>2. G(0) = F
        BY <1>2, <1>4, <3>1
    <3> QED BY <1>3, <2>2, <3>2
  <2>4. PICK i \in Nat : i + 1 = k
    <3>1. k - 1 \in Nat /\ (k - 1) + 1 = k
        BY <2>2, <2>3
    <3> QED BY <3>1
  <2>5. i \in 0 .. n /\ i \notin T /\ k \in 1 .. n /\ k <= z
    <3>1. ~(k <= i)
        BY <2>2, <2>4
    <3>2. i \notin T
      <4> HIDE DEF T
      <4> QED BY <2>1, <3>1
    <3>3. i \in 0 .. n /\ k \in 1 .. n /\ k <= z
      <4>1. n <= z /\ n \in Nat /\ z \in Nat
          BY <1>6
      <4> HIDE DEF T
      <4> QED BY <2>2, <2>4, <4>1
    <3> QED BY <3>2, <3>3
  <2>6. Known(h[i], G(i))
      BY <2>5
  <2>7. PICK u, v, E : u = SubSeq(s, i + 1, z) /\ v = SubSeq(s, k + 1, z) /\ E = G(i)
      OBVIOUS
  <2>8. u \in Seq(Message) /\ Len(u) = z - i /\ \A j \in 1 .. z - i : u[j] = s[j + i]
      BY <1>5, <1>6, <2>4, <2>5, <2>7
  <2>9. v \in Seq(Message) /\ Len(v) = z - k /\ \A j \in 1 .. z - k : v[j] = s[j + k]
      BY <1>5, <1>6, <2>4, <2>5, <2>7
  <2>10. u # << >> /\ Head(u) = b[k]
    <3>1. 1 \in 1 .. z - i /\ 1 + i = k /\ z - i # 0
        BY <1>5, <2>4, <2>5
    <3>2. u # << >>
        BY <2>8, <3>1
    <3>3. Head(u) = u[1]
        BY <2>8, <3>1
    <3> QED BY <1>6, <2>5, <2>8, <3>1, <3>2, <3>3
  <2>11. Tail(u) = v
    <3>1. PICK x : x = Tail(u)
        OBVIOUS
    <3>2. x \in Seq(Message) /\ Len(x) = Len(u) - 1 /\ \A j \in 1 .. Len(u) - 1 : x[j] = u[j + 1]
        BY <2>8, <2>10, <3>1
    <3>7. Len(u) - 1 = z - k /\ \A j \in 1 .. z - k : j + 1 \in 1 .. z - i /\ (j + 1) + i = j + k
      <4>1. Len(u) = z - i /\ i + 1 = k /\ k \in Nat
          BY <2>2, <2>4, <2>8
      <4> HIDE DEF T
      <4> QED BY <4>1
    <3>3. Len(x) = z - k
        BY <3>2, <3>7
    <3>4. ASSUME NEW j \in 1 .. z - k PROVE x[j] = v[j]
      <4>1. j \in 1 .. Len(u) - 1 /\ j + 1 \in 1 .. z - i /\ (j + 1) + i = j + k
          BY <3>7
      <4> QED BY <2>8, <2>9, <3>2, <4>1
    <3>5. Len(x) = Len(v) /\ \A j \in 1 .. Len(x) : x[j] = v[j]
        BY <2>9, <3>3, <3>4
    <3>6. x = v
        BY <2>9, <3>2, <3>5, SeqEqual
    <3> QED BY <3>1, <3>6
  <2>12. E[p] = u /\ [E EXCEPT ![p] = v] = G(k) /\ E = [F EXCEPT ![p] = u]
      BY <1>2, <2>7
  <2>13. h[k] = handle_worker_message(h[i], Head(E[p]))
    <3>1. k - 1 = i /\ k \in 1 .. Len(b)
        BY <1>5, <2>4, <2>5
    <3> QED BY <1>3, <2>10, <2>12, <3>1
  <2>14. [E EXCEPT ![p] = Tail(@)] = G(k)
      BY <1>2, <2>11, <2>12
  <2>15. Known(h[i], E) /\ E[<<w, l>>] # << >>
      BY <1>1, <2>6, <2>7, <2>10, <2>12
  <2>16. PICK g, y : g = G(k) /\ y = h[i]
      OBVIOUS
  <2> HIDE DEF G, T
  <2>17. Known(handle_worker_message(y, Head(E[<<w, l>>])), [E EXCEPT ![<<w, l>>] = Tail(@)])
      BY <2>15, <2>16, KnownStep
  <2>18. Known(h[k], g)
      BY <1>1, <2>13, <2>14, <2>16, <2>17
  <2> QED BY <2>2, <2>16, <2>18
<1>8. n \in 0 .. n
    OBVIOUS
<1>9. Known(h[n], G(n))
    BY <1>7, <1>8
<1>10. G(n) = [F EXCEPT ![<<w, l>>] = r]
    BY <1>1, <1>6
<1> HIDE DEF G
<1> QED BY <1>3, <1>5, <1>9, <1>10

-----------------------------------------------------------------------------
(* The streams in the steps of the workers *)

StreamFacts(F, W, Q, L) ==
    /\ F \in [Connections -> Seq(Message)]
    /\ \A v \in Workers, n \in Lives :
          /\ W[<<v, n>>] \in Seq(Seq(Message)) /\ Flat(W[<<v, n>>]) \in Seq(Message)
          /\ F[<<v, n>>] = Flat(W[<<v, n>>]) \o (IF n = L[v] THEN Q[v] ELSE << >>)

LEMMA StreamAt ==
    ASSUME NEW W \in [Connections -> Seq(Seq(Message))], NEW Q \in [Workers -> Seq(Message)], NEW L
    PROVE  StreamFacts(StreamsOf(W, Q, L), W, Q, L)
<1>1. \A v \in Workers, n \in Lives :
         W[<<v, n>>] \in Seq(Seq(Message)) /\ Q[v] \in Seq(Message) /\ <<v, n>> \in Connections
    BY DEF Connections
<1>2. \A v \in Workers, n \in Lives : Flat(W[<<v, n>>]) \in Seq(Message)
    BY <1>1, FlatType
<1>3. \A v \in Workers, n \in Lives :
         StreamsOf(W, Q, L)[<<v, n>>] = Flat(W[<<v, n>>]) \o (IF n = L[v] THEN Q[v] ELSE << >>)
    BY <1>1 DEF StreamsOf
<1>4. ASSUME NEW p \in Connections
      PROVE  Flat(W[p]) \o (IF p[2] = L[p[1]] THEN Q[p[1]] ELSE << >>) \in Seq(Message)
  <2>1. PICK v \in Workers, n \in Lives : p = <<v, n>>
      BY DEF Connections
  <2>2. p[1] = v /\ p[2] = n
      BY <2>1
  <2>3. PICK a, b : a = Flat(W[p]) /\ b = IF n = L[v] THEN Q[v] ELSE << >>
      OBVIOUS
  <2>4. a \in Seq(Message) /\ b \in Seq(Message)
      BY <1>1, <1>2, <2>1, <2>3
  <2>5. a \o b \in Seq(Message)
      BY <2>4, ConcatProperties
  <2> QED BY <2>2, <2>3, <2>5
<1>5. StreamsOf(W, Q, L) \in [Connections -> Seq(Message)]
    BY <1>4 DEF StreamsOf
<1> QED BY <1>1, <1>2, <1>3, <1>5 DEF StreamFacts

LEMMA StreamsNow ==
    /\ Types => StreamFacts(Streams, wire, queue, life)
    /\ Types' => StreamFacts(Streams', wire', queue', life')
<1>1. Types => wire \in [Connections -> Seq(Seq(Message))] /\ queue \in [Workers -> Seq(Message)]
    BY DEF Types
<1>2. Types' => wire' \in [Connections -> Seq(Seq(Message))] /\ queue' \in [Workers -> Seq(Message)]
    BY DEF Types
<1>3. Streams = StreamsOf(wire, queue, life) /\ Streams' = StreamsOf(wire', queue', life')
    BY DEF Streams
<1> QED BY <1>1, <1>2, <1>3, StreamAt

\* G is F with s in the place of the stream of the life l of w.
Replaced(F, G, w, l, s) ==
    /\ w \in Workers /\ l \in Lives
    /\ G \in [Connections -> Seq(Message)]
    /\ G[<<w, l>>] = s
    /\ \A v \in Workers, n \in Lives : v # w \/ n # l => G[<<v, n>>] = F[<<v, n>>]

\* A worker that is up is in one of its lives.
LEMMA LifeOf ==
    ASSUME Types, Lifetimes, NEW w \in Workers, phase[w] # "down"
    PROVE  life[w] \in Lives
<1>1. life[w] \in 0 .. MaxStarts /\ life[w] > 0
    BY DEF Types, Lifetimes
<1> QED BY <1>1, ControllerAssumption DEF Lives

\* A message put into the queue is the last of the worker's life.
LEMMA QueueGrows ==
    ASSUME Types, Types', Lifetimes, NEW w \in Workers, phase[w] # "down", NEW m \in Message,
           queue' = [queue EXCEPT ![w] = Append(@, m)], wire' = wire, life' = life
    PROVE  Replaced(Streams, Streams', w, life[w], Append(Streams[<<w, life[w]>>], m))
<1>1. PICK l \in Lives : l = life[w]
    BY LifeOf
<1>2. PICK F, G : F = Streams /\ G = Streams'
    OBVIOUS
<1>3. PICK a, q : a = Flat(wire[<<w, l>>]) /\ q = queue[w]
    OBVIOUS
<1>10. StreamFacts(F, wire, queue, life) /\ StreamFacts(G, wire, queue', life)
    BY <1>2, StreamsNow
<1>11. queue \in [Workers -> Seq(Message)]
    BY DEF Types
<1>4. a \in Seq(Message) /\ q \in Seq(Message) /\ F[<<w, l>>] = a \o q
    BY <1>1, <1>3, <1>10, <1>11 DEF StreamFacts
<1>5. queue'[w] = Append(q, m) /\ \A v \in Workers : v # w => queue'[v] = queue[v]
    BY <1>3 DEF Types
<1>6. /\ G \in [Connections -> Seq(Message)]
      /\ \A v \in Workers, n \in Lives :
            G[<<v, n>>] = Flat(wire[<<v, n>>]) \o (IF n = life[v] THEN queue'[v] ELSE << >>)
    BY <1>10 DEF StreamFacts
<1>7. G[<<w, l>>] = a \o Append(q, m)
    BY <1>1, <1>3, <1>5, <1>6
<1>8. a \o Append(q, m) = Append(a \o q, m)
  <2>1. Append(q, m) = q \o <<m>> /\ <<m>> \in Seq(Message) /\ a \o q \in Seq(Message)
      BY <1>4, AppendIsConcat, ConcatProperties
  <2>2. a \o (q \o <<m>>) = (a \o q) \o <<m>>
      BY <1>4, <2>1, ConcatAssociative
  <2>3. Append(a \o q, m) = (a \o q) \o <<m>>
      BY <2>1, AppendIsConcat
  <2> QED BY <2>1, <2>2, <2>3
<1>9. ASSUME NEW v \in Workers, NEW n \in Lives, v # w \/ n # l
      PROVE  G[<<v, n>>] = F[<<v, n>>]
  <2>1. F[<<v, n>>] = Flat(wire[<<v, n>>]) \o (IF n = life[v] THEN queue[v] ELSE << >>)
      BY <1>10 DEF StreamFacts
  <2>2. n = life[v] => queue'[v] = queue[v]
      BY <1>1, <1>5, <1>9
  <2> QED BY <1>6, <2>1, <2>2
<1> QED BY <1>1, <1>2, <1>4, <1>6, <1>7, <1>8, <1>9 DEF Replaced

-----------------------------------------------------------------------------
(* A message joins its stream *)

LEMMA AppendStep ==
    ASSUME NEW s \in Seq(Message), NEW m \in Message
    PROVE  LET t == Append(s, m)
           IN  /\ t \in Seq(Message)
               /\ \A type : Has(t, type) <=> Has(s, type) \/ m.type = type
<1>1. PICK n \in Nat : n = Len(s)
    OBVIOUS
<1>10. PICK t : t = Append(s, m)
    OBVIOUS
<1>2. /\ t \in Seq(Message) /\ DOMAIN s = 1 .. n /\ DOMAIN t = 1 .. n + 1 /\ t[n + 1] = m
      /\ \A j \in 1 .. n : t[j] = s[j]
    BY <1>1, <1>10
<1>3. n + 1 \in 1 .. n + 1 /\ \A j \in 1 .. n + 1 : (j = n + 1 \/ j \in 1 .. n) /\ (j \in 1 .. n => n + 1 > j)
    BY <1>1, <1>10
<1>9. 1 .. n \subseteq 1 .. n + 1
    OBVIOUS
<1>4. ASSUME NEW type PROVE Has(t, type) <=> Has(s, type) \/ m.type = type
  <2>1. ASSUME Has(t, type) PROVE Has(s, type) \/ m.type = type
    <3>1. PICK j \in 1 .. n + 1 : t[j].type = type
        BY <1>2, <2>1 DEF Has
    <3>2. CASE j = n + 1
        BY <1>2, <3>1, <3>2
    <3>3. CASE j \in 1 .. n
      <4>1. s[j].type = type
          BY <1>2, <3>1, <3>3
      <4> QED BY <1>2, <3>3, <4>1 DEF Has
    <3> QED BY <1>3, <3>2, <3>3
  <2>2. ASSUME m.type = type PROVE Has(t, type)
    <3>1. n + 1 \in DOMAIN t /\ t[n + 1].type = type
        BY <1>2, <1>3, <2>2
    <3> QED BY <3>1 DEF Has
  <2>3. ASSUME Has(s, type) PROVE Has(t, type)
    <3>1. PICK j \in 1 .. n : s[j].type = type
        BY <1>2, <2>3 DEF Has
    <3>2. j \in DOMAIN t /\ t[j].type = type
        BY <1>2, <1>9, <3>1
    <3> QED BY <3>2 DEF Has
  <2> QED BY <2>1, <2>2, <2>3
<1> QED BY <1>1, <1>10, <1>2, <1>4

\* The stream of a life that has not deregistered takes any message but a
\* registration.
LEMMA AppendWellFormed ==
    ASSUME NEW s \in Seq(Message), NEW m \in Message, NEW w, WellFormed(w, s), ~Has(s, "DeRegister"),
           m.worker = w, m.type # "Register"
    PROVE  WellFormed(w, Append(s, m))
<1>1. PICK n \in Nat : n = Len(s)
    OBVIOUS
<1>10. PICK t : t = Append(s, m)
    OBVIOUS
<1>2. /\ t \in Seq(Message) /\ DOMAIN s = 1 .. n /\ DOMAIN t = 1 .. n + 1 /\ t[n + 1] = m
      /\ \A j \in 1 .. n : t[j] = s[j]
      /\ Len(t) = n + 1
    BY <1>1, <1>10
<1>3. \A j \in 1 .. n + 1 : j = n + 1 \/ j \in 1 .. n
    BY <1>1, <1>10
<1>4. ASSUME NEW j \in 1 .. n
      PROVE  /\ t[j].worker = w /\ (t[j].type = "Register" => j = 1)
             /\ t[j].type # "DeRegister"
    BY <1>1, <1>10, <1>2 DEF WellFormed, Has
<1>5. ASSUME NEW j \in 1 .. n + 1
      PROVE  /\ t[j].worker = w /\ (t[j].type = "Register" => j = 1)
             /\ t[j].type = "DeRegister" => j = n + 1
    BY <1>2, <1>3, <1>4
<1>6. WellFormed(w, t)
    BY <1>2, <1>5 DEF WellFormed
<1> QED BY <1>1, <1>10, <1>6

-----------------------------------------------------------------------------
(* The steps of the workers *)

LEMMA KnownFrame ==
    ASSUME NEW c, NEW F, Known(c, F), UNCHANGED <<instance, phase, life>>
    PROVE  Known(c, F)'
<1>1. instance' = instance /\ phase' = phase /\ life' = life
    OBVIOUS
<1>2. StreamsOk(F)'
  <2>1. StreamsOk(F)
      BY DEF Known
  <2> QED BY <1>1, <2>1 DEF StreamsOk
<1>3. Registry(c, F)'
  <2>1. Registry(c, F)
      BY DEF Known
  <2>2. \A w : Open(F, w)' = Open(F, w)
      BY <1>1 DEF Open
  <2> QED BY <1>1, <2>1, <2>2 DEF Registry
<1>4. \A w : FirstLife(w)' <=> FirstLife(w)
    BY <1>1 DEF FirstLife
<1>5. First(c, F)'
  <2>1. First(c, F)
      BY DEF Known
  <2> QED BY <1>1, <1>4, <2>1 DEF First
<1>8. c \in Controllers
    BY DEF Known
<1> QED BY <1>2, <1>3, <1>5, <1>8 DEF Known

\* What the streams keep when a worker that is up sends m.
LEMMA SendStreams ==
    ASSUME NEW F, NEW G, NEW w \in Workers, NEW m \in Message, StreamsOk(F), life[w] \in Lives,
           phase[w] = "running", Replaced(F, G, w, life[w], Append(F[<<w, life[w]>>], m)),
           m.worker = w, m.type # "Register", life' = life,
           \A v \in Workers : v # w => phase'[v] = phase[v],
           phase'[w] = "running" => m.type # "DeRegister"
    PROVE  StreamsOk(G)'
<1>0. PICK l \in Lives : l = life[w]
    OBVIOUS
<1>1. PICK s : l = life[w] /\ s = F[<<w, l>>]
    BY <1>0
<1>2. PICK t : t = Append(s, m)
    OBVIOUS
<1>3. /\ G \in [Connections -> Seq(Message)] /\ G[<<w, l>>] = t
      /\ \A v \in Workers, n \in Lives : v # w \/ n # l => G[<<v, n>>] = F[<<v, n>>]
    BY <1>1, <1>2 DEF Replaced
<1>4. /\ s \in Seq(Message) /\ WellFormed(w, s) /\ ~Has(s, "DeRegister")
  <2>1. <<w, l>> \in Connections
      BY DEF Connections
  <2> QED BY <1>1, <2>1 DEF StreamsOk
<1>5. WellFormed(w, t)
    BY <1>2, <1>4, AppendWellFormed
<1>6. Has(t, "DeRegister") => m.type = "DeRegister"
    BY <1>2, <1>4, AppendStep
<1>8. ASSUME NEW v \in Workers, NEW n \in Lives
      PROVE  /\ WellFormed(v, G[<<v, n>>])
             /\ n > life'[v] => G[<<v, n>>] = << >>
             /\ n = life'[v] /\ phase'[v] = "running" => ~Has(G[<<v, n>>], "DeRegister")
  <2>1. CASE v = w /\ n = l
    <3>1. ~(n > life'[v])
        BY <1>1, <2>1 DEF Lives
    <3> QED BY <1>3, <1>5, <1>6, <2>1, <3>1
  <2>2. CASE v # w \/ n # l
    <3>1. /\ WellFormed(v, F[<<v, n>>]) /\ (n > life[v] => F[<<v, n>>] = << >>)
          /\ n = life[v] /\ phase[v] = "running" => ~Has(F[<<v, n>>], "DeRegister")
        BY DEF StreamsOk
    <3>2. G[<<v, n>>] = F[<<v, n>>]
        BY <1>3, <2>2
    <3>4. n = life'[v] /\ phase'[v] = "running" => n = life[v] /\ phase[v] = "running"
        BY <1>1, <2>2
    <3> QED BY <3>1, <3>2, <3>4
  <2> QED BY <2>1, <2>2
<1> QED BY <1>3, <1>8 DEF StreamsOk

LEMMA KnownClose ==
    ASSUME NEW c, NEW F, NEW G, NEW w \in Workers, Types, Known(c, F), life[w] \in Lives, close(w),
           Replaced(F, G, w, life[w], Append(F[<<w, life[w]>>], [type |-> "DeRegister", worker |-> w]))
    PROVE  Known(c, G)'
<1>1. PICK m : m = [type |-> "DeRegister", worker |-> w]
    OBVIOUS
<1>2. m \in Message /\ m.type = "DeRegister" /\ m.worker = w
    BY <1>1 DEF Message
<1>3. PICK l \in Lives : l = life[w]
    OBVIOUS
<1>4. /\ phase[w] = "running" /\ phase' = [phase EXCEPT ![w] = "closing"]
      /\ phase \in [Workers -> {"down", "running", "closing"}]
      /\ instance' = instance /\ life' = life
    BY DEF close, Types
<1>5. /\ StreamsOk(F) /\ Registry(c, F) /\ First(c, F) /\ c \in Controllers
      /\ F[<<w, l>>] \in Seq(Message)
  <2>1. <<w, l>> \in Connections
      BY DEF Connections
  <2> QED BY <2>1 DEF Known, StreamsOk
<1>6. /\ Replaced(F, G, w, life[w], Append(F[<<w, life[w]>>], m))
      /\ G[<<w, l>>] = Append(F[<<w, l>>], m)
      /\ \A v \in Workers, n \in Lives : v # w \/ n # l => G[<<v, n>>] = F[<<v, n>>]
    BY <1>1, <1>3 DEF Replaced
<1>7. phase'[w] = "closing" /\ \A v \in Workers : v # w => phase'[v] = phase[v]
    BY <1>4
<1>8. StreamsOk(G)'
    BY <1>2, <1>4, <1>5, <1>6, <1>7, SendStreams
<1>9. \A type : Has(G[<<w, l>>], type) <=> Has(F[<<w, l>>], type) \/ m.type = type
    BY <1>2, <1>5, <1>6, AppendStep
<1>10. \A v \in Workers : Open(G, v)' = Open(F, v)
  <2> SUFFICES ASSUME NEW v \in Workers PROVE Open(G, v)' = Open(F, v)
      OBVIOUS
  <2>1. ASSUME NEW n \in Lives PROVE n \in Open(G, v)' <=> n \in Open(F, v)
    <3>1. CASE v = w /\ n = l
      <4>1. Has(G[<<v, n>>], "DeRegister") /\ (Has(G[<<v, n>>], "Register") <=> Has(F[<<v, n>>], "Register"))
          BY <1>2, <1>9, <3>1
      <4> QED BY <1>3, <1>4, <3>1, <4>1 DEF Open
    <3>2. CASE v = w /\ n # l
      <4>1. G[<<v, n>>] = F[<<v, n>>] /\ n # life[v] /\ life'[v] = life[v]
          BY <1>3, <1>4, <1>6, <3>2
      <4> QED BY <4>1 DEF Open
    <3>3. CASE v # w
      <4>1. G[<<v, n>>] = F[<<v, n>>] /\ phase'[v] = phase[v] /\ life'[v] = life[v]
          BY <1>4, <1>6, <1>7, <3>3
      <4> QED BY <4>1 DEF Open
    <3> QED BY <3>1, <3>2, <3>3
  <2>2. Open(G, v)' \subseteq Lives /\ Open(F, v) \subseteq Lives
      BY DEF Open
  <2> QED BY <2>1, <2>2
<1>11. Registry(c, G)'
    BY <1>4, <1>5, <1>10 DEF Registry
<1>12. \A v \in Workers : FirstLife(v)' => FirstLife(v) /\ v # w /\ G[<<v, 1>>] = F[<<v, 1>>]
  <2>1. 1 \in Lives
      BY ControllerAssumption DEF Lives
  <2>2. \A v \in Workers : FirstLife(v)' => FirstLife(v) /\ v # w
      BY <1>4, <1>7 DEF FirstLife
  <2> QED BY <1>6, <2>1, <2>2
<1>13. First(c, G)'
    BY <1>4, <1>5, <1>12 DEF First
<1> QED BY <1>5, <1>8, <1>11, <1>13 DEF Known

\* What a prefix of a stream keeps.
LEMMA PrefixStep ==
    ASSUME NEW t \in Seq(Message), NEW u \in Seq(Message), NEW w, WellFormed(w, t \o u)
    PROVE  /\ WellFormed(w, t)
           /\ \A type : Has(t, type) => Has(t \o u, type)
           /\ \A type : Has(t, type) /\ Has(t \o u, "Register") => Has(t, "Register")
<1>1. PICK n \in Nat : n = Len(t)
    OBVIOUS
<1>2. PICK z \in Nat : z = Len(u)
    OBVIOUS
<1>3. PICK s : s = t \o u
    OBVIOUS
<1>4. s \in Seq(Message) /\ Len(s) = n + z /\ DOMAIN s = 1 .. n + z /\ DOMAIN t = 1 .. n
    BY <1>1, <1>2, <1>3, ConcatProperties
<1>5. \A j \in 1 .. n : s[j] = t[j] /\ j \in 1 .. n + z
    BY <1>1, <1>2, <1>3
<1>6. \A j \in 1 .. n + z : /\ s[j].worker = w
                            /\ s[j].type = "Register" => j = 1
                            /\ s[j].type = "DeRegister" => j = n + z
    BY <1>3, <1>4 DEF WellFormed
<1>7. ASSUME NEW j \in 1 .. n
      PROVE  /\ t[j].worker = w
             /\ t[j].type = "Register" => j = 1
             /\ t[j].type = "DeRegister" => j = n
  <2>1. s[j] = t[j] /\ j \in 1 .. n + z
      BY <1>5
  <2>2. j = n + z => j = n
      BY <1>1, <1>2
  <2> QED BY <1>6, <2>1, <2>2
<1>8. WellFormed(w, t)
    BY <1>1, <1>4, <1>7 DEF WellFormed
<1>9. ASSUME NEW type, Has(t, type) PROVE Has(s, type)
    BY <1>4, <1>5, <1>9 DEF Has
<1>10. ASSUME NEW type, Has(t, type), Has(s, "Register") PROVE Has(t, "Register")
  <2>1. PICK j \in 1 .. n + z : s[j].type = "Register"
      BY <1>4, <1>10 DEF Has
  <2>2. PICK i \in 1 .. n : t[i].type = type
      BY <1>4, <1>10 DEF Has
  <2>3. 1 \in 1 .. n
      BY <2>2
  <2>4. t[1].type = "Register"
      BY <1>5, <1>6, <2>1, <2>3
  <2> QED BY <1>4, <2>3, <2>4 DEF Has
<1> QED BY <1>3, <1>8, <1>9, <1>10

\* A process that ends leaves a prefix of its stream.
LEMMA EndStreams ==
    ASSUME Types, Types', Lifetimes, NEW w \in Workers, End(w)
    PROVE  \E t, u \in Seq(Message) :
              /\ Streams[<<w, life[w]>>] = t \o u
              /\ Replaced(Streams, Streams', w, life[w], t)
<1>1. phase[w] # "down" /\ life' = life /\ queue' = [queue EXCEPT ![w] = << >>]
    BY DEF End
<1>2. PICK l \in Lives : l = life[w]
    BY <1>1, LifeOf
<1>3. PICK n \in 0 .. Len(wire[<<w, l>>]) : wire' = [wire EXCEPT ![<<w, l>>] = SubSeq(@, 1, n)]
    BY <1>2 DEF End
<1>4. PICK F, G : F = Streams /\ G = Streams'
    OBVIOUS
<1>5. StreamFacts(F, wire, queue, life) /\ StreamFacts(G, wire', queue', life)
    BY <1>1, <1>4, StreamsNow
<1>6. PICK S, R : S = wire[<<w, l>>] /\ R = SubSeq(S, 1, n)
    OBVIOUS
<1>7. S \in Seq(Seq(Message)) /\ Flat(S) \in Seq(Message) /\ n \in 0 .. Len(S)
    BY <1>3, <1>5, <1>6 DEF StreamFacts
<1>8. PICK x \in Seq(Message) : Flat(S) = Flat(R) \o x
    BY <1>6, <1>7, FlatPrefix
<1>9. /\ wire \in [Connections -> Seq(Seq(Message))] /\ queue \in [Workers -> Seq(Message)]
      /\ <<w, l>> \in Connections
    BY DEF Types, Connections
<1>10. wire'[<<w, l>>] = R /\ queue'[w] = << >> /\ \A v \in Workers : v # w => queue'[v] = queue[v]
    BY <1>1, <1>3, <1>6, <1>9
<1>11. \A v \in Workers, m \in Lives : v # w \/ m # l => wire'[<<v, m>>] = wire[<<v, m>>]
  <2>1. \A v \in Workers, m \in Lives : v # w \/ m # l => <<v, m>> \in Connections /\ <<v, m>> # <<w, l>>
      BY DEF Connections
  <2> QED BY <1>3, <1>9, <2>1
<1>12. PICK t, q : t = Flat(R) /\ q = queue[w]
    OBVIOUS
<1>13. t \in Seq(Message) /\ q \in Seq(Message)
  <2>1. Flat(wire'[<<w, l>>]) \in Seq(Message)
      BY <1>5 DEF StreamFacts
  <2> QED BY <1>9, <1>10, <1>12, <2>1
<1>14. G[<<w, l>>] = t
  <2>1. G[<<w, l>>] = t \o << >>
      BY <1>2, <1>5, <1>10, <1>12 DEF StreamFacts
  <2> QED BY <1>13, <2>1, ConcatEmptySeq
<1>15. F[<<w, l>>] = t \o (x \o q) /\ x \o q \in Seq(Message)
  <2>1. F[<<w, l>>] = (t \o x) \o q
      BY <1>2, <1>5, <1>6, <1>8, <1>12 DEF StreamFacts
  <2>2. (t \o x) \o q = t \o (x \o q)
      BY <1>13, ConcatAssociative, SMTT(30)
  <2>3. x \o q \in Seq(Message)
      BY <1>13, ConcatProperties
  <2> QED BY <2>1, <2>2, <2>3
<1>16. ASSUME NEW v \in Workers, NEW m \in Lives, v # w \/ m # l
       PROVE  G[<<v, m>>] = F[<<v, m>>]
  <2>1. m = life[v] => queue'[v] = queue[v]
      BY <1>2, <1>10, <1>16
  <2>2. /\ F[<<v, m>>] = Flat(wire[<<v, m>>]) \o (IF m = life[v] THEN queue[v] ELSE << >>)
        /\ G[<<v, m>>] = Flat(wire'[<<v, m>>]) \o (IF m = life[v] THEN queue'[v] ELSE << >>)
      BY <1>5 DEF StreamFacts
  <2> QED BY <1>11, <1>16, <2>1, <2>2
<1>17. Replaced(F, G, w, l, t)
    BY <1>5, <1>14, <1>16 DEF Replaced, StreamFacts
<1> QED BY <1>2, <1>4, <1>13, <1>15, <1>17

LEMMA KnownEnd ==
    ASSUME NEW c, NEW F, NEW G, NEW w \in Workers, NEW t \in Seq(Message), NEW u \in Seq(Message),
           Types, Known(c, F), life[w] \in Lives, End(w),
           F[<<w, life[w]>>] = t \o u, Replaced(F, G, w, life[w], t)
    PROVE  Known(c, G)'
<1>1. PICK l \in Lives : l = life[w]
    OBVIOUS
<1>2. /\ phase' = [phase EXCEPT ![w] = "down"]
      /\ phase \in [Workers -> {"down", "running", "closing"}]
      /\ instance' = instance /\ life' = life
    BY DEF End, Types
<1>3. /\ StreamsOk(F) /\ Registry(c, F) /\ First(c, F) /\ c \in Controllers
    BY DEF Known
<1>4. /\ G \in [Connections -> Seq(Message)] /\ G[<<w, l>>] = t
      /\ \A v \in Workers, n \in Lives : v # w \/ n # l => G[<<v, n>>] = F[<<v, n>>]
    BY <1>1 DEF Replaced
<1>5. phase'[w] = "down" /\ \A v \in Workers : v # w => phase'[v] = phase[v]
    BY <1>2
<1>6. PICK s : s = F[<<w, l>>] /\ s = t \o u /\ WellFormed(w, s)
    BY <1>1, <1>3 DEF StreamsOk
<1>7. /\ WellFormed(w, t)
      /\ \A type : Has(t, type) => Has(s, type)
      /\ \A type : Has(t, type) /\ Has(s, "Register") => Has(t, "Register")
    BY <1>6, PrefixStep
<1>9. ASSUME NEW v \in Workers, NEW n \in Lives
      PROVE  /\ WellFormed(v, G[<<v, n>>])
             /\ n > life'[v] => G[<<v, n>>] = << >>
             /\ n = life'[v] /\ phase'[v] = "running" => ~Has(G[<<v, n>>], "DeRegister")
  <2>1. CASE v = w /\ n = l
    <3>1. ~(n > life'[v]) /\ phase'[v] # "running"
        BY <1>1, <1>2, <1>5, <2>1 DEF Lives
    <3>2. WellFormed(v, G[<<v, n>>])
        BY <1>4, <1>7, <2>1
    <3> QED BY <3>1, <3>2
  <2>2. CASE v # w \/ n # l
    <3>1. /\ WellFormed(v, F[<<v, n>>]) /\ (n > life[v] => F[<<v, n>>] = << >>)
          /\ n = life[v] /\ phase[v] = "running" => ~Has(F[<<v, n>>], "DeRegister")
        BY <1>3 DEF StreamsOk
    <3>2. G[<<v, n>>] = F[<<v, n>>]
        BY <1>4, <2>2
    <3>3. WellFormed(v, G[<<v, n>>])
        BY <3>1, <3>2
    <3>4. n = life'[v] /\ phase'[v] = "running" => n = life[v] /\ phase[v] = "running"
        BY <1>2, <1>5
    <3> QED BY <1>2, <3>1, <3>2, <3>3, <3>4
  <2> QED BY <2>1, <2>2
<1>10. StreamsOk(G)'
    BY <1>4, <1>9 DEF StreamsOk
<1>11. \A v \in Workers : Open(G, v)' \subseteq Open(F, v)
  <2> SUFFICES ASSUME NEW v \in Workers, NEW n \in Lives, n \in Open(G, v)' PROVE n \in Open(F, v)
    <3>1. \A v \in Workers : Open(G, v)' \subseteq Lives
        BY DEF Open
    <3> QED BY <3>1
  <2>1. /\ ~Has(G[<<v, n>>], "Register")
        /\ Has(G[<<v, n>>], "DeRegister") \/ (n = life'[v] /\ phase'[v] = "running")
      BY DEF Open
  <2>2. CASE v = w /\ n = l
    <3>1. Has(t, "DeRegister") /\ ~Has(t, "Register")
        BY <1>4, <1>5, <2>1, <2>2
    <3>2. Has(s, "DeRegister") /\ ~Has(s, "Register")
        BY <1>7, <3>1
    <3> QED BY <1>6, <2>2, <3>2 DEF Open
  <2>3. CASE v # w \/ n # l
    <3>1. G[<<v, n>>] = F[<<v, n>>]
        BY <1>4, <2>3
    <3>2. n = life'[v] /\ phase'[v] = "running" => n = life[v] /\ phase[v] = "running"
        BY <1>2, <1>5
    <3> QED BY <2>1, <3>1, <3>2 DEF Open
  <2> QED BY <2>2, <2>3
<1>12. Registry(c, G)'
  <2>1. ASSUME NEW v \in Workers
        PROVE  Cardinality(Open(G, v)') <= Listings(c.worker_mapping[instance[v]], v)
    <3>1. PICK A, B : A = Open(F, v) /\ B = Open(G, v)'
        OBVIOUS
    <3>2. IsFiniteSet(A) /\ Cardinality(A) \in Nat
        BY <3>1, OpenFinite
    <3>3. B \in SUBSET A
        BY <1>11, <3>1
    <3>4. IsFiniteSet(B) /\ Cardinality(B) <= Cardinality(A)
        BY <3>2, <3>3, FS_Subset
    <3>5. Cardinality(B) \in Nat
        BY <3>4, FS_CardinalityType
    <3>6. PICK x \in Nat : x = Listings(c.worker_mapping[instance[v]], v)
      <4>1. c.worker_mapping[instance[v]] \in Seq(Workers)
          BY <1>3 DEF Controllers, Types
      <4> QED BY <4>1, ListingsCount
    <3>7. Cardinality(A) <= x
        BY <1>3, <3>1, <3>6 DEF Registry
    <3>8. Cardinality(B) <= x
        BY <3>2, <3>4, <3>5, <3>7
    <3> QED BY <3>1, <3>6, <3>8
  <2> QED BY <1>2, <1>3, <2>1 DEF Registry
<1>13. \A v \in Workers : FirstLife(v)' => FirstLife(v) /\ v # w /\ G[<<v, 1>>] = F[<<v, 1>>]
  <2>1. 1 \in Lives
      BY ControllerAssumption DEF Lives
  <2>2. \A v \in Workers : FirstLife(v)' => FirstLife(v) /\ v # w
      BY <1>2, <1>5 DEF FirstLife
  <2> QED BY <1>4, <2>1, <2>2
<1>14. First(c, G)'
    BY <1>2, <1>3, <1>13 DEF First
<1> QED BY <1>3, <1>10, <1>12, <1>14 DEF Known

\* A process that starts begins the stream of its next life.
LEMMA StartStreams ==
    ASSUME Types, Types', Lifetimes, NEW w \in Workers, StartWorker(w)
    PROVE  /\ life[w] + 1 \in Lives
           /\ Replaced(Streams, Streams', w, life[w] + 1, <<[type |-> "Register", worker |-> w]>>)
<1>1. /\ phase[w] = "down" /\ starts < MaxStarts
      /\ life' = [life EXCEPT ![w] = @ + 1] /\ wire' = wire
      /\ queue' = [queue EXCEPT ![w] = <<[type |-> "Register", worker |-> w]>>]
    BY DEF StartWorker
<1>2. life \in [Workers -> 0 .. MaxStarts] /\ queue \in [Workers -> Seq(Message)]
    BY DEF Types
<1>3. /\ starts \in Nat /\ life[w] <= starts /\ queue[w] = << >>
      /\ \A l \in Lives : l > life[w] => wire[<<w, l>>] = << >>
    BY <1>1 DEF Lifetimes
<1>5. PICK l \in Lives : l = life[w] + 1 /\ l > life[w]
  <2>1. PICK a \in Nat : a = life[w]
      BY <1>2
  <2>2. a + 1 \in 1 .. MaxStarts /\ a + 1 > a
      BY <1>1, <1>3, <2>1, ControllerAssumption
  <2> QED BY <2>1, <2>2 DEF Lives
<1>6. PICK F, G : F = Streams /\ G = Streams'
    OBVIOUS
<1>7. StreamFacts(F, wire, queue, life) /\ StreamFacts(G, wire, queue', life')
    BY <1>1, <1>6, StreamsNow
<1>8. PICK q : q = <<[type |-> "Register", worker |-> w]>>
    OBVIOUS
<1>9. q \in Seq(Message)
    BY <1>8 DEF Message
<1>10. /\ life'[w] = l /\ queue'[w] = q
       /\ \A v \in Workers : v # w => life'[v] = life[v] /\ queue'[v] = queue[v]
    BY <1>1, <1>2, <1>5, <1>8
<1>11. G[<<w, l>>] = q
  <2>1. wire[<<w, l>>] = << >>
      BY <1>3, <1>5
  <2>2. G[<<w, l>>] = Flat(wire[<<w, l>>]) \o q
      BY <1>7, <1>10 DEF StreamFacts
  <2>3. G[<<w, l>>] = << >> \o q
      BY <2>1, <2>2, FlatEmpty
  <2> QED BY <1>9, <2>3, ConcatEmptySeq
<1>12. ASSUME NEW v \in Workers, NEW n \in Lives, v # w \/ n # l
       PROVE  G[<<v, n>>] = F[<<v, n>>]
  <2>1. /\ F[<<v, n>>] = Flat(wire[<<v, n>>]) \o (IF n = life[v] THEN queue[v] ELSE << >>)
        /\ G[<<v, n>>] = Flat(wire[<<v, n>>]) \o (IF n = life'[v] THEN queue'[v] ELSE << >>)
      BY <1>7 DEF StreamFacts
  <2>2. CASE v # w
      BY <1>10, <2>1, <2>2
  <2>3. CASE v = w
    <3>1. n # life'[v]
        BY <1>10, <1>12, <2>3
    <3> QED BY <1>3, <2>1, <2>3, <3>1
  <2> QED BY <2>2, <2>3
<1>13. Replaced(F, G, w, l, q)
    BY <1>7, <1>11, <1>12 DEF Replaced, StreamFacts
<1> QED BY <1>5, <1>6, <1>8, <1>13

LEMMA KnownStart ==
    ASSUME NEW c, NEW F, NEW G, NEW w \in Workers, Types, Lifetimes, Known(c, F), StartWorker(w),
           life[w] + 1 \in Lives,
           Replaced(F, G, w, life[w] + 1, <<[type |-> "Register", worker |-> w]>>)
    PROVE  Known(c, G)'
<1>1. PICK l \in Lives : l = life[w] + 1
    OBVIOUS
<1>2. /\ phase' = [phase EXCEPT ![w] = "running"] /\ life' = [life EXCEPT ![w] = @ + 1]
      /\ phase \in [Workers -> {"down", "running", "closing"}] /\ life \in [Workers -> 0 .. MaxStarts]
      /\ instance' = instance /\ phase[w] = "down"
    BY DEF StartWorker, Types
<1>3. /\ StreamsOk(F) /\ Registry(c, F) /\ First(c, F) /\ c \in Controllers
    BY DEF Known
<1>4. PICK m, q : m = [type |-> "Register", worker |-> w] /\ q = <<m>>
    OBVIOUS
<1>5. /\ G \in [Connections -> Seq(Message)] /\ G[<<w, l>>] = q
      /\ \A v \in Workers, n \in Lives : v # w \/ n # l => G[<<v, n>>] = F[<<v, n>>]
    BY <1>1, <1>4 DEF Replaced
<1>6. /\ phase'[w] = "running" /\ life'[w] = l
      /\ \A v \in Workers : v # w => phase'[v] = phase[v] /\ life'[v] = life[v]
    BY <1>1, <1>2
<1>7. m.type = "Register" /\ m.worker = w /\ DOMAIN q = {1} /\ q[1] = m /\ Len(q) = 1
    BY <1>4
<1>8. WellFormed(w, q) /\ Has(q, "Register") /\ ~Has(q, "DeRegister")
    BY <1>7 DEF WellFormed, Has
<1>10. life[w] \in Nat /\ l \in Nat /\ l # 0
    BY <1>1, <1>2
<1>11. ASSUME NEW v \in Workers, NEW n \in Lives
       PROVE  /\ WellFormed(v, G[<<v, n>>])
              /\ n > life'[v] => G[<<v, n>>] = << >>
              /\ n = life'[v] /\ phase'[v] = "running" => ~Has(G[<<v, n>>], "DeRegister")
  <2>1. CASE v = w /\ n = l
    <3>1. ~(n > life'[v])
        BY <1>6, <1>10, <2>1
    <3> QED BY <1>5, <1>8, <2>1, <3>1
  <2>2. CASE v # w \/ n # l
    <3>1. /\ WellFormed(v, F[<<v, n>>]) /\ (n > life[v] => F[<<v, n>>] = << >>)
          /\ n = life[v] /\ phase[v] = "running" => ~Has(F[<<v, n>>], "DeRegister")
        BY <1>3 DEF StreamsOk
    <3>2. G[<<v, n>>] = F[<<v, n>>]
        BY <1>5, <2>2
    <3>3. WellFormed(v, G[<<v, n>>])
        BY <3>1, <3>2
    <3>4. n > life'[v] => n > life[v]
      <4>1. CASE v = w
        <5>1. n \in Int
            BY DEF Lives
        <5> QED BY <1>1, <1>6, <1>10, <4>1, <5>1
      <4>2. CASE v # w
          BY <1>6, <4>2
      <4> QED BY <4>1, <4>2
    <3>5. n = life'[v] /\ phase'[v] = "running" => n = life[v] /\ phase[v] = "running"
        BY <1>6, <2>2
    <3> QED BY <3>1, <3>2, <3>3, <3>4, <3>5
  <2> QED BY <2>1, <2>2
<1>12. StreamsOk(G)'
    BY <1>5, <1>11 DEF StreamsOk
<1>13. \A v \in Workers : Open(G, v)' = Open(F, v)
  <2> SUFFICES ASSUME NEW v \in Workers PROVE Open(G, v)' = Open(F, v)
      OBVIOUS
  <2>1. ASSUME NEW n \in Lives PROVE n \in Open(G, v)' <=> n \in Open(F, v)
    <3>1. CASE v = w /\ n = l
      <4>1. n \notin Open(G, v)'
          BY <1>5, <1>8, <3>1 DEF Open
      <4>2. l > life[w]
          BY <1>1, <1>10
      <4>3. F[<<v, n>>] = << >>
          BY <1>3, <3>1, <4>2 DEF StreamsOk
      <4>4. n \notin Open(F, v)
        <5>1. ~Has(<< >>, "DeRegister")
            BY DEF Has
        <5>2. ~Has(F[<<v, n>>], "DeRegister") /\ phase[v] # "running"
            BY <1>2, <3>1, <4>3, <5>1
        <5> QED BY <5>2 DEF Open
      <4> QED BY <4>1, <4>4
    <3>2. CASE v = w /\ n # l
      <4>1. G[<<v, n>>] = F[<<v, n>>] /\ n # life'[v] /\ phase[v] # "running"
          BY <1>2, <1>5, <1>6, <3>2
      <4> QED BY <4>1 DEF Open
    <3>3. CASE v # w
      <4>1. G[<<v, n>>] = F[<<v, n>>] /\ life'[v] = life[v] /\ phase'[v] = phase[v]
          BY <1>5, <1>6, <3>3
      <4> QED BY <4>1 DEF Open
    <3> QED BY <3>1, <3>2, <3>3
  <2>2. Open(G, v)' \subseteq Lives /\ Open(F, v) \subseteq Lives
      BY DEF Open
  <2> QED BY <2>1, <2>2
<1>14. Registry(c, G)'
    BY <1>2, <1>3, <1>13 DEF Registry
<1>15. \A v \in Workers : FirstLife(v)' => \/ v # w /\ FirstLife(v) /\ G[<<v, 1>>] = F[<<v, 1>>]
                                           \/ v = w /\ life[w] = 0 /\ G[<<v, 1>>] = q
  <2> SUFFICES ASSUME NEW v \in Workers, FirstLife(v)'
               PROVE  \/ v # w /\ FirstLife(v) /\ G[<<v, 1>>] = F[<<v, 1>>]
                      \/ v = w /\ life[w] = 0 /\ G[<<v, 1>>] = q
      OBVIOUS
  <2>1. 1 \in Lives
      BY ControllerAssumption DEF Lives
  <2>2. life'[v] = 1 /\ phase'[v] = "running"
      BY DEF FirstLife
  <2>3. CASE v = w
    <3>1. l = 1 /\ life[w] = 0
        BY <1>1, <1>6, <1>10, <2>2, <2>3
    <3> QED BY <1>5, <2>3, <3>1
  <2>4. CASE v # w
      BY <1>5, <1>6, <2>1, <2>2, <2>4 DEF FirstLife
  <2> QED BY <2>3, <2>4
<1>16. First(c, G)'
  <2>1. ASSUME NEW v \in Workers, life'[v] = 0
        PROVE  Listings(c.worker_mapping[instance[v]], v) = 0
    <3>1. life[v] = 0
        BY <1>6, <1>10, <2>1
    <3> QED BY <1>3, <3>1 DEF First
  <2>2. ASSUME NEW v \in Workers, FirstLife(v)'
        PROVE  IF Has(G[<<v, 1>>], "Register")
               THEN Listings(c.worker_mapping[instance[v]], v) = 0
               ELSE Listings(c.worker_mapping[instance[v]], v) = 1 /\ v \in c.socket_mapping
    <3>1. CASE v # w /\ FirstLife(v) /\ G[<<v, 1>>] = F[<<v, 1>>]
        BY <1>3, <3>1 DEF First
    <3>2. CASE v = w /\ life[w] = 0 /\ G[<<v, 1>>] = q
        BY <1>3, <1>8, <3>2 DEF First
    <3> QED BY <1>15, <2>2, <3>1, <3>2
  <2> QED BY <1>2, <2>1, <2>2 DEF First
<1> QED BY <1>3, <1>12, <1>14, <1>16 DEF Known

-----------------------------------------------------------------------------
(* Types and lives *)

LEMMA TypesInit ==
    ASSUME Init
    PROVE  Types /\ Lifetimes
<1>1. /\ instance \in [Workers -> Instances]
      /\ phase = [w \in Workers |-> "down"] /\ life = [w \in Workers |-> 0] /\ starts = 0
      /\ queue = [w \in Workers |-> << >>] /\ wire = [p \in Connections |-> << >>]
    BY ControllerAssumption DEF Init, Connections
<1>2. ctl \in Controllers
  <2>1. [i \in Instances |-> << >>] \in [Instances -> Seq(Workers)]
      OBVIOUS
  <2> QED BY <2>1 DEF Init, Controllers
<1>3. MaxStarts \in Nat
    BY ControllerAssumption
<1>4. Types
    BY <1>1, <1>2, <1>3 DEF Types
<1>6. Lifetimes
  <2>1. starts \in Nat /\ starts <= MaxStarts
      BY <1>1, <1>3
  <2>2. \A w \in Workers, l \in Lives : wire[<<w, l>>] = << >>
      BY <1>1 DEF Connections
  <2>3. \A w \in Workers : life[w] = 0 /\ phase[w] = "down" /\ queue[w] = << >>
      BY <1>1
  <2> QED BY <1>1, <2>1, <2>2, <2>3 DEF Lifetimes
<1> QED BY <1>4, <1>6

LEMMA NextLife ==
    ASSUME Types, Lifetimes, NEW w \in Workers, StartWorker(w)
    PROVE  life[w] + 1 \in Lives
<1>1. starts < MaxStarts
    BY DEF StartWorker
<1>2. PICK a \in Nat : a = life[w]
    BY DEF Types
<1>3. starts \in Nat /\ a <= starts
    BY <1>2 DEF Lifetimes
<1>4. a + 1 \in 1 .. MaxStarts
    BY <1>1, <1>2, <1>3, ControllerAssumption
<1> QED BY <1>2, <1>4 DEF Lives

LEMMA TypesStep ==
    ASSUME Types, Lifetimes, Next
    PROVE  Types'
<1>1. /\ instance \in [Workers -> Instances]
      /\ phase \in [Workers -> {"down", "running", "closing"}]
      /\ life \in [Workers -> 0 .. MaxStarts]
      /\ queue \in [Workers -> Seq(Message)]
      /\ wire \in [Connections -> Seq(Seq(Message))]
      /\ ctl \in Controllers
    BY DEF Types
<1>2. ASSUME NEW w \in Workers, StartWorker(w) PROVE Types'
  <2>1. life[w] + 1 \in 0 .. MaxStarts
      BY <1>2, NextLife DEF Lives
  <2>2. <<[type |-> "Register", worker |-> w]>> \in Seq(Message)
      BY DEF Message
  <2> QED BY <1>1, <1>2, <2>1, <2>2 DEF StartWorker, Types
<1>5. ASSUME NEW w \in Workers, close(w) PROVE Types'
  <2>1. Append(queue[w], [type |-> "DeRegister", worker |-> w]) \in Seq(Message)
    <3>1. [type |-> "DeRegister", worker |-> w] \in Message
        BY DEF Message
    <3> QED BY <1>1, <3>1
  <2> QED BY <1>1, <1>5, <2>1 DEF close, Types
<1>6. ASSUME NEW w \in Workers, push(w) PROVE Types'
  <2>1. PICK n \in 1 .. MaxBatch :
           /\ n <= Len(queue[w])
           /\ wire' = [wire EXCEPT ![<<w, life[w]>>] = Append(@, SubSeq(queue[w], 1, n))]
           /\ queue' = [queue EXCEPT ![w] = Rest(@, n)]
      BY <1>6 DEF push, Batch
  <2>2. PICK l \in Lives : l = life[w]
      BY <1>6, LifeOf DEF push
  <2>3. <<w, l>> \in Connections
      BY DEF Connections
  <2>4. PICK q \in Seq(Message) : q = queue[w]
      BY <1>1
  <2>5. SubSeq(q, 1, n) \in Seq(Message) /\ Rest(q, n) \in Seq(Message)
    <3>1. n \in Nat /\ Len(q) \in Nat /\ n <= Len(q)
        BY <2>1, <2>4, ControllerAssumption
    <3> QED BY <3>1 DEF Rest
  <2>6. Append(wire[<<w, l>>], SubSeq(q, 1, n)) \in Seq(Seq(Message))
    <3>1. PICK b, S : b = SubSeq(q, 1, n) /\ S = wire[<<w, l>>]
        OBVIOUS
    <3>2. b \in Seq(Message) /\ S \in Seq(Seq(Message))
        BY <1>1, <2>3, <2>5, <3>1
    <3> QED BY <3>1, <3>2, AppendProperties
  <2>7. wire' \in [Connections -> Seq(Seq(Message))] /\ queue' \in [Workers -> Seq(Message)]
    <3>1. queue' \in [Workers -> Seq(Message)]
        BY <1>1, <2>1, <2>4, <2>5
    <3>2. wire' = [wire EXCEPT ![<<w, l>>] = Append(wire[<<w, l>>], SubSeq(q, 1, n))]
        BY <2>1, <2>2, <2>4
    <3>3. PICK x : x = Append(wire[<<w, l>>], SubSeq(q, 1, n))
        OBVIOUS
    <3>4. wire' \in [Connections -> Seq(Seq(Message))]
        BY <1>1, <2>3, <2>6, <3>2, <3>3
    <3> QED BY <3>1, <3>4
  <2>8. UNCHANGED <<instance, phase, life, ctl>>
      BY <1>6 DEF push
  <2> QED BY <1>1, <2>7, <2>8 DEF Types
<1>7. ASSUME NEW w \in Workers, End(w) PROVE Types'
  <2>1. PICK n \in 0 .. Len(wire[<<w, life[w]>>]) :
           wire' = [wire EXCEPT ![<<w, life[w]>>] = SubSeq(@, 1, n)]
      BY <1>7 DEF End
  <2>2. PICK l \in Lives : l = life[w]
      BY <1>7, LifeOf DEF End
  <2>3. PICK S \in Seq(Seq(Message)) : S = wire[<<w, l>>]
      BY <1>1 DEF Connections
  <2>4. SubSeq(S, 1, n) \in Seq(Seq(Message))
    <3>1. n \in 0 .. Len(S) /\ Len(S) \in Nat
        BY <2>1, <2>2, <2>3
    <3>2. \A i \in 1 .. n : S[i] \in Seq(Message)
        BY <2>3, <3>1
    <3> QED BY <3>1, <3>2, SubSeqProperties
  <2>5. wire' \in [Connections -> Seq(Seq(Message))]
    <3>1. PICK x : x = SubSeq(S, 1, n)
        OBVIOUS
    <3>2. wire' = [wire EXCEPT ![<<w, l>>] = x]
        BY <2>1, <2>2, <2>3, <3>1
    <3> QED BY <1>1, <2>4, <3>1, <3>2
  <2>6. /\ phase' = [phase EXCEPT ![w] = "down"]
        /\ queue' = [queue EXCEPT ![w] = << >>] /\ UNCHANGED <<instance, life, ctl>>
      BY <1>7 DEF End
  <2>7. << >> \in Seq(Message)
      OBVIOUS
  <2> QED BY <1>1, <2>5, <2>6, <2>7 DEF Types
<1>8. ASSUME NEW w \in Workers, NEW l \in Lives, handle_batched_request(w, l) PROVE Types'
  <2>1. PICK S \in Seq(Seq(Message)) : S = wire[<<w, l>>]
      BY <1>1 DEF Connections
  <2>2. /\ S # << >> /\ wire' = [wire EXCEPT ![<<w, l>>] = Tail(S)]
        /\ ctl' = FoldLeft(handle_worker_message, [ctl EXCEPT !.raised = FALSE], Head(S))
        /\ UNCHANGED <<instance, phase, life, queue>>
      BY <1>8, <2>1 DEF handle_batched_request
  <2>3. Head(S) \in Seq(Message) /\ Tail(S) \in Seq(Seq(Message))
      BY <2>1, <2>2, HeadTailProperties
  <2>4. [ctl EXCEPT !.raised = FALSE] \in Controllers
      BY <1>1 DEF Controllers
  <2>5. ctl' \in Controllers
    <3>1. PICK c0 \in Controllers : c0 = [ctl EXCEPT !.raised = FALSE]
        BY <2>4
    <3>2. PICK b \in Seq(Message) : b = Head(S)
        BY <2>3
    <3>3. PICK h \in [0 .. Len(b) -> Controllers] : h[Len(b)] = FoldLeft(handle_worker_message, c0, b)
        BY <1>1, BatchSteps
    <3>4. Len(b) \in 0 .. Len(b)
        OBVIOUS
    <3> QED BY <2>2, <3>1, <3>2, <3>3, <3>4
  <2>6. wire' \in [Connections -> Seq(Seq(Message))]
      BY <1>1, <2>2, <2>3
  <2> QED BY <1>1, <2>2, <2>5, <2>6 DEF Types
<1> QED BY <1>2, <1>5, <1>6, <1>7, <1>8 DEF Next

\* A step that replaces at most the multipart messages of the worker's
\* present life sends nothing in a life to come.
LEMMA LaterLives ==
    ASSUME Types, Lifetimes, NEW w \in Workers, NEW l \in Lives, l <= life[w], NEW x,
           wire' = [wire EXCEPT ![<<w, l>>] = x]
    PROVE  \A v \in Workers, n \in Lives : n > life[v] => wire'[<<v, n>>] = << >>
<1>1. wire \in [Connections -> Seq(Seq(Message))] /\ life \in [Workers -> 0 .. MaxStarts]
    BY DEF Types
<1> SUFFICES ASSUME NEW v \in Workers, NEW n \in Lives, n > life[v]
             PROVE  wire'[<<v, n>>] = << >>
    OBVIOUS
<1>2. wire[<<v, n>>] = << >> /\ <<v, n>> \in Connections
    BY DEF Lifetimes, Connections
<1>3. <<v, n>> # <<w, l>>
  <2> SUFFICES ASSUME v = w, n = l PROVE FALSE
      OBVIOUS
  <2>1. life[w] \in Int /\ l \in Int
      BY <1>1, ControllerAssumption DEF Lives
  <2> QED BY <2>1
<1> QED BY <1>1, <1>2, <1>3

LEMMA LifetimesStep ==
    ASSUME Types, Lifetimes, Next
    PROVE  Lifetimes'
<1>1. /\ phase \in [Workers -> {"down", "running", "closing"}]
      /\ life \in [Workers -> 0 .. MaxStarts]
      /\ queue \in [Workers -> Seq(Message)]
      /\ wire \in [Connections -> Seq(Seq(Message))]
    BY DEF Types
<1>2. /\ starts \in Nat /\ starts <= MaxStarts
      /\ \A w \in Workers :
          /\ life[w] <= starts
          /\ phase[w] = "down" => queue[w] = << >>
          /\ phase[w] # "down" => life[w] > 0
          /\ \A l \in Lives : l > life[w] => wire[<<w, l>>] = << >>
    BY DEF Lifetimes
<1>3. \A w \in Workers : life[w] \in Nat
    BY <1>1, ControllerAssumption
<1>4. MaxStarts \in Nat
    BY ControllerAssumption
<1>5. ASSUME NEW w \in Workers, StartWorker(w) PROVE Lifetimes'
  <2>1. /\ phase[w] = "down" /\ starts < MaxStarts /\ starts' = starts + 1
        /\ phase' = [phase EXCEPT ![w] = "running"] /\ life' = [life EXCEPT ![w] = @ + 1]
        /\ queue' = [queue EXCEPT ![w] = <<[type |-> "Register", worker |-> w]>>]
        /\ wire' = wire
      BY <1>5 DEF StartWorker
  <2>2. starts' \in Nat /\ starts' <= MaxStarts
      BY <1>2, <1>4, <2>1
  <2>3. \A v \in Workers : v # w => phase'[v] = phase[v] /\ life'[v] = life[v] /\ queue'[v] = queue[v]
      BY <1>1, <2>1
  <2>4. phase'[w] = "running" /\ life'[w] = life[w] + 1
      BY <1>1, <2>1
  <2>5. \A v \in Workers : life'[v] <= starts' /\ life'[v] >= life[v] /\ life'[v] \in Nat
      BY <1>2, <1>3, <2>1, <2>3, <2>4
  <2>6. \A v \in Workers :
          /\ phase'[v] = "down" => queue'[v] = << >>
          /\ phase'[v] # "down" => life'[v] > 0
      BY <1>2, <1>3, <2>1, <2>3, <2>4
  <2>7. ASSUME NEW v \in Workers, NEW l \in Lives, l > life'[v] PROVE wire'[<<v, l>>] = << >>
    <3>1. l > life[v]
        BY <1>3, <2>5, <2>7, ControllerAssumption DEF Lives
    <3> QED BY <1>2, <2>1, <3>1
  <2> QED BY <2>2, <2>5, <2>6, <2>7 DEF Lifetimes
<1>8. ASSUME NEW w \in Workers, close(w) PROVE Lifetimes'
  <2>1. /\ phase[w] = "running" /\ phase' = [phase EXCEPT ![w] = "closing"]
        /\ \A v \in Workers : v # w => queue'[v] = queue[v]
        /\ UNCHANGED <<life, starts, wire>>
      BY <1>1, <1>8 DEF close
  <2>2. phase'[w] = "closing" /\ \A v \in Workers : v # w => phase'[v] = phase[v]
      BY <1>1, <2>1
  <2> QED BY <1>2, <2>1, <2>2 DEF Lifetimes
<1>9. ASSUME NEW w \in Workers, push(w) PROVE Lifetimes'
  <2>1. PICK l \in Lives : l = life[w]
      BY <1>9, LifeOf DEF push
  <2>2. PICK n : /\ wire' = [wire EXCEPT ![<<w, life[w]>>] = Append(@, SubSeq(queue[w], 1, n))]
                 /\ queue' = [queue EXCEPT ![w] = Rest(@, n)]
      BY <1>9 DEF push, Batch
  <2>3. PICK x : wire' = [wire EXCEPT ![<<w, l>>] = x]
      BY <2>1, <2>2
  <2>4. \A v \in Workers, m \in Lives : m > life[v] => wire'[<<v, m>>] = << >>
    <3>1. l <= life[w]
        BY <1>3, <2>1
    <3> QED BY <2>3, <3>1, LaterLives
  <2>5. /\ phase[w] # "down" /\ \A v \in Workers : v # w => queue'[v] = queue[v]
        /\ UNCHANGED <<phase, life, starts>>
      BY <1>1, <1>9, <2>2 DEF push
  <2> QED BY <1>2, <2>4, <2>5 DEF Lifetimes
<1>10. ASSUME NEW w \in Workers, End(w) PROVE Lifetimes'
  <2>1. PICK l \in Lives : l = life[w]
      BY <1>10, LifeOf DEF End
  <2>2. PICK n : wire' = [wire EXCEPT ![<<w, life[w]>>] = SubSeq(@, 1, n)]
      BY <1>10 DEF End
  <2>3. PICK x : wire' = [wire EXCEPT ![<<w, l>>] = x]
      BY <2>1, <2>2
  <2>4. \A v \in Workers, m \in Lives : m > life[v] => wire'[<<v, m>>] = << >>
    <3>1. l <= life[w]
        BY <1>3, <2>1
    <3> QED BY <2>3, <3>1, LaterLives
  <2>5. /\ phase' = [phase EXCEPT ![w] = "down"]
        /\ queue' = [queue EXCEPT ![w] = << >>] /\ UNCHANGED <<life, starts>>
      BY <1>10 DEF End
  <2>6. /\ phase'[w] = "down" /\ queue'[w] = << >>
        /\ \A v \in Workers : v # w => phase'[v] = phase[v] /\ queue'[v] = queue[v]
      BY <1>1, <2>5
  <2> QED BY <1>2, <2>4, <2>5, <2>6 DEF Lifetimes
<1>11. ASSUME NEW w \in Workers, NEW l \in Lives, handle_batched_request(w, l) PROVE Lifetimes'
  <2>1. /\ wire[<<w, l>>] # << >> /\ UNCHANGED <<phase, life, starts, queue>>
      BY <1>11 DEF handle_batched_request
  <2>2. PICK x : wire' = [wire EXCEPT ![<<w, l>>] = x]
      BY <1>11 DEF handle_batched_request
  <2>3. l <= life[w]
    <3>1. ~(l > life[w])
        BY <1>2, <2>1
    <3> QED BY <1>3, <3>1, ControllerAssumption DEF Lives
  <2>4. \A v \in Workers, m \in Lives : m > life[v] => wire'[<<v, m>>] = << >>
      BY <2>2, <2>3, LaterLives
  <2> QED BY <1>2, <2>1, <2>4 DEF Lifetimes
<1> QED BY <1>5, <1>8, <1>9, <1>10, <1>11 DEF Next

-----------------------------------------------------------------------------
(* Batches *)

\* Streams that agree everywhere are the same.
LEMMA StreamsEqual ==
    ASSUME NEW F \in [Connections -> Seq(Message)], NEW G \in [Connections -> Seq(Message)],
           \A v \in Workers, n \in Lives : G[<<v, n>>] = F[<<v, n>>]
    PROVE  G = F
<1>1. ASSUME NEW p \in Connections PROVE G[p] = F[p]
  <2>1. PICK v \in Workers, n \in Lives : p = <<v, n>>
      BY DEF Connections
  <2> QED BY <2>1
<1> QED BY <1>1

\* A batch that goes out takes its messages' place in the stream.
LEMMA PushStreams ==
    ASSUME Types, Types', Lifetimes, NEW w \in Workers, push(w)
    PROVE  Streams' = Streams
<1>1. life' = life
    BY DEF push
<1>2. PICK l \in Lives : l = life[w]
    BY LifeOf DEF push
<1>3. PICK n \in 1 .. MaxBatch :
         /\ n <= Len(queue[w])
         /\ wire' = [wire EXCEPT ![<<w, l>>] = Append(@, SubSeq(queue[w], 1, n))]
         /\ queue' = [queue EXCEPT ![w] = Rest(@, n)]
    BY <1>2 DEF push, Batch
<1>4. PICK F, G : F = Streams /\ G = Streams'
    OBVIOUS
<1>5. StreamFacts(F, wire, queue, life) /\ StreamFacts(G, wire', queue', life)
    BY <1>1, <1>4, StreamsNow
<1>6. PICK S, q : S = wire[<<w, l>>] /\ q = queue[w]
    OBVIOUS
<1>7. /\ wire \in [Connections -> Seq(Seq(Message))] /\ queue \in [Workers -> Seq(Message)]
      /\ <<w, l>> \in Connections
    BY DEF Types, Connections
<1>8. S \in Seq(Seq(Message)) /\ q \in Seq(Message) /\ Flat(S) \in Seq(Message)
    BY <1>5, <1>6, <1>7 DEF StreamFacts
<1>9. PICK b, r : b = SubSeq(q, 1, n) /\ r = SubSeq(q, n + 1, Len(q))
    OBVIOUS
<1>10. n \in Nat /\ Len(q) \in Nat /\ 1 <= n /\ n <= Len(q)
    BY <1>3, <1>6, <1>8, ControllerAssumption
<1>11. b \in Seq(Message) /\ r \in Seq(Message)
  <2>1. \A i \in 1 .. Len(q) : q[i] \in Message
      BY <1>8
  <2>2. n + 1 \in Int /\ Len(q) \in Int /\ 1 \in Int /\ n \in Int
      BY <1>10
  <2>3. (\A i \in 1 .. n : q[i] \in Message) /\ \A i \in n + 1 .. Len(q) : q[i] \in Message
      BY <1>10, <2>1
  <2>4. SubSeq(q, 1, n) \in Seq(Message)
      BY <2>2, <2>3, SubSeqProperties, Zenon
  <2>5. SubSeq(q, n + 1, Len(q)) \in Seq(Message)
      BY <2>2, <2>3, SubSeqProperties, Zenon
  <2> QED BY <1>9, <2>4, <2>5, Zenon
<1>12. b \o r = q
  <2>1. SubSeq(q, 1, Len(q)) = q
      BY <1>8, SubSeqFull
  <2>2. 1 \in 1 .. Len(q) + 1 /\ n \in 1 - 1 .. Len(q) /\ Len(q) \in n .. Len(q)
      BY <1>10
  <2>3. SubSeq(q, 1, n) \o SubSeq(q, n + 1, Len(q)) = SubSeq(q, 1, Len(q))
      BY <1>8, <2>2, ConcatAdjacentSubSeq
  <2> QED BY <1>9, <2>1, <2>3, Zenon
<1>13. /\ wire'[<<w, l>>] = Append(S, b) /\ queue'[w] = r
       /\ \A v \in Workers : v # w => queue'[v] = queue[v]
    BY <1>3, <1>6, <1>7, <1>9 DEF Rest
<1>14. \A v \in Workers, m \in Lives : v # w \/ m # l => wire'[<<v, m>>] = wire[<<v, m>>]
  <2>1. \A v \in Workers, m \in Lives : v # w \/ m # l => <<v, m>> \in Connections /\ <<v, m>> # <<w, l>>
      BY DEF Connections
  <2> QED BY <1>3, <1>7, <2>1
<1>15. G[<<w, l>>] = F[<<w, l>>]
  <2>1. PICK f : f = Flat(S)
      OBVIOUS
  <2>2. F[<<w, l>>] = f \o q
      BY <1>2, <1>5, <1>6, <2>1 DEF StreamFacts
  <2>6. G[<<w, l>>] = Flat(wire'[<<w, l>>]) \o (IF l = life[w] THEN queue'[w] ELSE << >>)
      BY <1>5, Zenon DEF StreamFacts
  <2>7. (IF l = life[w] THEN queue'[w] ELSE << >>) = r
      BY <1>2, <1>13, Zenon
  <2>3. G[<<w, l>>] = Flat(Append(S, b)) \o r
      BY <1>13, <2>6, <2>7, Zenon
  <2>4. Flat(Append(S, b)) = f \o b
      BY <1>8, <1>11, <2>1, FlatAppend
  <2>5. (f \o b) \o r = f \o (b \o r)
      BY <1>8, <1>11, <2>1, ConcatAssociative, SMTT(30)
  <2> QED BY <1>12, <2>2, <2>3, <2>4, <2>5
<1>16. ASSUME NEW v \in Workers, NEW m \in Lives PROVE G[<<v, m>>] = F[<<v, m>>]
  <2>1. CASE v = w /\ m = l
      BY <1>15, <2>1
  <2>2. CASE v # w \/ m # l
    <3>1. m = life[v] => queue'[v] = queue[v]
        BY <1>2, <1>13, <2>2
    <3>2. /\ F[<<v, m>>] = Flat(wire[<<v, m>>]) \o (IF m = life[v] THEN queue[v] ELSE << >>)
          /\ G[<<v, m>>] = Flat(wire'[<<v, m>>]) \o (IF m = life[v] THEN queue'[v] ELSE << >>)
        BY <1>5 DEF StreamFacts
    <3> QED BY <1>14, <2>2, <3>1, <3>2
  <2> QED BY <2>1, <2>2
<1>17. F \in [Connections -> Seq(Message)] /\ G \in [Connections -> Seq(Message)]
    BY <1>5 DEF StreamFacts
<1>18. G = F
    BY <1>16, <1>17, StreamsEqual
<1> QED BY <1>4, <1>18

\* A batch that is handled was the head of its stream.
LEMMA BatchStreams ==
    ASSUME Types, Types', NEW w \in Workers, NEW l \in Lives, handle_batched_request(w, l)
    PROVE  \E b, r \in Seq(Message) :
              /\ b = Head(wire[<<w, l>>])
              /\ Streams[<<w, l>>] = b \o r
              /\ Streams' = [Streams EXCEPT ![<<w, l>>] = r]
<1>1. /\ life' = life /\ queue' = queue /\ wire[<<w, l>>] # << >>
      /\ wire' = [wire EXCEPT ![<<w, l>>] = Tail(@)]
    BY DEF handle_batched_request
<1>2. PICK F, G : F = Streams /\ G = Streams'
    OBVIOUS
<1>3. StreamFacts(F, wire, queue, life) /\ StreamFacts(G, wire', queue, life)
    BY <1>1, <1>2, StreamsNow
<1>4. /\ wire \in [Connections -> Seq(Seq(Message))] /\ queue \in [Workers -> Seq(Message)]
      /\ <<w, l>> \in Connections
    BY DEF Types, Connections
<1>5. PICK S : S = wire[<<w, l>>] /\ S \in Seq(Seq(Message)) /\ S # << >>
    BY <1>1, <1>4
<1>6. PICK b : b = Head(S)
    OBVIOUS
<1>7. wire'[<<w, l>>] = Tail(S)
    BY <1>1, <1>4, <1>5
<1>8. PICK f : f = Flat(Tail(S))
    OBVIOUS
<1>9. PICK q : q = IF l = life[w] THEN queue[w] ELSE << >>
    OBVIOUS
<1>10. b \in Seq(Message) /\ Flat(S) = b \o f
    BY <1>5, <1>6, <1>8, FlatTail
<1>11. f \in Seq(Message) /\ q \in Seq(Message)
  <2>1. Flat(wire'[<<w, l>>]) \in Seq(Message)
      BY <1>3 DEF StreamFacts
  <2>2. << >> \in Seq(Message)
      OBVIOUS
  <2> QED BY <1>4, <1>7, <1>8, <1>9, <2>1, <2>2
<1>12. PICK r \in Seq(Message) : r = f \o q
    BY <1>11, ConcatProperties
<1>21. \A v \in Workers, n \in Lives :
         /\ F[<<v, n>>] = Flat(wire[<<v, n>>]) \o (IF n = life[v] THEN queue[v] ELSE << >>)
         /\ G[<<v, n>>] = Flat(wire'[<<v, n>>]) \o (IF n = life[v] THEN queue[v] ELSE << >>)
    BY <1>3 DEF StreamFacts
<1>22. F[<<w, l>>] = Flat(S) \o q /\ G[<<w, l>>] = f \o q
  <2>1. F[<<w, l>>] = Flat(wire[<<w, l>>]) \o (IF l = life[w] THEN queue[w] ELSE << >>)
      BY <1>21, Zenon
  <2>2. G[<<w, l>>] = Flat(wire'[<<w, l>>]) \o (IF l = life[w] THEN queue[w] ELSE << >>)
      BY <1>21, Zenon
  <2> QED BY <1>5, <1>7, <1>8, <1>9, <2>1, <2>2, Zenon
<1>13. F[<<w, l>>] = b \o r
  <2>1. F[<<w, l>>] = (b \o f) \o q
      BY <1>10, <1>22
  <2>2. (b \o f) \o q = b \o (f \o q)
      BY <1>10, <1>11, ConcatAssociative, SMTT(30)
  <2> QED BY <1>12, <2>1, <2>2
<1>14. G[<<w, l>>] = r
    BY <1>12, <1>22
<1>15. ASSUME NEW v \in Workers, NEW m \in Lives, v # w \/ m # l PROVE G[<<v, m>>] = F[<<v, m>>]
  <2>1. <<v, m>> \in Connections /\ <<v, m>> # <<w, l>>
      BY <1>15 DEF Connections
  <2>2. wire'[<<v, m>>] = wire[<<v, m>>]
    <3>1. PICK x : x = Tail(wire[<<w, l>>])
        OBVIOUS
    <3>2. wire' = [wire EXCEPT ![<<w, l>>] = x]
        BY <1>1, <3>1
    <3>3. PICK p, o \in Connections : p = <<w, l>> /\ o = <<v, m>> /\ o # p
        BY <1>4, <2>1
    <3>4. wire'[o] = wire[o]
        BY <1>4, <3>2, <3>3
    <3> QED BY <3>3, <3>4
  <2>3. Flat(wire'[<<v, m>>]) = Flat(wire[<<v, m>>])
      BY <2>2
  <2>4. PICK x, y : x = Flat(wire[<<v, m>>]) /\ y = IF m = life[v] THEN queue[v] ELSE << >>
      OBVIOUS
  <2>5. F[<<v, m>>] = x \o y
      BY <1>21, <2>4
  <2>7. G[<<v, m>>] = Flat(wire'[<<v, m>>]) \o (IF m = life[v] THEN queue[v] ELSE << >>)
      BY <1>21, Zenon
  <2>6. G[<<v, m>>] = x \o y
      BY <2>3, <2>4, <2>7, Zenon
  <2> QED BY <2>5, <2>6
<1>16. PICK E, p : E = [F EXCEPT ![p] = r] /\ p = <<w, l>>
    OBVIOUS
<1>17. F \in [Connections -> Seq(Message)] /\ G \in [Connections -> Seq(Message)]
    BY <1>3 DEF StreamFacts
<1>18. E \in [Connections -> Seq(Message)] /\ E[p] = r /\ \A o \in Connections : o # p => E[o] = F[o]
  <2>1. p \in Connections
      BY <1>4, <1>16
  <2>2. E = [F EXCEPT ![p] = r]
      BY <1>16
  <2> QED BY <1>12, <1>17, <2>1, <2>2
<1>19. ASSUME NEW v \in Workers, NEW m \in Lives PROVE G[<<v, m>>] = E[<<v, m>>]
  <2>1. <<v, m>> \in Connections
      BY DEF Connections
  <2>2. CASE v = w /\ m = l
      BY <1>14, <1>16, <1>18, <2>2
  <2>3. CASE v # w \/ m # l
    <3>1. <<v, m>> # p
        BY <1>16, <2>3
    <3> QED BY <1>15, <1>18, <2>1, <2>3, <3>1
  <2> QED BY <2>2, <2>3
<1>20. G = E
    BY <1>17, <1>18, <1>19, StreamsEqual
<1> QED BY <1>2, <1>5, <1>6, <1>10, <1>12, <1>13, <1>16, <1>20

-----------------------------------------------------------------------------
(* The invariant *)

LEMMA KnownInit ==
    ASSUME Init
    PROVE  Known(ctl, Streams)
<1>1. Types /\ Lifetimes
    BY TypesInit
<1>2. PICK F : F = Streams
    OBVIOUS
<1>3. StreamFacts(F, wire, queue, life)
    BY <1>1, <1>2, StreamsNow
<1>4. /\ F \in [Connections -> Seq(Message)]
      /\ \A v \in Workers, n \in Lives :
            F[<<v, n>>] = Flat(wire[<<v, n>>]) \o (IF n = life[v] THEN queue[v] ELSE << >>)
    BY <1>3 DEF StreamFacts
<1>5. /\ \A v \in Workers, n \in Lives : wire[<<v, n>>] = << >>
      /\ \A v \in Workers : queue[v] = << >> /\ life[v] = 0 /\ phase[v] = "down"
    BY DEF Init
<1>6. ASSUME NEW v \in Workers, NEW n \in Lives PROVE F[<<v, n>>] = << >>
  <2>1. F[<<v, n>>] = Flat(wire[<<v, n>>]) \o << >>
      BY <1>4, <1>5
  <2>2. Flat(wire[<<v, n>>]) = << >>
      BY <1>5, FlatEmpty
  <2>3. << >> \o << >> = << >>
      OBVIOUS
  <2> QED BY <2>1, <2>2, <2>3
<1>7. ctl \in Controllers
    BY <1>1 DEF Types
<1>8. /\ ctl.socket_mapping = {} /\ ctl.instance_mapping = {} /\ ctl.raised = FALSE
      /\ \A i \in Instances : ctl.worker_mapping[i] = << >>
    BY DEF Init
<1>9. instance \in [Workers -> Instances]
    BY <1>1 DEF Types
<1>10. \A type : ~Has(<< >>, type)
    BY DEF Has
<1>11. StreamsOk(F)
  <2>1. \A w : WellFormed(w, << >>)
      BY DEF WellFormed
  <2> QED BY <1>4, <1>6, <1>10, <2>1 DEF StreamsOk
<1>12. ASSUME NEW w \in Workers PROVE Listings(ctl.worker_mapping[instance[w]], w) = 0
  <2>1. << >> \in Seq({})
      OBVIOUS
  <2>2. Listings(<< >>, w) = 0
      BY <2>1, ListingsCount
  <2> QED BY <1>8, <1>9, <2>2
<1>13. Registry(ctl, F)
  <2>1. ASSUME NEW w \in Workers PROVE Cardinality(Open(F, w)) = 0
    <3>1. Open(F, w) = {}
        BY <1>5, <1>6, <1>10 DEF Open
    <3> QED BY <3>1, FS_EmptySet
  <2> QED BY <1>8, <1>12, <2>1 DEF Registry
<1>14. \A v \in Workers : ~FirstLife(v)
    BY <1>5 DEF FirstLife
<1>15. First(ctl, F)
    BY <1>12, <1>14 DEF First
<1> QED BY <1>2, <1>7, <1>11, <1>13, <1>15 DEF Known

LEMMA KnownSteps ==
    ASSUME Types, Types', Lifetimes, Known(ctl, Streams), Next
    PROVE  Known(ctl, Streams)'
<1>1. PICK c, F, G : c = ctl /\ F = Streams /\ G = Streams'
    OBVIOUS
<1>2. Known(c, F)
    BY <1>1
<1>3. \A w \in Workers : phase[w] # "down" => life[w] \in Lives
    BY LifeOf
<1>4. ASSUME ctl' = ctl, Known(c, G)' PROVE Known(ctl, Streams)'
  <2>1. ctl' = c /\ Streams' = G
      BY <1>1, <1>4
  <2> QED BY <1>4, <2>1
<1>5. ASSUME NEW w \in Workers, StartWorker(w) PROVE Known(ctl, Streams)'
  <2>1. life[w] + 1 \in Lives /\ Replaced(F, G, w, life[w] + 1, <<[type |-> "Register", worker |-> w]>>)
      BY <1>1, <1>5, StartStreams
  <2>2. Known(c, G)'
      BY <1>2, <1>5, <2>1, KnownStart
  <2>3. ctl' = ctl
      BY <1>5 DEF StartWorker
  <2> QED BY <1>4, <2>2, <2>3
<1>8. ASSUME NEW w \in Workers, close(w) PROVE Known(ctl, Streams)'
  <2>1. PICK m : m = [type |-> "DeRegister", worker |-> w]
      OBVIOUS
  <2>2. m \in Message
      BY <2>1 DEF Message
  <2>3. /\ phase[w] # "down" /\ queue' = [queue EXCEPT ![w] = Append(@, m)]
        /\ wire' = wire /\ life' = life /\ ctl' = ctl
      BY <1>8, <2>1 DEF close
  <2>4. Replaced(F, G, w, life[w], Append(F[<<w, life[w]>>], m))
      BY <1>1, <2>2, <2>3, QueueGrows
  <2>5. life[w] \in Lives
      BY <1>3, <2>3
  <2>6. Known(c, G)'
      BY <1>2, <1>8, <2>1, <2>4, <2>5, KnownClose
  <2> QED BY <1>4, <2>3, <2>6
<1>9. ASSUME NEW w \in Workers, push(w) PROVE Known(ctl, Streams)'
  <2>1. G = F
      BY <1>1, <1>9, PushStreams
  <2>2. UNCHANGED <<instance, phase, life>> /\ ctl' = ctl
      BY <1>9 DEF push
  <2>3. Known(c, F)'
      BY <1>2, <2>2, KnownFrame
  <2> QED BY <1>4, <2>1, <2>2, <2>3
<1>10. ASSUME NEW w \in Workers, End(w) PROVE Known(ctl, Streams)'
  <2>1. PICK t, u \in Seq(Message) : F[<<w, life[w]>>] = t \o u /\ Replaced(F, G, w, life[w], t)
      BY <1>1, <1>10, EndStreams
  <2>2. life[w] \in Lives /\ ctl' = ctl
      BY <1>3, <1>10 DEF End
  <2>3. Known(c, G)'
      BY <1>2, <1>10, <2>1, <2>2, KnownEnd
  <2> QED BY <1>4, <2>2, <2>3
<1>11. ASSUME NEW w \in Workers, NEW l \in Lives, handle_batched_request(w, l) PROVE Known(ctl, Streams)'
  <2>1. PICK b, r \in Seq(Message) :
           b = Head(wire[<<w, l>>]) /\ F[<<w, l>>] = b \o r /\ G = [F EXCEPT ![<<w, l>>] = r]
    <3>1. \E b, r \in Seq(Message) :
             /\ b = Head(wire[<<w, l>>])
             /\ Streams[<<w, l>>] = b \o r
             /\ Streams' = [Streams EXCEPT ![<<w, l>>] = r]
        BY <1>11, BatchStreams
    <3> QED BY <1>1, <3>1
  <2>2. [ctl EXCEPT !.raised = FALSE] = c
    <3>1. c \in Controllers /\ ~c.raised
        BY <1>2 DEF Known, Registry
    <3>2. c.raised = FALSE
        BY <3>1 DEF Controllers
    <3>3. [c EXCEPT !.raised = FALSE] = c
        BY <3>1, <3>2 DEF Controllers
    <3> QED BY <1>1, <3>3
  <2>3. PICK d : d = FoldLeft(handle_worker_message, c, b)
      OBVIOUS
  <2>4. ctl' = d /\ UNCHANGED <<instance, phase, life>>
    <3>1. ctl' = FoldLeft(handle_worker_message, [ctl EXCEPT !.raised = FALSE], Head(wire[<<w, l>>]))
          /\ UNCHANGED <<instance, phase, life>>
        BY <1>11 DEF handle_batched_request
    <3>2. ctl' = FoldLeft(handle_worker_message, c, b)
        BY <2>1, <2>2, <3>1
    <3> QED BY <2>3, <3>1, <3>2
  <2>5. Known(d, G)
      BY <1>2, <2>1, <2>3, KnownBatch
  <2>6. Known(d, G)'
      BY <2>4, <2>5, KnownFrame
  <2>7. ctl' = d /\ Streams' = G
      BY <1>1, <2>4
  <2> QED BY <2>6, <2>7
<1> QED BY <1>5, <1>8, <1>9, <1>10, <1>11 DEF Next

\* Whatever the workers send, lose and end, and in whatever order the
\* controller hears of it, ControllerInv holds: each life's undelivered
\* messages are a well-formed stream, no handler has raised, every life that
\* may still deregister has a listing of its own, and a worker in its first
\* life is listed once and has a socket as soon as its registration is handled.
THEOREM ControllerInvariant == Spec => []ControllerInv
<1>1. Init => ControllerInv
    BY TypesInit, KnownInit DEF ControllerInv
<1>2. ControllerInv /\ [Next]_vars => ControllerInv'
  <2>1. ASSUME ControllerInv, Next PROVE ControllerInv'
    <3>1. Types /\ Lifetimes /\ Known(ctl, Streams)
        BY <2>1 DEF ControllerInv
    <3>2. Types' /\ Lifetimes'
        BY <2>1, <3>1, TypesStep, LifetimesStep
    <3>3. Known(ctl, Streams)'
        BY <2>1, <3>1, <3>2, KnownSteps
    <3> QED BY <3>2, <3>3 DEF ControllerInv
  <2>2. ASSUME ControllerInv, UNCHANGED vars PROVE ControllerInv'
    <3>1. PICK c, F : c = ctl /\ F = Streams
        OBVIOUS
    <3>2. UNCHANGED <<instance, phase, life, starts, queue, wire, ctl>>
        BY <2>2 DEF vars
    <3>3. Types' /\ Lifetimes'
      <4>1. Types /\ Lifetimes
          BY <2>2 DEF ControllerInv
      <4>2. Types'
          BY <3>2, <4>1 DEF Types
      <4>3. Lifetimes'
          BY <3>2, <4>1 DEF Lifetimes
      <4> QED BY <4>2, <4>3
    <3>4. Known(c, F)'
      <4>1. Known(c, F)
          BY <2>2, <3>1 DEF ControllerInv
      <4>2. UNCHANGED <<instance, phase, life>>
          BY <3>2
      <4> QED BY <4>1, <4>2, KnownFrame
    <3>5. ctl' = c /\ Streams' = F
        BY <3>1, <3>2 DEF Streams
    <3>6. Known(ctl, Streams)'
        BY <3>4, <3>5
    <3> QED BY <3>3, <3>6 DEF ControllerInv
  <2> QED BY <2>1, <2>2
<1> QED BY <1>1, <1>2, PTL DEF Spec

\* The registry, the queues and the connections hold what their types say.
THEOREM ControllerTypeOK == Spec => []TypeOK
<1>1. ControllerInv => TypeOK
  <2> SUFFICES ASSUME Types PROVE TypeOK
      BY DEF ControllerInv
  <2>1. \A w \in Workers, l \in Lives : <<w, l>> \in Connections
      BY DEF Connections
  <2>2. \A w \in Workers, l \in Lives : wire[<<w, l>>] \in Seq(Seq(Message))
      BY <2>1 DEF Types
  <2>3. /\ \A i \in Instances : ctl.worker_mapping[i] \in Seq(Workers)
        /\ ctl.socket_mapping \subseteq Workers
        /\ ctl.instance_mapping \subseteq Instances
        /\ ctl.raised \in BOOLEAN
      BY DEF Types, Controllers
  <2> QED BY <2>2, <2>3 DEF Types, TypeOK
<1> QED BY <1>1, ControllerInvariant, PTL

\* list.remove in RegistrationController.deregister always finds the worker,
\* whichever lives of it are mixed up and whichever messages were lost, so no
\* part of a batch is dropped.
THEOREM ControllerNoHandlerRaises == Spec => []NoHandlerRaises
<1>1. ControllerInv => NoHandlerRaises
    BY DEF ControllerInv, Known, Registry, NoHandlerRaises
<1> QED BY <1>1, ControllerInvariant, PTL

\* A drained worker's streams are empty.
LEMMA DrainedStream ==
    ASSUME Types, NEW w \in Workers, NEW l \in Lives, Drained(w)
    PROVE  Streams[<<w, l>>] = << >>
<1>1. PICK F : F = Streams
    OBVIOUS
<1>2. StreamFacts(F, wire, queue, life)
    BY <1>1, StreamsNow
<1>3. F[<<w, l>>] = Flat(wire[<<w, l>>]) \o (IF l = life[w] THEN queue[w] ELSE << >>)
    BY <1>2 DEF StreamFacts
<1>4. queue[w] = << >> /\ wire[<<w, l>>] = << >>
    BY DEF Drained
<1>5. Flat(wire[<<w, l>>]) = << >>
    BY <1>4, FlatEmpty
<1>6. F[<<w, l>>] = << >> \o << >>
    BY <1>3, <1>4, <1>5
<1>7. << >> \o << >> = << >>
    OBVIOUS
<1> QED BY <1>1, <1>6, <1>7

\* A worker in its first life is in a life the bounds allow.
LEMMA FirstLives ==
    ASSUME Types, NEW w \in Workers, FirstLife(w)
    PROVE  1 \in Lives
<1>1. life[w] = 1 /\ life[w] \in 0 .. MaxStarts
    BY DEF FirstLife, Types
<1> QED BY <1>1, ControllerAssumption DEF Lives

\* The registry's three maps agree with each other, and a worker in its first
\* life whose messages have been handled is listed exactly once and has a
\* socket.
THEOREM ControllerRegistryAgrees == Spec => []RegistryAgrees
<1>1. ControllerInv => RegistryAgrees
  <2> SUFFICES ASSUME Types, Known(ctl, Streams) PROVE RegistryAgrees
      BY DEF ControllerInv
  <2>1. PICK F : F = Streams
      OBVIOUS
  <2>2. Registry(ctl, F) /\ First(ctl, F)
      BY <2>1 DEF Known
  <2>3. /\ \A w \in ctl.socket_mapping : Listed(w)
        /\ \A i \in ctl.instance_mapping : ctl.worker_mapping[i] # << >>
      BY <2>2 DEF Registry, Listed
  <2>4. ASSUME NEW w \in Workers, FirstLife(w), Drained(w)
        PROVE  /\ w \in ctl.socket_mapping
               /\ Listings(ctl.worker_mapping[instance[w]], w) = 1
    <3>1. 1 \in Lives
        BY <2>4, FirstLives
    <3>2. F[<<w, 1>>] = << >>
        BY <2>1, <2>4, <3>1, DrainedStream
    <3>3. ~Has(F[<<w, 1>>], "Register")
        BY <3>2 DEF Has
    <3> QED BY <2>2, <2>4, <3>3 DEF First
  <2> QED BY <2>3, <2>4 DEF RegistryAgrees, Listings
<1> QED BY <1>1, ControllerInvariant, PTL

=============================================================================
