-------------------------- MODULE MpmcQueueProofs --------------------------
(***************************************************************************)
(* Safety of MpmcQueue for any number of threads and enqueued values.      *)
(*                                                                         *)
(* The nodes of a list are numbered in the order in which the exchanges of *)
(* its tail placed them: U[ut] is the used node at uTail, U[uh] the one at *)
(* uHead, likewise S, sh and st for the spare nodes.  A link between two   *)
(* of them is there or still to be stored by the one thread that has made  *)
(* the exchange (Links), the nodes of both lists and those in transit are  *)
(* different ones (Apart), and the values of the used nodes are `line'     *)
(* (Content).  Of all that nothing is left once a growth has torn the      *)
(* queue; what then still holds is in TypeOK, LocalInv, LockInv and        *)
(* GrowInv.                                                                *)
(***************************************************************************)
EXTENDS MpmcQueue, FiniteSetTheorems, SequenceTheorems, TLAPS

\* What a thread's locals hold while it needs them.
LocalInv ==
  \A t \in Threads :
    /\ pc[t] \in {"next", "tail", "grow", "pop", "fill", "swing", "link", "append"} =>
         pres[t] \in Nodes
    /\ pc[t] = "pop" => nexts[t] \in Nodes
    /\ pc[t] \in {"link", "succ", "empty", "move", "clear", "give", "append"} =>
         preu[t] \in Nodes
    /\ pc[t] = "move" => nextu[t] \in Nodes
    /\ pc[t] \in {"reserve", "next", "tail", "grow", "pop", "fill", "swing"} =>
         input[t] \in Values

HasSpareLock(t) == pc[t] \in {"next", "tail", "grow", "pop"}
HasUsedLock(t) == pc[t] \in {"succ", "empty", "move"}
LockInv ==
  /\ \A t \in Threads : (HasSpareLock(t) => sLk) /\ (HasUsedLock(t) => uLk)
  /\ \A t, u \in Threads : /\ HasSpareLock(t) /\ HasSpareLock(u) => t = u
                           /\ HasUsedLock(t) /\ HasUsedLock(u) => t = u

\* Every growth is paid for by an enqueue that has not grown before.
MayGrow == {t \in Threads : pc[t] \in {"reserve", "next", "tail", "grow"}}
GrowInv == IsFiniteSet(MayGrow) /\ allocated + Cardinality(MayGrow) <= 2 + count

BaseInv == TypeOK /\ LocalInv /\ LockInv /\ GrowInv

Holds(t, n) == \/ pc[t] \in {"fill", "swing"} /\ n = pres[t]
               \/ pc[t] \in {"clear", "give"} /\ n = preu[t]

Ends(U, uh, ut, S, sh, st) ==
  /\ U \in [Nat -> Nodes] /\ uh \in Nat /\ ut \in Nat /\ uh <= ut
  /\ S \in [Nat -> Nodes] /\ sh \in Nat /\ st \in Nat /\ sh <= st
  /\ U[uh] = uHead /\ U[ut] = uTail /\ S[sh] = sHead /\ S[st] = sTail

Apart(U, uh, ut, S, sh, st) ==
  /\ \A i \in uh..ut : U[i] <= allocated /\ \A j \in uh..ut : U[i] = U[j] => i = j
  /\ \A i \in sh..st : S[i] <= allocated /\ \A j \in sh..st : S[i] = S[j] => i = j
  /\ \A i \in uh..ut, j \in sh..st : U[i] # S[j]
  /\ \A t \in Threads, n \in Nodes : Holds(t, n) =>
       /\ n <= allocated
       /\ \A i \in uh..ut : n # U[i]
       /\ \A j \in sh..st : n # S[j]
       /\ \A u \in Threads : Holds(u, n) => u = t

Links(U, uh, ut, S, sh, st) ==
  /\ \A i \in uh..ut : next[U[i]] \in {Null, U[i + 1]} /\ (i = ut => next[U[i]] = Null)
  /\ \A i \in sh..st : next[S[i]] \in {Null, S[i + 1]} /\ (i = st => next[S[i]] = Null)
  /\ \A n \in Nodes : n > allocated => next[n] = Null

UsedInv(U, uh, ut) ==
  \A t \in Threads :
    /\ pc[t] = "link" =>
         /\ \E i \in uh..ut : i < ut /\ preu[t] = U[i] /\ pres[t] = U[i + 1]
         /\ next[preu[t]] = Null
         /\ \A u \in Threads : pc[u] = "link" /\ preu[u] = preu[t] => u = t
    /\ HasUsedLock(t) => preu[t] = U[uh]
    /\ pc[t] = "move" => uh < ut /\ nextu[t] = U[uh + 1] /\ next[preu[t]] = nextu[t]

SpareInv(S, sh, st) ==
  \A t \in Threads :
    /\ pc[t] = "append" =>
         /\ \E i \in sh..st : i < st /\ pres[t] = S[i] /\ preu[t] = S[i + 1]
         /\ next[pres[t]] = Null
         /\ \A u \in Threads : pc[u] = "append" /\ pres[u] = pres[t] => u = t
    /\ HasSpareLock(t) => pres[t] = S[sh]
    /\ pc[t] = "pop" =>
         /\ sh < st /\ nexts[t] = S[sh + 1]
         /\ \A u \in Threads : pc[u] = "append" => pres[u] # S[sh]

Content(U, uh, ut) ==
  /\ Len(line) = ut - uh
  /\ \A i \in 1..Len(line) : data[U[uh + i]] = line[i]
  /\ \A t \in Threads :
       /\ pc[t] = "swing" => data[pres[t]] = input[t] /\ next[pres[t]] = Null
       /\ pc[t] = "give" => next[preu[t]] = Null

Lists(U, uh, ut, S, sh, st) ==
  /\ Ends(U, uh, ut, S, sh, st) /\ Apart(U, uh, ut, S, sh, st)
  /\ Links(U, uh, ut, S, sh, st)
  /\ UsedInv(U, uh, ut) /\ SpareInv(S, sh, st) /\ Content(U, uh, ut)

IInv ==
  /\ BaseInv
  /\ ~torn => \E U, S \in [Nat -> Nodes], uh, ut, sh, st \in Nat :
                Lists(U, uh, ut, S, sh, st)
-----------------------------------------------------------------------------

(* What holds even when the queue is torn.                                 *)

\* The bound on the nodes, through the four ways in which MayGrow can change.
LEMMA GrowSame ==
  ASSUME GrowInv, MayGrow' = MayGrow, allocated' = allocated, count' = count
  PROVE  GrowInv'
BY DEF GrowInv

LEMMA GrowLess ==
  ASSUME BaseInv, NEW t \in MayGrow, MayGrow' = MayGrow \ {t},
         allocated' \in {allocated, allocated + 1}, count' = count
  PROVE  GrowInv'
<1>1. IsFiniteSet(MayGrow) /\ Cardinality(MayGrow) \in Nat
  BY FS_CardinalityType DEF BaseInv, GrowInv
<1>2. IsFiniteSet(MayGrow') /\ Cardinality(MayGrow') = Cardinality(MayGrow) - 1
  BY <1>1, FS_RemoveElement
<1>3. allocated \in Nat /\ count \in Nat
  BY BoundAssumption DEF BaseInv, TypeOK
<1>4. QED
  BY <1>1, <1>2, <1>3 DEF BaseInv, GrowInv

LEMMA GrowMore ==
  ASSUME BaseInv, NEW t \in Threads, t \notin MayGrow, MayGrow' = MayGrow \cup {t},
         allocated' = allocated, count' = count + 1
  PROVE  GrowInv'
<1>1. IsFiniteSet(MayGrow) /\ Cardinality(MayGrow) \in Nat
  BY FS_CardinalityType DEF BaseInv, GrowInv
<1>2. IsFiniteSet(MayGrow') /\ Cardinality(MayGrow') = Cardinality(MayGrow) + 1
  BY <1>1, FS_AddElement
<1>3. allocated \in Nat /\ count \in Nat
  BY BoundAssumption DEF BaseInv, TypeOK
<1>4. QED
  BY <1>1, <1>2, <1>3 DEF BaseInv, GrowInv

\* There is room for the node of a growth.
LEMMA RoomToGrow ==
  ASSUME BaseInv, NEW t \in Threads, pc[t] = "grow"
  PROVE  allocated + 1 \in 2..(2 + count) /\ allocated + 1 \in Nodes
<1>1. t \in MayGrow
  BY DEF MayGrow
<1>2. IsFiniteSet(MayGrow) /\ Cardinality(MayGrow) \in Nat
  BY FS_CardinalityType DEF BaseInv, GrowInv
<1>3. Cardinality(MayGrow) # 0
  BY <1>1, <1>2, FS_EmptySet
<1>4. allocated \in Nat /\ allocated >= 2 /\ count \in Nat /\ count <= MaxEnqueues
  BY BoundAssumption DEF BaseInv, TypeOK
<1>5. QED
  BY <1>2, <1>3, <1>4, BoundAssumption DEF BaseInv, GrowInv, Nodes

LEMMA EnqueueCallBase ==
  ASSUME BaseInv, NEW t \in Threads, EnqueueCall(t) PROVE BaseInv'
<1> USE BoundAssumption DEF EnqueueCall, Go, shared, locals, BaseInv
<1>1. TypeOK'
  BY SMT DEF TypeOK, LocalInv, Control, Values, NoValue, Null
<1>2. LocalInv'
  BY SMT DEF TypeOK, LocalInv, Values, Nodes, Null
<1>3. LockInv'
  BY DEF TypeOK, LockInv, HasSpareLock, HasUsedLock
<1>4. GrowInv'
  <2>1. t \notin MayGrow /\ MayGrow' = MayGrow \cup {t}
    BY DEF TypeOK, MayGrow
  <2>2. QED
    BY <2>1, GrowMore
<1>5. QED
  BY <1>1, <1>2, <1>3, <1>4

LEMMA ReserveBase ==
  ASSUME BaseInv, NEW t \in Threads, Reserve(t) PROVE BaseInv'
<1> USE BoundAssumption DEF Reserve, Go, shared, locals, BaseInv
<1>1. TypeOK'
  BY SMT DEF TypeOK, LocalInv, Control, Values, NoValue, Null
<1>2. LocalInv'
  BY SMT DEF TypeOK, LocalInv, Values, Nodes, Null
<1>3. LockInv'
  BY DEF TypeOK, LockInv, HasSpareLock, HasUsedLock
<1>4. GrowInv'
  <2>1. MayGrow' = MayGrow
    BY DEF TypeOK, MayGrow
  <2>2. QED
    BY <2>1, GrowSame
<1>5. QED
  BY <1>1, <1>2, <1>3, <1>4

LEMMA ReadNextBase ==
  ASSUME BaseInv, NEW t \in Threads, ReadNext(t) PROVE BaseInv'
<1> USE BoundAssumption DEF ReadNext, Go, shared, locals, BaseInv
<1>1. TypeOK'
  BY SMT DEF TypeOK, LocalInv, Control, Values, NoValue, Null
<1>2. LocalInv'
  BY SMT DEF TypeOK, LocalInv, Values, Nodes, Null
<1>3. LockInv'
  BY DEF TypeOK, LockInv, HasSpareLock, HasUsedLock
<1>4. GrowInv'
  <2>1. CASE next[pres[t]] = Null
    <3>1. MayGrow' = MayGrow
      BY <2>1 DEF TypeOK, MayGrow
    <3>2. QED
      BY <3>1, GrowSame
  <2>2. CASE next[pres[t]] # Null
    <3>1. t \in MayGrow /\ MayGrow' = MayGrow \ {t}
      BY <2>2 DEF TypeOK, MayGrow
    <3>2. QED
      BY <3>1, GrowLess
  <2>3. QED
    BY <2>1, <2>2
<1>5. QED
  BY <1>1, <1>2, <1>3, <1>4

LEMMA CompareTailBase ==
  ASSUME BaseInv, NEW t \in Threads, CompareTail(t) PROVE BaseInv'
<1> USE BoundAssumption DEF CompareTail, Go, shared, locals, BaseInv
<1>1. TypeOK'
  BY SMT DEF TypeOK, LocalInv, Control, Values, NoValue, Null
<1>2. LocalInv'
  BY SMT DEF TypeOK, LocalInv, Values, Nodes, Null
<1>3. LockInv'
  BY DEF TypeOK, LockInv, HasSpareLock, HasUsedLock
<1>4. GrowInv'
  <2>1. MayGrow' = MayGrow
    BY DEF TypeOK, MayGrow
  <2>2. QED
    BY <2>1, GrowSame
<1>5. QED
  BY <1>1, <1>2, <1>3, <1>4

LEMMA GrowBase ==
  ASSUME BaseInv, NEW t \in Threads, Grow(t) PROVE BaseInv'
<1> USE BoundAssumption DEF Grow, Go, shared, locals, BaseInv
<1>0. allocated + 1 \in 2..(2 + count) /\ allocated + 1 \in Nodes
  BY RoomToGrow
<1>1. TypeOK'
  BY <1>0, SMT DEF TypeOK, LocalInv, Control, Values, NoValue, Null
<1>2. LocalInv'
  BY <1>0, SMT DEF TypeOK, LocalInv, Values, Nodes, Null
<1>3. LockInv'
  BY DEF TypeOK, LockInv, HasSpareLock, HasUsedLock
<1>4. GrowInv'
  <2>1. t \in MayGrow /\ MayGrow' = MayGrow \ {t}
    BY DEF TypeOK, MayGrow
  <2>2. QED
    BY <2>1, GrowLess
<1>5. QED
  BY <1>1, <1>2, <1>3, <1>4

LEMMA PopSpareBase ==
  ASSUME BaseInv, NEW t \in Threads, PopSpare(t) PROVE BaseInv'
<1> USE BoundAssumption DEF PopSpare, Go, shared, locals, BaseInv
<1>1. TypeOK'
  <2>1. {uHead', uTail', sHead', sTail'} \subseteq Nodes /\ {uLk', sLk'} \subseteq BOOLEAN
    BY DEF TypeOK, LocalInv
  <2>2. /\ next' \in [Nodes -> Nodes \cup {Null}] /\ data' \in [Nodes -> Values \cup {NoValue}]
        /\ pc' \in [Threads -> Control]
        /\ allocated' \in 2..(2 + count') /\ count' \in 0..MaxEnqueues
        /\ line' \in Seq(Values) /\ torn' \in BOOLEAN
    BY DEF TypeOK, Control
  <2>3. {pres', nexts', preu', nextu'} \subseteq [Threads -> Nodes \cup {Null}]
    BY DEF TypeOK
  <2>4. /\ input' \in [Threads -> Values \cup {NoValue}]
        /\ out' \in [Threads -> Values \cup {NoValue}]
    BY DEF TypeOK
  <2>5. QED
    BY <2>1, <2>2, <2>3, <2>4 DEF TypeOK
<1>2. LocalInv'
  BY SMT DEF TypeOK, LocalInv, Values, Nodes, Null
<1>3. LockInv'
  BY DEF TypeOK, LockInv, HasSpareLock, HasUsedLock
<1>4. GrowInv'
  <2>1. MayGrow' = MayGrow
    BY DEF TypeOK, MayGrow
  <2>2. QED
    BY <2>1, GrowSame
<1>5. QED
  BY <1>1, <1>2, <1>3, <1>4

LEMMA FillBase ==
  ASSUME BaseInv, NEW t \in Threads, Fill(t) PROVE BaseInv'
<1> USE BoundAssumption DEF Fill, Go, shared, locals, BaseInv
<1>1. TypeOK'
  BY SMT DEF TypeOK, LocalInv, Control, Values, NoValue, Null
<1>2. LocalInv'
  BY SMT DEF TypeOK, LocalInv, Values, Nodes, Null
<1>3. LockInv'
  BY DEF TypeOK, LockInv, HasSpareLock, HasUsedLock
<1>4. GrowInv'
  <2>1. MayGrow' = MayGrow
    BY DEF TypeOK, MayGrow
  <2>2. QED
    BY <2>1, GrowSame
<1>5. QED
  BY <1>1, <1>2, <1>3, <1>4

LEMMA SwingTailBase ==
  ASSUME BaseInv, NEW t \in Threads, SwingTail(t) PROVE BaseInv'
<1> USE BoundAssumption DEF SwingTail, Go, shared, locals, BaseInv
<1>1. TypeOK'
  BY SMT DEF TypeOK, LocalInv, Control, Values, NoValue, Null
<1>2. LocalInv'
  BY SMT DEF TypeOK, LocalInv, Values, Nodes, Null
<1>3. LockInv'
  BY DEF TypeOK, LockInv, HasSpareLock, HasUsedLock
<1>4. GrowInv'
  <2>1. MayGrow' = MayGrow
    BY DEF TypeOK, MayGrow
  <2>2. QED
    BY <2>1, GrowSame
<1>5. QED
  BY <1>1, <1>2, <1>3, <1>4

LEMMA LinkBase ==
  ASSUME BaseInv, NEW t \in Threads, Link(t) PROVE BaseInv'
<1> USE BoundAssumption DEF Link, Go, shared, locals, Return, BaseInv
<1>1. TypeOK'
  BY SMT DEF TypeOK, LocalInv, Control, Values, NoValue, Null
<1>2. LocalInv'
  BY SMT DEF TypeOK, LocalInv, Values, Nodes, Null
<1>3. LockInv'
  BY DEF TypeOK, LockInv, HasSpareLock, HasUsedLock
<1>4. GrowInv'
  <2>1. MayGrow' = MayGrow
    BY DEF TypeOK, MayGrow
  <2>2. QED
    BY <2>1, GrowSame
<1>5. QED
  BY <1>1, <1>2, <1>3, <1>4

LEMMA DequeueCallBase ==
  ASSUME BaseInv, NEW t \in Threads, DequeueCall(t) PROVE BaseInv'
<1> USE BoundAssumption DEF DequeueCall, Go, shared, locals, BaseInv
<1>1. TypeOK'
  BY SMT DEF TypeOK, LocalInv, Control, Values, NoValue, Null
<1>2. LocalInv'
  BY SMT DEF TypeOK, LocalInv, Values, Nodes, Null
<1>3. LockInv'
  BY DEF TypeOK, LockInv, HasSpareLock, HasUsedLock
<1>4. GrowInv'
  <2>1. MayGrow' = MayGrow
    BY DEF TypeOK, MayGrow
  <2>2. QED
    BY <2>1, GrowSame
<1>5. QED
  BY <1>1, <1>2, <1>3, <1>4

LEMMA TakeBase ==
  ASSUME BaseInv, NEW t \in Threads, Take(t) PROVE BaseInv'
<1> USE BoundAssumption DEF Take, Go, shared, locals, BaseInv
<1>1. TypeOK'
  BY SMT DEF TypeOK, LocalInv, Control, Values, NoValue, Null
<1>2. LocalInv'
  BY SMT DEF TypeOK, LocalInv, Values, Nodes, Null
<1>3. LockInv'
  BY DEF TypeOK, LockInv, HasSpareLock, HasUsedLock
<1>4. GrowInv'
  <2>1. MayGrow' = MayGrow
    BY DEF TypeOK, MayGrow
  <2>2. QED
    BY <2>1, GrowSame
<1>5. QED
  BY <1>1, <1>2, <1>3, <1>4

LEMMA ReadSuccBase ==
  ASSUME BaseInv, NEW t \in Threads, ReadSucc(t) PROVE BaseInv'
<1> USE BoundAssumption DEF ReadSucc, Go, shared, locals, BaseInv
<1>1. TypeOK'
  BY SMT DEF TypeOK, LocalInv, Control, Values, NoValue, Null
<1>2. LocalInv'
  BY SMT DEF TypeOK, LocalInv, Values, Nodes, Null
<1>3. LockInv'
  BY DEF TypeOK, LockInv, HasSpareLock, HasUsedLock
<1>4. GrowInv'
  <2>1. MayGrow' = MayGrow
    BY DEF TypeOK, MayGrow
  <2>2. QED
    BY <2>1, GrowSame
<1>5. QED
  BY <1>1, <1>2, <1>3, <1>4

LEMMA ReportEmptyBase ==
  ASSUME BaseInv, NEW t \in Threads, ReportEmpty(t) PROVE BaseInv'
<1> USE BoundAssumption DEF ReportEmpty, Go, shared, locals, Return, FailsWhenEmpty, BaseInv
<1>1. TypeOK'
  <2>1. {uHead', uTail', sHead', sTail'} \subseteq Nodes /\ {uLk', sLk'} \subseteq BOOLEAN
    BY DEF TypeOK, LocalInv
  <2>2. /\ next' \in [Nodes -> Nodes \cup {Null}] /\ data' \in [Nodes -> Values \cup {NoValue}]
        /\ pc' \in [Threads -> Control]
        /\ allocated' \in 2..(2 + count') /\ count' \in 0..MaxEnqueues
        /\ line' \in Seq(Values) /\ torn' \in BOOLEAN
    BY DEF TypeOK, Control
  <2>3. {pres', nexts', preu', nextu'} \subseteq [Threads -> Nodes \cup {Null}]
    BY DEF TypeOK
  <2>4. /\ input' \in [Threads -> Values \cup {NoValue}]
        /\ out' \in [Threads -> Values \cup {NoValue}]
    BY DEF TypeOK
  <2>5. QED
    BY <2>1, <2>2, <2>3, <2>4 DEF TypeOK
<1>2. LocalInv'
  BY SMT DEF TypeOK, LocalInv, Values, Nodes, Null
<1>3. LockInv'
  BY DEF TypeOK, LockInv, HasSpareLock, HasUsedLock
<1>4. GrowInv'
  <2>1. MayGrow' = MayGrow
    BY DEF TypeOK, MayGrow
  <2>2. QED
    BY <2>1, GrowSame
<1>5. QED
  BY <1>1, <1>2, <1>3, <1>4

LEMMA SpinForLinkBase ==
  ASSUME BaseInv, NEW t \in Threads, SpinForLink(t) PROVE BaseInv'
<1> USE BoundAssumption DEF SpinForLink, Go, shared, locals, FailsWhenEmpty, BaseInv
<1>1. TypeOK'
  BY SMT DEF TypeOK, LocalInv, Control, Values, NoValue, Null
<1>2. LocalInv'
  BY SMT DEF TypeOK, LocalInv, Values, Nodes, Null
<1>3. LockInv'
  BY DEF TypeOK, LockInv, HasSpareLock, HasUsedLock
<1>4. GrowInv'
  <2>1. MayGrow' = MayGrow
    BY DEF TypeOK, MayGrow
  <2>2. QED
    BY <2>1, GrowSame
<1>5. QED
  BY <1>1, <1>2, <1>3, <1>4

LEMMA MoveHeadBase ==
  ASSUME BaseInv, NEW t \in Threads, MoveHead(t) PROVE BaseInv'
<1> USE BoundAssumption DEF MoveHead, Go, shared, locals, BaseInv
<1>1. TypeOK'
  BY HeadTailProperties DEF TypeOK, LocalInv, Control, Values, Nodes, NoValue, Null
<1>2. LocalInv'
  BY SMT DEF TypeOK, LocalInv, Values, Nodes, Null
<1>3. LockInv'
  BY DEF TypeOK, LockInv, HasSpareLock, HasUsedLock
<1>4. GrowInv'
  <2>1. MayGrow' = MayGrow
    BY DEF TypeOK, MayGrow
  <2>2. QED
    BY <2>1, GrowSame
<1>5. QED
  BY <1>1, <1>2, <1>3, <1>4

LEMMA ClearNextBase ==
  ASSUME BaseInv, NEW t \in Threads, ClearNext(t) PROVE BaseInv'
<1> USE BoundAssumption DEF ClearNext, Go, shared, locals, BaseInv
<1>1. TypeOK'
  BY SMT DEF TypeOK, LocalInv, Control, Values, NoValue, Null
<1>2. LocalInv'
  BY SMT DEF TypeOK, LocalInv, Values, Nodes, Null
<1>3. LockInv'
  BY DEF TypeOK, LockInv, HasSpareLock, HasUsedLock
<1>4. GrowInv'
  <2>1. MayGrow' = MayGrow
    BY DEF TypeOK, MayGrow
  <2>2. QED
    BY <2>1, GrowSame
<1>5. QED
  BY <1>1, <1>2, <1>3, <1>4

LEMMA GiveBackBase ==
  ASSUME BaseInv, NEW t \in Threads, GiveBack(t) PROVE BaseInv'
<1> USE BoundAssumption DEF GiveBack, Go, shared, locals, BaseInv
<1>1. TypeOK'
  BY SMT DEF TypeOK, LocalInv, Control, Values, NoValue, Null
<1>2. LocalInv'
  BY SMT DEF TypeOK, LocalInv, Values, Nodes, Null
<1>3. LockInv'
  BY DEF TypeOK, LockInv, HasSpareLock, HasUsedLock
<1>4. GrowInv'
  <2>1. MayGrow' = MayGrow
    BY DEF TypeOK, MayGrow
  <2>2. QED
    BY <2>1, GrowSame
<1>5. QED
  BY <1>1, <1>2, <1>3, <1>4

LEMMA AppendSpareBase ==
  ASSUME BaseInv, NEW t \in Threads, AppendSpare(t) PROVE BaseInv'
<1> USE BoundAssumption DEF AppendSpare, Go, shared, locals, Return, BaseInv
<1>1. TypeOK'
  BY SMT DEF TypeOK, LocalInv, Control, Values, NoValue, Null
<1>2. LocalInv'
  BY SMT DEF TypeOK, LocalInv, Values, Nodes, Null
<1>3. LockInv'
  BY DEF TypeOK, LockInv, HasSpareLock, HasUsedLock
<1>4. GrowInv'
  <2>1. MayGrow' = MayGrow
    BY DEF TypeOK, MayGrow
  <2>2. QED
    BY <2>1, GrowSame
<1>5. QED
  BY <1>1, <1>2, <1>3, <1>4

-----------------------------------------------------------------------------
(* The two lists.                                                          *)

\* What of the invariant each part of a step needs.
LEMMA Typed ==
  ASSUME BaseInv
  PROVE  /\ {uHead, uTail, sHead, sTail} \subseteq Nodes
         /\ next \in [Nodes -> Nodes \cup {Null}] /\ data \in [Nodes -> Values \cup {NoValue}]
         /\ pc \in [Threads -> Control]
         /\ {pres, nexts, preu, nextu} \subseteq [Threads -> Nodes \cup {Null}]
         /\ input \in [Threads -> Values \cup {NoValue}]
         /\ line \in Seq(Values) /\ allocated \in Nat /\ Nodes \subseteq Nat
         /\ Null \notin Nodes /\ LocalInv /\ LockInv
BY BoundAssumption DEF BaseInv, TypeOK, Nodes, Null

\* A step that leaves the threads at the used list and what they read alone.
LEMMA UsedSame ==
  ASSUME NEW U, NEW uh \in Nat, NEW ut \in Nat, UsedInv(U, uh, ut),
         \A u \in Threads :
           /\ pc'[u] = "link" =>
                /\ pc[u] = "link" /\ preu'[u] = preu[u] /\ pres'[u] = pres[u]
                /\ next'[preu[u]] = next[preu[u]]
           /\ HasUsedLock(u)' => HasUsedLock(u) /\ preu'[u] = preu[u]
           /\ pc'[u] = "move" =>
                /\ pc[u] = "move" /\ nextu'[u] = nextu[u]
                /\ next'[preu[u]] = next[preu[u]]
  PROVE  UsedInv(U, uh, ut)'
<1>1. \A u \in Threads : pc'[u] = "move" => preu'[u] = preu[u]
  BY DEF HasUsedLock
<1>2. QED
  BY <1>1 DEF UsedInv

\* One that leaves the threads at the spare list and what they read alone.
LEMMA SpareSame ==
  ASSUME NEW S, NEW sh \in Nat, NEW st \in Nat, SpareInv(S, sh, st),
         \A u \in Threads :
           /\ pc'[u] = "append" =>
                /\ pc[u] = "append" /\ preu'[u] = preu[u] /\ pres'[u] = pres[u]
                /\ next'[pres[u]] = next[pres[u]]
           /\ HasSpareLock(u)' => HasSpareLock(u) /\ pres'[u] = pres[u]
           /\ pc'[u] = "pop" => pc[u] = "pop" /\ nexts'[u] = nexts[u]
  PROVE  SpareInv(S, sh, st)'
BY DEF SpareInv

\* One that leaves the values of the queue and the nodes on their way alone.
LEMMA ContentSame ==
  ASSUME NEW U, NEW uh \in Nat, NEW ut \in Nat, Content(U, uh, ut), line' = line,
         \A i \in 1..Len(line) : data'[U[uh + i]] = data[U[uh + i]],
         \A u \in Threads :
           /\ pc'[u] = "swing" =>
                /\ pc[u] = "swing" /\ pres'[u] = pres[u] /\ input'[u] = input[u]
                /\ data'[pres[u]] = data[pres[u]] /\ next'[pres[u]] = next[pres[u]]
           /\ pc'[u] = "give" =>
                /\ pc[u] = "give" /\ preu'[u] = preu[u] /\ next'[preu[u]] = next[preu[u]]
  PROVE  Content(U, uh, ut)'
BY DEF Content

\* Neither list has node x, and no thread but t has a use for it.
Unused(t, x, U, uh, ut, S, sh, st) ==
  /\ \A i \in uh..ut : U[i] # x
  /\ \A i \in sh..st : S[i] # x
  /\ \A i \in 1..Len(line) : U[uh + i] # x
  /\ \A u \in Threads :
       /\ pc[u] = "link" => preu[u] # x
       /\ pc[u] = "move" => preu[u] # x
       /\ pc[u] = "append" => pres[u] # x
       /\ pc[u] = "swing" /\ u # t => pres[u] # x
       /\ pc[u] = "give" /\ u # t => preu[u] # x

LEMMA HeldElsewhere ==
  ASSUME NEW U \in [Nat -> Nodes], NEW uh \in Nat, NEW ut \in Nat,
         NEW S \in [Nat -> Nodes], NEW sh \in Nat, NEW st \in Nat,
         Lists(U, uh, ut, S, sh, st), LocalInv,
         NEW t \in Threads, NEW x \in Nodes, Holds(t, x)
  PROVE  x <= allocated /\ Unused(t, x, U, uh, ut, S, sh, st)
<1>1. x <= allocated /\ (\A i \in uh..ut : U[i] # x) /\ \A i \in sh..st : S[i] # x
  BY DEF Lists, Apart
<1>2. uh <= ut /\ Len(line) = ut - uh
  BY DEF Lists, Ends, Content
<1>3. uh \in uh..ut /\ \A i \in 1..Len(line) : uh + i \in uh..ut
  BY <1>2
<1>4. \A u \in Threads : /\ pc[u] = "link" => preu[u] # x
                         /\ pc[u] = "move" => preu[u] # x
  BY <1>1, <1>3 DEF Lists, UsedInv, HasUsedLock
<1>5. \A u \in Threads : pc[u] = "append" => pres[u] # x
  BY <1>1 DEF Lists, SpareInv
<1>6. \A u \in Threads : u # t => /\ pc[u] = "swing" => pres[u] # x
                                  /\ pc[u] = "give" => preu[u] # x
  <2>1. \A u \in Threads : Holds(u, x) => u = t
    BY DEF Lists, Apart
  <2>2. QED
    BY <2>1 DEF Holds
<1>7. QED
  BY <1>1, <1>3, <1>4, <1>5, <1>6 DEF Unused

\* A step of t that writes to no node but x, which t holds.
WritesHeld(t, x) ==
  /\ Holds(t, x)
  /\ \A n \in Nodes : n # x => next'[n] = next[n] /\ data'[n] = data[n]
  /\ UNCHANGED <<allocated, locals, line>>
  /\ \A u \in Threads : u # t => pc'[u] = pc[u]
  /\ pc'[t] \in {"swing", "give"}
  /\ pc'[t] = "swing" => data'[pres[t]] = input[t] /\ next'[pres[t]] = Null
  /\ pc'[t] = "give" => next'[preu[t]] = Null

\* A write to a node that t holds disturbs neither list.
LEMMA HeldWrite ==
  ASSUME BaseInv, NEW U \in [Nat -> Nodes], NEW uh \in Nat, NEW ut \in Nat,
         NEW S \in [Nat -> Nodes], NEW sh \in Nat, NEW st \in Nat,
         Lists(U, uh, ut, S, sh, st),
         NEW t \in Threads, NEW x \in Nodes, WritesHeld(t, x)
  PROVE  /\ Links(U, uh, ut, S, sh, st)' /\ UsedInv(U, uh, ut)'
         /\ SpareInv(S, sh, st)' /\ Content(U, uh, ut)'
<1> USE DEF WritesHeld, locals
<1>0. LocalInv /\ allocated \in Nat /\ Nodes \subseteq Nat
  BY Typed
<1>1. x <= allocated /\ Unused(t, x, U, uh, ut, S, sh, st)
  BY <1>0, HeldElsewhere
<1>2. Links(U, uh, ut, S, sh, st)'
  <2>1. \A n \in Nodes : n > allocated => n # x
    BY <1>0, <1>1
  <2>2. Links(U, uh, ut, S, sh, st)
    BY DEF Lists
  <2>3. /\ \A i \in uh..ut : next'[U[i]] = next[U[i]]
        /\ \A i \in sh..st : next'[S[i]] = next[S[i]]
    <3>1. /\ \A i \in uh..ut : U[i] \in Nodes
          /\ \A i \in sh..st : S[i] \in Nodes
      OBVIOUS
    <3>2. QED
      BY <1>1, <3>1 DEF Unused
  <2>4. QED
    BY <2>1, <2>2, <2>3 DEF Links
<1>3. UsedInv(U, uh, ut)'
  <2>1. \A u \in Threads :
          /\ pc[u] = "link" => u # t /\ preu[u] \in Nodes /\ preu[u] # x
          /\ pc[u] = "move" => u # t /\ preu[u] \in Nodes /\ preu[u] # x
    BY <1>0, <1>1 DEF LocalInv, Unused, Holds
  <2>2. \A u \in Threads :
          /\ pc'[u] = "link" => /\ pc[u] = "link" /\ preu'[u] = preu[u] /\ pres'[u] = pres[u]
                                /\ next'[preu[u]] = next[preu[u]]
          /\ HasUsedLock(u)' => HasUsedLock(u) /\ preu'[u] = preu[u]
          /\ pc'[u] = "move" => /\ pc[u] = "move" /\ nextu'[u] = nextu[u]
                                /\ next'[preu[u]] = next[preu[u]]
    BY <2>1 DEF HasUsedLock
  <2>3. UsedInv(U, uh, ut)
    BY DEF Lists
  <2>4. QED
    BY <2>2, <2>3, UsedSame
<1>4. SpareInv(S, sh, st)'
  <2>1. \A u \in Threads : pc[u] = "append" => u # t /\ pres[u] \in Nodes /\ pres[u] # x
    BY <1>0, <1>1 DEF LocalInv, Unused, Holds
  <2>2. \A u \in Threads :
          /\ pc'[u] = "append" => /\ pc[u] = "append" /\ preu'[u] = preu[u]
                                  /\ pres'[u] = pres[u] /\ next'[pres[u]] = next[pres[u]]
          /\ HasSpareLock(u)' => HasSpareLock(u) /\ pres'[u] = pres[u]
          /\ pc'[u] = "pop" => pc[u] = "pop" /\ nexts'[u] = nexts[u]
    BY <2>1 DEF HasSpareLock
  <2>3. SpareInv(S, sh, st)
    BY DEF Lists
  <2>4. QED
    BY <2>2, <2>3, SpareSame
<1>5. Content(U, uh, ut)'
  <2>1. Content(U, uh, ut)
    BY DEF Lists
  <2>2. \A i \in 1..Len(line) : uh + i \in Nat /\ data'[U[uh + i]] = data[U[uh + i]]
    <3>1. line \in Seq(Values)
      BY Typed
    <3>2. \A i \in 1..Len(line) : uh + i \in Nat
      BY <3>1
    <3>3. QED
      BY <3>2, <1>1 DEF Unused
  <2>3. \A u \in Threads :
          /\ pc[u] = "swing" /\ u # t => pres[u] \in Nodes /\ pres[u] # x
          /\ pc[u] = "give" /\ u # t => preu[u] \in Nodes /\ preu[u] # x
    BY <1>0, <1>1 DEF LocalInv, Unused
  <2>4. ASSUME NEW u \in Threads
        PROVE  /\ pc'[u] = "swing" => data'[pres'[u]] = input'[u] /\ next'[pres'[u]] = Null
               /\ pc'[u] = "give" => next'[preu'[u]] = Null
    <3>1. CASE u = t
      BY <3>1
    <3>2. CASE u # t
      <4>1. /\ pc[u] = "swing" => data[pres[u]] = input[u] /\ next[pres[u]] = Null
            /\ pc[u] = "give" => next[preu[u]] = Null
        BY <2>1 DEF Content
      <4>2. QED
        BY <2>3, <3>2, <4>1
    <3>3. QED
      BY <3>1, <3>2
  <2>5. QED
    BY <2>1, <2>2, <2>4 DEF Content
<1>6. QED
  BY <1>2, <1>3, <1>4, <1>5

LEMMA EnqueueCallLists ==
  ASSUME BaseInv, NEW U \in [Nat -> Nodes], NEW uh \in Nat, NEW ut \in Nat,
         NEW S \in [Nat -> Nodes], NEW sh \in Nat, NEW st \in Nat,
         Lists(U, uh, ut, S, sh, st),
         NEW t \in Threads, EnqueueCall(t)
  PROVE  Lists(U, uh, ut, S, sh, st)'
<1> USE Typed DEF EnqueueCall, Go, shared, locals, Lists
<1>1. Ends(U, uh, ut, S, sh, st)'
  BY DEF Ends
<1>2. Apart(U, uh, ut, S, sh, st)'
  <2>1. \A u \in Threads, n \in Nodes : Holds(u, n)' => Holds(u, n)
    BY DEF Holds
  <2>2. QED
    BY <2>1 DEF Apart
<1>3. Links(U, uh, ut, S, sh, st)'
  BY DEF Links
<1>4. UsedInv(U, uh, ut)'
  <2>1. \A u \in Threads :
          /\ pc'[u] = "link" => /\ pc[u] = "link" /\ preu'[u] = preu[u] /\ pres'[u] = pres[u]
                                /\ next'[preu[u]] = next[preu[u]]
          /\ HasUsedLock(u)' => HasUsedLock(u) /\ preu'[u] = preu[u]
          /\ pc'[u] = "move" => /\ pc[u] = "move" /\ nextu'[u] = nextu[u]
                                /\ next'[preu[u]] = next[preu[u]]
    BY DEF HasUsedLock
  <2>2. QED
    BY <2>1, UsedSame
<1>5. SpareInv(S, sh, st)'
  <2>1. \A u \in Threads :
          /\ pc'[u] = "append" => /\ pc[u] = "append" /\ preu'[u] = preu[u]
                                  /\ pres'[u] = pres[u] /\ next'[pres[u]] = next[pres[u]]
          /\ HasSpareLock(u)' => HasSpareLock(u) /\ pres'[u] = pres[u]
          /\ pc'[u] = "pop" => pc[u] = "pop" /\ nexts'[u] = nexts[u]
    BY DEF HasSpareLock
  <2>2. QED
    BY <2>1, SpareSame
<1>6. Content(U, uh, ut)'
  <2>1. \A u \in Threads :
          /\ pc'[u] = "swing" =>
               /\ pc[u] = "swing" /\ pres'[u] = pres[u] /\ input'[u] = input[u]
               /\ data'[pres[u]] = data[pres[u]] /\ next'[pres[u]] = next[pres[u]]
          /\ pc'[u] = "give" =>
               /\ pc[u] = "give" /\ preu'[u] = preu[u] /\ next'[preu[u]] = next[preu[u]]
    OBVIOUS
  <2>2. QED
    BY <2>1, ContentSame
<1>7. QED
  BY <1>1, <1>2, <1>3, <1>4, <1>5, <1>6

LEMMA ReserveLists ==
  ASSUME BaseInv, NEW U \in [Nat -> Nodes], NEW uh \in Nat, NEW ut \in Nat,
         NEW S \in [Nat -> Nodes], NEW sh \in Nat, NEW st \in Nat,
         Lists(U, uh, ut, S, sh, st),
         NEW t \in Threads, Reserve(t)
  PROVE  Lists(U, uh, ut, S, sh, st)'
<1> USE Typed DEF Reserve, Go, shared, locals, Lists
<1>1. Ends(U, uh, ut, S, sh, st)'
  BY DEF Ends
<1>2. Apart(U, uh, ut, S, sh, st)'
  <2>1. \A u \in Threads, n \in Nodes : Holds(u, n)' => Holds(u, n)
    BY DEF Holds
  <2>2. QED
    BY <2>1 DEF Apart
<1>3. Links(U, uh, ut, S, sh, st)'
  BY DEF Links
<1>4. UsedInv(U, uh, ut)'
  <2>1. \A u \in Threads :
          /\ pc'[u] = "link" => /\ pc[u] = "link" /\ preu'[u] = preu[u] /\ pres'[u] = pres[u]
                                /\ next'[preu[u]] = next[preu[u]]
          /\ HasUsedLock(u)' => HasUsedLock(u) /\ preu'[u] = preu[u]
          /\ pc'[u] = "move" => /\ pc[u] = "move" /\ nextu'[u] = nextu[u]
                                /\ next'[preu[u]] = next[preu[u]]
    BY DEF HasUsedLock
  <2>2. QED
    BY <2>1, UsedSame
<1>5. SpareInv(S, sh, st)'
  <2>1. pc'[t] = "next" /\ pres'[t] = S[sh] /\ preu' = preu /\ next' = next
    BY DEF Ends
  <2>2. \A u \in Threads \ {t} : pc'[u] = pc[u] /\ pres'[u] = pres[u] /\ ~HasSpareLock(u)
    BY DEF LockInv
  <2>3. \A u \in Threads : HasSpareLock(u)' => u = t
    BY <2>2 DEF HasSpareLock
  <2>4. \A u \in Threads : pc'[u] # "pop"
    BY <2>1, <2>3 DEF HasSpareLock
  <2>5. \A u \in Threads : pc'[u] = "append" => pc[u] = "append" /\ pres'[u] = pres[u]
    BY <2>1, <2>2
  <2> HIDE Typed DEF Reserve, Go, shared, locals
  <2>6. ASSUME NEW u \in Threads, pc'[u] = "append"
        PROVE  /\ \E i \in sh..st : i < st /\ pres'[u] = S[i] /\ preu'[u] = S[i + 1]
               /\ next'[pres'[u]] = Null
               /\ \A v \in Threads : pc'[v] = "append" /\ pres'[v] = pres'[u] => v = u
    BY <2>1, <2>5, <2>6 DEF SpareInv
  <2>7. QED
    BY <2>1, <2>3, <2>4, <2>6 DEF SpareInv
<1>6. Content(U, uh, ut)'
  <2>1. \A u \in Threads :
          /\ pc'[u] = "swing" =>
               /\ pc[u] = "swing" /\ pres'[u] = pres[u] /\ input'[u] = input[u]
               /\ data'[pres[u]] = data[pres[u]] /\ next'[pres[u]] = next[pres[u]]
          /\ pc'[u] = "give" =>
               /\ pc[u] = "give" /\ preu'[u] = preu[u] /\ next'[preu[u]] = next[preu[u]]
    OBVIOUS
  <2>2. QED
    BY <2>1, ContentSame
<1>7. QED
  BY <1>1, <1>2, <1>3, <1>4, <1>5, <1>6

LEMMA ReadNextLists ==
  ASSUME BaseInv, NEW U \in [Nat -> Nodes], NEW uh \in Nat, NEW ut \in Nat,
         NEW S \in [Nat -> Nodes], NEW sh \in Nat, NEW st \in Nat,
         Lists(U, uh, ut, S, sh, st),
         NEW t \in Threads, ReadNext(t)
  PROVE  Lists(U, uh, ut, S, sh, st)'
<1> USE Typed DEF ReadNext, Go, shared, locals, Lists
<1>1. Ends(U, uh, ut, S, sh, st)'
  BY DEF Ends
<1>2. Apart(U, uh, ut, S, sh, st)'
  <2>1. \A u \in Threads, n \in Nodes : Holds(u, n)' => Holds(u, n)
    BY DEF Holds
  <2>2. QED
    BY <2>1 DEF Apart
<1>3. Links(U, uh, ut, S, sh, st)'
  BY DEF Links
<1>4. UsedInv(U, uh, ut)'
  <2>1. \A u \in Threads :
          /\ pc'[u] = "link" => /\ pc[u] = "link" /\ preu'[u] = preu[u] /\ pres'[u] = pres[u]
                                /\ next'[preu[u]] = next[preu[u]]
          /\ HasUsedLock(u)' => HasUsedLock(u) /\ preu'[u] = preu[u]
          /\ pc'[u] = "move" => /\ pc[u] = "move" /\ nextu'[u] = nextu[u]
                                /\ next'[preu[u]] = next[preu[u]]
    BY DEF HasUsedLock
  <2>2. QED
    BY <2>1, UsedSame
<1>5. SpareInv(S, sh, st)'
  <2>1. /\ pres[t] = S[sh] /\ sh \in sh..st
        /\ pres' = pres /\ preu' = preu /\ next' = next
    BY DEF SpareInv, HasSpareLock, Ends
  <2>2. \A u \in Threads \ {t} : pc'[u] = pc[u] /\ ~HasSpareLock(u)
    BY DEF LockInv, HasSpareLock
  <2>3. \A u \in Threads : HasSpareLock(u)' => u = t
    BY <2>2 DEF HasSpareLock
  <2>4. \A u \in Threads : pc'[u] = "append" <=> pc[u] = "append"
    OBVIOUS
  <2>5. \A u \in Threads : pc'[u] = "pop" =>
          u = t /\ nexts'[u] = next[pres[t]] /\ next[pres[t]] # Null
    BY <2>2 DEF HasSpareLock
  <2> HIDE Typed DEF ReadNext, Go, shared, locals
  <2>6. ASSUME NEW u \in Threads, pc'[u] = "append"
        PROVE  /\ \E i \in sh..st : i < st /\ pres'[u] = S[i] /\ preu'[u] = S[i + 1]
               /\ next'[pres'[u]] = Null
               /\ \A v \in Threads : pc'[v] = "append" /\ pres'[v] = pres'[u] => v = u
    BY <2>1, <2>4, <2>6 DEF SpareInv
  <2>7. next[S[sh]] # Null => sh < st /\ next[S[sh]] = S[sh + 1]
    BY <2>1 DEF Links
  <2>8. \A v \in Threads : pc[v] = "append" => next[pres[v]] = Null
    BY DEF SpareInv
  <2>9. QED
    BY <2>1, <2>3, <2>4, <2>5, <2>6, <2>7, <2>8 DEF SpareInv
<1>6. Content(U, uh, ut)'
  <2>1. \A u \in Threads :
          /\ pc'[u] = "swing" =>
               /\ pc[u] = "swing" /\ pres'[u] = pres[u] /\ input'[u] = input[u]
               /\ data'[pres[u]] = data[pres[u]] /\ next'[pres[u]] = next[pres[u]]
          /\ pc'[u] = "give" =>
               /\ pc[u] = "give" /\ preu'[u] = preu[u] /\ next'[preu[u]] = next[preu[u]]
    OBVIOUS
  <2>2. QED
    BY <2>1, ContentSame
<1>7. QED
  BY <1>1, <1>2, <1>3, <1>4, <1>5, <1>6

LEMMA CompareTailLists ==
  ASSUME BaseInv, NEW U \in [Nat -> Nodes], NEW uh \in Nat, NEW ut \in Nat,
         NEW S \in [Nat -> Nodes], NEW sh \in Nat, NEW st \in Nat,
         Lists(U, uh, ut, S, sh, st),
         NEW t \in Threads, CompareTail(t)
  PROVE  Lists(U, uh, ut, S, sh, st)'
<1> USE Typed DEF CompareTail, Go, shared, locals, Lists
<1>1. Ends(U, uh, ut, S, sh, st)'
  BY DEF Ends
<1>2. Apart(U, uh, ut, S, sh, st)'
  <2>1. \A u \in Threads, n \in Nodes : Holds(u, n)' => Holds(u, n)
    BY DEF Holds
  <2>2. QED
    BY <2>1 DEF Apart
<1>3. Links(U, uh, ut, S, sh, st)'
  BY DEF Links
<1>4. UsedInv(U, uh, ut)'
  <2>1. \A u \in Threads :
          /\ pc'[u] = "link" => /\ pc[u] = "link" /\ preu'[u] = preu[u] /\ pres'[u] = pres[u]
                                /\ next'[preu[u]] = next[preu[u]]
          /\ HasUsedLock(u)' => HasUsedLock(u) /\ preu'[u] = preu[u]
          /\ pc'[u] = "move" => /\ pc[u] = "move" /\ nextu'[u] = nextu[u]
                                /\ next'[preu[u]] = next[preu[u]]
    BY DEF HasUsedLock
  <2>2. QED
    BY <2>1, UsedSame
<1>5. SpareInv(S, sh, st)'
  <2>1. \A u \in Threads :
          /\ pc'[u] = "append" => /\ pc[u] = "append" /\ preu'[u] = preu[u]
                                  /\ pres'[u] = pres[u] /\ next'[pres[u]] = next[pres[u]]
          /\ HasSpareLock(u)' => HasSpareLock(u) /\ pres'[u] = pres[u]
          /\ pc'[u] = "pop" => pc[u] = "pop" /\ nexts'[u] = nexts[u]
    BY DEF HasSpareLock
  <2>2. QED
    BY <2>1, SpareSame
<1>6. Content(U, uh, ut)'
  <2>1. \A u \in Threads :
          /\ pc'[u] = "swing" =>
               /\ pc[u] = "swing" /\ pres'[u] = pres[u] /\ input'[u] = input[u]
               /\ data'[pres[u]] = data[pres[u]] /\ next'[pres[u]] = next[pres[u]]
          /\ pc'[u] = "give" =>
               /\ pc[u] = "give" /\ preu'[u] = preu[u] /\ next'[preu[u]] = next[preu[u]]
    OBVIOUS
  <2>2. QED
    BY <2>1, ContentSame
<1>7. QED
  BY <1>1, <1>2, <1>3, <1>4, <1>5, <1>6

LEMMA GrowLists ==
  ASSUME BaseInv, NEW U \in [Nat -> Nodes], NEW uh \in Nat, NEW ut \in Nat,
         NEW S \in [Nat -> Nodes], NEW sh \in Nat, NEW st \in Nat,
         Lists(U, uh, ut, S, sh, st),
         NEW t \in Threads, Grow(t), ~torn',
         NEW V \in [Nat -> Nodes], NEW n0 \in Nodes, n0 = allocated + 1,
         V[st + 1] = n0, \A i \in 0..st : V[i] = S[i]
  PROVE  Lists(U, uh, ut, V, sh, st + 1)'
<1>0. /\ sh <= st /\ sh <= st + 1 /\ st + 1 \in Nat /\ st + 1 \in sh..st + 1
      /\ \A i \in sh..st + 1 : i = st + 1 \/ i \in sh..st
      /\ \A i \in sh..st : i \in sh..st + 1 /\ i # st + 1 /\ V[i] = S[i]
      /\ sh \in sh..st /\ V[sh] = S[sh] /\ st \in sh..st /\ V[st] = S[st]
      /\ \A i \in sh..st : i < st => i + 1 \in sh..st /\ V[i + 1] = S[i + 1]
  <2>1. sh <= st
    BY DEF Lists, Ends
  <2>2. QED
    BY <2>1
<1> USE <1>0
<1> USE Typed DEF Grow, Go, shared, locals, Lists
<1>1. Ends(U, uh, ut, V, sh, st + 1)'
  <2>1. /\ uh <= ut /\ sh <= st /\ U[uh] = uHead /\ U[ut] = uTail
        /\ S[sh] = sHead /\ S[st] = sTail
    BY DEF Ends
  <2>2. sTail' = n0 /\ uHead' = uHead /\ uTail' = uTail /\ sHead' = sHead
    OBVIOUS
  <2> HIDE Typed DEF Grow, Go, shared, locals
  <2>3. QED
    BY <1>0, <2>1, <2>2 DEF Ends
<1>2. Apart(U, uh, ut, V, sh, st + 1)'
  <2>1. allocated \in Nat /\ n0 = allocated + 1 /\ allocated' = allocated + 1
    OBVIOUS
  <2>2. \A u \in Threads, n \in Nodes : Holds(u, n)' => Holds(u, n)
    BY DEF Holds
  <2> HIDE Typed DEF Grow, Go, shared, locals
  <2>3. \A u \in Threads, n \in Nodes : Holds(u, n)' => Holds(u, n) /\ n # n0
    <3>1. \A u \in Threads, n \in Nodes : Holds(u, n) => n \in Nat /\ n <= allocated
      BY DEF Apart, Nodes
    <3>2. QED
      BY <3>1, <2>1, <2>2
  <2>4. (\A i \in sh..st : S[i] # n0) /\ \A j \in uh..ut : U[j] # n0
    <3>1. \A i \in sh..st : S[i] <= allocated /\ S[i] \in Nat
      BY DEF Apart, Nodes
    <3>2. \A j \in uh..ut : U[j] <= allocated /\ U[j] \in Nat
      BY DEF Apart, Nodes
    <3>3. QED
      BY <3>1, <3>2, <2>1
  <2>5. n0 <= allocated' /\ \A n \in Nodes : n <= allocated => n <= allocated'
    BY <2>1 DEF Nodes
  <2>6. \A i \in sh..st + 1 : V[i] <= allocated' /\ \A j \in sh..st + 1 : V[i] = V[j] => i = j
    <3>1. \A i \in sh..st : S[i] <= allocated /\ \A j \in sh..st : S[i] = S[j] => i = j
      BY DEF Apart
    <3>2. \A i \in sh..st : S[i] \in Nodes
      OBVIOUS
    <3>3. QED
      BY <1>0, <2>4, <2>5, <3>1, <3>2
  <2>7. \A j \in uh..ut : U[j] <= allocated' /\ \A i \in uh..ut : U[j] = U[i] => j = i
    <3>1. \A j \in uh..ut : U[j] \in Nodes
      OBVIOUS
    <3>2. QED
      BY <2>5, <3>1 DEF Apart
  <2>8. \A i \in uh..ut, j \in sh..st + 1 : U[i] # V[j]
    <3>1. \A i \in uh..ut, j \in sh..st : U[i] # S[j]
      BY DEF Apart
    <3>2. QED
      BY <1>0, <2>4, <3>1
  <2>9. ASSUME NEW u \in Threads, NEW n \in Nodes, Holds(u, n)'
        PROVE  /\ n <= allocated'
               /\ \A i \in sh..st + 1 : n # V[i]
               /\ \A j \in uh..ut : n # U[j]
               /\ \A v \in Threads : Holds(v, n)' => v = u
    <3>1. Holds(u, n) /\ n # n0 /\ \A v \in Threads : Holds(v, n)' => Holds(v, n)
      BY <2>3, <2>9
    <3>2. /\ n <= allocated
          /\ \A i \in sh..st : n # S[i]
          /\ \A j \in uh..ut : n # U[j]
          /\ \A v \in Threads : Holds(v, n) => v = u
      BY <3>1 DEF Apart
    <3>3. QED
      BY <1>0, <2>5, <3>1, <3>2
  <2>10. QED
    BY <2>6, <2>7, <2>8, <2>9 DEF Apart
<1>3. Links(U, uh, ut, V, sh, st + 1)'
  <2>1. next' = next /\ allocated' = allocated + 1 /\ n0 > allocated
    OBVIOUS
  <2> HIDE Typed DEF Grow, Go, shared, locals
  <2>2. Links(U, uh, ut, S, sh, st) /\ allocated \in Nat /\ Nodes \subseteq Nat
    BY Typed
  <2>3. \A i \in sh..st : next[V[i]] \in {Null, V[i + 1]}
    BY <2>2 DEF Links
  <2>4. next[n0] = Null /\ \A n \in Nodes : n > allocated' => next[n] = Null
    BY <2>1, <2>2 DEF Links
  <2>5. QED
    BY <2>1, <2>2, <2>3, <2>4 DEF Links
<1>4. UsedInv(U, uh, ut)'
  <2>1. \A u \in Threads :
          /\ pc'[u] = "link" => /\ pc[u] = "link" /\ preu'[u] = preu[u] /\ pres'[u] = pres[u]
                                /\ next'[preu[u]] = next[preu[u]]
          /\ HasUsedLock(u)' => HasUsedLock(u) /\ preu'[u] = preu[u]
          /\ pc'[u] = "move" => /\ pc[u] = "move" /\ nextu'[u] = nextu[u]
                                /\ next'[preu[u]] = next[preu[u]]
    BY DEF HasUsedLock
  <2>2. QED
    BY <2>1, UsedSame
<1>5. SpareInv(V, sh, st + 1)'
  <2>1. sh = st
    <3>1. sHead = sTail
      OBVIOUS
    <3>2. QED
      BY <3>1 DEF Ends, Apart
  <2>2. /\ pc'[t] = "pop" /\ nexts'[t] = n0 /\ pc[t] = "grow"
        /\ pres' = pres /\ \A u \in Threads \ {t} : pc'[u] = pc[u] /\ ~HasSpareLock(u)
    BY DEF LockInv, HasSpareLock
  <2>3. \A u \in Threads : HasSpareLock(u)' => u = t
    BY <2>2 DEF HasSpareLock
  <2> HIDE Typed DEF Grow, Go, shared, locals
  <2>4. \A u \in Threads : pc[u] # "append"
    BY <2>1 DEF SpareInv
  <2>5. pres[t] = V[sh]
    BY <2>2 DEF SpareInv, HasSpareLock
  <2>6. \A u \in Threads : pc'[u] # "append" /\ (pc'[u] = "pop" => u = t)
    BY <2>2, <2>3, <2>4 DEF HasSpareLock
  <2>7. sh < st + 1 /\ V[sh + 1] = n0
    BY <2>1
  <2>8. QED
    BY <2>2, <2>3, <2>5, <2>6, <2>7 DEF SpareInv
<1>6. Content(U, uh, ut)'
  <2>1. \A u \in Threads :
          /\ pc'[u] = "swing" =>
               /\ pc[u] = "swing" /\ pres'[u] = pres[u] /\ input'[u] = input[u]
               /\ data'[pres[u]] = data[pres[u]] /\ next'[pres[u]] = next[pres[u]]
          /\ pc'[u] = "give" =>
               /\ pc[u] = "give" /\ preu'[u] = preu[u] /\ next'[preu[u]] = next[preu[u]]
    OBVIOUS
  <2>2. QED
    BY <2>1, ContentSame
<1>7. QED
  BY <1>1, <1>2, <1>3, <1>4, <1>5, <1>6

LEMMA PopSpareLists ==
  ASSUME BaseInv, NEW U \in [Nat -> Nodes], NEW uh \in Nat, NEW ut \in Nat,
         NEW S \in [Nat -> Nodes], NEW sh \in Nat, NEW st \in Nat,
         Lists(U, uh, ut, S, sh, st),
         NEW t \in Threads, PopSpare(t)
  PROVE  Lists(U, uh, ut, S, sh + 1, st)'
<1> USE Typed DEF PopSpare, Go, shared, locals, Lists
<1>1. Ends(U, uh, ut, S, sh + 1, st)'
  <2>1. /\ uh <= ut /\ sh <= st /\ U[uh] = uHead /\ U[ut] = uTail
        /\ S[sh] = sHead /\ S[st] = sTail
    BY DEF Ends
  <2>2. sh < st /\ sHead' = S[sh + 1] /\ uHead' = uHead /\ uTail' = uTail /\ sTail' = sTail
    BY DEF SpareInv
  <2>3. sh + 1 \in Nat /\ sh + 1 <= st
    <3>1. sh < st
      BY <2>2
    <3> HIDE Typed DEF PopSpare, Go, shared, locals
    <3>2. QED
      BY <3>1
  <2>4. QED
    BY <2>1, <2>2, <2>3 DEF Ends
<1>2. Apart(U, uh, ut, S, sh + 1, st)'
  <2>1. pres[t] = S[sh]
    BY DEF SpareInv, HasSpareLock
  <2>2. \A u \in Threads, n \in Nodes : Holds(u, n)' => Holds(u, n) \/ (u = t /\ n = S[sh])
    <3>1. /\ \A u \in Threads \ {t} : pc'[u] = pc[u]
          /\ pres' = pres /\ preu' = preu /\ pc'[t] = "fill"
      OBVIOUS
    <3> HIDE Typed DEF PopSpare, Go, shared, locals
    <3>2. QED
      BY <2>1, <3>1 DEF Holds
  <2>3. \A n \in Nodes : ~Holds(t, n)
    BY DEF Holds
  <2>4. sh <= st
    BY DEF Ends
  <2>5. sh \in sh..st /\ \A i \in sh + 1..st : i \in sh..st /\ i # sh
    BY <2>4
  <2>6. /\ S[sh] <= allocated
        /\ \A i \in sh + 1..st : S[sh] # S[i]
        /\ \A j \in uh..ut : S[sh] # U[j]
        /\ \A u \in Threads : ~Holds(u, S[sh])
    BY <2>5 DEF Apart
  <2>7. \A i \in sh + 1..st : S[i] <= allocated /\ \A j \in sh + 1..st : S[i] = S[j] => i = j
    BY <2>5 DEF Apart
  <2>8. \A i \in uh..ut, j \in sh + 1..st : U[i] # S[j]
    BY <2>5 DEF Apart
  <2>9. ASSUME NEW u \in Threads, NEW n \in Nodes, Holds(u, n)'
        PROVE  /\ n <= allocated
               /\ \A i \in sh + 1..st : n # S[i]
               /\ \A j \in uh..ut : n # U[j]
               /\ \A v \in Threads : Holds(v, n)' => v = u
    <3>1. CASE u = t /\ n = S[sh]
      BY <2>2, <2>6, <3>1
    <3>2. CASE Holds(u, n)
      <4>1. /\ n <= allocated
            /\ \A i \in sh..st : n # S[i]
            /\ \A j \in uh..ut : n # U[j]
            /\ \A v \in Threads : Holds(v, n) => v = u
        BY <3>2 DEF Apart
      <4>2. QED
        BY <2>2, <2>5, <4>1
    <3>3. QED
      BY <2>2, <2>9, <3>1, <3>2
  <2>10. \A j \in uh..ut : U[j] <= allocated /\ \A i \in uh..ut : U[j] = U[i] => j = i
    BY DEF Apart
  <2>11. allocated' = allocated
    OBVIOUS
  <2> HIDE Typed DEF PopSpare, Go, shared, locals
  <2>12. QED
    BY <2>7, <2>8, <2>9, <2>10, <2>11 DEF Apart
<1>3. Links(U, uh, ut, S, sh + 1, st)'
  <2>1. next' = next /\ allocated' = allocated
    OBVIOUS
  <2>2. \A i \in sh + 1..st : i \in sh..st
    BY DEF Ends
  <2> HIDE Typed DEF PopSpare, Go, shared, locals
  <2>3. QED
    BY <2>1, <2>2 DEF Links
<1>4. UsedInv(U, uh, ut)'
  <2>1. \A u \in Threads :
          /\ pc'[u] = "link" => /\ pc[u] = "link" /\ preu'[u] = preu[u] /\ pres'[u] = pres[u]
                                /\ next'[preu[u]] = next[preu[u]]
          /\ HasUsedLock(u)' => HasUsedLock(u) /\ preu'[u] = preu[u]
          /\ pc'[u] = "move" => /\ pc[u] = "move" /\ nextu'[u] = nextu[u]
                                /\ next'[preu[u]] = next[preu[u]]
    BY DEF HasUsedLock
  <2>2. QED
    BY <2>1, UsedSame
<1>5. SpareInv(S, sh + 1, st)'
  <2>1. /\ pc'[t] = "fill" /\ pres' = pres /\ preu' = preu /\ next' = next
        /\ \A u \in Threads \ {t} : pc'[u] = pc[u] /\ ~HasSpareLock(u)
    BY DEF LockInv, HasSpareLock
  <2>2. \A u \in Threads : ~HasSpareLock(u)' /\ pc'[u] # "pop"
    BY <2>1 DEF HasSpareLock
  <2>3. \A u \in Threads : pc'[u] = "append" => pc[u] = "append" /\ pres[u] # S[sh]
    BY <2>1 DEF SpareInv
  <2> HIDE Typed DEF PopSpare, Go, shared, locals
  <2>4. ASSUME NEW u \in Threads, pc'[u] = "append"
        PROVE  \E i \in sh + 1..st : i < st /\ pres'[u] = S[i] /\ preu'[u] = S[i + 1]
    <3>1. PICK i \in sh..st : i < st /\ pres[u] = S[i] /\ preu[u] = S[i + 1]
      BY <2>3, <2>4 DEF SpareInv
    <3>2. i \in sh + 1..st
      BY <2>3, <2>4, <3>1
    <3>3. QED
      BY <2>1, <3>1, <3>2
  <2>5. ASSUME NEW u \in Threads, pc'[u] = "append"
        PROVE  /\ next'[pres'[u]] = Null
               /\ \A v \in Threads : pc'[v] = "append" /\ pres'[v] = pres'[u] => v = u
    BY <2>1, <2>3, <2>5 DEF SpareInv
  <2>6. QED
    BY <2>2, <2>4, <2>5 DEF SpareInv
<1>6. Content(U, uh, ut)'
  <2>1. \A u \in Threads :
          /\ pc'[u] = "swing" =>
               /\ pc[u] = "swing" /\ pres'[u] = pres[u] /\ input'[u] = input[u]
               /\ data'[pres[u]] = data[pres[u]] /\ next'[pres[u]] = next[pres[u]]
          /\ pc'[u] = "give" =>
               /\ pc[u] = "give" /\ preu'[u] = preu[u] /\ next'[preu[u]] = next[preu[u]]
    OBVIOUS
  <2>2. QED
    BY <2>1, ContentSame
<1>7. QED
  BY <1>1, <1>2, <1>3, <1>4, <1>5, <1>6

LEMMA FillLists ==
  ASSUME BaseInv, NEW U \in [Nat -> Nodes], NEW uh \in Nat, NEW ut \in Nat,
         NEW S \in [Nat -> Nodes], NEW sh \in Nat, NEW st \in Nat,
         Lists(U, uh, ut, S, sh, st),
         NEW t \in Threads, Fill(t)
  PROVE  Lists(U, uh, ut, S, sh, st)'
<1> USE Typed DEF Fill, Go, shared, locals, Lists
<1>1. Ends(U, uh, ut, S, sh, st)'
  BY DEF Ends
<1>2. Apart(U, uh, ut, S, sh, st)'
  <2>1. \A u \in Threads, n \in Nodes : Holds(u, n)' => Holds(u, n)
    BY DEF Holds
  <2>2. QED
    BY <2>1 DEF Apart
<1>3. /\ Links(U, uh, ut, S, sh, st)' /\ UsedInv(U, uh, ut)'
      /\ SpareInv(S, sh, st)' /\ Content(U, uh, ut)'
  <2>1. pres[t] \in Nodes /\ Holds(t, pres[t])
    BY DEF LocalInv, Holds
  <2>2. \A n \in Nodes : n # pres[t] => next'[n] = next[n] /\ data'[n] = data[n]
    BY <2>1
  <2>3. /\ UNCHANGED <<allocated, locals, line>>
        /\ \A u \in Threads : u # t => pc'[u] = pc[u]
        /\ pc'[t] = "swing" /\ next'[pres[t]] = Null /\ data'[pres[t]] = input[t]
    BY <2>1
  <2> HIDE Typed DEF Fill, Go, shared, locals
  <2>4. WritesHeld(t, pres[t])
    BY <2>1, <2>2, <2>3 DEF WritesHeld
  <2>5. QED
    BY <2>1, <2>4, HeldWrite
<1>4. QED
  BY <1>1, <1>2, <1>3

LEMMA SwingTailLists ==
  ASSUME BaseInv, NEW U \in [Nat -> Nodes], NEW uh \in Nat, NEW ut \in Nat,
         NEW S \in [Nat -> Nodes], NEW sh \in Nat, NEW st \in Nat,
         Lists(U, uh, ut, S, sh, st),
         NEW t \in Threads, SwingTail(t),
         NEW V \in [Nat -> Nodes], NEW n0 \in Nodes, n0 = pres[t],
         V[ut + 1] = n0, \A i \in 0..ut : V[i] = U[i]
  PROVE  Lists(V, uh, ut + 1, S, sh, st)'
<1>0. /\ uh <= ut /\ uh <= ut + 1 /\ ut + 1 \in Nat /\ ut + 1 \in uh..ut + 1
      /\ \A i \in uh..ut + 1 : i = ut + 1 \/ i \in uh..ut
      /\ \A i \in uh..ut : i \in uh..ut + 1 /\ i # ut + 1 /\ V[i] = U[i]
      /\ uh \in uh..ut /\ V[uh] = U[uh] /\ ut \in uh..ut /\ V[ut] = U[ut]
      /\ \A i \in uh..ut : i < ut => i + 1 \in uh..ut /\ V[i + 1] = U[i + 1]
  <2>1. uh <= ut
    BY DEF Lists, Ends
  <2>2. QED
    BY <2>1
<1> USE <1>0
<1> USE Typed DEF SwingTail, Go, shared, locals, Lists
<1>1. Ends(V, uh, ut + 1, S, sh, st)'
  <2>1. /\ uh <= ut /\ sh <= st /\ U[uh] = uHead /\ U[ut] = uTail
        /\ S[sh] = sHead /\ S[st] = sTail
    BY DEF Ends
  <2>2. uTail' = n0 /\ uHead' = uHead /\ sHead' = sHead /\ sTail' = sTail
    OBVIOUS
  <2> HIDE Typed DEF SwingTail, Go, shared, locals
  <2>3. QED
    BY <1>0, <2>1, <2>2 DEF Ends
<1>2. Apart(V, uh, ut + 1, S, sh, st)'
  <2>1. Holds(t, n0) /\ allocated' = allocated
    BY DEF Holds
  <2>2. \A u \in Threads, n \in Nodes : Holds(u, n)' => Holds(u, n) /\ u # t
    BY DEF Holds
  <2> HIDE Typed DEF SwingTail, Go, shared, locals
  <2>3. \A u \in Threads, n \in Nodes : Holds(u, n)' => Holds(u, n) /\ n # n0
    BY <2>1, <2>2 DEF Apart
  <2>4. (\A i \in uh..ut : U[i] # n0) /\ \A j \in sh..st : S[j] # n0
    BY <2>1 DEF Apart
  <2>5. n0 <= allocated' /\ \A n \in Nodes : n <= allocated => n <= allocated'
    BY <2>1 DEF Apart
  <2>6. \A i \in uh..ut + 1 : V[i] <= allocated' /\ \A j \in uh..ut + 1 : V[i] = V[j] => i = j
    <3>1. \A i \in uh..ut : U[i] <= allocated /\ \A j \in uh..ut : U[i] = U[j] => i = j
      BY DEF Apart
    <3>2. \A i \in uh..ut : U[i] \in Nodes
      OBVIOUS
    <3>3. QED
      BY <1>0, <2>4, <2>5, <3>1, <3>2
  <2>7. \A j \in sh..st : S[j] <= allocated' /\ \A i \in sh..st : S[j] = S[i] => j = i
    <3>1. \A j \in sh..st : S[j] \in Nodes
      OBVIOUS
    <3>2. QED
      BY <2>5, <3>1 DEF Apart
  <2>8. \A i \in uh..ut + 1, j \in sh..st : V[i] # S[j]
    <3>1. \A i \in uh..ut, j \in sh..st : U[i] # S[j]
      BY DEF Apart
    <3>2. QED
      BY <1>0, <2>4, <3>1
  <2>9. ASSUME NEW u \in Threads, NEW n \in Nodes, Holds(u, n)'
        PROVE  /\ n <= allocated'
               /\ \A i \in uh..ut + 1 : n # V[i]
               /\ \A j \in sh..st : n # S[j]
               /\ \A v \in Threads : Holds(v, n)' => v = u
    <3>1. Holds(u, n) /\ n # n0 /\ \A v \in Threads : Holds(v, n)' => Holds(v, n)
      BY <2>3, <2>9
    <3>2. /\ n <= allocated
          /\ \A i \in uh..ut : n # U[i]
          /\ \A j \in sh..st : n # S[j]
          /\ \A v \in Threads : Holds(v, n) => v = u
      BY <3>1 DEF Apart
    <3>3. QED
      BY <1>0, <2>5, <3>1, <3>2
  <2>10. QED
    BY <2>6, <2>7, <2>8, <2>9 DEF Apart
<1>3. Links(V, uh, ut + 1, S, sh, st)'
  <2>1. next' = next /\ allocated' = allocated /\ next[n0] = Null
    BY DEF Content
  <2> HIDE Typed DEF SwingTail, Go, shared, locals
  <2>2. \A i \in uh..ut : next[V[i]] \in {Null, V[i + 1]}
    BY DEF Links
  <2>3. QED
    BY <2>1, <2>2 DEF Links
<1>4. UsedInv(V, uh, ut + 1)'
  <2>1. /\ pc'[t] = "link" /\ preu'[t] = U[ut] /\ pres' = pres /\ pres[t] = n0
        /\ next' = next /\ nextu' = nextu
        /\ \A u \in Threads \ {t} : pc'[u] = pc[u] /\ preu'[u] = preu[u]
    BY DEF Ends
  <2>2. \A u \in Threads : pc'[u] = "link" /\ u # t => pc[u] = "link" /\ preu'[u] = preu[u]
    BY <2>1
  <2>3. \A u \in Threads : HasUsedLock(u)' => u # t /\ HasUsedLock(u)
    BY <2>1 DEF HasUsedLock
  <2> HIDE Typed DEF SwingTail, Go, shared, locals
  <2>4. next[U[ut]] = Null
    BY DEF Links
  <2>5. \A u \in Threads : pc[u] = "link" => preu[u] # U[ut]
    BY DEF UsedInv, Apart
  <2>6. ASSUME NEW u \in Threads, pc'[u] = "link"
        PROVE  /\ \E i \in uh..ut + 1 : i < ut + 1 /\ preu'[u] = V[i] /\ pres'[u] = V[i + 1]
               /\ next'[preu'[u]] = Null
               /\ \A v \in Threads : pc'[v] = "link" /\ preu'[v] = preu'[u] => v = u
    <3>1. CASE u = t
      <4>1. \A v \in Threads : pc'[v] = "link" /\ preu'[v] = preu'[u] => v = u
        BY <2>1, <2>2, <2>5, <3>1
      <4>2. ut \in uh..ut + 1 /\ ut < ut + 1 /\ preu'[u] = V[ut] /\ pres'[u] = V[ut + 1]
        BY <2>1, <3>1
      <4>3. QED
        BY <2>1, <2>4, <3>1, <4>1, <4>2
    <3>2. CASE u # t
      <4>1. pc[u] = "link" /\ preu'[u] = preu[u] /\ pres'[u] = pres[u]
        BY <2>1, <2>2, <2>6, <3>2
      <4>2. PICK i \in uh..ut : i < ut /\ preu[u] = U[i] /\ pres[u] = U[i + 1]
        BY <4>1 DEF UsedInv
      <4>3. i \in uh..ut + 1 /\ i < ut + 1 /\ preu'[u] = V[i] /\ pres'[u] = V[i + 1]
        BY <4>1, <4>2
      <4>4. next'[preu'[u]] = Null
        BY <2>1, <4>1 DEF UsedInv
      <4>5. \A v \in Threads : pc'[v] = "link" /\ preu'[v] = preu'[u] => v = u
        BY <2>1, <2>2, <2>5, <4>1 DEF UsedInv
      <4>6. QED
        BY <4>3, <4>4, <4>5
    <3>3. QED
      BY <3>1, <3>2
  <2>7. ASSUME NEW u \in Threads, HasUsedLock(u)'
        PROVE  preu'[u] = V[uh]
    BY <2>1, <2>3, <2>7 DEF UsedInv
  <2>8. ASSUME NEW u \in Threads, pc'[u] = "move"
        PROVE  uh < ut + 1 /\ nextu'[u] = V[uh + 1] /\ next'[preu'[u]] = nextu'[u]
    <3>1. u # t /\ pc[u] = "move" /\ preu'[u] = preu[u]
      BY <2>1, <2>8
    <3>2. uh < ut /\ nextu[u] = U[uh + 1] /\ next[preu[u]] = nextu[u]
      BY <3>1 DEF UsedInv
    <3>3. QED
      BY <2>1, <3>1, <3>2
  <2>9. QED
    BY <2>6, <2>7, <2>8 DEF UsedInv
<1>5. SpareInv(S, sh, st)'
  <2>1. \A u \in Threads :
          /\ pc'[u] = "append" => /\ pc[u] = "append" /\ preu'[u] = preu[u]
                                  /\ pres'[u] = pres[u] /\ next'[pres[u]] = next[pres[u]]
          /\ HasSpareLock(u)' => HasSpareLock(u) /\ pres'[u] = pres[u]
          /\ pc'[u] = "pop" => pc[u] = "pop" /\ nexts'[u] = nexts[u]
    BY DEF HasSpareLock
  <2>2. QED
    BY <2>1, SpareSame
<1>6. Content(V, uh, ut + 1)'
  <2>1. /\ data' = data /\ line' = Append(line, input[t]) /\ data[n0] = input[t]
        /\ input[t] \in Values
    BY DEF Content, LocalInv
  <2>2. \A u \in Threads :
          /\ pc'[u] = "swing" => /\ pc[u] = "swing" /\ pres'[u] = pres[u]
                                 /\ input'[u] = input[u] /\ next'[pres[u]] = next[pres[u]]
          /\ pc'[u] = "give" => /\ pc[u] = "give" /\ preu'[u] = preu[u]
                                /\ next'[preu[u]] = next[preu[u]]
    OBVIOUS
  <2>3. line \in Seq(Values)
    OBVIOUS
  <2> HIDE Typed DEF SwingTail, Go, shared, locals
  <2>4. Len(line) = ut - uh /\ \A i \in 1..Len(line) : data[U[uh + i]] = line[i]
    BY DEF Content
  <2>5. /\ Len(line') = ut + 1 - uh /\ line'[Len(line) + 1] = input[t]
        /\ \A i \in 1..Len(line) : line'[i] = line[i]
    BY <2>1, <2>3, <2>4
  <2>6. \A i \in 1..Len(line) : data'[V[uh + i]] = line'[i]
    <3>1. \A i \in 1..Len(line) : uh + i \in uh..ut
      BY <2>4
    <3>2. QED
      BY <2>1, <2>4, <2>5, <3>1
  <2>7. uh + (Len(line) + 1) = ut + 1
    BY <2>4
  <2>8. \A i \in 1..Len(line') : data'[V[uh + i]] = line'[i]
    <3>1. \A i \in 1..Len(line') : i = Len(line) + 1 \/ i \in 1..Len(line)
      BY <2>4, <2>5
    <3>2. QED
      BY <2>1, <2>5, <2>6, <2>7, <3>1
  <2>9. QED
    <3>1. ASSUME NEW u \in Threads
          PROVE  /\ pc'[u] = "swing" => data'[pres'[u]] = input'[u] /\ next'[pres'[u]] = Null
                 /\ pc'[u] = "give" => next'[preu'[u]] = Null
      BY <2>1, <2>2 DEF Content
    <3>2. QED
      BY <2>5, <2>8, <3>1 DEF Content
<1>7. QED
  BY <1>1, <1>2, <1>3, <1>4, <1>5, <1>6

LEMMA LinkLists ==
  ASSUME BaseInv, NEW U \in [Nat -> Nodes], NEW uh \in Nat, NEW ut \in Nat,
         NEW S \in [Nat -> Nodes], NEW sh \in Nat, NEW st \in Nat,
         Lists(U, uh, ut, S, sh, st),
         NEW t \in Threads, Link(t)
  PROVE  Lists(U, uh, ut, S, sh, st)'
<1> USE Typed DEF Link, Go, shared, locals, Return, Lists
<1>1. Ends(U, uh, ut, S, sh, st)'
  BY DEF Ends
<1>2. Apart(U, uh, ut, S, sh, st)'
  <2>1. \A u \in Threads, n \in Nodes : Holds(u, n)' => Holds(u, n)
    BY DEF Holds
  <2>2. QED
    BY <2>1 DEF Apart
<1>3. Links(U, uh, ut, S, sh, st)'
  <2>1. PICK i0 \in uh..ut : i0 < ut /\ preu[t] = U[i0] /\ pres[t] = U[i0 + 1]
    BY DEF UsedInv
  <2>2. /\ preu[t] \in Nodes /\ next'[preu[t]] = pres[t] /\ allocated' = allocated
        /\ \A m \in Nodes : m # preu[t] => next'[m] = next[m]
    BY DEF LocalInv
  <2>3. U[i0] <= allocated /\ allocated \in Nat /\ Nodes \subseteq Nat
    BY <2>1 DEF Apart
  <2> HIDE Typed DEF Link, Go, shared, locals, Return
  <2>4. \A i \in sh..st : S[i] # preu[t]
    BY <2>1 DEF Apart
  <2>5. \A i \in uh..ut : i # i0 => U[i] # preu[t]
    BY <2>1 DEF Apart
  <2>6. \A i \in uh..ut : next'[U[i]] \in {Null, U[i + 1]} /\ (i = ut => next'[U[i]] = Null)
    BY <2>1, <2>2, <2>5 DEF Links
  <2>7. \A i \in sh..st : next'[S[i]] \in {Null, S[i + 1]} /\ (i = st => next'[S[i]] = Null)
    BY <2>2, <2>4 DEF Links
  <2>8. \A m \in Nodes : m > allocated' => next'[m] = Null
    BY <2>1, <2>2, <2>3 DEF Links
  <2>9. QED
    BY <2>6, <2>7, <2>8 DEF Links
<1>4. UsedInv(U, uh, ut)'
  <2>1. PICK i0 \in uh..ut : i0 < ut /\ preu[t] = U[i0] /\ pres[t] = U[i0 + 1]
    BY DEF UsedInv
  <2>2. /\ preu[t] \in Nodes /\ next'[preu[t]] = pres[t] /\ allocated' = allocated
        /\ \A m \in Nodes : m # preu[t] => next'[m] = next[m]
    BY DEF LocalInv
  <2>3. \A u \in Threads :
          /\ pc[u] = "link" /\ u # t => preu[u] # preu[t] /\ preu[u] \in Nodes
          /\ pc[u] = "move" => u # t /\ preu[u] # preu[t] /\ preu[u] \in Nodes
    <3>1. next[preu[t]] = Null
      BY DEF UsedInv
    <3>2. \A u \in Threads : pc[u] = "move" => /\ next[preu[u]] = nextu[u] /\ nextu[u] \in Nodes
                                                /\ u # t /\ preu[u] \in Nodes
      BY DEF UsedInv, LocalInv
    <3>3. \A u \in Threads : pc[u] = "link" /\ u # t => preu[u] # preu[t] /\ preu[u] \in Nodes
      BY DEF UsedInv, LocalInv
    <3>4. QED
      BY <3>1, <3>2, <3>3
  <2>4. /\ pc'[t] = "idle"
        /\ \A u \in Threads \ {t} : /\ pc'[u] = pc[u] /\ preu'[u] = preu[u] /\ pres'[u] = pres[u]
                                 /\ nexts'[u] = nexts[u] /\ nextu'[u] = nextu[u]
                                 /\ input'[u] = input[u]
        /\ line' = line /\ data' = data
    OBVIOUS
  <2> HIDE Typed DEF Link, Go, shared, locals, Return
  <2>5. \A u \in Threads :
          /\ pc'[u] = "link" => /\ pc[u] = "link" /\ preu'[u] = preu[u] /\ pres'[u] = pres[u]
                                /\ next'[preu[u]] = next[preu[u]]
          /\ HasUsedLock(u)' => HasUsedLock(u) /\ preu'[u] = preu[u]
          /\ pc'[u] = "move" => /\ pc[u] = "move" /\ nextu'[u] = nextu[u]
                                /\ next'[preu[u]] = next[preu[u]]
    BY <2>2, <2>3, <2>4 DEF HasUsedLock
  <2>6. QED
    BY <2>5, UsedSame
<1>5. SpareInv(S, sh, st)'
  <2>1. PICK i0 \in uh..ut : i0 < ut /\ preu[t] = U[i0] /\ pres[t] = U[i0 + 1]
    BY DEF UsedInv
  <2>2. /\ preu[t] \in Nodes /\ next'[preu[t]] = pres[t] /\ allocated' = allocated
        /\ \A m \in Nodes : m # preu[t] => next'[m] = next[m]
    BY DEF LocalInv
  <2>3. \A u \in Threads : pc[u] = "append" => pres[u] # preu[t] /\ pres[u] \in Nodes
    <3>1. \A i \in sh..st : S[i] # preu[t]
      BY <2>1 DEF Apart
    <3>2. \A u \in Threads : pc[u] = "append" => \E i \in sh..st : pres[u] = S[i]
      BY DEF SpareInv
    <3>3. QED
      BY <3>1, <3>2 DEF LocalInv
  <2>4. /\ pc'[t] = "idle"
        /\ \A u \in Threads \ {t} : /\ pc'[u] = pc[u] /\ preu'[u] = preu[u] /\ pres'[u] = pres[u]
                                 /\ nexts'[u] = nexts[u] /\ nextu'[u] = nextu[u]
                                 /\ input'[u] = input[u]
        /\ line' = line /\ data' = data
    OBVIOUS
  <2> HIDE Typed DEF Link, Go, shared, locals, Return
  <2>5. \A u \in Threads :
          /\ pc'[u] = "append" => /\ pc[u] = "append" /\ preu'[u] = preu[u]
                                  /\ pres'[u] = pres[u] /\ next'[pres[u]] = next[pres[u]]
          /\ HasSpareLock(u)' => HasSpareLock(u) /\ pres'[u] = pres[u]
          /\ pc'[u] = "pop" => pc[u] = "pop" /\ nexts'[u] = nexts[u]
    BY <2>2, <2>3, <2>4 DEF HasSpareLock
  <2>6. QED
    BY <2>5, SpareSame
<1>6. Content(U, uh, ut)'
  <2>1. PICK i0 \in uh..ut : i0 < ut /\ preu[t] = U[i0] /\ pres[t] = U[i0 + 1]
    BY DEF UsedInv
  <2>2. /\ preu[t] \in Nodes /\ next'[preu[t]] = pres[t] /\ allocated' = allocated
        /\ \A m \in Nodes : m # preu[t] => next'[m] = next[m]
    BY DEF LocalInv
  <2>3. \A u \in Threads :
          /\ pc[u] = "swing" => pres[u] # preu[t] /\ pres[u] \in Nodes
          /\ pc[u] = "give" => preu[u] # preu[t] /\ preu[u] \in Nodes
    BY <2>1 DEF Apart, Holds, LocalInv
  <2>4. /\ pc'[t] = "idle"
        /\ \A u \in Threads \ {t} : /\ pc'[u] = pc[u] /\ preu'[u] = preu[u] /\ pres'[u] = pres[u]
                                 /\ nexts'[u] = nexts[u] /\ nextu'[u] = nextu[u]
                                 /\ input'[u] = input[u]
        /\ line' = line /\ data' = data
    OBVIOUS
  <2> HIDE Typed DEF Link, Go, shared, locals, Return
  <2>5. \A u \in Threads :
          /\ pc'[u] = "swing" =>
               /\ pc[u] = "swing" /\ pres'[u] = pres[u] /\ input'[u] = input[u]
               /\ data'[pres[u]] = data[pres[u]] /\ next'[pres[u]] = next[pres[u]]
          /\ pc'[u] = "give" =>
               /\ pc[u] = "give" /\ preu'[u] = preu[u] /\ next'[preu[u]] = next[preu[u]]
    BY <2>2, <2>3, <2>4
  <2>6. QED
    BY <2>5, <2>4, ContentSame
<1>7. QED
  BY <1>1, <1>2, <1>3, <1>4, <1>5, <1>6

LEMMA DequeueCallLists ==
  ASSUME BaseInv, NEW U \in [Nat -> Nodes], NEW uh \in Nat, NEW ut \in Nat,
         NEW S \in [Nat -> Nodes], NEW sh \in Nat, NEW st \in Nat,
         Lists(U, uh, ut, S, sh, st),
         NEW t \in Threads, DequeueCall(t)
  PROVE  Lists(U, uh, ut, S, sh, st)'
<1> USE Typed DEF DequeueCall, Go, shared, locals, Lists
<1>1. Ends(U, uh, ut, S, sh, st)'
  BY DEF Ends
<1>2. Apart(U, uh, ut, S, sh, st)'
  <2>1. \A u \in Threads, n \in Nodes : Holds(u, n)' => Holds(u, n)
    BY DEF Holds
  <2>2. QED
    BY <2>1 DEF Apart
<1>3. Links(U, uh, ut, S, sh, st)'
  BY DEF Links
<1>4. UsedInv(U, uh, ut)'
  <2>1. \A u \in Threads :
          /\ pc'[u] = "link" => /\ pc[u] = "link" /\ preu'[u] = preu[u] /\ pres'[u] = pres[u]
                                /\ next'[preu[u]] = next[preu[u]]
          /\ HasUsedLock(u)' => HasUsedLock(u) /\ preu'[u] = preu[u]
          /\ pc'[u] = "move" => /\ pc[u] = "move" /\ nextu'[u] = nextu[u]
                                /\ next'[preu[u]] = next[preu[u]]
    BY DEF HasUsedLock
  <2>2. QED
    BY <2>1, UsedSame
<1>5. SpareInv(S, sh, st)'
  <2>1. \A u \in Threads :
          /\ pc'[u] = "append" => /\ pc[u] = "append" /\ preu'[u] = preu[u]
                                  /\ pres'[u] = pres[u] /\ next'[pres[u]] = next[pres[u]]
          /\ HasSpareLock(u)' => HasSpareLock(u) /\ pres'[u] = pres[u]
          /\ pc'[u] = "pop" => pc[u] = "pop" /\ nexts'[u] = nexts[u]
    BY DEF HasSpareLock
  <2>2. QED
    BY <2>1, SpareSame
<1>6. Content(U, uh, ut)'
  <2>1. \A u \in Threads :
          /\ pc'[u] = "swing" =>
               /\ pc[u] = "swing" /\ pres'[u] = pres[u] /\ input'[u] = input[u]
               /\ data'[pres[u]] = data[pres[u]] /\ next'[pres[u]] = next[pres[u]]
          /\ pc'[u] = "give" =>
               /\ pc[u] = "give" /\ preu'[u] = preu[u] /\ next'[preu[u]] = next[preu[u]]
    OBVIOUS
  <2>2. QED
    BY <2>1, ContentSame
<1>7. QED
  BY <1>1, <1>2, <1>3, <1>4, <1>5, <1>6

LEMMA TakeLists ==
  ASSUME BaseInv, NEW U \in [Nat -> Nodes], NEW uh \in Nat, NEW ut \in Nat,
         NEW S \in [Nat -> Nodes], NEW sh \in Nat, NEW st \in Nat,
         Lists(U, uh, ut, S, sh, st),
         NEW t \in Threads, Take(t)
  PROVE  Lists(U, uh, ut, S, sh, st)'
<1> USE Typed DEF Take, Go, shared, locals, Lists
<1>1. Ends(U, uh, ut, S, sh, st)'
  BY DEF Ends
<1>2. Apart(U, uh, ut, S, sh, st)'
  <2>1. \A u \in Threads, n \in Nodes : Holds(u, n)' => Holds(u, n)
    BY DEF Holds
  <2>2. QED
    BY <2>1 DEF Apart
<1>3. Links(U, uh, ut, S, sh, st)'
  BY DEF Links
<1>4. UsedInv(U, uh, ut)'
  <2>1. /\ pc'[t] = "succ" /\ preu'[t] = U[uh] /\ pres' = pres /\ next' = next
        /\ \A u \in Threads \ {t} : pc'[u] = pc[u] /\ preu'[u] = preu[u] /\ ~HasUsedLock(u)
    BY DEF LockInv, Ends
  <2>2. \A u \in Threads : HasUsedLock(u)' => u = t
    BY <2>1 DEF HasUsedLock
  <2>3. \A u \in Threads : pc'[u] # "move"
    BY <2>1, <2>2 DEF HasUsedLock
  <2>4. \A u \in Threads : pc'[u] = "link" => pc[u] = "link" /\ preu'[u] = preu[u]
    BY <2>1
  <2> HIDE Typed DEF Take, Go, shared, locals
  <2>5. ASSUME NEW u \in Threads, pc'[u] = "link"
        PROVE  /\ \E i \in uh..ut : i < ut /\ preu'[u] = U[i] /\ pres'[u] = U[i + 1]
               /\ next'[preu'[u]] = Null
               /\ \A v \in Threads : pc'[v] = "link" /\ preu'[v] = preu'[u] => v = u
    BY <2>1, <2>4, <2>5 DEF UsedInv
  <2>6. QED
    BY <2>1, <2>2, <2>3, <2>5 DEF UsedInv
<1>5. SpareInv(S, sh, st)'
  <2>1. \A u \in Threads :
          /\ pc'[u] = "append" => /\ pc[u] = "append" /\ preu'[u] = preu[u]
                                  /\ pres'[u] = pres[u] /\ next'[pres[u]] = next[pres[u]]
          /\ HasSpareLock(u)' => HasSpareLock(u) /\ pres'[u] = pres[u]
          /\ pc'[u] = "pop" => pc[u] = "pop" /\ nexts'[u] = nexts[u]
    BY DEF HasSpareLock
  <2>2. QED
    BY <2>1, SpareSame
<1>6. Content(U, uh, ut)'
  <2>1. \A u \in Threads :
          /\ pc'[u] = "swing" =>
               /\ pc[u] = "swing" /\ pres'[u] = pres[u] /\ input'[u] = input[u]
               /\ data'[pres[u]] = data[pres[u]] /\ next'[pres[u]] = next[pres[u]]
          /\ pc'[u] = "give" =>
               /\ pc[u] = "give" /\ preu'[u] = preu[u] /\ next'[preu[u]] = next[preu[u]]
    OBVIOUS
  <2>2. QED
    BY <2>1, ContentSame
<1>7. QED
  BY <1>1, <1>2, <1>3, <1>4, <1>5, <1>6

LEMMA ReadSuccLists ==
  ASSUME BaseInv, NEW U \in [Nat -> Nodes], NEW uh \in Nat, NEW ut \in Nat,
         NEW S \in [Nat -> Nodes], NEW sh \in Nat, NEW st \in Nat,
         Lists(U, uh, ut, S, sh, st),
         NEW t \in Threads, ReadSucc(t)
  PROVE  Lists(U, uh, ut, S, sh, st)'
<1> USE Typed DEF ReadSucc, Go, shared, locals, Lists
<1>1. Ends(U, uh, ut, S, sh, st)'
  BY DEF Ends
<1>2. Apart(U, uh, ut, S, sh, st)'
  <2>1. \A u \in Threads, n \in Nodes : Holds(u, n)' => Holds(u, n)
    BY DEF Holds
  <2>2. QED
    BY <2>1 DEF Apart
<1>3. Links(U, uh, ut, S, sh, st)'
  BY DEF Links
<1>4. UsedInv(U, uh, ut)'
  <2>1. /\ preu[t] = U[uh] /\ uh \in uh..ut
        /\ pres' = pres /\ preu' = preu /\ next' = next
    BY DEF UsedInv, HasUsedLock, Ends
  <2>2. \A u \in Threads \ {t} : pc'[u] = pc[u] /\ ~HasUsedLock(u)
    BY DEF LockInv, HasUsedLock
  <2>3. \A u \in Threads : HasUsedLock(u)' => u = t
    BY <2>2 DEF HasUsedLock
  <2>4. \A u \in Threads : pc'[u] = "link" <=> pc[u] = "link"
    OBVIOUS
  <2>5. \A u \in Threads : pc'[u] = "move" =>
          u = t /\ nextu'[u] = next[preu[t]] /\ next[preu[t]] # Null
    BY <2>2 DEF HasUsedLock
  <2> HIDE Typed DEF ReadSucc, Go, shared, locals
  <2>6. ASSUME NEW u \in Threads, pc'[u] = "link"
        PROVE  /\ \E i \in uh..ut : i < ut /\ preu'[u] = U[i] /\ pres'[u] = U[i + 1]
               /\ next'[preu'[u]] = Null
               /\ \A v \in Threads : pc'[v] = "link" /\ preu'[v] = preu'[u] => v = u
    BY <2>1, <2>4, <2>6 DEF UsedInv
  <2>7. next[U[uh]] # Null => uh < ut /\ next[U[uh]] = U[uh + 1]
    BY <2>1 DEF Links
  <2>8. QED
    BY <2>1, <2>3, <2>5, <2>6, <2>7 DEF UsedInv
<1>5. SpareInv(S, sh, st)'
  <2>1. \A u \in Threads :
          /\ pc'[u] = "append" => /\ pc[u] = "append" /\ preu'[u] = preu[u]
                                  /\ pres'[u] = pres[u] /\ next'[pres[u]] = next[pres[u]]
          /\ HasSpareLock(u)' => HasSpareLock(u) /\ pres'[u] = pres[u]
          /\ pc'[u] = "pop" => pc[u] = "pop" /\ nexts'[u] = nexts[u]
    BY DEF HasSpareLock
  <2>2. QED
    BY <2>1, SpareSame
<1>6. Content(U, uh, ut)'
  <2>1. \A u \in Threads :
          /\ pc'[u] = "swing" =>
               /\ pc[u] = "swing" /\ pres'[u] = pres[u] /\ input'[u] = input[u]
               /\ data'[pres[u]] = data[pres[u]] /\ next'[pres[u]] = next[pres[u]]
          /\ pc'[u] = "give" =>
               /\ pc[u] = "give" /\ preu'[u] = preu[u] /\ next'[preu[u]] = next[preu[u]]
    OBVIOUS
  <2>2. QED
    BY <2>1, ContentSame
<1>7. QED
  BY <1>1, <1>2, <1>3, <1>4, <1>5, <1>6

LEMMA ReportEmptyLists ==
  ASSUME BaseInv, NEW U \in [Nat -> Nodes], NEW uh \in Nat, NEW ut \in Nat,
         NEW S \in [Nat -> Nodes], NEW sh \in Nat, NEW st \in Nat,
         Lists(U, uh, ut, S, sh, st),
         NEW t \in Threads, ReportEmpty(t)
  PROVE  Lists(U, uh, ut, S, sh, st)'
<1> USE Typed DEF ReportEmpty, Go, shared, locals, Return, FailsWhenEmpty, Lists
<1>1. Ends(U, uh, ut, S, sh, st)'
  BY DEF Ends
<1>2. Apart(U, uh, ut, S, sh, st)'
  <2>1. \A u \in Threads, n \in Nodes : Holds(u, n)' => Holds(u, n)
    BY DEF Holds
  <2>2. QED
    BY <2>1 DEF Apart
<1>3. Links(U, uh, ut, S, sh, st)'
  BY DEF Links
<1>4. UsedInv(U, uh, ut)'
  <2>1. \A u \in Threads :
          /\ pc'[u] = "link" => /\ pc[u] = "link" /\ preu'[u] = preu[u] /\ pres'[u] = pres[u]
                                /\ next'[preu[u]] = next[preu[u]]
          /\ HasUsedLock(u)' => HasUsedLock(u) /\ preu'[u] = preu[u]
          /\ pc'[u] = "move" => /\ pc[u] = "move" /\ nextu'[u] = nextu[u]
                                /\ next'[preu[u]] = next[preu[u]]
    BY DEF HasUsedLock
  <2>2. QED
    BY <2>1, UsedSame
<1>5. SpareInv(S, sh, st)'
  <2>1. \A u \in Threads :
          /\ pc'[u] = "append" => /\ pc[u] = "append" /\ preu'[u] = preu[u]
                                  /\ pres'[u] = pres[u] /\ next'[pres[u]] = next[pres[u]]
          /\ HasSpareLock(u)' => HasSpareLock(u) /\ pres'[u] = pres[u]
          /\ pc'[u] = "pop" => pc[u] = "pop" /\ nexts'[u] = nexts[u]
    BY DEF HasSpareLock
  <2>2. QED
    BY <2>1, SpareSame
<1>6. Content(U, uh, ut)'
  <2>1. \A u \in Threads :
          /\ pc'[u] = "swing" =>
               /\ pc[u] = "swing" /\ pres'[u] = pres[u] /\ input'[u] = input[u]
               /\ data'[pres[u]] = data[pres[u]] /\ next'[pres[u]] = next[pres[u]]
          /\ pc'[u] = "give" =>
               /\ pc[u] = "give" /\ preu'[u] = preu[u] /\ next'[preu[u]] = next[preu[u]]
    OBVIOUS
  <2>2. QED
    BY <2>1, ContentSame
<1>7. QED
  BY <1>1, <1>2, <1>3, <1>4, <1>5, <1>6

LEMMA SpinForLinkLists ==
  ASSUME BaseInv, NEW U \in [Nat -> Nodes], NEW uh \in Nat, NEW ut \in Nat,
         NEW S \in [Nat -> Nodes], NEW sh \in Nat, NEW st \in Nat,
         Lists(U, uh, ut, S, sh, st),
         NEW t \in Threads, SpinForLink(t)
  PROVE  Lists(U, uh, ut, S, sh, st)'
<1> USE Typed DEF SpinForLink, Go, shared, locals, FailsWhenEmpty, Lists
<1>1. Ends(U, uh, ut, S, sh, st)'
  BY DEF Ends
<1>2. Apart(U, uh, ut, S, sh, st)'
  <2>1. \A u \in Threads, n \in Nodes : Holds(u, n)' => Holds(u, n)
    BY DEF Holds
  <2>2. QED
    BY <2>1 DEF Apart
<1>3. Links(U, uh, ut, S, sh, st)'
  BY DEF Links
<1>4. UsedInv(U, uh, ut)'
  <2>1. \A u \in Threads :
          /\ pc'[u] = "link" => /\ pc[u] = "link" /\ preu'[u] = preu[u] /\ pres'[u] = pres[u]
                                /\ next'[preu[u]] = next[preu[u]]
          /\ HasUsedLock(u)' => HasUsedLock(u) /\ preu'[u] = preu[u]
          /\ pc'[u] = "move" => /\ pc[u] = "move" /\ nextu'[u] = nextu[u]
                                /\ next'[preu[u]] = next[preu[u]]
    BY DEF HasUsedLock
  <2>2. QED
    BY <2>1, UsedSame
<1>5. SpareInv(S, sh, st)'
  <2>1. \A u \in Threads :
          /\ pc'[u] = "append" => /\ pc[u] = "append" /\ preu'[u] = preu[u]
                                  /\ pres'[u] = pres[u] /\ next'[pres[u]] = next[pres[u]]
          /\ HasSpareLock(u)' => HasSpareLock(u) /\ pres'[u] = pres[u]
          /\ pc'[u] = "pop" => pc[u] = "pop" /\ nexts'[u] = nexts[u]
    BY DEF HasSpareLock
  <2>2. QED
    BY <2>1, SpareSame
<1>6. Content(U, uh, ut)'
  <2>1. \A u \in Threads :
          /\ pc'[u] = "swing" =>
               /\ pc[u] = "swing" /\ pres'[u] = pres[u] /\ input'[u] = input[u]
               /\ data'[pres[u]] = data[pres[u]] /\ next'[pres[u]] = next[pres[u]]
          /\ pc'[u] = "give" =>
               /\ pc[u] = "give" /\ preu'[u] = preu[u] /\ next'[preu[u]] = next[preu[u]]
    OBVIOUS
  <2>2. QED
    BY <2>1, ContentSame
<1>7. QED
  BY <1>1, <1>2, <1>3, <1>4, <1>5, <1>6

LEMMA MoveHeadLists ==
  ASSUME BaseInv, NEW U \in [Nat -> Nodes], NEW uh \in Nat, NEW ut \in Nat,
         NEW S \in [Nat -> Nodes], NEW sh \in Nat, NEW st \in Nat,
         Lists(U, uh, ut, S, sh, st),
         NEW t \in Threads, MoveHead(t)
  PROVE  Lists(U, uh + 1, ut, S, sh, st)'
<1> USE Typed DEF MoveHead, Go, shared, locals, Lists
<1>1. Ends(U, uh + 1, ut, S, sh, st)'
  <2>1. /\ uh <= ut /\ sh <= st /\ U[uh] = uHead /\ U[ut] = uTail
        /\ S[sh] = sHead /\ S[st] = sTail
    BY DEF Ends
  <2>2. uh < ut /\ uHead' = U[uh + 1] /\ uTail' = uTail /\ sHead' = sHead /\ sTail' = sTail
    BY DEF UsedInv
  <2>3. uh + 1 \in Nat /\ uh + 1 <= ut
    <3>1. uh < ut
      BY <2>2
    <3> HIDE Typed DEF MoveHead, Go, shared, locals
    <3>2. QED
      BY <3>1
  <2>4. QED
    BY <2>1, <2>2, <2>3 DEF Ends
<1>2. Apart(U, uh + 1, ut, S, sh, st)'
  <2>1. preu[t] = U[uh]
    BY DEF UsedInv, HasUsedLock
  <2>2. \A u \in Threads, n \in Nodes : Holds(u, n)' => Holds(u, n) \/ (u = t /\ n = U[uh])
    <3>1. /\ \A u \in Threads \ {t} : pc'[u] = pc[u]
          /\ pres' = pres /\ preu' = preu /\ pc'[t] = "clear"
      OBVIOUS
    <3> HIDE Typed DEF MoveHead, Go, shared, locals
    <3>2. QED
      BY <2>1, <3>1 DEF Holds
  <2>3. \A n \in Nodes : ~Holds(t, n)
    BY DEF Holds
  <2>4. uh <= ut
    BY DEF Ends
  <2>5. uh \in uh..ut /\ \A i \in uh + 1..ut : i \in uh..ut /\ i # uh
    BY <2>4
  <2>6. /\ U[uh] <= allocated
        /\ \A i \in uh + 1..ut : U[uh] # U[i]
        /\ \A j \in sh..st : U[uh] # S[j]
        /\ \A u \in Threads : ~Holds(u, U[uh])
    BY <2>5 DEF Apart
  <2>7. \A i \in uh + 1..ut : U[i] <= allocated /\ \A j \in uh + 1..ut : U[i] = U[j] => i = j
    BY <2>5 DEF Apart
  <2>8. \A i \in uh + 1..ut, j \in sh..st : U[i] # S[j]
    BY <2>5 DEF Apart
  <2>9. ASSUME NEW u \in Threads, NEW n \in Nodes, Holds(u, n)'
        PROVE  /\ n <= allocated
               /\ \A i \in uh + 1..ut : n # U[i]
               /\ \A j \in sh..st : n # S[j]
               /\ \A v \in Threads : Holds(v, n)' => v = u
    <3>1. CASE u = t /\ n = U[uh]
      BY <2>2, <2>6, <3>1
    <3>2. CASE Holds(u, n)
      <4>1. /\ n <= allocated
            /\ \A i \in uh..ut : n # U[i]
            /\ \A j \in sh..st : n # S[j]
            /\ \A v \in Threads : Holds(v, n) => v = u
        BY <3>2 DEF Apart
      <4>2. QED
        BY <2>2, <2>5, <4>1
    <3>3. QED
      BY <2>2, <2>9, <3>1, <3>2
  <2>10. \A j \in sh..st : S[j] <= allocated /\ \A i \in sh..st : S[j] = S[i] => j = i
    BY DEF Apart
  <2>11. allocated' = allocated
    OBVIOUS
  <2> HIDE Typed DEF MoveHead, Go, shared, locals
  <2>12. QED
    BY <2>7, <2>8, <2>9, <2>10, <2>11 DEF Apart
<1>3. Links(U, uh + 1, ut, S, sh, st)'
  <2>1. next' = next /\ allocated' = allocated
    OBVIOUS
  <2>2. \A i \in uh + 1..ut : i \in uh..ut
    BY DEF Ends
  <2> HIDE Typed DEF MoveHead, Go, shared, locals
  <2>3. QED
    BY <2>1, <2>2 DEF Links
<1>4. UsedInv(U, uh + 1, ut)'
  <2>1. /\ pc'[t] = "clear" /\ pres' = pres /\ preu' = preu /\ next' = next
        /\ \A u \in Threads \ {t} : pc'[u] = pc[u] /\ ~HasUsedLock(u)
    BY DEF LockInv, HasUsedLock
  <2>2. \A u \in Threads : ~HasUsedLock(u)' /\ pc'[u] # "move"
    BY <2>1 DEF HasUsedLock
  <2>3. next[U[uh]] # Null
    BY DEF UsedInv, HasUsedLock
  <2> HIDE Typed DEF MoveHead, Go, shared, locals
  <2>4. \A u \in Threads : pc'[u] = "link" => pc[u] = "link"
    BY <2>1
  <2>5. ASSUME NEW u \in Threads, pc'[u] = "link"
        PROVE  \E i \in uh + 1..ut : i < ut /\ preu'[u] = U[i] /\ pres'[u] = U[i + 1]
    <3>1. PICK i \in uh..ut : i < ut /\ preu[u] = U[i] /\ pres[u] = U[i + 1]
      BY <2>4, <2>5 DEF UsedInv
    <3>2. next[preu[u]] = Null
      BY <2>4, <2>5 DEF UsedInv
    <3>3. i \in uh + 1..ut
      BY <2>3, <3>1, <3>2
    <3>4. QED
      BY <2>1, <3>1, <3>3
  <2>6. ASSUME NEW u \in Threads, pc'[u] = "link"
        PROVE  /\ next'[preu'[u]] = Null
               /\ \A v \in Threads : pc'[v] = "link" /\ preu'[v] = preu'[u] => v = u
    BY <2>1, <2>4, <2>6 DEF UsedInv
  <2>7. QED
    BY <2>2, <2>5, <2>6 DEF UsedInv
<1>5. SpareInv(S, sh, st)'
  <2>1. \A u \in Threads :
          /\ pc'[u] = "append" => /\ pc[u] = "append" /\ preu'[u] = preu[u]
                                  /\ pres'[u] = pres[u] /\ next'[pres[u]] = next[pres[u]]
          /\ HasSpareLock(u)' => HasSpareLock(u) /\ pres'[u] = pres[u]
          /\ pc'[u] = "pop" => pc[u] = "pop" /\ nexts'[u] = nexts[u]
    BY DEF HasSpareLock
  <2>2. QED
    BY <2>1, SpareSame
<1>6. Content(U, uh + 1, ut)'
  <2>1. uh < ut /\ Len(line) = ut - uh /\ line \in Seq(Values)
    BY DEF UsedInv, Content
  <2>2. line # <<>> /\ Len(line) > 0
    BY <2>1
  <2>3. line' = Tail(line) /\ data' = data
    BY <2>2
  <2>4. \A u \in Threads :
          /\ pc'[u] = "swing" => /\ pc[u] = "swing" /\ pres'[u] = pres[u]
                                 /\ input'[u] = input[u] /\ next'[pres[u]] = next[pres[u]]
          /\ pc'[u] = "give" => /\ pc[u] = "give" /\ preu'[u] = preu[u]
                                /\ next'[preu[u]] = next[preu[u]]
    OBVIOUS
  <2> HIDE Typed DEF MoveHead, Go, shared, locals
  <2>5. Len(line') = ut - (uh + 1) /\ \A i \in 1..Len(line') : line'[i] = line[i + 1]
    BY <2>1, <2>2, <2>3
  <2>6. \A i \in 1..Len(line') :
          i \in 1..Len(line) /\ i + 1 \in 1..Len(line) /\ uh + 1 + i = uh + (i + 1)
    <3>1. Len(line) = ut - uh /\ Len(line') = ut - uh - 1
      BY <2>1, <2>5
    <3>2. QED
      BY <3>1
  <2>7. \A i \in 1..Len(line') : data'[U[uh + 1 + i]] = line'[i]
    <3>1. \A i \in 1..Len(line) : data[U[uh + i]] = line[i]
      BY DEF Content
    <3>2. TAKE i \in 1..Len(line')
    <3>3. data[U[uh + (i + 1)]] = line[i + 1]
      BY <2>6, <3>1
    <3>4. QED
      BY <2>3, <2>5, <2>6, <3>3
  <2>8. QED
    <3>1. ASSUME NEW u \in Threads
          PROVE  /\ pc'[u] = "swing" => data'[pres'[u]] = input'[u] /\ next'[pres'[u]] = Null
                 /\ pc'[u] = "give" => next'[preu'[u]] = Null
      BY <2>3, <2>4 DEF Content
    <3>2. QED
      BY <2>5, <2>7, <3>1 DEF Content
<1>7. QED
  BY <1>1, <1>2, <1>3, <1>4, <1>5, <1>6

LEMMA ClearNextLists ==
  ASSUME BaseInv, NEW U \in [Nat -> Nodes], NEW uh \in Nat, NEW ut \in Nat,
         NEW S \in [Nat -> Nodes], NEW sh \in Nat, NEW st \in Nat,
         Lists(U, uh, ut, S, sh, st),
         NEW t \in Threads, ClearNext(t)
  PROVE  Lists(U, uh, ut, S, sh, st)'
<1> USE Typed DEF ClearNext, Go, shared, locals, Lists
<1>1. Ends(U, uh, ut, S, sh, st)'
  BY DEF Ends
<1>2. Apart(U, uh, ut, S, sh, st)'
  <2>1. \A u \in Threads, n \in Nodes : Holds(u, n)' => Holds(u, n)
    BY DEF Holds
  <2>2. QED
    BY <2>1 DEF Apart
<1>3. /\ Links(U, uh, ut, S, sh, st)' /\ UsedInv(U, uh, ut)'
      /\ SpareInv(S, sh, st)' /\ Content(U, uh, ut)'
  <2>1. preu[t] \in Nodes /\ Holds(t, preu[t])
    BY DEF LocalInv, Holds
  <2>2. \A n \in Nodes : n # preu[t] => next'[n] = next[n] /\ data'[n] = data[n]
    BY <2>1
  <2>3. /\ UNCHANGED <<allocated, locals, line>>
        /\ \A u \in Threads : u # t => pc'[u] = pc[u]
        /\ pc'[t] = "give" /\ next'[preu[t]] = Null
    BY <2>1
  <2> HIDE Typed DEF ClearNext, Go, shared, locals
  <2>4. WritesHeld(t, preu[t])
    BY <2>1, <2>2, <2>3 DEF WritesHeld
  <2>5. QED
    BY <2>1, <2>4, HeldWrite
<1>4. QED
  BY <1>1, <1>2, <1>3

LEMMA GiveBackLists ==
  ASSUME BaseInv, NEW U \in [Nat -> Nodes], NEW uh \in Nat, NEW ut \in Nat,
         NEW S \in [Nat -> Nodes], NEW sh \in Nat, NEW st \in Nat,
         Lists(U, uh, ut, S, sh, st),
         NEW t \in Threads, GiveBack(t),
         NEW V \in [Nat -> Nodes], NEW n0 \in Nodes, n0 = preu[t],
         V[st + 1] = n0, \A i \in 0..st : V[i] = S[i]
  PROVE  Lists(U, uh, ut, V, sh, st + 1)'
<1>0. /\ sh <= st /\ sh <= st + 1 /\ st + 1 \in Nat /\ st + 1 \in sh..st + 1
      /\ \A i \in sh..st + 1 : i = st + 1 \/ i \in sh..st
      /\ \A i \in sh..st : i \in sh..st + 1 /\ i # st + 1 /\ V[i] = S[i]
      /\ sh \in sh..st /\ V[sh] = S[sh] /\ st \in sh..st /\ V[st] = S[st]
      /\ \A i \in sh..st : i < st => i + 1 \in sh..st /\ V[i + 1] = S[i + 1]
  <2>1. sh <= st
    BY DEF Lists, Ends
  <2>2. QED
    BY <2>1
<1> USE <1>0
<1> USE Typed DEF GiveBack, Go, shared, locals, Lists
<1>1. Ends(U, uh, ut, V, sh, st + 1)'
  <2>1. /\ uh <= ut /\ sh <= st /\ U[uh] = uHead /\ U[ut] = uTail
        /\ S[sh] = sHead /\ S[st] = sTail
    BY DEF Ends
  <2>2. sTail' = n0 /\ uHead' = uHead /\ uTail' = uTail /\ sHead' = sHead
    OBVIOUS
  <2> HIDE Typed DEF GiveBack, Go, shared, locals
  <2>3. QED
    BY <1>0, <2>1, <2>2 DEF Ends
<1>2. Apart(U, uh, ut, V, sh, st + 1)'
  <2>1. Holds(t, n0) /\ allocated' = allocated
    BY DEF Holds
  <2>2. \A u \in Threads, n \in Nodes : Holds(u, n)' => Holds(u, n) /\ u # t
    BY DEF Holds
  <2> HIDE Typed DEF GiveBack, Go, shared, locals
  <2>3. \A u \in Threads, n \in Nodes : Holds(u, n)' => Holds(u, n) /\ n # n0
    BY <2>1, <2>2 DEF Apart
  <2>4. (\A i \in sh..st : S[i] # n0) /\ \A j \in uh..ut : U[j] # n0
    BY <2>1 DEF Apart
  <2>5. n0 <= allocated' /\ \A n \in Nodes : n <= allocated => n <= allocated'
    BY <2>1 DEF Apart
  <2>6. \A i \in sh..st + 1 : V[i] <= allocated' /\ \A j \in sh..st + 1 : V[i] = V[j] => i = j
    <3>1. \A i \in sh..st : S[i] <= allocated /\ \A j \in sh..st : S[i] = S[j] => i = j
      BY DEF Apart
    <3>2. \A i \in sh..st : S[i] \in Nodes
      OBVIOUS
    <3>3. QED
      BY <1>0, <2>4, <2>5, <3>1, <3>2
  <2>7. \A j \in uh..ut : U[j] <= allocated' /\ \A i \in uh..ut : U[j] = U[i] => j = i
    <3>1. \A j \in uh..ut : U[j] \in Nodes
      OBVIOUS
    <3>2. QED
      BY <2>5, <3>1 DEF Apart
  <2>8. \A i \in uh..ut, j \in sh..st + 1 : U[i] # V[j]
    <3>1. \A i \in uh..ut, j \in sh..st : U[i] # S[j]
      BY DEF Apart
    <3>2. QED
      BY <1>0, <2>4, <3>1
  <2>9. ASSUME NEW u \in Threads, NEW n \in Nodes, Holds(u, n)'
        PROVE  /\ n <= allocated'
               /\ \A i \in sh..st + 1 : n # V[i]
               /\ \A j \in uh..ut : n # U[j]
               /\ \A v \in Threads : Holds(v, n)' => v = u
    <3>1. Holds(u, n) /\ n # n0 /\ \A v \in Threads : Holds(v, n)' => Holds(v, n)
      BY <2>3, <2>9
    <3>2. /\ n <= allocated
          /\ \A i \in sh..st : n # S[i]
          /\ \A j \in uh..ut : n # U[j]
          /\ \A v \in Threads : Holds(v, n) => v = u
      BY <3>1 DEF Apart
    <3>3. QED
      BY <1>0, <2>5, <3>1, <3>2
  <2>10. QED
    BY <2>6, <2>7, <2>8, <2>9 DEF Apart
<1>3. Links(U, uh, ut, V, sh, st + 1)'
  <2>1. next' = next /\ allocated' = allocated /\ next[n0] = Null
    BY DEF Content
  <2> HIDE Typed DEF GiveBack, Go, shared, locals
  <2>2. \A i \in sh..st : next[V[i]] \in {Null, V[i + 1]}
    BY DEF Links
  <2>3. QED
    BY <2>1, <2>2 DEF Links
<1>4. UsedInv(U, uh, ut)'
  <2>1. \A u \in Threads :
          /\ pc'[u] = "link" => /\ pc[u] = "link" /\ preu'[u] = preu[u] /\ pres'[u] = pres[u]
                                /\ next'[preu[u]] = next[preu[u]]
          /\ HasUsedLock(u)' => HasUsedLock(u) /\ preu'[u] = preu[u]
          /\ pc'[u] = "move" => /\ pc[u] = "move" /\ nextu'[u] = nextu[u]
                                /\ next'[preu[u]] = next[preu[u]]
    BY DEF HasUsedLock
  <2>2. QED
    BY <2>1, UsedSame
<1>5. SpareInv(V, sh, st + 1)'
  <2>1. /\ pc'[t] = "append" /\ pres'[t] = S[st] /\ preu' = preu /\ preu[t] = n0
        /\ next' = next /\ nexts' = nexts
        /\ \A u \in Threads \ {t} : pc'[u] = pc[u] /\ pres'[u] = pres[u]
    BY DEF Ends
  <2>2. \A u \in Threads : pc'[u] = "append" /\ u # t => pc[u] = "append" /\ pres'[u] = pres[u]
    BY <2>1
  <2>3. \A u \in Threads : HasSpareLock(u)' => u # t /\ HasSpareLock(u)
    BY <2>1 DEF HasSpareLock
  <2> HIDE Typed DEF GiveBack, Go, shared, locals
  <2>4. next[S[st]] = Null
    BY DEF Links
  <2>5. \A u \in Threads : pc[u] = "append" => pres[u] # S[st]
    BY DEF SpareInv, Apart
  <2>6. ASSUME NEW u \in Threads, pc'[u] = "append"
        PROVE  /\ \E i \in sh..st + 1 : i < st + 1 /\ pres'[u] = V[i] /\ preu'[u] = V[i + 1]
               /\ next'[pres'[u]] = Null
               /\ \A v \in Threads : pc'[v] = "append" /\ pres'[v] = pres'[u] => v = u
    <3>1. CASE u = t
      <4>1. \A v \in Threads : pc'[v] = "append" /\ pres'[v] = pres'[u] => v = u
        BY <2>1, <2>2, <2>5, <3>1
      <4>2. st \in sh..st + 1 /\ st < st + 1 /\ pres'[u] = V[st] /\ preu'[u] = V[st + 1]
        BY <2>1, <3>1
      <4>3. QED
        BY <2>1, <2>4, <3>1, <4>1, <4>2
    <3>2. CASE u # t
      <4>1. pc[u] = "append" /\ preu'[u] = preu[u] /\ pres'[u] = pres[u]
        BY <2>1, <2>2, <2>6, <3>2
      <4>2. PICK i \in sh..st : i < st /\ pres[u] = S[i] /\ preu[u] = S[i + 1]
        BY <4>1 DEF SpareInv
      <4>3. i \in sh..st + 1 /\ i < st + 1 /\ pres'[u] = V[i] /\ preu'[u] = V[i + 1]
        BY <4>1, <4>2
      <4>4. next'[pres'[u]] = Null
        BY <2>1, <4>1 DEF SpareInv
      <4>5. \A v \in Threads : pc'[v] = "append" /\ pres'[v] = pres'[u] => v = u
        BY <2>1, <2>2, <2>5, <4>1 DEF SpareInv
      <4>6. QED
        BY <4>3, <4>4, <4>5
    <3>3. QED
      BY <3>1, <3>2
  <2>7. ASSUME NEW u \in Threads, HasSpareLock(u)'
        PROVE  pres'[u] = V[sh]
    BY <2>1, <2>3, <2>7 DEF SpareInv
  <2>8. ASSUME NEW u \in Threads, pc'[u] = "pop"
        PROVE  /\ sh < st + 1 /\ nexts'[u] = V[sh + 1]
               /\ \A v \in Threads : pc'[v] = "append" => pres'[v] # V[sh]
    <3>1. u # t /\ pc[u] = "pop"
      BY <2>1, <2>8
    <3>2. /\ sh < st /\ nexts[u] = S[sh + 1]
          /\ \A v \in Threads : pc[v] = "append" => pres[v] # S[sh]
      BY <3>1 DEF SpareInv
    <3>3. S[st] # S[sh]
      BY <3>2 DEF Apart
    <3>4. QED
      BY <2>1, <2>2, <3>2, <3>3
  <2>9. QED
    BY <2>6, <2>7, <2>8 DEF SpareInv
<1>6. Content(U, uh, ut)'
  <2>1. \A u \in Threads :
          /\ pc'[u] = "swing" =>
               /\ pc[u] = "swing" /\ pres'[u] = pres[u] /\ input'[u] = input[u]
               /\ data'[pres[u]] = data[pres[u]] /\ next'[pres[u]] = next[pres[u]]
          /\ pc'[u] = "give" =>
               /\ pc[u] = "give" /\ preu'[u] = preu[u] /\ next'[preu[u]] = next[preu[u]]
    OBVIOUS
  <2>2. QED
    BY <2>1, ContentSame
<1>7. QED
  BY <1>1, <1>2, <1>3, <1>4, <1>5, <1>6

LEMMA AppendSpareLists ==
  ASSUME BaseInv, NEW U \in [Nat -> Nodes], NEW uh \in Nat, NEW ut \in Nat,
         NEW S \in [Nat -> Nodes], NEW sh \in Nat, NEW st \in Nat,
         Lists(U, uh, ut, S, sh, st),
         NEW t \in Threads, AppendSpare(t)
  PROVE  Lists(U, uh, ut, S, sh, st)'
<1> USE Typed DEF AppendSpare, Go, shared, locals, Return, Lists
<1>1. Ends(U, uh, ut, S, sh, st)'
  BY DEF Ends
<1>2. Apart(U, uh, ut, S, sh, st)'
  <2>1. \A u \in Threads, n \in Nodes : Holds(u, n)' => Holds(u, n)
    BY DEF Holds
  <2>2. QED
    BY <2>1 DEF Apart
<1>3. Links(U, uh, ut, S, sh, st)'
  <2>1. PICK i0 \in sh..st : i0 < st /\ pres[t] = S[i0] /\ preu[t] = S[i0 + 1]
    BY DEF SpareInv
  <2>2. /\ pres[t] \in Nodes /\ next'[pres[t]] = preu[t] /\ allocated' = allocated
        /\ \A m \in Nodes : m # pres[t] => next'[m] = next[m]
    BY DEF LocalInv
  <2>3. S[i0] <= allocated /\ allocated \in Nat /\ Nodes \subseteq Nat
    BY <2>1 DEF Apart
  <2> HIDE Typed DEF AppendSpare, Go, shared, locals, Return
  <2>4. \A i \in uh..ut : U[i] # pres[t]
    BY <2>1 DEF Apart
  <2>5. \A i \in sh..st : i # i0 => S[i] # pres[t]
    BY <2>1 DEF Apart
  <2>6. \A i \in sh..st : next'[S[i]] \in {Null, S[i + 1]} /\ (i = st => next'[S[i]] = Null)
    BY <2>1, <2>2, <2>5 DEF Links
  <2>7. \A i \in uh..ut : next'[U[i]] \in {Null, U[i + 1]} /\ (i = ut => next'[U[i]] = Null)
    BY <2>2, <2>4 DEF Links
  <2>8. \A m \in Nodes : m > allocated' => next'[m] = Null
    BY <2>1, <2>2, <2>3 DEF Links
  <2>9. QED
    BY <2>6, <2>7, <2>8 DEF Links
<1>4. UsedInv(U, uh, ut)'
  <2>1. PICK i0 \in sh..st : i0 < st /\ pres[t] = S[i0] /\ preu[t] = S[i0 + 1]
    BY DEF SpareInv
  <2>2. /\ pres[t] \in Nodes /\ next'[pres[t]] = preu[t] /\ allocated' = allocated
        /\ \A m \in Nodes : m # pres[t] => next'[m] = next[m]
    BY DEF LocalInv
  <2>3. \A u \in Threads :
          /\ pc[u] = "link" => preu[u] # pres[t] /\ preu[u] \in Nodes
          /\ pc[u] = "move" => preu[u] # pres[t] /\ preu[u] \in Nodes
    <3>1. uh \in uh..ut
      BY DEF Ends
    <3>2. \A i \in uh..ut : U[i] # pres[t]
      BY <2>1 DEF Apart
    <3>3. \A u \in Threads : pc[u] = "link" => preu[u] # pres[t]
      <4>1. \A u \in Threads : pc[u] = "link" => \E i \in uh..ut : preu[u] = U[i]
        BY DEF UsedInv
      <4>2. QED
        BY <3>2, <4>1
    <3>4. \A u \in Threads : pc[u] = "move" => preu[u] # pres[t]
      BY <3>1, <3>2 DEF UsedInv, HasUsedLock
    <3>5. QED
      BY <3>3, <3>4 DEF LocalInv
  <2>4. /\ pc'[t] = "idle"
        /\ \A u \in Threads \ {t} : /\ pc'[u] = pc[u] /\ preu'[u] = preu[u] /\ pres'[u] = pres[u]
                                 /\ nexts'[u] = nexts[u] /\ nextu'[u] = nextu[u]
                                 /\ input'[u] = input[u]
        /\ line' = line /\ data' = data
    OBVIOUS
  <2> HIDE Typed DEF AppendSpare, Go, shared, locals, Return
  <2>5. \A u \in Threads :
          /\ pc'[u] = "link" => /\ pc[u] = "link" /\ preu'[u] = preu[u] /\ pres'[u] = pres[u]
                                /\ next'[preu[u]] = next[preu[u]]
          /\ HasUsedLock(u)' => HasUsedLock(u) /\ preu'[u] = preu[u]
          /\ pc'[u] = "move" => /\ pc[u] = "move" /\ nextu'[u] = nextu[u]
                                /\ next'[preu[u]] = next[preu[u]]
    BY <2>2, <2>3, <2>4 DEF HasUsedLock
  <2>6. QED
    BY <2>5, UsedSame
<1>5. SpareInv(S, sh, st)'
  <2>1. PICK i0 \in sh..st : i0 < st /\ pres[t] = S[i0] /\ preu[t] = S[i0 + 1]
    BY DEF SpareInv
  <2>2. /\ pres[t] \in Nodes /\ next'[pres[t]] = preu[t] /\ allocated' = allocated
        /\ \A m \in Nodes : m # pres[t] => next'[m] = next[m]
    BY DEF LocalInv
  <2>3. \A u \in Threads : pc[u] = "append" /\ u # t => pres[u] # pres[t] /\ pres[u] \in Nodes
    BY DEF SpareInv, LocalInv
  <2>4. /\ pc'[t] = "idle"
        /\ \A u \in Threads \ {t} : /\ pc'[u] = pc[u] /\ preu'[u] = preu[u] /\ pres'[u] = pres[u]
                                 /\ nexts'[u] = nexts[u] /\ nextu'[u] = nextu[u]
                                 /\ input'[u] = input[u]
        /\ line' = line /\ data' = data
    OBVIOUS
  <2> HIDE Typed DEF AppendSpare, Go, shared, locals, Return
  <2>5. \A u \in Threads :
          /\ pc'[u] = "append" => /\ pc[u] = "append" /\ preu'[u] = preu[u]
                                  /\ pres'[u] = pres[u] /\ next'[pres[u]] = next[pres[u]]
          /\ HasSpareLock(u)' => HasSpareLock(u) /\ pres'[u] = pres[u]
          /\ pc'[u] = "pop" => pc[u] = "pop" /\ nexts'[u] = nexts[u]
    BY <2>2, <2>3, <2>4 DEF HasSpareLock
  <2>6. QED
    BY <2>5, SpareSame
<1>6. Content(U, uh, ut)'
  <2>1. PICK i0 \in sh..st : i0 < st /\ pres[t] = S[i0] /\ preu[t] = S[i0 + 1]
    BY DEF SpareInv
  <2>2. /\ pres[t] \in Nodes /\ next'[pres[t]] = preu[t] /\ allocated' = allocated
        /\ \A m \in Nodes : m # pres[t] => next'[m] = next[m]
    BY DEF LocalInv
  <2>3. \A u \in Threads :
          /\ pc[u] = "swing" => pres[u] # pres[t] /\ pres[u] \in Nodes
          /\ pc[u] = "give" => preu[u] # pres[t] /\ preu[u] \in Nodes
    BY <2>1 DEF Apart, Holds, LocalInv
  <2>4. /\ pc'[t] = "idle"
        /\ \A u \in Threads \ {t} : /\ pc'[u] = pc[u] /\ preu'[u] = preu[u] /\ pres'[u] = pres[u]
                                 /\ nexts'[u] = nexts[u] /\ nextu'[u] = nextu[u]
                                 /\ input'[u] = input[u]
        /\ line' = line /\ data' = data
    OBVIOUS
  <2> HIDE Typed DEF AppendSpare, Go, shared, locals, Return
  <2>5. \A u \in Threads :
          /\ pc'[u] = "swing" =>
               /\ pc[u] = "swing" /\ pres'[u] = pres[u] /\ input'[u] = input[u]
               /\ data'[pres[u]] = data[pres[u]] /\ next'[pres[u]] = next[pres[u]]
          /\ pc'[u] = "give" =>
               /\ pc[u] = "give" /\ preu'[u] = preu[u] /\ next'[preu[u]] = next[preu[u]]
    BY <2>2, <2>3, <2>4
  <2>6. QED
    BY <2>5, <2>4, ContentSame
<1>7. QED
  BY <1>1, <1>2, <1>3, <1>4, <1>5, <1>6

-----------------------------------------------------------------------------
(* The two lists exist at the start and survive every step.                *)

ListsExist ==
  \E U, S \in [Nat -> Nodes], uh, ut, sh, st \in Nat : Lists(U, uh, ut, S, sh, st)

LEMMA InitIInv == Init => IInv
<1> SUFFICES ASSUME Init PROVE IInv
  OBVIOUS
<1> USE BoundAssumption DEF Init, Nodes, Null, NoValue, Values
<1>1. TypeOK
  <2>1. {1, 2} \subseteq Nodes /\ 2 \in 2..(2 + 0) /\ 0 \in 0..MaxEnqueues
    OBVIOUS
  <2>2. <<>> \in Seq(Values)
    OBVIOUS
  <2> HIDE DEF Nodes, Values
  <2>3. {uHead, uTail, sHead, sTail} \subseteq Nodes /\ {uLk, sLk} \subseteq BOOLEAN
    BY <2>1
  <2>4. /\ next \in [Nodes -> Nodes \cup {Null}]
        /\ data \in [Nodes -> Values \cup {NoValue}]
        /\ pc \in [Threads -> Control]
        /\ {pres, nexts, preu, nextu} \subseteq [Threads -> Nodes \cup {Null}]
        /\ input \in [Threads -> Values \cup {NoValue}]
        /\ out \in [Threads -> Values \cup {NoValue}]
    BY DEF Control
  <2>5. allocated \in 2..(2 + count) /\ count \in 0..MaxEnqueues
    BY <2>1
  <2>6. QED
    BY <2>2, <2>3, <2>4, <2>5 DEF TypeOK
<1>2. LocalInv /\ LockInv
  BY DEF LocalInv, LockInv, HasSpareLock, HasUsedLock
<1>3. GrowInv
  <2>1. MayGrow = {}
    BY DEF MayGrow
  <2>2. QED
    BY <2>1, FS_EmptySet DEF GrowInv
<1>4. ListsExist
  <2> DEFINE U0 == [i \in Nat |-> 1]
             S0 == [i \in Nat |-> 2]
  <2>1. U0 \in [Nat -> Nodes] /\ S0 \in [Nat -> Nodes] /\ U0[0] = 1 /\ S0[0] = 2
    OBVIOUS
  <2>2. /\ uHead = 1 /\ uTail = 1 /\ sHead = 2 /\ sTail = 2 /\ allocated = 2 /\ line = <<>>
        /\ next[1] = Null /\ next[2] = Null /\ \A n \in Nodes : next[n] = Null
        /\ \A u \in Threads : pc[u] = "idle"
    OBVIOUS
  <2>3. 0..0 = {0} /\ 0 \in Nat /\ 0 <= 0
    OBVIOUS
  <2> HIDE DEF U0, S0, Init, Nodes, Values
  <2>4. Ends(U0, 0, 0, S0, 0, 0)
    BY <2>1, <2>2, <2>3 DEF Ends
  <2>5. Apart(U0, 0, 0, S0, 0, 0)
    BY <2>1, <2>2, <2>3 DEF Apart, Holds
  <2>6. Links(U0, 0, 0, S0, 0, 0)
    BY <2>1, <2>2, <2>3 DEF Links
  <2>7. UsedInv(U0, 0, 0) /\ SpareInv(S0, 0, 0)
    BY <2>2 DEF UsedInv, SpareInv, HasUsedLock, HasSpareLock
  <2>8. Content(U0, 0, 0)
    BY <2>2 DEF Content
  <2>9. Lists(U0, 0, 0, S0, 0, 0)
    BY <2>4, <2>5, <2>6, <2>7, <2>8 DEF Lists
  <2>10. QED
    BY <2>1, <2>3, <2>9 DEF ListsExist
<1>5. QED
  BY <1>1, <1>2, <1>3, <1>4 DEF IInv, BaseInv, ListsExist

LEMMA StepBase ==
  ASSUME BaseInv, NEW t \in Threads,
         EnqueueCall(t) \/ DequeueCall(t) \/ Reserve(t) \/ Take(t) \/ Locked(t)
  PROVE  BaseInv'
BY EnqueueCallBase, DequeueCallBase, ReserveBase, TakeBase, ReadNextBase,
   CompareTailBase, GrowBase, PopSpareBase, FillBase, SwingTailBase,
   LinkBase, ReadSuccBase, ReportEmptyBase, SpinForLinkBase, MoveHeadBase,
   ClearNextBase, GiveBackBase, AppendSpareBase DEF Locked

\* A growth that keeps the queue whole finds the end of the spare list where it is.
LEMMA StepLists ==
  ASSUME BaseInv, ListsExist, NEW t \in Threads, ~torn',
         EnqueueCall(t) \/ DequeueCall(t) \/ Reserve(t) \/ Take(t) \/ Locked(t)
  PROVE  ListsExist'
<1> PICK U \in [Nat -> Nodes], S \in [Nat -> Nodes],
         uh \in Nat, ut \in Nat, sh \in Nat, st \in Nat : Lists(U, uh, ut, S, sh, st)
  BY DEF ListsExist
<1>1. (\E V, R \in [Nat -> Nodes], i, j, k, l \in Nat : Lists(V, i, j, R, k, l)') => ListsExist'
  BY DEF ListsExist
<1>2. uh + 1 \in Nat /\ ut + 1 \in Nat /\ sh + 1 \in Nat /\ st + 1 \in Nat
  OBVIOUS
<1>3. CASE EnqueueCall(t)
  <2>1. Lists(U, uh, ut, S, sh, st)'
    BY <1>3, EnqueueCallLists
  <2>2. QED
    BY <1>1, <1>2, <2>1
<1>4. CASE DequeueCall(t)
  <2>1. Lists(U, uh, ut, S, sh, st)'
    BY <1>4, DequeueCallLists
  <2>2. QED
    BY <1>1, <1>2, <2>1
<1>5. CASE Reserve(t)
  <2>1. Lists(U, uh, ut, S, sh, st)'
    BY <1>5, ReserveLists
  <2>2. QED
    BY <1>1, <1>2, <2>1
<1>6. CASE Take(t)
  <2>1. Lists(U, uh, ut, S, sh, st)'
    BY <1>6, TakeLists
  <2>2. QED
    BY <1>1, <1>2, <2>1
<1>7. CASE ReadNext(t)
  <2>1. Lists(U, uh, ut, S, sh, st)'
    BY <1>7, ReadNextLists
  <2>2. QED
    BY <1>1, <1>2, <2>1
<1>8. CASE CompareTail(t)
  <2>1. Lists(U, uh, ut, S, sh, st)'
    BY <1>8, CompareTailLists
  <2>2. QED
    BY <1>1, <1>2, <2>1
<1>9. CASE Grow(t)
  <2>1. allocated + 1 \in Nodes
    BY <1>9, RoomToGrow DEF Grow
  <2>2. PICK n0 \in Nodes : n0 = allocated + 1
    BY <2>1
  <2>3. PICK V \in [Nat -> Nodes] : V[st + 1] = n0 /\ \A i \in 0..st : V[i] = S[i]
    <3> DEFINE X == [S EXCEPT ![st + 1] = n0]
    <3>1. X \in [Nat -> Nodes] /\ X[st + 1] = n0 /\ \A i \in 0..st : X[i] = S[i]
      BY <1>2
    <3> HIDE DEF X
    <3>2. QED
      BY <3>1
  <2>4. Lists(U, uh, ut, V, sh, st + 1)'
    BY <1>9, <2>2, <2>3, GrowLists
  <2>5. QED
    BY <1>1, <1>2, <2>4
<1>10. CASE PopSpare(t)
  <2>1. Lists(U, uh, ut, S, sh + 1, st)'
    BY <1>10, PopSpareLists
  <2>2. QED
    BY <1>1, <1>2, <2>1
<1>11. CASE Fill(t)
  <2>1. Lists(U, uh, ut, S, sh, st)'
    BY <1>11, FillLists
  <2>2. QED
    BY <1>1, <1>2, <2>1
<1>12. CASE SwingTail(t)
  <2>1. pres[t] \in Nodes
    BY <1>12, Typed DEF SwingTail, LocalInv
  <2>2. PICK n0 \in Nodes : n0 = pres[t]
    BY <2>1
  <2>3. PICK V \in [Nat -> Nodes] : V[ut + 1] = n0 /\ \A i \in 0..ut : V[i] = U[i]
    <3> DEFINE X == [U EXCEPT ![ut + 1] = n0]
    <3>1. X \in [Nat -> Nodes] /\ X[ut + 1] = n0 /\ \A i \in 0..ut : X[i] = U[i]
      BY <1>2
    <3> HIDE DEF X
    <3>2. QED
      BY <3>1
  <2>4. Lists(V, uh, ut + 1, S, sh, st)'
    BY <1>12, <2>2, <2>3, SwingTailLists
  <2>5. QED
    BY <1>1, <1>2, <2>4
<1>13. CASE Link(t)
  <2>1. Lists(U, uh, ut, S, sh, st)'
    BY <1>13, LinkLists
  <2>2. QED
    BY <1>1, <1>2, <2>1
<1>14. CASE ReadSucc(t)
  <2>1. Lists(U, uh, ut, S, sh, st)'
    BY <1>14, ReadSuccLists
  <2>2. QED
    BY <1>1, <1>2, <2>1
<1>15. CASE ReportEmpty(t)
  <2>1. Lists(U, uh, ut, S, sh, st)'
    BY <1>15, ReportEmptyLists
  <2>2. QED
    BY <1>1, <1>2, <2>1
<1>16. CASE SpinForLink(t)
  <2>1. Lists(U, uh, ut, S, sh, st)'
    BY <1>16, SpinForLinkLists
  <2>2. QED
    BY <1>1, <1>2, <2>1
<1>17. CASE MoveHead(t)
  <2>1. Lists(U, uh + 1, ut, S, sh, st)'
    BY <1>17, MoveHeadLists
  <2>2. QED
    BY <1>1, <1>2, <2>1
<1>18. CASE ClearNext(t)
  <2>1. Lists(U, uh, ut, S, sh, st)'
    BY <1>18, ClearNextLists
  <2>2. QED
    BY <1>1, <1>2, <2>1
<1>19. CASE GiveBack(t)
  <2>1. preu[t] \in Nodes
    BY <1>19, Typed DEF GiveBack, LocalInv
  <2>2. PICK n0 \in Nodes : n0 = preu[t]
    BY <2>1
  <2>3. PICK V \in [Nat -> Nodes] : V[st + 1] = n0 /\ \A i \in 0..st : V[i] = S[i]
    <3> DEFINE X == [S EXCEPT ![st + 1] = n0]
    <3>1. X \in [Nat -> Nodes] /\ X[st + 1] = n0 /\ \A i \in 0..st : X[i] = S[i]
      BY <1>2
    <3> HIDE DEF X
    <3>2. QED
      BY <3>1
  <2>4. Lists(U, uh, ut, V, sh, st + 1)'
    BY <1>19, <2>2, <2>3, GiveBackLists
  <2>5. QED
    BY <1>1, <1>2, <2>4
<1>20. CASE AppendSpare(t)
  <2>1. Lists(U, uh, ut, S, sh, st)'
    BY <1>20, AppendSpareLists
  <2>2. QED
    BY <1>1, <1>2, <2>1
<1>21. QED
  BY <1>3, <1>4, <1>5, <1>6, <1>7, <1>8, <1>9, <1>10, <1>11, <1>12,
     <1>13, <1>14, <1>15, <1>16, <1>17, <1>18, <1>19, <1>20 DEF Locked

LEMMA StepIInv == IInv /\ [Next]_vars => IInv'
<1> SUFFICES ASSUME IInv, [Next]_vars PROVE IInv'
  OBVIOUS
<1>1. CASE UNCHANGED vars
  <2>1. UNCHANGED <<shared, next, data, allocated, locals, pc, out, count, line, torn>>
    BY <1>1 DEF vars
  <2>2. BaseInv'
    BY <2>1 DEF IInv, BaseInv, TypeOK, LocalInv, LockInv, HasSpareLock, HasUsedLock,
                GrowInv, MayGrow, shared, locals
  <2>3. ASSUME ListsExist PROVE ListsExist'
    <3> PICK U \in [Nat -> Nodes], S \in [Nat -> Nodes],
             uh \in Nat, ut \in Nat, sh \in Nat, st \in Nat : Lists(U, uh, ut, S, sh, st)
      BY <2>3 DEF ListsExist
    <3>1. Ends(U, uh, ut, S, sh, st)' /\ Links(U, uh, ut, S, sh, st)'
      BY <2>1 DEF Lists, Ends, Links, shared
    <3>2. Apart(U, uh, ut, S, sh, st)'
      BY <2>1 DEF Lists, Apart, Holds, locals
    <3>3. UsedInv(U, uh, ut)' /\ SpareInv(S, sh, st)'
      BY <2>1 DEF Lists, UsedInv, SpareInv, HasUsedLock, HasSpareLock, locals
    <3>4. Content(U, uh, ut)'
      BY <2>1 DEF Lists, Content, locals
    <3>5. Lists(U, uh, ut, S, sh, st)'
      BY <3>1, <3>2, <3>3, <3>4 DEF Lists
    <3>6. QED
      BY <3>5 DEF ListsExist
  <2>4. QED
    BY <2>1, <2>2, <2>3 DEF IInv, ListsExist
<1>2. CASE Next
  <2> PICK t \in Threads :
        EnqueueCall(t) \/ DequeueCall(t) \/ Reserve(t) \/ Take(t) \/ Locked(t)
    BY <1>2 DEF Next
  <2>1. BaseInv'
    BY StepBase DEF IInv
  <2>2. torn => torn'
    BY DEF Locked, EnqueueCall, DequeueCall, Reserve, Take, ReadNext, CompareTail, Grow,
           PopSpare, Fill, SwingTail, Link, ReadSucc, ReportEmpty, SpinForLink, MoveHead,
           ClearNext, GiveBack, AppendSpare
  <2>3. ~torn' => ListsExist'
    BY <2>2, StepLists DEF IInv, ListsExist
  <2>4. QED
    BY <2>1, <2>3 DEF IInv, ListsExist
<1>3. QED
  BY <1>1, <1>2

LEMMA Invariance == Spec => []IInv
<1>1. QED
  BY InitIInv, StepIInv, PTL DEF Spec
-----------------------------------------------------------------------------
(* What follows for the users of the queue.                                *)

LEMMA IInvHeldAlone == IInv => HeldAlone
<1> SUFFICES ASSUME IInv PROVE HeldAlone
  OBVIOUS
<1>1. TypeOK /\ LocalInv
  BY DEF IInv, BaseInv
<1>2. ASSUME ~torn, NEW t \in Threads
      PROVE  /\ Held(t) \cap {uHead, uTail, sHead, sTail} = {}
             /\ \A u \in Threads \ {t} :
                  /\ Held(t) \cap Held(u) = {}
                  /\ pc[u] = "move" => nextu[u] \notin Held(t)
                  /\ pc[u] = "pop" => nexts[u] \notin Held(t)
  <2> PICK U \in [Nat -> Nodes], S \in [Nat -> Nodes],
           uh \in Nat, ut \in Nat, sh \in Nat, st \in Nat : Lists(U, uh, ut, S, sh, st)
    BY <1>2 DEF IInv
  <2>1. \A u \in Threads : \A x \in Held(u) : x \in Nodes /\ Holds(u, x)
    BY <1>1 DEF Held, Holds, LocalInv
  <2>2. ASSUME NEW x \in Held(t)
        PROVE  /\ x \notin {uHead, uTail, sHead, sTail}
               /\ \A u \in Threads \ {t} : /\ x \notin Held(u)
                                           /\ pc[u] = "move" => nextu[u] # x
                                           /\ pc[u] = "pop" => nexts[u] # x
    <3>1. /\ \A i \in uh..ut : x # U[i]
          /\ \A j \in sh..st : x # S[j]
          /\ \A u \in Threads : Holds(u, x) => u = t
      BY <2>1 DEF Lists, Apart
    <3>2. /\ uh <= ut /\ sh <= st /\ U[uh] = uHead /\ U[ut] = uTail
          /\ S[sh] = sHead /\ S[st] = sTail
      BY DEF Lists, Ends
    <3>3. uh \in uh..ut /\ ut \in uh..ut /\ sh \in sh..st /\ st \in sh..st
      BY <3>2
    <3>4. \A u \in Threads : pc[u] = "move" => nextu[u] # x
      <4>1. \A u \in Threads : pc[u] = "move" => uh < ut /\ nextu[u] = U[uh + 1]
        BY DEF Lists, UsedInv
      <4>2. uh < ut => uh + 1 \in uh..ut
        OBVIOUS
      <4>3. QED
        BY <3>1, <4>1, <4>2
    <3>5. \A u \in Threads : pc[u] = "pop" => nexts[u] # x
      <4>1. \A u \in Threads : pc[u] = "pop" => sh < st /\ nexts[u] = S[sh + 1]
        BY DEF Lists, SpareInv
      <4>2. sh < st => sh + 1 \in sh..st
        OBVIOUS
      <4>3. QED
        BY <3>1, <4>1, <4>2
    <3>6. QED
      BY <2>1, <3>1, <3>2, <3>3, <3>4, <3>5
  <2>3. QED
    BY <2>2
<1>3. QED
  BY <1>1, <1>2 DEF HeldAlone

\* Until a growth tears the queue, a node in transit between the two lists belongs
\* to the one thread that took it off: neither end of a list names it, and no other
\* thread is about to move a head to it (enqueue and dequeue of MpmcQueue.h).
THEOREM NodesAreHeldAlone == Spec => []HeldAlone
<1>1. QED
  BY Invariance, IInvHeldAlone, PTL

\* Every step is one of the FIFO's, or none, or a growth that tears the queue.
LEMMA StepFifo ==
  ASSUME IInv, IInv', [Next]_vars
  PROVE  [Fifo!Next \/ torn']_(Fifo!vars)
<1> USE DEF Fifo!vars
<1>1. CASE UNCHANGED vars
  BY <1>1 DEF vars
<1>2. ASSUME NEW t \in Threads, SwingTail(t)
      PROVE  Fifo!Next
  <2>1. input[t] \in Values
    BY <1>2 DEF IInv, BaseInv, LocalInv, SwingTail
  <2>2. Fifo!Enqueue(input[t])
    BY <1>2 DEF SwingTail, Fifo!Enqueue
  <2>3. QED
    BY <2>1, <2>2 DEF Fifo!Next
<1>3. ASSUME NEW t \in Threads, MoveHead(t), ~torn
      PROVE  Fifo!Next
  <2> PICK U \in [Nat -> Nodes], S \in [Nat -> Nodes],
           uh \in Nat, ut \in Nat, sh \in Nat, st \in Nat : Lists(U, uh, ut, S, sh, st)
    BY <1>3 DEF IInv
  <2>1. pc[t] = "move" /\ uh < ut /\ nextu[t] = U[uh + 1]
    BY <1>3 DEF MoveHead, Lists, UsedInv
  <2>2. Len(line) = ut - uh /\ line \in Seq(Values)
    BY DEF Lists, Content, IInv, BaseInv, TypeOK
  <2>3. line # <<>> /\ 1 \in 1..Len(line)
    BY <2>1, <2>2
  <2>4. data[nextu[t]] = Head(line)
    <3>1. data[U[uh + 1]] = line[1]
      BY <2>3 DEF Lists, Content
    <3>2. Head(line) = line[1]
      BY <2>2, <2>3
    <3>3. QED
      BY <2>1, <3>1, <3>2
  <2>5. Fifo!Dequeue(t)
    BY <1>3, <2>3, <2>4 DEF MoveHead, Fifo!Dequeue
  <2>6. QED
    BY <2>5 DEF Fifo!Next
<1>4. ASSUME NEW t \in Threads, ReportEmpty(t), ~torn
      PROVE  Fifo!Next
  <2> PICK U \in [Nat -> Nodes], S \in [Nat -> Nodes],
           uh \in Nat, ut \in Nat, sh \in Nat, st \in Nat : Lists(U, uh, ut, S, sh, st)
    BY <1>4 DEF IInv
  <2>1. uh <= ut /\ U[uh] = U[ut]
    BY <1>4 DEF ReportEmpty, FailsWhenEmpty, Lists, Ends
  <2>2. uh = ut
    BY <2>1 DEF Lists, Apart
  <2>3. line \in Seq(Values) /\ Len(line) = 0
    BY <2>2 DEF Lists, Content, IInv, BaseInv, TypeOK
  <2>4. line = <<>>
    BY <2>3
  <2>5. Fifo!DequeueFails(t)
    BY <1>4, <2>4 DEF ReportEmpty, Fifo!DequeueFails
  <2>6. QED
    BY <2>5 DEF Fifo!Next
<1>5. ASSUME NEW t \in Threads,
             \/ EnqueueCall(t) \/ DequeueCall(t) \/ Reserve(t) \/ Take(t) \/ ReadNext(t)
             \/ CompareTail(t) \/ Grow(t) \/ PopSpare(t) \/ Fill(t) \/ Link(t) \/ ReadSucc(t)
             \/ SpinForLink(t) \/ ClearNext(t) \/ GiveBack(t) \/ AppendSpare(t)
      PROVE  UNCHANGED <<line, out>>
  BY <1>5 DEF EnqueueCall, DequeueCall, Reserve, Take, ReadNext, CompareTail, Grow, PopSpare,
              Fill, Link, ReadSucc, SpinForLink, ClearNext, GiveBack, AppendSpare
<1>6. ASSUME NEW t \in Threads, MoveHead(t) \/ ReportEmpty(t), torn
      PROVE  torn'
  BY <1>6 DEF MoveHead, ReportEmpty
<1>7. QED
  BY <1>1, <1>2, <1>3, <1>4, <1>5, <1>6 DEF Next, Locked

\* Until then the queue is a FIFO for any number of producers and consumers: the
\* exchange of uTail_ enqueues, the move of uHead_ takes the oldest value and no
\* other out, and dequeue() answers false only of an empty queue.
THEOREM ImplementsFifoQueue == Spec => FifoUnlessTorn
<1>1. Init => Fifo!Init
  BY DEF Init, Fifo!Init
<1>2. QED
  BY <1>1, Invariance, StepFifo, PTL DEF Spec, FifoUnlessTorn

=============================================================================
