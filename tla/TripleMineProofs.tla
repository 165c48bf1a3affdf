--------------------------- MODULE TripleMineProofs ---------------------------
(***************************************************************************)
(* Proof that the mine queue of triple.rs stays sound (MineSound) for      *)
(* every number of nodes, ids and protocol rounds, when generate() draws   *)
(* fresh ids and every announced presignature comes from its owner's own   *)
(* take_mine_twice(): the queue never holds an id twice, and holds only    *)
(* completed triples the node itself initiated.                            *)
(***************************************************************************)
EXTENDS TripleManagerProofs

(* A sequence none of whose elements repeats.                             *)
NoDup(s) == \A a, b \in DOMAIN s : a # b => s[a] # s[b]

-----------------------------------------------------------------------------
(* Lemmas about the queue operations of poke() (push_back of the finished *)
(* mine ids) and of take_mine_twice() (two pop_front).                    *)

(* Appending ids none of which is queued yet keeps the queue free of      *)
(* duplicates, and queues exactly the old ids and the new ones.           *)
LEMMA ConcatNoDup ==
  ASSUME NEW s \in Seq(Id), NEW t \in Seq(Id), NoDup(s), NoDup(t),
         ToSet(s) \cap ToSet(t) = {}
  PROVE  /\ s \o t \in Seq(Id)
         /\ NoDup(s \o t)
         /\ ToSet(s \o t) = ToSet(s) \cup ToSet(t)
<1>1. /\ s \o t \in Seq(Id)
      /\ Len(s \o t) = Len(s) + Len(t)
      /\ \A i \in 1 .. Len(s) + Len(t) :
            (s \o t)[i] = IF i <= Len(s) THEN s[i] ELSE t[i - Len(s)]
  BY ConcatProperties
<1>2. DOMAIN (s \o t) = 1 .. Len(s) + Len(t)
  BY <1>1
<1>3. /\ DOMAIN s = 1 .. Len(s) /\ Len(s) \in Nat
      /\ DOMAIN t = 1 .. Len(t) /\ Len(t) \in Nat
  OBVIOUS
<1>4. NoDup(s \o t)
  <2> SUFFICES ASSUME NEW a \in DOMAIN (s \o t), NEW b \in DOMAIN (s \o t), a # b
               PROVE  (s \o t)[a] # (s \o t)[b]
    BY DEF NoDup
  <2>1. CASE a <= Len(s) /\ b <= Len(s)
    BY <1>1, <1>2, <1>3, <2>1 DEF NoDup
  <2>2. CASE a > Len(s) /\ b > Len(s)
    BY <1>1, <1>2, <1>3, <2>2 DEF NoDup
  <2>3. ASSUME NEW x \in DOMAIN (s \o t), NEW y \in DOMAIN (s \o t), x <= Len(s), y > Len(s)
        PROVE  (s \o t)[x] # (s \o t)[y]
    <3>1. (s \o t)[x] = s[x] /\ x \in DOMAIN s
      BY <1>1, <1>2, <1>3, <2>3
    <3>2. (s \o t)[y] = t[y - Len(s)] /\ y - Len(s) \in DOMAIN t
      BY <1>1, <1>2, <1>3, <2>3
    <3>3. s[x] \in ToSet(s) /\ t[y - Len(s)] \in ToSet(t)
      BY <3>1, <3>2 DEF ToSet
    <3>. QED  BY <3>1, <3>2, <3>3
  <2>4. CASE a <= Len(s) /\ b > Len(s)
    BY <2>3, <2>4
  <2>5. CASE a > Len(s) /\ b <= Len(s)
    BY <2>3, <2>5
  <2>. QED  BY <1>2, <1>3, <2>1, <2>2, <2>4, <2>5
<1>5. ToSet(s \o t) = ToSet(s) \cup ToSet(t)
  <2>1. ToSet(s \o t) \subseteq ToSet(s) \cup ToSet(t)
    BY <1>1, <1>2, <1>3 DEF ToSet
  <2>2. ToSet(s) \subseteq ToSet(s \o t)
    BY <1>1, <1>2, <1>3 DEF ToSet
  <2>3. ToSet(t) \subseteq ToSet(s \o t)
    <3> SUFFICES ASSUME NEW j \in DOMAIN t PROVE t[j] \in ToSet(s \o t)
      BY DEF ToSet
    <3>1. j + Len(s) \in DOMAIN (s \o t) /\ (s \o t)[j + Len(s)] = t[j]
      BY <1>1, <1>2, <1>3
    <3>. QED  BY <3>1 DEF ToSet
  <2>. QED  BY <2>1, <2>2, <2>3
<1>. QED  BY <1>1, <1>4, <1>5

(* What is left after popping the first two ids of a queue without        *)
(* duplicates has no duplicates and holds neither popped id.              *)
LEMMA TailNoDup ==
  ASSUME NEW s \in Seq(Id), Len(s) >= 2, NoDup(s)
  PROVE  LET u == SubSeq(s, 3, Len(s))
         IN  /\ u \in Seq(Id)
             /\ NoDup(u)
             /\ ToSet(u) \subseteq ToSet(s) \ {s[1], s[2]}
<1> DEFINE u == SubSeq(s, 3, Len(s))
<1>1. /\ u \in Seq(Id)
      /\ Len(u) = Len(s) - 2
      /\ \A i \in 1 .. Len(s) - 2 : u[i] = s[i + 2]
  <2>0. Len(s) \in Nat /\ DOMAIN s = 1 .. Len(s)
    OBVIOUS
  <2>1. \A i \in 3 .. Len(s) : s[i] \in Id
    BY <2>0
  <2>2. /\ u \in Seq(Id)
        /\ Len(u) = IF 3 <= Len(s) THEN Len(s) - 3 + 1 ELSE 0
        /\ \A i \in 1 .. Len(s) - 3 + 1 : u[i] = s[3 + i - 1]
    BY <2>1, SubSeqProperties
  <2>. QED  BY <2>0, <2>2
<1>2. DOMAIN u = 1 .. Len(s) - 2 /\ DOMAIN s = 1 .. Len(s)
  BY <1>1
<1>3. NoDup(u)
  BY <1>1, <1>2 DEF NoDup
<1>4. ToSet(u) \subseteq ToSet(s) \ {s[1], s[2]}
  <2> SUFFICES ASSUME NEW i \in 1 .. Len(s) - 2 PROVE u[i] \in ToSet(s) \ {s[1], s[2]}
    BY <1>2 DEF ToSet
  <2>1. u[i] = s[i + 2] /\ i + 2 \in DOMAIN s /\ 1 \in DOMAIN s /\ 2 \in DOMAIN s
    BY <1>1, <1>2
  <2>. QED  BY <2>1 DEF NoDup, ToSet
<1>. QED  BY <1>1, <1>3, <1>4

(* The order in which poke() pushes its finished ids lists each of them   *)
(* once, and only them.                                                   *)
LEMMA OrderNoDup ==
  ASSUME NEW S \in SUBSET Id, NEW o \in SetToSeqs(S)
  PROVE  /\ o \in Seq(Id)
         /\ NoDup(o)
         /\ ToSet(o) \subseteq S
<1>1. o \in Seq(Id)
  BY OrderType
<1>2. o \in [1 .. Cardinality(S) -> S]
      /\ \A a, b \in 1 .. Cardinality(S) : a # b => o[a] # o[b]
  BY DEF SetToSeqs
<1>. QED  BY <1>1, <1>2 DEF NoDup, ToSet

-----------------------------------------------------------------------------
(* A generator keeps its mine flag while poke() advances it.              *)
LEMMA AdvanceMine ==
  ASSUME NEW p, NEW g \in Gen
  PROVE  Advance(p, g).mine = g.mine
BY DEF Advance, Gen

(* Delivering a message keeps the mine flag of an existing generator, and *)
(* a generator get_or_generate() creates for a new id has mine = false.   *)
LEMMA HandleMine ==
  ASSUME TypeOK, NEW p \in Node, NEW m \in msgs, HandleMessage(p, m)
  PROVE  /\ generators'[p][m.id].mine =
               IF generators[p][m.id] = Absent THEN FALSE ELSE generators[p][m.id].mine
         /\ \A q \in Node, i \in Id : <<q, i>> # <<p, m.id>> =>
               generators'[q][i] = generators[q][i]
<1>1. m \in Message
  BY DEF TypeOK
<1>2. GetOrGenerate(p, m.id) \in Gen
  <2>1. NewGenerator(FALSE) \in Gen
    BY RAssumption DEF NewGenerator, Gen, Round
  <2>. QED  BY <1>1, <2>1 DEF GetOrGenerate, TypeOK, Message
<1>3. GetOrGenerate(p, m.id).mine =
        IF generators[p][m.id] = Absent THEN FALSE ELSE generators[p][m.id].mine
  BY DEF GetOrGenerate, NewGenerator
<1>. QED  BY <1>1, <1>2, <1>3 DEF HandleMessage, TypeOK, Message, Gen

(* Every handler keeps the mine queue sound, together with the facts that *)
(* make it inductive, when ids are fresh and no peer forges an announce.  *)
LEMMA MInvStep ==
  ASSUME FreshIds, Forged = {}
  PROVE  MInv /\ [Next]_vars => MInv'
<1> SUFFICES ASSUME MInv, [Next]_vars PROVE MInv'
  OBVIOUS
<1>0. /\ IInv /\ IInv' /\ TypeOK /\ TypeOK'
      /\ MineSound /\ DisjointIssued /\ MineIssued /\ OwnRequests
  BY IInvStep, TypeStep DEF MInv, IInv
<1>1. ASSUME NEW r \in Forged, AnnounceForged(r) PROVE MInv'
  BY <1>1
<1>2. ASSUME NEW p \in Node, NEW i \in Id, Generate(p, i) PROVE MInv'
  <2>1. /\ UNCHANGED <<triples, mine, reqs>>
        /\ issued' = [issued EXCEPT ![p] = @ \cup {i}]
        /\ \A q \in Node : i \notin issued[q]
    BY <1>2 DEF Generate
  <2>2. \A q \in Node : issued'[q] = IF q = p THEN issued[q] \cup {i} ELSE issued[q]
    BY <1>0, <2>1 DEF TypeOK
  <2>3. MineSound'
    BY <1>0, <2>1, <2>2 DEF MineSound
  <2>4. DisjointIssued'
    BY <1>0, <2>1, <2>2 DEF DisjointIssued
  <2>5. MineIssued'
    <3>1. \A q \in Node : Running(q)' = IF q = p THEN Running(q) \cup {i} ELSE Running(q)
      BY <1>0, <1>2, RunningGenerate
    <3>2. generators'[p][i].mine
      BY <1>0, <1>2 DEF Generate, NewGenerator, TypeOK
    <3>3. \A q \in Node, j \in Id : <<q, j>> # <<p, i>> => generators'[q][j] = generators[q][j]
      <4>1. generators' = [generators EXCEPT ![p][i] = NewGenerator(TRUE)]
        BY <1>2 DEF Generate
      <4>. QED  BY <1>0, <4>1 DEF TypeOK
    <3> SUFFICES ASSUME NEW q \in Node, NEW j \in Running(q)', generators'[q][j].mine
                 PROVE  j \in issued'[q]
      BY DEF MineIssued
    <3>4. CASE q = p /\ j = i
      BY <2>2, <3>4
    <3>5. CASE ~(q = p /\ j = i)
      <4>0. j \in Id
        BY DEF Running
      <4>1. j \in Running(q) /\ generators'[q][j] = generators[q][j]
        BY <3>1, <3>3, <3>5, <4>0
      <4>2. j \in issued[q]
        BY <1>0, <4>1 DEF MineIssued
      <4>. QED  BY <2>2, <4>2
    <3>. QED  BY <3>4, <3>5
  <2>6. OwnRequests'
    BY <1>0, <2>1, <2>2 DEF OwnRequests, TypeOK, Request
  <2>. QED  BY <1>0, <2>3, <2>4, <2>5, <2>6 DEF MInv
<1>3. ASSUME NEW p \in Node, NEW m \in msgs, HandleMessage(p, m) PROVE MInv'
  <2>1. UNCHANGED <<triples, mine, reqs, issued>>
    BY <1>3 DEF HandleMessage
  <2>2. MineIssued'
    <3>1. \A q \in Node : Running(q)' = IF q = p THEN Running(q) \cup {m.id} ELSE Running(q)
      BY <1>0, <1>3, RunningHandle
    <3>2. /\ generators'[p][m.id].mine =
               IF generators[p][m.id] = Absent THEN FALSE ELSE generators[p][m.id].mine
          /\ \A q \in Node, i \in Id : <<q, i>> # <<p, m.id>> =>
               generators'[q][i] = generators[q][i]
      BY <1>0, <1>3, HandleMine
    <3>. QED  BY <1>0, <2>1, <3>1, <3>2 DEF MineIssued, Running
  <2>. QED  BY <1>0, <2>1, <2>2 DEF MInv, MineSound, DisjointIssued, OwnRequests
<1>4. ASSUME NEW p \in Node, Poke(p) PROVE MInv'
  <2>1. PICK failing \in SUBSET Running(p) :
            LET live == Running(p) \ failing
                done == {i \in live : Reach(p, generators[p][i]) = R}
            IN  /\ generators' = [generators EXCEPT ![p] = Retained(p, live, done)]
                /\ triples' = [triples EXCEPT ![p] = Stored(p, done)]
                /\ \E order \in SetToSeqs(MineDone(p, done)) :
                      mine' = [mine EXCEPT ![p] = @ \o order]
                /\ UNCHANGED <<reqs, issued>>
    BY <1>4 DEF Poke
  <2> DEFINE live == Running(p) \ failing
             done == {i \in live : Reach(p, generators[p][i]) = R}
  <2>2. PICK order \in SetToSeqs(MineDone(p, done)) :
            mine' = [mine EXCEPT ![p] = @ \o order]
    BY <2>1
  <2>3. /\ \A q \in Node \ {p} : mine'[q] = mine[q] /\ triples'[q] = triples[q]
        /\ triples'[p] = triples[p] \cup done
        /\ UNCHANGED <<reqs, issued>>
    BY <1>0, <2>1, <2>2 DEF Stored, TypeOK
  <2>4. MineDone(p, done) \subseteq done \cap issued[p]
    BY <1>0 DEF MineDone, MineIssued
  <2>5. /\ order \in Seq(Id) /\ NoDup(order)
        /\ ToSet(order) \subseteq done \cap issued[p]
    <3>1. MineDone(p, done) \in SUBSET Id
      BY DEF MineDone, Running
    <3>. QED  BY <2>4, <3>1, OrderNoDup
  <2>6. /\ mine[p] \in Seq(Id) /\ NoDup(mine[p])
        /\ ToSet(mine[p]) \subseteq triples[p] \cap issued[p]
    BY <1>0 DEF MineSound, NoDup, TypeOK
  <2>7. ToSet(mine[p]) \cap ToSet(order) = {}
    BY <1>0, <2>5, <2>6 DEF IInv, AtMostOnce
  <2>8. /\ mine'[p] = mine[p] \o order
        /\ NoDup(mine'[p])
        /\ ToSet(mine'[p]) = ToSet(mine[p]) \cup ToSet(order)
    BY <1>0, <2>2, <2>5, <2>6, <2>7, ConcatNoDup DEF TypeOK
  <2>9. MineSound'
    <3> SUFFICES ASSUME NEW q \in Node
                 PROVE  /\ NoDup(mine'[q])
                        /\ ToSet(mine'[q]) \subseteq triples'[q] \cap issued'[q]
      BY DEF MineSound, NoDup
    <3>1. CASE q = p
      BY <2>3, <2>5, <2>6, <2>8, <3>1
    <3>2. CASE q # p
      <4>1. mine'[q] = mine[q] /\ triples'[q] = triples[q] /\ issued'[q] = issued[q]
        BY <2>3, <3>2
      <4>. QED  BY <1>0, <4>1 DEF MineSound, NoDup
    <3>. QED  BY <3>1, <3>2
  <2>10. MineIssued'
    <3>1. \A i \in Id : Retained(p, live, done)[i] # Absent <=> i \in live \ done
      BY <1>0, RetainedType
    <3>2. \A i \in live \ done :
            generators'[p][i].mine = generators[p][i].mine
      <4> SUFFICES ASSUME NEW i \in live \ done
                   PROVE  generators'[p][i].mine = generators[p][i].mine
        OBVIOUS
      <4>1. generators[p][i] \in Gen
        BY <1>0 DEF TypeOK, Running
      <4>2. generators'[p][i] = Advance(p, generators[p][i])
        BY <1>0, <2>1 DEF Retained, TypeOK, Running
      <4>. QED  BY <4>1, <4>2, AdvanceMine
    <3>3. Running(p)' = live \ done /\ \A q \in Node \ {p} : generators'[q] = generators[q]
      BY <1>0, <2>1, <3>1 DEF Running, TypeOK
    <3>. QED  BY <1>0, <2>3, <3>2, <3>3 DEF MineIssued, Running
  <2>. QED  BY <1>0, <2>3, <2>9, <2>10 DEF MInv, DisjointIssued, OwnRequests
<1>5. ASSUME NEW p \in Node, TakeMineTwice(p) PROVE MInv'
  <2> DEFINE id0 == mine[p][1]
             id1 == mine[p][2]
             tail == SubSeq(mine[p], 3, Len(mine[p]))
  <2>1. /\ Len(mine[p]) >= 2
        /\ mine' = [mine EXCEPT ![p] = tail]
        /\ UNCHANGED <<generators, issued>>
    BY <1>5 DEF TakeMineTwice
  <2>2. /\ mine[p] \in Seq(Id) /\ NoDup(mine[p])
        /\ ToSet(mine[p]) \subseteq triples[p] \cap issued[p]
    BY <1>0 DEF MineSound, NoDup, TypeOK
  <2>3. /\ tail \in Seq(Id) /\ NoDup(tail)
        /\ ToSet(tail) \subseteq ToSet(mine[p]) \ {id0, id1}
    BY <2>1, <2>2, TailNoDup
  <2>4. {id0, id1} \subseteq issued[p]
    BY <2>1, <2>2 DEF ToSet
  <2>5. \/ /\ triples' = [triples EXCEPT ![p] = @ \ {id0, id1}]
           /\ reqs' = reqs \cup {[owner |-> p, t0 |-> id0, t1 |-> id1]}
        \/ UNCHANGED <<triples, reqs>>
    BY <1>5 DEF TakeMineTwice
  <2>6. \A q \in Node : triples[q] \ (IF q = p THEN {id0, id1} ELSE {}) \subseteq triples'[q]
    BY <1>0, <2>5 DEF TypeOK
  <2>7. MineSound'
    BY <1>0, <2>1, <2>2, <2>3, <2>6 DEF MineSound, NoDup, TypeOK
  <2>8. OwnRequests'
    BY <1>0, <2>1, <2>4, <2>5 DEF OwnRequests
  <2>9. MineIssued' /\ DisjointIssued'
    BY <1>0, <2>1 DEF MineIssued, DisjointIssued, Running
  <2>. QED  BY <1>0, <2>7, <2>8, <2>9 DEF MInv
<1>6. ASSUME NEW q \in Node, NEW r \in reqs, JoinPresignature(q, r) PROVE MInv'
  <2>1. /\ triples' = [triples EXCEPT ![q] = @ \ {r.t0, r.t1}]
        /\ r.owner # q
        /\ UNCHANGED <<generators, mine, reqs, issued>>
    BY <1>6 DEF JoinPresignature, Taken
  <2>2. r.owner \in Node /\ {r.t0, r.t1} \subseteq issued[r.owner]
    BY <1>0 DEF OwnRequests, TypeOK, Request
  <2>3. issued[q] \cap {r.t0, r.t1} = {}
    BY <1>0, <2>1, <2>2 DEF DisjointIssued
  <2>4. MineSound'
    BY <1>0, <2>1, <2>3 DEF MineSound, TypeOK
  <2>. QED  BY <1>0, <2>1, <2>4 DEF MInv, MineIssued, DisjointIssued, OwnRequests, Running
<1>7. CASE UNCHANGED vars
  BY <1>0, <1>7 DEF vars, MInv, MineSound, MineIssued, DisjointIssued, OwnRequests, Running
<1>. QED  BY <1>1, <1>2, <1>3, <1>4, <1>5, <1>6, <1>7 DEF Next

(* Initially no node has drawn, queued or runs anything.                  *)
LEMMA MInvInit == Init => MInv
<1> SUFFICES ASSUME Init PROVE MInv
  OBVIOUS
<1>1. IInv
  BY IInvInit
<1>2. \A p \in Node : mine[p] = <<>> /\ Running(p) = {}
  BY DEF Init, Running
<1>3. MineSound
  BY <1>2 DEF MineSound, ToSet
<1>. QED  BY <1>1, <1>2, <1>3 DEF Init, MInv, DisjointIssued, MineIssued, OwnRequests

(* When generate() never reuses an id and every announced presignature   *)
(* comes from its owner's take_mine_twice(), the mine queue of every node *)
(* never holds an id twice and holds only completed triples the node      *)
(* initiated: take_mine_twice's two remove().unwrap() never panic.        *)
THEOREM FreshIdsMineSound ==
  ASSUME FreshIds, Forged = {}
  PROVE  Spec => []MineSound
<1>1. Init => MInv
  BY MInvInit
<1>2. MInv /\ [Next]_vars => MInv'
  BY MInvStep
<1>3. MInv => MineSound
  BY DEF MInv
<1>. QED  BY <1>1, <1>2, <1>3, PTL DEF Spec

=============================================================================
