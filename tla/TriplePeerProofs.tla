--------------------------- MODULE TriplePeerProofs ---------------------------
(***************************************************************************)
(* Proof that a presignature never waits on a triple its peer has lost     *)
(* (PeerReady) for every number of nodes, ids, protocol rounds and         *)
(* failures, when generate() draws fresh ids and no peer forges an         *)
(* announce: when a node announces a presignature over two of its triples, *)
(* every peer that has not joined it yet still holds both, completed or    *)
(* generating, unless the protocol of one of them failed.                  *)
(*                                                                         *)
(* The argument: poke() stores a triple only when the protocol has every   *)
(* peer's last-round message (ReachReady below), so every peer has sent    *)
(* for it; a node that has sent for an id keeps it until it uses it or its *)
(* protocol fails, since a generator leaves the map only into              *)
(* self.triples or on an Err; and a peer uses such an id only by joining   *)
(* that very presignature.                                                 *)
(* GeneratorExit, an action property with no assumption, is proved here   *)
(* as well.                                                                *)
(***************************************************************************)
EXTENDS TripleOnceProofs, WellFoundedInduction

-----------------------------------------------------------------------------
(* Lemmas about the operators of the poke loop.                           *)

(* Every non-empty set of naturals has a least element.                   *)
LEMMA LeastNat ==
  ASSUME NEW T \in SUBSET Nat, T # {}
  PROVE  \E x \in T : \A y \in T : x <= y
<1>1. PICK x \in T : \A y \in T : ~(<<y, x>> \in OpToRel(<, Nat))
  BY NatLessThanWellFounded, WFMin
<1>2. \A y \in T : ~(y < x)
  BY <1>1 DEF OpToRel
<1>. QED  BY <1>2

(* A poke loop runs a protocol to its end (Action::Return) only when it   *)
(* holds every peer's message of the last round: the loop over rounds     *)
(* stops at the first round that is not ready, so Halt is never empty and *)
(* Reach never takes its fallback value.                                  *)
LEMMA ReachReady ==
  ASSUME NEW p, NEW g \in Gen, Reach(p, g) = R
  PROVE  Ready(p, g, R - 1)
<1> DEFINE T == {k \in g.round..R : k = R \/ ~Ready(p, g, k)}
<1>1. g.round \in 0..(R - 1) /\ R \in Nat \ {0}
  BY RAssumption DEF Gen, Round
<1>2. T \in SUBSET Nat /\ R \in T
  BY <1>1
<1>3. PICK k0 \in T : \A y \in T : k0 <= y
  BY <1>2, LeastNat
<1>4. \A j \in g.round..(k0 - 1) : Ready(p, g, j)
  <2> SUFFICES ASSUME NEW j \in g.round..(k0 - 1) PROVE Ready(p, g, j)
    OBVIOUS
  <2>1. j \in g.round..R /\ j # R /\ ~(k0 <= j)
    BY <1>1, <1>3
  <2>. QED  BY <1>3, <2>1
<1>5. k0 \in Halt(p, g)
  BY <1>3, <1>4 DEF Halt
<1>6. Reach(p, g) \in Halt(p, g)
  BY <1>5 DEF Reach
<1>7. \A j \in g.round..(R - 1) : Ready(p, g, j)
  BY <1>6 DEF Halt
<1>. QED  BY <1>1, <1>7

(* poke() advances a protocol without touching what it has ingested.      *)
LEMMA AdvanceRecv ==
  ASSUME NEW p, NEW g \in Gen
  PROVE  Advance(p, g).recv = g.recv
BY DEF Advance, Gen

(* Delivering m adds at most the pair of m's sender and round to what the *)
(* generator for m.id has ingested; a new generator starts from nothing.  *)
LEMMA HandleRecv ==
  ASSUME TypeOK, NEW p \in Node, NEW m \in msgs, HandleMessage(p, m)
  PROVE  generators'[p][m.id].recv \subseteq
             (IF generators[p][m.id] = Absent THEN {} ELSE generators[p][m.id].recv)
             \cup {<<m.from, m.round>>}
<1>1. m \in Message
  BY DEF TypeOK
<1>2. GetOrGenerate(p, m.id) \in Gen
  <2>1. NewGenerator(FALSE) \in Gen
    BY RAssumption DEF NewGenerator, Gen, Round
  <2>. QED  BY <1>1, <2>1 DEF GetOrGenerate, TypeOK, Message
<1>3. GetOrGenerate(p, m.id).recv =
        IF generators[p][m.id] = Absent THEN {} ELSE generators[p][m.id].recv
  BY DEF GetOrGenerate, NewGenerator
<1>. QED  BY <1>1, <1>2, <1>3 DEF HandleMessage, TypeOK, Message, Gen

(* A node's broadcasts name only ids it runs, and itself as the sender.   *)
LEMMA OutboxFrom ==
  ASSUME NEW p, NEW live, NEW m \in Outbox(p, live)
  PROVE  m.from = p /\ m.id \in live
BY DEF Outbox

-----------------------------------------------------------------------------
(* What a generator has ingested was sent to its node (RecvSent), in      *)
(* every behaviour: no assumption on ids, failures or forged announces.   *)
LEMMA RecvSentStep == TypeOK /\ RecvSent /\ [Next]_vars => RecvSent'
<1> SUFFICES ASSUME TypeOK, RecvSent, [Next]_vars PROVE RecvSent'
  OBVIOUS
<1>1. ASSUME NEW r \in Forged, AnnounceForged(r) PROVE RecvSent'
  BY <1>1 DEF AnnounceForged, RecvSent, Running
<1>2. ASSUME NEW p \in Node, NEW i \in Id, Generate(p, i) PROVE RecvSent'
  <2>1. \A q \in Node : Running(q)' = IF q = p THEN Running(q) \cup {i} ELSE Running(q)
    BY <1>2, RunningGenerate
  <2>2. /\ \A q \in Node, j \in Id : <<q, j>> # <<p, i>> => generators'[q][j] = generators[q][j]
        /\ generators'[p][i] = NewGenerator(TRUE)
        /\ msgs' = msgs
    BY <1>2 DEF Generate, TypeOK
  <2> SUFFICES ASSUME NEW q \in Node, NEW j \in Running(q)', NEW e \in generators'[q][j].recv
               PROVE  [id |-> j, from |-> e[1], to |-> q, round |-> e[2]] \in msgs
    BY <2>2 DEF RecvSent
  <2>3. CASE q = p /\ j = i
    BY <2>2, <2>3 DEF NewGenerator
  <2>4. CASE ~(q = p /\ j = i)
    <3>1. j \in Id
      BY DEF Running
    <3>2. j \in Running(q) /\ generators'[q][j] = generators[q][j]
      BY <2>1, <2>2, <2>4, <3>1
    <3>. QED  BY <3>2 DEF RecvSent
  <2>. QED  BY <2>3, <2>4
<1>3. ASSUME NEW p \in Node, NEW m \in msgs, HandleMessage(p, m) PROVE RecvSent'
  <2>1. m \in Message /\ m.id \in Id /\ m.to = p /\ msgs' = msgs
    BY <1>3 DEF TypeOK, Message, HandleMessage
  <2>2. \A q \in Node : Running(q)' = IF q = p THEN Running(q) \cup {m.id} ELSE Running(q)
    BY <1>3, RunningHandle
  <2>3. \A q \in Node, i \in Id : <<q, i>> # <<p, m.id>> => generators'[q][i] = generators[q][i]
    BY <1>3, HandleMine
  <2>4. generators'[p][m.id].recv \subseteq
          (IF generators[p][m.id] = Absent THEN {} ELSE generators[p][m.id].recv)
          \cup {<<m.from, m.round>>}
    BY <1>3, HandleRecv
  <2> SUFFICES ASSUME NEW q \in Node, NEW j \in Running(q)', NEW e \in generators'[q][j].recv
               PROVE  [id |-> j, from |-> e[1], to |-> q, round |-> e[2]] \in msgs
    BY <2>1 DEF RecvSent
  <2>5. CASE q = p /\ j = m.id
    <3>1. CASE e = <<m.from, m.round>>
      <4>1. [id |-> j, from |-> e[1], to |-> q, round |-> e[2]] = m
        BY <2>1, <2>5, <3>1 DEF Message
      <4>. QED  BY <4>1
    <3>2. CASE e # <<m.from, m.round>>
      <4>1. generators[p][m.id] # Absent /\ e \in generators[p][m.id].recv
        BY <2>4, <2>5, <3>2
      <4>2. m.id \in Running(p)
        BY <2>1, <4>1 DEF Running
      <4>. QED  BY <2>5, <4>1, <4>2 DEF RecvSent
    <3>. QED  BY <3>1, <3>2
  <2>6. CASE ~(q = p /\ j = m.id)
    <3>1. j \in Id
      BY DEF Running
    <3>2. j \in Running(q) /\ generators'[q][j] = generators[q][j]
      BY <2>2, <2>3, <2>6, <3>1
    <3>. QED  BY <3>2 DEF RecvSent
  <2>. QED  BY <2>5, <2>6
<1>4. ASSUME NEW p \in Node, Poke(p) PROVE RecvSent'
  <2>1. PICK failing \in SUBSET Running(p) :
            LET live == Running(p) \ failing
                done == {i \in live : Reach(p, generators[p][i]) = R}
            IN  /\ generators' = [generators EXCEPT ![p] = Retained(p, live, done)]
                /\ msgs' = Sent(p, live, failing)
    BY <1>4 DEF Poke
  <2> DEFINE live == Running(p) \ failing
             done == {i \in live : Reach(p, generators[p][i]) = R}
  <2>2. msgs \subseteq msgs'
    BY <2>1 DEF Sent
  <2>3. \A i \in Id : Retained(p, live, done)[i] # Absent <=> i \in live \ done
    BY RetainedType
  <2>4. /\ Running(p)' = live \ done
        /\ \A i \in live \ done : generators'[p][i] = Advance(p, generators[p][i])
        /\ \A q \in Node \ {p} : generators'[q] = generators[q] /\ Running(q)' = Running(q)
    BY <2>1, <2>3 DEF Retained, Running, TypeOK
  <2> SUFFICES ASSUME NEW q \in Node, NEW j \in Running(q)', NEW e \in generators'[q][j].recv
               PROVE  [id |-> j, from |-> e[1], to |-> q, round |-> e[2]] \in msgs
    BY <2>2 DEF RecvSent
  <2>5. CASE q = p
    <3>1. j \in Running(p) /\ generators[p][j] \in Gen
      BY <2>4, <2>5 DEF TypeOK, Running
    <3>2. e \in generators[p][j].recv
      BY <2>4, <2>5, <3>1, AdvanceRecv
    <3>. QED  BY <2>5, <3>1, <3>2 DEF RecvSent
  <2>6. CASE q # p
    BY <2>4, <2>6 DEF RecvSent
  <2>. QED  BY <2>5, <2>6
<1>5. ASSUME NEW p \in Node, TakeMineTwice(p) PROVE RecvSent'
  BY <1>5 DEF TakeMineTwice, RecvSent, Running
<1>6. ASSUME NEW p \in Node, NEW r \in reqs, JoinPresignature(p, r) PROVE RecvSent'
  BY <1>6 DEF JoinPresignature, RecvSent, Running
<1>7. CASE UNCHANGED vars
  BY <1>7 DEF vars, RecvSent, Running
<1>. QED  BY <1>1, <1>2, <1>3, <1>4, <1>5, <1>6, <1>7 DEF Next

-----------------------------------------------------------------------------
(* The step GeneratorExit constrains.                                     *)
ExitStep ==
    \A p \in Node : \A i \in Running(p) \ Running(p)' :
        \/ i \in failed'
        \/ /\ i \in triples'[p]
           /\ generators[p][i].mine => i \in ToSet(mine'[p])

(* Only poke() drops generators, each one failed or stored.               *)
LEMMA ExitStepHolds == TypeOK /\ [Next]_vars => [ExitStep]_vars
<1> SUFFICES ASSUME TypeOK, [Next]_vars PROVE ExitStep \/ UNCHANGED vars
  OBVIOUS
<1>1. ASSUME NEW p \in Node, Poke(p) PROVE ExitStep
  <2>1. PICK failing \in SUBSET Running(p) :
            LET live == Running(p) \ failing
                done == {i \in live : Reach(p, generators[p][i]) = R}
            IN  /\ generators' = [generators EXCEPT ![p] = Retained(p, live, done)]
                /\ triples' = [triples EXCEPT ![p] = Stored(p, done)]
                /\ \E order \in SetToSeqs(MineDone(p, done)) :
                      mine' = [mine EXCEPT ![p] = @ \o order]
                /\ failed' = failed \cup failing
    BY <1>1 DEF Poke
  <2> DEFINE live == Running(p) \ failing
             done == {i \in live : Reach(p, generators[p][i]) = R}
  <2>2. PICK order \in SetToSeqs(MineDone(p, done)) : mine' = [mine EXCEPT ![p] = @ \o order]
    BY <2>1
  <2>3. /\ Running(p)' = live \ done
        /\ \A q \in Node \ {p} : Running(q)' = Running(q)
    <3>1. \A i \in Id : Retained(p, live, done)[i] # Absent <=> i \in live \ done
      BY RetainedType
    <3>. QED  BY <2>1, <3>1 DEF Retained, Running, TypeOK
  <2>4. triples'[p] = triples[p] \cup done
    BY <2>1 DEF Stored, TypeOK
  <2>5. MineDone(p, done) \subseteq ToSet(mine'[p])
    <3>1. MineDone(p, done) \in SUBSET Id
      BY DEF MineDone, Running
    <3>2. order \in Seq(Id) /\ ToSet(order) = MineDone(p, done)
      BY <3>1, OrderNoDup, SetToSeqsCovers
    <3>3. mine'[p] = mine[p] \o order /\ mine[p] \in Seq(Id)
      BY <2>2 DEF TypeOK
    <3>4. ToSet(mine[p] \o order) = ToSet(mine[p]) \cup ToSet(order)
      BY <3>2, <3>3, ConcatToSet
    <3>. QED  BY <3>2, <3>3, <3>4
  <2> SUFFICES ASSUME NEW q \in Node, NEW i \in Running(q) \ Running(q)'
               PROVE  \/ i \in failed'
                      \/ /\ i \in triples'[q]
                         /\ generators[q][i].mine => i \in ToSet(mine'[q])
    BY DEF ExitStep
  <2>6. q = p /\ i \in failing \cup done
    BY <2>3
  <2>. QED  BY <2>1, <2>4, <2>5, <2>6 DEF MineDone
<1>2. ASSUME NEW p \in Node,
             \/ \E i \in Id : Generate(p, i)
             \/ \E m \in msgs : HandleMessage(p, m)
      PROVE  ExitStep
  <2>1. \A q \in Node : Running(q) \subseteq Running(q)'
    BY <1>2, RunningGenerate, RunningHandle
  <2>. QED  BY <2>1 DEF ExitStep
<1>3. ASSUME \/ \E r \in Forged : AnnounceForged(r)
             \/ \E p \in Node : TakeMineTwice(p)
             \/ \E p \in Node, r \in reqs : JoinPresignature(p, r)
      PROVE  ExitStep
  <2>1. UNCHANGED generators
    BY <1>3 DEF AnnounceForged, TakeMineTwice, JoinPresignature
  <2>. QED  BY <2>1 DEF ExitStep, Running
<1>. QED  BY <1>1, <1>2, <1>3 DEF Next

(* poke()'s retain drops a generator only when its protocol failed or     *)
(* when its triple was stored (and queued on mine if the generator was    *)
(* mine), for any nodes, ids and rounds and whatever ids are drawn,       *)
(* protocols fail or peers forge.                                         *)
THEOREM GeneratorExitsStored == Spec => GeneratorExit
<1>1. Init => TypeOK
  BY IInvInit DEF IInv
<1>2. TypeOK /\ [Next]_vars => TypeOK'
  BY TypeStep
<1>3. TypeOK /\ [Next]_vars => [ExitStep]_vars
  BY ExitStepHolds
<1>. QED  BY <1>1, <1>2, <1>3, PTL DEF Spec, GeneratorExit, ExitStep

-----------------------------------------------------------------------------
(* The facts PInv adds to OnceInv and RecvSent.                           *)
HeardFacts == CompletedHeard /\ AnnouncedHeard /\ SenderHolds

(* The strengthening gives PeerReady: a peer q that has not joined r was  *)
(* heard on both of r's ids, so it holds them, has used them or their    *)
(* protocol failed; it drew                                               *)
(* neither, and the only presignature naming them is r itself.           *)
LEMMA PInvPeerReady == PInv => PeerReady
<1> SUFFICES ASSUME PInv, NEW r \in reqs, NEW q \in Node \ {r.owner}, r \notin served[q]
             PROVE  {r.t0, r.t1} \subseteq triples[q] \cup Running(q) \cup failed
  BY DEF PeerReady
<1>0. TypeOK /\ MInv /\ OnceInv
  BY DEF PInv, OnceInv, MInv, IInv
<1>1. r \in Request /\ r.owner \in Node
  BY <1>0 DEF TypeOK, Request
<1>2. ASSUME NEW i \in {r.t0, r.t1} PROVE i \in triples[q] \cup Running(q) \cup failed
  <2>1. PICK m \in msgs : m.id = i /\ m.from = q
    BY <1>2 DEF PInv, AnnouncedHeard, Heard
  <2>2. i \in triples[q] \cup Running(q) \cup spent[q] \cup failed
    BY <2>1 DEF PInv, SenderHolds
  <2>3. i \notin issued[q]
    BY <1>0, <1>1, <1>2 DEF MInv, OwnRequests, DisjointIssued
  <2>4. \A r2 \in served[q] : i \notin {r2.t0, r2.t1}
    <3> SUFFICES ASSUME NEW r2 \in served[q], i \in {r2.t0, r2.t1} PROVE FALSE
      OBVIOUS
    <3>1. r2 \in reqs /\ r2 # r
      BY <1>0 DEF OnceInv, ServedReqs
    <3>. QED  BY <1>0, <1>2, <3>1 DEF OnceInv, RequestsDisjoint
  <2>5. i \notin spent[q]
    BY <1>0, <2>3, <2>4 DEF OnceInv, SpentWhy
  <2>. QED  BY <2>2, <2>5
<1>. QED  BY <1>2

(* Initially no node holds, runs or has sent anything.                    *)
LEMMA PInvInit == Init => PInv
<1> SUFFICES ASSUME Init PROVE PInv
  OBVIOUS
<1>1. OnceInv
  BY OnceInit
<1>2. \A p \in Node : Running(p) = {}
  BY DEF Init, Running
<1>. QED
  BY <1>1, <1>2 DEF Init, PInv, RecvSent, CompletedHeard, AnnouncedHeard, SenderHolds

-----------------------------------------------------------------------------
(* One lemma per handler: each keeps the facts of HeardFacts.             *)

(* generate() and a delivery send nothing, use nothing and drop no       *)
(* generator.                                                             *)
LEMMA PeerGenerate ==
  ASSUME PInv, NEW p \in Node, NEW i \in Id, Generate(p, i)
  PROVE  HeardFacts'
<1>0. TypeOK
  BY DEF PInv, OnceInv, MInv, IInv
<1>1. UNCHANGED <<triples, msgs, reqs, spent, failed>>
  BY DEF Generate
<1>2. \A q \in Node : Running(q) \subseteq Running(q)'
  BY <1>0, RunningGenerate
<1>3. \A j, q : Heard(j, q)' = Heard(j, q)
  BY <1>1 DEF Heard
<1>. QED
  BY <1>0, <1>1, <1>2, <1>3
     DEF PInv, HeardFacts, CompletedHeard, AnnouncedHeard, SenderHolds, TypeOK, Message

LEMMA PeerHandle ==
  ASSUME PInv, NEW p \in Node, NEW m \in msgs, HandleMessage(p, m)
  PROVE  HeardFacts'
<1>0. TypeOK
  BY DEF PInv, OnceInv, MInv, IInv
<1>1. UNCHANGED <<triples, msgs, reqs, spent, failed>>
  BY DEF HandleMessage
<1>2. \A q \in Node : Running(q) \subseteq Running(q)'
  BY <1>0, RunningHandle
<1>3. \A j, q : Heard(j, q)' = Heard(j, q)
  BY <1>1 DEF Heard
<1>. QED
  BY <1>0, <1>1, <1>2, <1>3
     DEF PInv, HeardFacts, CompletedHeard, AnnouncedHeard, SenderHolds, TypeOK, Message

(* poke(): a generator leaves the map into self.triples, and then only   *)
(* once every peer has been heard on its id, or fails and its id joins    *)
(* failed; what the poke broadcasts names ids the node runs.              *)
LEMMA PeerPoke ==
  ASSUME PInv, NEW p \in Node, Poke(p)
  PROVE  HeardFacts'
<1>0. TypeOK
  BY DEF PInv, OnceInv, MInv, IInv
<1>1. PICK failing \in SUBSET Running(p) :
          LET live == Running(p) \ failing
              done == {i \in live : Reach(p, generators[p][i]) = R}
          IN  /\ generators' = [generators EXCEPT ![p] = Retained(p, live, done)]
              /\ triples' = [triples EXCEPT ![p] = Stored(p, done)]
              /\ msgs' = Sent(p, live, failing)
              /\ failed' = failed \cup failing
              /\ UNCHANGED <<reqs, spent>>
  BY DEF Poke
<1> DEFINE live == Running(p) \ failing
           done == {i \in live : Reach(p, generators[p][i]) = R}
<1>2. msgs \subseteq msgs' /\ msgs' \subseteq msgs \cup Outbox(p, live)
  BY <1>1 DEF Sent
<1>3. /\ Running(p)' = live \ done
      /\ \A q \in Node \ {p} : Running(q)' = Running(q)
  <2>0. /\ live \in SUBSET Running(p)
        /\ done \in SUBSET live
        /\ \A i \in live \ done : Reach(p, generators[p][i]) # R
    OBVIOUS
  <2>1. \A i \in Id : Retained(p, live, done)[i] # Absent <=> i \in live \ done
    BY <1>0, <2>0, RetainedType
  <2>. QED  BY <1>0, <1>1, <2>1 DEF Retained, Running, TypeOK
<1>4. /\ triples'[p] = triples[p] \cup done
      /\ \A q \in Node \ {p} : triples'[q] = triples[q]
  BY <1>0, <1>1 DEF Stored, TypeOK
<1>5. \A j, q : Heard(j, q) => Heard(j, q)'
  BY <1>2 DEF Heard
<1>6. \A i \in done, q \in Node \ {p} : Heard(i, q)
  <2> SUFFICES ASSUME NEW i \in done, NEW q \in Node \ {p} PROVE Heard(i, q)
    OBVIOUS
  <2>1. generators[p][i] \in Gen
    BY <1>0 DEF TypeOK, Running
  <2>2. <<q, R - 1>> \in generators[p][i].recv
    BY <2>1, ReachReady DEF Ready
  <2>. QED  BY <2>2 DEF PInv, RecvSent, Heard
<1>7. CompletedHeard'
  <2> SUFFICES ASSUME NEW q \in Node, NEW i \in triples'[q], NEW q2 \in Node \ {q}
               PROVE  Heard(i, q2)
    BY <1>5 DEF CompletedHeard
  <2>1. CASE q = p /\ i \in done
    BY <1>6, <2>1
  <2>2. CASE ~(q = p /\ i \in done)
    BY <1>4, <2>2 DEF PInv, CompletedHeard
  <2>. QED  BY <2>1, <2>2
<1>8. SenderHolds'
  <2>1. \A q \in Node : triples[q] \cup Running(q) \cup failed
                           \subseteq triples'[q] \cup Running(q)' \cup failed'
    BY <1>1, <1>3, <1>4
  <2> SUFFICES ASSUME NEW m \in msgs'
               PROVE  m.id \in triples'[m.from] \cup Running(m.from)' \cup spent'[m.from]
                                \cup failed'
    BY DEF SenderHolds
  <2>2. CASE m \in msgs
    <3>1. m.from \in Node
      BY <1>0, <2>2 DEF TypeOK, Message
    <3>. QED  BY <1>1, <2>1, <2>2, <3>1 DEF PInv, SenderHolds
  <2>3. CASE m \in Outbox(p, live)
    <3>1. m.from = p /\ m.id \in live
      BY <2>3, OutboxFrom
    <3>. QED  BY <1>3, <1>4, <3>1
  <2>. QED  BY <1>2, <2>2, <2>3
<1>. QED
  BY <1>1, <1>5, <1>7, <1>8 DEF PInv, HeardFacts, AnnouncedHeard

(* take_mine_twice() announces two completed triples, which every peer   *)
(* has been heard on, and moves them from self.triples to the used ids.   *)
LEMMA PeerTake ==
  ASSUME PInv, NEW p \in Node, TakeMineTwice(p)
  PROVE  HeardFacts'
<1>0. TypeOK
  BY DEF PInv, OnceInv, MInv, IInv
<1> DEFINE id0 == mine[p][1]
           id1 == mine[p][2]
           rn == [owner |-> p, t0 |-> id0, t1 |-> id1]
<1>1. UNCHANGED <<generators, msgs, failed>>
  BY DEF TakeMineTwice
<1>2. \/ /\ {id0, id1} \subseteq triples[p]
         /\ triples' = [triples EXCEPT ![p] = @ \ {id0, id1}]
         /\ spent' = [spent EXCEPT ![p] = @ \cup {id0, id1}]
         /\ reqs' = reqs \cup {rn}
      \/ UNCHANGED <<triples, spent, reqs>>
  BY DEF TakeMineTwice
<1>3. \A j, q : Heard(j, q)' = Heard(j, q)
  BY <1>1 DEF Heard
<1>4. CASE UNCHANGED <<triples, spent, reqs>>
  BY <1>1, <1>3, <1>4
     DEF PInv, HeardFacts, CompletedHeard, AnnouncedHeard, SenderHolds, Running
<1>5. CASE /\ {id0, id1} \subseteq triples[p]
           /\ triples' = [triples EXCEPT ![p] = @ \ {id0, id1}]
           /\ spent' = [spent EXCEPT ![p] = @ \cup {id0, id1}]
           /\ reqs' = reqs \cup {rn}
  <2>1. /\ \A q \in Node : triples'[q] \subseteq triples[q]
        /\ \A q \in Node : triples[q] \cup spent[q] \subseteq triples'[q] \cup spent'[q]
    BY <1>0, <1>5 DEF TypeOK
  <2>2. CompletedHeard'
    BY <1>3, <2>1 DEF PInv, CompletedHeard
  <2>3. AnnouncedHeard'
    BY <1>3, <1>5 DEF PInv, AnnouncedHeard, CompletedHeard
  <2>4. SenderHolds'
    BY <1>0, <1>1, <2>1 DEF PInv, SenderHolds, Running, TypeOK, Message
  <2>. QED  BY <2>2, <2>3, <2>4 DEF HeardFacts
<1>. QED  BY <1>2, <1>4, <1>5

(* A peer joins an announced presignature: the two triples it takes move  *)
(* from self.triples to the used ids.                                     *)
LEMMA PeerJoin ==
  ASSUME PInv, NEW q \in Node, NEW r \in reqs, JoinPresignature(q, r)
  PROVE  HeardFacts'
<1>0. TypeOK
  BY DEF PInv, OnceInv, MInv, IInv
<1>1. /\ triples' = [triples EXCEPT ![q] = @ \ {r.t0, r.t1}]
      /\ spent' = [spent EXCEPT ![q] = @ \cup {r.t0, r.t1}]
      /\ UNCHANGED <<generators, msgs, reqs, failed>>
  BY DEF JoinPresignature, Taken
<1>2. /\ \A n \in Node : triples'[n] \subseteq triples[n]
      /\ \A n \in Node : triples[n] \cup spent[n] \subseteq triples'[n] \cup spent'[n]
  BY <1>0, <1>1 DEF TypeOK
<1>3. \A j, n : Heard(j, n)' = Heard(j, n)
  BY <1>1 DEF Heard
<1>. QED
  BY <1>0, <1>1, <1>2, <1>3
     DEF PInv, HeardFacts, CompletedHeard, AnnouncedHeard, SenderHolds, Running,
         TypeOK, Message

-----------------------------------------------------------------------------
(* Every handler keeps PInv when ids are fresh and no peer forges an      *)
(* announce, whichever protocols fail.                                    *)
LEMMA PInvStep ==
  ASSUME FreshIds, Forged = {}
  PROVE  PInv /\ [Next]_vars => PInv'
<1> SUFFICES ASSUME PInv, [Next]_vars PROVE PInv'
  OBVIOUS
<1>1. OnceInv' /\ RecvSent'
  BY OnceStep, RecvSentStep DEF PInv, OnceInv, MInv, IInv
<1>2. HeardFacts'
  <2>1. CASE \E r \in Forged : AnnounceForged(r)
    BY <2>1
  <2>2. ASSUME NEW p \in Node, NEW i \in Id, Generate(p, i) PROVE HeardFacts'
    BY <2>2, PeerGenerate
  <2>3. ASSUME NEW p \in Node, NEW m \in msgs, HandleMessage(p, m) PROVE HeardFacts'
    BY <2>3, PeerHandle
  <2>4. ASSUME NEW p \in Node, Poke(p) PROVE HeardFacts'
    BY <2>4, PeerPoke
  <2>5. ASSUME NEW p \in Node, TakeMineTwice(p) PROVE HeardFacts'
    BY <2>5, PeerTake
  <2>6. ASSUME NEW p \in Node, NEW r \in reqs, JoinPresignature(p, r) PROVE HeardFacts'
    BY <2>6, PeerJoin
  <2>7. CASE UNCHANGED vars
    BY <2>7 DEF vars, PInv, HeardFacts, CompletedHeard, AnnouncedHeard, Heard,
                SenderHolds, Running
  <2>. QED  BY <2>1, <2>2, <2>3, <2>4, <2>5, <2>6, <2>7 DEF Next
<1>. QED  BY <1>1, <1>2 DEF PInv, HeardFacts

(* When generate() never reuses an id, every announced presignature comes *)
(* from its owner's take_mine_twice(), every reachable state keeps the    *)
(* induction behind PeerReady: besides OnceInv, generators ingested only  *)
(* messages sent to them, every stored and every announced triple was     *)
(* sent for by every peer, and a node that sent for an id still holds it, *)
(* has used it, or its protocol failed.                                   *)
LEMMA FreshIdsPInv ==
  ASSUME FreshIds, Forged = {}
  PROVE  Spec => []PInv
<1>1. Init => PInv
  BY PInvInit
<1>2. PInv /\ [Next]_vars => PInv'
  BY PInvStep
<1>. QED  BY <1>1, <1>2, PTL DEF Spec

(* Under the same hypotheses, and whichever triple protocols fail, a peer *)
(* that has not joined an announced presignature still holds both of its  *)
(* triples, completed or generating, unless the protocol of one of them   *)
(* failed: PresignatureManager never waits on a triple that poke() lost.  *)
THEOREM FreshIdsPeerReady ==
  ASSUME FreshIds, Forged = {}
  PROVE  Spec => []PeerReady
<1>1. PInv => PeerReady
  BY PInvPeerReady
<1>. QED  BY <1>1, FreshIdsPInv, PTL

=============================================================================
