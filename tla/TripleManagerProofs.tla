------------------------- MODULE TripleManagerProofs -------------------------
(***************************************************************************)
(* Proofs about the triple manager model (TripleManager.tla) that hold for *)
(* every number of nodes, every id space and every number of protocol      *)
(* rounds: the model is type correct, and, when generate() draws ids that  *)
(* were never drawn before, no node both holds a finished triple and runs  *)
(* a generator for the same id.                                            *)
(***************************************************************************)
EXTENDS TripleManager, FiniteSetTheorems, SequenceTheorems, TLAPS

-----------------------------------------------------------------------------
(* Lemmas about the operators that model one pass of poke()'s retain loop. *)

(* The round a generator reaches in one poke lies between the round it was *)
(* in and R, the number of rounds of the protocol.                         *)
LEMMA ReachRange ==
  ASSUME NEW p, NEW g \in Gen
  PROVE  Reach(p, g) \in g.round..R
<1>1. CASE Halt(p, g) = {}
  <2>1. g.round \in 0..(R - 1)
    BY DEF Gen, Round
  <2>. QED  BY <1>1, <2>1, RAssumption DEF Reach
<1>2. CASE Halt(p, g) # {}
  <2>1. Halt(p, g) \subseteq g.round..R
    BY DEF Halt
  <2>. QED  BY <1>2, <2>1 DEF Reach
<1>. QED  BY <1>1, <1>2

(* A generator that poke() retains (it did not return a triple) is still   *)
(* a generator in a round of the protocol.                                 *)
LEMMA AdvanceType ==
  ASSUME NEW p, NEW g \in Gen, Reach(p, g) # R
  PROVE  Advance(p, g) \in Gen
<1>1. Reach(p, g) \in Round
  <2>1. Reach(p, g) \in g.round..R
    BY ReachRange
  <2>2. g.round \in Nat
    BY DEF Gen, Round
  <2>. QED  BY <2>1, <2>2, RAssumption DEF Round
<1>. QED  BY <1>1 DEF Advance, Gen

(* The rounds a generator broadcasts during one poke are rounds of the     *)
(* protocol.                                                               *)
LEMMA EmittedType ==
  ASSUME NEW p, NEW g \in Gen
  PROVE  Emitted(p, g) \subseteq Round
<1>1. g.round \in Nat
  BY DEF Gen, Round
<1>. QED  BY <1>1, RAssumption DEF Emitted, Round

(* The order in which poke() pushes the ids of its finished triples onto  *)
(* the mine queue is a sequence of ids.                                    *)
LEMMA OrderType ==
  ASSUME NEW S \in SUBSET Id, NEW o \in SetToSeqs(S)
  PROVE  o \in Seq(Id)
<1>1. Cardinality(S) \in Nat
  BY IdAssumption, FS_Subset, FS_CardinalityType
<1>2. o \in [1..Cardinality(S) -> Id]
  BY DEF SetToSeqs
<1>. QED  BY <1>1, <1>2

(* The generator table poke() leaves behind keeps exactly the live        *)
(* generators that did not finish, each advanced to the round it reached. *)
LEMMA RetainedType ==
  ASSUME TypeOK, NEW p \in Node, NEW live \in SUBSET Running(p),
         NEW done \in SUBSET live,
         \A i \in live \ done : Reach(p, generators[p][i]) # R
  PROVE  /\ Retained(p, live, done) \in [Id -> Gen \cup {Absent}]
         /\ \A i \in Id : Retained(p, live, done)[i] # Absent <=> i \in live \ done
<1>1. ASSUME NEW i \in live \ done
      PROVE  Advance(p, generators[p][i]) \in Gen
  <2>1. generators[p][i] \in Gen
    BY DEF TypeOK, Running
  <2>. QED  BY <1>1, <2>1, AdvanceType
<1>2. \A g \in Gen : g # Absent
  BY AbsentAssumption
<1>. QED  BY <1>1, <1>2 DEF Retained

-----------------------------------------------------------------------------
(* Every step of the model, every handler of triple.rs, keeps the         *)
(* manager's maps, its mine queue and the network well formed.            *)
LEMMA TypeStep == TypeOK /\ [Next]_vars => TypeOK'
<1> SUFFICES ASSUME TypeOK, [Next]_vars PROVE TypeOK'
  OBVIOUS
<1>1. ASSUME NEW r \in Forged PROVE AnnounceForged(r) => TypeOK'
  BY ForgedAssumption DEF AnnounceForged, TypeOK
<1>2. ASSUME NEW p \in Node, NEW i \in Id PROVE Generate(p, i) => TypeOK'
  <2> SUFFICES ASSUME Generate(p, i) PROVE TypeOK'
    OBVIOUS
  <2>1. NewGenerator(TRUE) \in Gen
    BY RAssumption DEF NewGenerator, Gen, Round
  <2>2. generators' \in [Node -> [Id -> Gen \cup {Absent}]]
    BY <2>1 DEF Generate, TypeOK
  <2>3. issued' \in [Node -> SUBSET Id]
    BY DEF Generate, TypeOK
  <2>. QED  BY <2>2, <2>3 DEF Generate, TypeOK
<1>3. ASSUME NEW p \in Node, NEW m \in msgs PROVE HandleMessage(p, m) => TypeOK'
  <2> SUFFICES ASSUME HandleMessage(p, m) PROVE TypeOK'
    OBVIOUS
  <2>1. m \in Message
    BY DEF TypeOK
  <2>2. GetOrGenerate(p, m.id) \in Gen
    <3>1. NewGenerator(FALSE) \in Gen
      BY RAssumption DEF NewGenerator, Gen, Round
    <3>. QED  BY <2>1, <3>1 DEF GetOrGenerate, TypeOK, Message
  <2>3. ({<<m.from, m.round>>} \ {<<p, m.round>>}) \subseteq Node \X Round
    BY <2>1 DEF Message
  <2>4. [GetOrGenerate(p, m.id) EXCEPT
           !.recv = @ \cup ({<<m.from, m.round>>} \ {<<p, m.round>>})] \in Gen
    BY <2>2, <2>3 DEF Gen
  <2>. QED  BY <2>1, <2>4 DEF HandleMessage, TypeOK, Message
<1>4. ASSUME NEW p \in Node PROVE Poke(p) => TypeOK'
  <2> SUFFICES ASSUME Poke(p) PROVE TypeOK'
    OBVIOUS
  <2>1. PICK failing \in SUBSET Running(p) :
            LET live == Running(p) \ failing
                done == {i \in live : Reach(p, generators[p][i]) = R}
            IN  /\ generators' = [generators EXCEPT ![p] = Retained(p, live, done)]
                /\ triples' = [triples EXCEPT ![p] = Stored(p, done)]
                /\ \E order \in SetToSeqs(MineDone(p, done)) :
                       mine' = [mine EXCEPT ![p] = @ \o order]
                /\ msgs' = Sent(p, live, failing)
                /\ failed' = failed \cup failing
                /\ UNCHANGED <<reqs, issued, spent, served>>
    BY DEF Poke
  <2> DEFINE live == Running(p) \ failing
             done == {i \in live : Reach(p, generators[p][i]) = R}
  <2>2. Running(p) \subseteq Id
    BY DEF Running
  <2>3. generators' \in [Node -> [Id -> Gen \cup {Absent}]]
    <3>1. /\ live \in SUBSET Running(p)
          /\ done \in SUBSET live
          /\ \A i \in live \ done : Reach(p, generators[p][i]) # R
      OBVIOUS
    <3>2. Retained(p, live, done) \in [Id -> Gen \cup {Absent}]
      BY <3>1, RetainedType
    <3>. QED  BY <2>1, <3>2 DEF TypeOK
  <2>4. triples' \in [Node -> SUBSET Id]
    BY <2>1, <2>2 DEF Stored, TypeOK
  <2>5. mine' \in [Node -> Seq(Id)]
    <3>1. PICK order \in SetToSeqs(MineDone(p, done)) :
              mine' = [mine EXCEPT ![p] = @ \o order]
      BY <2>1
    <3>2. order \in Seq(Id)
      <4>1. MineDone(p, done) \subseteq Id
        BY <2>2 DEF MineDone
      <4>. QED  BY <4>1, <3>1, OrderType
    <3>3. mine[p] \o order \in Seq(Id)
      BY <3>2, ConcatProperties DEF TypeOK
    <3>. QED  BY <3>1, <3>3 DEF TypeOK
  <2>6. msgs' \subseteq Message
    <3>1. ASSUME NEW i \in live PROVE Emitted(p, generators[p][i]) \subseteq Round
      <4>1. generators[p][i] \in Gen
        BY DEF TypeOK, Running
      <4>. QED  BY <4>1, EmittedType
    <3>2. Outbox(p, live) \subseteq Message
      BY <3>1, <2>2 DEF Outbox, Message
    <3>. QED  BY <2>1, <3>2 DEF Sent, TypeOK
  <2>7. failed' \subseteq Id
    BY <2>1, <2>2 DEF TypeOK
  <2>. QED  BY <2>1, <2>3, <2>4, <2>5, <2>6, <2>7 DEF TypeOK
<1>5. ASSUME NEW p \in Node PROVE TakeMineTwice(p) => TypeOK'
  <2> SUFFICES ASSUME TakeMineTwice(p) PROVE TypeOK'
    OBVIOUS
  <2>1. /\ mine[p] \in Seq(Id)
        /\ Len(mine[p]) >= 2
    BY DEF TakeMineTwice, TypeOK
  <2>2. mine[p][1] \in Id /\ mine[p][2] \in Id
    BY <2>1
  <2>3. SubSeq(mine[p], 3, Len(mine[p])) \in Seq(Id)
    BY <2>1, SubSeqProperties
  <2> DEFINE id0 == mine[p][1]
             id1 == mine[p][2]
  <2>4. mine' \in [Node -> Seq(Id)]
    BY <2>3 DEF TakeMineTwice, TypeOK
  <2>5. CASE {id0, id1} \subseteq triples[p] /\ id0 # id1
    <3>1. /\ triples' = [triples EXCEPT ![p] = @ \ {id0, id1}]
          /\ spent' = [spent EXCEPT ![p] = @ \cup {id0, id1}]
          /\ reqs' = reqs \cup {[owner |-> p, t0 |-> id0, t1 |-> id1]}
          /\ UNCHANGED <<generators, msgs, issued, served, failed>>
      BY <2>5 DEF TakeMineTwice
    <3>2. [owner |-> p, t0 |-> id0, t1 |-> id1] \in Request
      BY <2>2 DEF Request
    <3>. QED  BY <2>2, <2>4, <3>1, <3>2 DEF TypeOK
  <2>6. CASE ~({id0, id1} \subseteq triples[p] /\ id0 # id1)
    <3>1. UNCHANGED <<triples, spent, reqs, generators, msgs, issued, served, failed>>
      BY <2>6 DEF TakeMineTwice
    <3>. QED  BY <2>4, <3>1 DEF TypeOK
  <2>. QED  BY <2>5, <2>6
<1>6. ASSUME NEW p \in Node, NEW r \in reqs PROVE JoinPresignature(p, r) => TypeOK'
  BY DEF JoinPresignature, Taken, TypeOK
<1>7. CASE UNCHANGED vars
  BY <1>7 DEF vars, TypeOK
<1>. QED  BY <1>1, <1>2, <1>3, <1>4, <1>5, <1>6, <1>7 DEF Next

(* Type correctness: every reachable state gives every variable a value of *)
(* the type TypeOK states, whatever the constants (each handler of         *)
(* triple.rs keeps the manager's maps, queue and the network well formed). *)
THEOREM TypeCorrect == Spec => []TypeOK
<1>1. Init => TypeOK
  BY DEF Init, TypeOK
<1>. QED  BY <1>1, TypeStep, PTL DEF Spec


-----------------------------------------------------------------------------
(* The ids a node runs generators for change only as generate(), a        *)
(* message for a new id, and poke() dictate.                              *)
LEMMA RunningGenerate ==
  ASSUME TypeOK, NEW p \in Node, NEW i \in Id, Generate(p, i)
  PROVE  \A q \in Node : Running(q)' = IF q = p THEN Running(q) \cup {i} ELSE Running(q)
<1>1. NewGenerator(TRUE) # Absent
  <2>1. NewGenerator(TRUE) \in Gen
    BY RAssumption DEF NewGenerator, Gen, Round
  <2>. QED  BY <2>1, AbsentAssumption
<1>. QED  BY <1>1 DEF Generate, Running, TypeOK

LEMMA RunningHandle ==
  ASSUME TypeOK, NEW p \in Node, NEW m \in msgs, HandleMessage(p, m)
  PROVE  \A q \in Node : Running(q)' = IF q = p THEN Running(q) \cup {m.id} ELSE Running(q)
<1>1. m \in Message
  BY DEF TypeOK
<1>2. LET g == GetOrGenerate(p, m.id)
      IN  [g EXCEPT !.recv = @ \cup ({<<m.from, m.round>>} \ {<<p, m.round>>})] # Absent
  <2>1. GetOrGenerate(p, m.id) \in Gen
    <3>1. NewGenerator(FALSE) \in Gen
      BY RAssumption DEF NewGenerator, Gen, Round
    <3>. QED  BY <1>1, <3>1 DEF GetOrGenerate, TypeOK, Message
  <2>2. ({<<m.from, m.round>>} \ {<<p, m.round>>}) \subseteq Node \X Round
    BY <1>1 DEF Message
  <2>. QED  BY <2>1, <2>2, AbsentAssumption DEF Gen
<1>. QED  BY <1>1, <1>2 DEF HandleMessage, Running, TypeOK, Message

-----------------------------------------------------------------------------
(* The inductive invariant: besides the type, every id a node holds or     *)
(* generates and every id on the network was drawn by some generate().     *)
(* AtMostOnce alone is not inductive: a fresh id is known not to be among  *)
(* a node's triples only because every id there was once issued.           *)
LEMMA IInvInit == Init => IInv
BY DEF Init, IInv, TypeOK, AtMostOnce, KnownIds, Running, Issued

(* Every handler of triple.rs keeps the ids a node has finished apart from *)
(* the ids it still generates, provided generate() draws fresh ids.        *)
LEMMA IInvStep ==
  ASSUME FreshIds
  PROVE  IInv /\ [Next]_vars => IInv'
<1> SUFFICES ASSUME IInv, [Next]_vars PROVE IInv'
  OBVIOUS
<1>0. TypeOK /\ TypeOK'
  BY TypeStep DEF IInv
<1>1. ASSUME NEW r \in Forged, AnnounceForged(r) PROVE IInv'
  BY <1>0, <1>1 DEF AnnounceForged, IInv, AtMostOnce, KnownIds, Running, Issued
<1>2. ASSUME NEW p \in Node, NEW i \in Id, Generate(p, i) PROVE IInv'
  <2>1. \A q \in Node : Running(q)' = IF q = p THEN Running(q) \cup {i} ELSE Running(q)
    BY <1>0, <1>2, RunningGenerate
  <2>2. i \notin triples[p]
    <3>1. i \notin Issued
      BY <1>2 DEF Generate, Issued
    <3>. QED  BY <3>1 DEF IInv, KnownIds
  <2>3. Issued' = Issued \cup {i}
    BY <1>0, <1>2 DEF Generate, Issued, TypeOK
  <2>4. AtMostOnce'
    BY <1>2, <2>1, <2>2 DEF Generate, IInv, AtMostOnce
  <2>5. KnownIds'
    BY <1>2, <2>1, <2>3 DEF Generate, IInv, KnownIds
  <2>. QED  BY <1>0, <2>4, <2>5 DEF IInv
<1>3. ASSUME NEW p \in Node, NEW m \in msgs, HandleMessage(p, m) PROVE IInv'
  <2>1. \A q \in Node : Running(q)' = IF q = p THEN Running(q) \cup {m.id} ELSE Running(q)
    BY <1>0, <1>3, RunningHandle
  <2>2. m.id \notin triples[p] /\ m.id \in Issued
    BY <1>3 DEF HandleMessage, IInv, KnownIds
  <2>3. Issued' = Issued
    BY <1>3 DEF HandleMessage, Issued
  <2>4. AtMostOnce'
    BY <1>3, <2>1, <2>2 DEF HandleMessage, IInv, AtMostOnce
  <2>5. KnownIds'
    BY <1>3, <2>1, <2>2, <2>3 DEF HandleMessage, IInv, KnownIds
  <2>. QED  BY <1>0, <2>4, <2>5 DEF IInv
<1>4. ASSUME NEW p \in Node, Poke(p) PROVE IInv'
  <2>1. PICK failing \in SUBSET Running(p) :
            LET live == Running(p) \ failing
                done == {i \in live : Reach(p, generators[p][i]) = R}
            IN  /\ generators' = [generators EXCEPT ![p] = Retained(p, live, done)]
                /\ triples' = [triples EXCEPT ![p] = Stored(p, done)]
                /\ msgs' = Sent(p, live, failing)
                /\ UNCHANGED <<reqs, issued, spent, served>>
    BY <1>4 DEF Poke
  <2> DEFINE live == Running(p) \ failing
             done == {i \in live : Reach(p, generators[p][i]) = R}
  <2>2. \A q \in Node : Running(q)' = IF q = p THEN live \ done ELSE Running(q)
    <3>1. \A i \in Id : Retained(p, live, done)[i] # Absent <=> i \in live \ done
      BY RetainedType DEF IInv
    <3>. QED  BY <2>1, <3>1 DEF Running, IInv, TypeOK
  <2>3. \A q \in Node : triples'[q] = IF q = p THEN triples[q] \cup done ELSE triples[q]
    BY <2>1 DEF Stored, IInv, TypeOK
  <2>4. Issued' = Issued
    BY <2>1 DEF Issued
  <2>5. \A m \in msgs' : m \in msgs \/ m.id \in live
    BY <2>1 DEF Sent, Outbox
  <2>6. AtMostOnce'
    BY <2>2, <2>3 DEF IInv, AtMostOnce
  <2>7. KnownIds'
    BY <2>2, <2>3, <2>4, <2>5 DEF IInv, KnownIds
  <2>. QED  BY <1>0, <2>6, <2>7 DEF IInv
<1>5. ASSUME NEW p \in Node, TakeMineTwice(p) PROVE IInv'
  <2> DEFINE id0 == mine[p][1]
             id1 == mine[p][2]
  <2>0. /\ UNCHANGED <<generators, msgs, issued>>
        /\ \/ triples' = [triples EXCEPT ![p] = @ \ {id0, id1}]
           \/ triples' = triples
    BY <1>5 DEF TakeMineTwice
  <2>1. /\ UNCHANGED <<generators, msgs, issued>>
        /\ \A q \in Node : triples'[q] \subseteq triples[q]
    BY <2>0 DEF IInv, TypeOK
  <2>2. \A q \in Node : Running(q)' = Running(q)
    BY <2>1 DEF Running
  <2>3. Issued' = Issued
    BY <2>1 DEF Issued
  <2>. QED  BY <1>0, <2>1, <2>2, <2>3 DEF IInv, AtMostOnce, KnownIds
<1>6. ASSUME NEW p \in Node, NEW r \in reqs, JoinPresignature(p, r) PROVE IInv'
  <2>1. /\ UNCHANGED <<generators, msgs, issued>>
        /\ \A q \in Node : triples'[q] \subseteq triples[q]
    BY <1>6 DEF JoinPresignature, Taken, IInv, TypeOK
  <2>2. \A q \in Node : Running(q)' = Running(q)
    BY <2>1 DEF Running
  <2>3. Issued' = Issued
    BY <2>1 DEF Issued
  <2>. QED  BY <1>0, <2>1, <2>2, <2>3 DEF IInv, AtMostOnce, KnownIds
<1>7. CASE UNCHANGED vars
  BY <1>0, <1>7 DEF vars, IInv, AtMostOnce, KnownIds, Running, Issued
<1>. QED  BY <1>1, <1>2, <1>3, <1>4, <1>5, <1>6, <1>7 DEF Next

(* When generate() never reuses an id (rand::random drawing 64 bits makes  *)
(* a repeat negligible), no node ever holds a finished triple under an id  *)
(* it is still running a generator for: poke() stores a triple only as it  *)
(* drops its generator, and get_or_generate() refuses an id already held.  *)
THEOREM FreshIdsAtMostOnce ==
  ASSUME FreshIds
  PROVE  Spec => []AtMostOnce
<1>1. IInv => AtMostOnce
  BY DEF IInv
<1>. QED  BY <1>1, IInvInit, IInvStep, PTL DEF Spec

=============================================================================
