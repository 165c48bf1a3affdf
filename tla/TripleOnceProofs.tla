--------------------------- MODULE TripleOnceProofs ---------------------------
(***************************************************************************)
(* Proof that no triple serves two presignatures (RequestsDisjoint) for    *)
(* every number of nodes, ids and protocol rounds, when generate() draws   *)
(* fresh ids and no peer forges an announce; triple protocols may fail,    *)
(* messages may be lost, duplicated or reordered.                          *)
(*                                                                         *)
(* The argument: take_mine_twice() announces two ids popped off its own    *)
(* mine queue. Those ids were drawn by the owner (MineSound), so no other  *)
(* node's presignature names them (DisjointIssued, OwnRequests); and they  *)
(* are unused (MineFresh), while the owner has used the ids of all its     *)
(* earlier presignatures (OwnSpent). MineFresh holds because a node uses   *)
(* only its own ids or those of a presignature it joined (SpentWhy), and   *)
(* generate() draws an id nobody drew before.                              *)
(***************************************************************************)
EXTENDS TripleMineProofs

(* The facts OnceInv adds to MInv.                                        *)
OnceFacts == SpentWhy /\ ServedReqs /\ RequestsDisjoint /\ OwnSpent /\ MineFresh

(* The ids of a concatenation are those of its parts.                     *)
LEMMA ConcatToSet ==
  ASSUME NEW s \in Seq(Id), NEW t \in Seq(Id)
  PROVE  ToSet(s \o t) = ToSet(s) \cup ToSet(t)
<1>1. /\ Len(s \o t) = Len(s) + Len(t)
      /\ \A i \in 1 .. Len(s) + Len(t) :
            (s \o t)[i] = IF i <= Len(s) THEN s[i] ELSE t[i - Len(s)]
  BY ConcatProperties
<1>2. Len(s) \in Nat /\ Len(t) \in Nat /\ DOMAIN s = 1..Len(s) /\ DOMAIN t = 1..Len(t)
  OBVIOUS
<1>3. DOMAIN (s \o t) = 1 .. Len(s) + Len(t)
  BY <1>1
<1>4. ToSet(s \o t) \subseteq ToSet(s) \cup ToSet(t)
  BY <1>1, <1>2, <1>3 DEF ToSet
<1>5. ToSet(s) \subseteq ToSet(s \o t)
  <2> SUFFICES ASSUME NEW i \in 1..Len(s) PROVE s[i] \in ToSet(s \o t)
    BY <1>2 DEF ToSet
  <2>. QED  BY <1>1, <1>2, <1>3 DEF ToSet
<1>6. ToSet(t) \subseteq ToSet(s \o t)
  <2> SUFFICES ASSUME NEW i \in 1..Len(t) PROVE t[i] \in ToSet(s \o t)
    BY <1>2 DEF ToSet
  <2>1. i + Len(s) \in 1 .. Len(s) + Len(t) /\ ~(i + Len(s) <= Len(s))
    BY <1>2
  <2>2. (s \o t)[i + Len(s)] = t[i]
    BY <1>1, <1>2, <2>1
  <2>. QED  BY <1>3, <2>1, <2>2 DEF ToSet
<1>. QED  BY <1>4, <1>5, <1>6

(* The order in which poke() pushes its finished ids lists every one of  *)
(* them: an injection from 1..Cardinality(S) into a finite S is onto.     *)
LEMMA SetToSeqsCovers ==
  ASSUME NEW S \in SUBSET Id, NEW o \in SetToSeqs(S)
  PROVE  ToSet(o) = S
<1> DEFINE n == Cardinality(S)
<1>1. IsFiniteSet(S) /\ n \in Nat
  BY IdAssumption, FS_Subset, FS_CardinalityType
<1>2. IsFiniteSet(1..n) /\ Cardinality(1..n) = n
  BY <1>1, FS_Interval
<1>3. o \in Injection(1..n, S)
  BY DEF SetToSeqs, Injection, IsInjective
<1>4. o \in Surjection(1..n, S)
  BY <1>1, <1>2, <1>3, FS_Injection
<1>5. DOMAIN o = 1..n
  BY <1>3 DEF Injection
<1>. QED  BY <1>3, <1>4, <1>5 DEF Surjection, Injection, ToSet

(* An id the owner of an announced presignature drew is used by no other *)
(* node, save by joining a presignature that names it.                    *)
LEMMA IssuedNotServed ==
  ASSUME OnceInv, NEW q \in Node, NEW i \in Id, \A n \in Node : i \notin issued[n]
  PROVE  i \notin spent[q]
<1>0. TypeOK /\ OwnRequests
  BY DEF OnceInv, MInv, IInv
<1>1. ASSUME NEW r \in served[q], i \in {r.t0, r.t1} PROVE FALSE
  <2>1. r \in reqs
    BY DEF OnceInv, ServedReqs
  <2>2. r.owner \in Node /\ i \in issued[r.owner]
    BY <1>0, <1>1, <2>1 DEF OwnRequests, TypeOK, Request
  <2>. QED  BY <2>2
<1>. QED  BY <1>1 DEF OnceInv, SpentWhy

-----------------------------------------------------------------------------
(* One lemma per handler: each keeps the facts of OnceFacts.              *)

(* generate() inserts a fresh generator with mine = true; its id was      *)
(* never drawn, so never used.                                            *)
LEMMA OnceGenerate ==
  ASSUME FreshIds, OnceInv, NEW p \in Node, NEW i \in Id, Generate(p, i)
  PROVE  OnceFacts'
<1>0. TypeOK /\ MInv
  BY DEF OnceInv, MInv, IInv
<1>1. /\ UNCHANGED <<triples, mine, msgs, reqs, spent, served>>
      /\ issued' = [issued EXCEPT ![p] = @ \cup {i}]
      /\ \A q \in Node : i \notin issued[q]
  BY DEF Generate
<1>2. \A q \in Node : issued[q] \subseteq issued'[q]
  BY <1>0, <1>1 DEF TypeOK
<1>3. \A q \in Node : Running(q)' = IF q = p THEN Running(q) \cup {i} ELSE Running(q)
  BY <1>0, RunningGenerate
<1>4. \A q \in Node, j \in Id : <<q, j>> # <<p, i>> => generators'[q][j] = generators[q][j]
  BY <1>0 DEF Generate, TypeOK
<1>5. i \notin spent[p]
  BY <1>1, IssuedNotServed
<1>6. MineFresh'
  <2> SUFFICES ASSUME NEW q \in Node, NEW j \in Running(q)', generators'[q][j].mine
               PROVE  j \notin spent[q]
    BY <1>1 DEF OnceInv, MineFresh
  <2>1. CASE q = p /\ j = i
    BY <1>5, <2>1
  <2>2. CASE ~(q = p /\ j = i)
    <3>1. j \in Id
      BY DEF Running
    <3>2. j \in Running(q) /\ generators'[q][j] = generators[q][j]
      BY <1>3, <1>4, <2>2, <3>1
    <3>. QED  BY <3>2 DEF OnceInv, MineFresh
  <2>. QED  BY <2>1, <2>2
<1>7. SpentWhy'
  BY <1>1, <1>2 DEF OnceInv, SpentWhy
<1>. QED
  BY <1>1, <1>6, <1>7 DEF OnceInv, OnceFacts, ServedReqs, RequestsDisjoint, OwnSpent

(* Delivering a message: a generator get_or_generate() creates has        *)
(* mine = false, and an existing one keeps its flag.                      *)
LEMMA OnceHandle ==
  ASSUME OnceInv, NEW p \in Node, NEW m \in msgs, HandleMessage(p, m)
  PROVE  OnceFacts'
<1>0. TypeOK /\ m \in Message
  BY DEF OnceInv, MInv, IInv, TypeOK
<1>1. UNCHANGED <<triples, mine, msgs, reqs, issued, spent, served>>
  BY DEF HandleMessage
<1>2. \A q \in Node : Running(q)' = IF q = p THEN Running(q) \cup {m.id} ELSE Running(q)
  BY <1>0, RunningHandle
<1>3. /\ generators'[p][m.id].mine =
           IF generators[p][m.id] = Absent THEN FALSE ELSE generators[p][m.id].mine
      /\ \A q \in Node, i \in Id : <<q, i>> # <<p, m.id>> =>
           generators'[q][i] = generators[q][i]
  BY <1>0, HandleMine
<1>4. MineFresh'
  <2> SUFFICES ASSUME NEW q \in Node, NEW j \in Running(q)', generators'[q][j].mine
               PROVE  j \notin spent[q]
    BY <1>1 DEF OnceInv, MineFresh
  <2>1. CASE q = p /\ j = m.id
    <3>1. generators[p][m.id] # Absent /\ generators[p][m.id].mine
      BY <1>3, <2>1
    <3>2. m.id \in Running(p)
      BY <1>0, <3>1 DEF Running, Message
    <3>. QED  BY <2>1, <3>1, <3>2 DEF OnceInv, MineFresh
  <2>2. CASE ~(q = p /\ j = m.id)
    <3>1. j \in Id
      BY DEF Running
    <3>2. j \in Running(q) /\ generators'[q][j] = generators[q][j]
      BY <1>2, <1>3, <2>2, <3>1
    <3>. QED  BY <3>2 DEF OnceInv, MineFresh
  <2>. QED  BY <2>1, <2>2
<1>. QED
  BY <1>1, <1>4 DEF OnceInv, OnceFacts, SpentWhy, ServedReqs, RequestsDisjoint, OwnSpent

(* poke(), whichever generators fail: it uses nothing, and what it pushes *)
(* onto mine ran with mine = true, so was unused.                         *)
LEMMA OncePoke ==
  ASSUME OnceInv, NEW p \in Node, Poke(p)
  PROVE  OnceFacts'
<1>0. TypeOK /\ MInv
  BY DEF OnceInv, MInv, IInv
<1>1. PICK failing \in SUBSET Running(p) :
          LET live == Running(p) \ failing
              done == {i \in live : Reach(p, generators[p][i]) = R}
          IN  /\ generators' = [generators EXCEPT ![p] = Retained(p, live, done)]
              /\ \E order \in SetToSeqs(MineDone(p, done)) :
                    mine' = [mine EXCEPT ![p] = @ \o order]
              /\ UNCHANGED <<reqs, issued, spent, served>>
  BY DEF Poke
<1> DEFINE live == Running(p) \ failing
           done == {i \in live : Reach(p, generators[p][i]) = R}
<1>2. PICK order \in SetToSeqs(MineDone(p, done)) : mine' = [mine EXCEPT ![p] = @ \o order]
  BY <1>1
<1>3. /\ Running(p)' = live \ done
      /\ \A i \in live \ done : generators'[p][i] = Advance(p, generators[p][i])
      /\ \A q \in Node \ {p} : generators'[q] = generators[q] /\ Running(q)' = Running(q)
      /\ \A q \in Node \ {p} : mine'[q] = mine[q]
  <2>1. \A i \in Id : Retained(p, live, done)[i] # Absent <=> i \in live \ done
    BY <1>0, RetainedType
  <2>. QED  BY <1>0, <1>1, <1>2, <2>1 DEF Retained, Running, TypeOK
<1>4. MineFresh'
  <2> SUFFICES ASSUME NEW q \in Node
               PROVE  /\ ToSet(mine'[q]) \cap spent[q] = {}
                      /\ \A j \in Running(q)' : generators'[q][j].mine => j \notin spent[q]
    BY <1>1 DEF MineFresh
  <2>1. CASE q = p
    <3>1. MineDone(p, done) \in SUBSET Id
      BY DEF MineDone, Running
    <3>2. order \in Seq(Id) /\ ToSet(order) \subseteq MineDone(p, done)
      BY <3>1, OrderNoDup
    <3>3. ToSet(mine'[p]) = ToSet(mine[p]) \cup ToSet(order)
      BY <1>0, <1>2, <3>2, ConcatToSet DEF TypeOK
    <3>4. ToSet(order) \cap spent[p] = {}
      BY <3>2 DEF MineDone, OnceInv, MineFresh
    <3>5. ASSUME NEW j \in Running(p)', generators'[p][j].mine PROVE j \notin spent[p]
      <4>1. j \in Running(p) /\ generators[p][j] \in Gen
        BY <1>0, <1>3 DEF TypeOK, Running
      <4>2. generators[p][j].mine
        BY <1>3, <3>5, <4>1, AdvanceMine
      <4>. QED  BY <4>1, <4>2 DEF OnceInv, MineFresh
    <3>. QED  BY <2>1, <3>3, <3>4, <3>5 DEF OnceInv, MineFresh
  <2>2. CASE q # p
    BY <1>3, <2>2 DEF OnceInv, MineFresh
  <2>. QED  BY <2>1, <2>2
<1>. QED
  BY <1>1, <1>4 DEF OnceInv, OnceFacts, SpentWhy, ServedReqs, RequestsDisjoint, OwnSpent

(* take_mine_twice(): the two ids it pops are completed triples the node  *)
(* drew and has not used, so no announced presignature names them yet.    *)
LEMMA OnceTake ==
  ASSUME OnceInv, NEW p \in Node, TakeMineTwice(p)
  PROVE  OnceFacts'
<1>0. TypeOK /\ MInv
  BY DEF OnceInv, MInv, IInv
<1> DEFINE id0 == mine[p][1]
           id1 == mine[p][2]
           tail == SubSeq(mine[p], 3, Len(mine[p]))
           rn == [owner |-> p, t0 |-> id0, t1 |-> id1]
<1>1. /\ Len(mine[p]) >= 2
      /\ mine' = [mine EXCEPT ![p] = tail]
      /\ UNCHANGED <<generators, issued, served>>
  BY DEF TakeMineTwice
<1>2. /\ mine[p] \in Seq(Id) /\ NoDup(mine[p])
      /\ ToSet(mine[p]) \subseteq triples[p] \cap issued[p]
  BY <1>0 DEF MInv, MineSound, NoDup, TypeOK
<1>3. tail \in Seq(Id) /\ ToSet(tail) \subseteq ToSet(mine[p]) \ {id0, id1}
  BY <1>1, <1>2, TailNoDup
<1>4. {id0, id1} \subseteq ToSet(mine[p]) \cap issued[p]
  BY <1>1, <1>2 DEF ToSet
<1>5. \/ /\ spent' = [spent EXCEPT ![p] = @ \cup {id0, id1}]
         /\ reqs' = reqs \cup {rn}
      \/ UNCHANGED <<spent, reqs>>
  BY DEF TakeMineTwice
<1>6. \A q \in Node : spent'[q] \subseteq spent[q] \cup (IF q = p THEN {id0, id1} ELSE {})
  <2>1. CASE UNCHANGED <<spent, reqs>>
    BY <2>1
  <2>2. CASE spent' = [spent EXCEPT ![p] = @ \cup {id0, id1}]
    BY <1>0, <2>2 DEF TypeOK
  <2>. QED  BY <1>5, <2>1, <2>2
<1>7. MineFresh'
  <2> SUFFICES ASSUME NEW q \in Node
               PROVE  /\ ToSet(mine'[q]) \cap spent'[q] = {}
                      /\ \A j \in Running(q)' : generators'[q][j].mine => j \notin spent'[q]
    BY DEF MineFresh
  <2>1. CASE q = p
    <3>1. {id0, id1} \cap Running(p) = {}
      BY <1>0, <1>2, <1>4 DEF MInv, IInv, AtMostOnce
    <3>2. ToSet(mine'[p]) = ToSet(tail)
      BY <1>0, <1>1 DEF TypeOK
    <3>. QED  BY <1>1, <1>3, <1>6, <2>1, <3>1, <3>2 DEF OnceInv, MineFresh, Running
  <2>2. CASE q # p
    BY <1>0, <1>1, <1>6, <2>2 DEF OnceInv, MineFresh, Running, TypeOK
  <2>. QED  BY <2>1, <2>2
<1>8. CASE UNCHANGED <<spent, reqs>>
  BY <1>1, <1>7, <1>8 DEF OnceInv, OnceFacts, SpentWhy, ServedReqs, RequestsDisjoint, OwnSpent
<1>9. CASE /\ spent' = [spent EXCEPT ![p] = @ \cup {id0, id1}]
           /\ reqs' = reqs \cup {rn}
  <2>1. \A q \in Node : spent'[q] = IF q = p THEN spent[q] \cup {id0, id1} ELSE spent[q]
    BY <1>0, <1>9 DEF TypeOK
  <2>2. SpentWhy'
    BY <1>1, <1>4, <2>1 DEF OnceInv, SpentWhy
  <2>3. \A r2 \in reqs : {id0, id1} \cap {r2.t0, r2.t1} = {}
    <3> SUFFICES ASSUME NEW r2 \in reqs, NEW x \in {id0, id1}, x \in {r2.t0, r2.t1}
                 PROVE  FALSE
      OBVIOUS
    <3>1. r2.owner \in Node /\ x \in issued[r2.owner]
      BY <1>0 DEF MInv, OwnRequests, TypeOK, Request
    <3>2. r2.owner = p
      BY <1>0, <1>4, <3>1 DEF MInv, DisjointIssued
    <3>3. x \in spent[p]
      BY <3>2 DEF OnceInv, OwnSpent
    <3>. QED  BY <1>4, <3>3 DEF OnceInv, MineFresh
  <2>4. RequestsDisjoint'
    BY <1>9, <2>3 DEF OnceInv, RequestsDisjoint
  <2>5. OwnSpent' /\ ServedReqs'
    BY <1>0, <1>1, <1>9, <2>1 DEF OnceInv, OwnSpent, ServedReqs, TypeOK
  <2>. QED  BY <1>7, <2>2, <2>4, <2>5 DEF OnceFacts
<1>. QED  BY <1>5, <1>8, <1>9

(* A peer joins an announced presignature: it uses ids another node drew, *)
(* and records the presignature it used them for.                         *)
LEMMA OnceJoin ==
  ASSUME OnceInv, NEW q \in Node, NEW r \in reqs, JoinPresignature(q, r)
  PROVE  OnceFacts'
<1>0. TypeOK /\ MInv
  BY DEF OnceInv, MInv, IInv
<1>1. /\ r.owner # q
      /\ spent' = [spent EXCEPT ![q] = @ \cup {r.t0, r.t1}]
      /\ served' = [served EXCEPT ![q] = @ \cup {r}]
      /\ UNCHANGED <<generators, mine, reqs, issued>>
  BY DEF JoinPresignature
<1>2. /\ \A n \in Node : spent'[n] = IF n = q THEN spent[n] \cup {r.t0, r.t1} ELSE spent[n]
      /\ \A n \in Node : served'[n] = IF n = q THEN served[n] \cup {r} ELSE served[n]
  BY <1>0, <1>1 DEF TypeOK
<1>3. {r.t0, r.t1} \cap issued[q] = {}
  <2>1. r.owner \in Node /\ {r.t0, r.t1} \subseteq issued[r.owner]
    BY <1>0 DEF MInv, OwnRequests, TypeOK, Request
  <2>. QED  BY <1>0, <1>1, <2>1 DEF MInv, DisjointIssued
<1>4. MineFresh'
  <2>1. ToSet(mine[q]) \subseteq issued[q]
    BY <1>0 DEF MInv, MineSound
  <2>2. \A j \in Running(q) : generators[q][j].mine => j \in issued[q]
    BY <1>0 DEF MInv, MineIssued
  <2>. QED  BY <1>1, <1>2, <1>3, <2>1, <2>2 DEF OnceInv, MineFresh, Running
<1>5. SpentWhy'
  BY <1>1, <1>2 DEF OnceInv, SpentWhy
<1>. QED
  BY <1>1, <1>2, <1>4, <1>5 DEF OnceInv, OnceFacts, ServedReqs, RequestsDisjoint, OwnSpent

-----------------------------------------------------------------------------
(* Every handler keeps OnceInv when ids are fresh and no peer forges an   *)
(* announce, whatever protocols fail.                                     *)
LEMMA OnceStep ==
  ASSUME FreshIds, Forged = {}
  PROVE  OnceInv /\ [Next]_vars => OnceInv'
<1> SUFFICES ASSUME OnceInv, [Next]_vars PROVE OnceInv'
  OBVIOUS
<1>1. MInv'
  BY MInvStep DEF OnceInv
<1>2. OnceFacts'
  <2>1. CASE \E r \in Forged : AnnounceForged(r)
    BY <2>1
  <2>2. ASSUME NEW p \in Node, NEW i \in Id, Generate(p, i) PROVE OnceFacts'
    BY <2>2, OnceGenerate
  <2>3. ASSUME NEW p \in Node, NEW m \in msgs, HandleMessage(p, m) PROVE OnceFacts'
    BY <2>3, OnceHandle
  <2>4. ASSUME NEW p \in Node, Poke(p) PROVE OnceFacts'
    BY <2>4, OncePoke
  <2>5. ASSUME NEW p \in Node, TakeMineTwice(p) PROVE OnceFacts'
    BY <2>5, OnceTake
  <2>6. ASSUME NEW p \in Node, NEW r \in reqs, JoinPresignature(p, r) PROVE OnceFacts'
    BY <2>6, OnceJoin
  <2>7. CASE UNCHANGED vars
    BY <2>7 DEF vars, OnceInv, OnceFacts, SpentWhy, ServedReqs, RequestsDisjoint,
                OwnSpent, MineFresh, Running
  <2>. QED  BY <2>1, <2>2, <2>3, <2>4, <2>5, <2>6, <2>7 DEF Next
<1>. QED  BY <1>1, <1>2 DEF OnceInv, OnceFacts

(* Initially nothing is announced, used, queued or running.               *)
LEMMA OnceInit == Init => OnceInv
<1> SUFFICES ASSUME Init PROVE OnceInv
  OBVIOUS
<1>1. MInv
  BY MInvInit
<1>2. \A p \in Node : mine[p] = <<>> /\ Running(p) = {}
  BY DEF Init, Running
<1>. QED
  BY <1>1, <1>2 DEF Init, OnceInv, SpentWhy, ServedReqs, RequestsDisjoint, OwnSpent,
                    MineFresh, ToSet

(* When generate() never reuses an id and every announced presignature    *)
(* comes from its owner's take_mine_twice(), every reachable state keeps  *)
(* the bookkeeping of used triples: a node uses only ids it drew or ids   *)
(* of a presignature it joined, an owner has used the ids of each of its  *)
(* presignatures, nothing on mine or running as mine is used, and no two  *)
(* presignatures share a triple; generator failures do not matter.        *)
LEMMA FreshIdsOnceInv ==
  ASSUME FreshIds, Forged = {}
  PROVE  Spec => []OnceInv
<1>1. Init => OnceInv
  BY OnceInit
<1>2. OnceInv /\ [Next]_vars => OnceInv'
  BY OnceStep
<1>. QED  BY <1>1, <1>2, PTL DEF Spec

(* Under the same hypotheses no triple is named by two different          *)
(* presignatures, whichever triple protocols fail and however messages    *)
(* are lost, duplicated or reordered: a Beaver triple is never used twice.*)
THEOREM FreshIdsRequestsDisjoint ==
  ASSUME FreshIds, Forged = {}
  PROVE  Spec => []RequestsDisjoint
<1>1. OnceInv => RequestsDisjoint
  BY DEF OnceInv
<1>. QED  BY <1>1, FreshIdsOnceInv, PTL

====
