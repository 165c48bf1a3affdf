---------------------------- MODULE TripleManager ----------------------------
(***************************************************************************)
(* A cluster of MPC nodes, each running one TripleManager                 *)
(* (src/node/src/protocol/triple.rs), exchanging triple-generation        *)
(* messages over an at-least-once, unordered transport.                   *)
(*                                                                         *)
(* Per node the state of triple.rs is kept as it is in the struct:        *)
(*   triples[p]     the key set of the HashMap of completed unspent        *)
(*                  triples (the cryptographic shares are abstracted);    *)
(*   generators[p]  the HashMap of ongoing generators, a total function   *)
(*                  on Id with Absent where the map has no entry;         *)
(*   mine[p]        the VecDeque of ids this node initiated and completed.*)
(* The cait-sith protocol behind a generator is abstracted as R rounds    *)
(* of broadcasts: a participant finishes round j once it holds the        *)
(* round-j message of every other participant (spec 4.2).                *)
(* The environment of the managers is modelled from the spec: the        *)
(* message router (4.6) and the presignature manager that consumes two    *)
(* triples per presignature (4.4).                                        *)
(***************************************************************************)
EXTENDS Naturals, Sequences, FiniteSets, SequencesExt

CONSTANTS
    Node,       \* the participants; every node runs one TripleManager
    Id,         \* the TripleIds the random generator may draw
    R,          \* number of broadcast rounds of the triple protocol
    MaxFail,    \* bound on the number of ids whose protocol may fail
    FreshIds,   \* TRUE: rand::random() never repeats an id (2^-64 odds)
    Forged,     \* presignatures a faulty peer may announce over any ids
    Absent      \* marks an id with no entry in a generators map

ASSUME IdAssumption == IsFiniteSet(Id)
ASSUME RAssumption == R \in Nat \ {0}
ASSUME MaxFailAssumption == MaxFail \in Nat
ASSUME FreshIdsAssumption == FreshIds \in BOOLEAN

VARIABLES
    triples,     \* triples[p]: ids of the completed unspent triples of p
    generators,  \* generators[p][i]: ongoing generator for i at p, or Absent
    mine,        \* mine[p]: queue of completed ids that p initiated
    msgs,        \* every TripleMessage ever sent (the network never forgets)
    reqs,        \* every presignature start ever announced, with its triples
    issued,      \* ghost: issued[p] = ids p drew in generate()
    spent,       \* ghost: spent[p] = ids p removed from triples to use them
    served,      \* ghost: served[q] = announced presignatures q has joined
    failed       \* ghost: ids whose protocol failed at some node

vars == <<triples, generators, mine, msgs, reqs, issued, spent, served, failed>>

Round == 0..(R - 1)

(* TripleGenerator { protocol, mine }: the protocol is its round, whether  *)
(* it has broadcast for that round, and the messages it has ingested.     *)
Gen == [mine: BOOLEAN, round: Round, sent: BOOLEAN, recv: SUBSET (Node \X Round)]

ASSUME AbsentAssumption == Absent \notin Gen

(* TripleMessage { id, epoch, from, data } addressed to one participant;  *)
(* data is abstracted to the protocol round it belongs to.                *)
Message == [id: Id, from: Node, to: Node, round: Round]

(* A presignature started by owner from two of its triples.               *)
Request == [owner: Node, t0: Id, t1: Id]

ASSUME ForgedAssumption == Forged \subseteq Request

Running(p) == {i \in Id : generators[p][i] # Absent}

-----------------------------------------------------------------------------
(* The protocol driver (spec 4.2) and the poke loop of triple.rs.         *)

(* cait_sith::triples::generate_triple: a fresh protocol instance.        *)
NewGenerator(isMine) == [mine |-> isMine, round |-> 0, sent |-> FALSE, recv |-> {}]

(* What generator.protocol.poke() answers is cait-sith's, not code of    *)
(* this repository; it is abstracted as in spec 4.2: the protocol can     *)
(* leave round j once it holds every peer's round-j message.              *)
Ready(p, g, j) == \A q \in Node \ {p} : <<q, j>> \in g.recv

(* The rounds at which a poke loop over g stops: R (Action::Return), or   *)
(* the first round from g.round on that is not Ready (Action::Wait).      *)
Halt(p, g) ==
    {k \in g.round..R : /\ k = R \/ ~Ready(p, g, k)
                        /\ \A j \in g.round..(k - 1) : Ready(p, g, j)}

(* Halt has exactly one element; the fallback keeps Reach total.          *)
Reach(p, g) == IF Halt(p, g) = {} THEN R ELSE CHOOSE k \in Halt(p, g) : TRUE

(* A plausible bug: the loop also broadcasts for the round it returns in. *)
EmittedPastEnd(p, g) ==
    {j \in g.round..R : j <= Reach(p, g) /\ (j > g.round \/ ~g.sent)}

(* Rounds g broadcasts (Action::SendMany) in one poke loop: every round   *)
(* it enters, and the current one if it has not sent it yet.              *)
Emitted(p, g) ==
    {j \in g.round..(R - 1) : j <= Reach(p, g) /\ (j > g.round \/ ~g.sent)}

(* The generator after a poke loop that ended in Action::Wait.            *)
Advance(p, g) == [g EXCEPT !.round = Reach(p, g), !.sent = TRUE]

(* A plausible bug: the broadcast loops over the wrong list and only     *)
(* reaches the node itself.                                               *)
OutboxSelfOnly(p, live) ==
    UNION {{[id |-> i, from |-> p, to |-> p, round |-> j] :
                j \in Emitted(p, generators[p][i])} : i \in live}

(* SendMany pushes one message per entry of self.participants, the node   *)
(* itself included.                                                       *)
Outbox(p, live) ==
    UNION {{[id |-> i, from |-> p, to |-> q, round |-> j] :
                q \in Node, j \in Emitted(p, generators[p][i])} : i \in live}

-----------------------------------------------------------------------------
Init ==
    /\ triples = [p \in Node |-> {}]
    /\ generators = [p \in Node |-> [i \in Id |-> Absent]]
    /\ mine = [p \in Node |-> <<>>]
    /\ msgs = {}
    /\ reqs = {}
    /\ issued = [p \in Node |-> {}]
    /\ spent = [p \in Node |-> {}]
    /\ served = [p \in Node |-> {}]
    /\ failed = {}

(* TripleManager::generate: a random id, a new generator with mine = true *)
(* inserted into the map, replacing any generator under the same id.      *)
Generate(p, i) ==
    /\ FreshIds => \A q \in Node : i \notin issued[q]
    /\ generators' = [generators EXCEPT ![p][i] = NewGenerator(TRUE)]
    /\ issued' = [issued EXCEPT ![p] = @ \cup {i}]
    /\ UNCHANGED <<triples, mine, msgs, reqs, spent, served, failed>>

(* TripleManager::get_or_generate: the existing generator, or a new one   *)
(* with mine = false for an id never seen (the Some results).             *)
GetOrGenerate(p, i) ==
    IF generators[p][i] = Absent THEN NewGenerator(FALSE) ELSE generators[p][i]

(* A plausible bug: get_or_generate without its check of the completed   *)
(* map.                                                                   *)
HandleMessageUnchecked(p, m) ==
    /\ m \in msgs
    /\ m.to = p
    /\ LET g == GetOrGenerate(p, m.id)
       IN generators' = [generators EXCEPT ![p][m.id] =
                            [g EXCEPT !.recv = @ \cup ({<<m.from, m.round>>} \ {<<p, m.round>>})]]
    /\ UNCHANGED <<triples, mine, msgs, reqs, issued, spent, served, failed>>

(* The message router hands m to get_or_generate and the protocol ingests *)
(* it (a node's own broadcast carries nothing its protocol waits for);    *)
(* get_or_generate returns None for a completed id and the message is    *)
(* dropped, which changes nothing.                                        *)
HandleMessage(p, m) ==
    /\ m \in msgs
    /\ m.to = p
    /\ m.id \notin triples[p]
    /\ LET g == GetOrGenerate(p, m.id)
       IN generators' = [generators EXCEPT ![p][m.id] =
                            [g EXCEPT !.recv = @ \cup ({<<m.from, m.round>>} \ {<<p, m.round>>})]]
    /\ UNCHANGED <<triples, mine, msgs, reqs, issued, spent, served, failed>>

(* generators.retain: a generator whose loop ended in Action::Wait is     *)
(* kept with its protocol advanced; one that returned or failed is not.   *)
Retained(p, live, done) ==
    [i \in Id |-> IF i \in live \ done THEN Advance(p, generators[p][i]) ELSE Absent]

(* A plausible bug: every returned id is pushed, not only mine ones.      *)
MineDoneAll(p, done) == done

(* The returned ids a poke pushes onto self.mine: those of generators     *)
(* with mine = true.                                                      *)
MineDone(p, done) == {i \in done : generators[p][i].mine}

(* A plausible bug: the triples.insert moved under `if generator.mine`.   *)
StoredMineOnly(p, done) == triples[p] \cup MineDone(p, done)

(* self.triples after the inserts of the returned triples.                *)
Stored(p, done) == triples[p] \cup done

(* result.map(|_| messages): Ok(messages) when no generator failed; Err   *)
(* otherwise, and the messages collected from every generator are lost.   *)
Sent(p, live, failing) == IF failing = {} THEN msgs \cup Outbox(p, live) ELSE msgs

(* TripleManager::poke: every generator is driven until it waits, returns *)
(* or fails. Returned ids are pushed onto mine in the map's iteration     *)
(* order, which the program does not fix.                                 *)
Poke(p) ==
    \E failing \in SUBSET Running(p) :
        LET live == Running(p) \ failing
            done == {i \in live : Reach(p, generators[p][i]) = R}
        IN
        /\ Cardinality(failed \cup failing) <= MaxFail
        /\ generators' = [generators EXCEPT ![p] = Retained(p, live, done)]
        /\ triples' = [triples EXCEPT ![p] = Stored(p, done)]
        /\ \E order \in SetToSeqs(MineDone(p, done)) :
              mine' = [mine EXCEPT ![p] = @ \o order]
        /\ msgs' = Sent(p, live, failing)
        /\ failed' = failed \cup failing
        /\ UNCHANGED <<reqs, issued, spent, served>>

(* TripleManager::take_mine_twice, called to start a presignature: pop    *)
(* two ids off mine; if both are still completed take both and announce   *)
(* the presignature, otherwise return None and the two ids stay popped.   *)
(* (Two equal ids would make the second remove().unwrap() panic; MineSound*)
(* shows the queue never holds an id twice, and the step is left out.)    *)
TakeMineTwice(p) ==
    /\ Len(mine[p]) >= 2
    /\ LET id0 == mine[p][1]
           id1 == mine[p][2]
       IN /\ mine' = [mine EXCEPT ![p] = SubSeq(@, 3, Len(@))]
          /\ \/ /\ {id0, id1} \subseteq triples[p]
                /\ id0 # id1
                /\ triples' = [triples EXCEPT ![p] = @ \ {id0, id1}]
                /\ spent' = [spent EXCEPT ![p] = @ \cup {id0, id1}]
                /\ reqs' = reqs \cup {[owner |-> p, t0 |-> id0, t1 |-> id1]}
             \/ /\ ~({id0, id1} \subseteq triples[p])
                /\ UNCHANGED <<triples, spent, reqs>>
    /\ UNCHANGED <<generators, msgs, issued, served, failed>>

(* TripleManager::take: remove the completed triples ids, one call each.  *)
Taken(q, ids) == triples[q] \ ids

(* PresignatureManager::get_or_generate for a presignature r announced by *)
(* another node (spec 4.4): it waits until both triples are completed     *)
(* here, then takes both (take(t0), take(t1)), once per presignature.     *)
JoinPresignature(q, r) ==
    /\ r \in reqs
    /\ r.owner # q
    /\ r \notin served[q]
    /\ {r.t0, r.t1} \subseteq triples[q]
    /\ triples' = [triples EXCEPT ![q] = Taken(q, {r.t0, r.t1})]
    /\ spent' = [spent EXCEPT ![q] = @ \cup {r.t0, r.t1}]
    /\ served' = [served EXCEPT ![q] = @ \cup {r}]
    /\ UNCHANGED <<generators, mine, msgs, reqs, issued, failed>>

(* A PresignatureMessage from a faulty or malicious peer that names       *)
(* triples it does not own: the receiving node's presignature manager     *)
(* treats it like any other.                                              *)
AnnounceForged(r) ==
    /\ reqs' = reqs \cup {r}
    /\ UNCHANGED <<triples, generators, mine, msgs, issued, spent, served, failed>>

Next ==
    \/ \E r \in Forged : AnnounceForged(r)
    \/ \E p \in Node :
           \/ \E i \in Id : Generate(p, i)
           \/ \E m \in msgs : HandleMessage(p, m)
           \/ Poke(p)
           \/ TakeMineTwice(p)
           \/ \E r \in reqs : JoinPresignature(p, r)

Spec == Init /\ [][Next]_vars

(* Each node's main loop pokes its manager again and again, the transport *)
(* delivers every message, and the presignature manager serves every      *)
(* announced presignature whose triples it holds.                         *)
(* FairOn(S) asks this of the nodes in S only: a node outside S may stop  *)
(* for good at any point (crash-stop), its peers are not told.            *)
FairOn(S) ==
    /\ \A p \in S : WF_vars(Poke(p))
    /\ \A p \in S, m \in Message : WF_vars(HandleMessage(p, m))
    /\ \A p \in S, r \in Request : WF_vars(JoinPresignature(p, r))

Fairness == FairOn(Node)

FairSpec == Spec /\ Fairness

-----------------------------------------------------------------------------
TypeOK ==
    /\ triples \in [Node -> SUBSET Id]
    /\ generators \in [Node -> [Id -> Gen \cup {Absent}]]
    /\ mine \in [Node -> Seq(Id)]
    /\ msgs \subseteq Message
    /\ reqs \subseteq Request
    /\ issued \in [Node -> SUBSET Id]
    /\ spent \in [Node -> SUBSET Id]
    /\ served \in [Node -> SUBSET Request]
    /\ failed \subseteq Id

(* At most once (spec 3.1, 8.1): no id is both completed and generating   *)
(* at a node. generate() and get_or_generate() both insert generators;    *)
(* only get_or_generate checks the completed map first.                   *)
AtMostOnce == \A p \in Node : triples[p] \cap Running(p) = {}

(* Every id a node holds, completed or generating, and every id on the    *)
(* network was drawn by some node's generate(): the induction behind      *)
(* AtMostOnce, since a fresh id then collides with nothing.               *)
Issued == UNION {issued[q] : q \in Node}

KnownIds ==
    /\ \A p \in Node : triples[p] \cup Running(p) \subseteq Issued
    /\ \A m \in msgs : m.id \in Issued

IInv == TypeOK /\ AtMostOnce /\ KnownIds

(* The mine queue of triple.rs holds each id at most once, and only ids   *)
(* the node itself initiated that are still completed: take_mine_twice    *)
(* relies on this, and unwraps both removes.                              *)
MineSound ==
    \A p \in Node :
        /\ \A a, b \in DOMAIN mine[p] : a # b => mine[p][a] # mine[p][b]
        /\ ToSet(mine[p]) \subseteq triples[p] \cap issued[p]

(* The induction behind MineSound: ids drawn by two nodes are distinct,   *)
(* a generator with mine = true runs an id its node drew, and every       *)
(* announced presignature names ids its owner drew. A take by a peer then *)
(* never removes an id from under the owner's mine queue.                 *)
DisjointIssued == \A p, q \in Node : p # q => issued[p] \cap issued[q] = {}

MineIssued ==
    \A p \in Node : \A i \in Running(p) : generators[p][i].mine => i \in issued[p]

OwnRequests == \A r \in reqs : {r.t0, r.t1} \subseteq issued[r.owner]

MInv == IInv /\ MineSound /\ DisjointIssued /\ MineIssued /\ OwnRequests

(* When a node starts a presignature with two of its triples, every other *)
(* node that has not yet joined it holds both triples, completed or still *)
(* generating, unless the protocol of one of them failed: poke completes  *)
(* a triple at the initiator only once every peer has broadcast its last  *)
(* round, and a peer's generator leaves its map only into self.triples or *)
(* on an Err. A peer that lost a triple otherwise would leave the         *)
(* presignature waiting for it for ever.                                  *)
PeerReady ==
    \A r \in reqs : \A q \in Node \ {r.owner} :
        r \notin served[q] => {r.t0, r.t1} \subseteq triples[q] \cup Running(q) \cup failed

(* The induction behind PeerReady. A peer q has                           *)
(* been heard on id i when some message of q names i.                     *)
Heard(i, q) == \E m \in msgs : m.id = i /\ m.from = q

(* A generator has ingested only messages that were sent to its node.    *)
RecvSent ==
    \A p \in Node : \A i \in Running(p) : \A e \in generators[p][i].recv :
        [id |-> i, from |-> e[1], to |-> p, round |-> e[2]] \in msgs

(* poke() stores a triple only after every peer's last-round message, and *)
(* take_mine_twice() announces only stored triples.                       *)
CompletedHeard ==
    \A p \in Node : \A i \in triples[p] : \A q \in Node \ {p} : Heard(i, q)

AnnouncedHeard ==
    \A r \in reqs : \A q \in Node \ {r.owner} : Heard(r.t0, q) /\ Heard(r.t1, q)

(* A node that has sent for an id still runs it, holds it, has used it,  *)
(* or its protocol failed: poke() drops a generator only into             *)
(* self.triples or on an Err.                                             *)
SenderHolds ==
    \A m \in msgs :
        m.id \in triples[m.from] \cup Running(m.from) \cup spent[m.from] \cup failed

(* No triple serves two presignatures (spec 3.2): two different          *)
(* presignatures announced by take_mine_twice() never name a common       *)
(* triple, whatever generators fail, messages are duplicated or peers     *)
(* join. A breach is a reused Beaver triple, which leaks the signing key.*)
RequestsDisjoint ==
    \A r1, r2 \in reqs : r1 # r2 => {r1.t0, r1.t1} \cap {r2.t0, r2.t1} = {}

(* The induction behind RequestsDisjoint. A node uses only ids it drew    *)
(* itself or ids of a presignature it joined; an owner has used the ids   *)
(* of its presignatures; nothing queued on mine, or running with          *)
(* mine = true, has been used.                                            *)
SpentWhy ==
    \A q \in Node : \A i \in spent[q] :
        i \in issued[q] \/ \E r \in served[q] : i \in {r.t0, r.t1}

ServedReqs == \A q \in Node : served[q] \subseteq reqs

OwnSpent == \A r \in reqs : {r.t0, r.t1} \subseteq spent[r.owner]

MineFresh ==
    \A p \in Node :
        /\ ToSet(mine[p]) \cap spent[p] = {}
        /\ \A i \in Running(p) : generators[p][i].mine => i \notin spent[p]

OnceInv ==
    /\ MInv /\ SpentWhy /\ ServedReqs /\ RequestsDisjoint /\ OwnSpent /\ MineFresh

(* The strengthening of PeerReady that every handler preserves.          *)
PInv == OnceInv /\ RecvSent /\ CompletedHeard /\ AnnouncedHeard /\ SenderHolds

(* poke()'s generators.retain is the only place a generator leaves a     *)
(* node's map, and it drops one only when its protocol failed, or when it *)
(* returned: the triple is then in self.triples, and on self.mine if the  *)
(* generator was mine. No generator is dropped with its work lost.        *)
GeneratorExit ==
    [][\A p \in Node : \A i \in Running(p) \ Running(p)' :
           \/ i \in failed'
           \/ /\ i \in triples'[p]
              /\ generators[p][i].mine => i \in ToSet(mine'[p])]_vars

(* No reuse (spec 3.2 and 4.3): an id a node has used is never generating *)
(* or completed at that node again. get_or_generate carries a TODO on     *)
(* spent ids: it re-creates a generator for them.                         *)
NoResurrection == \A p \in Node : spent[p] \cap (triples[p] \cup Running(p)) = {}

(* Every generator for an id its node has not used eventually leaves the  *)
(* map: poke drives each one through every round, several rounds in one   *)
(* poke when their messages are there, until it returns. (A generator      *)
(* re-created for a used id by get_or_generate is NoResurrection's         *)
(* matter, and is left out here.)                                          *)
GeneratorsTerminate ==
    \A p \in Node, i \in Id :
        (i \in Running(p) /\ i \notin spent[p]) ~> i \notin Running(p)

(* A generator whose protocol fails nowhere eventually leaves the map,    *)
(* even when the protocols of other ids fail (spec 7: a failure drops     *)
(* that generator only).                                                  *)
HealthyGeneratorsTerminate ==
    \A p \in Node, i \in Id : i \in Running(p) ~> (i \notin Running(p) \/ i \in failed)

(* Every presignature a node announces is eventually joined by every     *)
(* other node: the triples it names complete there.                       *)
RequestsServed ==
    \A q \in Node, r \in Request :
        (r \in reqs /\ r.owner # q) ~> r \in served[q]

=============================================================================
