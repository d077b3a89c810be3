------------------------------ MODULE Fetcher ------------------------------
(***************************************************************************)
(* The block fetcher (network/fetcher/fetcher.go): its loop with one step   *)
(* per turn of the select and one for the work at the top of the loop, the  *)
(* goroutines that insert starts, and a chain that others move meanwhile.   *)
(*                                                                         *)
(* An absent map entry is an empty sequence, a count of 0 or NoPeer, so     *)
(* deleting a counter that has become 0 changes nothing.  Of time the       *)
(* model keeps which timer is set: whatever it is compared with may have    *)
(* passed or not.                                                          *)
(***************************************************************************)
EXTENDS Integers, FiniteSets, FiniteSetsExt, SequencesExt

CONSTANTS
  Block,         \* the blocks of the chain, without genesis
  Hash,          \* those of them that peers talk about
  Peer,
  Genesis,
  NoPeer,
  Empty,         \* blocks without transactions
  parentOf, numberOf, bodyOf,
  hashLimit, blockLimit, maxUncleDist, maxQueueDist,
  MaxList,       \* bound: announcements of one hash by one peer at a time
  MaxUnder       \* bound: how far below zero a counter may go

ASSUME FetcherAssumption ==
  /\ Hash \subseteq Block
  /\ IsFiniteSet(Hash)
  /\ Genesis \notin Block
  /\ NoPeer \notin Peer
  /\ Empty \subseteq Block
  /\ parentOf \in [Block -> Block \cup {Genesis}]
  /\ numberOf \in [Block \cup {Genesis} -> Nat]
  /\ \A b \in Block : numberOf[b] = numberOf[parentOf[b]] + 1
  /\ {hashLimit, blockLimit, MaxList} \subseteq Nat \ {0}
  /\ {maxUncleDist, maxQueueDist, MaxUnder} \subseteq Nat

VARIABLES
  f,               \* the maps of the Fetcher
  fetchTimer,      \* is fetchTimer set, or its tick not yet received?
  completeTimer,
  pc,              \* the loop: "top", "select" or "returned"
  importing,       \* hashes with a goroutine of insert that has not imported yet
  finished,        \* hashes with one that is sending to f.done
  known,           \* blocks that getBlock finds
  height           \* what chainHeight returns

loopVars == <<f, fetchTimer, completeTimer, pc>>
chainVars == <<known, height>>
vars == <<loopVars, importing, finished, chainVars>>

\* An announcement: the peer and the number it claims, 0 in the old protocol.
Announce(h) == [origin : Peer, number : {0, numberOf[h]}]

\* The number of announcements of p in the maps, for the hashes S.
Held(g, p, S) ==
  LET all(h) == g.announced[h] \o g.fetching[h] \o g.fetched[h] \o g.completing[h]
      ofPeer(h) == Cardinality({i \in DOMAIN all(h) : all(h)[i].origin = p})
  IN MapThenSumSet(ofPeer, S)

Filled(map) == {h \in Hash : map[h] # <<>>}

-----------------------------------------------------------------------------
(***************************************************************************)
(* Operations on the maps.                                                 *)
(***************************************************************************)

Without(map, S) == [h \in Hash |-> IF h \in S THEN <<>> ELSE map[h]]

\* A fault: the counters are left as they are for what was only announced.
forgetHashFetched(g, S) ==
  [g EXCEPT
    !.announces = [p \in Peer |-> @[p] - Held([g EXCEPT !.announced = Without(@, S)], p, S)],
    !.announced = Without(@, S), !.fetching = Without(@, S),
    !.fetched = Without(@, S), !.completing = Without(@, S)]

\* forgetHash for each of S: all traces of the announcements go, and each of
\* them is taken off the counter of its peer.
forgetHash(g, S) ==
  [g EXCEPT
    !.announces = [p \in Peer |-> @[p] - Held(g, p, S)],
    !.announced = Without(@, S), !.fetching = Without(@, S),
    !.fetched = Without(@, S), !.completing = Without(@, S)]

\* A fault: the hash is not taken out of queued.
forgetBlockCount(g, S) ==
  [g EXCEPT
    !.queues = [p \in Peer |-> @[p] - Cardinality({h \in S : g.queued[h] = p})]]

\* forgetBlock for each of S.
forgetBlock(g, S) ==
  [g EXCEPT
    !.queues = [p \in Peer |-> @[p] - Cardinality({h \in S : g.queued[h] = p})],
    !.queued = [h \in Hash |-> IF h \in S THEN NoPeer ELSE @[h]]]

TooFar(number) ==
  number - height < -maxUncleDist \/ number - height > maxQueueDist

\* When blocks S of peer p are enqueued one after the other, those that can be
\* let in: not too far away, and as many as the limit has room for.
Admitted(g, p, S) ==
  LET near == {h \in S : ~TooFar(numberOf[h])}
      room == blockLimit - g.queues[p]
  IN {in \in SUBSET near : Cardinality(in) = room \/ (Cardinality(in) < room /\ in = near)}

\* A fault: a block that is queued already is queued once more.
enqueueAgain(g, p, S, in) ==
  [forgetHash(g, S \ in) EXCEPT
    !.queues[p] = @ + Cardinality(in),
    !.queued = [h \in Hash |-> IF h \in in THEN p ELSE @[h]],
    !.queue = @ \cup in]

\* enqueue for each of S, of which the blocks "in" are let in.
enqueue(g, p, S, in) ==
  LET new == {h \in in : g.queued[h] = NoPeer} IN
  [forgetHash(g, S \ in) EXCEPT
    !.queues[p] = @ + Cardinality(new),
    !.queued = [h \in Hash |-> IF h \in new THEN p ELSE @[h]],
    !.queue = @ \cup new]

-----------------------------------------------------------------------------
(***************************************************************************)
(* The loop.                                                               *)
(***************************************************************************)

Init ==
  /\ f = [announces |-> [p \in Peer |-> 0],
          announced |-> [h \in Hash |-> <<>>],
          fetching |-> [h \in Hash |-> <<>>],
          fetched |-> [h \in Hash |-> <<>>],
          completing |-> [h \in Hash |-> <<>>],
          queue |-> {},
          queues |-> [p \in Peer |-> 0],
          queued |-> [h \in Hash |-> NoPeer]]
  /\ fetchTimer = TRUE
  /\ completeTimer = TRUE
  /\ pc = "top"
  /\ importing = {}
  /\ finished = {}
  /\ known = {Genesis}
  /\ height = 0

\* The queued blocks that the top of the loop pops: the priority queue gives
\* them by number and the first one that is too high stops it.
Popped == {h \in f.queue : numberOf[h] <= height + 1}

\* Those that are not worth an import any more.
Outdated(h) == numberOf[h] + maxUncleDist < height \/ h \in known

\* Fetches that have expired are forgotten, then the queue is emptied as far as
\* the chain allows.
Top(expired) ==
  LET old == {h \in Popped : Outdated(h)} IN
  /\ pc = "top"
  /\ \A h \in expired : f.fetching[h] # <<>>
  /\ f' = [forgetBlock(forgetHash(f, expired), old) EXCEPT !.queue = @ \ Popped]
  /\ importing' = importing \cup (Popped \ old)
  /\ pc' = "select"
  /\ UNCHANGED <<fetchTimer, completeTimer, finished, chainVars>>

\* The turn of the select that leaves the maps as g and the timers as t and c.
Turn(g, t, c) ==
  /\ pc = "select"
  /\ f' = g
  /\ fetchTimer' = t
  /\ completeTimer' = c
  /\ pc' = "top"
  /\ UNCHANGED <<importing, chainVars>>

\* A fault: a hash whose body is being fetched may be announced.
mayAnnounceAgain(a, h) ==
  /\ f.announces[a.origin] + 1 <= hashLimit
  /\ a.number > 0 => ~TooFar(a.number)
  /\ f.fetching[h] = <<>>

\* What the loop asks of an announcement.
mayAnnounce(a, h) ==
  /\ f.announces[a.origin] + 1 <= hashLimit
  /\ a.number > 0 => ~TooFar(a.number)
  /\ f.fetching[h] = <<>>
  /\ f.completing[h] = <<>>

\* A peer announces a hash; the timer is set for the first one.
Notify(a, h) ==
  LET g == [f EXCEPT !.announces[a.origin] = @ + 1, !.announced[h] = Append(@, a)] IN
  /\ Held(f, a.origin, {h}) < MaxList
  /\ f.announces[a.origin] >= -MaxUnder
  /\ IF mayAnnounce(a, h)
     THEN Turn(g, fetchTimer \/ Cardinality(Filled(g.announced)) = 1, completeTimer)
     ELSE Turn(f, fetchTimer, completeTimer)
  /\ UNCHANGED finished

\* A peer has sent a whole block.
Enqueue(p, h) ==
  /\ \E in \in Admitted(f, p, {h}) : Turn(enqueue(f, p, {h}, in), fetchTimer, completeTimer)
  /\ UNCHANGED finished

\* The loop receives from f.done.
Done(h) ==
  /\ h \in finished
  /\ Turn(forgetBlock(forgetHash(f, {h}), {h}), fetchTimer, completeTimer)
  /\ finished' = finished \ {h}

\* The maps after a tick has moved hashes S from one list to requests in another:
\* pick is the announcement whose peer is asked.
Request(list, S, pick) ==
  [h \in Hash |-> IF h \in S \ known THEN <<pick[h]>> ELSE list[h]]

\* A fault: the timer is not set again.
rescheduleNever(g) == FALSE

rescheduleFetch(g) == Filled(g.announced) # {}

\* fetchTimer: headers of the announcements that are due are requested.
FetchTick(due, pick) ==
  LET g == forgetHash(f, due)
      moved == [g EXCEPT !.fetching = Request(@, due, pick)]
  IN
  /\ fetchTimer
  /\ \A h \in due : pick[h] \in ToSet(f.announced[h])
  /\ Turn(moved, rescheduleFetch(moved), completeTimer)
  /\ UNCHANGED finished

\* completeTimer: the bodies of all blocks with a header are requested, and
\* rescheduleComplete finds none left.
CompleteTick(pick) ==
  LET due == Filled(f.fetched)
      g == forgetHash(f, due)
  IN
  /\ completeTimer
  /\ \A h \in due : pick[h] \in ToSet(f.fetched[h])
  /\ Turn([g EXCEPT !.completing = Request(@, due, pick)], fetchTimer, FALSE)
  /\ UNCHANGED finished

\* Is the header of h from peer p one that the fetcher asked for?
Requested(p, h) ==
  /\ f.fetching[h] # <<>>
  /\ f.fetching[h][1].origin = p
  /\ f.fetched[h] = <<>>
  /\ f.completing[h] = <<>>
  /\ f.queued[h] = NoPeer

\* FilterHeaders with the header of h, alone as pm.handleMsg passes it on.
FilterHeaders(p, h) ==
  LET a == f.fetching[h][1]
      headed == [f EXCEPT !.fetched[h] = Append(@, a)]
      whole == [f EXCEPT !.completing[h] = <<a>>]
      set == completeTimer \/ Cardinality(Filled(headed.fetched)) = 1
  IN
  /\ \/ /\ ~Requested(p, h)
        /\ Turn(f, fetchTimer, completeTimer)
     \/ /\ Requested(p, h)
        /\ a.number # numberOf[h] \/ h \in known
        /\ Turn(forgetHash(f, {h}), fetchTimer, completeTimer)
     \/ /\ Requested(p, h) /\ a.number = numberOf[h] /\ h \notin known
        /\ h \in Empty
        /\ \E in \in Admitted(whole, p, {h}) :
             Turn(enqueue(whole, p, {h}, in), fetchTimer, completeTimer)
     \/ /\ Requested(p, h) /\ a.number = numberOf[h] /\ h \notin known
        /\ h \notin Empty
        /\ Turn(headed, fetchTimer, set)
  /\ UNCHANGED finished

\* FilterBodies with some bodies: every request they answer is forgotten or
\* queued.
FilterBodies(p, bodies) ==
  LET matched == {h \in Hash :
        /\ f.completing[h] # <<>> /\ f.queued[h] = NoPeer
        /\ f.completing[h][1].origin = p /\ bodyOf[h] \in bodies}
      g == forgetHash(f, matched \cap known)
  IN
  /\ \E in \in Admitted(g, p, matched \ known) :
       Turn(enqueue(g, p, matched \ known, in), fetchTimer, completeTimer)
  /\ UNCHANGED finished

\* Stop: the loop sees f.quit closed.  Turns that it takes before that are as if
\* Stop had come later.
Stop ==
  /\ pc = "select"
  /\ pc' = "returned"
  /\ UNCHANGED <<f, fetchTimer, completeTimer, importing, finished, chainVars>>

-----------------------------------------------------------------------------
(***************************************************************************)
(* What happens beside the loop.                                           *)
(***************************************************************************)

\* A goroutine of insert: with the parent known the block may be imported, or
\* turned down by verifyHeader or insertChain; then the hash is sent to f.done.
Insert(h) ==
  /\ h \in importing
  /\ importing' = importing \ {h}
  /\ finished' = finished \cup {h}
  /\ \/ UNCHANGED chainVars
     \/ /\ parentOf[h] \in known
        /\ known' = known \cup {h}
        /\ height' \in {height, numberOf[h]}
  /\ UNCHANGED loopVars

\* The downloader and the miner add blocks, and the head may be switched to
\* another chain.
ChainMoves(b) ==
  /\ parentOf[b] \in known
  /\ known' = known \cup {b}
  /\ height' \in {numberOf[c] : c \in known'}
  /\ UNCHANGED <<loopVars, importing, finished>>

Next ==
  \/ \E S \in SUBSET Hash : Top(S)
  \/ \E h \in Hash : \E a \in Announce(h) : Notify(a, h)
  \/ \E p \in Peer, h \in Hash : Enqueue(p, h) \/ FilterHeaders(p, h)
  \/ \E p \in Peer : \E bodies \in SUBSET {bodyOf[h] : h \in Hash} : FilterBodies(p, bodies)
  \/ \E due \in SUBSET Filled(f.announced) :
       \E pick \in [due -> UNION {Announce(h) : h \in due}] : FetchTick(due, pick)
  \/ \E pick \in [Filled(f.fetched) -> UNION {Announce(h) : h \in Filled(f.fetched)}] :
       CompleteTick(pick)
  \/ \E h \in Hash : Done(h) \/ Insert(h)
  \/ \E b \in Block : ChainMoves(b)
  \/ Stop

Spec == Init /\ [][Next]_vars

-----------------------------------------------------------------------------
TypeOK ==
  /\ {f.announced, f.fetching, f.fetched, f.completing} \subseteq
       [Hash -> Seq([origin : Peer, number : Nat])]
  /\ f.queue \in SUBSET Hash
  /\ f.queues \in [Peer -> Nat]
  /\ f.queued \in [Hash -> Peer \cup {NoPeer}]
  /\ importing \in SUBSET Hash
  /\ finished \in SUBSET Hash
  /\ known \in SUBSET (Block \cup {Genesis})
  /\ height \in Nat

\* The counter of a peer's queued blocks is exact, so blockLimit neither lets
\* more blocks in nor locks a peer out for blocks that are gone.
QueuesExact ==
  \A p \in Peer :
    /\ f.queues[p] = Cardinality({h \in Hash : f.queued[h] = p})
    /\ f.queues[p] <= blockLimit

\* A hash in queued, which bars the block from being queued again, is in the
\* queue or has one goroutine that imports it or reports to f.done: no block is
\* imported twice at a time, and none is barred for good.
QueuedIsPending ==
  /\ {h \in Hash : f.queued[h] # NoPeer} = f.queue \cup importing \cup finished
  /\ f.queue \cap (importing \cup finished) = {}
  /\ importing \cap finished = {}

\* The counter against hashLimit never exceeds the announcements of the peer
\* that are still in the maps: a peer is not held to account for old ones.
NoOldAnnounces ==
  \A p \in Peer : f.announces[p] <= Held(f, p, Hash)

\* What is announced or has a header has a timer that will bring it on; the
\* timers are only set for the first entry and after a tick.
TimersSet ==
  /\ Filled(f.announced) # {} => fetchTimer
  /\ Filled(f.fetched) # {} => completeTimer

\* A hash that is being fetched is not announced as well, so that it is asked of
\* one peer at a time, and a header that was fetched belongs to a fetch.
OneStage ==
  \A h \in Hash :
    /\ f.announced[h] # <<>> => f.fetching[h] = <<>> /\ f.completing[h] = <<>>
    /\ f.fetched[h] # <<>> => f.fetching[h] # <<>> /\ f.completing[h] = <<>>

=============================================================================
