--------------------------- MODULE FetcherProofs ---------------------------
(***************************************************************************)
(* Proofs about the block fetcher: for any blocks, peers and limits its     *)
(* maps, counters and timers stay consistent.                              *)
(***************************************************************************)
EXTENDS Fetcher, FiniteSetTheorems, TLAPS

List == [Hash -> Seq([origin : Peer, number : Nat])]

\* The maps as a record; nothing is said of the announcement counters.
Maps(g) ==
  /\ g = [announces |-> g.announces, announced |-> g.announced,
          fetching |-> g.fetching, fetched |-> g.fetched,
          completing |-> g.completing, queue |-> g.queue,
          queues |-> g.queues, queued |-> g.queued]
  /\ g.announced \in List
  /\ g.fetching \in List
  /\ g.fetched \in List
  /\ g.completing \in List
  /\ g.queue \in SUBSET Hash
  /\ g.queues \in [Peer -> Nat]
  /\ g.queued \in [Hash -> Peer \cup {NoPeer}]

\* The counters are exact in g.
Exact(g) ==
  \A p \in Peer :
    /\ g.queues[p] = Cardinality({h \in Hash : g.queued[h] = p})
    /\ g.queues[p] <= blockLimit

Stages(g) ==
  \A h \in Hash :
    /\ g.announced[h] # <<>> => g.fetching[h] = <<>> /\ g.completing[h] = <<>>
    /\ g.fetched[h] # <<>> => g.fetching[h] # <<>> /\ g.completing[h] = <<>>

Queued(g) == {h \in Hash : g.queued[h] # NoPeer}

\* What holds of the maps alone.
Good(g) == Maps(g) /\ Exact(g) /\ Stages(g)

ChainOK ==
  /\ importing \in SUBSET Hash
  /\ finished \in SUBSET Hash
  /\ known \in SUBSET (Block \cup {Genesis})
  /\ height \in Nat

\* The inductive invariant.
IInv == Good(f) /\ ChainOK /\ QueuedIsPending /\ TimersSet

-----------------------------------------------------------------------------
(***************************************************************************)
(* The operations on the maps.                                             *)
(***************************************************************************)

\* Leaving hashes out of a list of announcements.
LEMMA WithoutList ==
  ASSUME NEW map \in List, NEW S
  PROVE  /\ Without(map, S) \in List
         /\ Filled(Without(map, S)) = Filled(map) \ S
<1>1. <<>> \in Seq([origin : Peer, number : Nat])
  OBVIOUS
<1>2. Without(map, S) \in List
  BY <1>1 DEF Without, List
<1>3. \A h \in Hash : Without(map, S)[h] = IF h \in S THEN <<>> ELSE map[h]
  BY DEF Without
<1>4. Filled(Without(map, S)) = Filled(map) \ S
  BY <1>3 DEF Filled
<1> QED
  BY <1>2, <1>4

\* forgetHash leaves the queue alone, and what remains is consistent.
LEMMA ForgetHash ==
  ASSUME NEW g, Good(g), NEW S
  PROVE  /\ Good(forgetHash(g, S))
         /\ forgetHash(g, S).queue = g.queue
         /\ forgetHash(g, S).queues = g.queues
         /\ forgetHash(g, S).queued = g.queued
         /\ forgetHash(g, S).announced = Without(g.announced, S)
         /\ forgetHash(g, S).fetching = Without(g.fetching, S)
         /\ forgetHash(g, S).fetched = Without(g.fetched, S)
         /\ forgetHash(g, S).completing = Without(g.completing, S)
<1> DEFINE r == forgetHash(g, S)
<1> DEFINE A == [p \in Peer |-> g.announces[p] - Held(g, p, S)]
<1>1. r = [announces |-> A, announced |-> Without(g.announced, S),
           fetching |-> Without(g.fetching, S), fetched |-> Without(g.fetched, S),
           completing |-> Without(g.completing, S), queue |-> g.queue,
           queues |-> g.queues, queued |-> g.queued]
  <2> HIDE DEF A
  <2>1. r = [g EXCEPT
              !.announces = A,
              !.announced = Without(@, S), !.fetching = Without(@, S),
              !.fetched = Without(@, S), !.completing = Without(@, S)]
    BY DEF forgetHash, A
  <2> QED
    BY <2>1 DEF Good, Maps
<1> HIDE DEF A
<1>2. Maps(r)
  BY <1>1, WithoutList DEF Good, Maps
<1>3. Exact(r)
  BY <1>1 DEF Good, Exact
<1>4. Stages(r)
  BY <1>1 DEF Good, Stages, Without
<1> QED
  BY <1>1, <1>2, <1>3, <1>4 DEF Good

\* forgetBlock takes the blocks out of queued and off the counters.
LEMMA ForgetBlock ==
  ASSUME NEW g, Good(g), NEW S \in SUBSET Hash
  PROVE  /\ Good(forgetBlock(g, S))
         /\ forgetBlock(g, S).queue = g.queue
         /\ forgetBlock(g, S).announced = g.announced
         /\ forgetBlock(g, S).fetched = g.fetched
         /\ Queued(forgetBlock(g, S)) = Queued(g) \ S
<1> DEFINE r == forgetBlock(g, S)
           Of(p) == {h \in Hash : g.queued[h] = p}
           C == [p \in Peer |-> g.queues[p] - Cardinality({h \in S : g.queued[h] = p})]
           Q == [h \in Hash |-> IF h \in S THEN NoPeer ELSE g.queued[h]]
<1>1. r = [announces |-> g.announces, announced |-> g.announced,
           fetching |-> g.fetching, fetched |-> g.fetched,
           completing |-> g.completing, queue |-> g.queue,
           queues |-> C, queued |-> Q]
  <2>1. r = [g EXCEPT !.queues = C, !.queued = Q]
    BY DEF forgetBlock
  <2> HIDE DEF C, Q
  <2> QED
    BY <2>1 DEF Good, Maps
<1>2. \A p \in Peer : {h \in Hash : Q[h] = p} = Of(p) \ S
  BY FetcherAssumption
<1>3. \A p \in Peer : /\ C[p] = Cardinality(Of(p) \ S)
                      /\ C[p] \in Nat
                      /\ C[p] <= blockLimit
  <2> TAKE p \in Peer
  <2>1. IsFiniteSet(Of(p))
    BY FetcherAssumption, FS_Subset
  <2>2. /\ IsFiniteSet(Of(p) \ S)
        /\ Cardinality(Of(p) \ S) = Cardinality(Of(p)) - Cardinality(Of(p) \cap S)
    BY <2>1, FS_Difference
  <2>3. Of(p) \cap S = {h \in S : g.queued[h] = p}
    OBVIOUS
  <2>4. g.queues[p] = Cardinality(Of(p)) /\ g.queues[p] <= blockLimit
    BY DEF Good, Exact
  <2>5. C[p] = Cardinality(Of(p) \ S)
    BY <2>2, <2>3, <2>4
  <2>6. /\ Cardinality(Of(p) \ S) \in Nat
        /\ Cardinality(Of(p)) \in Nat
        /\ Cardinality(Of(p) \ S) <= Cardinality(Of(p))
    BY <2>1, <2>2, FS_CardinalityType, FS_Subset
  <2> QED
    BY <2>4, <2>5, <2>6, FetcherAssumption
<1>4. C \in [Peer -> Nat] /\ Q \in [Hash -> Peer \cup {NoPeer}]
  BY <1>3 DEF Good, Maps
<1> HIDE DEF C, Q
<1>5. Maps(r) /\ Stages(r)
  BY <1>1, <1>4 DEF Good, Maps, Stages
<1>6. Exact(r)
  BY <1>1, <1>2, <1>3 DEF Exact
<1>7. Queued(r) = Queued(g) \ S
  BY <1>1 DEF Queued, Q
<1> QED
  BY <1>1, <1>5, <1>6, <1>7 DEF Good

\* That r is g with blocks S enqueued, of which "in" were let in.
IsEnqueued(g, S, in, r) ==
  /\ Good(r)
  /\ r.queue = g.queue \cup (in \ Queued(g))
  /\ r.announced = Without(g.announced, S \ in)
  /\ r.fetched = Without(g.fetched, S \ in)
  /\ Queued(r) = Queued(g) \cup in

\* enqueue forgets what is not let in and queues the rest, once.
LEMMA EnqueueIs ==
  ASSUME NEW g, Good(g), NEW p \in Peer, NEW S \in SUBSET Hash,
         NEW in, in \in Admitted(g, p, S)
  PROVE  IsEnqueued(g, S, in, enqueue(g, p, S, in))
<1> DEFINE r == enqueue(g, p, S, in)
           k == forgetHash(g, S \ in)
           new == {h \in in : g.queued[h] = NoPeer}
           Of(q) == {h \in Hash : g.queued[h] = q}
           C == [g.queues EXCEPT ![p] = @ + Cardinality(new)]
           Q == [h \in Hash |-> IF h \in new THEN p ELSE g.queued[h]]
<1>1. /\ Good(k)
      /\ k.queue = g.queue
      /\ k.queues = g.queues
      /\ k.queued = g.queued
      /\ k.announced = Without(g.announced, S \ in)
      /\ k.fetched = Without(g.fetched, S \ in)
  BY ForgetHash
<1>2. r = [k EXCEPT !.queues[p] = @ + Cardinality(new),
                    !.queued = [h \in Hash |-> IF h \in new THEN p ELSE @[h]],
                    !.queue = @ \cup new]
  BY DEF enqueue
<1> HIDE DEF k, r, new
<1>3. r = [announces |-> k.announces, announced |-> k.announced,
           fetching |-> k.fetching, fetched |-> k.fetched,
           completing |-> k.completing, queue |-> g.queue \cup new,
           queues |-> C, queued |-> Q]
  BY <1>1, <1>2 DEF Good, Maps
<1>4. /\ in \in SUBSET Hash
      /\ Cardinality(in) <= blockLimit - g.queues[p]
  <2>1. Cardinality(in) \in Nat
    BY FetcherAssumption, FS_Subset, FS_CardinalityType DEF Admitted
  <2> QED
    BY <2>1, FetcherAssumption DEF Admitted, Good, Maps
<1>5. /\ new \in SUBSET Hash
      /\ new = in \ Queued(g)
      /\ IsFiniteSet(new)
      /\ Cardinality(new) \in Nat
      /\ Cardinality(new) <= Cardinality(in)
      /\ Cardinality(in) \in Nat
  <2>1. new \in SUBSET in /\ new \in SUBSET Hash /\ new = in \ Queued(g)
    BY <1>4 DEF new, Queued
  <2>2. IsFiniteSet(in)
    BY <1>4, FetcherAssumption, FS_Subset
  <2> QED
    BY <2>1, <2>2, FS_Subset, FS_CardinalityType
<1>6. \A q \in Peer : /\ C[q] = Cardinality({h \in Hash : Q[h] = q})
                      /\ C[q] \in Nat
                      /\ C[q] <= blockLimit
  <2> TAKE q \in Peer
  <2>1. /\ g.queues[q] = Cardinality(Of(q))
        /\ g.queues[q] <= blockLimit
        /\ g.queues[q] \in Nat
    BY DEF Good, Exact, Maps
  <2>2. CASE q = p
    <3>1. {h \in Hash : Q[h] = q} = Of(p) \cup new
      BY <2>2, <1>5, FetcherAssumption DEF new
    <3>2. Of(p) \cap new = {}
      BY FetcherAssumption DEF new
    <3>3. IsFiniteSet(Of(p))
      BY FetcherAssumption, FS_Subset
    <3>4. Cardinality(Of(p) \cup new) = Cardinality(Of(p)) + Cardinality(new)
      <4>1. Cardinality(Of(p)) \in Nat
        BY <3>3, FS_CardinalityType
      <4>2. Cardinality(Of(p) \cup new)
              = Cardinality(Of(p)) + Cardinality(new) - Cardinality(Of(p) \cap new)
        BY <3>3, <1>5, FS_Union
      <4>3. Cardinality(Of(p) \cap new) = 0
        BY <3>2, FS_EmptySet
      <4> QED
        BY <4>1, <4>2, <4>3, <1>5
    <3>5. C[q] = g.queues[p] + Cardinality(new)
      BY <2>2 DEF Good, Maps
    <3> QED
      <4>1. g.queues[p] = Cardinality(Of(p)) /\ g.queues[p] \in Nat
        BY <2>1, <2>2
      <4>2. C[q] = Cardinality({h \in Hash : Q[h] = q})
        BY <3>1, <3>4, <3>5, <4>1
      <4>3. C[q] \in Nat /\ C[q] <= blockLimit
        BY <3>5, <4>1, <1>4, <1>5, FetcherAssumption
      <4> QED
        BY <4>2, <4>3
  <2>3. CASE q # p
    <3>1. {h \in Hash : Q[h] = q} = Of(q)
      BY <2>3, FetcherAssumption DEF new
    <3> QED
      BY <2>1, <2>3, <3>1 DEF Good, Maps
  <2> QED
    BY <2>2, <2>3
<1>7. C \in [Peer -> Nat] /\ Q \in [Hash -> Peer \cup {NoPeer}]
  BY <1>6 DEF Good, Maps
<1>8. Queued(r) = Queued(g) \cup in
  BY <1>3, <1>4, <1>5, FetcherAssumption DEF Queued
<1> HIDE DEF C, Q
<1>9. Maps(r) /\ Stages(r)
  BY <1>1, <1>3, <1>5, <1>7 DEF Good, Maps, Stages
<1>10. Exact(r)
  BY <1>3, <1>6 DEF Exact
<1>11. Good(r)
  BY <1>9, <1>10 DEF Good
<1>12. /\ r.queue = g.queue \cup (in \ Queued(g))
       /\ r.announced = Without(g.announced, S \ in)
       /\ r.fetched = Without(g.fetched, S \ in)
  BY <1>1, <1>3, <1>5
<1>13. IsEnqueued(g, S, in, r)
  BY <1>8, <1>11, <1>12 DEF IsEnqueued
<1> QED
  BY <1>13 DEF r

-----------------------------------------------------------------------------
(***************************************************************************)
(* The invariant holds at first and every step keeps it.                   *)
(***************************************************************************)

\* The invariant holds at first.
LEMMA InitInv == Init => IInv
<1> SUFFICES ASSUME Init PROVE IInv
  OBVIOUS
<1>1. Maps(f)
  <2>1. [h \in Hash |-> <<>>] \in List
    BY DEF List
  <2> QED
    BY <2>1 DEF Init, Maps
<1>2. Exact(f)
  <2>1. \A p \in Peer : {h \in Hash : f.queued[h] = p} = {}
    BY FetcherAssumption DEF Init
  <2> QED
    <3>1. \A p \in Peer : f.queues[p] = 0
      BY DEF Init
    <3>2. Cardinality({}) = 0 /\ 0 <= blockLimit
      BY FS_EmptySet, FetcherAssumption
    <3> QED
      BY <2>1, <3>1, <3>2 DEF Exact
<1>3. Stages(f)
  BY DEF Init, Stages
<1>4. ChainOK /\ QueuedIsPending /\ TimersSet
  BY DEF Init, ChainOK, QueuedIsPending, TimersSet
<1> QED
  BY <1>1, <1>2, <1>3, <1>4 DEF IInv, Good

\* A turn that enqueues blocks after g was made of the maps.
LEMMA EnqueueTurn ==
  ASSUME IInv, NEW g, Good(g), g.queue = f.queue, Queued(g) = Queued(f),
         Filled(g.announced) \subseteq Filled(f.announced),
         Filled(g.fetched) \subseteq Filled(f.fetched),
         NEW p \in Peer, NEW S \in SUBSET Hash, NEW in, in \in Admitted(g, p, S),
         Turn(enqueue(g, p, S, in), fetchTimer, completeTimer), UNCHANGED finished
  PROVE  IInv'
<1> USE DEF Turn
<1>1. /\ Good(f')
      /\ f'.queue = g.queue \cup (in \ Queued(g))
      /\ f'.announced = Without(g.announced, S \ in)
      /\ f'.fetched = Without(g.fetched, S \ in)
      /\ Queued(f') = Queued(g) \cup in
  <2>1. IsEnqueued(g, S, in, f')
    BY EnqueueIs
  <2> QED
    BY <2>1 DEF IsEnqueued
<1>2. /\ Queued(f) = f.queue \cup importing \cup finished
      /\ f.queue \cap (importing \cup finished) = {}
      /\ importing \cap finished = {}
  BY DEF IInv, QueuedIsPending, Queued
<1>3. /\ Queued(f') = f'.queue \cup importing' \cup finished'
      /\ f'.queue \cap (importing' \cup finished') = {}
      /\ importing' \cap finished' = {}
  BY <1>1, <1>2
<1>4. QueuedIsPending'
  BY <1>3 DEF QueuedIsPending, Queued
<1>5. TimersSet'
  <2>1. g.announced \in List /\ g.fetched \in List
    BY DEF Good, Maps
  <2>2. /\ Filled(f'.announced) = Filled(g.announced) \ (S \ in)
        /\ Filled(f'.fetched) = Filled(g.fetched) \ (S \ in)
    BY <1>1, <2>1, WithoutList
  <2> QED
    BY <2>2 DEF IInv, TimersSet
<1>6. ChainOK'
  BY DEF IInv, ChainOK, chainVars
<1> QED
  BY <1>1, <1>4, <1>5, <1>6 DEF IInv

\* The top of the loop.
LEMMA TopInv ==
  ASSUME IInv, NEW S \in SUBSET Hash, Top(S)
  PROVE  IInv'
<1> DEFINE k == forgetHash(f, S)
           old == {h \in Popped : Outdated(h)}
           m == forgetBlock(k, old)
<1>1. /\ Good(k)
      /\ k.queue = f.queue
      /\ k.queued = f.queued
      /\ k.announced = Without(f.announced, S)
      /\ k.fetched = Without(f.fetched, S)
  BY ForgetHash DEF IInv
<1>2. Popped \in SUBSET f.queue /\ f.queue \in SUBSET Hash /\ old \in SUBSET Popped
  BY DEF IInv, Good, Maps, Popped
<1>3. /\ Good(m)
      /\ m.queue = k.queue
      /\ m.announced = k.announced
      /\ m.fetched = k.fetched
      /\ Queued(m) = Queued(k) \ old
  <2> HIDE DEF k
  <2> QED
    BY <1>1, <1>2, ForgetBlock
<1>4. f' = [m EXCEPT !.queue = @ \ Popped]
  BY DEF Top
<1>5. /\ importing' = importing \cup (Popped \ old)
      /\ finished' = finished
      /\ UNCHANGED <<fetchTimer, completeTimer, known, height>>
  BY DEF Top, chainVars
<1> HIDE DEF k, m, old
<1>6. f' = [announces |-> m.announces, announced |-> m.announced,
            fetching |-> m.fetching, fetched |-> m.fetched,
            completing |-> m.completing, queue |-> m.queue \ Popped,
            queues |-> m.queues, queued |-> m.queued]
  BY <1>3, <1>4 DEF Good, Maps
<1>7. Good(f')
  <2>1. Maps(f')
    BY <1>3, <1>6 DEF Good, Maps
  <2>2. Exact(f') /\ Stages(f')
    BY <1>3, <1>6 DEF Good, Exact, Stages
  <2> QED
    BY <2>1, <2>2 DEF Good
<1>8. QueuedIsPending'
  <2>1. Queued(f') = Queued(f) \ old
    BY <1>1, <1>3, <1>6 DEF Queued
  <2>2. f'.queue = f.queue \ Popped
    BY <1>1, <1>3, <1>6
  <2>3. /\ Queued(f) = f.queue \cup importing \cup finished
        /\ f.queue \cap (importing \cup finished) = {}
        /\ importing \cap finished = {}
    BY DEF IInv, QueuedIsPending, Queued
  <2>4. /\ Queued(f') = f'.queue \cup importing' \cup finished'
        /\ f'.queue \cap (importing' \cup finished') = {}
        /\ importing' \cap finished' = {}
    BY <2>1, <2>2, <2>3, <1>2, <1>5
  <2> QED
    BY <2>4 DEF QueuedIsPending, Queued
<1>9. TimersSet'
  <2>1. /\ Filled(f'.announced) = Filled(f.announced) \ S
        /\ Filled(f'.fetched) = Filled(f.fetched) \ S
    BY <1>1, <1>3, <1>6, WithoutList DEF IInv, Good, Maps
  <2> QED
    BY <2>1, <1>5 DEF IInv, TimersSet
<1>10. ChainOK'
  BY <1>2, <1>5 DEF IInv, ChainOK
<1> QED
  BY <1>7, <1>8, <1>9, <1>10 DEF IInv

\* A turn that changes nothing.
LEMMA IdleInv ==
  ASSUME IInv, Turn(f, fetchTimer, completeTimer), UNCHANGED finished
  PROVE  IInv'
BY DEF IInv, ChainOK, QueuedIsPending, TimersSet, Turn, chainVars

\* A turn that forgets hashes.
LEMMA ForgetInv ==
  ASSUME IInv, NEW S, Turn(forgetHash(f, S), fetchTimer, completeTimer), UNCHANGED finished
  PROVE  IInv'
<1> DEFINE k == forgetHash(f, S)
<1>1. /\ Good(k)
      /\ k.queue = f.queue
      /\ k.queued = f.queued
      /\ k.announced = Without(f.announced, S)
      /\ k.fetched = Without(f.fetched, S)
  BY ForgetHash DEF IInv
<1>2. f' = k /\ UNCHANGED <<fetchTimer, completeTimer, importing, finished, known, height>>
  BY DEF Turn, chainVars
<1> HIDE DEF k
<1>3. ChainOK' /\ QueuedIsPending'
  BY <1>1, <1>2 DEF IInv, ChainOK, QueuedIsPending
<1>4. TimersSet'
  <2>1. /\ Filled(f'.announced) = Filled(f.announced) \ S
        /\ Filled(f'.fetched) = Filled(f.fetched) \ S
    BY <1>1, <1>2, WithoutList DEF IInv, Good, Maps
  <2> QED
    BY <2>1, <1>2 DEF IInv, TimersSet
<1> QED
  BY <1>1, <1>2, <1>3, <1>4 DEF IInv

\* An announcement.
LEMMA NotifyInv ==
  ASSUME IInv, NEW h \in Hash, NEW a \in Announce(h), Notify(a, h)
  PROVE  IInv'
<1>1. CASE ~mayAnnounce(a, h)
  BY <1>1, IdleInv DEF Notify
<1>2. CASE mayAnnounce(a, h)
  <2> DEFINE A == [f.announces EXCEPT ![a.origin] = @ + 1]
             L == [f.announced EXCEPT ![h] = Append(@, a)]
             g == [f EXCEPT !.announces = A, !.announced = L]
  <2>1. /\ f' = g
        /\ fetchTimer' = (fetchTimer \/ Cardinality(Filled(g.announced)) = 1)
        /\ UNCHANGED <<completeTimer, importing, finished, known, height>>
    BY <1>2, Zenon DEF Notify, Turn, chainVars
  <2>2. a \in [origin : Peer, number : Nat]
    BY FetcherAssumption DEF Announce
  <2>3. L \in List /\ L[h] # <<>> /\ \A x \in Hash : x # h => L[x] = f.announced[x]
    <3>1. f.announced \in List /\ f.announced[h] \in Seq([origin : Peer, number : Nat])
      BY DEF IInv, Good, Maps, List
    <3>2. /\ Append(f.announced[h], a) \in Seq([origin : Peer, number : Nat])
          /\ Append(f.announced[h], a) # <<>>
      BY <3>1, <2>2
    <3> QED
      BY <3>1, <3>2 DEF List
  <2> HIDE DEF A, L
  <2>4. f' = [announces |-> A, announced |-> L, fetching |-> f.fetching,
              fetched |-> f.fetched, completing |-> f.completing,
              queue |-> f.queue, queues |-> f.queues, queued |-> f.queued]
    BY <2>1 DEF IInv, Good, Maps
  <2>5. Good(f')
    <3>1. Maps(f')
      BY <2>3, <2>4 DEF IInv, Good, Maps
    <3>2. Exact(f')
      BY <2>4 DEF IInv, Good, Exact
    <3>3. Stages(f')
      BY <1>2, <2>3, <2>4 DEF IInv, Good, Stages, mayAnnounce
    <3> QED
      BY <3>1, <3>2, <3>3 DEF Good
  <2>6. ChainOK' /\ QueuedIsPending'
    BY <2>1, <2>4 DEF IInv, ChainOK, QueuedIsPending
  <2>7. TimersSet'
    <3>1. CASE Filled(f.announced) = {}
      <4>1. Filled(L) = {h}
        BY <3>1, <2>3 DEF Filled
      <4>2. Cardinality(Filled(g.announced)) = 1
        BY <4>1, <2>1, <2>4, FS_Singleton
      <4>3. fetchTimer'
        BY <4>2, <2>1
      <4> QED
        BY <4>3, <2>1, <2>4 DEF IInv, TimersSet
    <3>2. CASE Filled(f.announced) # {}
      <4>1. fetchTimer'
        BY <3>2, <2>1 DEF IInv, TimersSet
      <4> QED
        BY <4>1, <2>1, <2>4 DEF IInv, TimersSet
    <3> QED
      BY <3>1, <3>2
  <2> QED
    BY <2>5, <2>6, <2>7 DEF IInv
<1> QED
  BY <1>1, <1>2

\* A whole block from a peer.
LEMMA EnqueueInv ==
  ASSUME IInv, NEW p \in Peer, NEW h \in Hash, Enqueue(p, h)
  PROVE  IInv'
<1>1. PICK in : /\ in \in Admitted(f, p, {h})
                /\ Turn(enqueue(f, p, {h}, in), fetchTimer, completeTimer)
  BY DEF Enqueue
<1> QED
  BY <1>1, EnqueueTurn DEF Enqueue, IInv

\* The end of an import.
LEMMA DoneInv ==
  ASSUME IInv, NEW h \in Hash, Done(h)
  PROVE  IInv'
<1> DEFINE k == forgetHash(f, {h})
           m == forgetBlock(k, {h})
<1>1. /\ Good(k)
      /\ k.queue = f.queue
      /\ k.queued = f.queued
      /\ k.announced = Without(f.announced, {h})
      /\ k.fetched = Without(f.fetched, {h})
  BY ForgetHash DEF IInv
<1>2. /\ Good(m)
      /\ m.queue = k.queue
      /\ m.announced = k.announced
      /\ m.fetched = k.fetched
      /\ Queued(m) = Queued(k) \ {h}
  <2> HIDE DEF k
  <2> QED
    BY <1>1, ForgetBlock
<1>3. /\ f' = m
      /\ h \in finished
      /\ finished' = finished \ {h}
      /\ UNCHANGED <<fetchTimer, completeTimer, importing, known, height>>
  BY DEF Done, Turn, chainVars
<1> HIDE DEF k, m
<1>4. QueuedIsPending'
  <2>1. Queued(f') = Queued(f) \ {h} /\ f'.queue = f.queue
    BY <1>1, <1>2, <1>3 DEF Queued
  <2>2. /\ Queued(f) = f.queue \cup importing \cup finished
        /\ f.queue \cap (importing \cup finished) = {}
        /\ importing \cap finished = {}
    BY DEF IInv, QueuedIsPending, Queued
  <2>3. /\ Queued(f') = f'.queue \cup importing' \cup finished'
        /\ f'.queue \cap (importing' \cup finished') = {}
        /\ importing' \cap finished' = {}
    BY <2>1, <2>2, <1>3
  <2> QED
    BY <2>3 DEF QueuedIsPending, Queued
<1>5. TimersSet'
  <2>1. /\ Filled(f'.announced) = Filled(f.announced) \ {h}
        /\ Filled(f'.fetched) = Filled(f.fetched) \ {h}
    BY <1>1, <1>2, <1>3, WithoutList DEF IInv, Good, Maps
  <2> QED
    BY <2>1, <1>3 DEF IInv, TimersSet
<1>6. ChainOK'
  BY <1>3 DEF IInv, ChainOK
<1> QED
  BY <1>2, <1>3, <1>4, <1>5, <1>6 DEF IInv

\* A list of requests.
LEMMA RequestList ==
  ASSUME NEW from \in List, NEW list \in List, NEW S, NEW pick,
         \A h \in S : h \in Hash /\ pick[h] \in ToSet(from[h])
  PROVE  Request(list, S, pick) \in List
<1>1. \A h \in S : <<pick[h]>> \in Seq([origin : Peer, number : Nat])
  <2> TAKE h \in S
  <2> DEFINE An == [origin : Peer, number : Nat]
  <2>1. from[h] \in Seq(An)
    BY DEF List
  <2>2. PICK i \in DOMAIN from[h] : pick[h] = from[h][i]
    BY DEF ToSet
  <2> HIDE DEF An
  <2>3. pick[h] \in An
    BY <2>1, <2>2
  <2> QED
    BY <2>3 DEF An
<1> QED
  BY <1>1 DEF Request, List

\* The tick for headers.
LEMMA FetchTickInv ==
  ASSUME IInv, NEW due \in SUBSET Filled(f.announced), NEW pick, FetchTick(due, pick)
  PROVE  IInv'
<1> DEFINE k == forgetHash(f, due)
           R == Request(k.fetching, due, pick)
<1>1. /\ Good(k)
      /\ k.queue = f.queue
      /\ k.queued = f.queued
      /\ k.announced = Without(f.announced, due)
      /\ k.fetched = Without(f.fetched, due)
      /\ k.completing = Without(f.completing, due)
  BY ForgetHash DEF IInv
<1>2. /\ f' = [k EXCEPT !.fetching = R]
      /\ fetchTimer' = (Filled(f'.announced) # {})
      /\ \A h \in due : pick[h] \in ToSet(f.announced[h])
      /\ UNCHANGED <<completeTimer, importing, finished, known, height>>
  BY DEF FetchTick, Turn, chainVars, rescheduleFetch
<1> HIDE DEF k
<1>3. R \in List
  <2>1. f.announced \in List /\ k.fetching \in List
    BY <1>1 DEF IInv, Good, Maps
  <2>2. \A h \in due : h \in Hash
    BY DEF Filled
  <2> QED
    BY <2>1, <2>2, <1>2, RequestList
<1>4. \A h \in Hash : R[h] # <<>> => k.fetching[h] # <<>> \/ h \in due
  BY DEF Request
<1>5. \A h \in Hash : h \notin due => R[h] = k.fetching[h]
  BY DEF Request
<1> HIDE DEF R
<1>6. f' = [announces |-> k.announces, announced |-> k.announced,
            fetching |-> R, fetched |-> k.fetched,
            completing |-> k.completing, queue |-> k.queue,
            queues |-> k.queues, queued |-> k.queued]
  BY <1>1, <1>2 DEF Good, Maps
<1>7. Good(f')
  <2>1. Maps(f') /\ Exact(f')
    BY <1>1, <1>3, <1>6 DEF Good, Maps, Exact
  <2>2. \A h \in due : h \in Hash => k.announced[h] = <<>> /\ k.fetched[h] = <<>>
    BY <1>1 DEF Without
  <2>3. Stages(f')
    BY <1>1, <1>5, <1>6, <2>2 DEF Good, Stages
  <2> QED
    BY <2>1, <2>3 DEF Good
<1>8. QueuedIsPending' /\ ChainOK'
  BY <1>1, <1>2, <1>6 DEF IInv, QueuedIsPending, ChainOK
<1>9. TimersSet'
  <2>1. f.fetched \in List
    BY DEF IInv, Good, Maps
  <2>2. Filled(f'.fetched) = Filled(f.fetched) \ due
    BY <1>1, <1>6, <2>1, WithoutList
  <2>3. Filled(f'.fetched) # {} => completeTimer'
    BY <2>2, <1>2 DEF IInv, TimersSet
  <2>4. Filled(f'.announced) # {} => fetchTimer'
    BY <1>2
  <2> QED
    BY <2>3, <2>4 DEF TimersSet
<1> QED
  BY <1>7, <1>8, <1>9 DEF IInv

\* The tick for bodies.
LEMMA CompleteTickInv ==
  ASSUME IInv, NEW pick, CompleteTick(pick)
  PROVE  IInv'
<1> DEFINE due == Filled(f.fetched)
           k == forgetHash(f, due)
           R == Request(k.completing, due, pick)
<1>1. /\ Good(k)
      /\ k.queue = f.queue
      /\ k.queued = f.queued
      /\ k.announced = Without(f.announced, due)
      /\ k.fetched = Without(f.fetched, due)
  BY ForgetHash DEF IInv
<1>2. /\ f' = [k EXCEPT !.completing = R]
      /\ \A h \in due : pick[h] \in ToSet(f.fetched[h])
      /\ UNCHANGED <<fetchTimer, importing, finished, known, height>>
  BY DEF CompleteTick, Turn, chainVars
<1> HIDE DEF k
<1>3. R \in List
  <2>1. f.fetched \in List /\ k.completing \in List
    BY <1>1 DEF IInv, Good, Maps
  <2>2. \A h \in due : h \in Hash
    BY DEF Filled
  <2> QED
    BY <2>1, <2>2, <1>2, RequestList
<1>4. \A h \in Hash : h \notin due => R[h] = k.completing[h]
  BY DEF Request
<1> HIDE DEF R
<1>5. f' = [announces |-> k.announces, announced |-> k.announced,
            fetching |-> k.fetching, fetched |-> k.fetched,
            completing |-> R, queue |-> k.queue,
            queues |-> k.queues, queued |-> k.queued]
  BY <1>1, <1>2 DEF Good, Maps
<1>6. Good(f')
  <2>1. Maps(f') /\ Exact(f')
    BY <1>1, <1>3, <1>5 DEF Good, Maps, Exact
  <2>2. \A h \in Hash : h \in due => k.announced[h] = <<>> /\ k.fetched[h] = <<>>
    BY <1>1 DEF Without
  <2>3. Stages(f')
    BY <1>1, <1>4, <1>5, <2>2 DEF Good, Stages
  <2> QED
    BY <2>1, <2>3 DEF Good
<1>7. QueuedIsPending' /\ ChainOK'
  BY <1>1, <1>2, <1>5 DEF IInv, QueuedIsPending, ChainOK
<1>8. TimersSet'
  <2>1. f.fetched \in List /\ f.announced \in List
    BY DEF IInv, Good, Maps
  <2>2. /\ Filled(f'.fetched) = Filled(f.fetched) \ due
        /\ Filled(f'.announced) = Filled(f.announced) \ due
    BY <1>1, <1>5, <2>1, WithoutList
  <2> QED
    BY <2>2, <1>2 DEF IInv, TimersSet
<1> QED
  BY <1>6, <1>7, <1>8 DEF IInv

\* A header.
LEMMA FilterHeadersInv ==
  ASSUME IInv, NEW p \in Peer, NEW h \in Hash, FilterHeaders(p, h)
  PROVE  IInv'
<1> DEFINE a == f.fetching[h][1]
           H == [f.fetched EXCEPT ![h] = Append(@, a)]
           W == [f.completing EXCEPT ![h] = <<a>>]
           headed == [f EXCEPT !.fetched = H]
           whole == [f EXCEPT !.completing = W]
<1>1. CASE Turn(f, fetchTimer, completeTimer)
  BY <1>1, IdleInv DEF FilterHeaders
<1>2. CASE Turn(forgetHash(f, {h}), fetchTimer, completeTimer)
  BY <1>2, ForgetInv DEF FilterHeaders
<1>3. ASSUME Requested(p, h)
      PROVE  /\ a \in [origin : Peer, number : Nat]
             /\ f.fetching[h] # <<>>
             /\ f.fetched[h] = <<>>
             /\ f.completing[h] = <<>>
             /\ f.announced[h] = <<>>
  <2> DEFINE An == [origin : Peer, number : Nat]
  <2>1. f.fetching[h] \in Seq(An) /\ f.fetching[h] # <<>>
    BY <1>3 DEF Requested, IInv, Good, Maps, List
  <2> HIDE DEF An
  <2>2. a \in An
    BY <2>1
  <2>3. /\ f.fetched[h] = <<>>
        /\ f.completing[h] = <<>>
        /\ f.announced[h] = <<>>
    BY <1>3, <2>1 DEF Requested, IInv, Good, Stages
  <2> QED
    BY <2>1, <2>2, <2>3 DEF An
<1>4. ASSUME Requested(p, h), NEW in, in \in Admitted(whole, p, {h}),
             Turn(enqueue(whole, p, {h}, in), fetchTimer, completeTimer)
      PROVE  IInv'
  <2>1. W \in List /\ W[h] = <<a>> /\ \A x \in Hash : x # h => W[x] = f.completing[x]
    <3>1. <<a>> \in Seq([origin : Peer, number : Nat])
      BY <1>3, <1>4
    <3>2. f.completing \in List
      BY DEF IInv, Good, Maps
    <3> HIDE DEF a
    <3> QED
      BY <3>1, <3>2 DEF List
  <2> HIDE DEF W
  <2>2. whole = [announces |-> f.announces, announced |-> f.announced,
                 fetching |-> f.fetching, fetched |-> f.fetched,
                 completing |-> W, queue |-> f.queue,
                 queues |-> f.queues, queued |-> f.queued]
    BY DEF IInv, Good, Maps
  <2>3. Good(whole)
    <3>1. Maps(whole) /\ Exact(whole)
      BY <2>1, <2>2 DEF IInv, Good, Maps, Exact
    <3>2. Stages(whole)
      BY <1>3, <1>4, <2>1, <2>2 DEF IInv, Good, Stages
    <3> QED
      BY <3>1, <3>2 DEF Good
  <2>4. /\ whole.queue = f.queue
        /\ Queued(whole) = Queued(f)
        /\ whole.announced = f.announced
        /\ whole.fetched = f.fetched
    BY <2>2 DEF Queued
  <2>5. UNCHANGED finished
    BY DEF FilterHeaders
  <2> HIDE DEF whole
  <2> QED
    BY <1>4, <2>3, <2>4, <2>5, EnqueueTurn
<1>5. ASSUME Requested(p, h),
             Turn(headed, fetchTimer, completeTimer \/ Cardinality(Filled(headed.fetched)) = 1)
      PROVE  IInv'
  <2>1. H \in List /\ H[h] # <<>> /\ \A x \in Hash : x # h => H[x] = f.fetched[x]
    <3>1. a \in [origin : Peer, number : Nat] /\ f.fetched[h] = <<>>
      BY <1>3, <1>5
    <3>2. /\ Append(f.fetched[h], a) \in Seq([origin : Peer, number : Nat])
          /\ Append(f.fetched[h], a) # <<>>
      BY <3>1
    <3> QED
      BY <3>2 DEF IInv, Good, Maps, List
  <2>2. /\ f' = headed
        /\ completeTimer' = (completeTimer \/ Cardinality(Filled(headed.fetched)) = 1)
        /\ UNCHANGED <<fetchTimer, importing, finished, known, height>>
    BY <1>5, Zenon DEF FilterHeaders, Turn, chainVars
  <2> HIDE DEF H
  <2>3. f' = [announces |-> f.announces, announced |-> f.announced,
              fetching |-> f.fetching, fetched |-> H,
              completing |-> f.completing, queue |-> f.queue,
              queues |-> f.queues, queued |-> f.queued]
    BY <2>2 DEF IInv, Good, Maps
  <2>4. Good(f')
    <3>1. Maps(f') /\ Exact(f')
      BY <2>1, <2>3 DEF IInv, Good, Maps, Exact
    <3>2. Stages(f')
      BY <1>3, <1>5, <2>1, <2>3 DEF IInv, Good, Stages
    <3> QED
      BY <3>1, <3>2 DEF Good
  <2>5. ChainOK' /\ QueuedIsPending'
    BY <2>2, <2>3 DEF IInv, ChainOK, QueuedIsPending
  <2>6. completeTimer'
    <3>1. CASE Filled(f.fetched) = {}
      <4>1. Filled(H) = {h}
        BY <3>1, <2>1 DEF Filled
      <4>2. Cardinality(Filled(headed.fetched)) = 1
        BY <4>1, <2>2, <2>3, FS_Singleton
      <4> QED
        BY <4>2, <2>2
    <3>2. CASE Filled(f.fetched) # {}
      BY <3>2, <2>2 DEF IInv, TimersSet
    <3> QED
      BY <3>1, <3>2
  <2>7. TimersSet'
    BY <2>2, <2>3, <2>6 DEF IInv, TimersSet
  <2> QED
    BY <2>4, <2>5, <2>7 DEF IInv
<1> QED
  BY <1>1, <1>2, <1>4, <1>5 DEF FilterHeaders

\* A body.
LEMMA FilterBodiesInv ==
  ASSUME IInv, NEW p \in Peer, NEW bodies, FilterBodies(p, bodies)
  PROVE  IInv'
<1> DEFINE matched == {h \in Hash :
             /\ f.completing[h] # <<>> /\ f.queued[h] = NoPeer
             /\ f.completing[h][1].origin = p /\ bodyOf[h] \in bodies}
           S == matched \cap known
           g == forgetHash(f, S)
<1>1. PICK in : /\ in \in Admitted(g, p, matched \ known)
                /\ Turn(enqueue(g, p, matched \ known, in), fetchTimer, completeTimer)
  BY DEF FilterBodies
<1>2. /\ matched \ known \in SUBSET Hash
      /\ UNCHANGED finished
  BY DEF FilterBodies
<1> HIDE DEF matched, S
<1>3. /\ Good(g)
      /\ g.queue = f.queue
      /\ g.queued = f.queued
      /\ g.announced = Without(f.announced, S)
      /\ g.fetched = Without(f.fetched, S)
  BY ForgetHash DEF IInv
<1>4. Queued(g) = Queued(f)
  BY <1>3 DEF Queued
<1>5. /\ Filled(g.announced) \subseteq Filled(f.announced)
      /\ Filled(g.fetched) \subseteq Filled(f.fetched)
  BY <1>3, WithoutList DEF IInv, Good, Maps
<1> HIDE DEF g
<1> QED
  BY <1>1, <1>2, <1>3, <1>4, <1>5, EnqueueTurn

\* What happens beside the loop.
LEMMA BesideInv ==
  ASSUME IInv,
         Stop \/ (\E h \in Hash : Insert(h)) \/ (\E b \in Block : ChainMoves(b))
  PROVE  IInv'
<1> USE DEF loopVars, chainVars
<1>1. CASE Stop
  BY <1>1 DEF Stop, IInv, ChainOK, QueuedIsPending, TimersSet
<1>2. ASSUME NEW h \in Hash, Insert(h) PROVE IInv'
  <2>1. Good(f)' /\ TimersSet'
    BY <1>2 DEF Insert, IInv, TimersSet
  <2>2. QueuedIsPending'
    <3>1. /\ h \in importing
          /\ importing' = importing \ {h}
          /\ finished' = finished \cup {h}
          /\ f' = f
      BY <1>2 DEF Insert
    <3>2. /\ Queued(f) = f.queue \cup importing \cup finished
          /\ f.queue \cap (importing \cup finished) = {}
          /\ importing \cap finished = {}
      BY DEF IInv, QueuedIsPending, Queued
    <3>3. /\ Queued(f) = f.queue \cup importing' \cup finished'
          /\ f.queue \cap (importing' \cup finished') = {}
          /\ importing' \cap finished' = {}
      BY <3>1, <3>2
    <3> QED
      BY <3>1, <3>3 DEF QueuedIsPending, Queued
  <2>3. ChainOK'
    BY <1>2, FetcherAssumption DEF Insert, IInv, ChainOK
  <2> QED
    BY <2>1, <2>2, <2>3 DEF IInv
<1>3. ASSUME NEW b \in Block, ChainMoves(b) PROVE IInv'
  <2>1. Good(f)' /\ TimersSet' /\ QueuedIsPending'
    BY <1>3 DEF ChainMoves, IInv, TimersSet, QueuedIsPending
  <2>2. ChainOK'
    BY <1>3, FetcherAssumption DEF ChainMoves, IInv, ChainOK
  <2> QED
    BY <2>1, <2>2 DEF IInv
<1> QED
  BY <1>1, <1>2, <1>3

\* Every step keeps the invariant.
LEMMA NextInv == IInv /\ [Next]_vars => IInv'
<1> SUFFICES ASSUME IInv, [Next]_vars PROVE IInv'
  OBVIOUS
<1>1. CASE UNCHANGED vars
  BY <1>1 DEF vars, loopVars, chainVars, IInv, ChainOK, QueuedIsPending, TimersSet
<1>2. CASE Next
  BY <1>2, TopInv, NotifyInv, EnqueueInv, FilterHeadersInv, FilterBodiesInv,
     FetchTickInv, CompleteTickInv, DoneInv, BesideInv DEF Next
<1> QED
  BY <1>1, <1>2

-----------------------------------------------------------------------------
(***************************************************************************)
(* The theorems.                                                           *)
(***************************************************************************)

\* The invariant holds in every behaviour.
THEOREM Invariance == Spec => []IInv
BY InitInv, NextInv, PTL DEF Spec

\* The maps keep their types; of the announcement counters nothing is said.
THEOREM TypeCorrect == Spec => []TypeOK
<1>1. IInv => TypeOK
  BY DEF IInv, Good, Maps, ChainOK, TypeOK, List
<1> QED
  BY <1>1, Invariance, PTL

\* For any limit and any order of deliveries, imports and reorganisations the
\* counter of a peer's queued blocks is exact and within blockLimit.
THEOREM QueuesStayExact == Spec => []QueuesExact
<1>1. IInv => QueuesExact
  BY DEF IInv, Good, Exact, QueuesExact
<1> QED
  BY <1>1, Invariance, PTL

\* A block in queued is waiting, being imported or being reported, and only one
\* of these.
THEOREM QueuedStaysPending == Spec => []QueuedIsPending
<1>1. IInv => QueuedIsPending
  BY DEF IInv
<1> QED
  BY <1>1, Invariance, PTL

\* As long as something is announced, or has a header and no body, its timer is
\* set.
THEOREM TimersStaySet == Spec => []TimersSet
<1>1. IInv => TimersSet
  BY DEF IInv
<1> QED
  BY <1>1, Invariance, PTL

\* No hash is announced and fetched at a time.
THEOREM StagesStayApart == Spec => []OneStage
<1>1. IInv => OneStage
  BY DEF IInv, Good, Stages, OneStage
<1> QED
  BY <1>1, Invariance, PTL

=============================================================================
