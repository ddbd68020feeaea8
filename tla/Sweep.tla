-------------------------------- MODULE Sweep --------------------------------
(***************************************************************************)
(* sweep_retention over a trace of whole or ranged reads and writes, in    *)
(* chunk mode: to_blocks expands each event into the blocks it touches,    *)
(* and every demand policy, the predictors and the Belady ceiling replay   *)
(* what it emits.                                                          *)
(***************************************************************************)
EXTENDS Integers, Sequences, SequencesExt, FiniteSetsExt

CONSTANTS
    SweepObjects, Rank,
    Extents,              \* the sets of blocks a read may touch, {0} for an unknown extent
    SweepCap,
    MaxEvents,            \* bound: length of the trace
    TopK, MaxContexts, MaxSuccessors, Window

VARIABLES
    trace,                \* the events
    touched,              \* object -> its blocks read since its last write
    blocks,               \* what to_blocks has emitted
    caches, hits,         \* per policy
    freq, markov, markov2, cooc

sweepVars == <<trace, touched, blocks, caches, hits, freq, markov, markov2, cooc>>

SimOf == INSTANCE Sim
ArcOf == INSTANCE Arc
LfuOf == INSTANCE WLfu
FifoOf == INSTANCE S3Fifo WITH FifoCap <- SweepCap, S_DIVISOR <- 10, FREQ_MAX <- 3, S_PROMOTE_MIN_FREQ <- 2, SLACK <- 8
Chunks == SweepObjects \X UNION Extents
ChunkRank == [c \in Chunks |-> 2 * Rank[c[1]] + c[2]]
Learned == INSTANCE Predict WITH Rank <- ChunkRank

Demand == {"null", "lru+adm", "arc", "s3fifo", "new_lru"}

SweepStart ==
    /\ trace = <<>> /\ blocks = <<>> /\ touched = [o \in SweepObjects |-> {}]
    /\ caches = [p \in Demand |->
                    CASE p \in {"null", "lru+adm"} -> SimOf!SimNew(SweepCap)
                      [] p = "arc" -> ArcOf!ArcNew [] p = "s3fifo" -> FifoOf!FifoNew [] p = "new_lru" -> LfuOf!LruNew(SweepCap)]
    /\ hits = [p \in Demand |-> 0]
    /\ freq = Learned!FreqNew /\ markov = Learned!MarkovNew(1) /\ markov2 = Learned!MarkovNew(2) /\ cooc = Learned!CoocNew

-----------------------------------------------------------------------------
(* to_blocks: a read touches its own extent; a write invalidates its own   *)
(* and every block of the object read since the last write.                *)
Ascending(bs) == SetToSortSeq(bs, LAMBDA x, y : x < y)
OwnExtent(o, extent) == extent                \* a fault: what was read before is left standing
WriteExtent(o, extent) == touched[o] \cup extent
Emitted(op, o, bs) == LET q == Ascending(bs) IN [i \in DOMAIN q |-> [op |-> op, id |-> <<o, q[i]>>]]

-----------------------------------------------------------------------------
(* The policies. The sketch of the admission policy counts every GET.      *)
SimHit(c, k) == SimOf!SimHas(c, k)
Lru(c, k) == IF SimHit(c, k) THEN SimOf!SimTouch(c, k, 1) ELSE SimOf!SimInsert(c, k, 1, FALSE)
Est(f, k) == Learned!Count(f.counts, k)
Admitted(c, k, f) ==
    IF SimHit(c, k) \/ Len(c.order) < SweepCap \/ Est(f, k) > Est(f, c.order[1].id) THEN Lru(c, k) ELSE c
NewLru(c, k) == IF LfuOf!WHas(c, k) THEN LfuOf!WAccess(c, k) ELSE LfuOf!WInsert(c, k, FALSE, FALSE)

Hit(p, c, k) ==
    CASE p \in {"null", "lru+adm"} -> SimHit(c, k)
      [] p = "arc" -> ArcOf!ArcHit(c, k) [] p = "s3fifo" -> FifoOf!FifoHit(c, k) [] p = "new_lru" -> LfuOf!WHas(c, k)
Get(p, c, k, f) ==
    CASE p = "null" -> Lru(c, k) [] p = "lru+adm" -> Admitted(c, k, f)
      [] p = "arc" -> ArcOf!ArcAccess(SweepCap, c, k) [] p = "s3fifo" -> FifoOf!FifoAccess(c, k) [] p = "new_lru" -> NewLru(c, k)
Put(p, c, k) ==
    CASE p \in {"null", "lru+adm"} -> SimOf!SimInvalidate(c, k)
      [] p = "arc" -> ArcOf!ArcInvalidate(c, k) [] p = "s3fifo" -> FifoOf!FifoInvalidate(c, k)
      [] p = "new_lru" -> LfuOf!WInvalidate(c, k)

(* One chunk event through everything.                                     *)
Now == [caches |-> caches, hits |-> hits, freq |-> freq, markov |-> markov, markov2 |-> markov2, cooc |-> cooc]
Replayed(st, e) ==
    IF e.op = "get"
    THEN LET f == Learned!FreqObserve(st.freq, e.id)
         IN  [caches |-> [p \in Demand |-> Get(p, st.caches[p], e.id, f)],
              hits |-> [p \in Demand |-> st.hits[p] + IF Hit(p, st.caches[p], e.id) THEN 1 ELSE 0],
              freq |-> f, markov |-> Learned!MarkovObserve(st.markov, e.id),
              markov2 |-> Learned!MarkovObserve(st.markov2, e.id), cooc |-> Learned!CoocObserve(st.cooc, e.id)]
    ELSE [st EXCEPT !.caches = [p \in Demand |-> Put(p, @[p], e.id)]]

Replays(op, o, extent, bs) ==
    LET out == Emitted(op, o, bs)
        st == FoldLeft(Replayed, Now, out)
    IN  /\ Len(trace) < MaxEvents
        /\ trace' = Append(trace, [op |-> op, object |-> o, extent |-> extent])
        /\ blocks' = blocks \o out
        /\ caches' = st.caches /\ hits' = st.hits /\ freq' = st.freq
        /\ markov' = st.markov /\ markov2' = st.markov2 /\ cooc' = st.cooc

Read(o, extent) ==
    /\ Replays("get", o, extent, extent)
    /\ touched' = [touched EXCEPT ![o] = @ \cup extent]
Write(o) ==
    /\ Replays("put", o, {0}, WriteExtent(o, {0}))
    /\ touched' = [touched EXCEPT ![o] = {}]

SweepNext == \E o \in SweepObjects : Write(o) \/ \E extent \in Extents : Read(o, extent)

SweepSpec == SweepStart /\ [][SweepNext]_sweepVars

-----------------------------------------------------------------------------
(* belady_hit_rates. A resident chunk carries the index of the next GET    *)
(* that can reuse it: the chunk's next event, when that is no write.       *)
Never == Len(blocks) + 1
Later(k, i) == { j \in i + 1 .. Len(blocks) : blocks[j].id = k }
NextRead(k, i) ==                             \* a fault: a write does not end the reuse
    Min({Never} \cup { j \in Later(k, i) : blocks[j].op = "get" })
NextUse(k, i) ==
    Min({Never} \cup { j \in Later(k, i) : blocks[j].op = "get" /\ \A h \in Later(k, i) : j <= h })

(* The farthest goes, of two that are never used again the one named last. *)
Farther(i, x, y) ==
    NextUse(x, i) > NextUse(y, i) \/ (NextUse(x, i) = NextUse(y, i) /\ ChunkRank[x] >= ChunkRank[y])
Belady(R, i) ==
    LET k == blocks[i].id
        in == R \cup {k}
    IN  CASE blocks[i].op # "get" -> R \ {k}
          [] blocks[i].op = "get" /\ Cardinality(in) <= SweepCap -> in
          [] OTHER -> in \ {CHOOSE x \in in : \A y \in in : Farther(i, x, y)}
OptHits ==
    LET step(st, i) == [r |-> Belady(st.r, i),
                        n |-> st.n + IF blocks[i].op = "get" /\ blocks[i].id \in st.r THEN 1 ELSE 0]
    IN  FoldLeft(step, [r |-> {}, n |-> 0], [i \in DOMAIN blocks |-> i]).n

(* What any demand cache can do: the resident sets that some choice of     *)
(* what to evict, or to bypass, reaches, and the hits on the way there.    *)
Survivors(R, k) == kSubset(Min({SweepCap, Cardinality(R \cup {k})}), R \cup {k})
Reached(runs, e) ==
    IF e.op # "get" THEN { <<r[1] \ {e.id}, r[2]>> : r \in runs }
    ELSE UNION { Survivors(r[1], e.id) \X {r[2] + IF e.id \in r[1] THEN 1 ELSE 0} : r \in runs }
BestHits == Max({ r[2] : r \in FoldLeft(Reached, {<<{}, 0>>}, blocks) })

-----------------------------------------------------------------------------
(* PROPERTIES                                                              *)

(* The ceiling row is a ceiling: Belady's greedy choice serves as many     *)
(* hits as any demand cache could over a trace with writes, no policy of   *)
(* the table exceeds it, and the two LRU simulators count the same.        *)
OptIsCeiling ==
    /\ LET opt == OptHits
       IN  opt = BestHits /\ \A p \in Demand : hits[p] <= opt
    /\ hits["new_lru"] = hits["null"]

(* No chunk is served over a write: between two reads of a chunk with a    *)
(* write of its object between them, to_blocks emits its invalidation, so  *)
(* chunk mode finds no reuse that object mode does not; and it emits no    *)
(* more invalidations than there were reads and writes.                    *)
WritesReachBlocks ==
    /\ \A o \in SweepObjects :
          \A p \in Demand : \A b \in UNION Extents :
              Hit(p, caches[p], <<o, b>>) => b \in touched[o]
    /\ Len(SelectSeq(blocks, LAMBDA e : e.op = "put"))
          <= Len(SelectSeq(blocks, LAMBDA e : e.op = "get"))
             + Len(SelectSeq(trace, LAMBDA e : e.op = "put"))

Half == [num |-> 1, den |-> 2]
Ahead(k, n) == Learned!ChainAhead(markov, k, n, Half)

(* The incrementally kept top set is a true top-k, whatever the order in   *)
(* which the objects overtook each other, and every prefix of its ranking  *)
(* is a true top of that length: a capacity takes the first k_for_cap. The *)
(* other learned tables stay within their bounds and the queue that evicts *)
(* from each names every row of it exactly once; chain_ahead ranks as      *)
(* predict does, and what a deep chain is sure of a shorter one was too.   *)
ModelsAreTrue ==
    /\ Learned!TopExact(freq)
    /\ \A k \in DOMAIN freq.counts :
          LET ranked == Learned!FreqPredict(freq, k)
              rest(i) == DOMAIN freq.counts \ ({ranked[j] : j \in 1 .. i} \cup {k})
          IN  \A i \in DOMAIN ranked : \A o \in rest(i) : freq.counts[o] <= freq.counts[ranked[i]]
    /\ Learned!TableBounded(markov.trans) /\ Learned!TableBounded(markov2.trans) /\ Learned!TableBounded(cooc.co)
    /\ \A k \in Range(markov.history) :
          /\ Ahead(k, 1) # <<>> => Ahead(k, 1) = <<Head(Learned!MarkovPredict(markov))>>
          /\ Ahead(k, 2) # <<>> => Ahead(k, 1) # <<>> /\ Ahead(Ahead(k, 1)[1], 1) = Ahead(k, 2)
          /\ k \notin Range(Learned!CoocPredict(cooc, k))
=============================================================================
