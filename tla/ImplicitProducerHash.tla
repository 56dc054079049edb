------------------------ MODULE ImplicitProducerHash ------------------------
(***************************************************************************)
(* ConcurrentQueue (includes/concurrentqueue.h): how a thread that         *)
(* enqueues without a token finds its producer.  Producers are kept under  *)
(* the id of their thread in an open hash table; when it fills up a larger *)
(* one is put before it, and a thread found in an older table is copied to *)
(* the newest.  When a thread ends, its keys become invalid_thread_id2 and *)
(* its producer is to be had again; a later thread may have the same id.   *)
(*                                                                         *)
(* A step makes one access to memory threads share, except that the two    *)
(* compare_exchange of one slot are a step, which has the outcomes of the  *)
(* two, and a value, which only its thread reads, is written with its key. *)
(* (ProducerList has the steps of recycle_or_create_producer.)             *)
(***************************************************************************)
EXTENDS Integers, Sequences, FiniteSets

CONSTANTS
    ThreadIds,
    Hashes,             \* the functions hash_thread_id tried
    InitialHashSize,    \* INITIAL_IMPLICIT_PRODUCER_HASH_SIZE
    HashedProducers,    \* the implicit producers there can be, numbered
    NoProducer,         \* the null pointer
    invalid_thread_id,  \* the key of a free slot
    invalid_thread_id2  \* the key of a slot whose thread has ended

ASSUME HashAssumption ==
    /\ Hashes \subseteq [ThreadIds -> Nat] /\ InitialHashSize \in Nat \ {0}
    /\ invalid_thread_id # invalid_thread_id2
    /\ {invalid_thread_id, invalid_thread_id2} \cap ThreadIds = {}
    /\ HashedProducers \subseteq Nat \ {0} /\ NoProducer \notin HashedProducers

VARIABLES
    hash_thread_id,
    implicitProducerHash,       \* the tables, the newest last
    implicitProducerHashCount,
    resizeInProgress,           \* implicitProducerHashResizeInProgress
    recyclable,                 \* the producers that are inactive
    created,                    \* the producers there are
    listeners,                  \* for each id, what its thread calls at its end: the producers
    ih                          \* for each id, where its thread is

hashVars == <<hash_thread_id, implicitProducerHash, implicitProducerHashCount, resizeInProgress,
              recyclable, created, listeners, ih>>

Table(size) == [k \in 0 .. size - 1 |-> [key |-> invalid_thread_id, value |-> NoProducer]]
NewestTable == Len(implicitProducerHash)
Capacity(h) == Cardinality(DOMAIN implicitProducerHash[h])

\* A thread outside, with the producer its last call returned.
NotInside(p) == [pc |-> "out", producer |-> p]

HashInit ==
    /\ hash_thread_id \in Hashes
    /\ implicitProducerHash = <<Table(InitialHashSize)>>
    /\ implicitProducerHashCount = 0
    /\ resizeInProgress = FALSE
    /\ recyclable = {}
    /\ created = {}
    /\ listeners = [t \in ThreadIds |-> {}]
    /\ ih = [t \in ThreadIds |-> NotInside(NoProducer)]

IhGoto(t, state) == ih' = [ih EXCEPT ![t] = state]

\* The slot thread t looks at, its key, and a write of it.
At(t) == ih[t].index % Capacity(ih[t].hash)
KeyAt(t) == implicitProducerHash[ih[t].hash][At(t)].key
Put(t, entry) ==
    implicitProducerHash' = [implicitProducerHash EXCEPT ![ih[t].hash][At(t)] = entry]
NextIndex(t) == IhGoto(t, [ih[t] EXCEPT !.index = @ + 1])

-----------------------------------------------------------------------------
(***************************************************************************)
(* get_or_add_implicit_producer: the search, in the newest table and those *)
(* before it.                                                              *)
(***************************************************************************)
GetOrAdd(t) ==
    /\ ih[t].pc = "out"
    /\ IhGoto(t, [pc |-> "probe", main |-> NewestTable, hash |-> NewestTable,
                  index |-> hash_thread_id[t]])
    /\ UNCHANGED <<hash_thread_id, implicitProducerHash, implicitProducerHashCount,
                   resizeInProgress, recyclable, created, listeners>>

\* Mistake: a slot whose thread has ended ends the search, like a free one.
ProbeStopsAtRemoved(t) ==
    LET h == ih[t].hash
    IN  /\ ih[t].pc = "probe"
        /\ \/ /\ KeyAt(t) = t
              /\ LET value == implicitProducerHash[h][At(t)].value
                 IN  IhGoto(t, IF h = ih[t].main THEN NotInside(value)
                               ELSE [pc |-> "copy", hash |-> ih[t].main,
                                     index |-> hash_thread_id[t], producer |-> value])
           \/ /\ KeyAt(t) \in {invalid_thread_id, invalid_thread_id2}
              /\ IhGoto(t, IF h = 1 THEN [pc |-> "count", main |-> ih[t].main]
                           ELSE [ih[t] EXCEPT !.hash = h - 1, !.index = hash_thread_id[t]])
           \/ /\ KeyAt(t) \notin {t, invalid_thread_id, invalid_thread_id2}
              /\ NextIndex(t)
        /\ UNCHANGED <<hash_thread_id, implicitProducerHash, implicitProducerHashCount,
                       resizeInProgress, recyclable, created, listeners>>

Probe(t) ==
    LET h == ih[t].hash
    IN  /\ ih[t].pc = "probe"
        /\ \/ /\ KeyAt(t) = t
              /\ LET value == implicitProducerHash[h][At(t)].value
                 IN  IhGoto(t, IF h = ih[t].main THEN NotInside(value)
                               ELSE [pc |-> "copy", hash |-> ih[t].main,
                                     index |-> hash_thread_id[t], producer |-> value])
           \/ /\ KeyAt(t) = invalid_thread_id
              /\ IhGoto(t, IF h = 1 THEN [pc |-> "count", main |-> ih[t].main]
                           ELSE [ih[t] EXCEPT !.hash = h - 1, !.index = hash_thread_id[t]])
           \/ /\ KeyAt(t) \notin {t, invalid_thread_id}
              /\ NextIndex(t)
        /\ UNCHANGED <<hash_thread_id, implicitProducerHash, implicitProducerHashCount,
                       resizeInProgress, recyclable, created, listeners>>

\* Found in an older table, the thread is added to the newest one it saw.
Copy(t) ==
    /\ ih[t].pc = "copy"
    /\ IF KeyAt(t) \in {invalid_thread_id, invalid_thread_id2}
       THEN /\ Put(t, [key |-> t, value |-> ih[t].producer])
            /\ IhGoto(t, NotInside(ih[t].producer))
       ELSE NextIndex(t) /\ UNCHANGED implicitProducerHash
    /\ UNCHANGED <<hash_thread_id, implicitProducerHashCount, resizeInProgress, recyclable,
                   created, listeners>>

-----------------------------------------------------------------------------
(***************************************************************************)
(* Not found: the thread is counted, the table made larger if it is half   *)
(* full, and the thread given a producer and a slot.                       *)
(***************************************************************************)
HalfFull(count, h) == count >= Capacity(h) \div 2
HasRoom(count, h) == count < (Capacity(h) \div 2) + (Capacity(h) \div 4)

CountIn(t) ==
    /\ ih[t].pc = "count"
    /\ implicitProducerHashCount' = implicitProducerHashCount + 1
    /\ IhGoto(t, [pc |-> "resize", main |-> ih[t].main, count |-> implicitProducerHashCount'])
    /\ UNCHANGED <<hash_thread_id, implicitProducerHash, resizeInProgress, recyclable, created,
                   listeners>>

\* The test_and_set.
TryResize(t) ==
    /\ ih[t].pc = "resize"
    /\ IF HalfFull(ih[t].count, ih[t].main) /\ ~resizeInProgress
       THEN resizeInProgress' = TRUE /\ IhGoto(t, [ih[t] EXCEPT !.pc = "reload"])
       ELSE UNCHANGED resizeInProgress /\ IhGoto(t, [ih[t] EXCEPT !.pc = "room"])
    /\ UNCHANGED <<hash_thread_id, implicitProducerHash, implicitProducerHashCount, recyclable,
                   created, listeners>>

ReloadTable(t) ==
    /\ ih[t].pc = "reload"
    /\ IhGoto(t, [ih[t] EXCEPT !.pc = IF HalfFull(ih[t].count, NewestTable) THEN "allocate"
                                      ELSE "unlock",
                               !.main = NewestTable])
    /\ UNCHANGED <<hash_thread_id, implicitProducerHash, implicitProducerHashCount,
                   resizeInProgress, recyclable, created, listeners>>

\* The capacity is doubled until the count is below half of it.
NewTableSize(count, h) ==
    LET doubled[k \in 0 .. count + 1] ==
            IF k = 0 THEN 2 * Capacity(h)
            ELSE IF count >= doubled[k - 1] \div 2 THEN 2 * doubled[k - 1] ELSE doubled[k - 1]
    IN  doubled[count + 1]

Allocate(t) ==
    /\ ih[t].pc = "allocate"
    /\ \/ /\ implicitProducerHash' = Append(implicitProducerHash,
                                            Table(NewTableSize(ih[t].count, ih[t].main)))
          /\ IhGoto(t, [ih[t] EXCEPT !.pc = "unlock", !.main = NewestTable + 1])
          /\ UNCHANGED implicitProducerHashCount
       \/ /\ implicitProducerHashCount' = implicitProducerHashCount - 1
          /\ IhGoto(t, [pc |-> "failed"])
          /\ UNCHANGED implicitProducerHash
    /\ UNCHANGED <<hash_thread_id, resizeInProgress, recyclable, created, listeners>>

ClearResize(t) ==
    /\ ih[t].pc \in {"unlock", "failed"}
    /\ resizeInProgress' = FALSE
    /\ IhGoto(t, IF ih[t].pc = "failed" THEN NotInside(NoProducer) ELSE [ih[t] EXCEPT !.pc = "room"])
    /\ UNCHANGED <<hash_thread_id, implicitProducerHash, implicitProducerHashCount, recyclable,
                   created, listeners>>

\* recycle_or_create_producer, which may fail, and the subscription to the
\* thread's end; or the table is too full, and the newest one is tried.
Room(t) ==
    /\ ih[t].pc = "room"
    /\ IF HasRoom(ih[t].count, ih[t].main)
       THEN \/ \E p \in recyclable \cup ({Cardinality(created) + 1} \cap HashedProducers) :
                 /\ recyclable' = recyclable \ {p}
                 /\ created' = created \cup {p}
                 /\ listeners' = [listeners EXCEPT ![t] = @ \cup {p}]
                 /\ IhGoto(t, [pc |-> "insert", hash |-> ih[t].main, index |-> hash_thread_id[t],
                               producer |-> p])
            \/ /\ IhGoto(t, [pc |-> "uncount", producer |-> NoProducer])
               /\ UNCHANGED <<recyclable, created, listeners>>
       ELSE /\ IhGoto(t, [ih[t] EXCEPT !.pc = "resize", !.main = NewestTable])
            /\ UNCHANGED <<recyclable, created, listeners>>
    /\ UNCHANGED <<hash_thread_id, implicitProducerHash, implicitProducerHashCount, resizeInProgress>>

\* A slot used before is counted already.
Insert(t) ==
    /\ ih[t].pc = "insert"
    /\ IF KeyAt(t) \in {invalid_thread_id, invalid_thread_id2}
       THEN /\ Put(t, [key |-> t, value |-> ih[t].producer])
            /\ IhGoto(t, IF KeyAt(t) = invalid_thread_id THEN NotInside(ih[t].producer)
                         ELSE [pc |-> "uncount", producer |-> ih[t].producer])
       ELSE NextIndex(t) /\ UNCHANGED implicitProducerHash
    /\ UNCHANGED <<hash_thread_id, implicitProducerHashCount, resizeInProgress, recyclable,
                   created, listeners>>

Uncount(t) ==
    /\ ih[t].pc = "uncount"
    /\ implicitProducerHashCount' = implicitProducerHashCount - 1
    /\ IhGoto(t, NotInside(ih[t].producer))
    /\ UNCHANGED <<hash_thread_id, implicitProducerHash, resizeInProgress, recyclable, created,
                   listeners>>

-----------------------------------------------------------------------------
(***************************************************************************)
(* implicit_producer_thread_exited, for a producer the thread has.         *)
(***************************************************************************)
ThreadExits(t) ==
    /\ ih[t].pc = "out"
    /\ \E p \in listeners[t] :
           IhGoto(t, [pc |-> "exit", hash |-> NewestTable, index |-> hash_thread_id[t], producer |-> p])
    /\ UNCHANGED <<hash_thread_id, implicitProducerHash, implicitProducerHashCount,
                   resizeInProgress, recyclable, created, listeners>>

\* In each table its key, if it is there, becomes invalid_thread_id2.
RemoveKey(t) ==
    LET h == ih[t].hash
    IN  /\ ih[t].pc = "exit"
        /\ IF KeyAt(t) \in {t, invalid_thread_id}
           THEN IhGoto(t, IF h = 1 THEN [pc |-> "exited", producer |-> ih[t].producer]
                          ELSE [ih[t] EXCEPT !.hash = h - 1, !.index = hash_thread_id[t]])
           ELSE NextIndex(t)
        /\ IF KeyAt(t) = t
           THEN implicitProducerHash' = [implicitProducerHash EXCEPT ![h][At(t)].key = invalid_thread_id2]
           ELSE UNCHANGED implicitProducerHash
        /\ UNCHANGED <<hash_thread_id, implicitProducerHashCount, resizeInProgress, recyclable,
                       created, listeners>>

\* The producer becomes inactive; the next thread with the id is a new one.
Exited(t) ==
    LET p == ih[t].producer
    IN  /\ ih[t].pc = "exited"
        /\ recyclable' = recyclable \cup {p}
        /\ listeners' = [listeners EXCEPT ![t] = @ \ {p}]
        /\ IhGoto(t, NotInside(NoProducer))
        /\ UNCHANGED <<hash_thread_id, implicitProducerHash, implicitProducerHashCount,
                       resizeInProgress, created>>

HashNext ==
    \E t \in ThreadIds :
        \/ GetOrAdd(t) \/ Probe(t) \/ Copy(t)
        \/ CountIn(t) \/ TryResize(t) \/ ReloadTable(t) \/ Allocate(t) \/ ClearResize(t)
        \/ Room(t) \/ Insert(t) \/ Uncount(t)
        \/ ThreadExits(t) \/ RemoveKey(t) \/ Exited(t)

HashSpec == HashInit /\ [][HashNext]_hashVars

-----------------------------------------------------------------------------
\* "at least one slot is free in the hash table" (concurrentqueue.h:3412), which
\* is what ends a search.
TablesHaveFreeSlot ==
    \A h \in 1 .. NewestTable :
        \E k \in DOMAIN implicitProducerHash[h] : implicitProducerHash[h][k].key = invalid_thread_id

\* A thread has one producer, which each of its calls returns, however the tables
\* grow meanwhile, and no other thread has it before the thread's end.
ProducersAreKept ==
    \A t, u \in ThreadIds :
        /\ Cardinality(listeners[t]) <= 1 /\ listeners[t] \cap recyclable = {}
        /\ t # u => listeners[t] \cap listeners[u] = {}
        /\ ih[t].pc = "out" /\ ih[t].producer # NoProducer => listeners[t] = {ih[t].producer}

\* Producers are kept, and no search goes on for ever (concurrentqueue.h:3409-3448,
\* 3507-3524, 3550-3560).
ThreadsKeepTheirProducer == ProducersAreKept /\ TablesHaveFreeSlot
=============================================================================
