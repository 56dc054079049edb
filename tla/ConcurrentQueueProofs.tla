----------------------- MODULE ConcurrentQueueProofs -----------------------
(***************************************************************************)
(* Proofs about ConcurrentQueue, part by part, for any nodes, producers    *)
(* and threads: the free list keeps its nodes; a producer has one token,   *)
(* and the count of producers covers the list that is walked; a dequeue    *)
(* falls short only if it has looked at every producer it should; the      *)
(* indices and counters of a sub-queue agree across their wrap; and the    *)
(* hash gives each thread one producer, which it keeps.                    *)
(***************************************************************************)
EXTENDS ConcurrentQueue, FiniteSetTheorems, WellFoundedInduction, TLAPS

-----------------------------------------------------------------------------
(***************************************************************************)
(* Linked nodes.                                                           *)
(***************************************************************************)
\* The nodes from p on are a closed set that p is in, and the least such.
LEMMA LinkedIsClosed ==
    ASSUME NEW Ns, NEW null, null \notin Ns, NEW nx \in [Ns -> Ns \cup {null}],
           NEW p \in Ns \cup {null}
    PROVE  /\ LinkedFrom(p, nx, null) \subseteq Ns
           /\ p \in LinkedFrom(p, nx, null) \cup {null}
           /\ Closed(LinkedFrom(p, nx, null), nx, null)
  BY DEF LinkedFrom, Closed

LEMMA LinkedIsLeast ==
    ASSUME NEW Ns, NEW null, NEW nx \in [Ns -> Ns \cup {null}],
           NEW p \in Ns \cup {null},
           NEW S \in SUBSET Ns, p \in S \cup {null}, Closed(S, nx, null)
    PROVE  LinkedFrom(p, nx, null) \subseteq S
  BY DEF LinkedFrom

LEMMA LinkedFromNull ==
    ASSUME NEW Ns, NEW null, null \notin Ns, NEW nx \in [Ns -> Ns \cup {null}]
    PROVE  LinkedFrom(null, nx, null) = {}
<1>1. Closed({}, nx, null)
  BY DEF Closed
<1> QED BY <1>1, LinkedIsLeast

\* A node of a list has the rest of the list after it.
LEMMA LinkedFromMember ==
    ASSUME NEW Ns, NEW null, null \notin Ns, NEW nx \in [Ns -> Ns \cup {null}],
           NEW p \in Ns \cup {null}, NEW q \in LinkedFrom(p, nx, null)
    PROVE  LinkedFrom(q, nx, null) \subseteq LinkedFrom(p, nx, null)
<1>1. q \in Ns
  BY LinkedIsClosed
<1> QED BY <1>1, LinkedIsClosed, LinkedIsLeast

\* A list is its first node and what is linked from that.
LEMMA LinkedFromFirst ==
    ASSUME NEW Ns, NEW null, null \notin Ns, NEW nx \in [Ns -> Ns \cup {null}],
           NEW p \in Ns
    PROVE  LinkedFrom(p, nx, null) = {p} \cup LinkedFrom(nx[p], nx, null)
<1> DEFINE L == LinkedFrom(p, nx, null)
           R == LinkedFrom(nx[p], nx, null)
<1>1. nx[p] \in Ns \cup {null} /\ p \in Ns \cup {null}
  OBVIOUS
<1>2. L \subseteq Ns /\ p \in L /\ Closed(L, nx, null)
  BY <1>1, LinkedIsClosed
<1>3. R \subseteq Ns /\ nx[p] \in R \cup {null} /\ Closed(R, nx, null)
  BY <1>1, LinkedIsClosed
<1>4. L \subseteq {p} \cup R
  <2>1. Closed({p} \cup R, nx, null) /\ {p} \cup R \in SUBSET Ns
    BY <1>3 DEF Closed
  <2> HIDE DEF R
  <2>2. p \in ({p} \cup R) \cup {null}
    OBVIOUS
  <2> QED BY <1>1, <2>1, <2>2, LinkedIsLeast
<1>5. R \subseteq L
  <2>1. nx[p] \in L \cup {null}
    BY <1>2 DEF Closed
  <2> HIDE DEF L
  <2> QED BY <1>1, <1>2, <2>1, LinkedIsLeast
<1> QED BY <1>2, <1>4, <1>5

\* A change outside a list does not change it.
LEMMA LinkedElsewhere ==
    ASSUME NEW Ns, NEW null, null \notin Ns,
           NEW nx \in [Ns -> Ns \cup {null}], NEW ny \in [Ns -> Ns \cup {null}],
           NEW p \in Ns \cup {null},
           \A q \in LinkedFrom(p, nx, null) : ny[q] = nx[q]
    PROVE  LinkedFrom(p, ny, null) = LinkedFrom(p, nx, null)
<1> DEFINE X == LinkedFrom(p, nx, null)
           Y == LinkedFrom(p, ny, null)
<1>1. X \subseteq Ns /\ p \in X \cup {null} /\ Closed(X, nx, null)
  BY LinkedIsClosed
<1>2. Y \subseteq Ns /\ p \in Y \cup {null} /\ Closed(Y, ny, null)
  BY LinkedIsClosed
<1>3. Y \subseteq X
  <2>1. Closed(X, ny, null)
    BY <1>1 DEF Closed
  <2> HIDE DEF X
  <2> QED BY <1>1, <2>1, LinkedIsLeast
<1>4. X \subseteq Y
  <2>1. Closed(Y, nx, null)
    BY <1>2, <1>3 DEF Closed
  <2> HIDE DEF Y
  <2> QED BY <1>2, <2>1, LinkedIsLeast
<1> QED BY <1>3, <1>4

-----------------------------------------------------------------------------
(***************************************************************************)
(* The free list: what a node is to each thread.                           *)
(***************************************************************************)
NodeOrNull == Nodes \cup {NoNode}
RefCounts == [should : BOOLEAN, refs : Nat]

FlStates ==
    [pc : {"outside", "getHead"}]
    \cup [pc : {"addHead"}, node : Nodes, resume : NodeOrNull]
    \cup [pc : {"addNext", "addRefs", "addCas", "addAgain"},
          node : Nodes, resume : NodeOrNull, head : NodeOrNull]
    \cup [pc : {"getRefs", "getNext", "getTake"}, head : Nodes]
    \cup [pc : {"getCasRefs"}, head : Nodes, seen : [should : BOOLEAN, refs : Nat \ {0}]]
    \cup [pc : {"getCasHead"}, head : Nodes, next : NodeOrNull]
    \cup [pc : {"getLetGo"}, head : Nodes, resume : NodeOrNull]

FreeListTypeOK ==
    /\ freeListHead \in NodeOrNull
    /\ freeListNext \in [Nodes -> NodeOrNull]
    /\ freeListRefs \in [Nodes -> RefCounts]
    /\ held \in [FreeListThreads -> SUBSET Nodes]
    /\ fl \in [FreeListThreads -> FlStates]

Adding(t, n) == fl[t].pc \in {"addHead", "addNext", "addRefs"} /\ fl[t].node = n
Linking(t, n) == fl[t].pc \in {"addCas", "addAgain"} /\ fl[t].node = n
Taking(t, n) == fl[t].pc = "getTake" /\ fl[t].head = n
Refers(t, n) ==
    fl[t].pc \in {"getNext", "getCasHead", "getTake", "getLetGo"} /\ fl[t].head = n

\* A node is its thread's to write; or on the list or about to be, or just off it,
\* and counted for that.
Owns(t, n) == n \in held[t] \/ Adding(t, n) \/ Linking(t, n) \/ Taking(t, n)
Counted(n) == n \in Linked \/ \E t \in FreeListThreads : Linking(t, n) \/ Taking(t, n)
Referrers(n) == {t \in FreeListThreads : Refers(t, n)}

(***************************************************************************)
(* The inductive invariant.                                                *)
(***************************************************************************)
Acyclic ==
    \A n \in Linked : n \notin LinkedFrom(freeListNext[n], freeListNext, NoNode)

\* A node has one owner or is on the list.
OwnedOnce(n) ==
    \A t \in FreeListThreads :
        Owns(t, n) =>
            /\ n \notin Linked
            /\ \A u \in FreeListThreads : Owns(u, n) => u = t
            /\ n \in held[t] => ~Adding(t, n) /\ ~Linking(t, n) /\ ~Taking(t, n)

\* The mark: neither held nor counted, and left to who lets go of it last.
MarkMeans(n) ==
    /\ freeListRefs[n].should =>
           ~Counted(n) /\ \A t \in FreeListThreads : n \notin held[t]
    /\ ~freeListRefs[n].should =>
           Counted(n) \/ \E t \in FreeListThreads : n \in held[t]
    /\ \A t \in FreeListThreads :
           Adding(t, n) => freeListRefs[n].should /\ freeListRefs[n].refs = 0
    /\ freeListRefs[n].should /\ freeListRefs[n].refs = 0 =>
           \E t \in FreeListThreads : Adding(t, n)

RefsCounted(n) ==
    freeListRefs[n].refs = Cardinality(Referrers(n)) + (IF Counted(n) THEN 1 ELSE 0)

NodeInv(n) == OwnedOnce(n) /\ MarkMeans(n) /\ RefsCounted(n)

\* What a thread has read or written of next is still so.
NextIsKept ==
    \A t \in FreeListThreads :
        /\ fl[t].pc = "getCasHead" => freeListNext[fl[t].head] = fl[t].next
        /\ fl[t].pc \in {"addRefs", "addCas"} => freeListNext[fl[t].node] = fl[t].head

FreeListInv ==
    /\ FreeListTypeOK
    /\ Acyclic
    /\ \A n \in Nodes : NodeInv(n)
    /\ NextIsKept
    /\ ~takenMarked

(***************************************************************************)
(* Where a thread is, by its record.                                       *)
(***************************************************************************)
LEMMA FlShapes ==
    ASSUME NEW t \in FreeListThreads, FreeListTypeOK
    PROVE  /\ fl[t].pc = "addHead" =>
                  fl[t] \in [pc : {"addHead"}, node : Nodes, resume : NodeOrNull]
           /\ fl[t].pc \in {"addNext", "addRefs", "addCas", "addAgain"} =>
                  fl[t] \in [pc : {"addNext", "addRefs", "addCas", "addAgain"},
                             node : Nodes, resume : NodeOrNull, head : NodeOrNull]
           /\ fl[t].pc \in {"getRefs", "getNext", "getTake"} =>
                  fl[t] \in [pc : {"getRefs", "getNext", "getTake"}, head : Nodes]
           /\ fl[t].pc = "getCasRefs" =>
                  fl[t] \in [pc : {"getCasRefs"}, head : Nodes,
                             seen : [should : BOOLEAN, refs : Nat \ {0}]]
           /\ fl[t].pc = "getCasHead" =>
                  fl[t] \in [pc : {"getCasHead"}, head : Nodes, next : NodeOrNull]
           /\ fl[t].pc = "getLetGo" =>
                  fl[t] \in [pc : {"getLetGo"}, head : Nodes, resume : NodeOrNull]
<1>1. fl[t] \in FlStates
  BY DEF FreeListTypeOK
<1> QED BY <1>1 DEF FlStates

(***************************************************************************)
(* What a step of thread t leaves as it is.                                *)
(***************************************************************************)
LEMMA OthersStay ==
    ASSUME FreeListTypeOK, NEW t \in FreeListThreads, NEW state, FlGoto(t, state)
    PROVE  /\ fl'[t] = state
           /\ \A u \in FreeListThreads \ {t} : fl'[u] = fl[u]
  BY DEF FreeListTypeOK, FlGoto

Frozen(t) == \A u \in FreeListThreads \ {t} : fl'[u] = fl[u] /\ held'[u] = held[u]

LEMMA ReferrersStep ==
    ASSUME NEW t \in FreeListThreads, NEW n,
           Frozen(t)
    PROVE  /\ Cardinality(Referrers(n)) \in Nat /\ Cardinality(Referrers(n)') \in Nat
           /\ Refers(t, n) => Cardinality(Referrers(n)) >= 1
           /\ (Refers(t, n)' <=> Refers(t, n)) => Referrers(n)' = Referrers(n)
           /\ ~Refers(t, n) /\ Refers(t, n)' =>
                  Cardinality(Referrers(n)') = Cardinality(Referrers(n)) + 1
           /\ Refers(t, n) /\ ~Refers(t, n)' =>
                  Cardinality(Referrers(n)') = Cardinality(Referrers(n)) - 1
<1> DEFINE R == Referrers(n)
<1>1. IsFiniteSet(R)
  BY FreeListAssumption, FS_Subset DEF Referrers
<1>2. \A u \in FreeListThreads \ {t} : Refers(u, n)' <=> Refers(u, n)
  BY DEF Refers, Frozen
<1>3. R \subseteq FreeListThreads /\ (t \in R <=> Refers(t, n))
  BY DEF Referrers
<1>4. /\ (Refers(t, n)' <=> Refers(t, n)) => R' = R
      /\ ~Refers(t, n) /\ Refers(t, n)' => R' = R \cup {t}
      /\ Refers(t, n) /\ ~Refers(t, n)' => R' = R \ {t}
  BY <1>2 DEF Referrers
<1> HIDE DEF R
<1>5. Cardinality(R) \in Nat
  BY <1>1, FS_CardinalityType
<1>10. Cardinality(R') \in Nat
  BY <1>1, <1>4, FS_AddElement, FS_RemoveElement, FS_CardinalityType
<1>6. Cardinality(R) = 0 <=> R = {}
  BY <1>1, FS_EmptySet
<1>7. t \in R => Cardinality(R) >= 1
  BY <1>5, <1>6
<1>8. /\ t \notin R => Cardinality(R \cup {t}) = Cardinality(R) + 1
      /\ t \in R => Cardinality(R \ {t}) = Cardinality(R) - 1
  BY <1>1, FS_AddElement, FS_RemoveElement
<1>9. /\ Cardinality(R) \in Nat /\ Cardinality(R') \in Nat
      /\ Refers(t, n) => Cardinality(R) >= 1
      /\ (Refers(t, n)' <=> Refers(t, n)) => R' = R
      /\ ~Refers(t, n) /\ Refers(t, n)' => Cardinality(R') = Cardinality(R) + 1
      /\ Refers(t, n) /\ ~Refers(t, n)' => Cardinality(R') = Cardinality(R) - 1
  BY <1>3, <1>4, <1>5, <1>7, <1>8, <1>10
<1> QED BY <1>9 DEF R

\* Who refers to a node, and the list, each have a count of their own.
LEMMA CountedHasRef ==
    ASSUME NEW t \in FreeListThreads, NEW n \in Nodes, NodeInv(n)
    PROVE  /\ freeListRefs[n].refs \in Nat
           /\ Counted(n) => freeListRefs[n].refs - 1 \in Nat
           /\ Refers(t, n) => freeListRefs[n].refs - 1 \in Nat
           /\ Counted(n) /\ Refers(t, n) => freeListRefs[n].refs - 2 \in Nat
<1>1. Cardinality(Referrers(n)) \in Nat
  BY FS_Subset, FS_CardinalityType, FreeListAssumption DEF Referrers
<1>2. Refers(t, n) => Cardinality(Referrers(n)) >= 1
  <2>1. ASSUME Refers(t, n) PROVE Referrers(n) # {} /\ IsFiniteSet(Referrers(n))
    BY <2>1, FS_Subset, FreeListAssumption DEF Referrers
  <2> QED BY <1>1, <2>1, FS_EmptySet
<1> DEFINE k == Cardinality(Referrers(n))
           r == freeListRefs[n].refs
<1>3. r = k + (IF Counted(n) THEN 1 ELSE 0)
  BY DEF NodeInv, RefsCounted
<1> HIDE DEF k, r
<1>4. /\ r \in Nat
      /\ Counted(n) => r - 1 \in Nat
      /\ Refers(t, n) => r - 1 \in Nat
      /\ Counted(n) /\ Refers(t, n) => r - 2 \in Nat
  BY <1>1, <1>2, <1>3 DEF k
<1> QED BY <1>4 DEF r

\* A node is as it was if what t is to it, its counts and its place are.
LEMMA NodeStays ==
    ASSUME NEW t \in FreeListThreads, NEW n \in Nodes, NodeInv(n),
           Frozen(t),
           n \in held'[t] <=> n \in held[t],
           Adding(t, n)' <=> Adding(t, n),
           Linking(t, n)' <=> Linking(t, n),
           Taking(t, n)' <=> Taking(t, n),
           Refers(t, n)' <=> Refers(t, n),
           n \in Linked' <=> n \in Linked,
           freeListRefs'[n] = freeListRefs[n]
    PROVE  NodeInv(n)'
<1>1. \A u \in FreeListThreads :
          /\ Adding(u, n)' <=> Adding(u, n)
          /\ Linking(u, n)' <=> Linking(u, n)
          /\ Taking(u, n)' <=> Taking(u, n)
          /\ n \in held'[u] <=> n \in held[u]
  BY DEF Adding, Linking, Taking, Frozen
<1>2. \A u \in FreeListThreads : Owns(u, n)' <=> Owns(u, n)
  BY <1>1 DEF Owns
<1>3. Counted(n)' <=> Counted(n)
  BY <1>1 DEF Counted
<1>4. Referrers(n)' = Referrers(n)
  BY ReferrersStep
<1>5. OwnedOnce(n)'
  BY <1>1, <1>2 DEF NodeInv, OwnedOnce
<1>6. MarkMeans(n)'
  BY <1>1, <1>3 DEF NodeInv, MarkMeans
<1>7. RefsCounted(n)'
  BY <1>3, <1>4 DEF NodeInv, RefsCounted
<1> QED BY <1>5, <1>6, <1>7 DEF NodeInv

\* A step of thread t goes to one of the states there are.
LEMMA FlTypeGoto ==
    ASSUME FreeListTypeOK, NEW t \in FreeListThreads, NEW state \in FlStates, FlGoto(t, state)
    PROVE  fl' \in [FreeListThreads -> FlStates]
  BY DEF FreeListTypeOK, FlGoto

LEMMA RefsType ==
    ASSUME FreeListTypeOK, NEW n \in Nodes, NEW b \in BOOLEAN, NEW k \in Nat, SetRefs(n, b, k)
    PROVE  freeListRefs' \in [Nodes -> RefCounts]
  BY DEF FreeListTypeOK, SetRefs, RefCounts

LEMMA ReturnType ==
    ASSUME FreeListTypeOK, NEW t \in FreeListThreads, fl[t].resume \in NodeOrNull, Return(t)
    PROVE  fl' \in [FreeListThreads -> FlStates]
<1> DEFINE state == IF fl[t].resume = NoNode THEN Outside
                    ELSE [pc |-> "getRefs", head |-> fl[t].resume]
<1>1. state \in FlStates
  BY DEF FlStates, NodeOrNull, Outside
<1>2. FlGoto(t, state)
  BY DEF Return
<1> HIDE DEF state
<1> QED BY <1>1, <1>2, FlTypeGoto

LEMMA FreeListTypeStep ==
    ASSUME FreeListInv, NEW t \in FreeListThreads, NEW n \in Nodes,
           Add(t, n) \/ TryGet(t) \/ FreeListSteps(t)
    PROVE  FreeListTypeOK'
<1>0. FreeListTypeOK
  BY DEF FreeListInv
<1> DEFINE CountsFit(r) == r.refs \in Nat /\ r.should \in BOOLEAN
<1>1. \A m \in Nodes : CountsFit(freeListRefs[m]) /\ freeListNext[m] \in NodeOrNull
  BY <1>0 DEF FreeListTypeOK, RefCounts
<1>2. CASE AddLoadHead(t)
  <2>1. [pc |-> "addNext", node |-> fl[t].node, resume |-> fl[t].resume,
         head |-> freeListHead] \in FlStates
    BY <1>0, <1>2, FlShapes DEF AddLoadHead, FreeListTypeOK, FlStates
  <2> QED BY <1>0, <1>2, <2>1, FlTypeGoto DEF AddLoadHead, FreeListTypeOK
<1>3. CASE AddNext(t)
  <2>1. fl[t].node \in Nodes /\ fl[t].head \in NodeOrNull
        /\ [fl[t] EXCEPT !.pc = "addRefs"] \in FlStates
    BY <1>0, <1>3, FlShapes DEF AddNext, FlStates
  <2> QED BY <1>0, <1>3, <2>1, FlTypeGoto DEF AddNext, FreeListTypeOK
<1>4. CASE AddRefs(t)
  <2>1. fl[t].node \in Nodes /\ [fl[t] EXCEPT !.pc = "addCas"] \in FlStates
    BY <1>0, <1>4, FlShapes DEF AddRefs, FlStates
  <2> QED BY <1>0, <1>4, <2>1, FlTypeGoto, RefsType DEF AddRefs, FreeListTypeOK
<1>5. CASE AddCas(t)
  <2>1. /\ fl[t].node \in Nodes /\ fl[t].resume \in NodeOrNull
        /\ [fl[t] EXCEPT !.pc = "addAgain", !.head = freeListHead] \in FlStates
    BY <1>0, <1>5, FlShapes DEF AddCas, FlStates, FreeListTypeOK
  <2>2. fl' \in [FreeListThreads -> FlStates]
    BY <1>0, <1>5, <2>1, FlTypeGoto, ReturnType DEF AddCas
  <2> QED BY <1>0, <1>5, <2>1, <2>2 DEF AddCas, FreeListTypeOK, NodeOrNull
<1>6. CASE AddAgain(t)
  <2>1. /\ fl[t].node \in Nodes /\ fl[t].resume \in NodeOrNull
        /\ [fl[t] EXCEPT !.pc = "addNext"] \in FlStates
    BY <1>0, <1>6, FlShapes DEF AddAgain, FlStates
  <2>2. freeListRefs[fl[t].node].refs - 1 \in Nat
    <3>1. Linking(t, fl[t].node)
      BY <1>6 DEF AddAgain, Linking
    <3>2. Counted(fl[t].node)
      BY <3>1 DEF Counted
    <3> QED BY <1>0, <2>1, <3>2, CountedHasRef DEF FreeListInv
  <2>3. fl' \in [FreeListThreads -> FlStates]
    BY <1>0, <1>6, <2>1, FlTypeGoto, ReturnType DEF AddAgain
  <2> QED BY <1>0, <1>6, <2>1, <2>2, <2>3, RefsType DEF AddAgain, FreeListTypeOK
<1>7. CASE Add(t, n)
  <2>1. /\ [pc |-> "addHead", node |-> n, resume |-> NoNode] \in FlStates
        /\ Outside \in FlStates
    BY DEF FlStates, Outside, NodeOrNull
  <2>2. held' \in [FreeListThreads -> SUBSET Nodes]
    BY <1>0, <1>7 DEF Add, FreeListTypeOK
  <2>3. freeListRefs' \in [Nodes -> RefCounts]
    BY <1>0, <1>1, <1>7, RefsType DEF Add
  <2>4. fl' \in [FreeListThreads -> FlStates]
    BY <1>0, <1>7, <2>1, FlTypeGoto DEF Add
  <2> QED BY <1>0, <1>7, <2>2, <2>3, <2>4 DEF Add, FreeListTypeOK
<1>8. CASE TryGet(t) \/ GetReload(t)
  <2>1. /\ freeListHead # NoNode => [pc |-> "getRefs", head |-> freeListHead] \in FlStates
        /\ Outside \in FlStates
    BY <1>0 DEF FlStates, Outside, NodeOrNull, FreeListTypeOK
  <2>2. fl' \in [FreeListThreads -> FlStates]
    BY <1>0, <1>8, <2>1, FlTypeGoto DEF TryGet, GetReload, WithHead
  <2> QED BY <1>0, <1>8, <2>2 DEF TryGet, GetReload, FreeListTypeOK
<1>9. CASE GetRefs(t)
  <2>1. fl[t].head \in Nodes
    BY <1>0, <1>9, FlShapes DEF GetRefs
  <2> DEFINE refs == freeListRefs[fl[t].head]
  <2>2. /\ refs.refs # 0 => [pc |-> "getCasRefs", head |-> fl[t].head, seen |-> refs] \in FlStates
        /\ [pc |-> "getHead"] \in FlStates
    BY <1>0, <2>1 DEF FlStates, FreeListTypeOK, RefCounts
  <2>3. fl' \in [FreeListThreads -> FlStates]
    BY <1>0, <1>9, <2>2, FlTypeGoto DEF GetRefs
  <2> QED BY <1>0, <1>9, <2>3 DEF GetRefs, FreeListTypeOK
<1>10. CASE GetCasRefs(t)
  <2>1. /\ fl[t].head \in Nodes
        /\ fl[t].seen.should \in BOOLEAN /\ fl[t].seen.refs + 1 \in Nat
        /\ [pc |-> "getNext", head |-> fl[t].head] \in FlStates
        /\ [pc |-> "getHead"] \in FlStates
    BY <1>0, <1>10, FlShapes DEF GetCasRefs, FlStates
  <2>2. fl' \in [FreeListThreads -> FlStates]
    BY <1>0, <1>10, <2>1, FlTypeGoto DEF GetCasRefs
  <2>3. freeListRefs' \in [Nodes -> RefCounts]
    BY <1>0, <1>10, <2>1, RefsType DEF GetCasRefs, FreeListTypeOK
  <2> QED BY <1>0, <1>10, <2>2, <2>3 DEF GetCasRefs, FreeListTypeOK
<1>11. CASE GetNext(t)
  <2>1. fl[t].head \in Nodes
    BY <1>0, <1>11, FlShapes DEF GetNext
  <2>2. [pc |-> "getCasHead", head |-> fl[t].head, next |-> freeListNext[fl[t].head]]
            \in FlStates
    BY <1>1, <2>1 DEF FlStates
  <2> QED BY <1>0, <1>11, <2>2, FlTypeGoto DEF GetNext, FreeListTypeOK
<1>12. CASE GetCasHead(t)
  <2>1. /\ fl[t].head \in Nodes /\ fl[t].next \in NodeOrNull
        /\ [pc |-> "getTake", head |-> fl[t].head] \in FlStates
        /\ [pc |-> "getLetGo", head |-> fl[t].head, resume |-> freeListHead] \in FlStates
    BY <1>0, <1>12, FlShapes DEF GetCasHead, FlStates, FreeListTypeOK
  <2>2. fl' \in [FreeListThreads -> FlStates]
    BY <1>0, <1>12, <2>1, FlTypeGoto DEF GetCasHead
  <2> QED BY <1>0, <1>12, <2>1, <2>2 DEF GetCasHead, FreeListTypeOK
<1>13. CASE GetTake(t)
  <2> DEFINE h == fl[t].head
  <2>1. h \in Nodes /\ Outside \in FlStates
    BY <1>0, <1>13, FlShapes DEF GetTake, FlStates, Outside
  <2>2. freeListRefs[h].refs - 2 \in Nat
    <3>1. Taking(t, h) /\ Refers(t, h)
      BY <1>13 DEF GetTake, Taking, Refers
    <3>2. Counted(h)
      BY <3>1 DEF Counted
    <3> QED BY <1>0, <2>1, <3>1, <3>2, CountedHasRef DEF FreeListInv
  <2>3. held' \in [FreeListThreads -> SUBSET Nodes]
    BY <1>0, <1>13, <2>1 DEF GetTake, FreeListTypeOK
  <2>4. freeListRefs' \in [Nodes -> RefCounts]
    BY <1>0, <1>1, <1>13, <2>1, <2>2, RefsType DEF GetTake
  <2> QED BY <1>0, <1>13, <2>1, <2>3, <2>4, FlTypeGoto DEF GetTake, FreeListTypeOK
<1>14. CASE GetLetGo(t)
  <2> DEFINE h == fl[t].head
  <2>1. /\ h \in Nodes /\ fl[t].resume \in NodeOrNull
        /\ [pc |-> "addHead", node |-> h, resume |-> fl[t].resume] \in FlStates
        /\ Outside \in FlStates
        /\ fl[t].resume # NoNode => [pc |-> "getRefs", head |-> fl[t].resume] \in FlStates
    BY <1>0, <1>14, FlShapes DEF GetLetGo, FlStates, Outside, NodeOrNull
  <2>2. freeListRefs[h].refs - 1 \in Nat
    <3>1. Refers(t, h)
      BY <1>14 DEF GetLetGo, Refers
    <3> QED BY <1>0, <2>1, <3>1, CountedHasRef DEF FreeListInv
  <2>3. fl' \in [FreeListThreads -> FlStates]
    BY <1>0, <1>14, <2>1, FlTypeGoto DEF GetLetGo
  <2>4. freeListRefs' \in [Nodes -> RefCounts]
    BY <1>0, <1>1, <1>14, <2>1, <2>2, RefsType DEF GetLetGo
  <2> QED BY <1>0, <1>14, <2>3, <2>4 DEF GetLetGo, FreeListTypeOK
<1> QED BY <1>2, <1>3, <1>4, <1>5, <1>6, <1>7, <1>8, <1>9, <1>10, <1>11, <1>12, <1>13, <1>14
        DEF FreeListSteps

(***************************************************************************)
(* The list under a step: unchanged, one node longer, one node shorter.    *)
(***************************************************************************)
LEMMA LinkedTypes ==
    ASSUME FreeListTypeOK
    PROVE  /\ Linked \subseteq Nodes
           /\ freeListHead \in Linked \cup {NoNode}
           /\ \A n \in Linked :
                  /\ freeListNext[n] \in Linked \cup {NoNode}
                  /\ LinkedFrom(freeListNext[n], freeListNext, NoNode) \subseteq Linked
<1>1. /\ freeListNext \in [Nodes -> Nodes \cup {NoNode}]
      /\ freeListHead \in Nodes \cup {NoNode} /\ NoNode \notin Nodes
  BY FreeListAssumption DEF FreeListTypeOK, NodeOrNull
<1>2. /\ Linked \subseteq Nodes /\ freeListHead \in Linked \cup {NoNode}
      /\ Closed(Linked, freeListNext, NoNode)
  BY <1>1, LinkedIsClosed DEF Linked
<1>3. ASSUME NEW n \in Linked
      PROVE  LinkedFrom(freeListNext[n], freeListNext, NoNode) \subseteq Linked
  <2>1. CASE freeListNext[n] = NoNode
    BY <1>1, <2>1, LinkedFromNull
  <2>2. CASE freeListNext[n] \in Linked
    BY <1>1, <2>2, LinkedFromMember DEF Linked
  <2> QED BY <1>2, <2>1, <2>2 DEF Closed
<1> QED BY <1>2, <1>3 DEF Closed

LEMMA ListStays ==
    ASSUME FreeListTypeOK, FreeListTypeOK', Acyclic, freeListHead' = freeListHead,
           \A n \in Linked : freeListNext'[n] = freeListNext[n]
    PROVE  Linked' = Linked /\ Acyclic'
<1>1. /\ freeListNext \in [Nodes -> Nodes \cup {NoNode}]
      /\ freeListNext' \in [Nodes -> Nodes \cup {NoNode}]
      /\ freeListHead \in Nodes \cup {NoNode} /\ NoNode \notin Nodes
  BY FreeListAssumption DEF FreeListTypeOK, NodeOrNull
<1>2. Linked' = Linked
  BY <1>1, LinkedElsewhere DEF Linked
<1>3. ASSUME NEW n \in Linked
      PROVE  LinkedFrom(freeListNext[n], freeListNext', NoNode)
                 = LinkedFrom(freeListNext[n], freeListNext, NoNode)
  <2>1. /\ freeListNext[n] \in Nodes \cup {NoNode}
        /\ LinkedFrom(freeListNext[n], freeListNext, NoNode) \subseteq Linked
    BY <1>1, LinkedTypes
  <2>2. \A q \in LinkedFrom(freeListNext[n], freeListNext, NoNode) :
            freeListNext'[q] = freeListNext[q]
    BY <2>1
  <2> QED BY <1>1, <2>1, <2>2, LinkedElsewhere
<1> QED BY <1>2, <1>3 DEF Acyclic

LEMMA ListGrows ==
    ASSUME FreeListTypeOK, Acyclic, NEW n \in Nodes \ Linked, freeListNext[n] = freeListHead,
           freeListHead' = n, freeListNext' = freeListNext
    PROVE  Linked' = Linked \cup {n} /\ Acyclic'
<1>1. /\ freeListNext \in [Nodes -> Nodes \cup {NoNode}]
      /\ NoNode \notin Nodes /\ n \in Nodes
  BY FreeListAssumption DEF FreeListTypeOK, NodeOrNull
<1>2. LinkedFrom(n, freeListNext, NoNode) = {n} \cup Linked
  BY <1>1, LinkedFromFirst DEF Linked
<1>3. Linked' = Linked \cup {n}
  BY <1>2 DEF Linked
<1>4. n \notin LinkedFrom(freeListNext[n], freeListNext, NoNode)
  BY DEF Linked
<1> QED BY <1>3, <1>4 DEF Acyclic

LEMMA ListShrinks ==
    ASSUME FreeListTypeOK, Acyclic, NEW n \in Nodes, freeListHead = n,
           freeListHead' = freeListNext[n], freeListNext' = freeListNext
    PROVE  n \in Linked /\ Linked' = Linked \ {n} /\ Acyclic'
<1>1. /\ freeListNext \in [Nodes -> Nodes \cup {NoNode}]
      /\ NoNode \notin Nodes /\ n \in Nodes
  BY FreeListAssumption DEF FreeListTypeOK, NodeOrNull
<1>2. Linked = {n} \cup LinkedFrom(freeListNext[n], freeListNext, NoNode)
  BY <1>1, LinkedFromFirst DEF Linked
<1>3. Linked' = LinkedFrom(freeListNext[n], freeListNext, NoNode)
  BY DEF Linked
<1>4. n \notin Linked'
  BY <1>2, <1>3 DEF Acyclic
<1> QED BY <1>2, <1>3, <1>4 DEF Acyclic

(***************************************************************************)
(* A node that nobody but t can be the owner of, and a node that is only   *)
(* counted anew.                                                           *)
(***************************************************************************)
NotOfOthers(t, n) ==
    \A u \in FreeListThreads \ {t} :
        n \notin held[u] /\ ~Adding(u, n) /\ ~Linking(u, n) /\ ~Taking(u, n)

LEMMA OwnersNode ==
    ASSUME NEW t \in FreeListThreads, NEW n \in Nodes, NodeInv(n), Frozen(t),
           Owns(t, n) \/ n \in Linked
               \/ (freeListRefs[n].should /\ freeListRefs[n].refs # 0)
    PROVE  NotOfOthers(t, n)'
<1>1. NotOfOthers(t, n)
  <2>1. CASE Owns(t, n) \/ n \in Linked
    BY <2>1 DEF NotOfOthers, NodeInv, OwnedOnce, Owns
  <2>2. CASE freeListRefs[n].should /\ freeListRefs[n].refs # 0
    BY <2>2 DEF NotOfOthers, NodeInv, MarkMeans, Counted
  <2> QED BY <2>1, <2>2
<1> QED BY <1>1 DEF NotOfOthers, Frozen, Adding, Linking, Taking

LEMMA OneThreadsNode ==
    ASSUME NEW t \in FreeListThreads, NEW n \in Nodes, NotOfOthers(t, n)',
           NEW counted \in BOOLEAN,
           counted <=> (n \in Linked \/ Linking(t, n) \/ Taking(t, n))',
           (n \in Linked => ~Owns(t, n))',
           (n \in held[t] => ~Adding(t, n) /\ ~Linking(t, n) /\ ~Taking(t, n))',
           freeListRefs'[n].should <=> ~counted /\ n \notin held'[t],
           Adding(t, n)' <=> freeListRefs'[n].should /\ freeListRefs'[n].refs = 0,
           freeListRefs'[n].refs = Cardinality(Referrers(n)') + (IF counted THEN 1 ELSE 0)
    PROVE  NodeInv(n)'
<1>1. Counted(n)' <=> counted
  BY DEF Counted, NotOfOthers
<1>2. OwnedOnce(n)'
  BY DEF OwnedOnce, Owns, NotOfOthers
<1>3. MarkMeans(n)'
  BY <1>1 DEF MarkMeans, NotOfOthers
<1>4. RefsCounted(n)'
  BY <1>1 DEF RefsCounted
<1> QED BY <1>2, <1>3, <1>4 DEF NodeInv

LEMMA NodeRecounted ==
    ASSUME NEW t \in FreeListThreads, NEW n \in Nodes, NodeInv(n), Frozen(t),
           n \in held'[t] <=> n \in held[t],
           Adding(t, n)' <=> Adding(t, n),
           Linking(t, n)' <=> Linking(t, n),
           Taking(t, n)' <=> Taking(t, n),
           n \in Linked' <=> n \in Linked,
           freeListRefs'[n].should <=> freeListRefs[n].should,
           freeListRefs[n].should => freeListRefs[n].refs # 0 /\ freeListRefs'[n].refs # 0,
           freeListRefs'[n].refs - Cardinality(Referrers(n)')
               = freeListRefs[n].refs - Cardinality(Referrers(n)),
           freeListRefs'[n].refs \in Nat, Cardinality(Referrers(n)') \in Nat
    PROVE  NodeInv(n)'
<1>1. \A u \in FreeListThreads :
          /\ Adding(u, n)' <=> Adding(u, n)
          /\ Linking(u, n)' <=> Linking(u, n)
          /\ Taking(u, n)' <=> Taking(u, n)
          /\ n \in held'[u] <=> n \in held[u]
  BY DEF Adding, Linking, Taking, Frozen
<1>2. \A u \in FreeListThreads : Owns(u, n)' <=> Owns(u, n)
  BY <1>1 DEF Owns
<1>3. Counted(n)' <=> Counted(n)
  BY <1>1 DEF Counted
<1>4. OwnedOnce(n)'
  BY <1>1, <1>2 DEF NodeInv, OwnedOnce
<1>5. MarkMeans(n)'
  BY <1>1, <1>3 DEF NodeInv, MarkMeans
<1>6. RefsCounted(n)'
  <2>1. freeListRefs[n].refs = Cardinality(Referrers(n)) + (IF Counted(n) THEN 1 ELSE 0)
    BY DEF NodeInv, RefsCounted
  <2>2. Cardinality(Referrers(n)) \in Nat
    BY FS_Subset, FS_CardinalityType, FreeListAssumption DEF Referrers
  <2>3. \A a, b, c, d \in Nat : a - b = c - d => \A e \in Nat : c = d + e => a = b + e
    OBVIOUS
  <2>4. freeListRefs'[n].refs
            = Cardinality(Referrers(n)') + (IF Counted(n) THEN 1 ELSE 0)
    BY <2>1, <2>2, <2>3
  <2> QED BY <1>3, <2>4 DEF RefsCounted
<1> QED BY <1>4, <1>5, <1>6 DEF NodeInv

(***************************************************************************)
(* The steps that change what no node is to anybody.                       *)
(***************************************************************************)
ListAndNodes == Acyclic /\ (\A n \in Nodes : NodeInv(n)) /\ NextIsKept /\ ~takenMarked

SameRoles(t, n) ==
    /\ n \in held'[t] <=> n \in held[t]
    /\ Adding(t, n)' <=> Adding(t, n)
    /\ Linking(t, n)' <=> Linking(t, n)
    /\ Taking(t, n)' <=> Taking(t, n)
    /\ Refers(t, n)' <=> Refers(t, n)

KeepsNext(t) ==
    /\ fl[t].pc = "getCasHead" => freeListNext[fl[t].head] = fl[t].next
    /\ fl[t].pc \in {"addRefs", "addCas"} => freeListNext[fl[t].node] = fl[t].head

LEMMA NextStays ==
    ASSUME NextIsKept, NEW t \in FreeListThreads, Frozen(t), freeListNext' = freeListNext,
           KeepsNext(t)'
    PROVE  NextIsKept'
  BY DEF NextIsKept, KeepsNext, Frozen

LEMMA NodesStay ==
    ASSUME FreeListInv, NEW t \in FreeListThreads, Frozen(t), NEW S,
           Linked' = Linked, \A n \in Nodes \ S : freeListRefs'[n] = freeListRefs[n],
           \A n \in Nodes \ S : SameRoles(t, n)
    PROVE  \A n \in Nodes \ S : NodeInv(n)'
  BY NodeStays DEF FreeListInv, SameRoles

LEMMA FrozenByGoto ==
    ASSUME FreeListTypeOK, NEW t \in FreeListThreads, NEW state, FlGoto(t, state),
           \A u \in FreeListThreads \ {t} : held'[u] = held[u]
    PROVE  Frozen(t) /\ fl'[t] = state
  BY OthersStay DEF Frozen

LEMMA QuietStep ==
    ASSUME FreeListInv, FreeListTypeOK', NEW t \in FreeListThreads, Frozen(t),
           UNCHANGED <<freeListHead, freeListNext, freeListRefs, takenMarked>>,
           KeepsNext(t)', \A n \in Nodes : SameRoles(t, n)
    PROVE  ListAndNodes'
<1>1. Linked' = Linked /\ Acyclic'
  BY ListStays DEF FreeListInv
<1>2. \A n \in Nodes \ {} : NodeInv(n)'
  BY <1>1, NodesStay
<1>3. NextIsKept'
  BY NextStays DEF FreeListInv
<1> QED BY <1>1, <1>2, <1>3, Zenon DEF FreeListInv, ListAndNodes

LEMMA QuietSteps ==
    ASSUME FreeListInv, FreeListTypeOK', NEW t \in FreeListThreads,
           \/ AddLoadHead(t) \/ TryGet(t) \/ GetReload(t) \/ GetRefs(t) \/ GetNext(t)
           \/ AddCas(t) /\ freeListHead # fl[t].head
           \/ GetCasRefs(t) /\ freeListRefs[fl[t].head] # fl[t].seen
           \/ GetCasHead(t) /\ freeListHead # fl[t].head
    PROVE  ListAndNodes'
<1>0. FreeListTypeOK
  BY DEF FreeListInv
<1> DEFINE Quiet == /\ UNCHANGED <<freeListHead, freeListNext, freeListRefs, held, takenMarked>>
                    /\ Frozen(t) /\ KeepsNext(t)' /\ \A n \in Nodes : SameRoles(t, n)
<1> USE <1>0 DEF SameRoles, Adding, Linking, Taking, Refers, KeepsNext
<1>1. ASSUME AddLoadHead(t) PROVE Quiet
  <2>1. Frozen(t) /\ fl'[t] = [pc |-> "addNext", node |-> fl[t].node, resume |-> fl[t].resume,
                               head |-> freeListHead]
    BY <1>1, FrozenByGoto DEF AddLoadHead
  <2> QED BY <1>1, <2>1 DEF AddLoadHead
<1>2. ASSUME TryGet(t) \/ GetReload(t) PROVE Quiet
  <2>1. Frozen(t) /\ fl'[t].pc \in {"outside", "getRefs"}
    BY <1>2, FrozenByGoto DEF TryGet, GetReload, WithHead, Outside
  <2> QED BY <1>2, <2>1 DEF TryGet, GetReload
<1>3. ASSUME GetRefs(t) PROVE Quiet
  <2>1. Frozen(t) /\ fl'[t].pc \in {"getHead", "getCasRefs"}
    BY <1>3, FrozenByGoto DEF GetRefs
  <2> QED BY <1>3, <2>1 DEF GetRefs
<1>4. ASSUME GetNext(t) PROVE Quiet
  <2>1. Frozen(t) /\ fl'[t] = [pc |-> "getCasHead", head |-> fl[t].head,
                               next |-> freeListNext[fl[t].head]]
    BY <1>4, FrozenByGoto DEF GetNext
  <2> QED BY <1>4, <2>1 DEF GetNext
<1>5. ASSUME AddCas(t) /\ freeListHead # fl[t].head PROVE Quiet
  <2>1. Frozen(t) /\ fl'[t] = [fl[t] EXCEPT !.pc = "addAgain", !.head = freeListHead]
    BY <1>5, FrozenByGoto DEF AddCas
  <2>2. fl'[t].pc = "addAgain" /\ fl'[t].node = fl[t].node
    BY <1>5, <2>1, FlShapes DEF AddCas
  <2> QED BY <1>5, <2>1, <2>2 DEF AddCas
<1>6. ASSUME GetCasRefs(t) /\ freeListRefs[fl[t].head] # fl[t].seen PROVE Quiet
  <2>1. Frozen(t) /\ fl'[t].pc = "getHead"
    BY <1>6, FrozenByGoto DEF GetCasRefs
  <2> QED BY <1>6, <2>1 DEF GetCasRefs
<1>7. ASSUME GetCasHead(t) /\ freeListHead # fl[t].head PROVE Quiet
  <2>1. Frozen(t) /\ fl'[t] = [pc |-> "getLetGo", head |-> fl[t].head, resume |-> freeListHead]
    BY <1>7, FrozenByGoto DEF GetCasHead
  <2> QED BY <1>7, <2>1 DEF GetCasHead
<1>8. Quiet
  BY <1>1, <1>2, <1>3, <1>4, <1>5, <1>6, <1>7
<1> QED BY <1>8, QuietStep

\* The write of next is to a node nobody refers to.
LEMMA AddNextStep ==
    ASSUME FreeListInv, FreeListTypeOK', NEW t \in FreeListThreads, AddNext(t)
    PROVE  ListAndNodes'
<1> DEFINE n == fl[t].node
<1>0. FreeListTypeOK
  BY DEF FreeListInv
<1>1. fl[t] \in [pc : {"addNext", "addRefs", "addCas", "addAgain"},
                 node : Nodes, resume : NodeOrNull, head : NodeOrNull]
  BY <1>0, FlShapes DEF AddNext
<1>2. /\ Frozen(t) /\ fl'[t] = [fl[t] EXCEPT !.pc = "addRefs"]
      /\ fl[t].pc = "addNext"
      /\ UNCHANGED <<freeListHead, freeListRefs, held, takenMarked>>
      /\ freeListNext' = [freeListNext EXCEPT ![n] = fl[t].head]
  BY <1>0, FrozenByGoto DEF AddNext
<1>3. n \in Nodes /\ fl'[t].pc = "addRefs" /\ fl'[t].node = n /\ fl'[t].head = fl[t].head
  BY <1>1, <1>2
<1>4. Adding(t, n)
  BY <1>2 DEF Adding
<1>5. n \notin Linked
  BY <1>3, <1>4 DEF FreeListInv, NodeInv, OwnedOnce, Owns
<1>6. Linked' = Linked /\ Acyclic'
  <2>1. \A m \in Linked : freeListNext'[m] = freeListNext[m]
    BY <1>0, <1>2, <1>5, LinkedTypes DEF FreeListTypeOK
  <2> QED BY <1>0, <1>2, <2>1, ListStays DEF FreeListInv
<1>7. \A m \in Nodes \ {} : SameRoles(t, m)
  BY <1>2, <1>3 DEF SameRoles, Adding, Linking, Taking, Refers
<1>8. \A m \in Nodes \ {} : NodeInv(m)'
  BY <1>2, <1>6, <1>7, NodesStay
<1>9. NextIsKept'
  <2>1. freeListNext'[n] = fl[t].head /\ \A m \in Nodes \ {n} : freeListNext'[m] = freeListNext[m]
    BY <1>0, <1>2, <1>3 DEF FreeListTypeOK
  <2>2. ASSUME NEW u \in FreeListThreads \ {t}, fl[u].pc = "getCasHead"
        PROVE  fl[u].head \in Nodes \ {n}
    <3>1. fl[u].head \in Nodes
      BY <1>0, <2>2, FlShapes
    <3>2. ~Refers(u, n)
      <4>1. freeListRefs[n].refs = 0
        BY <1>3, <1>4 DEF FreeListInv, NodeInv, MarkMeans
      <4> QED BY <1>3, <4>1, CountedHasRef DEF FreeListInv
    <3> QED BY <2>2, <3>1, <3>2 DEF Refers
  <2>3. ASSUME NEW u \in FreeListThreads \ {t}, fl[u].pc \in {"addRefs", "addCas"}
        PROVE  fl[u].node \in Nodes \ {n}
    <3>1. fl[u].node \in Nodes
      BY <1>0, <2>3, FlShapes
    <3>2. ~Owns(u, n)
      BY <1>3, <1>4 DEF FreeListInv, NodeInv, OwnedOnce, Owns
    <3> QED BY <2>3, <3>1, <3>2 DEF Owns, Adding, Linking
  <2>4. ASSUME NEW u \in FreeListThreads \ {t} PROVE KeepsNext(u)'
    BY <1>2, <2>1, <2>2, <2>3 DEF Frozen, KeepsNext, FreeListInv, NextIsKept
  <2>5. KeepsNext(t)'
    BY <1>3, <2>1 DEF KeepsNext
  <2> QED BY <2>4, <2>5 DEF NextIsKept, KeepsNext
<1> QED BY <1>2, <1>6, <1>8, <1>9, Zenon DEF FreeListInv, ListAndNodes
(***************************************************************************)
(* The steps that change what one node is.                                 *)
(***************************************************************************)
\* What the invariant says of a node.
LEMMA NodeFacts ==
    ASSUME FreeListInv, NEW t \in FreeListThreads, NEW n \in Nodes
    PROVE  /\ NodeInv(n)
           /\ freeListRefs[n].should \in BOOLEAN /\ freeListRefs[n].refs \in Nat
           /\ Cardinality(Referrers(n)) \in Nat
           /\ Counted(n) => /\ ~freeListRefs[n].should
                            /\ freeListRefs[n].refs = Cardinality(Referrers(n)) + 1
           /\ ~Counted(n) => freeListRefs[n].refs = Cardinality(Referrers(n))
           /\ n \in Linked \/ Linking(t, n) \/ Taking(t, n) => Counted(n)
           /\ Owns(t, n) => n \notin Linked
           /\ Adding(t, n) \/ Linking(t, n) \/ Taking(t, n) => n \notin held[t]
<1>1. NodeInv(n)
  BY DEF FreeListInv
<1>2. freeListRefs[n].should \in BOOLEAN /\ freeListRefs[n].refs \in Nat
  BY DEF FreeListInv, FreeListTypeOK, RefCounts
<1>3. Cardinality(Referrers(n)) \in Nat
  BY FS_Subset, FS_CardinalityType, FreeListAssumption DEF Referrers
<1>4. Counted(n) => ~freeListRefs[n].should
  BY <1>1 DEF NodeInv, MarkMeans
<1>5. /\ Counted(n) => freeListRefs[n].refs = Cardinality(Referrers(n)) + 1
      /\ ~Counted(n) => freeListRefs[n].refs = Cardinality(Referrers(n))
  BY <1>1, <1>3 DEF NodeInv, RefsCounted
<1>6. n \in Linked \/ Linking(t, n) \/ Taking(t, n) => Counted(n)
  BY DEF Counted
<1>7. /\ Owns(t, n) => n \notin Linked
      /\ Adding(t, n) \/ Linking(t, n) \/ Taking(t, n) => n \notin held[t]
  BY <1>1 DEF NodeInv, OwnedOnce, Owns
<1> QED BY <1>1, <1>2, <1>3, <1>4, <1>5, <1>6, <1>7

LEMMA RefsSet ==
    ASSUME FreeListTypeOK, NEW n \in Nodes, NEW b, NEW k, SetRefs(n, b, k)
    PROVE  /\ freeListRefs'[n].should = b /\ freeListRefs'[n].refs = k
           /\ \A m \in Nodes \ {n} : freeListRefs'[m] = freeListRefs[m]
  BY DEF FreeListTypeOK, SetRefs

\* A step that leaves the other nodes alone.
LEMMA NodeStep ==
    ASSUME FreeListInv, NEW t \in FreeListThreads, NEW n \in Nodes, Frozen(t),
           freeListNext' = freeListNext, KeepsNext(t)', Acyclic', ~takenMarked',
           \A m \in Nodes \ {n} : /\ SameRoles(t, m)
                                  /\ freeListRefs'[m] = freeListRefs[m]
                                  /\ m \in Linked' <=> m \in Linked,
           NodeInv(n)'
    PROVE  ListAndNodes'
<1>1. \A m \in Nodes \ {n} : NodeInv(m)'
  BY NodeStays DEF FreeListInv, SameRoles
<1>2. NextIsKept'
  BY NextStays DEF FreeListInv
<1>3. \A m \in Nodes : NodeInv(m)'
  BY <1>1
<1> QED BY <1>2, <1>3, Zenon DEF ListAndNodes

\* The node is counted for the list it is to be on.
LEMMA AddRefsStep ==
    ASSUME FreeListInv, FreeListTypeOK', NEW t \in FreeListThreads, AddRefs(t),
           NEW n \in Nodes, n = fl[t].node
    PROVE  ListAndNodes'
<1>0. FreeListTypeOK
  BY DEF FreeListInv
<1>1. fl[t] \in [pc : {"addNext", "addRefs", "addCas", "addAgain"},
                 node : Nodes, resume : NodeOrNull, head : NodeOrNull]
  BY <1>0, FlShapes DEF AddRefs
<1>2. /\ Frozen(t) /\ fl'[t] = [fl[t] EXCEPT !.pc = "addCas"]
      /\ fl[t].pc = "addRefs"
      /\ UNCHANGED <<freeListHead, freeListNext, held, takenMarked>>
      /\ SetRefs(n, FALSE, 1)
  BY <1>0, FrozenByGoto DEF AddRefs
<1>3. n \in Nodes /\ fl'[t].pc = "addCas" /\ fl'[t].node = n /\ fl'[t].head = fl[t].head
  BY <1>1, <1>2
<1>4. /\ freeListRefs'[n].should = FALSE /\ freeListRefs'[n].refs = 1
      /\ \A m \in Nodes \ {n} : freeListRefs'[m] = freeListRefs[m]
  BY <1>0, <1>2, <1>3, RefsSet
<1>5. Adding(t, n)
  BY <1>2 DEF Adding
<1>6. /\ Linking(t, n)' /\ ~Adding(t, n)' /\ ~Taking(t, n)' /\ ~Refers(t, n)'
      /\ ~Refers(t, n)
  BY <1>2, <1>3 DEF Adding, Linking, Taking, Refers
<1>7. Linked' = Linked /\ Acyclic'
  BY <1>0, <1>2, ListStays DEF FreeListInv
<1>8. n \notin Linked /\ n \notin held[t]
  BY <1>3, <1>5, NodeFacts DEF Owns
<1>9. NodeInv(n)'
  <2>1. NotOfOthers(t, n)'
    BY <1>2, <1>3, <1>5, OwnersNode, NodeFacts DEF Owns
  <2>2. freeListRefs[n].should /\ freeListRefs[n].refs = 0
    BY <1>3, <1>5, NodeFacts DEF NodeInv, MarkMeans
  <2>3. Cardinality(Referrers(n)) = 0
    BY <1>3, <2>2, NodeFacts
  <2>4. Cardinality(Referrers(n)') = 0
    BY <1>2, <1>6, <2>3, ReferrersStep
  <2>5. /\ ~freeListRefs'[n].should /\ n \notin held'[t]
        /\ freeListRefs'[n].refs = Cardinality(Referrers(n)') + 1
        /\ (n \notin Linked)'
    BY <1>2, <1>4, <1>7, <1>8, <2>4
  <2> QED BY <1>6, <2>1, <2>5, OneThreadsNode
<1>10. \A m \in Nodes \ {n} : SameRoles(t, m)
  BY <1>2, <1>3 DEF SameRoles, Adding, Linking, Taking, Refers
<1>11. KeepsNext(t)'
  BY <1>2, <1>3 DEF KeepsNext, FreeListInv, NextIsKept
<1> QED BY <1>2, <1>3, <1>4, <1>7, <1>9, <1>10, <1>11, NodeStep DEF FreeListInv

LEMMA ReturnGoto ==
    ASSUME FreeListTypeOK, NEW t \in FreeListThreads, Return(t),
           \A u \in FreeListThreads \ {t} : held'[u] = held[u]
    PROVE  /\ Frozen(t) /\ fl'[t].pc \in {"outside", "getRefs"}
           /\ KeepsNext(t)'
           /\ \A n \in Nodes : /\ ~Adding(t, n)' /\ ~Linking(t, n)'
                               /\ ~Taking(t, n)' /\ ~Refers(t, n)'
<1>1. Frozen(t) /\ fl'[t].pc \in {"outside", "getRefs"}
  BY FrozenByGoto DEF Return, Outside
<1> QED BY <1>1 DEF KeepsNext, Adding, Linking, Taking, Refers

\* The node is linked.
LEMMA AddCasStep ==
    ASSUME FreeListInv, FreeListTypeOK', NEW t \in FreeListThreads, AddCas(t),
           freeListHead = fl[t].head, NEW n \in Nodes, n = fl[t].node
    PROVE  ListAndNodes'
<1>0. FreeListTypeOK
  BY DEF FreeListInv
<1>2. /\ fl[t].pc = "addCas" /\ freeListHead' = n /\ Return(t)
      /\ UNCHANGED <<freeListNext, freeListRefs, held, takenMarked>>
  BY DEF AddCas
<1>3. /\ Frozen(t) /\ KeepsNext(t)'
      /\ \A m \in Nodes : /\ ~Adding(t, m)' /\ ~Linking(t, m)'
                          /\ ~Taking(t, m)' /\ ~Refers(t, m)'
  BY <1>0, <1>2, ReturnGoto
<1>4. Linking(t, n) /\ \A m \in Nodes : ~Refers(t, m)
  BY <1>2 DEF Linking, Refers
<1>5. n \notin Linked /\ n \notin held[t] /\ Counted(n)
  BY <1>4, NodeFacts DEF Owns
<1>6. freeListNext[n] = freeListHead
  BY <1>2 DEF FreeListInv, NextIsKept
<1>7. Linked' = Linked \cup {n} /\ Acyclic'
  BY <1>0, <1>2, <1>5, <1>6, ListGrows DEF FreeListInv
<1>8. NodeInv(n)'
  <2>1. NotOfOthers(t, n)'
    BY <1>3, <1>4, OwnersNode, NodeFacts DEF Owns
  <2>2. /\ ~freeListRefs[n].should
        /\ freeListRefs[n].refs = Cardinality(Referrers(n)) + 1
    BY <1>5, NodeFacts
  <2>3. Referrers(n)' = Referrers(n)
    BY <1>3, <1>4, ReferrersStep
  <2>4. ~Owns(t, n)'
    BY <1>2, <1>3, <1>5 DEF Owns
  <2> QED BY <1>2, <1>3, <1>5, <1>7, <2>1, <2>2, <2>3, <2>4, OneThreadsNode
<1>9. \A m \in Nodes \ {n} : SameRoles(t, m)
  BY <1>2, <1>3, <1>4 DEF SameRoles, Adding, Linking, Taking
<1>10. \A m \in Nodes \ {n} : m \in Linked' <=> m \in Linked
  BY <1>7
<1> QED BY <1>2, <1>3, <1>7, <1>8, <1>9, <1>10, NodeStep DEF FreeListInv

\* The list is no longer to have the node: it is marked, and counted once less.
LEMMA AddAgainStep ==
    ASSUME FreeListInv, FreeListTypeOK', NEW t \in FreeListThreads, AddAgain(t),
           NEW n \in Nodes, n = fl[t].node
    PROVE  ListAndNodes'
<1>0. FreeListTypeOK
  BY DEF FreeListInv
<1>1. fl[t] \in [pc : {"addNext", "addRefs", "addCas", "addAgain"},
                 node : Nodes, resume : NodeOrNull, head : NodeOrNull]
  BY <1>0, FlShapes DEF AddAgain
<1>2. /\ fl[t].pc = "addAgain" /\ SetRefs(n, TRUE, freeListRefs[n].refs - 1)
      /\ UNCHANGED <<freeListHead, freeListNext, held, takenMarked>>
  BY DEF AddAgain
<1>3. Linking(t, n) /\ \A m \in Nodes : ~Adding(t, m) /\ ~Taking(t, m) /\ ~Refers(t, m)
  BY <1>2 DEF Adding, Linking, Taking, Refers
<1>4. /\ Frozen(t) /\ KeepsNext(t)'
      /\ \A m \in Nodes : ~Linking(t, m)' /\ ~Taking(t, m)' /\ ~Refers(t, m)'
      /\ \A m \in Nodes : Adding(t, m)' <=> m = n /\ freeListRefs[n].refs = 1
  <2>1. CASE freeListRefs[n].refs = 1
    <3>1. FlGoto(t, [fl[t] EXCEPT !.pc = "addNext"])
      BY <2>1 DEF AddAgain
    <3>2. Frozen(t) /\ fl'[t] = [fl[t] EXCEPT !.pc = "addNext"]
      BY <1>0, <1>2, <3>1, FrozenByGoto
    <3>3. fl'[t].pc = "addNext" /\ fl'[t].node = n
      BY <1>1, <3>2
    <3> QED BY <2>1, <3>2, <3>3 DEF KeepsNext, Adding, Linking, Taking, Refers
  <2>2. CASE freeListRefs[n].refs # 1
    <3>1. Return(t)
      BY <2>2 DEF AddAgain
    <3> QED BY <1>0, <1>2, <2>2, <3>1, ReturnGoto
  <2> QED BY <2>1, <2>2
<1>5. /\ ~freeListRefs[n].should /\ n \notin Linked /\ n \notin held[t]
      /\ freeListRefs[n].refs \in Nat /\ Cardinality(Referrers(n)) \in Nat
      /\ freeListRefs[n].refs = Cardinality(Referrers(n)) + 1
  BY <1>3, NodeFacts DEF Owns
<1>6. /\ freeListRefs'[n].should = TRUE /\ freeListRefs'[n].refs = freeListRefs[n].refs - 1
      /\ \A m \in Nodes \ {n} : freeListRefs'[m] = freeListRefs[m]
  BY <1>0, <1>2 DEF SetRefs, FreeListTypeOK
<1>7. Linked' = Linked /\ Acyclic'
  BY <1>0, <1>2, ListStays DEF FreeListInv
<1>8. NodeInv(n)'
  <2>1. NotOfOthers(t, n)'
    BY <1>3, <1>4, OwnersNode, NodeFacts DEF Owns
  <2>2. Referrers(n)' = Referrers(n)
    BY <1>3, <1>4, ReferrersStep
  <2>3. /\ freeListRefs'[n].should /\ n \notin held'[t] /\ n \notin Linked'
        /\ freeListRefs'[n].refs = Cardinality(Referrers(n)') + 0
        /\ Adding(t, n)' <=> freeListRefs'[n].refs = 0
    BY <1>2, <1>4, <1>5, <1>6, <1>7, <2>2
  <2> QED BY <1>4, <2>1, <2>3, OneThreadsNode
<1>9. \A m \in Nodes \ {n} : SameRoles(t, m)
  BY <1>2, <1>3, <1>4 DEF SameRoles, Linking
<1> QED BY <1>2, <1>4, <1>6, <1>7, <1>8, <1>9, NodeStep DEF FreeListInv

\* A thread gives a node up: it is marked, and added if nobody refers to it.
LEMMA AddStep ==
    ASSUME FreeListInv, FreeListTypeOK', NEW t \in FreeListThreads, NEW n \in Nodes, Add(t, n)
    PROVE  ListAndNodes'
<1>0. FreeListTypeOK
  BY DEF FreeListInv
<1>1. /\ fl[t].pc = "outside" /\ n \in held[t] /\ SetRefs(n, TRUE, freeListRefs[n].refs)
      /\ held' = [held EXCEPT ![t] = @ \ {n}]
      /\ UNCHANGED <<freeListHead, freeListNext, takenMarked>>
  BY DEF Add
<1>2. \A m \in Nodes : ~Adding(t, m) /\ ~Linking(t, m) /\ ~Taking(t, m) /\ ~Refers(t, m)
  BY <1>1 DEF Adding, Linking, Taking, Refers
<1>3. /\ held'[t] = held[t] \ {n}
      /\ \A u \in FreeListThreads \ {t} : held'[u] = held[u]
  BY <1>0, <1>1 DEF FreeListTypeOK
<1>4. /\ Frozen(t)
      /\ fl'[t] = IF freeListRefs[n].refs = 0
                  THEN [pc |-> "addHead", node |-> n, resume |-> NoNode] ELSE Outside
  BY <1>0, <1>3, FrozenByGoto DEF Add
<1>5. /\ KeepsNext(t)'
      /\ \A m \in Nodes : ~Linking(t, m)' /\ ~Taking(t, m)' /\ ~Refers(t, m)'
      /\ \A m \in Nodes : Adding(t, m)' <=> m = n /\ freeListRefs[n].refs = 0
  BY <1>4 DEF KeepsNext, Adding, Linking, Taking, Refers, Outside
<1>6. /\ n \notin Linked /\ ~Counted(n) /\ ~freeListRefs[n].should
      /\ freeListRefs[n].refs = Cardinality(Referrers(n))
  <2>1. NodeInv(n) /\ n \notin Linked
    BY <1>1, NodeFacts DEF Owns
  <2>2. ~Counted(n)
    BY <1>1, <1>2, <2>1 DEF NodeInv, OwnedOnce, Owns, Counted
  <2>3. ~freeListRefs[n].should
    BY <1>1, <2>1 DEF NodeInv, MarkMeans
  <2> QED BY <2>1, <2>2, <2>3, NodeFacts
<1>7. /\ freeListRefs'[n].should = TRUE /\ freeListRefs'[n].refs = freeListRefs[n].refs
      /\ \A m \in Nodes \ {n} : freeListRefs'[m] = freeListRefs[m]
  BY <1>0, <1>1, RefsSet
<1>8. Linked' = Linked /\ Acyclic'
  BY <1>0, <1>1, ListStays DEF FreeListInv
<1>9. NodeInv(n)'
  <2>1. NotOfOthers(t, n)'
    BY <1>1, <1>4, OwnersNode, NodeFacts DEF Owns
  <2>2. Referrers(n)' = Referrers(n)
    BY <1>2, <1>4, <1>5, ReferrersStep
  <2>3. /\ freeListRefs'[n].should /\ n \notin held'[t] /\ n \notin Linked'
        /\ freeListRefs'[n].refs = Cardinality(Referrers(n)') + 0
        /\ Adding(t, n)' <=> freeListRefs'[n].refs = 0
    BY <1>3, <1>5, <1>6, <1>7, <1>8, <2>2, NodeFacts
  <2> QED BY <1>5, <2>1, <2>3, OneThreadsNode
<1>10. \A m \in Nodes \ {n} : SameRoles(t, m)
  BY <1>2, <1>3, <1>5 DEF SameRoles
<1> QED BY <1>1, <1>4, <1>5, <1>7, <1>8, <1>9, <1>10, NodeStep DEF FreeListInv

\* A thread refers to the head it saw.
LEMMA GetCasRefsStep ==
    ASSUME FreeListInv, FreeListTypeOK', NEW t \in FreeListThreads, GetCasRefs(t),
           freeListRefs[fl[t].head] = fl[t].seen, NEW n \in Nodes, n = fl[t].head
    PROVE  ListAndNodes'
<1>0. FreeListTypeOK
  BY DEF FreeListInv
<1>1. fl[t].seen.refs \in Nat \ {0}
  BY <1>0, FlShapes DEF GetCasRefs
<1>2. /\ fl[t].pc = "getCasRefs"
      /\ SetRefs(n, freeListRefs[n].should, freeListRefs[n].refs + 1)
      /\ FlGoto(t, [pc |-> "getNext", head |-> n])
      /\ UNCHANGED <<freeListHead, freeListNext, held, takenMarked>>
  BY DEF GetCasRefs
<1>3. \A m \in Nodes : ~Adding(t, m) /\ ~Linking(t, m) /\ ~Taking(t, m) /\ ~Refers(t, m)
  BY <1>2 DEF Adding, Linking, Taking, Refers
<1>4. Frozen(t) /\ fl'[t] = [pc |-> "getNext", head |-> n]
  BY <1>0, <1>2, FrozenByGoto
<1>5. /\ KeepsNext(t)'
      /\ \A m \in Nodes : ~Adding(t, m)' /\ ~Linking(t, m)' /\ ~Taking(t, m)'
      /\ \A m \in Nodes : Refers(t, m)' <=> m = n
  BY <1>4 DEF KeepsNext, Adding, Linking, Taking, Refers
<1>6. /\ freeListRefs'[n].should = freeListRefs[n].should
      /\ freeListRefs'[n].refs = freeListRefs[n].refs + 1
      /\ \A m \in Nodes \ {n} : freeListRefs'[m] = freeListRefs[m]
  BY <1>0, <1>2, RefsSet
<1>7. Linked' = Linked /\ Acyclic'
  BY <1>0, <1>2, ListStays DEF FreeListInv
<1>8. NodeInv(n)'
  <2>1. /\ NodeInv(n) /\ freeListRefs[n].refs \in Nat \ {0}
        /\ Cardinality(Referrers(n)) \in Nat
    BY <1>1, NodeFacts
  <2>2. Cardinality(Referrers(n)') = Cardinality(Referrers(n)) + 1
    BY <1>3, <1>4, <1>5, ReferrersStep
  <2>3. /\ freeListRefs'[n].refs - Cardinality(Referrers(n)')
                = freeListRefs[n].refs - Cardinality(Referrers(n))
        /\ freeListRefs[n].refs # 0 /\ freeListRefs'[n].refs # 0
        /\ freeListRefs'[n].refs \in Nat /\ Cardinality(Referrers(n)') \in Nat
    BY <1>6, <2>1, <2>2
  <2> QED BY <1>2, <1>3, <1>4, <1>5, <1>6, <1>7, <2>1, <2>3, NodeRecounted
<1>9. \A m \in Nodes \ {n} : SameRoles(t, m)
  BY <1>2, <1>3, <1>5 DEF SameRoles
<1> QED BY <1>2, <1>4, <1>5, <1>6, <1>7, <1>8, <1>9, NodeStep DEF FreeListInv

\* A thread takes the head off the list: what it read of next is still so.
LEMMA GetCasHeadStep ==
    ASSUME FreeListInv, FreeListTypeOK', NEW t \in FreeListThreads, GetCasHead(t),
           freeListHead = fl[t].head, NEW n \in Nodes, n = fl[t].head
    PROVE  ListAndNodes'
<1>0. FreeListTypeOK
  BY DEF FreeListInv
<1>1. /\ fl[t].pc = "getCasHead" /\ freeListHead' = fl[t].next
      /\ FlGoto(t, [pc |-> "getTake", head |-> n])
      /\ UNCHANGED <<freeListNext, freeListRefs, held, takenMarked>>
  BY DEF GetCasHead
<1>2. \A m \in Nodes : /\ ~Adding(t, m) /\ ~Linking(t, m) /\ ~Taking(t, m)
                       /\ Refers(t, m) <=> m = n
  BY <1>1 DEF Adding, Linking, Taking, Refers
<1>3. Frozen(t) /\ fl'[t] = [pc |-> "getTake", head |-> n]
  BY <1>0, <1>1, FrozenByGoto
<1>4. /\ KeepsNext(t)'
      /\ \A m \in Nodes : /\ ~Adding(t, m)' /\ ~Linking(t, m)'
                          /\ Taking(t, m)' <=> m = n
                          /\ Refers(t, m)' <=> m = n
  BY <1>3 DEF KeepsNext, Adding, Linking, Taking, Refers
<1>5. freeListNext[n] = fl[t].next
  BY <1>1 DEF FreeListInv, NextIsKept
<1>6. n \in Linked /\ Linked' = Linked \ {n} /\ Acyclic'
  BY <1>0, <1>1, <1>5, ListShrinks DEF FreeListInv
<1>7. /\ ~freeListRefs[n].should /\ n \notin held[t]
      /\ freeListRefs[n].refs = Cardinality(Referrers(n)) + 1
  BY <1>6, NodeFacts DEF Owns
<1>8. NodeInv(n)'
  <2>1. NotOfOthers(t, n)'
    BY <1>3, <1>6, OwnersNode, NodeFacts
  <2>2. Referrers(n)' = Referrers(n)
    BY <1>2, <1>3, <1>4, ReferrersStep
  <2>3. /\ ~freeListRefs'[n].should /\ n \notin held'[t] /\ n \notin Linked'
        /\ freeListRefs'[n].refs = Cardinality(Referrers(n)') + 1
    BY <1>1, <1>6, <1>7, <2>2
  <2> QED BY <1>4, <2>1, <2>3, OneThreadsNode
<1>9. \A m \in Nodes \ {n} : ~Taking(t, m)' /\ ~Refers(t, m) /\ ~Refers(t, m)'
  BY <1>2, <1>4, Zenon
<1>10. \A m \in Nodes \ {n} : SameRoles(t, m) /\ (m \in Linked' <=> m \in Linked)
  BY <1>1, <1>2, <1>4, <1>6, <1>9 DEF SameRoles
<1> QED BY <1>1, <1>3, <1>4, <1>6, <1>8, <1>10, NodeStep DEF FreeListInv

\* The node is the thread's, which is not marked: it was counted.
LEMMA GetTakeStep ==
    ASSUME FreeListInv, FreeListTypeOK', NEW t \in FreeListThreads, GetTake(t),
           NEW n \in Nodes, n = fl[t].head
    PROVE  ListAndNodes'
<1>0. FreeListTypeOK
  BY DEF FreeListInv
<1>1. /\ fl[t].pc = "getTake" /\ FlGoto(t, Outside)
      /\ SetRefs(n, freeListRefs[n].should, freeListRefs[n].refs - 2)
      /\ held' = [held EXCEPT ![t] = @ \cup {n}]
      /\ takenMarked' = (takenMarked \/ freeListRefs[n].should)
      /\ UNCHANGED <<freeListHead, freeListNext>>
  BY DEF GetTake
<1>2. /\ Taking(t, n)
      /\ \A m \in Nodes : /\ ~Adding(t, m) /\ ~Linking(t, m)
                          /\ Taking(t, m) <=> m = n
                          /\ Refers(t, m) <=> m = n
  BY <1>1 DEF Adding, Linking, Taking, Refers
<1>3. /\ held'[t] = held[t] \cup {n}
      /\ \A u \in FreeListThreads \ {t} : held'[u] = held[u]
  BY <1>0, <1>1 DEF FreeListTypeOK
<1>4. Frozen(t) /\ fl'[t] = Outside
  BY <1>0, <1>1, <1>3, FrozenByGoto
<1>5. /\ KeepsNext(t)'
      /\ \A m \in Nodes : ~Adding(t, m)' /\ ~Linking(t, m)' /\ ~Taking(t, m)' /\ ~Refers(t, m)'
  BY <1>4 DEF KeepsNext, Adding, Linking, Taking, Refers, Outside
<1>6. /\ freeListRefs'[n].should = freeListRefs[n].should
      /\ freeListRefs'[n].refs = freeListRefs[n].refs - 2
      /\ \A m \in Nodes \ {n} : freeListRefs'[m] = freeListRefs[m]
  BY <1>0, <1>1, RefsSet
<1>7. Linked' = Linked /\ Acyclic'
  BY <1>0, <1>1, ListStays DEF FreeListInv
<1>8. /\ n \notin Linked /\ ~freeListRefs[n].should
      /\ freeListRefs[n].refs \in Nat /\ Cardinality(Referrers(n)) \in Nat
      /\ freeListRefs[n].refs = Cardinality(Referrers(n)) + 1
  BY <1>2, NodeFacts DEF Owns
<1>9. NodeInv(n)'
  <2>1. NotOfOthers(t, n)'
    BY <1>2, <1>4, OwnersNode, NodeFacts DEF Owns
  <2>2. /\ Cardinality(Referrers(n)') = Cardinality(Referrers(n)) - 1
        /\ Cardinality(Referrers(n)') \in Nat
    BY <1>2, <1>4, <1>5, ReferrersStep
  <2>3. /\ ~freeListRefs'[n].should /\ n \in held'[t] /\ n \notin Linked'
        /\ freeListRefs'[n].refs = Cardinality(Referrers(n)') + 0
    BY <1>3, <1>6, <1>7, <1>8, <2>2
  <2> QED BY <1>5, <2>1, <2>3, OneThreadsNode
<1>10. ~takenMarked'
  BY <1>1, <1>8 DEF FreeListInv
<1>11. \A m \in Nodes \ {n} : SameRoles(t, m)
  BY <1>2, <1>3, <1>5 DEF SameRoles
<1> QED BY <1>1, <1>4, <1>5, <1>6, <1>7, <1>9, <1>10, <1>11, NodeStep

\* A thread lets go of a node, and adds it if it is the last to and it is marked.
LEMMA GetLetGoStep ==
    ASSUME FreeListInv, FreeListTypeOK', NEW t \in FreeListThreads, GetLetGo(t),
           NEW n \in Nodes, n = fl[t].head
    PROVE  ListAndNodes'
<1> DEFINE last == freeListRefs[n].should /\ freeListRefs[n].refs = 1
<1>0. FreeListTypeOK
  BY DEF FreeListInv
<1>1. /\ fl[t].pc = "getLetGo"
      /\ SetRefs(n, freeListRefs[n].should, freeListRefs[n].refs - 1)
      /\ UNCHANGED <<freeListHead, freeListNext, held, takenMarked>>
  BY DEF GetLetGo
<1>2. \A m \in Nodes : /\ ~Adding(t, m) /\ ~Linking(t, m) /\ ~Taking(t, m)
                       /\ Refers(t, m) <=> m = n
  BY <1>1 DEF Adding, Linking, Taking, Refers
<1>3. freeListRefs[n] = [should |-> TRUE, refs |-> 1] <=> last
  <2>1. freeListRefs[n] \in [should : BOOLEAN, refs : Nat]
    BY <1>0 DEF FreeListTypeOK, RefCounts
  <2>2. freeListRefs[n] = [should |-> TRUE, refs |-> 1]
            <=> freeListRefs[n].should = TRUE /\ freeListRefs[n].refs = 1
    <3>1. freeListRefs[n] = [should |-> freeListRefs[n].should, refs |-> freeListRefs[n].refs]
      BY <2>1
    <3>2. ASSUME freeListRefs[n] = [should |-> TRUE, refs |-> 1]
          PROVE  freeListRefs[n].should = TRUE /\ freeListRefs[n].refs = 1
      <4>1. [should |-> TRUE, refs |-> 1].should = TRUE
        BY Zenon
      <4>2. [should |-> TRUE, refs |-> 1].refs = 1
        OBVIOUS
      <4> QED BY <3>2, <4>1, <4>2, Zenon
    <3> QED BY <3>1, <3>2, Zenon
  <2>3. freeListRefs[n].should \in BOOLEAN
    BY <2>1
  <2> QED BY <2>2, <2>3, Zenon
<1>4. /\ Frozen(t) /\ KeepsNext(t)'
      /\ \A m \in Nodes : /\ ~Linking(t, m)' /\ ~Taking(t, m)' /\ ~Refers(t, m)'
                          /\ Adding(t, m)' <=> m = n /\ last
  <2>1. CASE last
    <3>1. FlGoto(t, [pc |-> "addHead", node |-> n, resume |-> fl[t].resume])
      BY <1>3, <2>1 DEF GetLetGo
    <3>2. Frozen(t) /\ fl'[t] = [pc |-> "addHead", node |-> n, resume |-> fl[t].resume]
      BY <1>0, <1>1, <3>1, FrozenByGoto
    <3> QED BY <2>1, <3>2 DEF KeepsNext, Adding, Linking, Taking, Refers
  <2>2. CASE ~last
    <3>1. Return(t)
      BY <1>3, <2>2 DEF GetLetGo, Return, FlGoto
    <3> QED BY <1>0, <1>1, <2>2, <3>1, ReturnGoto
  <2> QED BY <2>1, <2>2
<1>5. /\ freeListRefs'[n].should = freeListRefs[n].should
      /\ freeListRefs'[n].refs = freeListRefs[n].refs - 1
      /\ \A m \in Nodes \ {n} : freeListRefs'[m] = freeListRefs[m]
  BY <1>0, <1>1, RefsSet
<1>6. Linked' = Linked /\ Acyclic'
  BY <1>0, <1>1, ListStays DEF FreeListInv
<1>7. /\ NodeInv(n) /\ freeListRefs[n].refs \in Nat
      /\ Cardinality(Referrers(n)) \in Nat /\ Cardinality(Referrers(n)') \in Nat
      /\ Cardinality(Referrers(n)') = Cardinality(Referrers(n)) - 1
      /\ freeListRefs[n].refs - 1 \in Nat
  <2>1. NodeInv(n) /\ Refers(t, n)
    BY <1>2, NodeFacts
  <2>2. freeListRefs[n].refs - 1 \in Nat
    BY <2>1, CountedHasRef
  <2> QED BY <1>2, <1>4, <2>1, <2>2, NodeFacts, ReferrersStep
<1>8. NodeInv(n)'
  <2>1. CASE last
    <3>1. /\ NotOfOthers(t, n)' /\ n \notin Linked /\ n \notin held[t]
          /\ freeListRefs[n].refs = Cardinality(Referrers(n))
      <4>1. ~Counted(n) /\ n \notin held[t]
        BY <1>7, <2>1 DEF NodeInv, MarkMeans
      <4>2. NotOfOthers(t, n)'
        BY <1>4, <1>7, <2>1, OwnersNode
      <4> QED BY <4>1, <4>2, NodeFacts
    <3>2. /\ freeListRefs'[n].should /\ n \notin held'[t] /\ n \notin Linked'
          /\ freeListRefs'[n].refs = 0
          /\ freeListRefs'[n].refs = Cardinality(Referrers(n)') + 0
          /\ Adding(t, n)'
      BY <1>1, <1>4, <1>5, <1>6, <1>7, <2>1, <3>1
    <3> QED BY <1>4, <3>1, <3>2, OneThreadsNode
  <2>2. CASE ~last
    <3>1. /\ freeListRefs'[n].should <=> freeListRefs[n].should
          /\ freeListRefs[n].should => freeListRefs[n].refs # 0 /\ freeListRefs'[n].refs # 0
          /\ freeListRefs'[n].refs - Cardinality(Referrers(n)')
                 = freeListRefs[n].refs - Cardinality(Referrers(n))
          /\ freeListRefs'[n].refs \in Nat
      BY <1>5, <1>7, <2>2
    <3> QED BY <1>1, <1>2, <1>4, <1>6, <1>7, <2>2, <3>1, NodeRecounted
  <2> QED BY <2>1, <2>2
<1>9. \A m \in Nodes \ {n} : ~Adding(t, m)' /\ ~Refers(t, m) /\ ~Refers(t, m)'
  BY <1>2, <1>4, Zenon
<1>10. \A m \in Nodes \ {n} : SameRoles(t, m)
  BY <1>1, <1>2, <1>4, <1>9 DEF SameRoles
<1> QED BY <1>1, <1>4, <1>5, <1>6, <1>8, <1>10, NodeStep DEF FreeListInv

LEMMA FreeListInvStep ==
    ASSUME FreeListInv, [FreeListNextStep]_freeListVars
    PROVE  FreeListInv'
<1>1. CASE UNCHANGED freeListVars
  <2>1. fl' = fl /\ held' = held /\ freeListRefs' = freeListRefs /\ Linked' = Linked
        /\ freeListNext' = freeListNext /\ freeListHead' = freeListHead
        /\ takenMarked' = takenMarked
    BY <1>1 DEF freeListVars, Linked
  <2>2. FreeListTypeOK' /\ NextIsKept' /\ Acyclic'
    BY <2>1 DEF FreeListInv, FreeListTypeOK, NextIsKept, Acyclic
  <2>3. ASSUME NEW n \in Nodes
        PROVE  NodeInv(n)'
    <3>1. \A t : /\ Adding(t, n)' <=> Adding(t, n)
                 /\ Linking(t, n)' <=> Linking(t, n)
                 /\ Taking(t, n)' <=> Taking(t, n)
                 /\ Refers(t, n)' <=> Refers(t, n)
      BY <2>1, Zenon DEF Adding, Linking, Taking, Refers
    <3>2. Referrers(n)' = Referrers(n) /\ (Counted(n)' <=> Counted(n))
      BY <2>1, <3>1 DEF Referrers, Counted
    <3>3. NodeInv(n)
      BY DEF FreeListInv
    <3>4. OwnedOnce(n)'
      BY <2>1, <3>1, <3>3 DEF NodeInv, OwnedOnce, Owns
    <3>5. MarkMeans(n)'
      BY <2>1, <3>1, <3>2, <3>3 DEF NodeInv, MarkMeans
    <3>6. RefsCounted(n)'
      BY <2>1, <3>2, <3>3 DEF NodeInv, RefsCounted
    <3> QED BY <3>4, <3>5, <3>6 DEF NodeInv
  <2> QED BY <2>1, <2>2, <2>3, Zenon DEF FreeListInv
<1>2. ASSUME NEW t \in FreeListThreads, (\E n \in Nodes : Add(t, n)) \/ TryGet(t) \/ FreeListSteps(t)
      PROVE  FreeListInv'
  <2>0. FreeListTypeOK
    BY DEF FreeListInv
  <2>1. FreeListTypeOK'
    <3>1. CASE \E n \in Nodes : Add(t, n)
      BY <3>1, FreeListTypeStep
    <3>2. CASE Nodes = {} /\ (TryGet(t) \/ FreeListSteps(t))
      <4>1. fl[t].pc \in {"outside", "getHead"} /\ freeListHead = NoNode
        BY <2>0, <3>2 DEF FreeListTypeOK, FlStates, NodeOrNull
      <4>2. FlGoto(t, Outside) /\ UNCHANGED <<freeListHead, freeListNext, freeListRefs, held>>
        BY <3>2, <4>1 DEF TryGet, FreeListSteps, AddLoadHead, AddNext, AddRefs, AddCas,
              AddAgain, GetReload, GetRefs, GetCasRefs, GetNext, GetCasHead, GetTake, GetLetGo,
              WithHead
      <4>3. Outside \in FlStates
        BY DEF Outside, FlStates
      <4> QED BY <2>0, <4>2, <4>3, FlTypeGoto DEF FreeListTypeOK
    <3>3. CASE Nodes # {} /\ (TryGet(t) \/ FreeListSteps(t))
      BY <3>3, FreeListTypeStep
    <3> QED BY <1>2, <3>1, <3>2, <3>3
  <2>2. ListAndNodes'
    <3>1. CASE \E n \in Nodes : Add(t, n)
      BY <2>1, <3>1, AddStep
    <3>2. CASE TryGet(t) \/ AddLoadHead(t) \/ GetReload(t) \/ GetRefs(t) \/ GetNext(t)
      BY <2>1, <3>2, QuietSteps
    <3>3. CASE AddNext(t)
      BY <2>1, <3>3, AddNextStep
    <3>4. CASE AddRefs(t) \/ AddAgain(t)
      <4>1. fl[t].node \in Nodes
        BY <2>0, <3>4, FlShapes DEF AddRefs, AddAgain
      <4> QED BY <2>1, <3>4, <4>1, AddRefsStep, AddAgainStep
    <3>5. CASE AddCas(t)
      <4>1. fl[t].node \in Nodes
        BY <2>0, <3>5, FlShapes DEF AddCas
      <4> QED BY <2>1, <3>5, <4>1, AddCasStep, QuietSteps
    <3>6. CASE GetCasRefs(t)
      <4>1. fl[t].head \in Nodes
        BY <2>0, <3>6, FlShapes DEF GetCasRefs
      <4> QED BY <2>1, <3>6, <4>1, GetCasRefsStep, QuietSteps
    <3>7. CASE GetCasHead(t)
      <4>1. fl[t].head \in Nodes
        BY <2>0, <3>7, FlShapes DEF GetCasHead
      <4> QED BY <2>1, <3>7, <4>1, GetCasHeadStep, QuietSteps
    <3>8. CASE GetTake(t) \/ GetLetGo(t)
      <4>1. fl[t].head \in Nodes
        BY <2>0, <3>8, FlShapes DEF GetTake, GetLetGo
      <4> QED BY <2>1, <3>8, <4>1, GetTakeStep, GetLetGoStep
    <3> QED BY <1>2, <3>1, <3>2, <3>3, <3>4, <3>5, <3>6, <3>7, <3>8 DEF FreeListSteps
  <2> QED BY <2>1, <2>2, Zenon DEF FreeListInv, ListAndNodes
<1> QED BY <1>1, <1>2 DEF FreeListNextStep

\* The nodes are the threads', one each, and none is marked or counted.
LEMMA FreeListInvInit ==
    ASSUME FreeListInit
    PROVE  FreeListInv
<1>1. PICK owner \in [Nodes -> FreeListThreads] :
          held = [t \in FreeListThreads |-> {n \in Nodes : owner[n] = t}]
  BY DEF FreeListInit
<1>2. /\ freeListHead = NoNode
      /\ freeListNext = [n \in Nodes |-> NoNode]
      /\ freeListRefs = [n \in Nodes |-> [should |-> FALSE, refs |-> 0]]
      /\ fl = [t \in FreeListThreads |-> Outside]
      /\ takenMarked = FALSE
  BY DEF FreeListInit
<1>3. FreeListTypeOK
  <2>1. Outside \in FlStates
    BY DEF Outside, FlStates
  <2>2. held \in [FreeListThreads -> SUBSET Nodes]
    BY <1>1
  <2> QED BY <1>2, <2>1, <2>2 DEF FreeListTypeOK, NodeOrNull, RefCounts
<1>4. Linked = {}
  <2>1. freeListNext \in [Nodes -> Nodes \cup {NoNode}]
    BY <1>2
  <2> QED BY <1>2, <2>1, LinkedFromNull, FreeListAssumption DEF Linked
<1>5. \A t \in FreeListThreads : fl[t].pc = "outside"
  BY <1>2 DEF Outside
<1>6. ASSUME NEW n \in Nodes
      PROVE  NodeInv(n)
  <2>1. \A t \in FreeListThreads :
            ~Adding(t, n) /\ ~Linking(t, n) /\ ~Taking(t, n) /\ ~Refers(t, n)
    BY <1>5 DEF Adding, Linking, Taking, Refers
  <2>2. \A t \in FreeListThreads : n \in held[t] <=> owner[n] = t
    BY <1>1
  <2>3. ~Counted(n)
    BY <1>4, <2>1 DEF Counted
  <2>4. OwnedOnce(n)
    BY <1>4, <2>1, <2>2 DEF OwnedOnce, Owns
  <2>5. ~freeListRefs[n].should /\ freeListRefs[n].refs = 0
    BY <1>2
  <2>6. MarkMeans(n)
    BY <1>1, <2>1, <2>2, <2>5 DEF MarkMeans
  <2>7. Referrers(n) = {}
    BY <2>1 DEF Referrers
  <2>8. RefsCounted(n)
    BY <2>3, <2>5, <2>7, FS_EmptySet DEF RefsCounted
  <2> QED BY <2>4, <2>6, <2>8 DEF NodeInv
<1>7. Acyclic
  BY <1>4 DEF Acyclic
<1>8. NextIsKept
  BY <1>5 DEF NextIsKept
<1> QED BY <1>2, <1>3, <1>6, <1>7, <1>8 DEF FreeListInv

LEMMA FreeListInvImplies ==
    ASSUME FreeListInv
    PROVE  FreeListKeepsNodes
<1>0. FreeListTypeOK
  BY DEF FreeListInv
<1>1. Linked \subseteq Nodes
  BY <1>0, LinkedTypes
<1>2. ASSUME NEW t \in FreeListThreads
      PROVE  held[t] \subseteq Nodes
  BY <1>0 DEF FreeListTypeOK
<1>3. \A n \in Nodes : \A t \in FreeListThreads :
          n \in held[t] => n \notin Linked /\ \A u \in FreeListThreads : n \in held[u] => u = t
  BY DEF FreeListInv, NodeInv, OwnedOnce, Owns
<1>4. NodesHaveOneOwner
  BY <1>2, <1>3 DEF NodesHaveOneOwner, FreeListInv
<1>5. ASSUME \A t \in FreeListThreads : fl[t].pc = "outside", NEW n \in Nodes
      PROVE  n \in Linked \/ \E t \in FreeListThreads : n \in held[t]
  <2>1. \A t \in FreeListThreads :
            ~Adding(t, n) /\ ~Linking(t, n) /\ ~Taking(t, n) /\ ~Refers(t, n)
    BY <1>5 DEF Adding, Linking, Taking, Refers
  <2>2. NodeInv(n)
    BY DEF FreeListInv
  <2>3. Counted(n) <=> n \in Linked
    BY <2>1 DEF Counted
  <2>4. Referrers(n) = {}
    BY <2>1 DEF Referrers
  <2>5. ~(freeListRefs[n].should /\ freeListRefs[n].refs = 0)
    BY <2>1, <2>2 DEF NodeInv, MarkMeans
  <2>6. ~freeListRefs[n].should
    <3>1. freeListRefs[n].should => ~Counted(n)
      BY <2>2 DEF NodeInv, MarkMeans
    <3>2. ~Counted(n) => freeListRefs[n].refs = 0
      BY <2>2, <2>4, FS_EmptySet DEF NodeInv, RefsCounted
    <3> QED BY <2>5, <3>1, <3>2
  <2> QED BY <2>2, <2>3, <2>6 DEF NodeInv, MarkMeans
<1>6. NoNodeIsLost
  BY <1>1, <1>2, <1>3, <1>5 DEF NoNodeIsLost
<1> QED BY <1>4, <1>6 DEF FreeListKeepsNodes

\* The steps of the queue are, to the free list, its steps or none.
LEMMA FreeListPart == Init => FreeListInit
  BY DEF Init

LEMMA FreeListPartStep == [Next]_vars => [FreeListNextStep]_freeListVars
  BY DEF Next, vars

\* A block given back is given out again, once, for any number of nodes and
\* threads, however their adds and takes interleave (concurrentqueue.h:1459-1540).
THEOREM FreeListKeepsNodesInvariant == Spec => []FreeListKeepsNodes
<1>1. Init => FreeListInv
  BY FreeListPart, FreeListInvInit
<1>2. FreeListInv /\ [Next]_vars => FreeListInv'
  BY FreeListPartStep, FreeListInvStep
<1>3. FreeListInv => FreeListKeepsNodes
  BY FreeListInvImplies
<1> QED BY <1>1, <1>2, <1>3, PTL DEF Spec

-----------------------------------------------------------------------------
(***************************************************************************)
(* The producers: who has one, and which are listed.                       *)
(***************************************************************************)
ProducerOrNull == Producers \cup {Null}

TkStates ==
    [pc : {"none"}, producer : {Null}]
    \cup [pc : {"has"}, producer : Producers]
    \cup [pc : {"recycle"}, producer : {Null}, ptr : ProducerOrNull]
    \cup [pc : {"catch", "loadTail", "cas"}, producer : {Null}, ptr : Producers]

ListTypeOK ==
    /\ producerListTail \in ProducerOrNull
    /\ next \in [Producers -> ProducerOrNull]
    /\ producerCount \in Nat
    /\ inactive \in [Producers -> BOOLEAN]
    /\ tk \in [TokenThreads -> TkStates]

Adds(t, p) == tk[t].pc \in {"loadTail", "cas"} /\ tk[t].ptr = p
Has(t, p) == tk[t].pc = "has" /\ tk[t].producer = p
Listed == ListedFrom(producerListTail)

(***************************************************************************)
(* The inductive invariant.                                                *)
(***************************************************************************)
\* A producer is one thread's, or nobody's; one that a token gave back is nobody's.
OwnedProducer(p) ==
    /\ inactive[p] => p <= producerCount
    /\ \A t \in TokenThreads :
           Has(t, p) \/ Adds(t, p) =>
               /\ p <= producerCount /\ ~inactive[p]
               /\ \A u \in TokenThreads : Has(u, p) \/ Adds(u, p) => u = t

\* The producers counted cover those listed; one being added is not yet listed.
ListIsCounted ==
    \A p \in Listed : p <= producerCount /\ \A t \in TokenThreads : ~Adds(t, p)

\* A consumer's tail is, and stays, of the list, and the count it read after it
\* covers what is listed from there on.
PlaceIsCounted(c) ==
    /\ cs[c].pc = "rotateCount" => cs[c].tail \in Listed \cup {Null}
    /\ cs[c].pc = "rotateMove" =>
           /\ cs[c].tail \in Listed \cup {Null}
           /\ cs[c].count \in Nat
           /\ \A p \in ListedFrom(cs[c].tail) : p <= cs[c].count

ConsumersAreRecords ==
    /\ cs = [c \in Consumers |-> cs[c]]
    /\ \A c \in Consumers : "pc" \in DOMAIN cs[c]

ProducersInv ==
    /\ ListTypeOK
    /\ \A p \in Producers : OwnedProducer(p)
    /\ ListIsCounted
    /\ ConsumersAreRecords
    /\ \A c \in Consumers : PlaceIsCounted(c)

LEMMA TkShapes ==
    ASSUME ListTypeOK, NEW t \in TokenThreads
    PROVE  /\ tk[t].pc = "none" => tk[t].producer = Null
           /\ tk[t].pc = "has" => tk[t].producer \in Producers
           /\ tk[t].pc = "recycle" =>
                  tk[t] \in [pc : {"recycle"}, producer : {Null}, ptr : ProducerOrNull]
           /\ tk[t].pc \in {"catch", "loadTail", "cas"} =>
                  tk[t] \in [pc : {"catch", "loadTail", "cas"}, producer : {Null}, ptr : Producers]
           /\ tk[t].pc \in {"none", "has", "recycle", "catch", "loadTail", "cas"}
           /\ tk[t].pc # "has" => tk[t].producer = Null
<1>1. tk[t] \in TkStates
  BY DEF ListTypeOK
<1> QED BY <1>1 DEF TkStates

LEMMA TkStep ==
    ASSUME ListTypeOK, NEW t \in TokenThreads, NEW state \in TkStates, TkGoto(t, state)
    PROVE  /\ tk' \in [TokenThreads -> TkStates]
           /\ tk'[t] = state
           /\ \A u \in TokenThreads \ {t} : tk'[u] = tk[u]
  BY DEF ListTypeOK, TkGoto

LEMMA ListedTypes ==
    ASSUME ListTypeOK
    PROVE  /\ Listed \subseteq Producers
           /\ producerListTail \in Listed \cup {Null}
           /\ \A r \in Listed \cup {Null} : ListedFrom(r) \subseteq Listed
<1>1. /\ next \in [Producers -> Producers \cup {Null}]
      /\ producerListTail \in Producers \cup {Null} /\ Null \notin Producers
  BY ProducerListAssumption DEF ListTypeOK, ProducerOrNull
<1>2. Listed \subseteq Producers /\ producerListTail \in Listed \cup {Null}
  BY <1>1, LinkedIsClosed DEF Listed, ListedFrom
<1>3. ASSUME NEW r \in Listed PROVE ListedFrom(r) \subseteq Listed
  BY <1>1, <1>3, LinkedFromMember DEF Listed, ListedFrom
<1>4. ListedFrom(Null) = {}
  BY <1>1, LinkedFromNull DEF ListedFrom
<1> QED BY <1>2, <1>3, <1>4

\* What is written of a producer not listed does not change the list.
LEMMA ListedStays ==
    ASSUME ListTypeOK, ListTypeOK', producerListTail' = producerListTail,
           \A q \in Listed : next'[q] = next[q]
    PROVE  /\ Listed' = Listed
           /\ \A r \in Listed \cup {Null} : ListedFrom(r)' = ListedFrom(r)
<1>1. /\ next \in [Producers -> Producers \cup {Null}]
      /\ next' \in [Producers -> Producers \cup {Null}]
      /\ producerListTail \in Producers \cup {Null} /\ Null \notin Producers
  BY ProducerListAssumption DEF ListTypeOK, ProducerOrNull
<1>2. ASSUME NEW r \in Listed \cup {Null}
      PROVE  ListedFrom(r)' = ListedFrom(r)
  <2>1. r \in Producers \cup {Null} /\ ListedFrom(r) \subseteq Listed
    BY ListedTypes
  <2>2. \A q \in LinkedFrom(r, next, Null) : next'[q] = next[q]
    BY <2>1 DEF ListedFrom
  <2> QED BY <1>1, <2>1, <2>2, LinkedElsewhere DEF ListedFrom
<1>3. Listed' = Listed
  <2>1. ListedFrom(producerListTail)' = ListedFrom(producerListTail)
    <3>1. \A q \in LinkedFrom(producerListTail, next, Null) : next'[q] = next[q]
      BY DEF Listed, ListedFrom
    <3> QED BY <1>1, <3>1, LinkedElsewhere DEF ListedFrom
  <2> QED BY <2>1 DEF Listed
<1> QED BY <1>2, <1>3

LEMMA ListedGrows ==
    ASSUME ListTypeOK, NEW p \in Producers, next[p] = producerListTail,
           producerListTail' = p, next' = next
    PROVE  /\ Listed' = Listed \cup {p}
           /\ \A r : ListedFrom(r)' = ListedFrom(r)
<1>1. next \in [Producers -> Producers \cup {Null}] /\ Null \notin Producers
  BY ProducerListAssumption DEF ListTypeOK, ProducerOrNull
<1>2. LinkedFrom(p, next, Null) = {p} \cup LinkedFrom(next[p], next, Null)
  BY <1>1, LinkedFromFirst
<1> QED BY <1>2 DEF Listed, ListedFrom

\* What a step that leaves the consumers alone keeps of their places.
LEMMA PlacesStay ==
    ASSUME ProducersInv, cs' = cs, Listed \subseteq Listed',
           \A r \in Listed \cup {Null} : ListedFrom(r)' = ListedFrom(r)
    PROVE  ConsumersAreRecords' /\ \A c \in Consumers : PlaceIsCounted(c)'
<1>1. ConsumersAreRecords'
  BY DEF ProducersInv, ConsumersAreRecords
<1>2. ASSUME NEW c \in Consumers PROVE PlaceIsCounted(c)'
  <2>1. PlaceIsCounted(c)
    BY DEF ProducersInv
  <2>2. ASSUME NEW r \in Listed \cup {Null}, r = cs[c].tail
        PROVE  ListedFrom(cs[c].tail)' = ListedFrom(cs[c].tail)
    BY <2>2 DEF ListedFrom
  <2> QED BY <2>1, <2>2 DEF PlaceIsCounted
<1> QED BY <1>1, <1>2

(***************************************************************************)
(* The steps of a thread that has, or is about to have, a token.           *)
(***************************************************************************)
\* A step after which t is nobody's owner of a producer that it was not before.
LEMMA TokenStays ==
    ASSUME ProducersInv, ListTypeOK', NEW t \in TokenThreads, cs' = cs,
           UNCHANGED <<producerListTail, next, producerCount, inactive>>,
           \A u \in TokenThreads \ {t} : tk'[u] = tk[u],
           \A p \in Producers : Has(t, p)' => Has(t, p),
           \A p \in Producers : Adds(t, p)' => Adds(t, p)
    PROVE  ProducersInv'
<1>0. ListTypeOK
  BY DEF ProducersInv
<1>1. /\ Listed' = Listed
      /\ \A r \in Listed \cup {Null} : ListedFrom(r)' = ListedFrom(r)
  BY <1>0, ListedStays
<1>2. ConsumersAreRecords' /\ \A c \in Consumers : PlaceIsCounted(c)'
  BY <1>1, PlacesStay
<1>3. \A u \in TokenThreads, p \in Producers :
          (Has(u, p)' => Has(u, p)) /\ (Adds(u, p)' => Adds(u, p))
  BY DEF Has, Adds
<1>4. \A p \in Producers : OwnedProducer(p)'
  BY <1>3 DEF ProducersInv, OwnedProducer
<1>5. ListIsCounted'
  BY <1>0, <1>1, <1>3, ListedTypes DEF ProducersInv, ListIsCounted
<1> QED BY <1>2, <1>4, <1>5 DEF ProducersInv

LEMMA RecycleSteps ==
    ASSUME ProducersInv, NEW t \in TokenThreads,
           RecycleLoadTail(t) \/ Recycle(t) \/ AddFails(t) \/ EnqueueOne(t)
    PROVE  ProducersInv'
<1>0. ListTypeOK
  BY DEF ProducersInv
<1>1. CASE RecycleLoadTail(t) \/ Recycle(t) \/ AddFails(t)
  <2>1. PICK state \in TkStates : TkGoto(t, state) /\ state.pc \in {"none", "recycle", "catch"}
    <3>1. CASE RecycleLoadTail(t)
      BY <1>0, <3>1 DEF RecycleLoadTail, TkStates, ListTypeOK
    <3>2. CASE Recycle(t)
      <4>1. /\ tk[t] \in [pc : {"recycle"}, producer : {Null}, ptr : ProducerOrNull]
            /\ tk[t].ptr \in Producers /\ next[tk[t].ptr] \in ProducerOrNull
        BY <1>0, <3>2, TkShapes DEF Recycle, ProducerOrNull, ListTypeOK
      <4>2. /\ [tk[t] EXCEPT !.ptr = next[tk[t].ptr]] \in
                   [pc : {"recycle"}, producer : {Null}, ptr : ProducerOrNull]
            /\ [pc |-> "catch", producer |-> Null, ptr |-> tk[t].ptr] \in TkStates
        BY <4>1 DEF TkStates
      <4> QED BY <3>2, <4>2 DEF Recycle, TkStates
    <3>3. CASE AddFails(t)
      BY <3>3 DEF AddFails, TkStates
    <3> QED BY <1>1, <3>1, <3>2, <3>3
  <2>2. /\ tk' \in [TokenThreads -> TkStates] /\ tk'[t] = state
        /\ \A u \in TokenThreads \ {t} : tk'[u] = tk[u]
    BY <1>0, <2>1, TkStep
  <2>3. UNCHANGED <<listVars, cs>>
    BY <1>1 DEF RecycleLoadTail, Recycle, AddFails, tokenVars
  <2>4. ListTypeOK'
    BY <1>0, <2>2, <2>3 DEF ListTypeOK, listVars
  <2>5. \A p \in Producers : ~Has(t, p)' /\ ~Adds(t, p)'
    BY <2>1, <2>2 DEF Has, Adds
  <2> QED BY <2>2, <2>3, <2>4, <2>5, TokenStays DEF listVars
<1>2. CASE EnqueueOne(t)
  <2>1. UNCHANGED <<listVars, tk, cs>>
    BY <1>2 DEF EnqueueOne, tokenVars
  <2>2. ListTypeOK'
    BY <1>0, <2>1 DEF ListTypeOK, listVars
  <2>3. \A p \in Producers : (Has(t, p)' => Has(t, p)) /\ (Adds(t, p)' => Adds(t, p))
    BY <2>1 DEF Has, Adds
  <2> QED BY <2>1, <2>2, <2>3, TokenStays DEF listVars
<1> QED BY <1>1, <1>2

\* A step that gives t the producer p, or takes it away, and leaves the others alone.
LEMMA OwnerStep ==
    ASSUME ProducersInv, NEW t \in TokenThreads, NEW p \in Producers,
           \A u \in TokenThreads \ {t} : tk'[u] = tk[u],
           producerCount <= producerCount', producerCount \in Nat, producerCount' \in Nat,
           \A q \in Producers \ {p} : /\ inactive'[q] <=> inactive[q]
                                      /\ ~Has(t, q)' /\ ~Adds(t, q)',
           \A u \in TokenThreads \ {t} : ~Has(u, p) /\ ~Adds(u, p),
           p <= producerCount', inactive'[p] => ~Has(t, p)' /\ ~Adds(t, p)'
    PROVE  \A q \in Producers : OwnedProducer(q)'
<1>1. \A u \in TokenThreads \ {t} : \A q : (Has(u, q)' <=> Has(u, q)) /\ (Adds(u, q)' <=> Adds(u, q))
  BY DEF Has, Adds
<1>2. OwnedProducer(p)'
  BY <1>1 DEF OwnedProducer
<1>3. ASSUME NEW q \in Producers \ {p} PROVE OwnedProducer(q)'
  <2>1. OwnedProducer(q) /\ q \in Nat
    BY ProducerListAssumption DEF ProducersInv
  <2>2. q <= producerCount => q <= producerCount'
    BY <2>1
  <2> QED BY <1>1, <2>1, <2>2 DEF OwnedProducer
<1> QED BY <1>2, <1>3

LEMMA CatchAndDestroySteps ==
    ASSUME ProducersInv, NEW t \in TokenThreads, RecycleCatch(t) \/ DestroyToken(t)
    PROVE  ProducersInv'
<1>0. ListTypeOK
  BY DEF ProducersInv
<1>1. ASSUME NEW p \in Producers, NEW state \in TkStates, TkGoto(t, state),
             NEW b \in BOOLEAN, inactive' = [inactive EXCEPT ![p] = b],
             UNCHANGED <<producerListTail, next, producerCount, cs>>,
             \A q \in Producers \ {p} : ~(state.pc = "has" /\ state.producer = q),
             state.pc \notin {"loadTail", "cas"}, b => state.pc # "has",
             p <= producerCount, \A u \in TokenThreads \ {t} : ~Has(u, p) /\ ~Adds(u, p)
      PROVE  ProducersInv'
  <2>1. /\ tk' \in [TokenThreads -> TkStates] /\ tk'[t] = state
        /\ \A u \in TokenThreads \ {t} : tk'[u] = tk[u]
    BY <1>0, <1>1, TkStep
  <2>2. ListTypeOK'
    BY <1>0, <1>1, <2>1 DEF ListTypeOK
  <2>3. /\ Listed' = Listed
        /\ \A r \in Listed \cup {Null} : ListedFrom(r)' = ListedFrom(r)
    BY <1>0, <1>1, <2>2, ListedStays
  <2>4. ConsumersAreRecords' /\ \A c \in Consumers : PlaceIsCounted(c)'
    BY <1>1, <2>3, PlacesStay
  <2>5. \A q \in Producers : ~Adds(t, q)' /\ (q # p => ~Has(t, q)')
    BY <1>1, <2>1 DEF Adds, Has
  <2>6. inactive'[p] => ~Has(t, p)'
    BY <1>0, <1>1, <2>1 DEF ListTypeOK, Has
  <2>7. \A q \in Producers \ {p} : inactive'[q] <=> inactive[q]
    BY <1>0, <1>1 DEF ListTypeOK
  <2>8. producerCount' = producerCount /\ producerCount \in Nat
    BY <1>0, <1>1 DEF ListTypeOK
  <2>9. \A q \in Producers : OwnedProducer(q)'
    BY <1>1, <2>1, <2>5, <2>6, <2>7, <2>8, OwnerStep
  <2>10. ListIsCounted'
    <3>1. \A u \in TokenThreads, q \in Producers : Adds(u, q)' => Adds(u, q)
      BY <2>1, <2>5 DEF Adds
    <3> QED BY <1>0, <2>3, <2>8, <3>1, ListedTypes DEF ProducersInv, ListIsCounted
  <2> QED BY <2>2, <2>4, <2>9, <2>10 DEF ProducersInv
<1>2. CASE RecycleCatch(t)
  <2>1. tk[t] \in [pc : {"catch", "loadTail", "cas"}, producer : {Null}, ptr : Producers]
    BY <1>0, <1>2, TkShapes DEF RecycleCatch
  <2> DEFINE p == tk[t].ptr
  <2>2. p \in Producers /\ next[p] \in ProducerOrNull
    BY <1>0, <2>1 DEF ListTypeOK
  <2>3. UNCHANGED <<producerListTail, next, producerCount, cs>>
    BY <1>2 DEF RecycleCatch, tokenVars
  <2>4. CASE inactive[p]
    <3>1. /\ [pc |-> "has", producer |-> p] \in TkStates
          /\ TkGoto(t, [pc |-> "has", producer |-> p])
          /\ inactive' = [inactive EXCEPT ![p] = FALSE]
      BY <1>2, <2>2, <2>4 DEF RecycleCatch, TkStates
    <3>2. OwnedProducer(p)
      BY <2>2 DEF ProducersInv
    <3>3. p <= producerCount /\ \A u \in TokenThreads \ {t} : ~Has(u, p) /\ ~Adds(u, p)
      BY <2>4, <3>2 DEF OwnedProducer
    <3> HIDE DEF p
    <3> QED BY <1>1, <2>2, <2>3, <3>1, <3>3
  <2>5. CASE ~inactive[p]
    <3> DEFINE state == [tk[t] EXCEPT !.pc = "recycle", !.ptr = next[p]]
    <3>1. state \in [pc : {"recycle"}, producer : {Null}, ptr : ProducerOrNull]
      BY <2>1, <2>2
    <3>2. TkGoto(t, state) /\ inactive' = inactive
      BY <1>2, <2>5 DEF RecycleCatch
    <3> HIDE DEF state
    <3>3. state \in TkStates /\ state.pc = "recycle"
      BY <3>1 DEF TkStates
    <3>4. /\ tk' \in [TokenThreads -> TkStates] /\ tk'[t] = state
          /\ \A u \in TokenThreads \ {t} : tk'[u] = tk[u]
      BY <1>0, <3>2, <3>3, TkStep
    <3>5. ListTypeOK'
      BY <1>0, <2>3, <3>2, <3>4 DEF ListTypeOK
    <3>6. \A q \in Producers : ~Has(t, q)' /\ ~Adds(t, q)'
      BY <3>3, <3>4 DEF Has, Adds
    <3> QED BY <2>3, <3>2, <3>4, <3>5, <3>6, TokenStays
  <2> QED BY <2>4, <2>5
<1>3. CASE DestroyToken(t)
  <2> DEFINE p == tk[t].producer
  <2>1. /\ tk[t].pc = "has" /\ inactive' = [inactive EXCEPT ![p] = TRUE]
        /\ TkGoto(t, [pc |-> "none", producer |-> Null])
        /\ [pc |-> "none", producer |-> Null] \in TkStates
        /\ UNCHANGED <<producerListTail, next, producerCount, cs>>
    BY <1>3 DEF DestroyToken, TkStates, tokenVars
  <2>2. p \in Producers
    BY <1>0, <2>1, TkShapes
  <2>3. Has(t, p) /\ OwnedProducer(p)
    BY <2>1, <2>2 DEF Has, ProducersInv
  <2>4. p <= producerCount /\ \A u \in TokenThreads \ {t} : ~Has(u, p) /\ ~Adds(u, p)
    BY <2>3 DEF OwnedProducer
  <2> HIDE DEF p
  <2> QED BY <1>1, <2>1, <2>2, <2>4
<1> QED BY <1>2, <1>3

\* The producer created is the next number, which nobody has and which is not listed.
LEMMA AddCountStep ==
    ASSUME ProducersInv, NEW t \in TokenThreads, AddCount(t)
    PROVE  ProducersInv'
<1>0. ListTypeOK
  BY DEF ProducersInv
<1>1. PICK p \in Producers : /\ p = producerCount + 1 /\ producerCount' = p
                             /\ TkGoto(t, [pc |-> "loadTail", producer |-> Null, ptr |-> p])
  BY DEF AddCount
<1>2. UNCHANGED <<producerListTail, next, inactive, cs>>
  BY DEF AddCount, tokenVars
<1>3. /\ tk' \in [TokenThreads -> TkStates]
      /\ tk'[t] = [pc |-> "loadTail", producer |-> Null, ptr |-> p]
      /\ \A u \in TokenThreads \ {t} : tk'[u] = tk[u]
  <2>1. [pc |-> "loadTail", producer |-> Null, ptr |-> p] \in TkStates
    BY DEF TkStates
  <2> QED BY <1>0, <1>1, <2>1, TkStep
<1>4. producerCount \in Nat /\ producerCount' \in Nat /\ ~(p <= producerCount)
  BY <1>0, <1>1 DEF ListTypeOK
<1>5. ListTypeOK'
  BY <1>0, <1>2, <1>3, <1>4 DEF ListTypeOK
<1>6. /\ Listed' = Listed /\ Listed \subseteq Producers
      /\ \A r \in Listed \cup {Null} : ListedFrom(r)' = ListedFrom(r)
  BY <1>0, <1>2, <1>5, ListedStays, ListedTypes
<1>7. ConsumersAreRecords' /\ \A c \in Consumers : PlaceIsCounted(c)'
  BY <1>2, <1>6, PlacesStay
<1>8. \A q \in Producers : ~Has(t, q)' /\ (Adds(t, q)' <=> q = p)
  BY <1>3 DEF Has, Adds
<1>9. ~inactive[p] /\ \A u \in TokenThreads : ~Has(u, p) /\ ~Adds(u, p)
  BY <1>4 DEF ProducersInv, OwnedProducer
<1>10. \A q \in Producers : OwnedProducer(q)'
  <2>1. producerCount <= producerCount' /\ p <= producerCount'
    BY <1>1, <1>4
  <2> QED BY <1>2, <1>3, <1>4, <1>8, <1>9, <2>1, OwnerStep
<1>11. ListIsCounted'
  <2>1. ASSUME NEW q \in Listed
        PROVE  q <= producerCount' /\ q # p /\ \A u \in TokenThreads \ {t} : ~Adds(u, q)'
    <3>1. q \in Nat /\ q <= producerCount /\ \A u \in TokenThreads : ~Adds(u, q)
      BY <1>6, ProducerListAssumption DEF ProducersInv, ListIsCounted
    <3> QED BY <1>1, <1>3, <1>4, <3>1 DEF Adds
  <2> QED BY <1>6, <1>8, <2>1 DEF ListIsCounted
<1> QED BY <1>5, <1>7, <1>10, <1>11 DEF ProducersInv

\* The producer is given the tail it is to be before.
LEMMA AddTailSteps ==
    ASSUME ProducersInv, NEW t \in TokenThreads,
           AddLoadTail(t) \/ (AddLink(t) /\ next[tk[t].ptr] # producerListTail)
    PROVE  ProducersInv'
<1>0. ListTypeOK
  BY DEF ProducersInv
<1>1. /\ tk[t].pc \in {"loadTail", "cas"}
      /\ next' = [next EXCEPT ![tk[t].ptr] = producerListTail]
      /\ UNCHANGED <<producerListTail, producerCount, inactive, cs>>
  BY DEF AddLoadTail, AddLink, tokenVars
<1>2. tk[t] \in [pc : {"catch", "loadTail", "cas"}, producer : {Null}, ptr : Producers]
  BY <1>0, <1>1, TkShapes
<1>3. PICK p \in Producers : p = tk[t].ptr
  BY <1>2
<1>4. /\ tk' \in [TokenThreads -> TkStates]
      /\ tk'[t].pc = "cas" /\ tk'[t].ptr = p
      /\ \A u \in TokenThreads \ {t} : tk'[u] = tk[u]
  <2>1. CASE AddLoadTail(t)
    <3>1. /\ [tk[t] EXCEPT !.pc = "cas"] \in
                  [pc : {"catch", "loadTail", "cas"}, producer : {Null}, ptr : Producers]
          /\ [tk[t] EXCEPT !.pc = "cas"].pc = "cas" /\ [tk[t] EXCEPT !.pc = "cas"].ptr = p
      BY <1>2, <1>3
    <3>2. [tk[t] EXCEPT !.pc = "cas"] \in TkStates
      BY <3>1 DEF TkStates
    <3> QED BY <1>0, <2>1, <3>1, <3>2, TkStep DEF AddLoadTail
  <2>2. CASE AddLink(t) /\ next[tk[t].ptr] # producerListTail
    BY <1>0, <1>3, <2>2 DEF AddLink, ListTypeOK
  <2> QED BY <2>1, <2>2
<1>5. ListTypeOK'
  BY <1>0, <1>1, <1>3, <1>4 DEF ListTypeOK
<1>6. Adds(t, p) /\ ~Has(t, p)
  BY <1>1, <1>3 DEF Adds, Has
<1>7. p \notin Listed
  BY <1>6 DEF ProducersInv, ListIsCounted
<1>8. /\ Listed' = Listed /\ Listed \subseteq Producers
      /\ \A r \in Listed \cup {Null} : ListedFrom(r)' = ListedFrom(r)
  <2>1. \A q \in Listed : next'[q] = next[q]
    BY <1>0, <1>1, <1>3, <1>7, ListedTypes DEF ListTypeOK
  <2> QED BY <1>0, <1>1, <1>5, <2>1, ListedStays, ListedTypes
<1>9. ConsumersAreRecords' /\ \A c \in Consumers : PlaceIsCounted(c)'
  BY <1>1, <1>8, PlacesStay
<1>10. \A u \in TokenThreads, q \in Producers :
           (Has(u, q)' => Has(u, q)) /\ (Adds(u, q)' => Adds(u, q))
  BY <1>4, <1>6 DEF Has, Adds
<1>11. \A q \in Producers : OwnedProducer(q)'
  BY <1>1, <1>10 DEF ProducersInv, OwnedProducer
<1>12. ListIsCounted'
  BY <1>1, <1>8, <1>10 DEF ProducersInv, ListIsCounted
<1> QED BY <1>5, <1>9, <1>11, <1>12 DEF ProducersInv

\* The producer is listed, and the thread's.
LEMMA AddLinkStep ==
    ASSUME ProducersInv, NEW t \in TokenThreads, AddLink(t), next[tk[t].ptr] = producerListTail
    PROVE  ProducersInv'
<1>0. ListTypeOK
  BY DEF ProducersInv
<1>1. tk[t] \in [pc : {"catch", "loadTail", "cas"}, producer : {Null}, ptr : Producers]
  BY <1>0, TkShapes DEF AddLink
<1>2. PICK p \in Producers : p = tk[t].ptr
  BY <1>1
<1>3. /\ tk[t].pc = "cas" /\ next[p] = producerListTail /\ producerListTail' = p
      /\ TkGoto(t, [pc |-> "has", producer |-> p])
      /\ UNCHANGED <<next, producerCount, inactive, cs>>
  BY <1>2 DEF AddLink, tokenVars
<1>4. /\ tk' \in [TokenThreads -> TkStates]
      /\ tk'[t] = [pc |-> "has", producer |-> p]
      /\ \A u \in TokenThreads \ {t} : tk'[u] = tk[u]
  <2>1. [pc |-> "has", producer |-> p] \in TkStates
    BY DEF TkStates
  <2> QED BY <1>0, <1>3, <2>1, TkStep
<1>5. ListTypeOK'
  BY <1>0, <1>3, <1>4 DEF ListTypeOK, ProducerOrNull
<1>6. Adds(t, p)
  BY <1>2, <1>3 DEF Adds
<1>7. OwnedProducer(p)
  BY DEF ProducersInv
<1>8. /\ p <= producerCount /\ ~inactive[p]
      /\ \A u \in TokenThreads \ {t} : ~Has(u, p) /\ ~Adds(u, p)
  BY <1>6, <1>7 DEF OwnedProducer
<1>9. /\ Listed' = Listed \cup {p}
      /\ \A r : ListedFrom(r)' = ListedFrom(r)
  BY <1>0, <1>3, ListedGrows
<1>10. ConsumersAreRecords' /\ \A c \in Consumers : PlaceIsCounted(c)'
  BY <1>3, <1>9, PlacesStay
<1>11. \A q \in Producers : ~Adds(t, q)' /\ (q # p => ~Has(t, q)')
  BY <1>4 DEF Has, Adds
<1>12. \A q \in Producers : OwnedProducer(q)'
  <2>1. producerCount' = producerCount /\ producerCount \in Nat
    BY <1>0, <1>3 DEF ListTypeOK
  <2> QED BY <1>3, <1>4, <1>8, <1>11, <2>1, OwnerStep
<1>13. ListIsCounted'
  <2>1. \A u \in TokenThreads, q \in Producers : Adds(u, q)' => Adds(u, q) /\ u # t
    BY <1>4, <1>11 DEF Adds
  <2> QED BY <1>0, <1>3, <1>8, <1>9, <2>1, ListedTypes DEF ProducersInv, ListIsCounted
<1> QED BY <1>5, <1>10, <1>12, <1>13 DEF ProducersInv

(***************************************************************************)
(* The steps of a consumer.                                                *)
(***************************************************************************)
\* Of the list, a consumer takes along the tail, and after it the count.
GoesTo(c, state) ==
    /\ CsGoto(c, state) /\ "pc" \in DOMAIN state
    /\ state.pc = "rotateCount" => state.tail = producerListTail
    /\ state.pc = "rotateMove" => /\ cs[c].pc = "rotateCount" /\ state.tail = cs[c].tail
                                  /\ state.count = producerCount

LEMMA ConsumerGoesOn ==
    ASSUME ProducersInv, NEW c \in Consumers, ConsumerStep(c)
    PROVE  ProducersUnchanged /\ \E state : GoesTo(c, state)
<1>0. "pc" \in DOMAIN cs[c]
  BY DEF ProducersInv, ConsumersAreRecords
<1>1. ASSUME ProducersUnchanged, NEW state, CsGoto(c, state), "pc" \in DOMAIN state,
             state.pc \notin {"rotateCount", "rotateMove"}
      PROVE  ProducersUnchanged /\ \E s : GoesTo(c, s)
  BY <1>1 DEF GoesTo
<1>2. CASE TryDequeue(c)
  BY <1>1, <1>2 DEF TryDequeue, Call
<1>3. CASE \E max \in Counts \cup {1} : TryInOrder(c, max)
  BY <1>1, <1>3 DEF TryInOrder, Call
<1>4. CASE \/ TokenCall(c, 1, TRUE)
           \/ \E max \in Counts : TokenCall(c, max, FALSE)
  BY <1>1, <1>4 DEF TokenCall, Call
<1>5. CASE Score(c)
  <2>1. ASSUME NEW x, NEW y, NEW z
        PROVE  /\ "pc" \in DOMAIN [cs[c] EXCEPT !.ptr = x, !.nonEmpty = y, !.best = z]
               /\ [cs[c] EXCEPT !.ptr = x, !.nonEmpty = y, !.best = z].pc = cs[c].pc
               /\ "pc" \in DOMAIN [cs[c] EXCEPT !.ptr = x]
               /\ [cs[c] EXCEPT !.ptr = x].pc = cs[c].pc
    BY <1>0
  <2>2. \/ \E x, y, z : CsGoto(c, [cs[c] EXCEPT !.ptr = x, !.nonEmpty = y, !.best = z])
        \/ \E x : CsGoto(c, [cs[c] EXCEPT !.ptr = x])
    BY <1>5 DEF Score
  <2>3. ProducersUnchanged /\ cs[c].pc = "score"
    BY <1>5 DEF Score
  <2> QED BY <1>1, <2>1, <2>2, <2>3
<1>6. CASE TryBest(c)
  <2>1. ProducersUnchanged
    BY <1>6 DEF TryBest
  <2>2. \/ CsGoto(c, OffList)
        \/ \E best : CsGoto(c, [pc |-> "loadTail", best |-> best])
    BY <1>6 DEF TryBest, FallShort, DequeueFrom
  <2> QED BY <1>1, <2>1, <2>2 DEF OffList
<1>7. CASE TryLoadTail(c)
  BY <1>1, <1>7 DEF TryLoadTail
<1>8. CASE TryNext(c)
  <2>1. ASSUME NEW x, NEW y
        PROVE  /\ "pc" \in DOMAIN [cs[c] EXCEPT !.ptr = x, !.left = y]
               /\ [cs[c] EXCEPT !.ptr = x, !.left = y].pc = cs[c].pc
               /\ "pc" \in DOMAIN [cs[c] EXCEPT !.ptr = x]
               /\ [cs[c] EXCEPT !.ptr = x].pc = cs[c].pc
    BY <1>0
  <2>2. \/ CsGoto(c, OffList)
        \/ \E x, y : CsGoto(c, [cs[c] EXCEPT !.ptr = x, !.left = y])
        \/ \E x : CsGoto(c, [cs[c] EXCEPT !.ptr = x])
    BY <1>8 DEF TryNext, FallShort, DequeueFrom
  <2>3. ProducersUnchanged /\ cs[c].pc = "try"
    BY <1>8 DEF TryNext
  <2> QED BY <1>1, <2>1, <2>2, <2>3 DEF OffList
<1>9. CASE RotateLoadTail(c)
  <2>1. CASE token[c].desired = Null /\ producerListTail = Null
    BY <1>1, <1>9, <2>1 DEF RotateLoadTail, FallShort, OffList
  <2>2. CASE ~(token[c].desired = Null /\ producerListTail = Null)
    <3> DEFINE state == [pc |-> "rotateCount", tail |-> producerListTail,
                         left |-> cs[c].left, single |-> cs[c].single]
    <3>1. CsGoto(c, state) /\ ProducersUnchanged
      BY <1>9, <2>2 DEF RotateLoadTail
    <3>2. GoesTo(c, state)
      BY <3>1 DEF GoesTo
    <3> QED BY <3>1, <3>2
  <2> QED BY <2>1, <2>2
<1>10. CASE RotateLoadCount(c)
  <2> DEFINE state == [pc |-> "rotateMove", tail |-> cs[c].tail, count |-> producerCount,
                       left |-> cs[c].left, single |-> cs[c].single]
  <2>1. CsGoto(c, state) /\ ProducersUnchanged /\ cs[c].pc = "rotateCount"
    BY <1>10 DEF RotateLoadCount
  <2>2. GoesTo(c, state)
    BY <2>1 DEF GoesTo
  <2> QED BY <2>1, <2>2
<1>11. CASE RotateMove(c)
  BY <1>1, <1>11 DEF RotateMove
<1>12. CASE FromCurrent(c)
  <2>1. \/ CsGoto(c, OffList)
        \/ CsGoto(c, [pc |-> "advance"])
        \/ \E x, y : CsGoto(c, [pc |-> "walkTail", left |-> x, single |-> y])
    BY <1>12 DEF FromCurrent, DequeueFrom
  <2>2. ProducersUnchanged
    BY <1>12 DEF FromCurrent
  <2> QED BY <1>1, <2>1, <2>2 DEF OffList
<1>13. CASE Advance(c)
  BY <1>1, <1>13 DEF Advance, OffList
<1>14. CASE WalkLoadTail(c)
  BY <1>1, <1>14 DEF WalkLoadTail
<1>15. CASE Walk(c)
  <2>1. ASSUME NEW x, NEW y
        PROVE  /\ "pc" \in DOMAIN [cs[c] EXCEPT !.left = x, !.ptr = y]
               /\ [cs[c] EXCEPT !.left = x, !.ptr = y].pc = cs[c].pc
    BY <1>0
  <2>2. \/ CsGoto(c, OffList)
        \/ \E x, y : CsGoto(c, [cs[c] EXCEPT !.left = x, !.ptr = y])
    BY <1>15 DEF Walk, FallShort, DequeueFrom
  <2>3. ProducersUnchanged /\ cs[c].pc = "walk"
    BY <1>15 DEF Walk
  <2> QED BY <1>1, <2>1, <2>2, <2>3 DEF OffList
<1> QED BY <1>2, <1>3, <1>4, <1>5, <1>6, <1>7, <1>8, <1>9, <1>10, <1>11, <1>12, <1>13, <1>14,
           <1>15 DEF ConsumerStep

LEMMA ConsumerSteps ==
    ASSUME ProducersInv, NEW c \in Consumers, ConsumerStep(c)
    PROVE  ProducersInv'
<1>0. ListTypeOK
  BY DEF ProducersInv
<1>1. PICK state : GoesTo(c, state)
  BY ConsumerGoesOn
<1>2. ProducersUnchanged
  BY ConsumerGoesOn
<1>3. UNCHANGED <<producerListTail, next, producerCount, inactive, tk>>
  BY <1>2 DEF ProducersUnchanged, listVars
<1>4. ListTypeOK' /\ Listed' = Listed /\ \A r : ListedFrom(r)' = ListedFrom(r)
  BY <1>0, <1>3 DEF ListTypeOK, Listed, ListedFrom
<1>5. \A t, p : (Has(t, p)' <=> Has(t, p)) /\ (Adds(t, p)' <=> Adds(t, p))
  BY <1>3 DEF Has, Adds
<1>6. \A p \in Producers : OwnedProducer(p)'
  BY <1>3, <1>5 DEF ProducersInv, OwnedProducer
<1>7. ListIsCounted'
  BY <1>3, <1>4, <1>5 DEF ProducersInv, ListIsCounted
<1>8. /\ cs = [d \in Consumers |-> cs[d]] /\ \A d \in Consumers : "pc" \in DOMAIN cs[d]
      /\ cs' = [cs EXCEPT ![c] = state] /\ "pc" \in DOMAIN state
  BY <1>1 DEF ProducersInv, ConsumersAreRecords, GoesTo, CsGoto
<1>9. cs'[c] = state /\ \A d \in Consumers \ {c} : cs'[d] = cs[d]
  BY <1>8
<1>10. ConsumersAreRecords'
  BY <1>8 DEF ConsumersAreRecords
<1>11. PlaceIsCounted(c)'
  <2>1. PlaceIsCounted(c)
    BY DEF ProducersInv
  <2>2. state.pc = "rotateCount" => state.tail \in Listed \cup {Null}
    BY <1>0, <1>1, ListedTypes DEF GoesTo
  <2>3. ASSUME state.pc = "rotateMove"
        PROVE  /\ state.tail \in Listed \cup {Null} /\ state.count \in Nat
               /\ \A p \in ListedFrom(state.tail) : p <= state.count
    <3>1. /\ cs[c].pc = "rotateCount" /\ state.tail = cs[c].tail
          /\ state.count = producerCount
      BY <1>1, <2>3 DEF GoesTo
    <3>2. cs[c].tail \in Listed \cup {Null}
      BY <2>1, <3>1 DEF PlaceIsCounted
    <3>3. ListedFrom(cs[c].tail) \subseteq Listed
      BY <1>0, <3>2, ListedTypes
    <3> QED BY <1>0, <3>1, <3>2, <3>3 DEF ProducersInv, ListIsCounted, ListTypeOK
  <2>4. \A r : r = cs'[c].tail => ListedFrom(cs[c].tail)' = ListedFrom(r)
    BY <1>4 DEF ListedFrom
  <2> QED BY <1>4, <1>9, <2>2, <2>3, <2>4 DEF PlaceIsCounted
<1>12. ASSUME NEW d \in Consumers \ {c} PROVE PlaceIsCounted(d)'
  <2>1. PlaceIsCounted(d) /\ cs'[d] = cs[d]
    BY <1>9 DEF ProducersInv
  <2>2. ListedFrom(cs[d].tail)' = ListedFrom(cs[d].tail)
    BY <1>4, <2>1 DEF ListedFrom
  <2> QED BY <1>4, <2>1, <2>2 DEF PlaceIsCounted
<1> QED BY <1>4, <1>6, <1>7, <1>10, <1>11, <1>12 DEF ProducersInv

LEMMA ProducersInvUnchanged ==
    ASSUME ProducersInv, UNCHANGED <<listVars, tk, cs>>
    PROVE  ProducersInv'
<1>1. /\ ListTypeOK' /\ Listed' = Listed /\ \A r : ListedFrom(r)' = ListedFrom(r)
      /\ ConsumersAreRecords'
  BY DEF ProducersInv, ListTypeOK, Listed, ListedFrom, listVars, ConsumersAreRecords
<1>2. \A t, p : (Has(t, p)' <=> Has(t, p)) /\ (Adds(t, p)' <=> Adds(t, p))
  BY DEF Has, Adds
<1>3. \A p \in Producers : OwnedProducer(p)'
  BY <1>2 DEF ProducersInv, OwnedProducer, listVars
<1>4. ListIsCounted'
  BY <1>1, <1>2 DEF ProducersInv, ListIsCounted, listVars
<1>5. \A c \in Consumers : PlaceIsCounted(c)'
  BY <1>1, PlacesStay
<1> QED BY <1>1, <1>3, <1>4, <1>5 DEF ProducersInv

LEMMA ProducersInvStep ==
    ASSUME ProducersInv, [ListNext]_producerListVars
    PROVE  ProducersInv'
<1>1. CASE UNCHANGED producerListVars \/ OtherConsumers
  <2>1. UNCHANGED <<listVars, tk, cs>>
    BY <1>1 DEF producerListVars, tokenVars, OtherConsumers, ProducersUnchanged
  <2> QED BY <2>1, ProducersInvUnchanged
<1>2. ASSUME NEW t \in TokenThreads, TokenStep(t) PROVE ProducersInv'
  BY <1>2, RecycleSteps, CatchAndDestroySteps, AddCountStep, AddTailSteps, AddLinkStep
     DEF TokenStep
<1>3. ASSUME NEW c \in Consumers, ConsumerStep(c) PROVE ProducersInv'
  BY <1>3, ConsumerSteps
<1> QED BY <1>1, <1>2, <1>3 DEF ListNext

LEMMA ProducersInvInit ==
    ASSUME ListInit
    PROVE  ProducersInv
<1>1. /\ producerListTail = Null /\ next = [p \in Producers |-> Null] /\ producerCount = 0
      /\ inactive = [p \in Producers |-> FALSE]
      /\ tk = [t \in TokenThreads |-> [pc |-> "none", producer |-> Null]]
      /\ cs = [c \in Consumers |-> OffList]
  BY DEF ListInit
<1>2. ListTypeOK
  BY <1>1 DEF ListTypeOK, ProducerOrNull, TkStates
<1>3. Listed = {}
  BY <1>1, LinkedFromNull, ProducerListAssumption DEF Listed, ListedFrom
<1>4. \A t \in TokenThreads : \A p : ~Has(t, p) /\ ~Adds(t, p)
  BY <1>1 DEF Has, Adds
<1>5. \A p \in Producers : OwnedProducer(p)
  BY <1>1, <1>4 DEF OwnedProducer
<1>6. ListIsCounted
  BY <1>3 DEF ListIsCounted
<1>7. \A c \in Consumers : cs[c].pc = "out" /\ "pc" \in DOMAIN cs[c]
  BY <1>1 DEF OffList
<1>8. ConsumersAreRecords /\ \A c \in Consumers : PlaceIsCounted(c)
  BY <1>1, <1>7 DEF ConsumersAreRecords, PlaceIsCounted
<1> QED BY <1>2, <1>5, <1>6, <1>8 DEF ProducersInv

LEMMA ProducersInvImplies ==
    ASSUME ProducersInv
    PROVE  ProducersHaveOneToken /\ CountCoversList
<1>0. ListTypeOK
  BY DEF ProducersInv
<1>1. ProducersHaveOneToken
  <2>1. ASSUME NEW t \in TokenThreads, NEW u \in TokenThreads, t # u, tk[t].producer # Null,
               tk[t].producer = tk[u].producer
        PROVE  FALSE
    <3>1. tk[t].pc = "has" /\ tk[u].pc = "has" /\ tk[t].producer \in Producers
      BY <1>0, <2>1, TkShapes
    <3>2. PICK p \in Producers : Has(t, p) /\ Has(u, p)
      BY <2>1, <3>1 DEF Has
    <3> QED BY <2>1, <3>2 DEF ProducersInv, OwnedProducer
  <2> QED BY <2>1 DEF ProducersHaveOneToken
<1>2. ASSUME NEW c \in Consumers, cs[c].pc = "rotateMove"
      PROVE  cs[c].count >= Cardinality(ListedFrom(cs[c].tail))
  <2> DEFINE S == ListedFrom(cs[c].tail)
             n == cs[c].count
  <2>1. n \in Nat /\ S \subseteq Listed /\ \A p \in S : p <= n
    BY <1>0, <1>2, ListedTypes DEF ProducersInv, PlaceIsCounted
  <2>2. S \subseteq 1 .. n
    <3>1. S \subseteq Nat \ {0}
      BY <1>0, <2>1, ListedTypes, ProducerListAssumption
    <3> HIDE DEF S, n
    <3> QED BY <2>1, <3>1
  <2> HIDE DEF S, n
  <2>3. IsFiniteSet(1 .. n) /\ Cardinality(1 .. n) = n
    BY <2>1, FS_Interval
  <2>4. Cardinality(S) <= n
    BY <2>2, <2>3, FS_Subset
  <2>5. IsFiniteSet(S)
    BY <2>2, <2>3, FS_Subset
  <2>6. Cardinality(S) \in Nat
    BY <2>5, FS_CardinalityType
  <2>7. n >= Cardinality(S)
    BY <2>1, <2>4, <2>6
  <2> QED BY <2>7 DEF S, n
<1> QED BY <1>1, <1>2 DEF CountCoversList

LEMMA ProducersPart == Init => ListInit
  BY DEF Init

LEMMA ProducersPartStep == [Next]_vars => [ListNext]_producerListVars
  BY DEF Next, vars

LEMMA ProducersInvHolds == Spec => []ProducersInv
<1>1. Init => ProducersInv
  BY ProducersPart, ProducersInvInit
<1>2. ProducersInv /\ [Next]_vars => ProducersInv'
  BY ProducersPartStep, ProducersInvStep
<1> QED BY <1>1, <1>2, PTL DEF Spec

\* A producer that a token gave back is one token's again, for any number of threads
\* that find it inactive at once (concurrentqueue.h:3227-3244).
THEOREM ProducersHaveOneTokenInvariant == Spec => []ProducersHaveOneToken
<1>1. ProducersInv => ProducersHaveOneToken
  BY ProducersInvImplies
<1> QED BY <1>1, ProducersInvHolds, PTL

\* The count a rotation takes its place by covers the list it walks, whatever is
\* added between the reads of the two (concurrentqueue.h:1392-1430, 3246-3277).
THEOREM CountCoversListInvariant == Spec => []CountCoversList
<1>1. ProducersInv => CountCoversList
  BY ProducersInvImplies
<1> QED BY <1>1, ProducersInvHolds, PTL

-----------------------------------------------------------------------------
(***************************************************************************)
(* The dequeues that walk the list: what each has still to look at is      *)
(* before it.                                                              *)
(***************************************************************************)
\* Induction, by the least number that is not in a set.
LEMMA LeastOf ==
    ASSUME NEW S \in SUBSET Nat, S # {}
    PROVE  \E x \in S : \A y \in S : x <= y
<1> DEFINE R == OpToRel(<, Nat)
<1>1. IsWellFoundedOn(R, Nat)
  BY NatLessThanWellFounded
<1>2. \A x, y \in Nat : <<x, y>> \in R <=> x < y
  BY DEF OpToRel
<1> HIDE DEF R
<1>3. PICK x \in S : \A y \in S : ~(<<y, x>> \in R)
  BY <1>1, WFMin
<1>4. \A y \in S : ~(y < x)
  BY <1>2, <1>3
<1> QED BY <1>3, <1>4

LEMMA NatInd ==
    ASSUME NEW S, 0 \in S, \A n \in Nat : n \in S => n + 1 \in S
    PROVE  \A n \in Nat : n \in S
<1> DEFINE T == Nat \ S
<1> SUFFICES ASSUME T # {} PROVE FALSE
  OBVIOUS
<1>1. PICK x \in T : \A y \in T : x <= y
  BY LeastOf
<1>2. x # 0 /\ x - 1 \in Nat /\ x - 1 \in S
  BY <1>1
<1> QED BY <1>1, <1>2

\* The places from p on, round the list from tail.
After(p, tail) == IF next[p] = Null THEN tail ELSE next[p]
IsRound(f, p, tail, n) ==
    f = [k \in 0 .. n |-> IF k = 0 THEN p
                          ELSE IF next[f[k - 1]] = Null THEN tail ELSE next[f[k - 1]]]

LEMMA RoundExists ==
    ASSUME NEW p, NEW tail
    PROVE  \A n \in Nat : \E f : IsRound(f, p, tail, n)
<1> DEFINE S == {n \in Nat : \E f : IsRound(f, p, tail, n)}
<1>1. 0 \in S
  <2>1. IsRound([k \in 0 .. 0 |-> p], p, tail, 0)
    BY DEF IsRound
  <2> QED BY <2>1
<1>2. ASSUME NEW n \in Nat, n \in S PROVE n + 1 \in S
  <2>1. PICK f : IsRound(f, p, tail, n)
    BY <1>2
  <2> DEFINE g == [k \in 0 .. n + 1 |-> IF k <= n THEN f[k] ELSE After(f[n], tail)]
  <2>2. \A k \in 0 .. n : g[k] = f[k]
    OBVIOUS
  <2>3. \A k \in 0 .. n + 1 : g[k] = IF k = 0 THEN p ELSE After(g[k - 1], tail)
    <3>1. ASSUME NEW k \in 0 .. n PROVE g[k] = IF k = 0 THEN p ELSE After(g[k - 1], tail)
      <4>1. f[k] = IF k = 0 THEN p ELSE After(f[k - 1], tail)
        BY <2>1 DEF IsRound, After
      <4>2. k # 0 => k - 1 \in 0 .. n
        OBVIOUS
      <4> QED BY <2>2, <4>1, <4>2
    <3>2. g[n + 1] = After(g[n], tail)
      BY <2>2
    <3>3. \A k \in 0 .. n + 1 : k \in 0 .. n \/ (k = n + 1 /\ k # 0 /\ k - 1 = n)
      OBVIOUS
    <3> HIDE DEF g
    <3> QED BY <3>1, <3>2, <3>3
  <2>4. g = [k \in 0 .. n + 1 |-> g[k]]
    OBVIOUS
  <2> HIDE DEF g
  <2>5. IsRound(g, p, tail, n + 1)
    BY <2>3, <2>4 DEF IsRound, After
  <2> QED BY <2>5
<1> HIDE DEF S
<1>3. \A n \in Nat : n \in S
  BY <1>1, <1>2, NatInd
<1> QED BY <1>3 DEF S

LEMMA OnwardsRound ==
    ASSUME NEW p, NEW tail, NEW n \in Nat
    PROVE  \E f : IsRound(f, p, tail, n) /\ Onwards(p, tail, n) = f[n]
<1> DEFINE f == CHOOSE h : IsRound(h, p, tail, n)
<1>1. IsRound(f, p, tail, n)
  <2>1. \E h : IsRound(h, p, tail, n)
    BY RoundExists
  <2> QED BY <2>1
<1>2. Onwards(p, tail, n) = f[n]
  BY DEF Onwards, IsRound
<1> QED BY <1>1, <1>2

LEMMA OnwardsOne ==
    ASSUME NEW p, NEW tail
    PROVE  Onwards(p, tail, 1) = After(p, tail)
<1>1. PICK f : IsRound(f, p, tail, 1) /\ Onwards(p, tail, 1) = f[1]
  BY OnwardsRound
<1>2. f[0] = p /\ f[1] = After(f[0], tail)
  BY <1>1 DEF IsRound, After
<1> QED BY <1>1, <1>2

\* A walk from a place on the list stays on it.
LEMMA OnwardsStays ==
    ASSUME NEW S, NEW tail \in S, NEW p \in S, \A q \in S : next[q] \in S \cup {Null},
           NEW n \in Nat
    PROVE  Onwards(p, tail, n) \in S
<1>1. PICK f : IsRound(f, p, tail, n) /\ Onwards(p, tail, n) = f[n]
  BY OnwardsRound
<1>2. \A k \in 0 .. n : f[k] = IF k = 0 THEN p ELSE After(f[k - 1], tail)
  BY <1>1 DEF IsRound, After
<1> DEFINE T == {k \in Nat : k \in 0 .. n => f[k] \in S}
<1>3. 0 \in T
  BY <1>2
<1>4. ASSUME NEW k \in Nat, k \in T PROVE k + 1 \in T
  <2>1. CASE k + 1 \in 0 .. n
    <3>1. f[k] \in S /\ f[k + 1] = After(f[k], tail)
      BY <1>2, <1>4, <2>1
    <3> QED BY <3>1 DEF After
  <2> QED BY <2>1
<1>5. n \in T
  <2> HIDE DEF T
  <2> QED BY <1>3, <1>4, NatInd
<1> QED BY <1>1, <1>5

LEMMA ListFacts ==
    ASSUME ListTypeOK
    PROVE  /\ \A p \in Producers : ListedFrom(p) = {p} \cup ListedFrom(next[p])
           /\ \A p \in Producers : next[p] \in Producers \cup {Null}
           /\ ListedFrom(Null) = {} /\ Null \notin Producers
           /\ \A r \in Producers \cup {Null} :
                  /\ ListedFrom(r) \subseteq Producers
                  /\ \A q \in ListedFrom(r) : /\ ListedFrom(q) \subseteq ListedFrom(r)
                                              /\ next[q] \in ListedFrom(r) \cup {Null}
<1>1. next \in [Producers -> Producers \cup {Null}] /\ Null \notin Producers
  BY ProducerListAssumption DEF ListTypeOK, ProducerOrNull
<1>2. \A p \in Producers : ListedFrom(p) = {p} \cup ListedFrom(next[p])
  BY <1>1, LinkedFromFirst DEF ListedFrom
<1>3. ListedFrom(Null) = {}
  BY <1>1, LinkedFromNull DEF ListedFrom
<1>4. ASSUME NEW r \in Producers \cup {Null}
      PROVE  /\ ListedFrom(r) \subseteq Producers
             /\ \A q \in ListedFrom(r) : /\ ListedFrom(q) \subseteq ListedFrom(r)
                                         /\ next[q] \in ListedFrom(r) \cup {Null}
  <2>1. ListedFrom(r) \subseteq Producers /\ Closed(ListedFrom(r), next, Null)
    BY <1>1, LinkedIsClosed DEF ListedFrom
  <2>2. \A q \in ListedFrom(r) : ListedFrom(q) \subseteq ListedFrom(r)
    BY <1>1, LinkedFromMember DEF ListedFrom
  <2> QED BY <2>1, <2>2 DEF Closed
<1> QED BY <1>1, <1>2, <1>3, <1>4

\* Round the list from ptr to before current.
Ahead(ptr, current, tail) ==
    IF current \in ListedFrom(ptr) THEN ListedFrom(ptr) \ ListedFrom(current)
    ELSE ListedFrom(ptr) \cup (ListedFrom(tail) \ ListedFrom(current))

LEMMA AheadStart ==
    ASSUME ListTypeOK, NEW tail \in Producers, NEW cur \in ListedFrom(tail),
           cur \notin ListedFrom(next[cur])
    PROVE  /\ After(cur, tail) \in ListedFrom(tail)
           /\ ListedFrom(tail) \ {cur} \subseteq Ahead(After(cur, tail), cur, tail)
<1>1. /\ tail \in ListedFrom(tail) /\ cur \in Producers
      /\ ListedFrom(cur) = {cur} \cup ListedFrom(next[cur])
      /\ next[cur] \in ListedFrom(tail) \cup {Null} /\ ListedFrom(Null) = {}
      /\ Null \notin Producers
  BY ListFacts
<1>2. CASE next[cur] = Null
  <2>1. After(cur, tail) = tail /\ ListedFrom(cur) = {cur}
    BY <1>1, <1>2 DEF After
  <2> QED BY <1>1, <2>1 DEF Ahead
<1>3. CASE next[cur] # Null
  <2>1. After(cur, tail) = next[cur]
    BY <1>3 DEF After
  <2> QED BY <1>1, <1>3, <2>1 DEF Ahead
<1> QED BY <1>2, <1>3

LEMMA AheadOn ==
    ASSUME ListTypeOK, NEW tail \in Producers, NEW cur \in ListedFrom(tail),
           NEW ptr \in ListedFrom(tail), ptr # cur
    PROVE  /\ After(ptr, tail) \in ListedFrom(tail)
           /\ Ahead(ptr, cur, tail) \ {ptr} \subseteq Ahead(After(ptr, tail), cur, tail)
<1>1. /\ tail \in ListedFrom(tail) /\ ptr \in Producers
      /\ ListedFrom(ptr) = {ptr} \cup ListedFrom(next[ptr])
      /\ next[ptr] \in ListedFrom(tail) \cup {Null} /\ ListedFrom(Null) = {}
      /\ Null \notin Producers
  BY ListFacts
<1>2. CASE next[ptr] = Null
  <2>1. After(ptr, tail) = tail /\ ListedFrom(ptr) = {ptr}
    BY <1>1, <1>2 DEF After
  <2> QED BY <1>1, <2>1 DEF Ahead
<1>3. CASE next[ptr] # Null
  <2>1. After(ptr, tail) = next[ptr] /\ (cur \in ListedFrom(ptr) <=> cur \in ListedFrom(next[ptr]))
    BY <1>1, <1>3 DEF After
  <2> QED BY <1>1, <1>3, <2>1 DEF Ahead
<1> QED BY <1>2, <1>3

LEMMA AheadBounds ==
    ASSUME ListTypeOK, NEW tail \in Producers, NEW cur \in ListedFrom(tail),
           NEW ptr \in ListedFrom(tail)
    PROVE  /\ Ahead(ptr, cur, tail) \subseteq ListedFrom(tail)
           /\ Ahead(cur, cur, tail) = {}
<1>1. /\ ListedFrom(ptr) \subseteq ListedFrom(tail) /\ cur \in ListedFrom(cur)
  BY ListFacts
<1> QED BY <1>1 DEF Ahead

(***************************************************************************)
(* The inductive invariant.                                                *)
(***************************************************************************)
CsStates ==
    [pc : {"out", "advance"}]
    \cup [pc : {"score"}, ptr : ProducerOrNull, nonEmpty : {0}, best : {Null}]
    \cup [pc : {"score"}, ptr : ProducerOrNull, nonEmpty : Nat \ {0},
          best : [producer : Producers, size : Nat]]
    \cup [pc : {"loadTail"}, best : Producers]
    \cup [pc : {"try"}, ptr : ProducerOrNull, best : ProducerOrNull, left : Nat]
    \cup [pc : {"rotate", "current", "walkTail"}, left : Nat, single : BOOLEAN]
    \cup [pc : {"rotateCount"}, tail : ProducerOrNull, left : Nat, single : BOOLEAN]
    \cup [pc : {"rotateMove"}, tail : ProducerOrNull, count : Nat, left : Nat, single : BOOLEAN]
    \cup [pc : {"walk"}, tail : ProducerOrNull, left : Nat, single : BOOLEAN, ptr : ProducerOrNull]

GlobalOffsets == 0 .. OffsetValues - 1
Tokens ==
    [initialOffset : GlobalOffsets, lastKnownGlobalOffset : GlobalOffsets, consumed : Nat,
     current : ProducerOrNull, desired : ProducerOrNull]

DequeueTypeOK ==
    /\ size \in [Producers -> Nat]
    /\ globalExplicitConsumerOffset \in GlobalOffsets
    /\ token \in [Consumers -> Tokens]
    /\ cs \in [Consumers -> CsStates]
    /\ unseen \in [Consumers -> SUBSET Producers]

ListIsAcyclic == \A p \in Listed : p \notin ListedFrom(next[p])

\* A consumer that is at s, has token k and has still to see the producers us: what
\* it has not seen it has still before it, and its places are on the list.
Follows(s, k, us) ==
    /\ us \subseteq Listed
    /\ k.desired # Null => k.desired \in Listed /\ k.current \in Listed
    /\ s.pc = "out" => us = {}
    /\ s.pc = "score" => /\ s.ptr \in Listed \cup {Null}
                         /\ s.nonEmpty = 0 => us \subseteq ListedFrom(s.ptr)
    /\ s.pc = "loadTail" => s.best \notin us
    /\ s.pc = "try" => /\ s.ptr \in Listed \cup {Null} /\ s.best \notin us
                       /\ us \subseteq ListedFrom(s.ptr)
    /\ s.pc \in {"rotateCount", "rotateMove"} => s.tail \in Listed
    /\ s.pc \in {"current", "walkTail", "walk"} => k.desired # Null
    /\ s.pc = "walkTail" => k.current \notin us
    /\ s.pc = "walk" => /\ s.tail \in Listed /\ s.ptr \in ListedFrom(s.tail)
                        /\ k.current \in ListedFrom(s.tail)
                        /\ us \subseteq Ahead(s.ptr, k.current, s.tail)

DequeueInv ==
    /\ DequeueTypeOK /\ ListIsAcyclic /\ ~missed
    /\ \A c \in Consumers : Follows(cs[c], token[c], unseen[c])

\* What a consumer follows is still so when the list only grows.
LEMMA FollowsStays ==
    ASSUME ListTypeOK, ListTypeOK', Listed \subseteq Listed',
           \A r \in Listed \cup {Null} : ListedFrom(r)' = ListedFrom(r),
           NEW s, NEW k, NEW us, Follows(s, k, us)
    PROVE  Follows(s, k, us)'
<1>1. /\ \A r \in Listed \cup {Null} : LinkedFrom(r, next', Null) = ListedFrom(r)
      /\ Listed \subseteq Listed'
  BY DEF ListedFrom
<1>2. \A r \in Listed : ListedFrom(r) \subseteq Listed
  BY ListedTypes
<1>3. s.pc = "walk" => s.tail \in Listed /\ s.ptr \in Listed /\ k.current \in Listed
  BY <1>2 DEF Follows
<1>4. s.pc = "walk" => Ahead(s.ptr, k.current, s.tail)' = Ahead(s.ptr, k.current, s.tail)
  BY <1>1, <1>3 DEF Ahead, ListedFrom
<1>5. /\ s.pc = "walk" => ListedFrom(s.tail)' = ListedFrom(s.tail)
      /\ s.pc = "score" => (s.ptr \in Listed \cup {Null} => ListedFrom(s.ptr)' = ListedFrom(s.ptr))
      /\ s.pc = "try" => (s.ptr \in Listed \cup {Null} => ListedFrom(s.ptr)' = ListedFrom(s.ptr))
  BY <1>1, <1>3 DEF ListedFrom
<1> QED BY <1>1, <1>4, <1>5 DEF Follows

(***************************************************************************)
(* The list only grows, at its tail.                                       *)
(***************************************************************************)
ProducersGrow ==
    /\ Listed \subseteq Listed' /\ ListIsAcyclic'
    /\ \A r \in Listed \cup {Null} : ListedFrom(r)' = ListedFrom(r)

LEMMA NextOfListedStays ==
    ASSUME ListTypeOK, ListTypeOK', ListIsAcyclic, producerListTail' = producerListTail,
           \A q \in Listed : next'[q] = next[q]
    PROVE  ProducersGrow
<1>1. Listed' = Listed /\ \A r \in Listed \cup {Null} : ListedFrom(r)' = ListedFrom(r)
  BY ListedStays
<1>2. ASSUME NEW p \in Listed PROVE p \notin ListedFrom(next[p])'
  <2>1. next[p] \in Listed \cup {Null} /\ p \notin ListedFrom(next[p])
    BY ListFacts DEF ListIsAcyclic, Listed, ListTypeOK, ProducerOrNull
  <2>2. PICK r \in Listed \cup {Null} : r = next[p] /\ next'[p] = r
    BY <2>1
  <2>3. ListedFrom(r)' = ListedFrom(r)
    BY <1>1
  <2>4. ListedFrom(next[p])' = ListedFrom(r)'
    BY <2>2 DEF ListedFrom
  <2> QED BY <2>1, <2>2, <2>3, <2>4
<1> QED BY <1>1, <1>2 DEF ProducersGrow, ListIsAcyclic

LEMMA TokenStepKeeps ==
    ASSUME ProducersInv, ProducersInv', ListIsAcyclic, NEW t \in TokenThreads, TokenStep(t)
    PROVE  ProducersGrow
<1>0. ListTypeOK /\ ListTypeOK'
  BY DEF ProducersInv
<1>1. CASE \/ RecycleLoadTail(t) \/ Recycle(t) \/ RecycleCatch(t) \/ AddCount(t)
           \/ AddFails(t) \/ EnqueueOne(t) \/ DestroyToken(t)
  <2>1. UNCHANGED <<producerListTail, next>>
    BY <1>1 DEF RecycleLoadTail, Recycle, RecycleCatch, AddCount, AddFails, EnqueueOne,
                DestroyToken, listVars
  <2> QED BY <1>0, <2>1, NextOfListedStays
<1>2. CASE AddLoadTail(t) \/ (AddLink(t) /\ next[tk[t].ptr] # producerListTail)
  <2>1. /\ tk[t].pc \in {"loadTail", "cas"} /\ producerListTail' = producerListTail
        /\ next' = [next EXCEPT ![tk[t].ptr] = producerListTail]
    BY <1>2 DEF AddLoadTail, AddLink
  <2>2. \A q \in Listed : q \in Producers /\ q # tk[t].ptr
    BY <1>0, <2>1, ListedTypes DEF ProducersInv, ListIsCounted, Adds
  <2>3. \A q \in Listed : next'[q] = next[q]
    BY <1>0, <2>1, <2>2 DEF ListTypeOK
  <2> QED BY <1>0, <2>1, <2>3, NextOfListedStays
<1>3. CASE AddLink(t) /\ next[tk[t].ptr] = producerListTail
  <2>1. tk[t].pc = "cas"
    BY <1>3 DEF AddLink
  <2>2. PICK p \in Producers : p = tk[t].ptr
    BY <1>0, <2>1, TkShapes
  <2>3. producerListTail' = p /\ next' = next /\ next[p] = producerListTail
    BY <1>3, <2>2 DEF AddLink
  <2>4. /\ Listed' = Listed \cup {p}
        /\ \A r : ListedFrom(r)' = ListedFrom(r)
    BY <1>0, <2>3, ListedGrows
  <2>5. p \notin Listed
    BY <2>1, <2>2 DEF ProducersInv, ListIsCounted, Adds
  <2>6. ASSUME NEW q \in Listed' PROVE q \notin ListedFrom(next[q])'
    <3>1. q \notin ListedFrom(next[q])
      BY <2>3, <2>4, <2>5 DEF ListIsAcyclic, Listed
    <3> QED BY <2>3, <3>1 DEF ListedFrom
  <2> QED BY <2>4, <2>6 DEF ProducersGrow, ListIsAcyclic
<1> QED BY <1>1, <1>2, <1>3 DEF TokenStep

LEMMA TokenStepSize ==
    ASSUME ListTypeOK, NEW t \in TokenThreads, TokenStep(t), size \in [Producers -> Nat]
    PROVE  UNCHANGED tokenVars /\ size' \in [Producers -> Nat]
<1>1. UNCHANGED tokenVars /\ (size' = size \/ EnqueueOne(t))
  BY DEF TokenStep, RecycleLoadTail, Recycle, RecycleCatch, AddCount, AddFails, AddLoadTail,
         AddLink, EnqueueOne, DestroyToken
<1>2. CASE EnqueueOne(t)
  <2>1. PICK p \in Producers : p = tk[t].producer
    BY <1>2, TkShapes DEF EnqueueOne
  <2>2. size' = [size EXCEPT ![p] = @ + 1] /\ size[p] \in Nat
    BY <1>2, <2>1 DEF EnqueueOne
  <2> QED BY <1>1, <2>2
<1> QED BY <1>1, <1>2

\* Steps of others than the consumers.
LEMMA OthersKeepDequeues ==
    ASSUME ListTypeOK, ListTypeOK', DequeueInv, ProducersGrow, UNCHANGED <<token, cs, unseen, missed>>,
           size' \in [Producers -> Nat], globalExplicitConsumerOffset' \in GlobalOffsets
    PROVE  DequeueInv'
<1>1. DequeueTypeOK'
  BY DEF DequeueInv, DequeueTypeOK
<1>2. ListIsAcyclic' /\ ~missed'
  BY DEF ProducersGrow, DequeueInv
<1>3. ASSUME NEW c \in Consumers PROVE Follows(cs[c], token[c], unseen[c])'
  <2>1. PICK s, k, us : s = cs[c] /\ k = token[c] /\ us = unseen[c]
    OBVIOUS
  <2>2. Follows(s, k, us)
    BY <2>1 DEF DequeueInv
  <2>3. Follows(s, k, us)'
    BY <2>2, FollowsStays DEF ProducersGrow
  <2>4. s = cs'[c] /\ k = token'[c] /\ us = unseen'[c]
    BY <2>1
  <2> QED BY <2>3, <2>4 DEF Follows
<1> QED BY <1>1, <1>2, <1>3 DEF DequeueInv

\* A step of consumer c that brings it to s, with token k and us still to see.
Moves(c, s, k, us) ==
    /\ ProducersUnchanged /\ missed' = FALSE
    /\ cs' = [cs EXCEPT ![c] = s] /\ s \in CsStates
    /\ token' = [token EXCEPT ![c] = k] /\ k \in Tokens
    /\ unseen' = [unseen EXCEPT ![c] = us]
    /\ size' \in [Producers -> Nat] /\ globalExplicitConsumerOffset' \in GlobalOffsets

LEMMA ConsumerKeeps ==
    ASSUME ListTypeOK, DequeueInv, NEW c \in Consumers, NEW s, NEW k, NEW us,
           Moves(c, s, k, us), Follows(s, k, us)
    PROVE  DequeueInv'
<1>1. /\ producerListTail' = producerListTail /\ next' = next
      /\ cs \in [Consumers -> CsStates] /\ token \in [Consumers -> Tokens]
      /\ unseen \in [Consumers -> SUBSET Producers]
  BY DEF Moves, ProducersUnchanged, listVars, DequeueInv, DequeueTypeOK
<1>2. ListTypeOK' /\ Listed' = Listed /\ \A r : ListedFrom(r)' = ListedFrom(r)
  BY <1>1 DEF Moves, ProducersUnchanged, listVars, ListTypeOK, Listed, ListedFrom
<1>3. ListIsAcyclic'
  BY <1>1, <1>2 DEF DequeueInv, ListIsAcyclic, ListedFrom
<1>4. us \in SUBSET Producers
  BY ListedTypes DEF Follows
<1>5. /\ cs'[c] = s /\ token'[c] = k /\ unseen'[c] = us
      /\ \A d \in Consumers \ {c} : cs'[d] = cs[d] /\ token'[d] = token[d] /\ unseen'[d] = unseen[d]
  BY <1>1 DEF Moves
<1>6. DequeueTypeOK'
  BY <1>1, <1>4 DEF Moves, DequeueTypeOK
<1>7. ASSUME NEW d \in Consumers PROVE Follows(cs[d], token[d], unseen[d])'
  <2>1. PICK s1, k1, us1 : s1 = cs'[d] /\ k1 = token'[d] /\ us1 = unseen'[d]
    OBVIOUS
  <2>2. Follows(s1, k1, us1)
    <3>1. CASE d = c
      BY <1>5, <2>1, <3>1
    <3>2. CASE d # c
      BY <1>5, <2>1, <3>2 DEF DequeueInv
    <3> QED BY <3>1, <3>2
  <2>3. Follows(s1, k1, us1)'
    BY <1>2, <2>2, FollowsStays
  <2> QED BY <2>1, <2>3 DEF Follows
<1> QED BY <1>3, <1>6, <1>7 DEF DequeueInv, Moves

(***************************************************************************)
(* The steps of a consumer.                                                *)
(***************************************************************************)
LEMMA CsShapes ==
    ASSUME DequeueTypeOK, NEW c \in Consumers
    PROVE  /\ cs[c].pc = "score" =>
                  /\ cs[c].ptr \in ProducerOrNull /\ cs[c].nonEmpty \in Nat
                  /\ cs[c].nonEmpty = 0 =>
                         cs[c] \in [pc : {"score"}, ptr : ProducerOrNull, nonEmpty : {0}, best : {Null}]
                  /\ cs[c].nonEmpty # 0 =>
                         cs[c] \in [pc : {"score"}, ptr : ProducerOrNull, nonEmpty : Nat \ {0},
                                   best : [producer : Producers, size : Nat]]
           /\ cs[c].pc = "loadTail" => cs[c].best \in Producers
           /\ cs[c].pc = "try" =>
                  cs[c] \in [pc : {"try"}, ptr : ProducerOrNull, best : ProducerOrNull, left : Nat]
           /\ cs[c].pc \in {"rotate", "current", "walkTail"} =>
                  cs[c].left \in Nat /\ cs[c].single \in BOOLEAN
           /\ cs[c].pc = "rotateCount" =>
                  cs[c].tail \in ProducerOrNull /\ cs[c].left \in Nat /\ cs[c].single \in BOOLEAN
           /\ cs[c].pc = "rotateMove" => /\ cs[c].tail \in ProducerOrNull /\ cs[c].left \in Nat
                                         /\ cs[c].single \in BOOLEAN /\ cs[c].count \in Nat
           /\ cs[c].pc = "walk" =>
                  cs[c] \in [pc : {"walk"}, tail : ProducerOrNull, left : Nat, single : BOOLEAN,
                             ptr : ProducerOrNull]
<1>1. cs[c] \in CsStates
  BY DEF DequeueTypeOK
<1> QED BY <1>1 DEF CsStates

LEMMA MinOfTwo ==
    ASSUME NEW a \in Int, NEW b \in Int
    PROVE  Min({a, b}) = IF a <= b THEN a ELSE b
<1>1. \E x \in {a, b} : \A y \in {a, b} : x <= y
  OBVIOUS
<1> QED BY <1>1 DEF Min

LEMMA GotIs ==
    ASSUME DequeueTypeOK, NEW p \in Producers, NEW left \in Nat
    PROVE  /\ size[p] \in Nat /\ Got(p, left) \in Nat /\ size[p] - Got(p, left) \in Nat
           /\ left - Got(p, left) \in Nat
           /\ Got(p, left) = IF size[p] <= left THEN size[p] ELSE left
<1>1. size[p] \in Nat
  BY DEF DequeueTypeOK
<1>2. Got(p, left) = IF size[p] <= left THEN size[p] ELSE left
  BY <1>1, MinOfTwo DEF Got
<1> QED BY <1>1, <1>2

\* What a dequeue from p leaves.
LEMMA SizeAfter ==
    ASSUME DequeueTypeOK, NEW p \in Producers, NEW left \in Nat,
           size' = [size EXCEPT ![p] = @ - Got(p, left)]
    PROVE  size' \in [Producers -> Nat]
<1>1. PICK m \in Nat : m = size[p] - Got(p, left)
  BY GotIs
<1>2. size' = [size EXCEPT ![p] = m] /\ size \in [Producers -> Nat]
  BY <1>1 DEF DequeueTypeOK
<1> QED BY <1>2

\* A consumer that leaves its token, or what is to be seen, as it was.
LEMMA SameEntries ==
    ASSUME DequeueTypeOK, NEW c \in Consumers
    PROVE  /\ token[c] \in Tokens /\ token = [token EXCEPT ![c] = token[c]]
           /\ unseen[c] \subseteq Producers /\ unseen = [unseen EXCEPT ![c] = unseen[c]]
  BY DEF DequeueTypeOK

LEMMA UnseenBecomes ==
    ASSUME DequeueTypeOK, NEW c \in Consumers, NEW s, CsGoto(c, s), NEW ps, Unseen(c, ps)
    PROVE  unseen' = [unseen EXCEPT ![c] = IF s.pc = "out" THEN {} ELSE ps]
<1>1. cs'[c] = s
  BY DEF CsGoto, DequeueTypeOK
<1> QED BY <1>1 DEF Unseen

LEMMA CallKeeps ==
    ASSUME ListTypeOK, DequeueInv, NEW c \in Consumers, NEW s \in CsStates, Call(c, s),
           s.pc # "out",
           Follows(s, token[c], Listed)
    PROVE  DequeueInv'
<1>1. DequeueTypeOK
  BY DEF DequeueInv
<1>2. unseen' = [unseen EXCEPT ![c] = Listed]
  BY <1>1, UnseenBecomes DEF Call, Listed
<1>3. Moves(c, s, token[c], Listed)
  BY <1>1, <1>2, SameEntries DEF Call, CsGoto, Moves, DequeueInv, DequeueTypeOK
<1> QED BY <1>3, ConsumerKeeps

LEMMA CallSteps ==
    ASSUME ListTypeOK, DequeueInv, NEW c \in Consumers,
           \/ TryDequeue(c)
           \/ \E max \in Counts \cup {1} : TryInOrder(c, max)
           \/ TokenCall(c, 1, TRUE)
           \/ \E max \in Counts : TokenCall(c, max, FALSE)
    PROVE  DequeueInv'
<1>0. /\ producerListTail \in ProducerOrNull /\ producerListTail \in Listed \cup {Null}
      /\ Listed = ListedFrom(producerListTail) /\ Null \notin Listed
      /\ Listed \subseteq Listed
      /\ token[c].desired # Null => token[c].desired \in Listed /\ token[c].current \in Listed
  BY ListedTypes, ListFacts DEF ListTypeOK, Listed, DequeueInv, Follows
<1>1. \A max \in Counts \cup {1} : max \in Nat
  BY ProducerListAssumption
<1>2. CASE TryDequeue(c)
  <2> DEFINE s == [pc |-> "score", ptr |-> producerListTail, nonEmpty |-> 0, best |-> Null]
  <2>1. s \in CsStates
    BY <1>0 DEF CsStates
  <2>2. Follows(s, token[c], Listed)
    BY <1>0 DEF Follows
  <2> QED BY <1>2, <2>1, <2>2, CallKeeps DEF TryDequeue
<1>3. ASSUME NEW max \in Counts \cup {1}, TryInOrder(c, max) PROVE DequeueInv'
  <2> DEFINE s == [pc |-> "try", ptr |-> producerListTail, best |-> Null, left |-> max]
  <2>1. s \in CsStates
    BY <1>0, <1>1 DEF CsStates, ProducerOrNull
  <2>2. Follows(s, token[c], Listed)
    BY <1>0 DEF Follows
  <2> QED BY <1>3, <2>1, <2>2, CallKeeps DEF TryInOrder
<1>4. ASSUME NEW max \in Counts \cup {1}, NEW single \in BOOLEAN, TokenCall(c, max, single)
      PROVE  DequeueInv'
  <2>1. PICK pc \in {"rotate", "current"} :
            /\ Call(c, [pc |-> pc, left |-> max, single |-> single])
            /\ pc = "current" => token[c].desired # Null
    BY <1>4 DEF TokenCall
  <2> DEFINE s == [pc |-> pc, left |-> max, single |-> single]
  <2>2. s \in CsStates
    BY <1>1 DEF CsStates
  <2>3. Follows(s, token[c], Listed)
    BY <1>0, <2>1 DEF Follows
  <2> QED BY <2>1, <2>2, <2>3, CallKeeps
<1> QED BY <1>2, <1>3, <1>4

\* A call that falls short has nothing left to see.
LEMMA FallShortKeeps ==
    ASSUME ListTypeOK, DequeueInv, NEW c \in Consumers, FallShort(c), unseen[c] = {},
           ProducersUnchanged, UNCHANGED <<globalExplicitConsumerOffset, token>>
    PROVE  DequeueInv'
<1>1. DequeueTypeOK /\ missed = FALSE /\ Follows(cs[c], token[c], unseen[c])
  BY DEF DequeueInv
<1>2. unseen' = [unseen EXCEPT ![c] = {}]
  BY <1>1, UnseenBecomes DEF FallShort, OffList
<1>3. missed' = FALSE
  BY <1>1 DEF FallShort
<1>4. OffList \in CsStates
  BY DEF OffList, CsStates
<1>5. Moves(c, OffList, token[c], {})
  BY <1>1, <1>2, <1>3, <1>4, SameEntries DEF FallShort, CsGoto, Moves, DequeueTypeOK
<1>6. Follows(OffList, token[c], {})
  BY <1>1 DEF Follows, OffList
<1> QED BY <1>5, <1>6, ConsumerKeeps

Left(c, p, left, s) ==
    IF s.pc = "out" THEN {} ELSE IF Got(p, left) < left THEN unseen[c] \ {p} ELSE unseen[c]

LEMMA DequeueKeeps ==
    ASSUME ListTypeOK, DequeueInv, NEW c \in Consumers, NEW p \in Producers, NEW left \in Nat,
           NEW s \in CsStates, DequeueFrom(c, p, left, s), NEW k \in Tokens,
           token' = [token EXCEPT ![c] = k],
           ProducersUnchanged, UNCHANGED globalExplicitConsumerOffset,
           Follows(s, k, Left(c, p, left, s))
    PROVE  DequeueInv'
<1>1. DequeueTypeOK /\ missed = FALSE
  BY DEF DequeueInv
<1>2. unseen' = [unseen EXCEPT ![c] = Left(c, p, left, s)]
  BY <1>1, UnseenBecomes DEF DequeueFrom, Left
<1>3. size' \in [Producers -> Nat]
  BY <1>1, SizeAfter DEF DequeueFrom
<1>4. Moves(c, s, k, Left(c, p, left, s))
  BY <1>1, <1>2, <1>3 DEF DequeueFrom, CsGoto, Moves, DequeueTypeOK
<1> QED BY <1>4, ConsumerKeeps

LEMMA ScoreGoesOn ==
    ASSUME NEW R, NEW N, NEW B, NEW r \in [pc : {"score"}, ptr : R, nonEmpty : N, best : B],
           NEW M, NEW C, NEW np \in R, NEW m \in M, NEW b \in C
    PROVE  LET s == [r EXCEPT !.ptr = np, !.nonEmpty = m, !.best = b]
           IN  s \in [pc : {"score"}, ptr : R, nonEmpty : M, best : C] /\ s.ptr = np
  OBVIOUS

LEMMA ScoreKeeps ==
    ASSUME ListTypeOK, DequeueInv, NEW c \in Consumers, Score(c)
    PROVE  DequeueInv'
<1>0. DequeueTypeOK /\ missed = FALSE /\ Follows(cs[c], token[c], unseen[c])
  BY DEF DequeueInv
<1>1. /\ cs[c].pc = "score" /\ cs[c].ptr # Null /\ cs[c].ptr \in Listed \cup {Null}
      /\ cs[c].nonEmpty \in Nat
  BY <1>0, CsShapes DEF Score, Follows
<1>2. PICK p \in Producers : p = cs[c].ptr
  BY <1>1, ListedTypes
<1>3. /\ next[p] \in Listed \cup {Null} /\ next[p] \in ProducerOrNull
      /\ ListedFrom(p) = {p} \cup ListedFrom(next[p]) /\ size[p] \in Nat
  BY <1>0, <1>1, <1>2, ListFacts DEF DequeueTypeOK, Listed, ListTypeOK, ProducerOrNull
<1>4. CASE size[p] > 0
  <2> DEFINE b == IF cs[c].best = Null \/ size[p] > cs[c].best.size
                  THEN [producer |-> p, size |-> size[p]] ELSE cs[c].best
             s == [cs[c] EXCEPT !.ptr = next[p], !.nonEmpty = @ + 1, !.best = b]
  <2>1. CsGoto(c, s) /\ UNCHANGED unseen
    BY <1>2, <1>4 DEF Score
  <2>2. b \in [producer : Producers, size : Nat]
    <3>1. CASE cs[c].nonEmpty = 0
      <4>1. cs[c].best = Null
        BY <1>0, <1>1, <3>1, CsShapes
      <4> QED BY <1>3, <4>1
    <3>2. CASE cs[c].nonEmpty # 0
      <4>1. cs[c].best \in [producer : Producers, size : Nat]
        BY <1>0, <1>1, <3>2, CsShapes
      <4> QED BY <1>3, <4>1
    <3> QED BY <3>1, <3>2
  <2> HIDE DEF b
  <2>8. PICK m \in Nat \ {0}, np \in ProducerOrNull : m = cs[c].nonEmpty + 1 /\ np = next[p]
    BY <1>1, <1>3
  <2>3. s = [cs[c] EXCEPT !.ptr = np, !.nonEmpty = m, !.best = b]
    BY <2>8
  <2>4. s \in [pc : {"score"}, ptr : ProducerOrNull, nonEmpty : Nat \ {0},
               best : [producer : Producers, size : Nat]] /\ s.ptr = np
    <3>1. PICK N, B : cs[c] \in [pc : {"score"}, ptr : ProducerOrNull, nonEmpty : N, best : B]
      <4>1. CASE cs[c].nonEmpty = 0
        BY <1>0, <1>1, <4>1, CsShapes
      <4>2. CASE cs[c].nonEmpty # 0
        BY <1>0, <1>1, <4>2, CsShapes
      <4> QED BY <4>1, <4>2
    <3> HIDE DEF s
    <3>2. PICK r \in [pc : {"score"}, ptr : ProducerOrNull, nonEmpty : N, best : B] : r = cs[c]
      BY <3>1
    <3>3. s = [r EXCEPT !.ptr = np, !.nonEmpty = m, !.best = b]
      BY <2>3, <3>2
    <3> QED BY <2>2, <3>3, ScoreGoesOn
  <2> HIDE DEF s
  <2>5. s \in CsStates
    BY <2>4 DEF CsStates
  <2>6. Follows(s, token[c], unseen[c])
    BY <1>0, <1>3, <2>8, <2>4 DEF Follows
  <2>7. Moves(c, s, token[c], unseen[c])
    BY <1>0, <2>1, <2>5, SameEntries DEF Score, CsGoto, Moves, DequeueTypeOK
  <2> QED BY <2>6, <2>7, ConsumerKeeps
<1>5. CASE ~(size[p] > 0)
  <2> DEFINE s == [cs[c] EXCEPT !.ptr = next[p]]
  <2>1. CsGoto(c, s) /\ Unseen(c, unseen[c] \ {p})
    BY <1>2, <1>5 DEF Score
  <2>2. s \in CsStates /\ s.pc = "score" /\ s.ptr = next[p] /\ s.nonEmpty = cs[c].nonEmpty
    <3>1. CASE cs[c].nonEmpty = 0
      BY <1>0, <1>1, <1>3, <3>1, CsShapes DEF CsStates
    <3>2. CASE cs[c].nonEmpty # 0
      BY <1>0, <1>1, <1>3, <3>2, CsShapes DEF CsStates
    <3> QED BY <3>1, <3>2
  <2> HIDE DEF s
  <2>3. unseen' = [unseen EXCEPT ![c] = unseen[c] \ {p}]
    BY <1>0, <2>1, <2>2, UnseenBecomes
  <2>4. Follows(s, token[c], unseen[c] \ {p})
    BY <1>0, <1>1, <1>2, <1>3, <2>2 DEF Follows
  <2>5. Moves(c, s, token[c], unseen[c] \ {p})
    BY <1>0, <2>1, <2>2, <2>3, SameEntries DEF Score, CsGoto, Moves, DequeueTypeOK
  <2> QED BY <2>4, <2>5, ConsumerKeeps
<1> QED BY <1>4, <1>5

LEMMA TryBestKeeps ==
    ASSUME ListTypeOK, DequeueInv, NEW c \in Consumers, TryBest(c)
    PROVE  DequeueInv'
<1>0. DequeueTypeOK /\ missed = FALSE /\ Follows(cs[c], token[c], unseen[c])
  BY DEF DequeueInv
<1>1. /\ cs[c].pc = "score" /\ (cs[c].nonEmpty = 3 \/ cs[c].ptr = Null)
      /\ ProducersUnchanged /\ UNCHANGED <<globalExplicitConsumerOffset, token>>
  BY DEF TryBest
<1>2. CASE cs[c].nonEmpty = 0
  <2>1. FallShort(c) /\ cs[c].ptr = Null
    BY <1>1, <1>2 DEF TryBest
  <2>2. unseen[c] = {}
    BY <1>0, <1>1, <1>2, <2>1, ListFacts DEF Follows
  <2> QED BY <1>1, <2>1, <2>2, FallShortKeeps
<1>3. CASE cs[c].nonEmpty # 0
  <2>1. PICK p \in Producers : p = cs[c].best.producer
    BY <1>0, <1>1, <1>3, CsShapes
  <2> DEFINE s == IF size[p] > 0 THEN OffList ELSE [pc |-> "loadTail", best |-> p]
  <2>2. DequeueFrom(c, p, 1, s)
    BY <1>3, <2>1 DEF TryBest
  <2>3. s \in CsStates
    BY DEF OffList, CsStates
  <2>4. Follows(s, token[c], Left(c, p, 1, s))
    <3>1. CASE size[p] > 0
      <4>1. s = OffList /\ Left(c, p, 1, s) = {}
        BY <3>1 DEF Left, OffList
      <4> QED BY <1>0, <4>1 DEF Follows, OffList
    <3>2. CASE ~(size[p] > 0)
      <4>1. size[p] \in Nat /\ Got(p, 1) = IF size[p] <= 1 THEN size[p] ELSE 1
        BY <1>0, GotIs
      <4>2. s = [pc |-> "loadTail", best |-> p] /\ Got(p, 1) < 1
        BY <3>2, <4>1
      <4>3. Left(c, p, 1, s) = unseen[c] \ {p}
        BY <4>2 DEF Left
      <4> QED BY <1>0, <4>2, <4>3 DEF Follows
    <3> QED BY <3>1, <3>2
  <2> HIDE DEF s
  <2>5. token[c] \in Tokens /\ token' = [token EXCEPT ![c] = token[c]]
    BY <1>0, <1>1, SameEntries
  <2> QED BY <1>1, <2>2, <2>3, <2>4, <2>5, DequeueKeeps
<1> QED BY <1>2, <1>3

LEMMA TryLoadTailKeeps ==
    ASSUME ListTypeOK, DequeueInv, NEW c \in Consumers, TryLoadTail(c)
    PROVE  DequeueInv'
<1>0. DequeueTypeOK /\ missed = FALSE /\ Follows(cs[c], token[c], unseen[c])
  BY DEF DequeueInv
<1>1. PICK b \in Producers : b = cs[c].best
  BY <1>0, CsShapes DEF TryLoadTail
<1> DEFINE s == [pc |-> "try", ptr |-> producerListTail, best |-> b, left |-> 1]
<1>2. s \in CsStates
  BY DEF CsStates, ListTypeOK, ProducerOrNull
<1>3. Follows(s, token[c], unseen[c])
  <2>1. b \notin unseen[c] /\ unseen[c] \subseteq Listed
    BY <1>0, <1>1 DEF Follows, TryLoadTail
  <2>2. producerListTail \in Listed \cup {Null} /\ Listed = ListedFrom(producerListTail)
    BY ListedTypes DEF Listed
  <2> QED BY <1>0, <2>1, <2>2 DEF Follows
<1>4. Moves(c, s, token[c], unseen[c])
  BY <1>0, <1>1, <1>2, SameEntries DEF TryLoadTail, CsGoto, Moves, DequeueTypeOK
<1> QED BY <1>3, <1>4, ConsumerKeeps

LEMMA TryNextKeeps ==
    ASSUME ListTypeOK, DequeueInv, NEW c \in Consumers, TryNext(c)
    PROVE  DequeueInv'
<1>0. DequeueTypeOK /\ missed = FALSE /\ Follows(cs[c], token[c], unseen[c])
  BY DEF DequeueInv
<1>1. /\ cs[c].pc = "try" /\ ProducersUnchanged
      /\ UNCHANGED <<globalExplicitConsumerOffset, token>>
  BY DEF TryNext
<1>2. cs[c] \in [pc : {"try"}, ptr : ProducerOrNull, best : ProducerOrNull, left : Nat]
  BY <1>0, <1>1, CsShapes
<1>3. /\ cs[c].ptr \in Listed \cup {Null} /\ cs[c].best \notin unseen[c]
      /\ unseen[c] \subseteq ListedFrom(cs[c].ptr)
  BY <1>0, <1>1 DEF Follows
<1>4. token[c] \in Tokens /\ token' = [token EXCEPT ![c] = token[c]]
  BY <1>0, <1>1, SameEntries
<1>5. CASE cs[c].ptr = Null
  <2>1. FallShort(c) /\ unseen[c] = {}
    BY <1>3, <1>5, ListFacts DEF TryNext
  <2> QED BY <1>1, <2>1, FallShortKeeps
<1>6. CASE cs[c].ptr # Null
  <2>1. PICK p \in Producers : p = cs[c].ptr
    BY <1>3, <1>6, ListedTypes
  <2>2. /\ next[p] \in Listed \cup {Null} /\ next[p] \in ProducerOrNull
        /\ ListedFrom(p) = {p} \cup ListedFrom(next[p]) /\ size[p] \in Nat
    BY <1>0, <1>3, <1>6, <2>1, ListFacts DEF DequeueTypeOK, Listed, ListTypeOK, ProducerOrNull
  <2>3. CASE p = cs[c].best
    <3> DEFINE s == [cs[c] EXCEPT !.ptr = next[p]]
    <3>1. CsGoto(c, s) /\ UNCHANGED <<size, unseen, missed>>
      BY <1>6, <2>1, <2>3 DEF TryNext
    <3>2. /\ s \in CsStates /\ s.pc = "try" /\ s.ptr = next[p] /\ s.best = p
      BY <1>2, <2>2, <2>3 DEF CsStates
    <3> HIDE DEF s
    <3>3. Follows(s, token[c], unseen[c])
      BY <1>0, <1>3, <2>1, <2>2, <2>3, <3>2 DEF Follows
    <3>4. Moves(c, s, token[c], unseen[c])
      BY <1>0, <1>1, <1>4, <3>1, <3>2, SameEntries DEF CsGoto, Moves, DequeueTypeOK
    <3> QED BY <3>3, <3>4, ConsumerKeeps
  <2>4. CASE p # cs[c].best
    <3> DEFINE l == cs[c].left
               s == IF size[p] >= l THEN OffList
                    ELSE [cs[c] EXCEPT !.ptr = next[p], !.left = @ - size[p]]
    <3>1. DequeueFrom(c, p, l, s)
      BY <1>6, <2>1, <2>4 DEF TryNext
    <3>2. l \in Nat /\ Got(p, l) = IF size[p] <= l THEN size[p] ELSE l
      BY <1>0, <1>2, GotIs
    <3>3. s \in CsStates
      <4>1. CASE size[p] >= l
        BY <4>1 DEF CsStates, OffList
      <4>2. CASE ~(size[p] >= l)
        <5>1. l - size[p] \in Nat
          BY <2>2, <3>2, <4>2
        <5> QED BY <1>2, <2>2, <4>2, <5>1 DEF CsStates
      <4> QED BY <4>1, <4>2
    <3>4. Follows(s, token[c], Left(c, p, l, s))
      <4>1. CASE size[p] >= l
        <5>1. s = OffList /\ Left(c, p, l, s) = {}
          BY <4>1 DEF Left, OffList
        <5> QED BY <1>0, <5>1 DEF Follows, OffList
      <4>2. CASE ~(size[p] >= l)
        <5>1. Got(p, l) < l
          BY <2>2, <3>2, <4>2
        <5>2. s.pc = "try" /\ s.ptr = next[p] /\ s.best = cs[c].best
          BY <1>2, <4>2
        <5> HIDE DEF s
        <5>3. Left(c, p, l, s) = unseen[c] \ {p}
          BY <5>1, <5>2 DEF Left
        <5> QED BY <1>0, <1>3, <2>1, <2>2, <5>2, <5>3 DEF Follows
      <4> QED BY <4>1, <4>2
    <3> HIDE DEF s, l
    <3> QED BY <1>1, <1>4, <3>1, <3>2, <3>3, <3>4, DequeueKeeps
  <2> QED BY <2>3, <2>4
<1> QED BY <1>5, <1>6

LEMMA RotateLoadTailKeeps ==
    ASSUME ListTypeOK, DequeueInv, NEW c \in Consumers, RotateLoadTail(c)
    PROVE  DequeueInv'
<1>0. DequeueTypeOK /\ missed = FALSE /\ Follows(cs[c], token[c], unseen[c])
  BY DEF DequeueInv
<1>1. /\ ProducersUnchanged /\ UNCHANGED <<globalExplicitConsumerOffset, token>>
      /\ cs[c].pc = "rotate"
  BY DEF RotateLoadTail
<1>2. /\ producerListTail \in Listed \cup {Null} /\ producerListTail \in ProducerOrNull
      /\ producerListTail = Null => Listed = {}
      /\ Null \notin Listed
  BY ListedTypes, ListFacts DEF Listed, ListTypeOK
<1>3. CASE token[c].desired = Null /\ producerListTail = Null
  <2>1. FallShort(c) /\ unseen[c] = {}
    BY <1>0, <1>2, <1>3 DEF RotateLoadTail, Follows
  <2> QED BY <1>1, <2>1, FallShortKeeps
<1>4. CASE ~(token[c].desired = Null /\ producerListTail = Null)
  <2>1. PICK left \in Nat, single \in BOOLEAN : left = cs[c].left /\ single = cs[c].single
    BY <1>0, <1>1, CsShapes
  <2> DEFINE s == [pc |-> "rotateCount", tail |-> producerListTail, left |-> left, single |-> single]
  <2>2. CsGoto(c, s) /\ UNCHANGED <<size, unseen, missed>>
    BY <1>4, <2>1 DEF RotateLoadTail
  <2>3. s \in CsStates
    BY <1>2 DEF CsStates
  <2>4. Follows(s, token[c], unseen[c])
    BY <1>0, <1>2, <1>4 DEF Follows
  <2>5. Moves(c, s, token[c], unseen[c])
    BY <1>0, <1>1, <2>2, <2>3, SameEntries DEF CsGoto, Moves, DequeueTypeOK
  <2> QED BY <2>4, <2>5, ConsumerKeeps
<1> QED BY <1>3, <1>4

LEMMA RotateLoadCountKeeps ==
    ASSUME ListTypeOK, DequeueInv, NEW c \in Consumers, RotateLoadCount(c)
    PROVE  DequeueInv'
<1>0. DequeueTypeOK /\ missed = FALSE /\ Follows(cs[c], token[c], unseen[c])
  BY DEF DequeueInv
<1>1. cs[c].pc = "rotateCount"
  BY DEF RotateLoadCount
<1>2. PICK tail \in ProducerOrNull, left \in Nat, single \in BOOLEAN :
          tail = cs[c].tail /\ left = cs[c].left /\ single = cs[c].single
  BY <1>0, <1>1, CsShapes
<1> DEFINE s == [pc |-> "rotateMove", tail |-> tail, count |-> producerCount,
                 left |-> left, single |-> single]
<1>3. s \in CsStates
  BY DEF CsStates, ListTypeOK
<1>4. Follows(s, token[c], unseen[c])
  BY <1>0, <1>1, <1>2 DEF Follows
<1>5. Moves(c, s, token[c], unseen[c])
  BY <1>0, <1>2, <1>3, SameEntries DEF RotateLoadCount, CsGoto, Moves, DequeueTypeOK
<1> QED BY <1>4, <1>5, ConsumerKeeps

LEMMA ModBounds ==
    ASSUME NEW a \in Int, NEW b \in Nat \ {0}
    PROVE  a % b \in 0 .. b - 1
  OBVIOUS

\* The place a rotation gives a consumer is on the list.
LEMMA PlaceIsListed ==
    ASSUME ProducersInv, NEW tail \in Listed, NEW count \in Nat,
           \A p \in ListedFrom(tail) : p <= count,
           NEW k \in Tokens, k.desired # Null => k.desired \in Listed,
           NEW offset \in GlobalOffsets
    PROVE  LET start == IF k.desired = Null
                        THEN Onwards(tail, tail, count - 1 - (k.initialOffset % count))
                        ELSE k.desired
               delta == (offset - k.lastKnownGlobalOffset) % OffsetValues
           IN  Onwards(start, tail, delta % count) \in Listed
<1>1. ListTypeOK
  BY DEF ProducersInv
<1>2. \A q \in Listed : next[q] \in Listed \cup {Null}
  BY <1>1, ListFacts DEF Listed, ListTypeOK, ProducerOrNull
<1>3. count \in Nat \ {0}
  <2>1. tail \in ListedFrom(tail) /\ tail \in Producers
    BY <1>1, ListedTypes, ListFacts
  <2>2. tail \in Nat \ {0} /\ tail <= count
    BY <2>1, ProducerListAssumption
  <2> QED BY <2>2
<1>4. /\ k.initialOffset \in Int /\ offset - k.lastKnownGlobalOffset \in Int
      /\ OffsetValues \in Nat \ {0}
  BY ProducerListAssumption DEF Tokens, GlobalOffsets
<1>5. PICK i \in 0 .. count - 1 : i = k.initialOffset % count
  BY <1>3, <1>4, ModBounds
<1>6. PICK d \in 0 .. OffsetValues - 1 : d = (offset - k.lastKnownGlobalOffset) % OffsetValues
  BY <1>4, ModBounds
<1>7. PICK n \in 0 .. count - 1 : n = d % count
  <2>1. d \in Int
    BY <1>4
  <2> QED BY <1>3, <2>1, ModBounds
<1>8. count - 1 - i \in Nat /\ n \in Nat
  BY <1>3
<1>9. PICK start \in Listed :
          start = IF k.desired = Null THEN Onwards(tail, tail, count - 1 - i) ELSE k.desired
  <2>1. Onwards(tail, tail, count - 1 - i) \in Listed
    BY <1>2, <1>8, OnwardsStays
  <2> QED BY <2>1
<1>10. Onwards(start, tail, n) \in Listed
  BY <1>2, <1>8, OnwardsStays
<1> QED BY <1>5, <1>6, <1>7, <1>9, <1>10

LEMMA RotateMoveKeeps ==
    ASSUME ProducersInv, DequeueInv, NEW c \in Consumers, RotateMove(c)
    PROVE  DequeueInv'
<1>0. ListTypeOK /\ DequeueTypeOK /\ missed = FALSE /\ Follows(cs[c], token[c], unseen[c])
  BY DEF DequeueInv, ProducersInv
<1>1. cs[c].pc = "rotateMove"
  BY DEF RotateMove
<1>2. PICK tail \in ProducerOrNull, count \in Nat, left \in Nat, single \in BOOLEAN :
          /\ tail = cs[c].tail /\ count = cs[c].count
          /\ left = cs[c].left /\ single = cs[c].single
  BY <1>0, <1>1, CsShapes
<1>3. tail \in Listed /\ \A p \in ListedFrom(tail) : p <= count
  <2>1. PlaceIsCounted(c)
    BY DEF ProducersInv
  <2> QED BY <1>0, <1>1, <1>2, <2>1 DEF Follows, PlaceIsCounted
<1>4. PICK k0 \in Tokens : k0 = token[c]
  BY <1>0, SameEntries
<1> DEFINE offset == globalExplicitConsumerOffset
           start == IF k0.desired = Null
                    THEN Onwards(tail, tail, count - 1 - (k0.initialOffset % count))
                    ELSE k0.desired
           delta == (offset - k0.lastKnownGlobalOffset) % OffsetValues
<1>5. PICK place \in Listed : place = Onwards(start, tail, delta % count)
  <2>1. k0.desired # Null => k0.desired \in Listed
    BY <1>0, <1>4 DEF Follows
  <2>2. offset \in GlobalOffsets
    BY <1>0 DEF DequeueTypeOK
  <2> QED BY <1>3, <2>1, <2>2, PlaceIsListed
<1>6. place \in Producers /\ place # Null
  BY <1>0, ListedTypes, ListFacts
<1> DEFINE s == [pc |-> "current", left |-> left, single |-> single]
           k == [k0 EXCEPT !.lastKnownGlobalOffset = offset, !.consumed = 0,
                           !.desired = place, !.current = place]
<1>7. /\ CsGoto(c, s) /\ ProducersUnchanged
      /\ UNCHANGED <<size, globalExplicitConsumerOffset, unseen, missed>>
  BY <1>2 DEF RotateMove
<1>8. token' = [token EXCEPT ![c].lastKnownGlobalOffset = offset, ![c].consumed = 0,
                             ![c].desired = place, ![c].current = place]
  BY <1>2, <1>4, <1>5 DEF RotateMove
<1>9. token' = [token EXCEPT ![c] = k]
  <2> HIDE DEF offset
  <2> QED BY <1>0, <1>4, <1>8 DEF DequeueTypeOK
<1>10. offset \in GlobalOffsets
  BY <1>0 DEF DequeueTypeOK
<1> HIDE DEF start, delta, offset
<1>11. k \in Tokens /\ k.desired = place /\ k.current = place
  BY <1>6, <1>10 DEF Tokens, ProducerOrNull
<1> HIDE DEF k
<1>12. s \in CsStates
  BY DEF CsStates
<1>13. Follows(s, k, unseen[c])
  BY <1>0, <1>6, <1>11 DEF Follows
<1>14. Moves(c, s, k, unseen[c])
  BY <1>0, <1>7, <1>9, <1>11, <1>12, SameEntries DEF CsGoto, Moves, DequeueTypeOK
<1> QED BY <1>0, <1>13, <1>14, ConsumerKeeps

LEMMA ConsumeIs ==
    ASSUME NEW consumed \in Nat, NEW n \in Nat
    PROVE  Consume(consumed, n) \in Nat
<1>1. consumed + n \in Nat /\ Quota + 1 \in Nat
  BY ProducerListAssumption
<1> QED BY <1>1, MinOfTwo DEF Consume

LEMMA FromCurrentKeeps ==
    ASSUME ListTypeOK, DequeueInv, NEW c \in Consumers, FromCurrent(c)
    PROVE  DequeueInv'
<1>0. DequeueTypeOK /\ missed = FALSE /\ Follows(cs[c], token[c], unseen[c])
  BY DEF DequeueInv
<1>1. cs[c].pc = "current"
  BY DEF FromCurrent
<1>2. PICK left \in Nat, single \in BOOLEAN : left = cs[c].left /\ single = cs[c].single
  BY <1>0, <1>1, CsShapes
<1>3. PICK k0 \in Tokens : k0 = token[c]
  BY <1>0, SameEntries
<1>4. k0.desired # Null /\ k0.desired \in Listed /\ k0.current \in Listed /\ unseen[c] \subseteq Listed
  BY <1>0, <1>1, <1>3 DEF Follows
<1>5. PICK p \in Producers : p = k0.current
  BY <1>4, ListedTypes
<1>6. PICK got \in Nat, rest \in Nat : got = Got(p, left) /\ rest = left - got
  BY <1>0, GotIs
<1>7. k0.consumed \in Nat
  BY DEF Tokens
<1>8. PICK n \in Nat : n = Consume(k0.consumed, got)
  BY <1>7, ConsumeIs
<1> DEFINE s == IF got < left THEN [pc |-> "walkTail", left |-> rest, single |-> single]
                ELSE IF QuotaIsUp(n, single) THEN [pc |-> "advance"] ELSE OffList
           k == [k0 EXCEPT !.consumed = n]
<1>9. DequeueFrom(c, p, left, s)
  BY <1>2, <1>3, <1>5, <1>6, <1>8 DEF FromCurrent
<1>10. token' = [token EXCEPT ![c].consumed = n]
  BY <1>2, <1>3, <1>5, <1>6, <1>8 DEF FromCurrent
<1>11. token' = [token EXCEPT ![c] = k]
  BY <1>0, <1>3, <1>10 DEF DequeueTypeOK
<1>12. k \in Tokens /\ k.desired = k0.desired /\ k.current = p
  BY <1>5 DEF Tokens
<1> HIDE DEF k
<1>13. s \in CsStates
  BY DEF CsStates, OffList
<1>14. Follows(s, k, Left(c, p, left, s))
  <2>1. CASE got < left
    <3>1. s = [pc |-> "walkTail", left |-> rest, single |-> single]
      BY <2>1
    <3>2. Left(c, p, left, s) = unseen[c] \ {p}
      BY <1>6, <2>1, <3>1 DEF Left
    <3> QED BY <1>4, <1>5, <1>12, <3>1, <3>2 DEF Follows
  <2>2. CASE ~(got < left)
    <3>1. s.pc \in {"advance", "out"} /\ (s.pc = "out" => Left(c, p, left, s) = {})
      BY <2>2 DEF OffList, Left
    <3>2. Left(c, p, left, s) \subseteq Listed
      BY <1>4 DEF Left
    <3> HIDE DEF s
    <3> QED BY <1>4, <1>5, <1>12, <3>1, <3>2 DEF Follows
  <2> QED BY <2>1, <2>2
<1> HIDE DEF s
<1>15. ProducersUnchanged /\ UNCHANGED globalExplicitConsumerOffset
  BY DEF FromCurrent
<1> QED BY <1>9, <1>11, <1>12, <1>13, <1>14, <1>15, DequeueKeeps

LEMMA AdvanceKeeps ==
    ASSUME ListTypeOK, DequeueInv, NEW c \in Consumers, Advance(c)
    PROVE  DequeueInv'
<1>0. DequeueTypeOK /\ missed = FALSE /\ Follows(cs[c], token[c], unseen[c])
  BY DEF DequeueInv
<1>1. unseen' = [unseen EXCEPT ![c] = {}]
  BY <1>0, UnseenBecomes DEF Advance, OffList
<1>2. globalExplicitConsumerOffset' \in GlobalOffsets
  <2>1. globalExplicitConsumerOffset + 1 \in Int
    BY <1>0, ProducerListAssumption DEF DequeueTypeOK, GlobalOffsets
  <2> QED BY <2>1, ProducerListAssumption, ModBounds DEF Advance, GlobalOffsets
<1>3. OffList \in CsStates
  BY DEF OffList, CsStates
<1>4. Moves(c, OffList, token[c], {})
  BY <1>0, <1>1, <1>2, <1>3, SameEntries DEF Advance, CsGoto, Moves, DequeueTypeOK
<1>5. Follows(OffList, token[c], {})
  BY <1>0 DEF Follows, OffList
<1> QED BY <1>4, <1>5, ConsumerKeeps

\* The list is one from its tail, and acyclic.
LEMMA PlacesOnList ==
    ASSUME ListTypeOK, ListIsAcyclic, NEW tail \in Listed
    PROVE  /\ tail \in Producers /\ tail \in ListedFrom(tail) /\ ListedFrom(tail) \subseteq Listed
           /\ \A q \in ListedFrom(tail) : q \notin ListedFrom(next[q])
<1>1. tail \in Producers /\ ListedFrom(tail) \subseteq Listed
  BY ListedTypes
<1>2. tail \in ListedFrom(tail)
  BY <1>1, ListFacts
<1> QED BY <1>1, <1>2 DEF ListIsAcyclic

LEMMA WalkLoadTailKeeps ==
    ASSUME ListTypeOK, DequeueInv, NEW c \in Consumers, WalkLoadTail(c)
    PROVE  DequeueInv'
<1>0. /\ DequeueTypeOK /\ missed = FALSE /\ Follows(cs[c], token[c], unseen[c])
      /\ ListIsAcyclic
  BY DEF DequeueInv
<1>1. cs[c].pc = "walkTail"
  BY DEF WalkLoadTail
<1>2. PICK left \in Nat, single \in BOOLEAN : left = cs[c].left /\ single = cs[c].single
  BY <1>0, <1>1, CsShapes
<1>3. /\ token[c].desired # Null /\ token[c].current \in Listed
      /\ token[c].current \notin unseen[c] /\ unseen[c] \subseteq Listed
  BY <1>0, <1>1 DEF Follows
<1>4. PICK cur \in Listed : cur = token[c].current
  BY <1>3
<1>5. PICK tail \in Listed : tail = producerListTail /\ Listed = ListedFrom(tail)
  <2>1. producerListTail # Null
    BY <1>4, ListFacts DEF Listed
  <2> QED BY <2>1, ListedTypes DEF Listed
<1>6. /\ After(cur, tail) \in ListedFrom(tail)
      /\ ListedFrom(tail) \ {cur} \subseteq Ahead(After(cur, tail), cur, tail)
  <2>1. tail \in Producers /\ cur \in ListedFrom(tail) /\ cur \notin ListedFrom(next[cur])
    BY <1>0, <1>5, PlacesOnList
  <2> QED BY <2>1, AheadStart
<1>7. PICK ptr \in Listed : ptr = After(cur, tail)
  BY <1>5, <1>6
<1> DEFINE s == [pc |-> "walk", tail |-> tail, left |-> left, single |-> single, ptr |-> ptr]
<1>8. CsGoto(c, s)
  BY <1>2, <1>4, <1>5, <1>7, OnwardsOne DEF WalkLoadTail
<1>9. s \in CsStates
  BY ListedTypes DEF CsStates, ProducerOrNull
<1>10. Follows(s, token[c], unseen[c])
  BY <1>0, <1>3, <1>4, <1>5, <1>6, <1>7 DEF Follows
<1>11. Moves(c, s, token[c], unseen[c])
  BY <1>0, <1>8, <1>9, SameEntries DEF WalkLoadTail, CsGoto, Moves, DequeueTypeOK
<1> QED BY <1>10, <1>11, ConsumerKeeps

\* A walk whose dequeue from ptr did not get all it asked for goes on: from its
\* place, or, if it got something, from ptr, which is its place now.
LEMMA WalkGoesOn ==
    ASSUME ListTypeOK, ListIsAcyclic, NEW tail \in Listed, NEW cur \in ListedFrom(tail),
           NEW ptr \in ListedFrom(tail), ptr # cur, NEW us, us \subseteq Ahead(ptr, cur, tail),
           NEW place \in {ptr, cur}
    PROVE  /\ After(ptr, tail) \in ListedFrom(tail) /\ place \in ListedFrom(tail)
           /\ us \ {ptr} \subseteq Ahead(After(ptr, tail), place, tail)
<1>1. tail \in Producers /\ ptr \notin ListedFrom(next[ptr])
  BY PlacesOnList
<1>2. CASE place = cur
  BY <1>1, <1>2, AheadOn
<1>3. CASE place = ptr
  <2>1. us \subseteq ListedFrom(tail)
    BY <1>1, AheadBounds
  <2>2. /\ After(ptr, tail) \in ListedFrom(tail)
        /\ ListedFrom(tail) \ {ptr} \subseteq Ahead(After(ptr, tail), ptr, tail)
    BY <1>1, AheadStart
  <2> QED BY <1>3, <2>1, <2>2
<1> QED BY <1>2, <1>3

LEMMA WalkKeeps ==
    ASSUME ListTypeOK, DequeueInv, NEW c \in Consumers, Walk(c)
    PROVE  DequeueInv'
<1>0. /\ DequeueTypeOK /\ missed = FALSE /\ Follows(cs[c], token[c], unseen[c])
      /\ ListIsAcyclic
  BY DEF DequeueInv
<1>1. cs[c].pc = "walk" /\ ProducersUnchanged /\ UNCHANGED globalExplicitConsumerOffset
  BY DEF Walk
<1>2. cs[c] \in [pc : {"walk"}, tail : ProducerOrNull, left : Nat, single : BOOLEAN,
                 ptr : ProducerOrNull]
  BY <1>0, <1>1, CsShapes
<1>3. PICK left \in Nat, single \in BOOLEAN,
           tail \in ProducerOrNull, ptr \in ProducerOrNull :
          left = cs[c].left /\ single = cs[c].single /\ tail = cs[c].tail /\ ptr = cs[c].ptr
  BY <1>2
<1>4. PICK k0 \in Tokens : k0 = token[c]
  BY <1>0, SameEntries
<1>5. PICK cur : cur = k0.current
  OBVIOUS
<1>6. /\ tail \in Listed /\ ptr \in ListedFrom(tail) /\ cur \in ListedFrom(tail)
      /\ unseen[c] \subseteq Ahead(ptr, cur, tail) /\ unseen[c] \subseteq Listed
      /\ k0.desired # Null /\ k0.desired \in Listed
  BY <1>0, <1>1, <1>3, <1>4, <1>5 DEF Follows
<1>7. /\ tail \in Producers /\ ListedFrom(tail) \subseteq Listed /\ Listed \subseteq Producers
  BY <1>0, <1>6, PlacesOnList, ListedTypes
<1>8. CASE ptr = cur
  <2>1. FallShort(c) /\ UNCHANGED token
    BY <1>3, <1>4, <1>5, <1>8 DEF Walk
  <2>2. unseen[c] = {}
    BY <1>6, <1>7, <1>8, AheadBounds
  <2> QED BY <1>1, <2>1, <2>2, FallShortKeeps
<1>9. CASE ptr # cur
  <2>1. PICK got \in Nat, rest \in Nat : got = Got(ptr, left) /\ rest = left - got /\ got <= left
    BY <1>0, <1>6, <1>7, GotIs
  <2>2. PICK n \in Nat : n = Consume(0, got)
    BY ConsumeIs
  <2>3. PICK on : on = After(ptr, tail)
    OBVIOUS
  <2> DEFINE place == IF got = 0 THEN cur ELSE ptr
             s == IF got = left THEN OffList ELSE [cs[c] EXCEPT !.left = rest, !.ptr = on]
             k == IF got = 0 THEN k0 ELSE [k0 EXCEPT !.current = ptr, !.consumed = n]
  <2>4. /\ on \in ListedFrom(tail) /\ place \in ListedFrom(tail)
        /\ unseen[c] \ {ptr} \subseteq Ahead(on, place, tail)
    <3>1. PICK pl \in {ptr, cur} : pl = place
      OBVIOUS
    <3> HIDE DEF place
    <3>2. PICK us : us = unseen[c]
      OBVIOUS
    <3>3. us \subseteq Ahead(ptr, cur, tail)
      BY <1>6, <3>2
    <3>4. /\ After(ptr, tail) \in ListedFrom(tail) /\ pl \in ListedFrom(tail)
          /\ us \ {ptr} \subseteq Ahead(After(ptr, tail), pl, tail)
      BY <1>0, <1>6, <1>9, <3>3, WalkGoesOn
    <3> QED BY <2>3, <3>1, <3>2, <3>4
  <2>5. DequeueFrom(c, ptr, left, s)
    BY <1>3, <1>4, <1>5, <1>9, <2>1, <2>3, OnwardsOne DEF Walk
  <2>6. token' = IF got = 0 THEN token ELSE [token EXCEPT ![c].current = ptr, ![c].consumed = n]
    BY <1>3, <1>4, <1>5, <1>9, <2>1, <2>2 DEF Walk
  <2>7. token' = [token EXCEPT ![c] = k]
    <3>1. CASE got = 0
      BY <1>0, <1>4, <2>6, <3>1, SameEntries
    <3>2. CASE got # 0
      BY <1>0, <1>4, <2>6, <3>2 DEF DequeueTypeOK
    <3> QED BY <3>1, <3>2
  <2>8. k \in Tokens /\ k.desired = k0.desired /\ k.current = place
    BY <1>5, <1>6, <1>7 DEF Tokens, ProducerOrNull
  <2>9. s \in CsStates
    BY <1>2, <1>7, <2>4 DEF CsStates, OffList, ProducerOrNull
  <2>10. Follows(s, k, Left(c, ptr, left, s))
    <3>1. CASE got = left
      <4>1. s = OffList /\ Left(c, ptr, left, s) = {}
        BY <3>1 DEF Left, OffList
      <4> HIDE DEF k, place
      <4> QED BY <1>6, <1>7, <2>4, <2>8, <4>1 DEF Follows, OffList
    <3>2. CASE got # left
      <4>1. s.pc = "walk" /\ s.tail = tail /\ s.ptr = on /\ Got(ptr, left) < left
        BY <1>2, <1>3, <2>1, <3>2
      <4> HIDE DEF s, k, place
      <4>2. Left(c, ptr, left, s) = unseen[c] \ {ptr}
        BY <4>1 DEF Left
      <4> QED BY <1>6, <1>7, <2>4, <2>8, <4>1, <4>2 DEF Follows
    <3> QED BY <3>1, <3>2
  <2> HIDE DEF s, k, place
  <2>11. ptr \in Producers
    BY <1>6, <1>7
  <2> QED BY <1>1, <2>5, <2>7, <2>8, <2>9, <2>10, <2>11, DequeueKeeps
<1> QED BY <1>8, <1>9

LEMMA DequeueInvStep ==
    ASSUME ProducersInv, DequeueInv, [ListNext]_producerListVars
    PROVE  DequeueInv'
<1>0. ProducersInv' /\ ListTypeOK /\ ListTypeOK' /\ DequeueTypeOK
  BY ProducersInvStep DEF ProducersInv, DequeueInv
<1>1. CASE UNCHANGED producerListVars \/ OtherConsumers
  <2>1. UNCHANGED <<producerListTail, next>> /\ UNCHANGED <<token, cs, unseen, missed>>
    BY <1>1 DEF producerListVars, tokenVars, listVars, OtherConsumers, ProducersUnchanged
  <2>2. ProducersGrow
    BY <1>0, <2>1, NextOfListedStays DEF DequeueInv
  <2>3. size' \in [Producers -> Nat]
    <3>1. CASE UNCHANGED size
      BY <1>0, <3>1 DEF DequeueTypeOK
    <3>2. ASSUME NEW p \in Producers, size[p] > 0, size' = [size EXCEPT ![p] = @ - 1]
          PROVE  size' \in [Producers -> Nat]
      <4>1. size[p] \in Nat /\ size \in [Producers -> Nat]
        BY <1>0 DEF DequeueTypeOK
      <4>2. PICK m \in Nat : m = size[p] - 1
        BY <3>2, <4>1
      <4> QED BY <3>2, <4>1, <4>2
    <3> QED BY <1>1, <3>1, <3>2 DEF producerListVars, OtherConsumers
  <2>4. globalExplicitConsumerOffset' \in GlobalOffsets
    <3>1. globalExplicitConsumerOffset \in GlobalOffsets /\ globalExplicitConsumerOffset + 1 \in Int
      BY <1>0, ProducerListAssumption DEF DequeueTypeOK, GlobalOffsets
    <3>2. (globalExplicitConsumerOffset + 1) % OffsetValues \in GlobalOffsets
      BY <3>1, ProducerListAssumption, ModBounds DEF GlobalOffsets
    <3> QED BY <1>1, <3>1, <3>2 DEF producerListVars, tokenVars, OtherConsumers
  <2> QED BY <1>0, <2>1, <2>2, <2>3, <2>4, OthersKeepDequeues
<1>2. ASSUME NEW t \in TokenThreads, TokenStep(t) PROVE DequeueInv'
  <2>1. ProducersGrow
    BY <1>0, <1>2, TokenStepKeeps DEF DequeueInv
  <2>2. UNCHANGED tokenVars /\ size' \in [Producers -> Nat]
    BY <1>0, <1>2, TokenStepSize DEF DequeueTypeOK
  <2>3. UNCHANGED <<token, cs, unseen, missed>> /\ globalExplicitConsumerOffset' \in GlobalOffsets
    BY <1>0, <2>2 DEF tokenVars, DequeueTypeOK
  <2> QED BY <1>0, <2>1, <2>2, <2>3, OthersKeepDequeues
<1>3. ASSUME NEW c \in Consumers, ConsumerStep(c) PROVE DequeueInv'
  BY <1>0, <1>3, CallSteps, ScoreKeeps, TryBestKeeps, TryLoadTailKeeps, TryNextKeeps,
     RotateLoadTailKeeps, RotateLoadCountKeeps, RotateMoveKeeps, FromCurrentKeeps,
     AdvanceKeeps, WalkLoadTailKeeps, WalkKeeps
     DEF ConsumerStep
<1> QED BY <1>1, <1>2, <1>3 DEF ListNext

LEMMA DequeueInvInit ==
    ASSUME ListInit
    PROVE  DequeueInv
<1>1. PICK order \in [Consumers -> 0 .. OffsetValues - 1] :
          token = [c \in Consumers |-> NewToken(order[c])]
  BY DEF ListInit
<1>2. OffsetValues - 1 \in GlobalOffsets /\ 0 \in GlobalOffsets
  BY ProducerListAssumption DEF GlobalOffsets
<1>3. \A c \in Consumers : token[c] \in Tokens /\ token[c].desired = Null
  BY <1>1, <1>2 DEF NewToken, Tokens, ProducerOrNull, GlobalOffsets
<1>4. \A c \in Consumers : cs[c] = OffList /\ unseen[c] = {}
  BY DEF ListInit
<1>5. OffList \in CsStates
  BY DEF OffList, CsStates
<1>6. DequeueTypeOK
  BY <1>1, <1>2, <1>3, <1>5 DEF ListInit, DequeueTypeOK
<1>7. ListIsAcyclic
  <2>1. ListTypeOK /\ producerListTail = Null
    BY ProducersInvInit DEF ProducersInv, ListInit
  <2> QED BY <2>1, ListFacts DEF ListIsAcyclic, Listed
<1>8. \A c \in Consumers : Follows(cs[c], token[c], unseen[c])
  BY <1>3, <1>4 DEF Follows, OffList
<1> QED BY <1>6, <1>7, <1>8 DEF DequeueInv, ListInit

\* A dequeue, of any of the five kinds, that returns less than it was asked for has
\* looked at every producer listed when it was called, and found less than it then
\* wanted, for any producers, consumers and token threads, any quota, and however
\* the offsets of the rotation wrap (concurrentqueue.h:1125-1289).
THEOREM FallsShortOnlyIfEmptyInvariant == Spec => []FallsShortOnlyIfEmpty
<1>1. Init => DequeueInv
  BY ProducersPart, DequeueInvInit
<1>2. ProducersInv /\ DequeueInv /\ [Next]_vars => DequeueInv'
  BY ProducersPartStep, DequeueInvStep
<1>3. DequeueInv => FallsShortOnlyIfEmpty
  BY DEF DequeueInv, FallsShortOnlyIfEmpty
<1> QED BY <1>1, <1>2, <1>3, ProducersInvHolds, PTL DEF Spec

-----------------------------------------------------------------------------
(***************************************************************************)
(* Sub-queues: indices that wrap.                                          *)
(***************************************************************************)
LEMMA RemainderIs ==
    ASSUME NEW s \in Nat, s > 0, NEW q \in Int, NEW r \in 0 .. s - 1
    PROVE  (s * q + r) % s = r
  OBVIOUS

LEMMA Divides ==
    ASSUME NEW s \in Nat, s > 0, NEW x \in Int
    PROVE  \E q \in Int : \E r \in 0 .. s - 1 : x = s * q + r /\ x % s = r
<1>1. x = s * (x \div s) + (x % s) /\ x \div s \in Int /\ x % s \in 0 .. s - 1
  OBVIOUS
<1> QED BY <1>1

\* Whole laps change no remainder.
LapsLeaveNothing(s, x, l) == (x + s * l) % s = x % s

LEMMA LapsOff ==
    ASSUME NEW s \in Nat, s > 0, NEW x \in Int, NEW l \in Int
    PROVE  LapsLeaveNothing(s, x, l)
<1>1. PICK q \in Int, r \in 0 .. s - 1 : x = s * q + r /\ x % s = r
  BY Divides
<1>2. s * (q + l) = s * q + s * l /\ q + l \in Int
  OBVIOUS
<1>3. x + s * l = s * (q + l) + r
  BY <1>1, <1>2
<1>4. (x + s * l) % s = r
  BY <1>1, <1>2, <1>3, RemainderIs
<1> QED BY <1>1, <1>4 DEF LapsLeaveNothing

Half == IndexValues \div 2

LEMMA IndexFacts ==
    /\ IndexValues \in Nat /\ IndexValues > 0 /\ Half \in Nat /\ Half > 1
    /\ IndexValues = 2 * Half
    /\ BLOCK_SIZE \in Nat /\ BLOCK_SIZE > 1 /\ BLOCK_SIZE <= Half
    /\ \E k \in Nat : Half = BLOCK_SIZE * k
<1>1. /\ IndexValues \in Nat \ {0} /\ BLOCK_SIZE \in Nat \ {0, 1}
      /\ IndexValues % (2 * BLOCK_SIZE) = 0
  BY ProducerBaseAssumption
<1>2. PICK b \in Nat : b = 2 * BLOCK_SIZE /\ b > 0
  BY <1>1
<1>3. PICK q \in Int : IndexValues = b * q
  <2>1. PICK q \in Int, r \in 0 .. b - 1 : IndexValues = b * q + r /\ IndexValues % b = r
    BY <1>1, <1>2, Divides
  <2> QED BY <1>1, <1>2, <2>1
<1>4. q >= 1
  <2>1. SUFFICES ASSUME q <= 0 PROVE FALSE
    BY <1>3
  <2>2. b * q <= 0
    BY <1>2, <2>1
  <2> QED BY <1>1, <1>3, <2>2
<1>5. PICK h \in Nat : h = BLOCK_SIZE * q
  BY <1>1, <1>4
<1>6. IndexValues = 2 * h
  BY <1>1, <1>2, <1>3, <1>5
<1>7. Half = h
  BY <1>6 DEF Half
<1>8. h >= BLOCK_SIZE
  BY <1>1, <1>4, <1>5
<1>9. q \in Nat
  BY <1>4
<1> QED BY <1>1, <1>5, <1>6, <1>7, <1>8, <1>9

LEMMA IndexType ==
    ASSUME NEW a \in Int
    PROVE  Index(a) \in Nat /\ Index(a) < IndexValues
  BY IndexFacts DEF Index

LEMMA IndexSmall ==
    ASSUME NEW a \in Int, -IndexValues <= a, a < IndexValues
    PROVE  Index(a) = IF a >= 0 THEN a ELSE a + IndexValues
<1>0. IndexValues \in Nat /\ IndexValues > 0
  BY IndexFacts
<1>1. CASE a >= 0
  <2>1. (IndexValues * 0 + a) % IndexValues = a
    BY <1>0, <1>1, RemainderIs
  <2> QED BY <1>0, <1>1, <2>1 DEF Index
<1>2. CASE a < 0
  <2>1. (IndexValues * (-1) + (a + IndexValues)) % IndexValues = a + IndexValues
    BY <1>0, <1>2, RemainderIs
  <2>2. IndexValues * (-1) + (a + IndexValues) = a
    BY <1>0
  <2> QED BY <1>2, <2>1, <2>2 DEF Index
<1> QED BY <1>1, <1>2

\* Arithmetic on indices is that on the numbers they stand for.
LEMMA IndexOfIndex ==
    ASSUME NEW a \in Int, NEW b \in Int
    PROVE  /\ Index(Index(a) + b) = Index(a + b)
           /\ Index(Index(a) - b) = Index(a - b)
           /\ Index(b - Index(a)) = Index(b - a)
<1>0. IndexValues \in Nat /\ IndexValues > 0
  BY IndexFacts
<1>1. PICK q \in Int, r \in 0 .. IndexValues - 1 : a = IndexValues * q + r /\ a % IndexValues = r
  BY <1>0, Divides
<1>2. Index(a) = r
  BY <1>1 DEF Index
<1>3. PICK l \in Int, m \in Int : l = IndexValues * q /\ m = IndexValues * (-q) /\ m = -l
  BY <1>0
<1>4. a + b = (r + b) + l /\ a - b = (r - b) + l /\ b - a = (b - r) + m
  BY <1>1, <1>3
<1>5. r + b \in Int /\ r - b \in Int /\ b - r \in Int /\ -q \in Int
  OBVIOUS
<1>6. /\ LapsLeaveNothing(IndexValues, r + b, q)
      /\ LapsLeaveNothing(IndexValues, r - b, q)
      /\ LapsLeaveNothing(IndexValues, b - r, -q)
  BY ONLY <1>0, <1>5, q \in Int, LapsOff
<1>7. /\ ((r + b) + l) % IndexValues = (r + b) % IndexValues
      /\ ((r - b) + l) % IndexValues = (r - b) % IndexValues
      /\ ((b - r) + m) % IndexValues = (b - r) % IndexValues
  BY ONLY <1>3, <1>6 DEF LapsLeaveNothing
<1> QED BY <1>2, <1>4, <1>7 DEF Index

LEMMA IndexDifference ==
    ASSUME NEW a \in Int, NEW b \in Int
    PROVE  /\ Index(Index(a) - Index(b)) = Index(a - b)
           /\ Index(Index(a) + Index(b)) = Index(a + b)
<1>1. Index(a) \in Int /\ Index(b) \in Int
  BY IndexType
<1>2. Index(Index(a) - Index(b)) = Index(a - Index(b)) /\ Index(Index(a) + Index(b)) = Index(a + Index(b))
  BY <1>1, IndexOfIndex
<1>3. Index(a - Index(b)) = Index(a - b) /\ Index(Index(b) + a) = Index(b + a)
  BY <1>1, IndexOfIndex
<1> QED BY <1>1, <1>2, <1>3

\* Less than half the range ahead.
LEMMA LessIs ==
    ASSUME NEW a \in Int, NEW b \in Int
    PROVE  CircularLess(Index(a), Index(b)) <=> Index(a - b) > Half
  BY IndexDifference DEF CircularLess, Half

-----------------------------------------------------------------------------
(***************************************************************************)
(* Sums over threads: each adds as many cells as its number.               *)
(***************************************************************************)
Cells(f) == {x \in DequeueThreads \X Nat : 1 <= x[2] /\ x[2] <= f[x[1]]}
SumOver(f) == Cardinality(Cells(f))
Threads == Cardinality(DequeueThreads)

LEMMA FirstNumbers ==
    ASSUME NEW n \in Nat
    PROVE  IsFiniteSet(1 .. n) /\ Cardinality(1 .. n) = n
<1>1. Cardinality(1 .. n) = IF 1 > n THEN 0 ELSE n - 1 + 1
  BY FS_Interval
<1> QED BY <1>1, FS_Interval

LEMMA ColumnOf ==
    ASSUME NEW c, NEW n \in Nat
    PROVE  IsFiniteSet({c} \X (1 .. n)) /\ Cardinality({c} \X (1 .. n)) = n
<1>1. IsFiniteSet({c}) /\ Cardinality({c}) = 1
  BY FS_Singleton
<1> DEFINE S == {c}
           T == 1 .. n
<1>2. IsFiniteSet(T) /\ Cardinality(T) = n
  BY FirstNumbers
<1>3. IsFiniteSet(S) /\ Cardinality(S) = 1
  BY <1>1
<1> HIDE DEF S, T
<1>4. IsFiniteSet(S \X T) /\ Cardinality(S \X T) = Cardinality(S) * Cardinality(T)
  BY ONLY <1>2, <1>3, FS_Product
<1>5. Cardinality(S \X T) = n
  BY <1>2, <1>3, <1>4
<1> QED BY <1>4, <1>5 DEF S, T

LEMMA SumType ==
    ASSUME NEW M \in Nat, NEW f \in [DequeueThreads -> 0 .. M]
    PROVE  IsFiniteSet(Cells(f)) /\ SumOver(f) \in Nat /\ SumOver(f) <= Threads * M /\ Threads \in Nat
<1>1. IsFiniteSet(DequeueThreads) /\ IsFiniteSet(1 .. M) /\ Cardinality(1 .. M) = M
  BY ProducerBaseAssumption, FirstNumbers
<1>2. /\ IsFiniteSet(DequeueThreads \X (1 .. M))
      /\ Cardinality(DequeueThreads \X (1 .. M)) = Threads * M
  BY <1>1, FS_Product DEF Threads
<1>3. Cells(f) \subseteq DequeueThreads \X (1 .. M)
  BY DEF Cells
<1> QED BY <1>1, <1>2, <1>3, FS_Subset, FS_CardinalityType DEF SumOver, Threads

LEMMA SumZero ==
    ASSUME NEW f, \A c \in DequeueThreads : f[c] = 0
    PROVE  SumOver(f) = 0
<1>1. Cells(f) = {}
  BY DEF Cells
<1> QED BY <1>1, FS_EmptySet DEF SumOver

LEMMA SumChange ==
    ASSUME NEW M \in Nat, NEW f \in [DequeueThreads -> 0 .. M], NEW g \in [DequeueThreads -> 0 .. M],
           NEW c \in DequeueThreads, \A d \in DequeueThreads \ {c} : g[d] = f[d]
    PROVE  SumOver(g) = SumOver(f) - f[c] + g[c]
<1> DEFINE O == {x \in Cells(f) : x[1] # c}
           C(n) == {c} \X (1 .. n)
<1>1. \A n \in Nat : IsFiniteSet(C(n)) /\ Cardinality(C(n)) = n
  BY ColumnOf
<1>2. O = {x \in Cells(g) : x[1] # c}
  BY DEF Cells
<1>3. f[c] \in Nat /\ g[c] \in Nat
  OBVIOUS
<1>4. Cells(f) = O \cup C(f[c]) /\ O \cap C(f[c]) = {}
  BY <1>3 DEF Cells
<1>5. Cells(g) = O \cup C(g[c]) /\ O \cap C(g[c]) = {}
  BY <1>2, <1>3 DEF Cells
<1>6. IsFiniteSet(O) /\ Cardinality(O) \in Nat
  <2>1. IsFiniteSet(Cells(f)) /\ O \subseteq Cells(f)
    BY SumType
  <2> HIDE DEF O
  <2> QED BY <2>1, FS_Subset, FS_CardinalityType
<1>7. ASSUME NEW n \in Nat, O \cap C(n) = {} PROVE Cardinality(O \cup C(n)) = Cardinality(O) + n
  <2>1. IsFiniteSet(C(n)) /\ Cardinality(C(n)) = n
    BY <1>1
  <2> HIDE DEF O, C
  <2>2. Cardinality(O \cup C(n)) = Cardinality(O) + Cardinality(C(n)) - Cardinality(O \cap C(n))
    BY <1>6, <2>1, FS_Union
  <2>3. Cardinality(O \cap C(n)) = 0
    BY <1>7, FS_EmptySet
  <2> QED BY <1>6, <2>1, <2>2, <2>3
<1> HIDE DEF O, C
<1>8. SumOver(f) = Cardinality(O) + f[c] /\ SumOver(g) = Cardinality(O) + g[c]
  BY <1>3, <1>4, <1>5, <1>7 DEF SumOver
<1> QED BY <1>3, <1>6, <1>8

-----------------------------------------------------------------------------
(***************************************************************************)
(* Claims, and the numbers they stand for.                                 *)
(***************************************************************************)
\* What the threads of P have claimed and not settled, due, lies in intervals that are
\* apart, each from at[c] on, among the total that begins at first.
Layout(first, total, due, at, P) ==
    /\ \A c \in P : first <= at[c] /\ at[c] + due[c] <= first + total
    /\ \A c, d \in P : c # d => at[c] + due[c] <= at[d] \/ at[d] + due[d] <= at[c]

\* A thread that has not looked at the tail since it claimed has claimed no less than
\* its place, claims[c], or its place lies before the tail.
Safe(tail, claims, at, due, Q) == \A c \in Q : claims[c] >= at[c] \/ at[c] + due[c] <= tail

\* head and tail are the indices, as if they did not wrap; won is what the threads have
\* found to be there, and not yet taken; those of P have something due, those of Q have
\* not looked at the tail.
Stands(M, bound, head, tail, claims, at, won, due, P, Q) ==
    /\ head \in Nat /\ tail \in Nat /\ claims \in [DequeueThreads -> Int] /\ at \in [DequeueThreads -> Int]
    /\ won \in [DequeueThreads -> 0 .. M] /\ due \in [DequeueThreads -> 0 .. M]
    /\ P \subseteq DequeueThreads /\ Q \subseteq P /\ \A c \in P : due[c] > 0
    /\ head + SumOver(won) <= tail /\ tail - head <= Half
    /\ Layout(head + SumOver(won), SumOver(due), due, at, P)
    /\ Safe(tail, claims, at, due, Q)
    /\ \A c \in Q : claims[c] <= head + bound

LEMMA StandsClaim ==
    ASSUME NEW M \in Nat, NEW bound \in Nat, NEW head, NEW tail, NEW claims, NEW at, NEW won, NEW due,
           NEW P, NEW Q, Stands(M, bound, head, tail, claims, at, won, due, P, Q),
           NEW c \in DequeueThreads \ P, due[c] = 0, NEW n \in 1 .. M, NEW w \in Int,
           head + SumOver(won) + SumOver(due) <= w, w <= head + bound
    PROVE  Stands(M, bound, head, tail, [claims EXCEPT ![c] = w],
                  [at EXCEPT ![c] = head + SumOver(won) + SumOver(due)], won,
                  [due EXCEPT ![c] = n], P \cup {c}, Q \cup {c})
<1>0. due \in [DequeueThreads -> 0 .. M] /\ n \in 0 .. M
  BY DEF Stands
<1>1. PICK u \in [DequeueThreads -> 0 .. M] : u = [due EXCEPT ![c] = n]
  BY <1>0
<1>2. /\ u[c] = n /\ \A d \in DequeueThreads \ {c} : u[d] = due[d]
      /\ due \in [DequeueThreads -> 0 .. M]
  BY <1>1 DEF Stands
<1>3. SumOver(u) = SumOver(due) - due[c] + u[c]
  BY <1>2, SumChange
<1>4. PICK T \in Int, S \in Nat : T = head + SumOver(won) /\ S = SumOver(due)
  BY SumType DEF Stands
<1>5. SumOver(u) = S + n
  BY <1>2, <1>3, <1>4
<1>6. PICK y \in [DequeueThreads -> Int] : y = [at EXCEPT ![c] = T + S]
  <2>1. at \in [DequeueThreads -> Int]
    BY DEF Stands
  <2>2. PICK x \in Int : x = T + S
    OBVIOUS
  <2>3. [at EXCEPT ![c] = x] \in [DequeueThreads -> Int]
    BY <2>1
  <2> QED BY <2>2, <2>3
<1>7. PICK v \in [DequeueThreads -> Int] : v = [claims EXCEPT ![c] = w]
  BY DEF Stands
<1>8. y[c] = T + S /\ v[c] = w /\ \A d \in DequeueThreads \ {c} : y[d] = at[d] /\ v[d] = claims[d]
  BY <1>6, <1>7 DEF Stands
<1>9. P \subseteq DequeueThreads /\ Q \subseteq P /\ at \in [DequeueThreads -> Int]
  BY DEF Stands
<1>10. \A d \in P : /\ d # c /\ u[d] = due[d] /\ y[d] = at[d] /\ u[d] \in Nat /\ y[d] \in Int
                    /\ T <= y[d] /\ y[d] + u[d] <= T + S
  BY <1>2, <1>4, <1>8, <1>9 DEF Stands, Layout
<1>11. \A d, e \in P : d # e => y[d] + u[d] <= y[e] \/ y[e] + u[e] <= y[d]
  BY <1>10 DEF Stands, Layout
<1>12. Layout(T, S + n, u, y, P \cup {c})
  BY <1>2, <1>8, <1>10, <1>11 DEF Layout
<1>13. Safe(tail, v, y, u, Q \cup {c})
  BY <1>2, <1>4, <1>8, <1>9, <1>10 DEF Stands, Safe
<1>14. Stands(M, bound, head, tail, v, y, won, u, P \cup {c}, Q \cup {c})
  BY <1>2, <1>4, <1>5, <1>8, <1>9, <1>12, <1>13 DEF Stands
<1> QED BY <1>1, <1>4, <1>6, <1>7, <1>14

\* c finds n of what it claimed to be there.
LEMMA StandsDecide ==
    ASSUME NEW M \in Nat, NEW bound \in Nat, NEW head, NEW tail, NEW claims, NEW at, NEW won, NEW due,
           NEW P, NEW Q, Stands(M, bound, head, tail, claims, at, won, due, P, Q),
           NEW c \in Q, won[c] = 0, NEW n \in 0 .. due[c], n = 0 \/ at[c] + n <= tail
    PROVE  \E y : Stands(M, bound, head, tail, claims, y, [won EXCEPT ![c] = n],
                         [due EXCEPT ![c] = due[c] - n],
                         IF n = due[c] THEN P \ {c} ELSE P, Q \ {c})
<1>0. /\ c \in DequeueThreads /\ P \subseteq DequeueThreads /\ Q \subseteq P /\ c \in P
      /\ due \in [DequeueThreads -> 0 .. M] /\ won \in [DequeueThreads -> 0 .. M]
      /\ at \in [DequeueThreads -> Int] /\ head \in Nat /\ tail \in Nat
      /\ \A d \in P : due[d] > 0
  BY DEF Stands
<1>1. PICK m \in Nat, k \in 0 .. M : m = due[c] /\ k = m - n /\ n \in 0 .. M
  BY <1>0
<1>2. PICK u \in [DequeueThreads -> 0 .. M] : u = [due EXCEPT ![c] = k]
  BY <1>0
<1>3. PICK v \in [DequeueThreads -> 0 .. M] : v = [won EXCEPT ![c] = n]
  BY <1>0, <1>1
<1>4. /\ u[c] = k /\ v[c] = n
      /\ \A d \in DequeueThreads \ {c} : u[d] = due[d] /\ v[d] = won[d]
  BY <1>0, <1>2, <1>3
<1>5. PICK W \in Nat, S \in Nat, T \in Nat : W = SumOver(won) /\ S = SumOver(due) /\ T = head + W
  BY <1>0, SumType
<1>6. SumOver(u) = S - n
  <2>1. SumOver(u) = SumOver(due) - due[c] + u[c]
    BY <1>0, <1>4, SumChange
  <2> QED BY <1>1, <1>4, <1>5, <2>1
<1>7. SumOver(v) = W + n
  <2>1. SumOver(v) = SumOver(won) - won[c] + v[c]
    BY <1>0, <1>4, SumChange
  <2> QED BY <1>4, <1>5, <2>1
<1>8. PICK y \in [DequeueThreads -> Int] :
          \A d \in DequeueThreads : y[d] = IF at[d] <= at[c] THEN at[d] + n ELSE at[d]
  <2> DEFINE y == [d \in DequeueThreads |-> IF at[d] <= at[c] THEN at[d] + n ELSE at[d]]
  <2>1. y \in [DequeueThreads -> Int]
    BY <1>0
  <2>2. \A d \in DequeueThreads : y[d] = IF at[d] <= at[c] THEN at[d] + n ELSE at[d]
    OBVIOUS
  <2> HIDE DEF y
  <2> QED BY <2>1, <2>2
<1>9. /\ at[c] \in Int /\ T <= at[c] /\ at[c] + m <= T + S /\ m > 0
      /\ y[c] = at[c] + n
  BY <1>0, <1>1, <1>5, <1>8 DEF Stands, Layout
<1>10. ASSUME NEW d \in P, d # c
       PROVE  /\ at[d] \in Int /\ due[d] \in Nat /\ u[d] = due[d] /\ due[d] > 0 /\ y[d] \in Int
              /\ T <= at[d] /\ at[d] + due[d] <= T + S
              /\ \/ at[d] + due[d] <= at[c] /\ y[d] = at[d] + n
                 \/ at[c] + m <= at[d] /\ y[d] = at[d]
  <2>1. at[d] \in Int /\ due[d] \in Nat /\ u[d] = due[d] /\ due[d] > 0 /\ y[d] \in Int
    BY <1>0, <1>4, <1>10
  <2>2. T <= at[d] /\ at[d] + due[d] <= T + S
    BY <1>5 DEF Stands, Layout
  <2>3. at[d] + due[d] <= at[c] \/ at[c] + m <= at[d]
    BY <1>0, <1>1, <1>10 DEF Stands, Layout
  <2>4. y[d] = IF at[d] <= at[c] THEN at[d] + n ELSE at[d]
    BY <1>0, <1>8
  <2> QED BY <1>9, <2>1, <2>2, <2>3, <2>4
<1>11. \A d, e \in P : d # e => y[d] + u[d] <= y[e] \/ y[e] + u[e] <= y[d]
  <2>1. ASSUME NEW d \in P, d # c PROVE y[d] + u[d] <= y[c] \/ y[c] + u[c] <= y[d]
    BY <1>1, <1>4, <1>9, <1>10, <2>1
  <2>2. ASSUME NEW d \in P, NEW e \in P, d # c, e # c, d # e
        PROVE  y[d] + u[d] <= y[e] \/ y[e] + u[e] <= y[d]
    <3>1. at[d] + due[d] <= at[e] \/ at[e] + due[e] <= at[d]
      BY <2>2 DEF Stands, Layout
    <3> QED BY <1>1, <1>9, <1>10, <2>2, <3>1
  <2> QED BY <2>1, <2>2
<1>12. \A d \in P : T + n <= y[d] /\ y[d] + u[d] <= (T + n) + (S - n)
  <2>1. ASSUME NEW d \in P, d # c PROVE T + n <= y[d] /\ y[d] + u[d] <= (T + n) + (S - n)
    BY <1>1, <1>9, <1>10, <2>1
  <2>2. T + n <= y[c] /\ y[c] + u[c] <= (T + n) + (S - n)
    BY <1>1, <1>4, <1>9
  <2> QED BY <2>1, <2>2
<1>13. PICK R : R = IF n = due[c] THEN P \ {c} ELSE P
  OBVIOUS
<1>14. R \subseteq P /\ (\A d \in R : u[d] > 0) /\ Q \ {c} \subseteq R
  BY <1>0, <1>1, <1>4, <1>10, <1>13
<1>15. Layout(T + n, S - n, u, y, R)
  BY <1>11, <1>12, <1>14 DEF Layout
<1>16. ASSUME NEW d \in Q \ {c} PROVE claims[d] >= y[d] \/ y[d] + u[d] <= tail
  <2>1. claims[d] >= at[d] \/ at[d] + due[d] <= tail
    BY DEF Stands, Safe
  <2>2. claims[d] \in Int /\ d \in P /\ d # c
    BY <1>0 DEF Stands
  <2> QED BY <1>0, <1>1, <1>9, <1>10, <2>1, <2>2
<1>17. T + n <= tail
  <2>1. T <= tail
    BY <1>5 DEF Stands
  <2> QED BY <1>0, <1>1, <1>9, <2>1
<1>18. head + (W + n) = T + n
  <2>1. head \in Nat /\ n \in Int
    BY <1>0, <1>1
  <2> QED BY <1>5, <2>1
<1>19. Stands(M, bound, head, tail, claims, y, v, u, R, Q \ {c})
  BY <1>0, <1>6, <1>7, <1>14, <1>15, <1>16, <1>17, <1>18 DEF Stands, Safe
<1> QED BY <1>1, <1>2, <1>3, <1>13, <1>19

\* c gives back what it did not find.
LEMMA StandsGiveBack ==
    ASSUME NEW M \in Nat, NEW bound \in Nat, NEW head, NEW tail, NEW claims, NEW at, NEW won, NEW due,
           NEW P, NEW Q, Stands(M, bound, head, tail, claims, at, won, due, P, Q),
           NEW c \in P \ Q
    PROVE  \E y : Stands(M, bound, head, tail, claims, y, won, [due EXCEPT ![c] = 0], P \ {c}, Q)
<1>0. /\ c \in DequeueThreads /\ P \subseteq DequeueThreads /\ Q \subseteq P /\ c \in P
      /\ due \in [DequeueThreads -> 0 .. M] /\ won \in [DequeueThreads -> 0 .. M]
      /\ at \in [DequeueThreads -> Int] /\ head \in Nat /\ tail \in Nat
      /\ \A d \in P : due[d] > 0
  BY DEF Stands
<1>1. PICK m \in Nat : m = due[c]
  BY <1>0
<1>2. PICK u \in [DequeueThreads -> 0 .. M] : u = [due EXCEPT ![c] = 0]
  <2>1. 0 \in 0 .. M
    OBVIOUS
  <2> QED BY <1>0, <2>1
<1>4. u[c] = 0 /\ \A d \in DequeueThreads \ {c} : u[d] = due[d]
  BY <1>0, <1>2
<1>5. PICK S \in Nat, T \in Nat : S = SumOver(due) /\ T = head + SumOver(won)
  BY <1>0, SumType
<1>6. SumOver(u) = S - m
  <2>1. SumOver(u) = SumOver(due) - due[c] + u[c]
    BY <1>0, <1>4, SumChange
  <2> QED BY <1>1, <1>4, <1>5, <2>1
<1>8. PICK y \in [DequeueThreads -> Int] :
          \A d \in DequeueThreads : y[d] = IF at[d] <= at[c] THEN at[d] ELSE at[d] - m
  <2> DEFINE y == [d \in DequeueThreads |-> IF at[d] <= at[c] THEN at[d] ELSE at[d] - m]
  <2>1. y \in [DequeueThreads -> Int]
    BY <1>0
  <2>2. \A d \in DequeueThreads : y[d] = IF at[d] <= at[c] THEN at[d] ELSE at[d] - m
    OBVIOUS
  <2> HIDE DEF y
  <2> QED BY <2>1, <2>2
<1>9. at[c] \in Int /\ T <= at[c] /\ at[c] + m <= T + S /\ m > 0
  BY <1>0, <1>1, <1>5 DEF Stands, Layout
<1>10. ASSUME NEW d \in P, d # c
       PROVE  /\ at[d] \in Int /\ due[d] \in Nat /\ u[d] = due[d] /\ due[d] > 0 /\ y[d] \in Int
              /\ T <= at[d] /\ at[d] + due[d] <= T + S
              /\ \/ at[d] + due[d] <= at[c] /\ y[d] = at[d]
                 \/ at[c] + m <= at[d] /\ y[d] = at[d] - m
  <2>1. at[d] \in Int /\ due[d] \in Nat /\ u[d] = due[d] /\ due[d] > 0 /\ y[d] \in Int
    BY <1>0, <1>4, <1>10
  <2>2. T <= at[d] /\ at[d] + due[d] <= T + S
    BY <1>5 DEF Stands, Layout
  <2>3. at[d] + due[d] <= at[c] \/ at[c] + m <= at[d]
    BY <1>0, <1>1, <1>10 DEF Stands, Layout
  <2>4. y[d] = IF at[d] <= at[c] THEN at[d] ELSE at[d] - m
    BY <1>0, <1>8
  <2> QED BY <1>9, <2>1, <2>2, <2>3, <2>4
<1>11. \A d, e \in P \ {c} : d # e => y[d] + u[d] <= y[e] \/ y[e] + u[e] <= y[d]
  <2>2. ASSUME NEW d \in P, NEW e \in P, d # c, e # c, d # e
        PROVE  y[d] + u[d] <= y[e] \/ y[e] + u[e] <= y[d]
    <3>1. at[d] + due[d] <= at[e] \/ at[e] + due[e] <= at[d]
      BY <2>2 DEF Stands, Layout
    <3> QED BY <1>1, <1>9, <1>10, <2>2, <3>1
  <2> QED BY <2>2
<1>12. \A d \in P \ {c} : T <= y[d] /\ y[d] + u[d] <= T + (S - m)
  BY <1>1, <1>9, <1>10
<1>15. Layout(T, S - m, u, y, P \ {c})
  BY <1>11, <1>12 DEF Layout
<1>16. ASSUME NEW d \in Q PROVE claims[d] >= y[d] \/ y[d] + u[d] <= tail
  <2>1. claims[d] >= at[d] \/ at[d] + due[d] <= tail
    BY DEF Stands, Safe
  <2>2. claims[d] \in Int /\ d \in P /\ d # c
    BY <1>0 DEF Stands
  <2> QED BY <1>0, <1>1, <1>9, <1>10, <2>1, <2>2
<1>17. \A d \in P \ {c} : u[d] > 0
  BY <1>10
<1>19. Stands(M, bound, head, tail, claims, y, won, u, P \ {c}, Q)
  BY <1>0, <1>5, <1>6, <1>15, <1>16, <1>17 DEF Stands, Safe
<1> QED BY <1>2, <1>19

\* c takes what it found.
LEMMA StandsTake ==
    ASSUME NEW M \in Nat, NEW bound \in Nat, NEW head, NEW tail, NEW claims, NEW at, NEW won, NEW due,
           NEW P, NEW Q, Stands(M, bound, head, tail, claims, at, won, due, P, Q),
           NEW c \in DequeueThreads
    PROVE  Stands(M, bound, head + won[c], tail, claims, at, [won EXCEPT ![c] = 0], due, P, Q)
<1>0. /\ won \in [DequeueThreads -> 0 .. M] /\ head \in Nat /\ tail \in Nat
  BY DEF Stands
<1>1. PICK m \in Nat : m = won[c]
  BY <1>0
<1>2. PICK v \in [DequeueThreads -> 0 .. M] : v = [won EXCEPT ![c] = 0]
  <2>1. 0 \in 0 .. M
    OBVIOUS
  <2> QED BY <1>0, <2>1
<1>3. v[c] = 0 /\ \A d \in DequeueThreads \ {c} : v[d] = won[d]
  BY <1>0, <1>2
<1>4. SumOver(won) \in Nat /\ SumOver(v) \in Nat
  BY <1>0, SumType
<1>5. SumOver(v) = SumOver(won) - m
  <2>1. SumOver(v) = SumOver(won) - won[c] + v[c]
    BY <1>0, <1>3, SumChange
  <2> QED BY <1>1, <1>3, <1>4, <2>1
<1>6. PICK h \in Nat : h = head + m
  BY <1>0
<1>7. h + SumOver(v) = head + SumOver(won) /\ tail - h <= Half
  BY <1>0, <1>4, <1>5, <1>6, IndexFacts DEF Stands
<1>8. \A d \in Q : claims[d] <= h + bound
  <2>1. \A d \in Q : claims[d] \in Int /\ claims[d] <= head + bound
    BY DEF Stands
  <2> QED BY <1>0, <1>6, <2>1
<1>9. Stands(M, bound, h, tail, claims, at, v, due, P, Q)
  BY <1>7, <1>8 DEF Stands
<1> QED BY <1>1, <1>2, <1>6, <1>9

LEMMA StandsTail ==
    ASSUME NEW M \in Nat, NEW bound \in Nat, NEW head, NEW tail, NEW claims, NEW at, NEW won, NEW due,
           NEW P, NEW Q, Stands(M, bound, head, tail, claims, at, won, due, P, Q),
           NEW t \in Nat, t >= tail, t - head <= Half
    PROVE  Stands(M, bound, head, t, claims, at, won, due, P, Q)
<1>1. head + SumOver(won) <= t
  <2>1. SumOver(won) \in Nat /\ head \in Nat /\ tail \in Nat /\ head + SumOver(won) <= tail
    BY SumType DEF Stands
  <2> QED BY <2>1
<1>2. Safe(t, claims, at, due, Q)
  <2>1. ASSUME NEW c \in Q PROVE claims[c] >= at[c] \/ at[c] + due[c] <= t
    <3>1. /\ claims[c] >= at[c] \/ at[c] + due[c] <= tail
          /\ at[c] \in Int /\ due[c] \in Nat /\ tail \in Nat
      BY DEF Stands, Safe
    <3> QED BY <3>1
  <2> QED BY <2>1 DEF Safe
<1> QED BY <1>1, <1>2 DEF Stands

-----------------------------------------------------------------------------
(***************************************************************************)
(* What the threads have claimed and won, from where they are.             *)
(***************************************************************************)
WonIn(s) == IF s.pc \in {"giveBack", "take"} THEN s.actual ELSE 0
DueIn(s) == IF s.pc = "reloadTail" THEN s.desired ELSE IF s.pc = "giveBack" THEN s.rest ELSE 0
WonOf(d) == [c \in DequeueThreads |-> WonIn(d[c])]
DueOf(d) == [c \in DequeueThreads |-> DueIn(d[c])]
Claimants(d) == {c \in DequeueThreads : d[c].pc \in {"reloadTail", "giveBack"}}
Unsettled(d) == {c \in DequeueThreads : d[c].pc = "reloadTail"}

DequeuePlaces ==
    {"idle", "loadOvercommit", "loadOptimistic", "claim", "reloadTail", "giveBack", "take",
     "locate", "loadFront", "loadTail", "offset", "move", "setEmpty", "takeOff", "free"}

\* Where a thread may be in a dequeue, and what it then knows.
PlaceOK(M, s) ==
    /\ "pc" \in DOMAIN s /\ s.pc \in DequeuePlaces
    /\ s.pc \in {"loadOvercommit", "loadOptimistic"} => s.max \in 1 .. M /\ s.tail \in Int
    /\ s.pc \in {"loadOptimistic", "claim"} => s.overcommit \in Nat
    /\ s.pc \in {"claim", "reloadTail"} => s.desired \in 1 .. M
    /\ s.pc = "giveBack" => s.rest \in 1 .. M
    /\ s.pc \in {"giveBack", "take"} => s.actual \in 0 .. M

PlacesOK(M, d, over) ==
    /\ DOMAIN d = DequeueThreads /\ over \in Nat
    /\ \A c \in DequeueThreads : PlaceOK(M, d[c])

Reach(M) == M + 2 * (Threads * M)

\* The claims there can be at a time, and M given back, are far fewer than index values.
ClaimsFit(M) ==
    /\ M \in Nat /\ Reach(M) <= Half
    /\ \A s \in SubQueues : s.maxima \subseteq 1 .. M /\ s.bulks \subseteq 1 .. Half - 1

\* No more than M were given back since a thread that claims loaded how many were.
ClaimsAreFresh(M) ==
    \A c \in DequeueThreads :
        dq[c].pc = "claim" => Index(dequeueOvercommit - dq[c].overcommit) <= M

\* The counters are those of head h and tail t.
Numbers(M, d, over, opt, head, tail, h, t, w, y) ==
    /\ head = Index(h) /\ tail = Index(t)
    /\ opt = Index(h + SumOver(WonOf(d)) + SumOver(DueOf(d)) + over)
    /\ \A c \in Unsettled(d) : d[c].claimed = Index(w[c])
    /\ Stands(M, Reach(M), h, t, w, y, WonOf(d), DueOf(d), Claimants(d), Unsettled(d))

LEMMA ReachType ==
    ASSUME NEW M \in Nat
    PROVE  /\ Threads * M \in Nat /\ Reach(M) \in Nat
           /\ Reach(M) = M + 2 * (Threads * M)
<1>1. Threads \in Nat
  BY ProducerBaseAssumption, FS_CardinalityType DEF Threads
<1>2. PICK k \in Nat : k = Threads * M
  BY <1>1
<1> QED BY <1>1, <1>2 DEF Reach

\* From d to e, c goes to s.
Went(d, e, c, s) ==
    /\ DOMAIN e = DequeueThreads /\ e[c] = s /\ \A b \in DequeueThreads \ {c} : e[b] = d[b]
    /\ WonOf(e) = [WonOf(d) EXCEPT ![c] = WonIn(s)]
    /\ DueOf(e) = [DueOf(d) EXCEPT ![c] = DueIn(s)]
    /\ Claimants(e) = IF s.pc \in {"reloadTail", "giveBack"} THEN Claimants(d) \cup {c}
                      ELSE Claimants(d) \ {c}
    /\ Unsettled(e) = IF s.pc = "reloadTail" THEN Unsettled(d) \cup {c} ELSE Unsettled(d) \ {c}

LEMMA Goto ==
    ASSUME NEW d, DOMAIN d = DequeueThreads, NEW c \in DequeueThreads, NEW s,
           NEW e, e = [d EXCEPT ![c] = s]
    PROVE  Went(d, e, c, s)
<1>1. DOMAIN e = DequeueThreads /\ e[c] = s /\ \A b \in DequeueThreads \ {c} : e[b] = d[b]
  OBVIOUS
<1>2. WonOf(e) = [WonOf(d) EXCEPT ![c] = WonIn(s)]
  <2> DEFINE f == [WonOf(d) EXCEPT ![c] = WonIn(s)]
  <2>1. f = [b \in DequeueThreads |-> IF b = c THEN WonIn(s) ELSE WonIn(d[b])]
    BY DEF WonOf
  <2> HIDE DEF f
  <2>2. \A b \in DequeueThreads : WonIn(e[b]) = IF b = c THEN WonIn(s) ELSE WonIn(d[b])
    BY <1>1
  <2>3. WonOf(e) = f
    BY <2>1, <2>2 DEF WonOf
  <2> QED BY <2>3 DEF f
<1>3. DueOf(e) = [DueOf(d) EXCEPT ![c] = DueIn(s)]
  <2> DEFINE f == [DueOf(d) EXCEPT ![c] = DueIn(s)]
  <2>1. f = [b \in DequeueThreads |-> IF b = c THEN DueIn(s) ELSE DueIn(d[b])]
    BY DEF DueOf
  <2> HIDE DEF f
  <2>2. \A b \in DequeueThreads : DueIn(e[b]) = IF b = c THEN DueIn(s) ELSE DueIn(d[b])
    BY <1>1
  <2>3. DueOf(e) = f
    BY <2>1, <2>2 DEF DueOf
  <2> QED BY <2>3 DEF f
<1>4. Claimants(e) = IF s.pc \in {"reloadTail", "giveBack"} THEN Claimants(d) \cup {c}
                     ELSE Claimants(d) \ {c}
  BY <1>1 DEF Claimants
<1>5. Unsettled(e) = IF s.pc = "reloadTail" THEN Unsettled(d) \cup {c} ELSE Unsettled(d) \ {c}
  BY <1>1 DEF Unsettled
<1> QED BY <1>1, <1>2, <1>3, <1>4, <1>5 DEF Went

LEMMA NumbersTypes ==
    ASSUME NEW M \in Nat, NEW d, NEW over, PlacesOK(M, d, over)
    PROVE  /\ WonOf(d) \in [DequeueThreads -> 0 .. M] /\ DueOf(d) \in [DequeueThreads -> 0 .. M]
           /\ SumOver(WonOf(d)) \in Nat /\ SumOver(DueOf(d)) \in Nat /\ over \in Nat
           /\ SumOver(WonOf(d)) <= Threads * M /\ SumOver(DueOf(d)) <= Threads * M
           /\ \A c \in DequeueThreads : WonOf(d)[c] = WonIn(d[c]) /\ DueOf(d)[c] = DueIn(d[c])
<1>1. \A c \in DequeueThreads : WonIn(d[c]) \in 0 .. M /\ DueIn(d[c]) \in 0 .. M
  BY DEF PlacesOK, PlaceOK, WonIn, DueIn
<1>2. WonOf(d) \in [DequeueThreads -> 0 .. M] /\ DueOf(d) \in [DequeueThreads -> 0 .. M]
  BY <1>1 DEF WonOf, DueOf
<1>3. \A c \in DequeueThreads : WonOf(d)[c] = WonIn(d[c]) /\ DueOf(d)[c] = DueIn(d[c])
  BY DEF WonOf, DueOf
<1> QED BY <1>2, <1>3, SumType DEF PlacesOK

\* A step of a thread that has nothing due, nor gets it.
LEMMA CountsQuiet ==
    ASSUME NEW M, ClaimsFit(M), NEW d, NEW over, PlacesOK(M, d, over),
           NEW opt, NEW head, NEW tail, NEW h, NEW t, NEW w, NEW y,
           Numbers(M, d, over, opt, head, tail, h, t, w, y),
           NEW c \in DequeueThreads, d[c].pc \notin {"reloadTail", "giveBack", "take"},
           NEW s, s.pc \notin {"reloadTail", "giveBack", "take"}, PlaceOK(M, s),
           NEW e, e = [d EXCEPT ![c] = s]
    PROVE  PlacesOK(M, e, over) /\ Numbers(M, e, over, opt, head, tail, h, t, w, y)
<1>1. DOMAIN d = DequeueThreads
  BY DEF PlacesOK
<1>2. /\ DOMAIN e = DequeueThreads /\ e[c] = s /\ \A b \in DequeueThreads \ {c} : e[b] = d[b]
      /\ WonOf(e) = [WonOf(d) EXCEPT ![c] = WonIn(s)]
      /\ DueOf(e) = [DueOf(d) EXCEPT ![c] = DueIn(s)]
      /\ Claimants(e) = IF s.pc \in {"reloadTail", "giveBack"} THEN Claimants(d) \cup {c}
                        ELSE Claimants(d) \ {c}
      /\ Unsettled(e) = IF s.pc = "reloadTail" THEN Unsettled(d) \cup {c} ELSE Unsettled(d) \ {c}
  <2>1. Went(d, e, c, s)
    BY <1>1, Goto
  <2> QED BY <2>1 DEF Went
<1>3. WonIn(s) = 0 /\ DueIn(s) = 0 /\ WonIn(d[c]) = 0 /\ DueIn(d[c]) = 0
  BY DEF WonIn, DueIn
<1>4. WonOf(e) = WonOf(d) /\ DueOf(e) = DueOf(d)
  <2>1. WonOf(e) = [WonOf(d) EXCEPT ![c] = WonOf(d)[c]] /\ DueOf(e) = [DueOf(d) EXCEPT ![c] = DueOf(d)[c]]
    BY <1>2, <1>3 DEF WonOf, DueOf
  <2>2. WonOf(d) = [b \in DequeueThreads |-> WonOf(d)[b]] /\ DueOf(d) = [b \in DequeueThreads |-> DueOf(d)[b]]
    BY DEF WonOf, DueOf
  <2> QED BY <2>1, <2>2
<1>5. Claimants(e) = Claimants(d) /\ Unsettled(e) = Unsettled(d)
  BY <1>2 DEF Claimants, Unsettled
<1>6. PlacesOK(M, e, over)
  BY <1>2, <1>4 DEF PlacesOK
<1>7. \A b \in Unsettled(d) : b \in DequeueThreads \ {c}
  BY DEF Unsettled
<1>8. Numbers(M, e, over, opt, head, tail, h, t, w, y)
  BY <1>2, <1>4, <1>5, <1>7 DEF Numbers
<1> QED BY <1>6, <1>8

LEMMA CountsClaim ==
    ASSUME NEW M, ClaimsFit(M), NEW d, NEW over, PlacesOK(M, d, over),
           NEW opt, NEW head, NEW tail, NEW h, NEW t, NEW w, NEW y,
           Numbers(M, d, over, opt, head, tail, h, t, w, y),
           NEW c \in DequeueThreads, d[c].pc = "claim", Index(over - d[c].overcommit) <= M,
           NEW s, s.pc = "reloadTail", s.desired = d[c].desired,
           s.claimed = Index(opt - d[c].overcommit), "pc" \in DOMAIN s,
           NEW e, e = [d EXCEPT ![c] = s]
    PROVE  /\ PlacesOK(M, e, over)
           /\ \E v, z : Numbers(M, e, over, Index(opt + d[c].desired), head, tail, h, t, v, z)
<1>1. DOMAIN d = DequeueThreads /\ M \in Nat /\ PlaceOK(M, d[c])
  BY DEF PlacesOK, ClaimsFit
<1>2. /\ DOMAIN e = DequeueThreads /\ e[c] = s /\ \A b \in DequeueThreads \ {c} : e[b] = d[b]
      /\ WonOf(e) = [WonOf(d) EXCEPT ![c] = WonIn(s)]
      /\ DueOf(e) = [DueOf(d) EXCEPT ![c] = DueIn(s)]
      /\ Claimants(e) = IF s.pc \in {"reloadTail", "giveBack"} THEN Claimants(d) \cup {c}
                        ELSE Claimants(d) \ {c}
      /\ Unsettled(e) = IF s.pc = "reloadTail" THEN Unsettled(d) \cup {c} ELSE Unsettled(d) \ {c}
  <2>1. Went(d, e, c, s)
    BY <1>1, Goto
  <2> QED BY <2>1 DEF Went
<1>3. PICK n \in 1 .. M, o \in Nat : n = d[c].desired /\ o = d[c].overcommit
  BY <1>1 DEF PlaceOK
<1>4. WonIn(s) = 0 /\ DueIn(s) = n /\ WonIn(d[c]) = 0 /\ DueIn(d[c]) = 0
  BY <1>3 DEF WonIn, DueIn
<1>5. PlaceOK(M, s)
  BY <1>3 DEF PlaceOK, DequeuePlaces
<1>6. /\ WonOf(d) \in [DequeueThreads -> 0 .. M] /\ DueOf(d) \in [DequeueThreads -> 0 .. M]
      /\ SumOver(WonOf(d)) \in Nat /\ SumOver(DueOf(d)) \in Nat /\ over \in Nat
      /\ SumOver(WonOf(d)) <= Threads * M /\ SumOver(DueOf(d)) <= Threads * M
      /\ WonOf(d)[c] = 0 /\ DueOf(d)[c] = 0
  BY <1>1, <1>4, NumbersTypes
<1>7. WonOf(e) = WonOf(d)
  <2>1. WonOf(e) = [WonOf(d) EXCEPT ![c] = WonOf(d)[c]]
    BY <1>2, <1>4, <1>6
  <2>2. WonOf(d) = [b \in DequeueThreads |-> WonOf(d)[b]]
    BY DEF WonOf
  <2> QED BY <2>1, <2>2
<1>8. PICK k \in Nat, W \in Nat, S \in Nat : k = Threads * M /\ W = SumOver(WonOf(d)) /\ S = SumOver(DueOf(d))
  BY <1>1, <1>6, ReachType
<1>9. PICK u \in [DequeueThreads -> 0 .. M] : u = DueOf(e)
  <2>1. n \in 0 .. M
    BY <1>1
  <2> QED BY <1>2, <1>4, <1>6, <2>1
<1>10. SumOver(u) = S + n /\ SumOver(u) <= k
  <2>1. u[c] = n /\ \A b \in DequeueThreads \ {c} : u[b] = DueOf(d)[b]
    BY <1>2, <1>4, <1>6, <1>9
  <2>2. SumOver(u) = SumOver(DueOf(d)) - DueOf(d)[c] + u[c]
    BY <1>1, <1>6, <2>1, SumChange
  <2>3. SumOver(u) <= k
    BY <1>1, <1>8, SumType
  <2> QED BY <1>6, <1>8, <2>1, <2>2, <2>3
<1>11. PlacesOK(M, e, over)
  BY <1>2, <1>5, <1>6 DEF PlacesOK
<1>12. /\ head = Index(h) /\ tail = Index(t) /\ h \in Nat /\ t \in Nat
       /\ opt = Index(h + W + S + over)
       /\ \A b \in Unsettled(d) : d[b].claimed = Index(w[b])
       /\ Stands(M, Reach(M), h, t, w, y, WonOf(d), DueOf(d), Claimants(d), Unsettled(d))
  BY <1>8 DEF Numbers, Stands
<1>13. PICK T \in Int, z \in Nat, x \in Int :
           T = h + W + S + over /\ z = Index(over - o) /\ z <= M /\ x = h + W + S + z
  <2>1. over - o \in Int
    BY <1>6
  <2> QED BY <1>1, <1>3, <1>6, <1>8, <1>12, <2>1, IndexType
<1>14. s.claimed = Index(x)
  <2>1. T - o \in Int /\ over - o \in Int /\ h + W + S \in Int /\ T - o = (over - o) + (h + W + S)
    BY <1>6, <1>12, <1>13
  <2>2. Index(opt - o) = Index(T - o)
    BY <1>12, <1>13, IndexOfIndex
  <2>3. Index(Index(over - o) + (h + W + S)) = Index((over - o) + (h + W + S))
    BY <2>1, IndexOfIndex
  <2>4. z + (h + W + S) = x
    BY <1>12, <1>13
  <2> QED BY <1>3, <1>13, <2>1, <2>2, <2>3, <2>4
<1>15. Index(opt + n) = Index(h + W + (S + n) + over)
  <2>1. n \in Int /\ T + n = h + W + (S + n) + over
    BY <1>1, <1>6, <1>8, <1>12, <1>13
  <2> QED BY <1>12, <1>13, <2>1, IndexOfIndex
<1>16. c \in DequeueThreads \ Claimants(d)
  BY DEF Claimants
<1>17. h + SumOver(WonOf(d)) + SumOver(DueOf(d)) <= x /\ x <= h + Reach(M)
  <2>1. Reach(M) = M + 2 * k
    BY <1>1, <1>8, ReachType
  <2>2. W <= k /\ S <= k
    BY <1>6, <1>8
  <2> QED BY <1>1, <1>8, <1>12, <1>13, <2>1, <2>2
<1>18. PICK at : at = [y EXCEPT ![c] = h + SumOver(WonOf(d)) + SumOver(DueOf(d))]
  OBVIOUS
<1>19. PICK v : v = [w EXCEPT ![c] = x]
  OBVIOUS
<1>20. Stands(M, Reach(M), h, t, v, at, WonOf(e), DueOf(e), Claimants(e), Unsettled(e))
  <2>1. Reach(M) \in Nat
    BY <1>1, ReachType
  <2>2. Stands(M, Reach(M), h, t, v, at, WonOf(d), [DueOf(d) EXCEPT ![c] = n], Claimants(d) \cup {c},
               Unsettled(d) \cup {c})
    BY <1>1, <1>6, <1>12, <1>16, <1>17, <1>18, <1>19, <2>1, StandsClaim
  <2> QED BY <1>2, <1>4, <1>7, <2>2
<1>21. \A b \in Unsettled(e) : e[b].claimed = Index(v[b])
  <2>1. Unsettled(e) = Unsettled(d) \cup {c} /\ c \notin Unsettled(d) /\ Unsettled(d) \subseteq DequeueThreads
    BY <1>2 DEF Unsettled
  <2>2. w \in [DequeueThreads -> Int]
    BY <1>12 DEF Stands
  <2>3. v[c] = x /\ \A b \in DequeueThreads \ {c} : v[b] = w[b]
    BY <1>19, <2>2
  <2> QED BY <1>2, <1>12, <1>14, <2>1, <2>3
<1>22. Numbers(M, e, over, Index(opt + d[c].desired), head, tail, h, t, v, at)
  BY <1>3, <1>7, <1>8, <1>9, <1>10, <1>12, <1>15, <1>20, <1>21 DEF Numbers
<1> QED BY <1>11, <1>22

LEMMA LesserOf ==
    ASSUME NEW a \in Int, NEW b \in Int
    PROVE  Min({a, b}) = IF a <= b THEN a ELSE b
<1>1. PICK m \in {a, b} : m = IF a <= b THEN a ELSE b
  OBVIOUS
<1>2. \A x \in {a, b} : m <= x
  BY <1>1
<1>3. \A z \in {a, b} : (\A x \in {a, b} : z <= x) => z = m
  BY <1>1, <1>2
<1>4. (CHOOSE z \in {a, b} : \A x \in {a, b} : z <= x) = m
  BY <1>1, <1>2, <1>3
<1> QED BY <1>1, <1>4 DEF Min

\* What is there, from a number on, if it is before the tail.
LEMMA ThereIs ==
    ASSUME NEW i \in Nat, i < IndexValues
    PROVE  CircularLess(0, i) <=> 0 < i /\ i < Half
<1>1. 0 - i \in Int /\ -IndexValues <= 0 - i /\ 0 - i < IndexValues
  BY IndexFacts
<1>2. Index(0 - i) = IF 0 - i >= 0 THEN 0 - i ELSE 0 - i + IndexValues
  BY <1>1, IndexSmall
<1>3. PICK H \in Nat : H = Half /\ IndexValues = 2 * H /\ IndexValues \div 2 = H
  BY IndexFacts DEF Half
<1> QED BY <1>2, <1>3 DEF CircularLess

\* A claim is found to be there no further than the tail, though the number it is
\* compared at, x, may be ahead of its place, a, or far behind.
LEMMA FoundIsThere ==
    ASSUME NEW h \in Nat, NEW t \in Nat, NEW x \in Int, NEW a \in Int, NEW m \in Nat, NEW r \in Nat,
           h <= a, t - h <= Half, x <= h + r, r <= Half, h <= t,
           x >= a \/ a + m <= t, NEW there, there = Index(t - x),
           NEW n, n = IF CircularLess(0, there) THEN Min({there, m}) ELSE 0
    PROVE  n \in 0 .. m /\ (n = 0 \/ a + n <= t)
<1>0. t - x \in Int /\ Half \in Nat /\ IndexValues = 2 * Half
  BY IndexFacts
<1>1. there \in Nat /\ there < IndexValues
  BY <1>0, IndexType
<1>2. CircularLess(0, there) <=> 0 < there /\ there < Half
  BY <1>1, ThereIs
<1>3. n \in 0 .. m /\ (n = 0 \/ (0 < there /\ there < Half /\ n <= there))
  BY <1>1, <1>2, LesserOf
<1>4. CASE a + m <= t
  BY <1>3, <1>4
<1>5. CASE x >= a
  <2>1. -IndexValues <= t - x /\ t - x < IndexValues /\ -Half <= t - x
    BY <1>0, <1>5, IndexFacts
  <2>2. there = IF t - x >= 0 THEN t - x ELSE t - x + IndexValues
    BY <1>0, <2>1, IndexSmall
  <2>3. n = 0 \/ n <= t - x
    BY <1>0, <1>1, <1>3, <2>1, <2>2
  <2> QED BY <1>3, <1>5, <2>3
<1> QED BY <1>4, <1>5

\* The sum is that with n in place of f[c].
SumIsWith(f, c, n) == SumOver([f EXCEPT ![c] = n]) = SumOver(f) - f[c] + n

LEMMA SumPut ==
    ASSUME NEW M \in Nat, NEW f \in [DequeueThreads -> 0 .. M], NEW c \in DequeueThreads, NEW n \in 0 .. M
    PROVE  SumIsWith(f, c, n)
<1>1. PICK g \in [DequeueThreads -> 0 .. M] : g = [f EXCEPT ![c] = n]
  OBVIOUS
<1>2. g[c] = n /\ \A d \in DequeueThreads \ {c} : g[d] = f[d]
  BY <1>1
<1>3. SumOver(g) = SumOver(f) - f[c] + g[c]
  BY <1>2, SumChange
<1> QED BY <1>1, <1>2, <1>3 DEF SumIsWith

LEMMA CountsDecide ==
    ASSUME NEW M, ClaimsFit(M), NEW d, NEW over, PlacesOK(M, d, over),
           NEW opt, NEW head, NEW tail, NEW h, NEW t, NEW w, NEW y,
           Numbers(M, d, over, opt, head, tail, h, t, w, y),
           NEW c \in DequeueThreads, d[c].pc = "reloadTail",
           NEW there, there = Index(tail - d[c].claimed),
           NEW n, n = IF CircularLess(0, there) THEN Min({there, d[c].desired}) ELSE 0,
           NEW s, s.pc = IF n = d[c].desired THEN "take" ELSE "giveBack", s.actual = n,
           s.pc = "giveBack" => s.rest = d[c].desired - n, "pc" \in DOMAIN s,
           NEW e, e = [d EXCEPT ![c] = s]
    PROVE  \E z : PlacesOK(M, e, over) /\ Numbers(M, e, over, opt, head, tail, h, t, w, z)
<1>1. /\ DOMAIN d = DequeueThreads /\ M \in Nat /\ PlaceOK(M, d[c])
      /\ Reach(M) \in Nat /\ Reach(M) <= Half
  BY ReachType DEF PlacesOK, ClaimsFit
<1>2. Went(d, e, c, s)
  BY <1>1, Goto
<1>3. PICK m \in 1 .. M : m = d[c].desired
  BY <1>1 DEF PlaceOK
<1>4. WonIn(d[c]) = 0 /\ DueIn(d[c]) = m
  BY <1>3 DEF WonIn, DueIn
<1>5. /\ WonOf(d) \in [DequeueThreads -> 0 .. M] /\ DueOf(d) \in [DequeueThreads -> 0 .. M]
      /\ over \in Nat /\ WonOf(d)[c] = 0 /\ DueOf(d)[c] = m
      /\ SumOver(WonOf(d)) \in Nat /\ SumOver(DueOf(d)) \in Nat
  BY <1>1, <1>4, NumbersTypes
<1>6. PICK W \in Nat, S \in Nat : W = SumOver(WonOf(d)) /\ S = SumOver(DueOf(d))
  BY <1>5
<1>7. /\ head = Index(h) /\ tail = Index(t) /\ opt = Index(h + W + S + over)
      /\ \A b \in Unsettled(d) : d[b].claimed = Index(w[b])
      /\ Stands(M, Reach(M), h, t, w, y, WonOf(d), DueOf(d), Claimants(d), Unsettled(d))
  BY <1>6 DEF Numbers
<1>8. c \in Unsettled(d) /\ c \in Claimants(d)
  BY DEF Unsettled, Claimants
<1>9. PICK x \in Int, a \in Int : x = w[c] /\ a = y[c]
  BY <1>7 DEF Stands
<1>10. /\ h \in Nat /\ t \in Nat /\ h <= a /\ t - h <= Half /\ x <= h + Reach(M) /\ h <= t
       /\ x >= a \/ a + m <= t
  <2>1. h \in Nat /\ t \in Nat /\ h + W <= t /\ t - h <= Half /\ x <= h + Reach(M)
    BY <1>6, <1>7, <1>8, <1>9 DEF Stands
  <2>2. h + W <= a
    BY <1>6, <1>7, <1>8, <1>9 DEF Stands, Layout
  <2>3. x >= a \/ a + m <= t
    BY <1>5, <1>7, <1>8, <1>9 DEF Stands, Safe
  <2> QED BY <1>6, <2>1, <2>2, <2>3
<1>11. there = Index(t - x)
  BY <1>7, <1>8, <1>9, <1>10, IndexDifference
<1>12. n \in 0 .. m /\ (n = 0 \/ a + n <= t)
  <2>1. n = IF CircularLess(0, there) THEN Min({there, m}) ELSE 0
    BY <1>3
  <2>2. m \in Nat
    OBVIOUS
  <2> QED BY <1>1, <1>10, <1>11, <2>1, <2>2, FoundIsThere
<1>13. PICK k \in 0 .. M : k = m - n /\ n \in 0 .. M
  BY <1>1, <1>12
<1>14. WonIn(s) = n /\ DueIn(s) = k
  BY <1>3, <1>13, <1>12 DEF WonIn, DueIn
<1>15. WonOf(e) = [WonOf(d) EXCEPT ![c] = n] /\ DueOf(e) = [DueOf(d) EXCEPT ![c] = k]
  BY <1>2, <1>14 DEF Went
<1>16. SumOver(WonOf(e)) = W + n /\ SumOver(DueOf(e)) = S - n
  <2>1. /\ SumOver([WonOf(d) EXCEPT ![c] = n]) = SumOver(WonOf(d)) - WonOf(d)[c] + n
        /\ SumOver([DueOf(d) EXCEPT ![c] = k]) = SumOver(DueOf(d)) - DueOf(d)[c] + k
    <3>1. M \in Nat /\ n \in 0 .. M /\ WonOf(d) \in [DequeueThreads -> 0 .. M] /\ DueOf(d) \in [DequeueThreads -> 0 .. M]
      BY <1>1, <1>5, <1>13
    <3>2. SumIsWith(WonOf(d), c, n) /\ SumIsWith(DueOf(d), c, k)
      BY ONLY <3>1, c \in DequeueThreads, k \in 0 .. M, SumPut
    <3> QED BY <3>2 DEF SumIsWith
  <2>2. W - 0 + n = W + n /\ S - m + k = S - n
    BY <1>13
  <2> QED BY <1>5, <1>6, <1>15, <2>1, <2>2
<1>17. PlaceOK(M, s)
  BY <1>3, <1>12, <1>13 DEF PlaceOK, DequeuePlaces
<1>18. PlacesOK(M, e, over)
  <2>1. \A b \in DequeueThreads : PlaceOK(M, e[b])
    BY <1>2, <1>17 DEF Went, PlacesOK
  <2> QED BY <1>2, <1>5, <2>1 DEF Went, PlacesOK
<1>19. Claimants(e) = IF n = m THEN Claimants(d) \ {c} ELSE Claimants(d)
  BY <1>2, <1>3, <1>8 DEF Went
<1>20. Unsettled(e) = Unsettled(d) \ {c}
  BY <1>2 DEF Went
<1>21. \E z : Stands(M, Reach(M), h, t, w, z, WonOf(e), DueOf(e), Claimants(e), Unsettled(e))
  <2>1. \E z : Stands(M, Reach(M), h, t, w, z, [WonOf(d) EXCEPT ![c] = n],
                      [DueOf(d) EXCEPT ![c] = DueOf(d)[c] - n],
                      IF n = DueOf(d)[c] THEN Claimants(d) \ {c} ELSE Claimants(d), Unsettled(d) \ {c})
    <3>1. n \in 0 .. DueOf(d)[c] /\ (n = 0 \/ y[c] + n <= t)
      BY <1>5, <1>9, <1>12
    <3>2. PICK r, f, g, P, Q :
              r = Reach(M) /\ f = WonOf(d) /\ g = DueOf(d) /\ P = Claimants(d) /\ Q = Unsettled(d)
      BY <1>1
    <3>3. /\ M \in Nat /\ r \in Nat /\ Stands(M, r, h, t, w, y, f, g, P, Q) /\ c \in Q /\ f[c] = 0
          /\ n \in 0 .. g[c] /\ (n = 0 \/ y[c] + n <= t)
      BY <1>1, <1>5, <1>7, <1>8, <3>1, <3>2
    <3>4. \E z : Stands(M, r, h, t, w, z, [f EXCEPT ![c] = n], [g EXCEPT ![c] = g[c] - n],
                        IF n = g[c] THEN P \ {c} ELSE P, Q \ {c})
      BY ONLY <3>3, StandsDecide
    <3> QED BY <3>2, <3>4
  <2>2. [DueOf(d) EXCEPT ![c] = DueOf(d)[c] - n] = DueOf(e)
    BY <1>5, <1>13, <1>15
  <2>3. (IF n = DueOf(d)[c] THEN Claimants(d) \ {c} ELSE Claimants(d)) = Claimants(e)
    BY <1>5, <1>19
  <2> QED BY ONLY <1>15, <1>20, <2>1, <2>2, <2>3
<1>22. opt = Index(h + SumOver(WonOf(e)) + SumOver(DueOf(e)) + over)
  <2>1. h + (W + n) + (S - n) + over = h + W + S + over
    BY <1>5, <1>10, <1>12
  <2> QED BY <1>7, <1>16, <2>1
<1>23. \A b \in Unsettled(e) : e[b].claimed = Index(w[b])
  <2>1. \A b \in Unsettled(e) : b \in Unsettled(d) /\ b \in DequeueThreads \ {c}
    BY <1>20 DEF Unsettled
  <2> QED BY <1>2, <1>7, <2>1 DEF Went
<1> QED BY <1>7, <1>18, <1>21, <1>22, <1>23 DEF Numbers

LEMMA CountsGiveBack ==
    ASSUME NEW M, ClaimsFit(M), NEW d, NEW over, PlacesOK(M, d, over),
           NEW opt, NEW head, NEW tail, NEW h, NEW t, NEW w, NEW y,
           Numbers(M, d, over, opt, head, tail, h, t, w, y),
           NEW c \in DequeueThreads, d[c].pc = "giveBack",
           NEW s, "pc" \in DOMAIN s,
           IF d[c].actual = 0 THEN s.pc = "idle" ELSE s.pc = "take" /\ s.actual = d[c].actual,
           NEW e, e = [d EXCEPT ![c] = s]
    PROVE  /\ PlacesOK(M, e, Index(over + d[c].rest))
           /\ \E z : Numbers(M, e, Index(over + d[c].rest), opt, head, tail, h, t, w, z)
<1>1. DOMAIN d = DequeueThreads /\ M \in Nat /\ PlaceOK(M, d[c])
  BY DEF PlacesOK, ClaimsFit
<1>2. Went(d, e, c, s)
  BY <1>1, Goto
<1>3. PICK m \in 1 .. M, n \in 0 .. M : m = d[c].rest /\ n = d[c].actual
  BY <1>1 DEF PlaceOK
<1>4. WonIn(d[c]) = n /\ DueIn(d[c]) = m /\ WonIn(s) = n /\ DueIn(s) = 0
  BY <1>3 DEF WonIn, DueIn
<1>5. /\ WonOf(d) \in [DequeueThreads -> 0 .. M] /\ DueOf(d) \in [DequeueThreads -> 0 .. M]
      /\ over \in Nat /\ WonOf(d)[c] = n /\ DueOf(d)[c] = m
      /\ SumOver(WonOf(d)) \in Nat /\ SumOver(DueOf(d)) \in Nat
  BY <1>1, <1>4, NumbersTypes
<1>6. PICK W \in Nat, S \in Nat : W = SumOver(WonOf(d)) /\ S = SumOver(DueOf(d))
  BY <1>5
<1>7. /\ head = Index(h) /\ tail = Index(t) /\ opt = Index(h + W + S + over) /\ h \in Nat
      /\ \A b \in Unsettled(d) : d[b].claimed = Index(w[b])
      /\ Stands(M, Reach(M), h, t, w, y, WonOf(d), DueOf(d), Claimants(d), Unsettled(d))
  BY <1>6 DEF Numbers, Stands
<1>8. c \in Claimants(d) \ Unsettled(d)
  BY DEF Unsettled, Claimants
<1>9. WonOf(e) = WonOf(d)
  <2>1. WonOf(e) = [WonOf(d) EXCEPT ![c] = WonOf(d)[c]]
    BY <1>2, <1>4, <1>5 DEF Went
  <2>2. WonOf(d) = [b \in DequeueThreads |-> WonOf(d)[b]]
    BY DEF WonOf
  <2> QED BY <2>1, <2>2
<1>10. DueOf(e) = [DueOf(d) EXCEPT ![c] = 0]
  BY <1>2, <1>4 DEF Went
<1>11. SumOver(DueOf(e)) = S - m /\ S - m \in Nat
  <2>0. 0 \in 0 .. M
    BY <1>1
  <2>1. SumOver([DueOf(d) EXCEPT ![c] = 0]) = SumOver(DueOf(d)) - DueOf(d)[c] + 0
    <3>1. M \in Nat /\ DueOf(d) \in [DequeueThreads -> 0 .. M]
      BY <1>1, <1>5
    <3>2. SumIsWith(DueOf(d), c, 0)
      BY ONLY <3>1, c \in DequeueThreads, <2>0, SumPut
    <3> QED BY <3>2 DEF SumIsWith
  <2>2. [DueOf(d) EXCEPT ![c] = 0] \in [DequeueThreads -> 0 .. M]
    BY <1>5, <2>0
  <2>3. SumOver([DueOf(d) EXCEPT ![c] = 0]) \in Nat
    BY <1>1, <2>2, SumType
  <2>4. S - m + 0 = S - m
    OBVIOUS
  <2> QED BY <1>5, <1>6, <1>10, <2>1, <2>3, <2>4
<1>12. PICK o \in Nat : o = Index(over + m)
  <2>1. over + m \in Int
    BY <1>5
  <2> QED BY <2>1, IndexType
<1>14. PlaceOK(M, s)
  BY <1>3 DEF PlaceOK, DequeuePlaces
<1>15. \A b \in DequeueThreads \ {c} : PlaceOK(M, e[b])
  BY <1>2 DEF Went, PlacesOK
<1>16. PlacesOK(M, e, o)
  <2>1. \A b \in DequeueThreads : PlaceOK(M, e[b])
    BY <1>2, <1>14, <1>15 DEF Went
  <2> QED BY <1>2, <2>1 DEF Went, PlacesOK
<1>17. Claimants(e) = Claimants(d) \ {c} /\ Unsettled(e) = Unsettled(d)
  <2>1. s.pc \notin {"reloadTail", "giveBack"}
    BY <1>3
  <2> QED BY <1>2, <1>8, <2>1 DEF Went
<1>18. \E z : Stands(M, Reach(M), h, t, w, z, WonOf(e), DueOf(e), Claimants(e), Unsettled(e))
  <2>1. Reach(M) \in Nat
    BY <1>1, ReachType
  <2>2. \E z : Stands(M, Reach(M), h, t, w, z, WonOf(d), [DueOf(d) EXCEPT ![c] = 0],
                      Claimants(d) \ {c}, Unsettled(d))
    BY <1>1, <1>7, <1>8, <2>1, StandsGiveBack
  <2> QED BY <1>9, <1>10, <1>17, <2>2
<1>19. opt = Index(h + SumOver(WonOf(e)) + SumOver(DueOf(e)) + o)
  <2>1. PICK k \in Int : k = h + W + (S - m)
    BY <1>7, <1>11
  <2>2. over + m \in Int /\ (over + m) + k = h + W + S + over
    BY <1>5, <1>7, <2>1
  <2>3. Index(o + k) = Index((over + m) + k)
    BY <1>12, <2>1, <2>2, IndexOfIndex
  <2>4. h + W + (S - m) + o = o + k
    BY <1>12, <2>1
  <2> QED BY <1>6, <1>7, <1>9, <1>11, <2>2, <2>3, <2>4
<1>20. \A b \in Unsettled(e) : e[b].claimed = Index(w[b])
  <2>1. \A b \in Unsettled(e) : b \in Unsettled(d) /\ b \in DequeueThreads \ {c}
    BY <1>8, <1>17 DEF Unsettled
  <2> QED BY <1>2, <1>7, <2>1 DEF Went
<1>21. \E z : Numbers(M, e, o, opt, head, tail, h, t, w, z)
  BY <1>7, <1>18, <1>19, <1>20 DEF Numbers
<1> QED BY <1>3, <1>12, <1>16, <1>21

LEMMA CountsTake ==
    ASSUME NEW M, ClaimsFit(M), NEW d, NEW over, PlacesOK(M, d, over),
           NEW opt, NEW head, NEW tail, NEW h, NEW t, NEW w, NEW y,
           Numbers(M, d, over, opt, head, tail, h, t, w, y),
           NEW c \in DequeueThreads, d[c].pc = "take",
           NEW s, s.pc = "locate", "pc" \in DOMAIN s,
           NEW e, e = [d EXCEPT ![c] = s]
    PROVE  /\ PlacesOK(M, e, over)
           /\ d[c].actual \in Nat
           /\ Numbers(M, e, over, opt, Index(head + d[c].actual), tail, h + d[c].actual, t, w, y)
<1>1. DOMAIN d = DequeueThreads /\ M \in Nat /\ PlaceOK(M, d[c])
  BY DEF PlacesOK, ClaimsFit
<1>2. Went(d, e, c, s)
  BY <1>1, Goto
<1>3. PICK n \in 0 .. M : n = d[c].actual
  BY <1>1 DEF PlaceOK
<1>4. WonIn(d[c]) = n /\ DueIn(d[c]) = 0 /\ WonIn(s) = 0 /\ DueIn(s) = 0
  BY <1>3 DEF WonIn, DueIn
<1>5. /\ WonOf(d) \in [DequeueThreads -> 0 .. M] /\ DueOf(d) \in [DequeueThreads -> 0 .. M]
      /\ over \in Nat /\ WonOf(d)[c] = n /\ DueOf(d)[c] = 0
      /\ SumOver(WonOf(d)) \in Nat /\ SumOver(DueOf(d)) \in Nat
  BY <1>1, <1>4, NumbersTypes
<1>6. PICK W \in Nat, S \in Nat : W = SumOver(WonOf(d)) /\ S = SumOver(DueOf(d))
  BY <1>5
<1>7. /\ head = Index(h) /\ tail = Index(t) /\ opt = Index(h + W + S + over) /\ h \in Nat
      /\ \A b \in Unsettled(d) : d[b].claimed = Index(w[b])
      /\ Stands(M, Reach(M), h, t, w, y, WonOf(d), DueOf(d), Claimants(d), Unsettled(d))
  BY <1>6 DEF Numbers, Stands
<1>8. c \notin Claimants(d) /\ c \notin Unsettled(d)
  BY DEF Unsettled, Claimants
<1>9. DueOf(e) = DueOf(d)
  <2>1. DueOf(e) = [DueOf(d) EXCEPT ![c] = DueOf(d)[c]]
    BY <1>2, <1>4, <1>5 DEF Went
  <2>2. DueOf(d) = [b \in DequeueThreads |-> DueOf(d)[b]]
    BY DEF DueOf
  <2> QED BY <2>1, <2>2
<1>10. WonOf(e) = [WonOf(d) EXCEPT ![c] = 0]
  BY <1>2, <1>4 DEF Went
<1>11. SumOver(WonOf(e)) = W - n /\ W - n \in Nat
  <2>0. 0 \in 0 .. M
    BY <1>1
  <2>1. SumOver([WonOf(d) EXCEPT ![c] = 0]) = SumOver(WonOf(d)) - WonOf(d)[c] + 0
    <3>1. M \in Nat /\ WonOf(d) \in [DequeueThreads -> 0 .. M]
      BY <1>1, <1>5
    <3>2. SumIsWith(WonOf(d), c, 0)
      BY ONLY <3>1, c \in DequeueThreads, <2>0, SumPut
    <3> QED BY <3>2 DEF SumIsWith
  <2>2. [WonOf(d) EXCEPT ![c] = 0] \in [DequeueThreads -> 0 .. M]
    BY <1>5, <2>0
  <2>3. SumOver([WonOf(d) EXCEPT ![c] = 0]) \in Nat
    BY <1>1, <2>2, SumType
  <2>4. W - n + 0 = W - n
    OBVIOUS
  <2> QED BY <1>5, <1>6, <1>10, <2>1, <2>3, <2>4
<1>12. PlaceOK(M, s)
  BY DEF PlaceOK, DequeuePlaces
<1>13. PlacesOK(M, e, over)
  BY <1>2, <1>9, <1>12 DEF Went, PlacesOK
<1>14. Claimants(e) = Claimants(d) /\ Unsettled(e) = Unsettled(d)
  BY <1>2, <1>8 DEF Went
<1>15. Stands(M, Reach(M), h + n, t, w, y, WonOf(e), DueOf(e), Claimants(e), Unsettled(e))
  <2>1. Reach(M) \in Nat
    BY <1>1, ReachType
  <2>2. Stands(M, Reach(M), h + WonOf(d)[c], t, w, y, [WonOf(d) EXCEPT ![c] = 0], DueOf(d),
               Claimants(d), Unsettled(d))
    BY <1>1, <1>7, <2>1, StandsTake
  <2> QED BY <1>5, <1>9, <1>10, <1>14, <2>2
<1>16. opt = Index((h + n) + SumOver(WonOf(e)) + SumOver(DueOf(e)) + over)
  <2>1. (h + n) + (W - n) + S + over = h + W + S + over
    BY <1>5, <1>7
  <2> QED BY <1>6, <1>7, <1>9, <1>11, <2>1
<1>17. Index(head + n) = Index(h + n)
  BY <1>7, IndexOfIndex
<1>18. \A b \in Unsettled(e) : e[b].claimed = Index(w[b])
  <2>1. \A b \in Unsettled(d) : b \in DequeueThreads \ {c}
    BY <1>8 DEF Unsettled
  <2> QED BY <1>2, <1>7, <1>14, <2>1 DEF Went
<1>19. Numbers(M, e, over, opt, Index(head + n), tail, h + n, t, w, y)
  BY <1>7, <1>15, <1>16, <1>17, <1>18 DEF Numbers
<1> QED BY <1>1, <1>3, <1>13, <1>19

LEMMA CountsTail ==
    ASSUME NEW M, ClaimsFit(M), NEW d, NEW over, NEW opt, NEW head, NEW tail, NEW h, NEW t, NEW w, NEW y,
           Numbers(M, d, over, opt, head, tail, h, t, w, y),
           NEW x \in Nat, x >= t, x - h <= Half
    PROVE  Numbers(M, d, over, opt, head, Index(x), h, x, w, y)
<1>1. Reach(M) \in Nat /\ M \in Nat
  BY ReachType DEF ClaimsFit
<1>2. Stands(M, Reach(M), h, t, w, y, WonOf(d), DueOf(d), Claimants(d), Unsettled(d))
  BY DEF Numbers
<1>3. Stands(M, Reach(M), h, x, w, y, WonOf(d), DueOf(d), Claimants(d), Unsettled(d))
  BY <1>1, <1>2, StandsTail
<1> QED BY <1>3 DEF Numbers

-----------------------------------------------------------------------------
(***************************************************************************)
(* The invariant.                                                          *)
(***************************************************************************)
Whole(g) == \E k \in Int : g = BLOCK_SIZE * k

ImplicitForward ==
    {"loadHead", "insert", "grow", "insertTail", "requisition", "tryConstruct", "setValue",
     "construct", "publishTail"}
ImplicitBack == {"idle", "rewind", "clearValue", "returnBlock", "revertEntry", "revertTail", "release"}

\* Where an implicit producer is; without more blocks needed only when it has them all.
ImplicitPlaceOK(e) ==
    /\ "pc" \in DOMAIN e /\ e.pc \in ImplicitForward \cup ImplicitBack
    /\ e.pc \in ImplicitForward =>
           /\ {"n", "need", "base"} \subseteq DOMAIN e
           /\ e.n \in Nat /\ e.n < Half /\ e.need \in Int /\ e.base \in Int
           /\ e.pc \in {"construct", "publishTail"} => e.need = 0

ExplicitSingle ==
    {"idle", "reuse", "loadHead", "grow", "requisition", "construct", "publishFront", "publishTail"}
ExplicitBulk ==
    {"bulkReuse", "bulkLoadHead", "bulkGrow", "bulkRequisition", "bulkReset", "bulkConstruct",
     "bulkPublishFront", "bulkPublishTail"}

ExplicitPlaceOK(e) ==
    /\ "pc" \in DOMAIN e /\ e.pc \in ExplicitSingle \cup ExplicitBulk
    /\ e.pc \in ExplicitBulk => "n" \in DOMAIN e /\ e.n \in Nat /\ e.n < Half

\* The blocks up to g lie less than half the range from the head.
Granted(g, h, t) == g \in Int /\ Whole(g) /\ t <= g /\ g - h <= Half

\* An implicit producer fills its blocks no further than it has leeway: those it has,
\* and those it has in this call, with which it has room once it needs no more.
RoomIsGiven(e, h, t) ==
    /\ \E g \in Int : Granted(g, h, t)
    /\ e.pc \in ImplicitForward =>
           \E g \in Int : /\ Granted(g, h, t)
                          /\ Index(e.base + BLOCK_SIZE) = Index(g)
                          /\ g + BLOCK_SIZE * e.need >= t + e.n

NumbersStand(M) ==
    \E h, t, w, y :
        /\ Numbers(M, dq, dequeueOvercommit, dequeueOptimisticCount, headIndex, tailIndex, h, t, w, y)
        /\ ~sub.isExplicit => RoomIsGiven(eq, h, t)

CountsInv(M) ==
    /\ sub \in SubQueues
    /\ PlacesOK(M, dq, dequeueOvercommit)
    /\ IF sub.isExplicit THEN ExplicitPlaceOK(eq) ELSE ImplicitPlaceOK(eq)
    /\ NumbersStand(M)

-----------------------------------------------------------------------------
(***************************************************************************)
(* The steps of the threads that dequeue.                                  *)
(***************************************************************************)
LoadsTail(c, max) ==
    /\ dq[c].pc = "idle"
    /\ DqGoto(c, [pc |-> "loadOvercommit", max |-> max, tail |-> tailIndex])
    /\ UNCHANGED counterVars

Counting(c) ==
    \/ \E max \in sub.maxima : LoadsTail(c, max)
    \/ DequeueLoadOvercommit(c) \/ DequeueLoadOptimistic(c) \/ DequeueClaim(c)
    \/ DequeueReloadTail(c) \/ DequeueGiveBack(c) \/ DequeueTake(c)

\* After the indices were taken, a step counts nothing.
Locating == {"locate", "loadFront", "loadTail", "offset", "move", "setEmpty", "takeOff", "free"}
Moving(c) ==
    /\ UNCHANGED counterVars
    /\ dq[c].pc \in Locating
    /\ \E s : /\ dq' = [dq EXCEPT ![c] = s]
              /\ "pc" \in DOMAIN s /\ s.pc \in Locating \cup {"idle"}

LEMMA RoomKept ==
    ASSUME NEW e, NEW h \in Nat, NEW t \in Nat, RoomIsGiven(e, h, t), NEW i \in Nat, h <= i
    PROVE  RoomIsGiven(e, i, t)
<1>1. \A g \in Int : Granted(g, h, t) => Granted(g, i, t)
  <2>1. ASSUME NEW g \in Int, Granted(g, h, t) PROVE Granted(g, i, t)
    BY <2>1, IndexFacts DEF Granted
  <2> QED BY <2>1
<1> QED BY <1>1 DEF RoomIsGiven

\* The quiet steps of a thread, which has nothing due, nor gets it.
LEMMA CountingQuietStep ==
    ASSUME NEW M, ClaimsFit(M), CountsInv(M), NEW c \in DequeueThreads, UNCHANGED counterVars,
           sub' = sub, eq' = eq, dq[c].pc \notin {"reloadTail", "giveBack", "take"},
           NEW s, s.pc \notin {"reloadTail", "giveBack", "take"}, PlaceOK(M, s),
           dq' = [dq EXCEPT ![c] = s]
    PROVE  CountsInv(M)'
<1>1. PICK h, t, w, y :
          /\ Numbers(M, dq, dequeueOvercommit, dequeueOptimisticCount, headIndex, tailIndex, h, t, w, y)
          /\ ~sub.isExplicit => RoomIsGiven(eq, h, t)
  BY DEF CountsInv, NumbersStand
<1>2. PlacesOK(M, dq, dequeueOvercommit)
  BY DEF CountsInv
<1>3. PlacesOK(M, dq', dequeueOvercommit)
  BY <1>1, <1>2, CountsQuiet
<1>4. Numbers(M, dq', dequeueOvercommit, dequeueOptimisticCount, headIndex, tailIndex, h, t, w, y)
  BY <1>1, <1>2, CountsQuiet
<1> QED BY <1>1, <1>3, <1>4 DEF CountsInv, NumbersStand, counterVars

LEMMA MovingStep ==
    ASSUME NEW M, ClaimsFit(M), CountsInv(M), NEW c \in DequeueThreads, Moving(c), sub' = sub, eq' = eq
    PROVE  CountsInv(M)'
<1>1. PICK s : /\ dq' = [dq EXCEPT ![c] = s]
               /\ "pc" \in DOMAIN s /\ s.pc \in Locating \cup {"idle"}
  BY DEF Moving
<1>2. PlaceOK(M, s) /\ s.pc \notin {"reloadTail", "giveBack", "take"}
  BY <1>1 DEF PlaceOK, DequeuePlaces, Locating
<1>3. dq[c].pc \notin {"reloadTail", "giveBack", "take"} /\ UNCHANGED counterVars
  BY DEF Moving, Locating
<1> QED BY <1>1, <1>2, <1>3, CountingQuietStep

LEMMA CountingStep ==
    ASSUME NEW M, ClaimsFit(M), CountsInv(M), ClaimsAreFresh(M), NEW c \in DequeueThreads, Counting(c), sub' = sub, eq' = eq
    PROVE  CountsInv(M)'
<1>1. PICK h, t, w, y :
          /\ Numbers(M, dq, dequeueOvercommit, dequeueOptimisticCount, headIndex, tailIndex, h, t, w, y)
          /\ ~sub.isExplicit => RoomIsGiven(eq, h, t)
  BY DEF CountsInv, NumbersStand
<1>2. /\ PlacesOK(M, dq, dequeueOvercommit) /\ PlaceOK(M, dq[c])
      /\ dequeueOvercommit \in Nat /\ DOMAIN dq = DequeueThreads /\ M \in Nat
      /\ sub \in SubQueues /\ sub.maxima \subseteq 1 .. M
  BY DEF CountsInv, PlacesOK, ClaimsFit
<1>3. h \in Nat /\ t \in Nat /\ tailIndex = Index(t) /\ tailIndex \in Nat /\ headIndex \in Nat
  <2>1. h \in Nat /\ t \in Nat /\ tailIndex = Index(t) /\ headIndex = Index(h)
    BY <1>1 DEF Numbers, Stands
  <2> QED BY <2>1, IndexType
<1>4. dequeueOptimisticCount \in Nat
  <2>1. PICK T \in Int : dequeueOptimisticCount = Index(T)
    <3>1. SumOver(WonOf(dq)) \in Nat /\ SumOver(DueOf(dq)) \in Nat
      BY <1>2, NumbersTypes
    <3>2. h + SumOver(WonOf(dq)) + SumOver(DueOf(dq)) + dequeueOvercommit \in Int
      BY <1>2, <1>3, <3>1
    <3>3. dequeueOptimisticCount = Index(h + SumOver(WonOf(dq)) + SumOver(DueOf(dq)) + dequeueOvercommit)
      BY <1>1 DEF Numbers
    <3> QED BY <3>2, <3>3
  <2> QED BY <2>1, IndexType
<1>5. CASE \E max \in sub.maxima : LoadsTail(c, max)
  <2>1. PICK max \in 1 .. M : LoadsTail(c, max)
    BY <1>2, <1>5
  <2>2. PICK s : s = [pc |-> "loadOvercommit", max |-> max, tail |-> tailIndex]
    OBVIOUS
  <2>3. PlaceOK(M, s) /\ s.pc \notin {"reloadTail", "giveBack", "take"}
    BY <1>3, <2>2 DEF PlaceOK, DequeuePlaces
  <2>4. /\ dq' = [dq EXCEPT ![c] = s] /\ dq[c].pc \notin {"reloadTail", "giveBack", "take"}
        /\ UNCHANGED counterVars
    BY <2>1, <2>2 DEF LoadsTail, DqGoto
  <2> QED BY <2>3, <2>4, CountingQuietStep
<1>6. CASE DequeueLoadOvercommit(c)
  <2>2. PICK s : s = [pc |-> "loadOptimistic", max |-> dq[c].max, tail |-> dq[c].tail,
                      overcommit |-> dequeueOvercommit]
    OBVIOUS
  <2>3. PlaceOK(M, s) /\ s.pc \notin {"reloadTail", "giveBack", "take"}
    BY <1>2, <1>6, <2>2 DEF PlaceOK, DequeuePlaces, DequeueLoadOvercommit
  <2>4. /\ dq' = [dq EXCEPT ![c] = s] /\ dq[c].pc \notin {"reloadTail", "giveBack", "take"}
        /\ UNCHANGED counterVars
    BY <1>6, <2>2 DEF DequeueLoadOvercommit, DqGoto
  <2> QED BY <2>3, <2>4, CountingQuietStep
<1>7. CASE DequeueLoadOptimistic(c)
  <2>1. PICK there : there = Index(dq[c].tail - (dequeueOptimisticCount - dq[c].overcommit))
    OBVIOUS
  <2>2. PICK s : s = IF CircularLess(0, there)
                     THEN [pc |-> "claim", overcommit |-> dq[c].overcommit,
                           desired |-> Min({there, dq[c].max})]
                     ELSE Idle
    OBVIOUS
  <2>3. /\ dq' = [dq EXCEPT ![c] = s] /\ dq[c].pc = "loadOptimistic"
        /\ UNCHANGED counterVars
    BY <1>7, <2>1, <2>2 DEF DequeueLoadOptimistic, DqGoto
  <2>4. /\ dq[c].max \in 1 .. M /\ dq[c].tail \in Int /\ dq[c].overcommit \in Nat
    BY <1>2, <2>3 DEF PlaceOK
  <2>5. there \in Nat /\ there < IndexValues
    <3>1. dq[c].tail - (dequeueOptimisticCount - dq[c].overcommit) \in Int
      BY <1>4, <2>4, <1>2
    <3> QED BY <2>1, <3>1, IndexType
  <2>6. CircularLess(0, there) => Min({there, dq[c].max}) \in 1 .. M
    <3>1. CircularLess(0, there) => 0 < there
      BY <2>5, ThereIs
    <3>2. PICK m \in 1 .. M : m = dq[c].max
      BY <2>4
    <3>3. m \in Int /\ there \in Int
      BY <1>2, <2>5
    <3>4. Min({there, m}) = IF there <= m THEN there ELSE m
      BY <3>3, LesserOf
    <3>5. 0 < there => Min({there, m}) \in 1 .. M
      BY <1>2, <2>5, <3>4
    <3> QED BY <3>1, <3>2, <3>5
  <2>7. PlaceOK(M, s) /\ s.pc \notin {"reloadTail", "giveBack", "take"}
    BY <2>2, <2>4, <2>6 DEF PlaceOK, DequeuePlaces, Idle
  <2> QED BY <2>3, <2>7, CountingQuietStep
<1>8. CASE DequeueClaim(c)
  <2>1. PICK s : s = [pc |-> "reloadTail", desired |-> dq[c].desired,
                      claimed |-> Index(dequeueOptimisticCount - dq[c].overcommit)]
    OBVIOUS
  <2>2. /\ dq[c].pc = "claim" /\ Index(dequeueOvercommit - dq[c].overcommit) <= M
        /\ dequeueOptimisticCount' = Index(dequeueOptimisticCount + dq[c].desired)
        /\ dq' = [dq EXCEPT ![c] = s] /\ UNCHANGED <<tailIndex, headIndex, dequeueOvercommit>>
    BY <1>8, <2>1 DEF DequeueClaim, DqGoto, ClaimsAreFresh
  <2>3. /\ s.pc = "reloadTail" /\ s.desired = dq[c].desired /\ "pc" \in DOMAIN s
        /\ s.claimed = Index(dequeueOptimisticCount - dq[c].overcommit)
    BY <2>1
  <2>4. /\ PlacesOK(M, dq', dequeueOvercommit)
        /\ \E v, z : Numbers(M, dq', dequeueOvercommit, Index(dequeueOptimisticCount + dq[c].desired),
                             headIndex, tailIndex, h, t, v, z)
    <3>1. PICK d, over, opt, head, tail, e :
              /\ d = dq /\ over = dequeueOvercommit /\ opt = dequeueOptimisticCount
              /\ head = headIndex /\ tail = tailIndex /\ e = dq'
      OBVIOUS
    <3>2. /\ ClaimsFit(M) /\ PlacesOK(M, d, over) /\ c \in DequeueThreads
          /\ Numbers(M, d, over, opt, head, tail, h, t, w, y)
          /\ d[c].pc = "claim" /\ Index(over - d[c].overcommit) <= M
          /\ s.pc = "reloadTail" /\ s.desired = d[c].desired /\ "pc" \in DOMAIN s
          /\ s.claimed = Index(opt - d[c].overcommit) /\ e = [d EXCEPT ![c] = s]
      BY <1>1, <1>2, <2>2, <2>3, <3>1
    <3>3. PlacesOK(M, e, over)
      BY ONLY <3>2, CountsClaim
    <3>4. \E v, z : Numbers(M, e, over, Index(opt + d[c].desired), head, tail, h, t, v, z)
      BY ONLY <3>2, CountsClaim
    <3> QED BY <3>1, <3>3, <3>4
  <2> QED BY <1>1, <2>2, <2>4 DEF CountsInv, NumbersStand
<1>9. CASE DequeueReloadTail(c)
  <2>1. PICK there : there = Index(tailIndex - dq[c].claimed)
    OBVIOUS
  <2>2. PICK n : n = IF CircularLess(0, there) THEN Min({there, dq[c].desired}) ELSE 0
    OBVIOUS
  <2>3. PICK s : s = IF n = dq[c].desired THEN [pc |-> "take", actual |-> n]
                     ELSE [pc |-> "giveBack", actual |-> n, rest |-> dq[c].desired - n]
    OBVIOUS
  <2>4. dq[c].pc = "reloadTail" /\ dq' = [dq EXCEPT ![c] = s] /\ UNCHANGED counterVars
    BY <1>9, <2>1, <2>2, <2>3 DEF DequeueReloadTail, DqGoto
  <2>5. /\ s.pc = IF n = dq[c].desired THEN "take" ELSE "giveBack"
        /\ s.actual = n /\ "pc" \in DOMAIN s
        /\ s.pc = "giveBack" => s.rest = dq[c].desired - n
    BY <2>3
  <2>6. /\ PlacesOK(M, dq', dequeueOvercommit)
        /\ \E z : Numbers(M, dq', dequeueOvercommit, dequeueOptimisticCount, headIndex, tailIndex, h, t, w, z)
    <3>1. PICK d, over, opt, head, tail, e :
              /\ d = dq /\ over = dequeueOvercommit /\ opt = dequeueOptimisticCount
              /\ head = headIndex /\ tail = tailIndex /\ e = dq'
      OBVIOUS
    <3>2. /\ ClaimsFit(M) /\ PlacesOK(M, d, over) /\ c \in DequeueThreads
          /\ Numbers(M, d, over, opt, head, tail, h, t, w, y)
          /\ d[c].pc = "reloadTail" /\ there = Index(tail - d[c].claimed)
          /\ n = IF CircularLess(0, there) THEN Min({there, d[c].desired}) ELSE 0
          /\ s.pc = IF n = d[c].desired THEN "take" ELSE "giveBack"
          /\ s.actual = n /\ "pc" \in DOMAIN s
          /\ s.pc = "giveBack" => s.rest = d[c].desired - n
          /\ e = [d EXCEPT ![c] = s]
      BY <1>1, <1>2, <2>1, <2>2, <2>4, <2>5, <3>1
    <3>3. \E z : PlacesOK(M, e, over) /\ Numbers(M, e, over, opt, head, tail, h, t, w, z)
      BY ONLY <3>2, CountsDecide
    <3> QED BY <3>1, <3>3
  <2> QED BY <1>1, <2>4, <2>6 DEF CountsInv, NumbersStand, counterVars
<1>10. CASE DequeueGiveBack(c)
  <2>1. PICK s : s = IF dq[c].actual = 0 THEN Idle ELSE [pc |-> "take", actual |-> dq[c].actual]
    OBVIOUS
  <2>2. /\ dq[c].pc = "giveBack" /\ dequeueOvercommit' = Index(dequeueOvercommit + dq[c].rest)
        /\ dq' = [dq EXCEPT ![c] = s] /\ UNCHANGED <<tailIndex, headIndex, dequeueOptimisticCount>>
    BY <1>10, <2>1 DEF DequeueGiveBack, DqGoto
  <2>3. /\ "pc" \in DOMAIN s
        /\ IF dq[c].actual = 0 THEN s.pc = "idle" ELSE s.pc = "take" /\ s.actual = dq[c].actual
    BY <2>1 DEF Idle
  <2>4. /\ PlacesOK(M, dq', Index(dequeueOvercommit + dq[c].rest))
        /\ \E z : Numbers(M, dq', Index(dequeueOvercommit + dq[c].rest), dequeueOptimisticCount,
                          headIndex, tailIndex, h, t, w, z)
    <3>1. PICK d, over, opt, head, tail, e :
              /\ d = dq /\ over = dequeueOvercommit /\ opt = dequeueOptimisticCount
              /\ head = headIndex /\ tail = tailIndex /\ e = dq'
      OBVIOUS
    <3>2. /\ ClaimsFit(M) /\ PlacesOK(M, d, over) /\ c \in DequeueThreads
          /\ Numbers(M, d, over, opt, head, tail, h, t, w, y)
          /\ d[c].pc = "giveBack" /\ "pc" \in DOMAIN s
          /\ IF d[c].actual = 0 THEN s.pc = "idle" ELSE s.pc = "take" /\ s.actual = d[c].actual
          /\ e = [d EXCEPT ![c] = s]
      BY <1>1, <1>2, <2>2, <2>3, <3>1
    <3>3. PlacesOK(M, e, Index(over + d[c].rest))
      BY ONLY <3>2, CountsGiveBack
    <3>4. \E z : Numbers(M, e, Index(over + d[c].rest), opt, head, tail, h, t, w, z)
      BY ONLY <3>2, CountsGiveBack
    <3> QED BY <3>1, <3>3, <3>4
  <2>5. /\ PlacesOK(M, dq', dequeueOvercommit')
        /\ \E z : Numbers(M, dq', dequeueOvercommit', dequeueOptimisticCount, headIndex, tailIndex, h, t, w, z)
    BY <2>2, <2>4
  <2> QED BY <1>1, <2>2, <2>5 DEF CountsInv, NumbersStand
<1>11. CASE DequeueTake(c)
  <2>1. PICK s : s = [pc |-> "locate", index |-> headIndex, stop |-> Index(headIndex + dq[c].actual)]
    OBVIOUS
  <2>2. /\ dq[c].pc = "take" /\ headIndex' = Index(headIndex + dq[c].actual)
        /\ dq' = [dq EXCEPT ![c] = s]
        /\ UNCHANGED <<tailIndex, dequeueOptimisticCount, dequeueOvercommit>>
    BY <1>11, <2>1 DEF DequeueTake, DqGoto
  <2>3. s.pc = "locate" /\ "pc" \in DOMAIN s
    BY <2>1
  <2>4. /\ PlacesOK(M, dq', dequeueOvercommit) /\ dq[c].actual \in Nat
        /\ Numbers(M, dq', dequeueOvercommit, dequeueOptimisticCount,
                   Index(headIndex + dq[c].actual), tailIndex, h + dq[c].actual, t, w, y)
    <3>1. PICK d, over, opt, head, tail, e :
              /\ d = dq /\ over = dequeueOvercommit /\ opt = dequeueOptimisticCount
              /\ head = headIndex /\ tail = tailIndex /\ e = dq'
      OBVIOUS
    <3>2. /\ ClaimsFit(M) /\ PlacesOK(M, d, over) /\ c \in DequeueThreads
          /\ Numbers(M, d, over, opt, head, tail, h, t, w, y)
          /\ d[c].pc = "take" /\ s.pc = "locate" /\ "pc" \in DOMAIN s
          /\ e = [d EXCEPT ![c] = s]
      BY <1>1, <1>2, <2>2, <2>3, <3>1
    <3>3. PlacesOK(M, e, over)
      BY ONLY <3>2, CountsTake
    <3>4. d[c].actual \in Nat
      BY ONLY <3>2, CountsTake
    <3>5. Numbers(M, e, over, opt, Index(head + d[c].actual), tail, h + d[c].actual, t, w, y)
      BY ONLY <3>2, CountsTake
    <3> QED BY <3>1, <3>3, <3>4, <3>5
  <2>5. PICK i \in Nat : i = h + dq[c].actual /\ h <= i
    BY <1>3, <2>4
  <2>6. ~sub.isExplicit => RoomIsGiven(eq, i, t)
    BY <1>1, <1>3, <2>5, RoomKept
  <2> QED BY <2>2, <2>4, <2>5, <2>6 DEF CountsInv, NumbersStand
<1> QED BY <1>5, <1>6, <1>7, <1>8, <1>9, <1>10, <1>11 DEF Counting

-----------------------------------------------------------------------------
(***************************************************************************)
(* The steps of an implicit producer.                                      *)
(***************************************************************************)
\* A base is that of the block around the number an index stands for.
LEMMA BaseIs ==
    ASSUME NEW a \in Int
    PROVE  \E g \in Int : Whole(g) /\ g <= a /\ a < g + BLOCK_SIZE /\ BaseOf(a) = Index(g)
<1>0. /\ IndexValues \in Nat /\ IndexValues > 0 /\ BLOCK_SIZE \in Nat /\ BLOCK_SIZE > 0
  BY IndexFacts
<1>1. PICK m \in Int : IndexValues = BLOCK_SIZE * m
  <2>1. PICK k \in Nat : Half = BLOCK_SIZE * k
    BY IndexFacts
  <2>2. IndexValues = BLOCK_SIZE * (2 * k) /\ 2 * k \in Int
    BY <1>0, <2>1, IndexFacts
  <2> QED BY <2>2
<1>2. PICK q \in Int, i \in 0 .. IndexValues - 1 : a = IndexValues * q + i /\ a % IndexValues = i
  BY <1>0, Divides
<1>3. PICK k \in Int, r \in 0 .. BLOCK_SIZE - 1 : i = BLOCK_SIZE * k + r /\ i % BLOCK_SIZE = r
  BY <1>0, Divides
<1>4. PICK l \in Int, b \in Int, mq \in Int :
          l = IndexValues * q /\ b = BLOCK_SIZE * k /\ mq = m * q /\ l = BLOCK_SIZE * mq
  <2>1. IndexValues * q = BLOCK_SIZE * (m * q) /\ m * q \in Int
    BY <1>0, <1>1
  <2> QED BY <1>0, <2>1
<1>5. Index(a) = i /\ a = i + l /\ i = b + r
  BY <1>2, <1>3, <1>4 DEF Index
<1>6. a % BLOCK_SIZE = r
  <2>1. i \in Int
    OBVIOUS
  <2>2. (i + BLOCK_SIZE * mq) % BLOCK_SIZE = i % BLOCK_SIZE
    BY <1>0, <2>1, LapsOff DEF LapsLeaveNothing
  <2> QED BY <1>3, <1>4, <1>5, <2>2
<1>7. BaseOf(a) = b
  BY <1>5, <1>6 DEF BaseOf, Offset
<1>8. b \in 0 .. IndexValues - 1
  <2>1. k >= 0
    <3>1. SUFFICES ASSUME k <= -1 PROVE FALSE
      OBVIOUS
    <3>2. BLOCK_SIZE * k <= -BLOCK_SIZE
      BY <1>0, <3>1
    <3> QED BY <1>0, <1>3, <3>2
  <2>2. b >= 0
    BY <1>0, <1>4, <2>1
  <2> QED BY <1>0, <1>5, <2>2
<1>9. Index(l + b) = b
  <2>1. (IndexValues * q + b) % IndexValues = b
    BY <1>0, <1>8, RemainderIs
  <2> QED BY <1>4, <2>1 DEF Index
<1>10. Whole(l + b) /\ l + b \in Int
  <2>1. l + b = BLOCK_SIZE * (mq + k) /\ mq + k \in Int
    BY <1>0, <1>4
  <2> QED BY <2>1 DEF Whole
<1>11. l + b <= a /\ a < l + b + BLOCK_SIZE
  BY <1>0, <1>5
<1> QED BY <1>7, <1>9, <1>10, <1>11

\* A base depends on the index only.
LEMMA BaseOfIndex ==
    ASSUME NEW a \in Int, NEW b \in Int
    PROVE  BaseOf(Index(a) + b) = BaseOf(a + b)
<1>0. /\ IndexValues \in Nat /\ IndexValues > 0 /\ BLOCK_SIZE \in Nat /\ BLOCK_SIZE > 0
  BY IndexFacts
<1>1. PICK m \in Int : IndexValues = BLOCK_SIZE * m
  <2>1. PICK k \in Nat : Half = BLOCK_SIZE * k
    BY IndexFacts
  <2>2. IndexValues = BLOCK_SIZE * (2 * k) /\ 2 * k \in Int
    BY <1>0, <2>1, IndexFacts
  <2> QED BY <2>2
<1>2. PICK q \in Int, i \in 0 .. IndexValues - 1 : a = IndexValues * q + i /\ a % IndexValues = i
  BY <1>0, Divides
<1>3. PICK mq \in Int : IndexValues * q = BLOCK_SIZE * mq
  <2>1. IndexValues * q = BLOCK_SIZE * (m * q) /\ m * q \in Int
    BY <1>0, <1>1
  <2> QED BY <2>1
<1>4. a + b = (i + b) + BLOCK_SIZE * mq /\ i + b \in Int
  BY <1>0, <1>2, <1>3
<1>5. ((i + b) + BLOCK_SIZE * mq) % BLOCK_SIZE = (i + b) % BLOCK_SIZE
  BY <1>0, <1>4, LapsOff DEF LapsLeaveNothing
<1>6. Index(a) = i /\ Index(Index(a) + b) = Index(a + b)
  BY <1>2, IndexOfIndex DEF Index
<1> QED BY <1>4, <1>5, <1>6 DEF BaseOf, Offset

\* Of two numbers of whole blocks, one more than the other is so by a block.
LEMMA WholeApart ==
    ASSUME NEW g \in Int, Whole(g), NEW f \in Int, Whole(f)
    PROVE  /\ f < g => f + BLOCK_SIZE <= g
           /\ Whole(g + BLOCK_SIZE)
           /\ (g - f) \div BLOCK_SIZE \in Int /\ BLOCK_SIZE * ((g - f) \div BLOCK_SIZE) = g - f
<1>0. BLOCK_SIZE \in Nat /\ BLOCK_SIZE > 0
  BY IndexFacts
<1>1. PICK j \in Int, k \in Int : g = BLOCK_SIZE * j /\ f = BLOCK_SIZE * k
  BY DEF Whole
<1>2. PICK l \in Int : l = j - k
  OBVIOUS
<1>3. g - f = BLOCK_SIZE * l /\ g + BLOCK_SIZE = BLOCK_SIZE * (j + 1) /\ j + 1 \in Int
  BY <1>0, <1>1, <1>2
<1>4. f < g => f + BLOCK_SIZE <= g
  <2>1. SUFFICES ASSUME f < g PROVE BLOCK_SIZE <= g - f
    BY <1>0
  <2>2. l >= 1
    <3>1. SUFFICES ASSUME l <= 0 PROVE FALSE
      OBVIOUS
    <3>2. BLOCK_SIZE * l <= 0
      BY <1>0, <3>1
    <3> QED BY <1>3, <2>1, <3>2
  <2>3. BLOCK_SIZE * l >= BLOCK_SIZE
    BY <1>0, <2>2
  <2> QED BY <1>3, <2>3
<1>5. (BLOCK_SIZE * l) \div BLOCK_SIZE = l
  <2>1. PICK x \in Int : x = BLOCK_SIZE * l
    BY <1>0
  <2>2. x = BLOCK_SIZE * (x \div BLOCK_SIZE) + (x % BLOCK_SIZE) /\ x \div BLOCK_SIZE \in Int
        /\ x % BLOCK_SIZE \in 0 .. BLOCK_SIZE - 1
    BY <1>0
  <2>3. x % BLOCK_SIZE = 0
    <3>1. (BLOCK_SIZE * l + 0) % BLOCK_SIZE = 0
      BY <1>0, RemainderIs
    <3> QED BY <2>1, <3>1
  <2>4. PICK p \in Int : p = x \div BLOCK_SIZE
    BY <2>2
  <2>5. BLOCK_SIZE * (p - l) = 0
    BY <1>0, <2>1, <2>2, <2>3, <2>4
  <2>6. p = l
    <3>1. CASE p - l >= 1
      <4>1. BLOCK_SIZE * (p - l) >= BLOCK_SIZE
        BY <1>0, <3>1
      <4> QED BY <1>0, <2>5, <4>1
    <3>2. CASE p - l <= -1
      <4>1. BLOCK_SIZE * (p - l) <= -BLOCK_SIZE
        BY <1>0, <3>2
      <4> QED BY <1>0, <2>5, <4>1
    <3> QED BY <3>1, <3>2
  <2> QED BY <2>1, <2>4, <2>6
<1> QED BY <1>3, <1>4, <1>5 DEF Whole

\* The blocks a call begins with, and those it needs.
LEMMA RoomAtBegin ==
    ASSUME NEW h \in Nat, NEW t \in Nat, NEW n \in Nat, n < Half, tailIndex = Index(t),
           NEW G \in Int, Granted(G, h, t)
    PROVE  /\ BlocksNeeded(n) \in Int /\ LastBase \in Int
           /\ \E g \in Int : /\ Granted(g, h, t) /\ Index(LastBase + BLOCK_SIZE) = Index(g)
                             /\ g + BLOCK_SIZE * BlocksNeeded(n) >= t + n
<1>0. /\ IndexValues \in Nat /\ BLOCK_SIZE \in Nat /\ BLOCK_SIZE > 0 /\ Half \in Nat
      /\ BLOCK_SIZE <= Half /\ IndexValues = 2 * Half
  BY IndexFacts
<1>1. PICK f \in Int : Whole(f) /\ f <= t - 1 /\ t - 1 < f + BLOCK_SIZE /\ BaseOf(t - 1) = Index(f)
  <2>1. t - 1 \in Int
    OBVIOUS
  <2> QED BY <2>1, BaseIs
<1>2. PICK e \in Int : /\ Whole(e) /\ e <= t + n - 1 /\ t + n - 1 < e + BLOCK_SIZE
                       /\ BaseOf(t + n - 1) = Index(e)
  <2>1. t + n - 1 \in Int
    OBVIOUS
  <2> QED BY <2>1, BaseIs
<1>3. LastBase = Index(f) /\ BaseOf(tailIndex + n - 1) = Index(e)
  <2>1. PICK x \in Int, y \in Int : x = -1 /\ y = n - 1
    OBVIOUS
  <2>2. BaseOf(Index(t) + x) = BaseOf(t + x) /\ BaseOf(Index(t) + y) = BaseOf(t + y)
    <3>1. t \in Int /\ x \in Int /\ y \in Int
      OBVIOUS
    <3>2. BaseOf(Index(t) + x) = BaseOf(t + x)
      BY ONLY <3>1, BaseOfIndex
    <3>3. BaseOf(Index(t) + y) = BaseOf(t + y)
      BY ONLY <3>1, BaseOfIndex
    <3> QED BY <3>2, <3>3
  <2>3. PICK i \in Int : i = Index(t)
    BY IndexType
  <2>4. i + x = i - 1 /\ t + x = t - 1 /\ i + y = i + n - 1 /\ t + y = t + n - 1
    BY <2>1
  <2>5. BaseOf(i - 1) = BaseOf(t - 1) /\ BaseOf(i + n - 1) = BaseOf(t + n - 1)
    BY <2>2, <2>3, <2>4
  <2> QED BY <1>1, <1>2, <2>3, <2>5 DEF LastBase
<1>4. 0 <= e - f /\ e - f < IndexValues
  <2>1. f < e + BLOCK_SIZE
    BY <1>0, <1>1, <1>2
  <2>2. ~(e < f)
    BY <1>0, <1>1, <1>2, <2>1, WholeApart
  <2> QED BY <1>0, <1>1, <1>2, <2>2
<1>5. Index(Index(e) - Index(f)) = e - f
  <2>1. e - f \in Int /\ -IndexValues <= e - f
    BY <1>0, <1>4
  <2>2. Index(e - f) = e - f
    BY <1>4, <2>1, IndexSmall
  <2> QED BY <2>2, IndexDifference
<1>6. PICK k \in Int : k = (e - f) \div BLOCK_SIZE /\ BLOCK_SIZE * k = e - f
  BY <1>1, <1>2, WholeApart
<1>7. BlocksNeeded(n) = k
  BY <1>3, <1>5, <1>6 DEF BlocksNeeded, LastBase
<1>8. PICK g \in Int : g = f + BLOCK_SIZE
  BY <1>0
<1>9. Granted(g, h, t)
  <2>1. Whole(g)
    BY <1>1, <1>8, WholeApart
  <2>2. g <= G
    <3>1. f < G
      BY <1>1 DEF Granted
    <3> QED BY <1>1, <1>8, <3>1, WholeApart DEF Granted
  <2> QED BY <1>0, <1>1, <1>8, <2>1, <2>2 DEF Granted
<1>10. Index(LastBase + BLOCK_SIZE) = Index(g)
  BY <1>0, <1>3, <1>8, IndexOfIndex
<1>11. g + BLOCK_SIZE * BlocksNeeded(n) >= t + n
  BY <1>0, <1>2, <1>6, <1>7, <1>8
<1>12. LastBase \in Int
  BY <1>3, IndexType
<1> QED BY <1>7, <1>9, <1>10, <1>11, <1>12

\* With leeway there is room for another block.
LEMMA RoomForBlock ==
    ASSUME NEW h \in Nat, NEW t \in Nat, h <= t, headIndex = Index(h),
           NEW g \in Int, Granted(g, h, t), ~NoLeeway(Index(g))
    PROVE  Granted(g + BLOCK_SIZE, h, t) /\ Index(Index(g) + BLOCK_SIZE) = Index(g + BLOCK_SIZE)
<1>0. /\ IndexValues \in Nat /\ BLOCK_SIZE \in Nat /\ BLOCK_SIZE > 0 /\ Half \in Nat
      /\ BLOCK_SIZE <= Half /\ IndexValues = 2 * Half /\ IndexValues \div 2 = Half
  BY IndexFacts DEF Half
<1>1. PICK x \in Int : x = h - (g + BLOCK_SIZE)
  BY <1>0
<1>2. Index(headIndex - (Index(g) + BLOCK_SIZE)) = Index(x)
  <2>1. Index(g) \in Int /\ Index(g) + BLOCK_SIZE \in Int
    BY <1>0, IndexType
  <2>2. Index(Index(h) - (Index(g) + BLOCK_SIZE)) = Index(h - (Index(g) + BLOCK_SIZE))
    BY <2>1, IndexOfIndex
  <2>3. h - (Index(g) + BLOCK_SIZE) = (h - BLOCK_SIZE) - Index(g) /\ h - BLOCK_SIZE \in Int
    BY <1>0, <2>1
  <2>4. Index((h - BLOCK_SIZE) - Index(g)) = Index((h - BLOCK_SIZE) - g)
    BY <2>3, IndexOfIndex
  <2>5. (h - BLOCK_SIZE) - g = x
    BY <1>0, <1>1
  <2> QED BY <2>2, <2>3, <2>4, <2>5
<1>3. Index(x) > Half
  BY <1>0, <1>2 DEF NoLeeway, CircularLess
<1>4. g <= h + Half /\ h <= g /\ Whole(g)
  BY <1>0 DEF Granted
<1>5. -IndexValues <= x /\ x < 0
  BY <1>0, <1>1, <1>4
<1>6. Index(x) = x + IndexValues
  BY <1>0, <1>5, IndexSmall
<1>7. g + BLOCK_SIZE - h <= Half
  BY <1>0, <1>1, <1>3, <1>6
<1>8. Granted(g + BLOCK_SIZE, h, t)
  <2>1. Whole(g + BLOCK_SIZE)
    BY <1>4, WholeApart
  <2> QED BY <1>0, <1>7, <2>1 DEF Granted
<1>9. Index(Index(g) + BLOCK_SIZE) = Index(g + BLOCK_SIZE)
  BY <1>0, IndexOfIndex
<1> QED BY <1>8, <1>9

LEMMA SameInImplicit ==
    /\ \A n : Implicit!BlocksNeeded(n) = BlocksNeeded(n)
    /\ Implicit!LastBase = LastBase /\ \A i : Implicit!Index(i) = Index(i)
    /\ \A i : Implicit!NoLeeway(i) <=> NoLeeway(i)
<1>1. \A i : Implicit!Index(i) = Index(i) /\ Implicit!Offset(i) = Offset(i)
  BY DEF Implicit!Index, Index, Implicit!Offset, Offset
<1>2. \A i : Implicit!BaseOf(i) = BaseOf(i)
  BY <1>1 DEF Implicit!BaseOf, BaseOf
<1>3. \A n : Implicit!BlocksNeeded(n) = BlocksNeeded(n)
  BY <1>1, <1>2 DEF Implicit!BlocksNeeded, BlocksNeeded
<1>4. Implicit!LastBase = LastBase
  BY <1>2 DEF Implicit!LastBase, LastBase
<1>5. \A i : Implicit!NoLeeway(i) <=> NoLeeway(i)
  BY <1>1 DEF Implicit!NoLeeway, NoLeeway, Implicit!CircularLess, CircularLess, Implicit!Index, Index
<1> QED BY <1>1, <1>3, <1>4, <1>5

\* A step that goes on with a call, needing what it needed.
GoesOn(e, f) ==
    /\ e.pc \in ImplicitForward
    /\ {"pc", "n", "need", "base"} \subseteq DOMAIN f
    /\ f.n = e.n /\ f.need = e.need /\ f.base = e.base
    /\ f.pc \in ImplicitForward
    /\ f.pc \in {"construct", "publishTail"} => e.need = 0

\* A step of an implicit producer that fails, undoes something or ends.
GoesBack(f) == "pc" \in DOMAIN f /\ f.pc \in ImplicitBack

ProducerMoves == UNCHANGED <<sub, counterVars, dq>>

LEMMA ImplicitMove ==
    ASSUME NEW M, CountsInv(M), ~sub.isExplicit, ProducerMoves, GoesBack(eq') \/ GoesOn(eq, eq')
    PROVE  CountsInv(M)'
<1>1. PICK h, t, w, y :
          /\ Numbers(M, dq, dequeueOvercommit, dequeueOptimisticCount, headIndex, tailIndex, h, t, w, y)
          /\ RoomIsGiven(eq, h, t)
  BY DEF CountsInv, NumbersStand
<1>2. ImplicitPlaceOK(eq)
  BY DEF CountsInv
<1>3. ImplicitPlaceOK(eq')
  <2>1. CASE GoesBack(eq')
    BY <2>1 DEF GoesBack, ImplicitPlaceOK, ImplicitBack, ImplicitForward
  <2>2. CASE GoesOn(eq, eq')
    BY <1>2, <2>2 DEF GoesOn, ImplicitPlaceOK
  <2> QED BY <2>1, <2>2
<1>4. RoomIsGiven(eq', h, t)
  <2>1. CASE GoesBack(eq')
    <3>1. eq'.pc \notin ImplicitForward
      BY <2>1 DEF GoesBack, ImplicitBack, ImplicitForward
    <3> QED BY <1>1, <3>1 DEF RoomIsGiven
  <2>2. CASE GoesOn(eq, eq')
    BY <1>1, <2>2 DEF GoesOn, RoomIsGiven
  <2> QED BY <2>1, <2>2
<1> QED BY <1>1, <1>3, <1>4 DEF CountsInv, NumbersStand, ProducerMoves, counterVars

LEMMA GiveUpGoesBack ==
    ASSUME "pc" \in DOMAIN eq, Implicit!GiveUp
    PROVE  GoesBack(eq')
<1>1. CASE eq.first = NoBlock
  <2>1. eq' = [pc |-> "idle"]
    BY <1>1 DEF Implicit!GiveUp, Implicit!EqGoto, Implicit!Idle
  <2> QED BY <2>1 DEF GoesBack, ImplicitBack
<1>2. CASE eq.first # NoBlock
  <2>1. PICK a, b : eq' = [eq EXCEPT !.pc = "revertEntry", !.base = a, !.block = b]
    BY <1>2 DEF Implicit!GiveUp, Implicit!EqGoto
  <2>2. DOMAIN eq' = DOMAIN eq /\ eq'.pc = "revertEntry"
    BY <2>1
  <2> QED BY <2>2 DEF GoesBack, ImplicitBack
<1> QED BY <1>1, <1>2

LEMMA CountsTypes ==
    ASSUME NEW M, ClaimsFit(M), CountsInv(M)
    PROVE  \A h, t, w, y :
               Numbers(M, dq, dequeueOvercommit, dequeueOptimisticCount, headIndex, tailIndex, h, t, w, y)
               => /\ h \in Nat /\ t \in Nat /\ h <= t /\ t - h <= Half
                  /\ headIndex = Index(h) /\ tailIndex = Index(t)
<1>1. ASSUME NEW h, NEW t, NEW w, NEW y,
             Numbers(M, dq, dequeueOvercommit, dequeueOptimisticCount, headIndex, tailIndex, h, t, w, y)
      PROVE  /\ h \in Nat /\ t \in Nat /\ h <= t /\ t - h <= Half
             /\ headIndex = Index(h) /\ tailIndex = Index(t)
  <2>1. /\ h \in Nat /\ t \in Nat /\ h + SumOver(WonOf(dq)) <= t /\ t - h <= Half
        /\ headIndex = Index(h) /\ tailIndex = Index(t) /\ WonOf(dq) \in [DequeueThreads -> 0 .. M]
    BY <1>1 DEF Numbers, Stands
  <2>2. SumOver(WonOf(dq)) \in Nat
    <3>1. M \in Nat /\ PlacesOK(M, dq, dequeueOvercommit)
      BY DEF ClaimsFit, CountsInv
    <3> QED BY <3>1, NumbersTypes
  <2> QED BY <2>1, <2>2
<1> QED BY <1>1

LEMMA ImplicitBeginStep ==
    ASSUME NEW M, ClaimsFit(M), CountsInv(M), ~sub.isExplicit, NEW mode, NEW single,
           NEW n \in sub.bulks \cup {1}, Implicit!ImplicitBegin(n, mode, single)
    PROVE  CountsInv(M)'
<1>1. PICK h, t, w, y :
          /\ Numbers(M, dq, dequeueOvercommit, dequeueOptimisticCount, headIndex, tailIndex, h, t, w, y)
          /\ RoomIsGiven(eq, h, t)
  BY DEF CountsInv, NumbersStand
<1>2. h \in Nat /\ t \in Nat /\ tailIndex = Index(t)
  BY <1>1, CountsTypes
<1>3. n \in Nat /\ n < Half
  <2>1. sub.bulks \subseteq 1 .. Half - 1 /\ Half \in Nat /\ Half > 1
    BY IndexFacts DEF ClaimsFit, CountsInv
  <2> QED BY <2>1
<1>4. PICK need, base : need = BlocksNeeded(n) /\ base = LastBase
  OBVIOUS
<1>5. /\ eq' = [pc     |-> IF need = 0 THEN "construct" ELSE "loadHead",
                single |-> single, n |-> n, mode |-> mode, need |-> need, base |-> base,
                start  |-> tailBlock, first |-> NoBlock, block |-> NoBlock]
      /\ UNCHANGED <<sub, counterVars, dq>>
  BY <1>4, SameInImplicit DEF Implicit!ImplicitBegin, Implicit!EqGoto, Implicit!ConsumersUnchanged, counterVars
<1>6. /\ need \in Int /\ base \in Int
      /\ \E g \in Int : /\ Granted(g, h, t) /\ Index(base + BLOCK_SIZE) = Index(g)
                        /\ g + BLOCK_SIZE * need >= t + n
  BY <1>1, <1>2, <1>3, <1>4, RoomAtBegin DEF RoomIsGiven
<1>7. ImplicitPlaceOK(eq')
  BY <1>3, <1>5, <1>6 DEF ImplicitPlaceOK, ImplicitForward
<1>8. RoomIsGiven(eq', h, t)
  BY <1>1, <1>5, <1>6 DEF RoomIsGiven
<1> QED BY <1>1, <1>5, <1>7, <1>8 DEF CountsInv, NumbersStand, counterVars

LEMMA ImplicitLoadHeadStep ==
    ASSUME NEW M, ClaimsFit(M), CountsInv(M), ~sub.isExplicit, Implicit!ImplicitLoadHead
    PROVE  CountsInv(M)'
<1>1. PICK h, t, w, y :
          /\ Numbers(M, dq, dequeueOvercommit, dequeueOptimisticCount, headIndex, tailIndex, h, t, w, y)
          /\ RoomIsGiven(eq, h, t)
  BY DEF CountsInv, NumbersStand
<1>2. h \in Nat /\ t \in Nat /\ h <= t /\ headIndex = Index(h) /\ tailIndex = Index(t)
  BY <1>1, CountsTypes
<1>3. ImplicitPlaceOK(eq) /\ eq.pc = "loadHead"
  BY DEF CountsInv, Implicit!ImplicitLoadHead
<1>4. eq.need \in Int /\ eq.n \in Nat /\ {"pc", "n", "need", "base"} \subseteq DOMAIN eq
  BY <1>3 DEF ImplicitPlaceOK, ImplicitForward
<1>5. PICK g \in Int : /\ Granted(g, h, t) /\ Index(eq.base + BLOCK_SIZE) = Index(g)
                       /\ g + BLOCK_SIZE * eq.need >= t + eq.n
  BY <1>1, <1>3 DEF RoomIsGiven, ImplicitForward
<1>6. PICK base : base = Index(eq.base + BLOCK_SIZE) /\ base = Index(g)
  BY <1>5
<1>7. UNCHANGED <<sub, counterVars, dq>>
  BY DEF Implicit!ImplicitLoadHead, Implicit!ConsumersUnchanged, counterVars
<1>8. CASE NoLeeway(base)
  <2>1. Implicit!GiveUp
    BY <1>6, <1>8, SameInImplicit DEF Implicit!ImplicitLoadHead
  <2>2. GoesBack(eq')
    BY <1>4, <2>1, GiveUpGoesBack
  <2> QED BY <1>7, <2>2, ImplicitMove DEF ProducerMoves
<1>9. CASE ~NoLeeway(base)
  <2>1. eq' = [eq EXCEPT !.pc = "insert", !.need = @ - 1, !.base = base]
    BY <1>6, <1>9, SameInImplicit DEF Implicit!ImplicitLoadHead, Implicit!EqGoto
  <2>2. /\ DOMAIN eq' = DOMAIN eq /\ eq'.pc = "insert" /\ eq'.need = eq.need - 1 /\ eq'.base = base
        /\ eq'.n = eq.n
    BY <1>4, <2>1
  <2>3. Granted(g + BLOCK_SIZE, h, t) /\ Index(base + BLOCK_SIZE) = Index(g + BLOCK_SIZE)
    BY <1>2, <1>5, <1>6, <1>9, RoomForBlock
  <2>4. PICK f \in Int : f = g + BLOCK_SIZE /\ f + BLOCK_SIZE * (eq.need - 1) >= t + eq.n
    <3>1. PICK b \in Nat, k \in Int : b = BLOCK_SIZE /\ k = eq.need
      BY <1>4, IndexFacts
    <3>2. (g + b) + b * (k - 1) = g + b * k
      BY <3>1
    <3>3. g + b \in Int
      BY <3>1
    <3> QED BY <1>5, <3>1, <3>2, <3>3
  <2>5. RoomIsGiven(eq', h, t)
    BY <1>1, <2>2, <2>3, <2>4 DEF RoomIsGiven
  <2>6. base \in Int
    BY <1>6, IndexType
  <2>7. ImplicitPlaceOK(eq')
    BY <1>3, <1>4, <2>2, <2>6 DEF ImplicitPlaceOK, ImplicitForward
  <2> QED BY <1>1, <1>7, <2>5, <2>7 DEF CountsInv, NumbersStand, counterVars
<1> QED BY <1>8, <1>9

LEMMA ImplicitPublishTailStep ==
    ASSUME NEW M, ClaimsFit(M), CountsInv(M), ~sub.isExplicit, Implicit!PublishTail
    PROVE  CountsInv(M)'
<1>1. PICK h, t, w, y :
          /\ Numbers(M, dq, dequeueOvercommit, dequeueOptimisticCount, headIndex, tailIndex, h, t, w, y)
          /\ RoomIsGiven(eq, h, t)
  BY DEF CountsInv, NumbersStand
<1>2. h \in Nat /\ t \in Nat /\ h <= t /\ headIndex = Index(h) /\ tailIndex = Index(t)
  BY <1>1, CountsTypes
<1>3. ImplicitPlaceOK(eq) /\ eq.pc = "publishTail"
  BY DEF CountsInv, Implicit!PublishTail
<1>4. eq.need = 0 /\ eq.n \in Nat
  BY <1>3 DEF ImplicitPlaceOK, ImplicitForward
<1>5. PICK g \in Int : Granted(g, h, t) /\ g + BLOCK_SIZE * eq.need >= t + eq.n
  BY <1>1, <1>3 DEF RoomIsGiven, ImplicitForward
<1>6. PICK x \in Nat : x = t + eq.n
  BY <1>2, <1>4
<1>7. Granted(g, h, x) /\ x >= t /\ x - h <= Half
  <2>1. BLOCK_SIZE * eq.need = 0
    BY <1>4, IndexFacts
  <2> QED BY <1>2, <1>4, <1>5, <1>6, <2>1, IndexFacts DEF Granted
<1>8. tailIndex' = Index(x) /\ eq' = Idle
      /\ UNCHANGED <<sub, headIndex, dequeueOptimisticCount, dequeueOvercommit, dq>>
  <2>1. /\ tailIndex' = Index(tailIndex + eq.n) /\ eq' = Idle
        /\ UNCHANGED <<sub, headIndex, dequeueOptimisticCount, dequeueOvercommit, dq>>
    BY SameInImplicit DEF Implicit!PublishTail, Implicit!EqGoto, Implicit!ConsumersUnchanged, Implicit!Idle, Idle
  <2>2. Index(tailIndex + eq.n) = Index(x)
    <3>1. PICK n \in Nat : n = eq.n
      BY <1>4
    <3>2. Index(Index(t) + n) = Index(t + n)
      BY <1>2, IndexOfIndex
    <3> QED BY <1>2, <1>6, <3>1, <3>2
  <2> QED BY <2>1, <2>2
<1>9. Numbers(M, dq, dequeueOvercommit, dequeueOptimisticCount, headIndex, Index(x), h, x, w, y)
  BY <1>1, <1>7, CountsTail
<1>10. ImplicitPlaceOK(Idle) /\ RoomIsGiven(Idle, h, x)
  BY <1>7 DEF Idle, ImplicitPlaceOK, ImplicitForward, ImplicitBack, RoomIsGiven
<1> QED BY <1>8, <1>9, <1>10 DEF CountsInv, NumbersStand

\* The other steps of an implicit producer go on with its call or back.
LEMMA ImplicitOtherSteps ==
    ASSUME NEW M, CountsInv(M), ~sub.isExplicit,
           \/ Implicit!InsertKey \/ Implicit!InsertGrow \/ Implicit!InsertTail
           \/ Implicit!ImplicitRequisition \/ Implicit!TryConstruct \/ Implicit!SetValue
           \/ Implicit!Construct \/ Implicit!Rewind \/ Implicit!ClearValue \/ Implicit!ReturnBlock
           \/ Implicit!RevertEntry \/ Implicit!RevertTail \/ Implicit!Release
    PROVE  CountsInv(M)'
<1>1. ImplicitPlaceOK(eq) /\ "pc" \in DOMAIN eq
  BY DEF CountsInv, ImplicitPlaceOK
<1>2. ASSUME eq.pc \in ImplicitForward, NEW pc, NEW block,
             eq' = [eq EXCEPT !.pc = pc] \/ eq' = [eq EXCEPT !.pc = pc, !.block = block],
             pc \in ImplicitForward, pc \in {"construct", "publishTail"} => eq.need = 0
      PROVE  GoesOn(eq, eq')
  <2>1. {"pc", "n", "need", "base"} \subseteq DOMAIN eq
    BY <1>1, <1>2 DEF ImplicitPlaceOK
  <2>2. CASE eq' = [eq EXCEPT !.pc = pc]
    <3>1. /\ DOMAIN eq' = DOMAIN eq /\ eq'.pc = pc /\ eq'.n = eq.n /\ eq'.need = eq.need
          /\ eq'.base = eq.base
      BY <2>1, <2>2
    <3> QED BY <1>2, <2>1, <3>1 DEF GoesOn
  <2>3. CASE eq' = [eq EXCEPT !.pc = pc, !.block = block]
    <3>1. /\ DOMAIN eq' = DOMAIN eq /\ eq'.pc = pc /\ eq'.n = eq.n /\ eq'.need = eq.need
          /\ eq'.base = eq.base
      BY <2>1, <2>3
    <3> QED BY <1>2, <2>1, <3>1 DEF GoesOn
  <2> QED BY <1>2, <2>2, <2>3
<1>3. ASSUME NEW pc \in ImplicitBack, NEW b, NEW k,
             \/ eq' = [eq EXCEPT !.pc = pc] \/ eq' = [eq EXCEPT !.pc = pc, !.block = b]
             \/ eq' = [eq EXCEPT !.pc = pc, !.base = k]
      PROVE  GoesBack(eq')
  <2>1. DOMAIN eq' = DOMAIN eq /\ eq'.pc = pc
    BY <1>1, <1>3
  <2> QED BY <1>1, <1>3, <2>1 DEF GoesBack
<1>4. CASE Implicit!InsertKey
  <2>1. eq.pc = "insert" /\ ProducerMoves
    BY <1>4 DEF Implicit!InsertKey, Implicit!ConsumersUnchanged, ProducerMoves, counterVars
  <2>2. \/ \E pc \in {"insertTail", "grow"} : eq' = [eq EXCEPT !.pc = pc]
        \/ Implicit!GiveUp
    BY <1>4 DEF Implicit!InsertKey, Implicit!EqGoto
  <2>3. GoesBack(eq') \/ GoesOn(eq, eq')
    BY <1>1, <1>2, <2>1, <2>2, GiveUpGoesBack DEF ImplicitForward
  <2> QED BY <2>1, <2>3, ImplicitMove
<1>5. CASE Implicit!InsertGrow
  <2>1. eq.pc = "grow" /\ ProducerMoves
    BY <1>5 DEF Implicit!InsertGrow, Implicit!ConsumersUnchanged, ProducerMoves, counterVars
  <2>2. eq' = [eq EXCEPT !.pc = "insertTail"] \/ Implicit!GiveUp
    BY <1>5 DEF Implicit!InsertGrow, Implicit!EqGoto
  <2>3. GoesBack(eq') \/ GoesOn(eq, eq')
    BY <1>1, <1>2, <2>1, <2>2, GiveUpGoesBack DEF ImplicitForward
  <2> QED BY <2>1, <2>3, ImplicitMove
<1>6. CASE Implicit!InsertTail
  <2>1. eq.pc = "insertTail" /\ ProducerMoves /\ eq' = [eq EXCEPT !.pc = "requisition"]
    BY <1>6 DEF Implicit!InsertTail, Implicit!EqGoto, Implicit!ConsumersUnchanged, ProducerMoves, counterVars
  <2>2. \E pc \in {"requisition"} : eq' = [eq EXCEPT !.pc = pc]
    BY <2>1
  <2>3. GoesOn(eq, eq')
    BY <1>2, <2>1, <2>2 DEF ImplicitForward
  <2> QED BY <2>1, <2>3, ImplicitMove
<1>7. CASE Implicit!ImplicitRequisition
  <2>1. eq.pc = "requisition" /\ ProducerMoves
    BY <1>7 DEF Implicit!ImplicitRequisition, Implicit!ConsumersUnchanged, ProducerMoves, counterVars
  <2>2. \E pc \in {"rewind", "tryConstruct", "setValue"} : \E b : eq' = [eq EXCEPT !.pc = pc, !.block = b]
    BY <1>7 DEF Implicit!ImplicitRequisition, Implicit!EqGoto
  <2>3. GoesBack(eq') \/ GoesOn(eq, eq')
    BY <1>1, <1>2, <1>3, <2>1, <2>2 DEF ImplicitForward, ImplicitBack
  <2> QED BY <2>1, <2>3, ImplicitMove
<1>8. CASE Implicit!TryConstruct
  <2>1. eq.pc = "tryConstruct" /\ ProducerMoves
    BY <1>8 DEF Implicit!TryConstruct, Implicit!ConsumersUnchanged, ProducerMoves, counterVars
  <2>2. \E pc \in {"rewind", "setValue"} : eq' = [eq EXCEPT !.pc = pc]
    BY <1>8 DEF Implicit!TryConstruct, Implicit!EqGoto
  <2>3. GoesBack(eq') \/ GoesOn(eq, eq')
    BY <1>1, <1>2, <1>3, <2>1, <2>2 DEF ImplicitForward, ImplicitBack
  <2> QED BY <2>1, <2>3, ImplicitMove
<1>9. CASE Implicit!SetValue
  <2>1. eq.pc = "setValue" /\ ProducerMoves
    BY <1>9 DEF Implicit!SetValue, Implicit!ConsumersUnchanged, ProducerMoves, counterVars
  <2>2. PICK pc, f : /\ pc = IF eq.need = 0 THEN "construct" ELSE "loadHead"
                     /\ eq' = [eq EXCEPT !.pc = pc, !.first = f]
    BY <1>9 DEF Implicit!SetValue, Implicit!EqGoto
  <2>3. {"pc", "n", "need", "base"} \subseteq DOMAIN eq
    BY <1>1, <2>1 DEF ImplicitPlaceOK, ImplicitForward
  <2>4. /\ DOMAIN eq' = DOMAIN eq /\ eq'.pc = pc /\ eq'.n = eq.n /\ eq'.need = eq.need
        /\ eq'.base = eq.base
    BY <2>2, <2>3
  <2>5. GoesOn(eq, eq')
    BY <2>1, <2>2, <2>3, <2>4 DEF GoesOn, ImplicitForward
  <2> QED BY <2>1, <2>5, ImplicitMove
<1>10. CASE Implicit!Construct
  <2>1. eq.pc = "construct" /\ ProducerMoves
    BY <1>10 DEF Implicit!Construct, Implicit!ConsumersUnchanged, ProducerMoves, counterVars
  <2>2. eq' = [eq EXCEPT !.pc = "publishTail"] \/ Implicit!GiveUp
    BY <1>10 DEF Implicit!Construct, Implicit!EqGoto
  <2>3. eq.need = 0
    BY <1>1, <2>1 DEF ImplicitPlaceOK, ImplicitForward
  <2>4. GoesBack(eq') \/ GoesOn(eq, eq')
    BY <1>1, <1>2, <2>1, <2>2, <2>3, GiveUpGoesBack DEF ImplicitForward
  <2> QED BY <2>1, <2>4, ImplicitMove
<1>11. CASE Implicit!Rewind
  <2>1. ProducerMoves /\ eq' = [eq EXCEPT !.pc = "clearValue"]
    BY <1>11 DEF Implicit!Rewind, Implicit!EqGoto, Implicit!ConsumersUnchanged, ProducerMoves, counterVars
  <2>2. GoesBack(eq')
    BY <1>3, <2>1 DEF ImplicitBack
  <2> QED BY <2>1, <2>2, ImplicitMove
<1>12. CASE Implicit!ClearValue
  <2>1. /\ ProducerMoves
        /\ Implicit!GiveUp \/ eq' = [eq EXCEPT !.pc = "returnBlock"]
    BY <1>12 DEF Implicit!ClearValue, Implicit!EqGoto, Implicit!ConsumersUnchanged, ProducerMoves, counterVars
  <2>2. CASE Implicit!GiveUp
    BY <1>1, <2>1, <2>2, GiveUpGoesBack, ImplicitMove
  <2>3. CASE eq' = [eq EXCEPT !.pc = "returnBlock"]
    <3>1. GoesBack(eq')
      BY <1>3, <2>3 DEF ImplicitBack
    <3> QED BY <2>1, <3>1, ImplicitMove
  <2> QED BY <2>1, <2>2, <2>3
<1>13. CASE Implicit!RevertEntry
  <2>1. ProducerMoves /\ \E k : eq' = [eq EXCEPT !.pc = "revertTail", !.base = k]
    BY <1>13 DEF Implicit!RevertEntry, Implicit!EqGoto, Implicit!ConsumersUnchanged, ProducerMoves, counterVars
  <2>2. GoesBack(eq')
    BY <1>3, <2>1 DEF ImplicitBack
  <2> QED BY <2>1, <2>2, ImplicitMove
<1>14. CASE Implicit!RevertTail
  <2>1. ProducerMoves
    BY <1>14 DEF Implicit!RevertTail, Implicit!ConsumersUnchanged, ProducerMoves, counterVars
  <2>2. \E pc \in {"release", "revertEntry"} : \E b : eq' = [eq EXCEPT !.pc = pc, !.block = b]
    BY <1>14 DEF Implicit!RevertTail, Implicit!EqGoto
  <2>3. GoesBack(eq')
    BY <1>3, <2>2 DEF ImplicitBack
  <2> QED BY <2>1, <2>3, ImplicitMove
<1>15. CASE Implicit!Release
  <2>1. ProducerMoves /\ eq' = [pc |-> "idle"]
    BY <1>15 DEF Implicit!Release, Implicit!EqGoto, Implicit!Idle, Implicit!ConsumersUnchanged,
                 ProducerMoves, counterVars
  <2>2. GoesBack(eq')
    BY <2>1 DEF GoesBack, ImplicitBack
  <2> QED BY <2>1, <2>2, ImplicitMove
<1>16. CASE Implicit!ReturnBlock
  <2>1. ProducerMoves /\ eq' = [pc |-> "idle"]
    BY <1>16 DEF Implicit!ReturnBlock, Implicit!EqGoto, Implicit!Idle, Implicit!ConsumersUnchanged,
                 ProducerMoves, counterVars
  <2>2. GoesBack(eq')
    BY <2>1 DEF GoesBack, ImplicitBack
  <2> QED BY <2>1, <2>2, ImplicitMove
<1> QED BY <1>4, <1>5, <1>6, <1>7, <1>8, <1>9, <1>10, <1>11, <1>12, <1>13, <1>14, <1>15, <1>16

-----------------------------------------------------------------------------
(***************************************************************************)
(* The steps of an explicit producer.                                      *)
(***************************************************************************)
\* The tail of an explicit producer, whose blocks form a ring, stays in reach.
StaysInReach == sub.isExplicit => ~CircularLess(tailIndex', headIndex)

LEMMA ExplicitMove ==
    ASSUME NEW M, CountsInv(M), sub.isExplicit, ProducerMoves, ExplicitPlaceOK(eq')
    PROVE  CountsInv(M)'
  BY DEF CountsInv, NumbersStand, ProducerMoves, counterVars

LEMMA ExplicitTailStep ==
    ASSUME NEW M, ClaimsFit(M), CountsInv(M), sub.isExplicit, StaysInReach,
           NEW n \in Nat, n < Half, tailIndex' = Index(tailIndex + n), eq' = Idle,
           UNCHANGED <<sub, headIndex, dequeueOptimisticCount, dequeueOvercommit, dq>>
    PROVE  CountsInv(M)'
<1>1. PICK h, t, w, y :
          Numbers(M, dq, dequeueOvercommit, dequeueOptimisticCount, headIndex, tailIndex, h, t, w, y)
  BY DEF CountsInv, NumbersStand
<1>2. /\ h \in Nat /\ t \in Nat /\ h <= t /\ t - h <= Half
      /\ headIndex = Index(h) /\ tailIndex = Index(t)
  BY <1>1, CountsTypes
<1>3. PICK x \in Nat : x = t + n /\ x >= t
  BY <1>2
<1>4. tailIndex' = Index(x)
  BY <1>2, <1>3, IndexOfIndex
<1>5. x - h <= Half
  <2>1. ~(Index(x - h) > Half)
    <3>1. ~CircularLess(Index(x), Index(h))
      BY <1>2, <1>4 DEF StaysInReach
    <3>2. x \in Int /\ h \in Int
      BY <1>2
    <3> QED BY ONLY <3>1, <3>2, LessIs
  <2>2. Half \in Nat /\ IndexValues = 2 * Half
    BY IndexFacts
  <2>3. x - h \in Int /\ -IndexValues <= x - h /\ x - h < IndexValues /\ x - h >= 0
    BY <1>2, <1>3, <2>2
  <2>4. Index(x - h) = x - h
    BY <2>3, IndexSmall
  <2> QED BY <2>1, <2>2, <2>3, <2>4
<1>6. Numbers(M, dq, dequeueOvercommit, dequeueOptimisticCount, headIndex, Index(x), h, x, w, y)
  BY <1>1, <1>2, <1>3, <1>5, CountsTail
<1>7. ExplicitPlaceOK(Idle)
  BY DEF Idle, ExplicitPlaceOK, ExplicitSingle, ExplicitBulk
<1> QED BY <1>4, <1>6, <1>7 DEF CountsInv, NumbersStand

LEMMA ExplicitEnqueueStep ==
    ASSUME NEW M, ClaimsFit(M), CountsInv(M), sub.isExplicit, StaysInReach, Explicit!Enqueue
    PROVE  CountsInv(M)'
<1> USE DEF Explicit!EqGoto, Explicit!ConsumersUnchanged, Explicit!Idle
<1>1. ExplicitPlaceOK(eq) /\ "pc" \in DOMAIN eq
  BY DEF CountsInv, ExplicitPlaceOK
<1>2. CASE Explicit!EnqueuePublishTail
  <2>1. /\ tailIndex' = Index(tailIndex + 1) /\ eq' = Idle
        /\ UNCHANGED <<sub, headIndex, dequeueOptimisticCount, dequeueOvercommit, dq>>
    BY <1>2 DEF Explicit!EnqueuePublishTail, Explicit!Index, Index, Idle
  <2>2. 1 \in Nat /\ 1 < Half
    BY IndexFacts
  <2> QED BY <2>1, <2>2, ExplicitTailStep
<1>3. CASE \/ \E mode \in sub.modes : Explicit!EnqueueBegin(mode)
           \/ Explicit!EnqueueReuse \/ Explicit!EnqueueLoadHead \/ Explicit!EnqueueGrow
           \/ Explicit!EnqueueRequisition \/ Explicit!EnqueueConstruct \/ Explicit!EnqueuePublishFront
  <2>1. ProducerMoves
    BY <1>3 DEF Explicit!EnqueueBegin, Explicit!EnqueueReuse, Explicit!EnqueueLoadHead,
        Explicit!EnqueueGrow, Explicit!EnqueueRequisition, Explicit!EnqueueConstruct,
        Explicit!EnqueuePublishFront, ProducerMoves, counterVars
  <2>2. \/ "pc" \in DOMAIN eq' /\ eq'.pc \in {"idle", "reuse", "construct", "publishFront", "publishTail"}
        \/ \E pc \in {"construct", "loadHead", "requisition", "grow"} : eq' = [eq EXCEPT !.pc = pc]
    <3>1. CASE \E mode \in sub.modes : Explicit!EnqueueBegin(mode)
      BY <3>1 DEF Explicit!EnqueueBegin
    <3>2. CASE Explicit!EnqueueReuse
      BY <3>2 DEF Explicit!EnqueueReuse
    <3>3. CASE Explicit!EnqueueLoadHead
      BY <3>3 DEF Explicit!EnqueueLoadHead
    <3>4. CASE Explicit!EnqueueGrow
      BY <3>4 DEF Explicit!EnqueueGrow
    <3>5. CASE Explicit!EnqueueRequisition
      BY <3>5 DEF Explicit!EnqueueRequisition
    <3>6. CASE Explicit!EnqueueConstruct
      BY <3>6 DEF Explicit!EnqueueConstruct
    <3>7. CASE Explicit!EnqueuePublishFront
      BY <3>7 DEF Explicit!EnqueuePublishFront
    <3> QED BY <1>3, <3>1, <3>2, <3>3, <3>4, <3>5, <3>6, <3>7
  <2>3. "pc" \in DOMAIN eq' /\ eq'.pc \in ExplicitSingle
    BY <1>1, <2>2 DEF ExplicitSingle
  <2>4. ExplicitPlaceOK(eq')
    BY <2>3 DEF ExplicitPlaceOK, ExplicitSingle, ExplicitBulk
  <2> QED BY <2>1, <2>4, ExplicitMove
<1> QED BY <1>2, <1>3 DEF Explicit!Enqueue

LEMMA ExplicitBulkStep ==
    ASSUME NEW M, ClaimsFit(M), CountsInv(M), sub.isExplicit, StaysInReach, Explicit!EnqueueBulk
    PROVE  CountsInv(M)'
<1> USE DEF Explicit!EqGoto, Explicit!ConsumersUnchanged, Explicit!Idle
<1>1. ExplicitPlaceOK(eq) /\ "pc" \in DOMAIN eq
  BY DEF CountsInv, ExplicitPlaceOK
<1>2. CASE Explicit!BulkPublishTail
  <2>1. /\ tailIndex' = Index(tailIndex + eq.n) /\ eq' = Idle /\ eq.pc = "bulkPublishTail"
        /\ UNCHANGED <<sub, headIndex, dequeueOptimisticCount, dequeueOvercommit, dq>>
    BY <1>2 DEF Explicit!BulkPublishTail, Explicit!Index, Index, Idle
  <2>2. eq.n \in Nat /\ eq.n < Half
    BY <1>1, <2>1 DEF ExplicitPlaceOK, ExplicitBulk
  <2> QED BY <2>1, <2>2, ExplicitTailStep
<1>3. CASE \E n \in sub.bulks, mode \in sub.modes : Explicit!BulkBegin(n, mode)
  <2>1. PICK n \in sub.bulks, mode \in sub.modes : Explicit!BulkBegin(n, mode)
    BY <1>3
  <2>2. ProducerMoves
    BY <2>1 DEF Explicit!BulkBegin, ProducerMoves, counterVars
  <2>3. n \in Nat /\ n < Half
    <3>1. sub.bulks \subseteq 1 .. Half - 1 /\ Half \in Nat
      BY IndexFacts DEF ClaimsFit, CountsInv
    <3> QED BY <3>1
  <2>4. {"pc", "n"} \subseteq DOMAIN eq' /\ eq'.n = n /\ eq'.pc \in {"bulkConstruct", "bulkReuse"}
    BY <2>1 DEF Explicit!BulkBegin
  <2>5. ExplicitPlaceOK(eq')
    BY <2>3, <2>4 DEF ExplicitPlaceOK, ExplicitBulk
  <2> QED BY <2>2, <2>5, ExplicitMove
<1>4. CASE \/ Explicit!BulkReuse \/ Explicit!BulkLoadHead \/ Explicit!BulkGrow \/ Explicit!BulkRequisition
           \/ Explicit!BulkReset \/ Explicit!BulkConstruct \/ Explicit!BulkPublishFrontLast
  <2>1. ProducerMoves
    BY <1>4 DEF Explicit!BulkReuse, Explicit!BulkLoadHead, Explicit!BulkGrow, Explicit!BulkRequisition,
        Explicit!BulkReset, Explicit!BulkConstruct, Explicit!BulkPublishFrontLast, ProducerMoves, counterVars
  <2>2. "n" \in DOMAIN eq /\ eq.n \in Nat /\ eq.n < Half
    BY <1>1, <1>4 DEF Explicit!BulkReuse, Explicit!BulkLoadHead, Explicit!BulkGrow, Explicit!BulkRequisition,
        Explicit!BulkReset, Explicit!BulkConstruct, Explicit!BulkPublishFrontLast, ExplicitPlaceOK, ExplicitBulk
  <2> DEFINE On == \E pc \in ExplicitBulk : \E need, base, first, front :
                      \/ eq' = [eq EXCEPT !.pc = pc]
                      \/ eq' = [eq EXCEPT !.pc = pc, !.front = front]
                      \/ eq' = [eq EXCEPT !.pc = pc, !.need = need, !.base = base, !.first = first]
  <2>3. ASSUME NEW b, NEW base, NEW pc \in ExplicitBulk, Explicit!BulkTakes(b, base, pc) PROVE On
    <3>1. PICK q : q = IF eq.need = 1 THEN "bulkReset" ELSE pc
      OBVIOUS
    <3>2. q \in ExplicitBulk
      BY <3>1 DEF ExplicitBulk
    <3>3. PICK m, f : eq' = [eq EXCEPT !.pc = q, !.need = m, !.base = base, !.first = f]
      BY <2>3, <3>1 DEF Explicit!BulkTakes
    <3> QED BY <3>2, <3>3
  <2>4. Explicit!BulkUndo => eq' = [pc |-> "idle"]
    BY DEF Explicit!BulkUndo
  <2>5. eq' = [pc |-> "idle"] \/ On
    <3>1. CASE Explicit!BulkReuse
      <4>1. "bulkReuse" \in ExplicitBulk /\ "bulkLoadHead" \in ExplicitBulk
        BY DEF ExplicitBulk
      <4>2. \/ \E b, base : Explicit!BulkTakes(b, base, "bulkReuse")
            \/ eq' = [eq EXCEPT !.pc = "bulkLoadHead"]
        BY <3>1 DEF Explicit!BulkReuse
      <4> QED BY <2>3, <4>1, <4>2
    <3>2. CASE Explicit!BulkLoadHead
      <4>1. Explicit!BulkUndo \/ \E pc \in {"bulkGrow", "bulkRequisition"} : eq' = [eq EXCEPT !.pc = pc]
        BY <3>2 DEF Explicit!BulkLoadHead
      <4> QED BY <2>4, <4>1 DEF ExplicitBulk
    <3>3. CASE Explicit!BulkGrow
      <4>1. Explicit!BulkUndo \/ \E f : eq' = [eq EXCEPT !.pc = "bulkRequisition", !.front = f]
        BY <3>3 DEF Explicit!BulkGrow
      <4> QED BY <2>4, <4>1 DEF ExplicitBulk
    <3>4. CASE Explicit!BulkRequisition
      <4>1. "bulkLoadHead" \in ExplicitBulk
        BY DEF ExplicitBulk
      <4>2. Explicit!BulkUndo \/ \E b, base : Explicit!BulkTakes(b, base, "bulkLoadHead")
        BY <3>4 DEF Explicit!BulkRequisition
      <4> QED BY <2>3, <2>4, <4>1, <4>2
    <3>5. CASE Explicit!BulkReset
      <4>1. eq' = [eq EXCEPT !.pc = "bulkConstruct"]
        BY <3>5 DEF Explicit!BulkReset
      <4> QED BY <4>1 DEF ExplicitBulk
    <3>6. CASE Explicit!BulkConstruct
      <4>1. Explicit!BulkUndo \/ \E pc \in {"bulkPublishFront", "bulkPublishTail"} : eq' = [eq EXCEPT !.pc = pc]
        BY <3>6 DEF Explicit!BulkConstruct
      <4> QED BY <2>4, <4>1 DEF ExplicitBulk
    <3>7. CASE Explicit!BulkPublishFrontLast
      <4>1. eq' = [eq EXCEPT !.pc = "bulkPublishTail"]
        BY <3>7 DEF Explicit!BulkPublishFrontLast
      <4> QED BY <4>1 DEF ExplicitBulk
    <3> QED BY <1>4, <3>1, <3>2, <3>3, <3>4, <3>5, <3>6, <3>7
  <2>6. ExplicitPlaceOK(eq')
    <3>1. CASE eq' = [pc |-> "idle"]
      BY <3>1 DEF ExplicitPlaceOK, ExplicitSingle, ExplicitBulk
    <3>2. CASE On
      <4>1. PICK pc \in ExplicitBulk : DOMAIN eq' = DOMAIN eq /\ eq'.pc = pc /\ eq'.n = eq.n
        BY <1>1, <2>2, <3>2
      <4> QED BY <1>1, <2>2, <4>1 DEF ExplicitPlaceOK
    <3> QED BY <2>5, <3>1, <3>2
  <2> QED BY <2>1, <2>6, ExplicitMove
<1> QED BY <1>2, <1>3, <1>4 DEF Explicit!EnqueueBulk

-----------------------------------------------------------------------------
(***************************************************************************)
(* The dequeues of either kind.                                            *)
(***************************************************************************)
LEMMA ExplicitCounting ==
    ASSUME NEW c \in DequeueThreads, Explicit!Dequeue(c)
    PROVE  Counting(c) /\ sub' = sub /\ eq' = eq
<1> USE DEF Explicit!DqGoto, DqGoto, Explicit!Idle, Idle, Explicit!Index, Index,
        Explicit!CircularLess, CircularLess, Explicit!counterVars, counterVars
<1>0. sub' = sub /\ eq' = eq
  BY DEF Explicit!Dequeue
<1>1. ASSUME NEW max \in sub.maxima, Explicit!DequeueLoadTail(c, max) PROVE LoadsTail(c, max)
  BY <1>1 DEF Explicit!DequeueLoadTail, LoadsTail
<1>2. ASSUME Explicit!DequeueLoadOvercommit(c) PROVE DequeueLoadOvercommit(c)
  BY <1>2 DEF Explicit!DequeueLoadOvercommit, DequeueLoadOvercommit
<1>3. ASSUME Explicit!DequeueLoadOptimistic(c) PROVE DequeueLoadOptimistic(c)
  BY <1>3 DEF Explicit!DequeueLoadOptimistic, DequeueLoadOptimistic, Explicit!Min, Min
<1>4. ASSUME Explicit!DequeueClaim(c) PROVE DequeueClaim(c)
  BY <1>4 DEF Explicit!DequeueClaim, DequeueClaim
<1>5. ASSUME Explicit!DequeueReloadTail(c) PROVE DequeueReloadTail(c)
  BY <1>5 DEF Explicit!DequeueReloadTail, DequeueReloadTail, Explicit!Min, Min
<1>6. ASSUME Explicit!DequeueGiveBack(c) PROVE DequeueGiveBack(c)
  BY <1>6 DEF Explicit!DequeueGiveBack, DequeueGiveBack
<1>7. ASSUME Explicit!DequeueTake(c) PROVE DequeueTake(c)
  BY <1>7 DEF Explicit!DequeueTake, DequeueTake
<1>8. \/ \E max \in sub.maxima : Explicit!DequeueLoadTail(c, max)
      \/ Explicit!DequeueLoadOvercommit(c) \/ Explicit!DequeueLoadOptimistic(c)
      \/ Explicit!DequeueClaim(c) \/ Explicit!DequeueReloadTail(c)
      \/ Explicit!DequeueGiveBack(c) \/ Explicit!DequeueTake(c)
  BY DEF Explicit!Dequeue
<1> QED BY <1>0, <1>1, <1>2, <1>3, <1>4, <1>5, <1>6, <1>7, <1>8 DEF Counting

LEMMA ImplicitCounting ==
    ASSUME NEW c \in DequeueThreads, Implicit!Dequeue(c)
    PROVE  Counting(c) /\ sub' = sub /\ eq' = eq
<1> USE DEF Implicit!DqGoto, DqGoto, Implicit!Idle, Idle, Implicit!Index, Index,
        Implicit!CircularLess, CircularLess, Implicit!counterVars, counterVars
<1>0. sub' = sub /\ eq' = eq
  BY DEF Implicit!Dequeue
<1>1. ASSUME NEW max \in sub.maxima, Implicit!DequeueLoadTail(c, max) PROVE LoadsTail(c, max)
  BY <1>1 DEF Implicit!DequeueLoadTail, LoadsTail
<1>2. ASSUME Implicit!DequeueLoadOvercommit(c) PROVE DequeueLoadOvercommit(c)
  BY <1>2 DEF Implicit!DequeueLoadOvercommit, DequeueLoadOvercommit
<1>3. ASSUME Implicit!DequeueLoadOptimistic(c) PROVE DequeueLoadOptimistic(c)
  BY <1>3 DEF Implicit!DequeueLoadOptimistic, DequeueLoadOptimistic, Implicit!Min, Min
<1>4. ASSUME Implicit!DequeueClaim(c) PROVE DequeueClaim(c)
  BY <1>4 DEF Implicit!DequeueClaim, DequeueClaim
<1>5. ASSUME Implicit!DequeueReloadTail(c) PROVE DequeueReloadTail(c)
  BY <1>5 DEF Implicit!DequeueReloadTail, DequeueReloadTail, Implicit!Min, Min
<1>6. ASSUME Implicit!DequeueGiveBack(c) PROVE DequeueGiveBack(c)
  BY <1>6 DEF Implicit!DequeueGiveBack, DequeueGiveBack
<1>7. ASSUME Implicit!DequeueTake(c) PROVE DequeueTake(c)
  BY <1>7 DEF Implicit!DequeueTake, DequeueTake
<1>8. \/ \E max \in sub.maxima : Implicit!DequeueLoadTail(c, max)
      \/ Implicit!DequeueLoadOvercommit(c) \/ Implicit!DequeueLoadOptimistic(c)
      \/ Implicit!DequeueClaim(c) \/ Implicit!DequeueReloadTail(c)
      \/ Implicit!DequeueGiveBack(c) \/ Implicit!DequeueTake(c)
  BY DEF Implicit!Dequeue
<1> QED BY <1>0, <1>1, <1>2, <1>3, <1>4, <1>5, <1>6, <1>7, <1>8 DEF Counting

LEMMA ExplicitMoving ==
    ASSUME NEW c \in DequeueThreads, "pc" \in DOMAIN dq[c], Explicit!ExplicitDequeue(c)
    PROVE  Moving(c) /\ sub' = sub /\ eq' = eq
<1> USE DEF Explicit!DqGoto
<1>0. sub' = sub /\ eq' = eq /\ UNCHANGED counterVars
  BY DEF Explicit!ExplicitDequeue, Explicit!counterVars, counterVars
<1>1. dq[c].pc \in Locating
  BY DEF Explicit!ExplicitDequeue, Explicit!DequeueLoadIndex, Explicit!DequeueLoadFront, Explicit!DequeueOffset,
         Explicit!DequeueMove, Explicit!DequeueSetEmpty, Locating
<1>2. ASSUME NEW pc, NEW i, NEW s,
             \/ s = [dq[c] EXCEPT !.pc = pc] \/ s = [dq[c] EXCEPT !.pc = pc, !.slot = i]
      PROVE  "pc" \in DOMAIN s /\ s.pc = pc
  BY <1>2
<1>3. \E s : dq' = [dq EXCEPT ![c] = s] /\ "pc" \in DOMAIN s /\ s.pc \in Locating \cup {"idle"}
  <2>1. CASE Explicit!DequeueLoadIndex(c)
    <3>1. PICK s : /\ s = [pc |-> "loadFront", index |-> dq[c].index, stop |-> dq[c].stop,
                           header |-> Explicit!Newest]
                   /\ dq' = [dq EXCEPT ![c] = s]
      BY <2>1 DEF Explicit!DequeueLoadIndex
    <3>2. "pc" \in DOMAIN s /\ s.pc = "loadFront"
      BY <3>1
    <3> QED BY <3>1, <3>2 DEF Locating
  <2>2. CASE Explicit!DequeueLoadFront(c)
    <3>1. PICK s : /\ s = [pc |-> "offset", index |-> dq[c].index, stop |-> dq[c].stop,
                           header |-> dq[c].header, slot |-> headers[dq[c].header].front]
                   /\ dq' = [dq EXCEPT ![c] = s]
      BY <2>2 DEF Explicit!DequeueLoadFront
    <3>2. "pc" \in DOMAIN s /\ s.pc = "offset"
      BY <3>1
    <3> QED BY <3>1, <3>2 DEF Locating
  <2>3. CASE Explicit!DequeueOffset(c)
    <3>1. PICK i, s : s = [dq[c] EXCEPT !.pc = "move", !.slot = i] /\ dq' = [dq EXCEPT ![c] = s]
      BY <2>3 DEF Explicit!DequeueOffset
    <3>2. "pc" \in DOMAIN s /\ s.pc = "move"
      BY <3>1, <1>2
    <3> QED BY <3>1, <3>2 DEF Locating
  <2>4. CASE Explicit!DequeueMove(c)
    <3>1. PICK s : /\ s = [pc |-> "setEmpty", index |-> dq[c].index, stop |-> dq[c].stop,
                           header |-> dq[c].header, slot |-> dq[c].slot, block |-> Explicit!BlockAt(c)]
                   /\ dq' = [dq EXCEPT ![c] = s]
      BY <2>4 DEF Explicit!DequeueMove
    <3>2. "pc" \in DOMAIN s /\ s.pc = "setEmpty"
      BY <3>1
    <3> QED BY <3>1, <3>2 DEF Locating
  <2>5. CASE Explicit!DequeueSetEmpty(c)
    <3>1. PICK i, j, k, l, s :
              /\ \/ s = [pc |-> "idle"]
                 \/ s = [pc |-> "move", index |-> i, stop |-> j, header |-> k, slot |-> l]
              /\ dq' = [dq EXCEPT ![c] = s]
      BY <2>5 DEF Explicit!DequeueSetEmpty, Explicit!Idle
    <3>2. CASE s = [pc |-> "idle"]
      <4>1. "pc" \in DOMAIN s /\ s.pc = "idle"
        BY <3>2
      <4> QED BY <3>1, <4>1
    <3>3. CASE s = [pc |-> "move", index |-> i, stop |-> j, header |-> k, slot |-> l]
      <4>1. "pc" \in DOMAIN s /\ s.pc = "move"
        BY <3>3
      <4> QED BY <3>1, <4>1 DEF Locating
    <3> QED BY <3>1, <3>2, <3>3
  <2> QED BY <2>1, <2>2, <2>3, <2>4, <2>5 DEF Explicit!ExplicitDequeue
<1> QED BY <1>0, <1>1, <1>3 DEF Moving

LEMMA ImplicitMoving ==
    ASSUME NEW c \in DequeueThreads, "pc" \in DOMAIN dq[c], Implicit!ImplicitDequeue(c)
    PROVE  Moving(c) /\ sub' = sub /\ eq' = eq
<1> USE DEF Implicit!DqGoto
<1>0. sub' = sub /\ eq' = eq /\ UNCHANGED counterVars
  BY DEF Implicit!ImplicitDequeue, Implicit!counterVars, counterVars
<1>1. dq[c].pc \in Locating
  BY DEF Implicit!ImplicitDequeue, Implicit!LocateLoadIndex, Implicit!LocateLoadTail, Implicit!LocateOffset,
         Implicit!Move, Implicit!SetEmpty, Implicit!TakeOffIndex, Implicit!FreeBlock, Locating
<1>2. ASSUME NEW s, s = Implicit!NextBlockOf(c)
      PROVE  "pc" \in DOMAIN s /\ s.pc \in {"idle", "move"}
  <2>1. s = [pc |-> "idle"] \/ \E i, j, k, l : s = [pc |-> "move", index |-> i, stop |-> j, header |-> k, slot |-> l]
    BY <1>2 DEF Implicit!NextBlockOf, Implicit!Idle
  <2> QED BY <2>1
<1>3. \E s : dq' = [dq EXCEPT ![c] = s] /\ "pc" \in DOMAIN s /\ s.pc \in Locating \cup {"idle"}
  <2>1. CASE Implicit!LocateLoadIndex(c)
    <3>1. PICK s : /\ s = [pc |-> "loadTail", index |-> dq[c].index, stop |-> dq[c].stop,
                           header |-> Implicit!Newest]
                   /\ dq' = [dq EXCEPT ![c] = s]
      BY <2>1 DEF Implicit!LocateLoadIndex
    <3>2. "pc" \in DOMAIN s /\ s.pc = "loadTail"
      BY <3>1
    <3> QED BY <3>1, <3>2 DEF Locating
  <2>2. CASE Implicit!LocateLoadTail(c)
    <3>1. PICK s : /\ s = [pc |-> "offset", index |-> dq[c].index, stop |-> dq[c].stop,
                           header |-> dq[c].header, slot |-> headers[dq[c].header].tail]
                   /\ dq' = [dq EXCEPT ![c] = s]
      BY <2>2 DEF Implicit!LocateLoadTail
    <3>2. "pc" \in DOMAIN s /\ s.pc = "offset"
      BY <3>1
    <3> QED BY <3>1, <3>2 DEF Locating
  <2>3. CASE Implicit!LocateOffset(c)
    <3>1. PICK i, s : s = [dq[c] EXCEPT !.pc = "move", !.slot = i] /\ dq' = [dq EXCEPT ![c] = s]
      BY <2>3 DEF Implicit!LocateOffset
    <3>2. "pc" \in DOMAIN s /\ s.pc = "move"
      BY <3>1
    <3> QED BY <3>1, <3>2 DEF Locating
  <2>4. CASE Implicit!Move(c)
    <3>1. PICK b, s : /\ s = [pc |-> "setEmpty", index |-> dq[c].index, stop |-> dq[c].stop,
                              header |-> dq[c].header, slot |-> dq[c].slot, block |-> b]
                      /\ dq' = [dq EXCEPT ![c] = s]
      BY <2>4 DEF Implicit!Move
    <3>2. "pc" \in DOMAIN s /\ s.pc = "setEmpty"
      BY <3>1
    <3> QED BY <3>1, <3>2 DEF Locating
  <2>5. CASE Implicit!SetEmpty(c)
    <3>1. PICK s : /\ s = [dq[c] EXCEPT !.pc = "takeOff"] \/ s = Implicit!NextBlockOf(c)
                   /\ dq' = [dq EXCEPT ![c] = s]
      BY <2>5 DEF Implicit!SetEmpty
    <3>2. "pc" \in DOMAIN s /\ s.pc \in {"idle", "move", "takeOff"}
      BY <1>2, <3>1
    <3> QED BY <3>1, <3>2 DEF Locating
  <2>6. CASE Implicit!TakeOffIndex(c)
    <3>1. PICK s : s = [dq[c] EXCEPT !.pc = "free"] /\ dq' = [dq EXCEPT ![c] = s]
      BY <2>6 DEF Implicit!TakeOffIndex
    <3>2. "pc" \in DOMAIN s /\ s.pc = "free"
      BY <3>1
    <3> QED BY <3>1, <3>2 DEF Locating
  <2>7. CASE Implicit!FreeBlock(c)
    <3>1. PICK s : s = Implicit!NextBlockOf(c) /\ dq' = [dq EXCEPT ![c] = s]
      BY <2>7 DEF Implicit!FreeBlock
    <3>2. "pc" \in DOMAIN s /\ s.pc \in {"idle", "move"}
      BY <1>2, <3>1
    <3> QED BY <3>1, <3>2 DEF Locating
  <2> QED BY <2>1, <2>2, <2>3, <2>4, <2>5, <2>6, <2>7 DEF Implicit!ImplicitDequeue
<1> QED BY <1>0, <1>1, <1>3 DEF Moving

-----------------------------------------------------------------------------
LEMMA CountsStart ==
    ASSUME NEW M, ClaimsFit(M), Init
    PROVE  CountsInv(M)
<1>1. /\ sub \in SubQueues /\ tailIndex = 0 /\ headIndex = 0 /\ dequeueOptimisticCount = 0
      /\ dequeueOvercommit = 0 /\ eq = Idle /\ dq = [c \in DequeueThreads |-> Idle]
  BY DEF Init, SubQueueInit, BaseInit
<1>2. M \in Nat /\ Reach(M) \in Nat /\ Threads * M \in Nat
  BY ReachType DEF ClaimsFit
<1>3. WonOf(dq) = [c \in DequeueThreads |-> 0] /\ DueOf(dq) = [c \in DequeueThreads |-> 0]
  BY <1>1 DEF WonOf, DueOf, WonIn, DueIn, Idle
<1>4. Claimants(dq) = {} /\ Unsettled(dq) = {}
  BY <1>1 DEF Claimants, Unsettled, Idle
<1>5. SumOver(WonOf(dq)) = 0 /\ SumOver(DueOf(dq)) = 0
  <2>1. SumOver([c \in DequeueThreads |-> 0]) = 0
    BY SumZero
  <2> QED BY <1>3, <2>1
<1>6. PICK z \in [DequeueThreads -> Int] : z = [c \in DequeueThreads |-> 0]
  <2>1. [c \in DequeueThreads |-> 0] \in [DequeueThreads -> Int]
    OBVIOUS
  <2> QED BY <2>1
<1>7. PlacesOK(M, dq, dequeueOvercommit)
  <2>1. \A c \in DequeueThreads : PlaceOK(M, dq[c])
    BY <1>1 DEF PlaceOK, DequeuePlaces, Idle
  <2> QED BY <1>1, <2>1 DEF PlacesOK
<1>8. Index(0) = 0
  BY IndexSmall, IndexFacts
<1>9. Numbers(M, dq, dequeueOvercommit, dequeueOptimisticCount, headIndex, tailIndex, 0, 0, z, z)
  <2>1. z \in [DequeueThreads -> 0 .. M]
    BY <1>2, <1>6
  <2>2. Layout(0 + 0, 0, z, z, {}) /\ Safe(0, z, z, z, {})
    BY DEF Layout, Safe
  <2>3. Stands(M, Reach(M), 0, 0, z, z, z, z, {}, {})
    BY <1>3, <1>5, <1>6, <2>1, <2>2, IndexFacts DEF Stands
  <2>4. WonOf(dq) = z /\ DueOf(dq) = z
    BY <1>3, <1>6
  <2> QED BY <1>1, <1>4, <1>5, <1>8, <2>3, <2>4 DEF Numbers
<1>10. RoomIsGiven(eq, 0, 0)
  <2>1. Granted(0, 0, 0)
    <3>1. 0 = BLOCK_SIZE * 0
      BY IndexFacts
    <3> QED BY <3>1, IndexFacts DEF Granted, Whole
  <2> QED BY <1>1, <2>1 DEF RoomIsGiven, ImplicitForward, Idle
<1>11. ExplicitPlaceOK(eq) /\ ImplicitPlaceOK(eq)
  BY <1>1 DEF ExplicitPlaceOK, ImplicitPlaceOK, ExplicitSingle, ExplicitBulk, ImplicitForward, ImplicitBack, Idle
<1>12. NumbersStand(M)
  BY <1>9, <1>10 DEF NumbersStand
<1> QED BY <1>1, <1>7, <1>11, <1>12 DEF CountsInv

LEMMA SubQueueStays ==
    ASSUME Implicit!ImplicitNext
    PROVE  sub' = sub
<1> USE DEF Implicit!ConsumersUnchanged
<1>1. CASE Implicit!ImplicitEnqueue
  BY <1>1 DEF Implicit!ImplicitEnqueue, Implicit!ImplicitBegin, Implicit!ImplicitLoadHead,
      Implicit!InsertKey, Implicit!InsertGrow, Implicit!InsertTail, Implicit!ImplicitRequisition,
      Implicit!TryConstruct, Implicit!SetValue, Implicit!Construct, Implicit!PublishTail,
      Implicit!Rewind, Implicit!ClearValue, Implicit!ReturnBlock, Implicit!RevertEntry,
      Implicit!RevertTail, Implicit!Release
<1>2. CASE \E c \in DequeueThreads : Implicit!Dequeue(c) \/ Implicit!ImplicitDequeue(c)
  BY <1>2 DEF Implicit!Dequeue, Implicit!ImplicitDequeue
<1> QED BY <1>1, <1>2 DEF Implicit!ImplicitNext

LEMMA CountsKept ==
    ASSUME NEW M, ClaimsFit(M), CountsInv(M), SubQueueNext, StaysInReach, ClaimsAreFresh(M)
    PROVE  CountsInv(M)'
<1>0. \A c \in DequeueThreads : "pc" \in DOMAIN dq[c]
  BY DEF CountsInv, PlacesOK, PlaceOK
<1>1. CASE sub.isExplicit /\ Explicit!ExplicitNext
  <2>1. CASE Explicit!Enqueue
    BY <1>1, <2>1, ExplicitEnqueueStep
  <2>2. CASE Explicit!EnqueueBulk
    BY <1>1, <2>2, ExplicitBulkStep
  <2>3. CASE \E c \in DequeueThreads : Explicit!Dequeue(c)
    BY <2>3, ExplicitCounting, CountingStep
  <2>4. CASE \E c \in DequeueThreads : Explicit!ExplicitDequeue(c)
    BY <1>0, <2>4, ExplicitMoving, MovingStep
  <2> QED BY <1>1, <2>1, <2>2, <2>3, <2>4 DEF Explicit!ExplicitNext
<1>2. CASE ~sub.isExplicit /\ Implicit!ImplicitNext
  <2>1. CASE \E mode \in sub.modes : \/ Implicit!ImplicitBegin(1, mode, TRUE)
                                     \/ \E n \in sub.bulks : Implicit!ImplicitBegin(n, mode, FALSE)
    BY <1>2, <2>1, ImplicitBeginStep
  <2>2. CASE Implicit!ImplicitLoadHead
    BY <1>2, <2>2, ImplicitLoadHeadStep
  <2>3. CASE Implicit!PublishTail
    BY <1>2, <2>3, ImplicitPublishTailStep
  <2>4. CASE \/ Implicit!InsertKey \/ Implicit!InsertGrow \/ Implicit!InsertTail
             \/ Implicit!ImplicitRequisition \/ Implicit!TryConstruct \/ Implicit!SetValue
             \/ Implicit!Construct \/ Implicit!Rewind \/ Implicit!ClearValue \/ Implicit!ReturnBlock
             \/ Implicit!RevertEntry \/ Implicit!RevertTail \/ Implicit!Release
    BY <1>2, <2>4, ImplicitOtherSteps
  <2>5. CASE \E c \in DequeueThreads : Implicit!Dequeue(c)
    BY <2>5, ImplicitCounting, CountingStep
  <2>6. CASE \E c \in DequeueThreads : Implicit!ImplicitDequeue(c)
    BY <1>0, <2>6, ImplicitMoving, MovingStep
  <2> QED BY <1>2, <2>1, <2>2, <2>3, <2>4, <2>5, <2>6 DEF Implicit!ImplicitNext, Implicit!ImplicitEnqueue
<1> QED BY <1>1, <1>2 DEF SubQueueNext

LEMMA CountsImplied ==
    ASSUME NEW M, ClaimsFit(M), CountsInv(M)
    PROVE  CountsAgree
<1>1. PICK h, t, w, y :
          Numbers(M, dq, dequeueOvercommit, dequeueOptimisticCount, headIndex, tailIndex, h, t, w, y)
  BY DEF CountsInv, NumbersStand
<1>2. /\ h \in Nat /\ t \in Nat /\ h <= t /\ t - h <= Half
      /\ headIndex = Index(h) /\ tailIndex = Index(t)
  BY <1>1, CountsTypes
<1>3. ~CircularLess(tailIndex, headIndex)
  <2>1. t - h \in Int /\ t - h >= 0 /\ -IndexValues <= t - h /\ t - h < IndexValues
    BY <1>2, IndexFacts
  <2>2. Index(t - h) = t - h
    BY <2>1, IndexSmall
  <2>3. ~(Index(t - h) > Half)
    BY <1>2, <2>2, IndexFacts
  <2>4. CircularLess(Index(t), Index(h)) <=> Index(t - h) > Half
    <3>1. t \in Int /\ h \in Int
      BY <1>2
    <3> QED BY ONLY <3>1, LessIs
  <2> QED BY <1>2, <2>3, <2>4
<1>4. ASSUME NobodyIsIn PROVE Index(dequeueOptimisticCount - dequeueOvercommit) = headIndex
  <2>1. \A c \in DequeueThreads : WonOf(dq)[c] = 0 /\ DueOf(dq)[c] = 0
    BY <1>4 DEF NobodyIsIn, WonOf, DueOf, WonIn, DueIn
  <2>2. SumOver(WonOf(dq)) = 0 /\ SumOver(DueOf(dq)) = 0
    BY <2>1, SumZero
  <2>3. dequeueOvercommit \in Nat
    BY DEF CountsInv, PlacesOK
  <2>4. PICK T \in Int, o \in Int : o = dequeueOvercommit /\ T = h + o
    BY <1>2, <2>3
  <2>5. dequeueOptimisticCount = Index(T)
    <3>1. dequeueOptimisticCount = Index(h + 0 + 0 + o)
      BY <1>1, <2>2, <2>4 DEF Numbers
    <3>2. h + 0 + 0 + o = T
      BY <1>2, <2>4
    <3> QED BY <3>1, <3>2
  <2>6. Index(Index(T) - o) = Index(T - o) /\ T - o = h
    BY <1>2, <2>4, IndexOfIndex
  <2> QED BY <1>2, <2>4, <2>5, <2>6
<1> QED BY <1>3, <1>4 DEF CountsAgree

\* The head never passes the tail and, with nobody inside, the counts agree, however
\* many threads dequeue at a time and over any number of wraps of each counter, if the
\* claims there can be fit in half the range of an index: none takes more than M, nor is
\* made when more than M were given back since its load of how many were; the ring of
\* an explicit producer must not be that large.
THEOREM CountsAgreeAlways ==
    ASSUME NEW M, ClaimsFit(M)
    PROVE  Spec /\ [][StaysInReach]_vars /\ []ClaimsAreFresh(M) => []CountsAgree
<1>1. Init => CountsInv(M)
  BY CountsStart
<1>2. CountsInv(M) /\ [Next]_vars /\ [StaysInReach]_vars /\ ClaimsAreFresh(M) => CountsInv(M)'
  <2> SUFFICES ASSUME CountsInv(M), [Next]_vars, [StaysInReach]_vars, ClaimsAreFresh(M)
               PROVE  CountsInv(M)'
    OBVIOUS
  <2>1. CASE UNCHANGED subQueueVars
    BY <2>1 DEF subQueueVars, CountsInv, NumbersStand, counterVars
  <2>2. CASE SubQueueNext /\ StaysInReach
    BY <2>2, CountsKept
  <2>3. CASE SubQueueNext /\ UNCHANGED vars
    BY <2>1, <2>3 DEF vars
  <2> QED BY <2>1, <2>2, <2>3 DEF Next, vars
<1>3. CountsInv(M) => CountsAgree
  BY CountsImplied
<1> QED BY <1>1, <1>2, <1>3, PTL DEF Spec

\* Of an implicit producer, which sees to it that there is leeway, without more.
THEOREM ImplicitCountsAgreeAlways ==
    ASSUME NEW M, ClaimsFit(M)
    PROVE  Spec /\ ~sub.isExplicit /\ []ClaimsAreFresh(M) => []CountsAgree
<1>1. ~sub.isExplicit /\ [Next]_vars => (~sub.isExplicit)' /\ [StaysInReach]_vars
  BY SubQueueStays DEF Next, SubQueueNext, vars, subQueueVars, StaysInReach
<1> QED BY <1>1, CountsAgreeAlways, PTL DEF Spec

-----------------------------------------------------------------------------
(***************************************************************************)
(* The hash of implicit producers: tables, and the slots a search passes.  *)
(***************************************************************************)
Entry == [key : ThreadIds \cup {invalid_thread_id, invalid_thread_id2},
          value : HashedProducers \cup {NoProducer}]
AnyTable == UNION {[0 .. n - 1 -> Entry] : n \in Nat \ {0}}

\* The slot of table h that a search comes to at index i.
SlotAt(T, h, i) == i % Cardinality(DOMAIN T[h])
ProbedKey(T, h, i) == T[h][SlotAt(T, h, i)].key

\* Thread u has no key in table h; none of the slots from where its search begins up
\* to index i has its key, or is free.
NoKey(T, u, h) == \A k \in DOMAIN T[h] : T[h][k].key # u
NotBefore(T, H, u, h, i) == \A j \in H[u] .. i - 1 : ProbedKey(T, h, j) # u
TakenBefore(T, H, u, h, i) == \A j \in H[u] .. i - 1 : ProbedKey(T, h, j) # invalid_thread_id

\* A search for u's key comes to it before it comes to a free slot, and there is one.
OnPath(T, H, u, h) ==
    \A k \in DOMAIN T[h] : T[h][k].key = u =>
        \E m \in Nat : m >= H[u] /\ SlotAt(T, h, m) = k /\ TakenBefore(T, H, u, h, m)
OneKey(T, u, h) == \A k, l \in DOMAIN T[h] : T[h][k].key = u /\ T[h][l].key = u => k = l
IsKeyed(T, H, u) == \A h \in 1 .. Len(T) : OnPath(T, H, u, h) /\ OneKey(T, u, h)

\* Thread u, of producers L, is in no table, or in some, always with its producer.
NoneYet(T, u, L) == L = {} /\ \A h \in 1 .. Len(T) : NoKey(T, u, h)
Registered(T, u, L) ==
    \/ NoneYet(T, u, L)
    \/ \E p \in HashedProducers :
           /\ L = {p}
           /\ \E h \in 1 .. Len(T) : ~NoKey(T, u, h)
           /\ \A h \in 1 .. Len(T) : \A k \in DOMAIN T[h] : T[h][k].key = u => T[h][k].value = p

\* What thread u has found out where it is.
OutsideOK(s, T, u, L) ==
    /\ s \in [pc : {"out", "uncount"}, producer : HashedProducers \cup {NoProducer}]
    /\ Registered(T, u, L) /\ (s.producer # NoProducer => L = {s.producer})
ProbeOK(s, T, H, u, L) ==
    /\ s \in [pc : {"probe"}, main : 1 .. Len(T), hash : 1 .. Len(T), index : Nat]
    /\ s.hash <= s.main /\ s.index >= H[u] /\ Registered(T, u, L)
    /\ \A h \in s.hash + 1 .. Len(T) : NoKey(T, u, h)
    /\ NotBefore(T, H, u, s.hash, s.index)
CopyOK(s, T, H, u, L) ==
    /\ s \in [pc : {"copy"}, hash : 1 .. Len(T), index : Nat, producer : HashedProducers]
    /\ s.index >= H[u] /\ Registered(T, u, L) /\ L = {s.producer}
    /\ NoKey(T, u, s.hash) /\ TakenBefore(T, H, u, s.hash, s.index)
CountedOK(s, T, u, L) ==
    /\ \/ s \in [pc : {"count"}, main : 1 .. Len(T)]
       \/ s \in [pc : {"resize", "reload", "allocate", "unlock", "room"},
                 main : 1 .. Len(T), count : Int]
          /\ (s.pc = "allocate" => s.count >= Cardinality(DOMAIN T[s.main]) \div 2)
       \/ s \in [pc : {"failed"}]
    /\ NoneYet(T, u, L)
InsertOK(s, T, H, u, L) ==
    /\ s \in [pc : {"insert"}, hash : 1 .. Len(T), index : Nat, producer : HashedProducers]
    /\ s.index >= H[u] /\ L = {s.producer} /\ (\A h \in 1 .. Len(T) : NoKey(T, u, h))
    /\ TakenBefore(T, H, u, s.hash, s.index)
ExitOK(s, T, H, u, L) ==
    /\ s \in [pc : {"exit"}, hash : 1 .. Len(T), index : Nat, producer : HashedProducers]
    /\ s.index >= H[u] /\ L = {s.producer}
    /\ \A h \in s.hash + 1 .. Len(T) : NoKey(T, u, h)
    /\ NotBefore(T, H, u, s.hash, s.index)
ExitedOK(s, T, u, L) ==
    /\ s \in [pc : {"exited"}, producer : HashedProducers]
    /\ L = {s.producer} /\ \A h \in 1 .. Len(T) : NoKey(T, u, h)

HashPlaceOK(s, T, H, u, L) ==
    \/ OutsideOK(s, T, u, L) \/ ProbeOK(s, T, H, u, L) \/ CopyOK(s, T, H, u, L)
    \/ CountedOK(s, T, u, L) \/ InsertOK(s, T, H, u, L) \/ ExitOK(s, T, H, u, L)
    \/ ExitedOK(s, T, u, L)

\* Producers are numbered as they are made; those of threads are apart, and active.
HandedOut(made, free, L) ==
    /\ \E n \in Nat : made = 1 .. n
    /\ made \subseteq HashedProducers /\ free \subseteq made
    /\ L \in [ThreadIds -> SUBSET made]
    /\ \A t \in ThreadIds : L[t] \cap free = {}
    /\ \A t, u \in ThreadIds : t # u => L[t] \cap L[u] = {}

TablesTyped(T) == T \in Seq(AnyTable) /\ Len(T) >= 1

HashInv ==
    /\ hash_thread_id \in [ThreadIds -> Nat]
    /\ TablesTyped(implicitProducerHash)
    /\ implicitProducerHashCount \in Int
    /\ HandedOut(created, recyclable, listeners)
    /\ ih = [t \in ThreadIds |-> ih[t]]
    /\ \A u \in ThreadIds :
           /\ IsKeyed(implicitProducerHash, hash_thread_id, u)
           /\ HashPlaceOK(ih[u], implicitProducerHash, hash_thread_id, u, listeners[u])

LEMMA Remainder ==
    ASSUME NEW s \in Nat \ {0}, NEW i \in Nat
    PROVE  i % s \in 0 .. s - 1
  OBVIOUS

LEMMA TableFacts ==
    ASSUME NEW f \in AnyTable
    PROVE  \E s \in Nat \ {0} : /\ DOMAIN f = 0 .. s - 1 /\ Cardinality(DOMAIN f) = s
                                /\ f \in [0 .. s - 1 -> Entry]
<1>1. PICK s \in Nat \ {0} : f \in [0 .. s - 1 -> Entry]
  BY DEF AnyTable
<1>2. Cardinality(0 .. s - 1) = s
  <2>1. 0 \in Int /\ s - 1 \in Int
    OBVIOUS
  <2>2. Cardinality(0 .. s - 1) = IF 0 > s - 1 THEN 0 ELSE (s - 1) - 0 + 1
    BY <2>1, FS_Interval
  <2> QED BY <2>2
<1>3. DOMAIN f = 0 .. s - 1
  BY <1>1
<1> QED BY <1>1, <1>2, <1>3

LEMMA SlotIsThere ==
    ASSUME NEW T, TablesTyped(T), NEW h \in 1 .. Len(T)
    PROVE  /\ T[h] \in AnyTable /\ Cardinality(DOMAIN T[h]) \in Nat \ {0}
           /\ \A i \in Nat : SlotAt(T, h, i) \in DOMAIN T[h]
           /\ \A k \in DOMAIN T[h] : T[h][k] \in Entry
<1>1. T[h] \in AnyTable
  BY DEF TablesTyped
<1>2. PICK s \in Nat \ {0} : /\ DOMAIN T[h] = 0 .. s - 1 /\ Cardinality(DOMAIN T[h]) = s
                             /\ T[h] \in [0 .. s - 1 -> Entry]
  BY <1>1, TableFacts
<1>3. \A i \in Nat : SlotAt(T, h, i) \in DOMAIN T[h]
  BY <1>2, Remainder DEF SlotAt
<1> QED BY <1>1, <1>2, <1>3

\* A step of thread t at the tables: of no other's key, and no slot is free again; what is
\* new is free.
TablesStep(T, W, t) ==
    /\ Len(W) >= Len(T)
    /\ \A h \in 1 .. Len(T) :
           /\ DOMAIN W[h] = DOMAIN T[h]
           /\ \A k \in DOMAIN T[h] :
                  \/ W[h][k] = T[h][k]
                  \/ /\ T[h][k].key \in {invalid_thread_id, invalid_thread_id2, t}
                     /\ W[h][k].key \in {invalid_thread_id2, t}
    /\ \A h \in Len(T) + 1 .. Len(W) : \A k \in DOMAIN W[h] : W[h][k].key = invalid_thread_id

\* What another thread has found out stays so.
LEMMA OthersKeys ==
    ASSUME NEW T, NEW W, TablesTyped(T), NEW t, TablesStep(T, W, t),
           NEW u \in ThreadIds, u # t, NEW h \in 1 .. Len(T)
    PROVE  /\ DOMAIN W[h] = DOMAIN T[h]
           /\ \A i : SlotAt(W, h, i) = SlotAt(T, h, i)
           /\ \A k \in DOMAIN T[h] : /\ W[h][k].key = u <=> T[h][k].key = u
                                     /\ W[h][k].key = u => W[h][k] = T[h][k]
                                     /\ T[h][k].key # invalid_thread_id => W[h][k].key # invalid_thread_id \/ t = invalid_thread_id
  BY HashAssumption DEF TablesStep, SlotAt

LEMMA OthersPath ==
    ASSUME NEW T, NEW W, TablesTyped(T), NEW t \in ThreadIds, TablesStep(T, W, t),
           NEW H \in [ThreadIds -> Nat], NEW u \in ThreadIds, NEW h \in 1 .. Len(T), NEW i \in Nat,
           TakenBefore(T, H, u, h, i)
    PROVE  TakenBefore(W, H, u, h, i)
<1> SUFFICES ASSUME NEW j \in H[u] .. i - 1 PROVE ProbedKey(W, h, j) # invalid_thread_id
  BY DEF TakenBefore
<1>1. j \in Nat /\ ProbedKey(T, h, j) # invalid_thread_id
  BY DEF TakenBefore
<1>2. SlotAt(T, h, j) \in DOMAIN T[h] /\ SlotAt(W, h, j) = SlotAt(T, h, j)
  BY <1>1, SlotIsThere DEF TablesStep, SlotAt
<1> QED BY <1>1, <1>2, HashAssumption DEF TablesStep, ProbedKey

LEMMA OthersNotBefore ==
    ASSUME NEW T, NEW W, TablesTyped(T), NEW t, TablesStep(T, W, t),
           NEW H \in [ThreadIds -> Nat], NEW u \in ThreadIds, u # t, NEW h \in 1 .. Len(T), NEW i \in Nat,
           NotBefore(T, H, u, h, i)
    PROVE  NotBefore(W, H, u, h, i)
<1> SUFFICES ASSUME NEW j \in H[u] .. i - 1 PROVE ProbedKey(W, h, j) # u
  BY DEF NotBefore
<1>1. j \in Nat /\ ProbedKey(T, h, j) # u
  BY DEF NotBefore
<1>2. SlotAt(T, h, j) \in DOMAIN T[h]
  BY <1>1, SlotIsThere
<1> QED BY <1>1, <1>2, OthersKeys DEF ProbedKey

LEMMA OthersNoKey ==
    ASSUME NEW T, NEW W, TablesTyped(T), NEW t, TablesStep(T, W, t), NEW u \in ThreadIds, u # t
    PROVE  /\ \A h \in 1 .. Len(T) : NoKey(W, u, h) <=> NoKey(T, u, h)
           /\ \A h \in Len(T) + 1 .. Len(W) : NoKey(W, u, h)
<1>1. \A h \in 1 .. Len(T) : NoKey(W, u, h) <=> NoKey(T, u, h)
  BY OthersKeys DEF NoKey
<1>2. \A h \in Len(T) + 1 .. Len(W) : NoKey(W, u, h)
  BY HashAssumption DEF TablesStep, NoKey
<1> QED BY <1>1, <1>2

LEMMA OthersKeyed ==
    ASSUME NEW T, NEW W, TablesTyped(T), NEW t \in ThreadIds, TablesStep(T, W, t), Len(W) \in Nat,
           NEW H \in [ThreadIds -> Nat], NEW u \in ThreadIds, u # t, IsKeyed(T, H, u)
    PROVE  IsKeyed(W, H, u)
<1>0. Len(T) \in Nat /\ Len(T) <= Len(W)
  BY DEF TablesTyped, TablesStep
<1>1. ASSUME NEW h \in 1 .. Len(T) PROVE OnPath(W, H, u, h) /\ OneKey(W, u, h)
  <2>1. OnPath(T, H, u, h) /\ OneKey(T, u, h)
    BY DEF IsKeyed
  <2>2. OneKey(W, u, h)
    BY <2>1, OthersKeys DEF OneKey
  <2>3. ASSUME NEW k \in DOMAIN W[h], W[h][k].key = u
        PROVE  \E m \in Nat : m >= H[u] /\ SlotAt(W, h, m) = k /\ TakenBefore(W, H, u, h, m)
    <3>1. k \in DOMAIN T[h] /\ T[h][k].key = u
      BY <2>3, OthersKeys
    <3>2. PICK m \in Nat : m >= H[u] /\ SlotAt(T, h, m) = k /\ TakenBefore(T, H, u, h, m)
      BY <2>1, <3>1 DEF OnPath
    <3>3. SlotAt(W, h, m) = k
      BY <3>2, OthersKeys
    <3>4. TakenBefore(W, H, u, h, m)
      BY <3>2, OthersPath
    <3> QED BY <3>2, <3>3, <3>4
  <2> QED BY <2>2, <2>3 DEF OnPath
<1>2. ASSUME NEW h \in Len(T) + 1 .. Len(W) PROVE OnPath(W, H, u, h) /\ OneKey(W, u, h)
  BY OthersNoKey DEF NoKey, OnPath, OneKey
<1> QED BY <1>0, <1>1, <1>2 DEF IsKeyed

LEMMA OthersRegistered ==
    ASSUME NEW T, NEW W, TablesTyped(T), NEW t, TablesStep(T, W, t), Len(W) \in Nat,
           NEW u \in ThreadIds, u # t, NEW L
    PROVE  /\ NoneYet(T, u, L) => NoneYet(W, u, L)
           /\ Registered(T, u, L) => Registered(W, u, L)
<1>0. Len(T) \in Nat /\ Len(T) <= Len(W)
  BY DEF TablesTyped, TablesStep
<1>1. NoneYet(T, u, L) => NoneYet(W, u, L)
  BY <1>0, OthersNoKey DEF NoneYet
<1>2. ASSUME NEW p \in HashedProducers, L = {p},
             \E h \in 1 .. Len(T) : ~NoKey(T, u, h),
             \A h \in 1 .. Len(T) : \A k \in DOMAIN T[h] : T[h][k].key = u => T[h][k].value = p
      PROVE  Registered(W, u, L)
  <2>1. \E h \in 1 .. Len(W) : ~NoKey(W, u, h)
    BY <1>0, <1>2, OthersNoKey
  <2>2. ASSUME NEW h \in 1 .. Len(W), NEW k \in DOMAIN W[h], W[h][k].key = u PROVE W[h][k].value = p
    <3>1. h \in 1 .. Len(T)
      BY <1>0, <2>2, OthersNoKey DEF NoKey
    <3> QED BY <1>2, <2>2, <3>1, OthersKeys
  <2> QED BY <1>2, <2>1, <2>2 DEF Registered
<1> QED BY <1>1, <1>2 DEF Registered

LEMMA OthersPlace ==
    ASSUME NEW T, NEW W, TablesTyped(T), NEW t \in ThreadIds, TablesStep(T, W, t), Len(W) \in Nat,
           NEW H \in [ThreadIds -> Nat], NEW u \in ThreadIds, u # t, NEW L, NEW s,
           HashPlaceOK(s, T, H, u, L)
    PROVE  HashPlaceOK(s, W, H, u, L)
<1>0. /\ Len(T) \in Nat /\ Len(T) <= Len(W)
      /\ \A h \in 1 .. Len(T) : h \in 1 .. Len(W) /\ DOMAIN W[h] = DOMAIN T[h]
  BY DEF TablesTyped, TablesStep
<1>1. ASSUME NEW g \in Int, \A h \in g + 1 .. Len(T) : NoKey(T, u, h), g >= 0
      PROVE  \A h \in g + 1 .. Len(W) : NoKey(W, u, h)
  BY <1>0, <1>1, OthersNoKey
<1>2. \A h \in 1 .. Len(T) : NoKey(T, u, h) => NoKey(W, u, h)
  BY OthersNoKey
<1>3. /\ NoneYet(T, u, L) => NoneYet(W, u, L)
      /\ Registered(T, u, L) => Registered(W, u, L)
  BY OthersRegistered
<1>4. (\A h \in 1 .. Len(T) : NoKey(T, u, h)) => \A h \in 1 .. Len(W) : NoKey(W, u, h)
  BY <1>0, <1>2, OthersNoKey
<1>5. CASE OutsideOK(s, T, u, L)
  <2>1. OutsideOK(s, W, u, L)
    BY <1>3, <1>5 DEF OutsideOK
  <2> QED BY <2>1 DEF HashPlaceOK
<1>6. CASE ProbeOK(s, T, H, u, L)
  <2>1. /\ s \in [pc : {"probe"}, main : 1 .. Len(T), hash : 1 .. Len(T), index : Nat]
        /\ s.hash <= s.main /\ s.index >= H[u] /\ Registered(T, u, L)
        /\ \A h \in s.hash + 1 .. Len(T) : NoKey(T, u, h)
        /\ NotBefore(T, H, u, s.hash, s.index)
    BY <1>6 DEF ProbeOK
  <2>2. s \in [pc : {"probe"}, main : 1 .. Len(W), hash : 1 .. Len(W), index : Nat]
    BY <1>0, <2>1
  <2>3. \A h \in s.hash + 1 .. Len(W) : NoKey(W, u, h)
    BY <1>1, <2>1
  <2>4. NotBefore(W, H, u, s.hash, s.index)
    BY <2>1, OthersNotBefore
  <2>5. ProbeOK(s, W, H, u, L)
    BY <1>3, <2>1, <2>2, <2>3, <2>4 DEF ProbeOK
  <2> QED BY <2>5 DEF HashPlaceOK
<1>7. CASE CopyOK(s, T, H, u, L)
  <2>1. /\ s \in [pc : {"copy"}, hash : 1 .. Len(T), index : Nat, producer : HashedProducers]
        /\ s.index >= H[u] /\ Registered(T, u, L) /\ L = {s.producer}
        /\ NoKey(T, u, s.hash) /\ TakenBefore(T, H, u, s.hash, s.index)
    BY <1>7 DEF CopyOK
  <2>2. s \in [pc : {"copy"}, hash : 1 .. Len(W), index : Nat, producer : HashedProducers]
    BY <1>0, <2>1
  <2>3. NoKey(W, u, s.hash)
    BY <1>2, <2>1
  <2>4. TakenBefore(W, H, u, s.hash, s.index)
    BY <2>1, OthersPath
  <2>5. CopyOK(s, W, H, u, L)
    BY <1>3, <2>1, <2>2, <2>3, <2>4 DEF CopyOK
  <2> QED BY <2>5 DEF HashPlaceOK
<1>8. CASE CountedOK(s, T, u, L)
  <2>1. NoneYet(W, u, L)
    BY <1>3, <1>8 DEF CountedOK
  <2>2. CASE s \in [pc : {"count"}, main : 1 .. Len(T)]
    <3>1. s \in [pc : {"count"}, main : 1 .. Len(W)]
      BY <1>0, <2>2
    <3> QED BY <2>1, <3>1 DEF CountedOK, HashPlaceOK
  <2>3. CASE /\ s \in [pc : {"resize", "reload", "allocate", "unlock", "room"},
                       main : 1 .. Len(T), count : Int]
             /\ (s.pc = "allocate" => s.count >= Cardinality(DOMAIN T[s.main]) \div 2)
    <3>1. /\ s \in [pc : {"resize", "reload", "allocate", "unlock", "room"},
                    main : 1 .. Len(W), count : Int]
          /\ DOMAIN W[s.main] = DOMAIN T[s.main]
      BY <1>0, <2>3
    <3> QED BY <2>1, <2>3, <3>1 DEF CountedOK, HashPlaceOK
  <2>4. CASE s \in [pc : {"failed"}]
    BY <2>1, <2>4 DEF CountedOK, HashPlaceOK
  <2> QED BY <1>8, <2>2, <2>3, <2>4 DEF CountedOK
<1>9. CASE InsertOK(s, T, H, u, L)
  <2>1. /\ s \in [pc : {"insert"}, hash : 1 .. Len(T), index : Nat, producer : HashedProducers]
        /\ s.index >= H[u] /\ L = {s.producer} /\ (\A h \in 1 .. Len(T) : NoKey(T, u, h))
        /\ TakenBefore(T, H, u, s.hash, s.index)
    BY <1>9 DEF InsertOK
  <2>2. s \in [pc : {"insert"}, hash : 1 .. Len(W), index : Nat, producer : HashedProducers]
    BY <1>0, <2>1
  <2>3. TakenBefore(W, H, u, s.hash, s.index)
    BY <2>1, OthersPath
  <2>4. InsertOK(s, W, H, u, L)
    BY <1>4, <2>1, <2>2, <2>3 DEF InsertOK
  <2> QED BY <2>4 DEF HashPlaceOK
<1>10. CASE ExitOK(s, T, H, u, L)
  <2>1. /\ s \in [pc : {"exit"}, hash : 1 .. Len(T), index : Nat, producer : HashedProducers]
        /\ s.index >= H[u] /\ L = {s.producer}
        /\ \A h \in s.hash + 1 .. Len(T) : NoKey(T, u, h)
        /\ NotBefore(T, H, u, s.hash, s.index)
    BY <1>10 DEF ExitOK
  <2>2. s \in [pc : {"exit"}, hash : 1 .. Len(W), index : Nat, producer : HashedProducers]
    BY <1>0, <2>1
  <2>3. \A h \in s.hash + 1 .. Len(W) : NoKey(W, u, h)
    BY <1>1, <2>1
  <2>4. NotBefore(W, H, u, s.hash, s.index)
    BY <2>1, OthersNotBefore
  <2>5. ExitOK(s, W, H, u, L)
    BY <2>1, <2>2, <2>3, <2>4 DEF ExitOK
  <2> QED BY <2>5 DEF HashPlaceOK
<1>11. CASE ExitedOK(s, T, u, L)
  <2>1. ExitedOK(s, W, u, L)
    BY <1>4, <1>11 DEF ExitedOK
  <2> QED BY <2>1 DEF HashPlaceOK
<1> QED BY <1>5, <1>6, <1>7, <1>8, <1>9, <1>10, <1>11 DEF HashPlaceOK

\* So a step is right if it is right for the thread that takes it.
LEMMA HashStep ==
    ASSUME HashInv, NEW t \in ThreadIds,
           hash_thread_id' = hash_thread_id,
           TablesTyped(implicitProducerHash'), TablesStep(implicitProducerHash, implicitProducerHash', t),
           implicitProducerHashCount' \in Int,
           HandedOut(created', recyclable', listeners'),
           \A u \in ThreadIds : u # t => listeners'[u] = listeners[u],
           NEW s, ih' = [ih EXCEPT ![t] = s],
           IsKeyed(implicitProducerHash', hash_thread_id, t),
           HashPlaceOK(s, implicitProducerHash', hash_thread_id, t, listeners'[t])
    PROVE  HashInv'
<1>1. /\ hash_thread_id \in [ThreadIds -> Nat] /\ TablesTyped(implicitProducerHash)
      /\ ih = [u \in ThreadIds |-> ih[u]]
  BY DEF HashInv
<1>2. /\ ih' = [u \in ThreadIds |-> ih'[u]] /\ ih'[t] = s
      /\ \A u \in ThreadIds : u # t => ih'[u] = ih[u]
  BY <1>1
<1>3. Len(implicitProducerHash') \in Nat
  BY DEF TablesTyped
<1>4. ASSUME NEW u \in ThreadIds
      PROVE  /\ IsKeyed(implicitProducerHash', hash_thread_id, u)
             /\ HashPlaceOK(ih'[u], implicitProducerHash', hash_thread_id, u, listeners'[u])
  <2>1. CASE u = t
    BY <1>2, <2>1
  <2>2. CASE u # t
    <3>1. /\ IsKeyed(implicitProducerHash, hash_thread_id, u)
          /\ HashPlaceOK(ih[u], implicitProducerHash, hash_thread_id, u, listeners[u])
      BY DEF HashInv
    <3>2. IsKeyed(implicitProducerHash', hash_thread_id, u)
      BY <1>1, <1>3, <2>2, <3>1, OthersKeyed
    <3>3. HashPlaceOK(ih[u], implicitProducerHash', hash_thread_id, u, listeners[u])
      BY <1>1, <1>3, <2>2, <3>1, OthersPlace
    <3> QED BY <1>2, <2>2, <3>2, <3>3
  <2> QED BY <2>1, <2>2
<1> QED BY <1>1, <1>2, <1>4 DEF HashInv

\* A step that leaves the tables and the producers alone.
LEMMA HashMove ==
    ASSUME HashInv, NEW t \in ThreadIds,
           UNCHANGED <<hash_thread_id, implicitProducerHash, recyclable, created, listeners>>,
           implicitProducerHashCount' \in Int,
           NEW s, ih' = [ih EXCEPT ![t] = s],
           HashPlaceOK(s, implicitProducerHash, hash_thread_id, t, listeners[t])
    PROVE  HashInv'
<1>1. /\ TablesTyped(implicitProducerHash) /\ HandedOut(created, recyclable, listeners)
      /\ IsKeyed(implicitProducerHash, hash_thread_id, t)
  BY DEF HashInv
<1>2. Len(implicitProducerHash) \in Nat
  BY <1>1 DEF TablesTyped
<1>3. TablesStep(implicitProducerHash, implicitProducerHash, t)
  BY <1>2 DEF TablesStep
<1> QED BY <1>1, <1>3, HashStep

\* Slot k of table h is written.
SlotWritten(T, W, h, k, e) ==
    /\ TablesTyped(W) /\ Len(W) = Len(T)
    /\ \A g \in 1 .. Len(T) :
           /\ DOMAIN W[g] = DOMAIN T[g]
           /\ \A l \in DOMAIN T[g] : W[g][l] = IF g = h /\ l = k THEN e ELSE T[g][l]
SlotSet(T, h, k, e) == [T EXCEPT ![h][k] = e]

LEMMA TableWrite ==
    ASSUME NEW T, TablesTyped(T), NEW h \in 1 .. Len(T), NEW k \in DOMAIN T[h], NEW e \in Entry
    PROVE  SlotWritten(T, SlotSet(T, h, k, e), h, k, e)
<1>0. PICK W : W = SlotSet(T, h, k, e)
  OBVIOUS
<1>1. PICK s \in Nat \ {0} : DOMAIN T[h] = 0 .. s - 1 /\ T[h] \in [0 .. s - 1 -> Entry]
  BY SlotIsThere, TableFacts
<1>2. PICK f : f = [T[h] EXCEPT ![k] = e]
  OBVIOUS
<1>3. f \in [0 .. s - 1 -> Entry]
  BY <1>1, <1>2
<1>4. f \in AnyTable
  BY <1>3 DEF AnyTable
<1>5. T \in Seq(AnyTable) /\ W = [T EXCEPT ![h] = f]
  BY <1>0, <1>2 DEF TablesTyped, SlotSet
<1>6. /\ W \in Seq(AnyTable) /\ Len(W) = Len(T)
      /\ \A g \in 1 .. Len(T) : W[g] = IF g = h THEN f ELSE T[g]
  BY <1>4, <1>5
<1> QED BY <1>0, <1>1, <1>2, <1>6 DEF TablesTyped, SlotWritten

\* Thread t's key is put into the first slot that is free, or was left, on its way.
LEMMA KeyPut ==
    ASSUME NEW T, TablesTyped(T), NEW H \in [ThreadIds -> Nat], NEW t \in ThreadIds,
           NEW h \in 1 .. Len(T), NEW i \in Nat, i >= H[t],
           TakenBefore(T, H, t, h, i), NoKey(T, t, h), IsKeyed(T, H, t),
           ProbedKey(T, h, i) \in {invalid_thread_id, invalid_thread_id2},
           NEW p \in HashedProducers,
           \A g \in 1 .. Len(T) : \A k \in DOMAIN T[g] : T[g][k].key = t => T[g][k].value = p,
           NEW W, W = [T EXCEPT ![h][SlotAt(T, h, i)] = [key |-> t, value |-> p]]
    PROVE  TablesTyped(W) /\ TablesStep(T, W, t) /\ IsKeyed(W, H, t) /\ Registered(W, t, {p})
<1>1. PICK k : k = SlotAt(T, h, i)
  OBVIOUS
<1>2. PICK e : e = [key |-> t, value |-> p]
  OBVIOUS
<1>3. k \in DOMAIN T[h] /\ e \in Entry /\ W = [T EXCEPT ![h][k] = e]
  BY <1>1, <1>2, SlotIsThere DEF Entry
<1>4. /\ TablesTyped(W) /\ Len(W) = Len(T)
      /\ \A g \in 1 .. Len(T) :
             /\ DOMAIN W[g] = DOMAIN T[g]
             /\ \A l \in DOMAIN T[g] : W[g][l] = IF g = h /\ l = k THEN e ELSE T[g][l]
  <2>1. W = SlotSet(T, h, k, e)
    BY <1>3 DEF SlotSet
  <2>2. SlotWritten(T, SlotSet(T, h, k, e), h, k, e)
    BY ONLY <1>3, TablesTyped(T), h \in 1 .. Len(T), TableWrite
  <2> QED BY <2>1, <2>2 DEF SlotWritten
<1>5. Len(T) \in Nat /\ e.key = t /\ e.value = p /\ T[h][k].key \in {invalid_thread_id, invalid_thread_id2}
  BY <1>1, <1>2 DEF TablesTyped, ProbedKey
<1>6. TablesStep(T, W, t)
  BY <1>4, <1>5 DEF TablesStep
<1>7. ASSUME NEW g \in 1 .. Len(T) PROVE OnPath(W, H, t, g) /\ OneKey(W, t, g)
  <2>1. OnPath(T, H, t, g) /\ OneKey(T, t, g)
    BY DEF IsKeyed
  <2>2. CASE g = h
    <3>1. \A l \in DOMAIN W[h] : W[h][l].key = t => l = k
      BY <1>4 DEF NoKey
    <3>2. SlotAt(W, h, i) = k /\ TakenBefore(W, H, t, h, i)
      BY <1>1, <1>4, <1>6, OthersPath DEF SlotAt
    <3> QED BY <2>2, <3>1, <3>2 DEF OnPath, OneKey
  <2>3. CASE g # h
    <3>1. DOMAIN W[g] = DOMAIN T[g] /\ \A l \in DOMAIN T[g] : W[g][l] = T[g][l]
      BY <1>4, <2>3
    <3>2. OneKey(W, t, g)
      BY <2>1, <3>1 DEF OneKey
    <3>3. ASSUME NEW l \in DOMAIN W[g], W[g][l].key = t
          PROVE  \E m \in Nat : m >= H[t] /\ SlotAt(W, g, m) = l /\ TakenBefore(W, H, t, g, m)
      <4>1. PICK m \in Nat : m >= H[t] /\ SlotAt(T, g, m) = l /\ TakenBefore(T, H, t, g, m)
        BY <2>1, <3>1, <3>3 DEF OnPath
      <4>2. SlotAt(W, g, m) = l /\ TakenBefore(W, H, t, g, m)
        BY <1>6, <3>1, <4>1, OthersPath DEF SlotAt
      <4> QED BY <4>1, <4>2
    <3> QED BY <3>2, <3>3 DEF OnPath
  <2> QED BY <2>2, <2>3
<1>8. IsKeyed(W, H, t)
  BY <1>4, <1>7 DEF IsKeyed
<1>9. ~NoKey(W, t, h)
  BY <1>3, <1>4, <1>5 DEF NoKey
<1>10. \A g \in 1 .. Len(W) : \A l \in DOMAIN W[g] : W[g][l].key = t => W[g][l].value = p
  BY <1>4, <1>5
<1>11. Registered(W, t, {p})
  BY <1>4, <1>9, <1>10 DEF Registered
<1> QED BY <1>4, <1>6, <1>8, <1>11

KeyRemoved(T, h, k) == [T EXCEPT ![h][k].key = invalid_thread_id2]

LEMMA KeyRemove ==
    ASSUME NEW T, TablesTyped(T), NEW H \in [ThreadIds -> Nat], NEW t \in ThreadIds,
           NEW h \in 1 .. Len(T), NEW k \in DOMAIN T[h], T[h][k].key = t, IsKeyed(T, H, t),
           NEW W, W = KeyRemoved(T, h, k)
    PROVE  /\ TablesTyped(W) /\ TablesStep(T, W, t) /\ IsKeyed(W, H, t) /\ Len(W) = Len(T)
           /\ NoKey(W, t, h) /\ \A g \in 1 .. Len(T) : NoKey(T, t, g) => NoKey(W, t, g)
<1>1. T[h][k] \in Entry
  BY SlotIsThere
<1>2. PICK e : e = [T[h][k] EXCEPT !.key = invalid_thread_id2]
  OBVIOUS
<1>3. e \in Entry /\ e.key = invalid_thread_id2
  BY <1>1, <1>2 DEF Entry
<1>4. W = [T EXCEPT ![h][k] = e]
  BY <1>2 DEF KeyRemoved
<1>5. /\ TablesTyped(W) /\ Len(W) = Len(T)
      /\ \A g \in 1 .. Len(T) :
             /\ DOMAIN W[g] = DOMAIN T[g]
             /\ \A l \in DOMAIN T[g] : W[g][l] = IF g = h /\ l = k THEN e ELSE T[g][l]
  <2>1. W = SlotSet(T, h, k, e)
    BY <1>4 DEF SlotSet
  <2>2. SlotWritten(T, SlotSet(T, h, k, e), h, k, e)
    BY ONLY <1>3, TablesTyped(T), h \in 1 .. Len(T), k \in DOMAIN T[h], TableWrite
  <2> QED BY <2>1, <2>2 DEF SlotWritten
<1>6. Len(T) \in Nat
  BY DEF TablesTyped
<1>7. TablesStep(T, W, t)
  BY <1>3, <1>5, <1>6 DEF TablesStep
<1>8. invalid_thread_id2 # t
  BY HashAssumption
<1>9. NoKey(W, t, h)
  <2>1. \A l \in DOMAIN T[h] : T[h][l].key = t => l = k
    BY DEF IsKeyed, OneKey
  <2> QED BY <1>3, <1>5, <1>8, <2>1 DEF NoKey
<1>10. \A g \in 1 .. Len(T) : NoKey(T, t, g) => NoKey(W, t, g)
  BY <1>3, <1>5, <1>8 DEF NoKey
<1>11. ASSUME NEW g \in 1 .. Len(T) PROVE OnPath(W, H, t, g) /\ OneKey(W, t, g)
  <2>1. OnPath(T, H, t, g) /\ OneKey(T, t, g)
    BY DEF IsKeyed
  <2>2. \A l \in DOMAIN W[g] : W[g][l].key = t => l \in DOMAIN T[g] /\ T[g][l].key = t
    BY <1>3, <1>5, <1>8
  <2>3. OneKey(W, t, g)
    BY <2>1, <2>2 DEF OneKey
  <2>4. ASSUME NEW l \in DOMAIN W[g], W[g][l].key = t
        PROVE  \E m \in Nat : m >= H[t] /\ SlotAt(W, g, m) = l /\ TakenBefore(W, H, t, g, m)
    <3>1. PICK m \in Nat : m >= H[t] /\ SlotAt(T, g, m) = l /\ TakenBefore(T, H, t, g, m)
      BY <2>1, <2>2, <2>4 DEF OnPath
    <3>2. SlotAt(W, g, m) = l /\ TakenBefore(W, H, t, g, m)
      BY <1>5, <1>7, <3>1, OthersPath DEF SlotAt
    <3> QED BY <3>1, <3>2
  <2> QED BY <2>3, <2>4 DEF OnPath
<1>12. IsKeyed(W, H, t)
  BY <1>5, <1>11 DEF IsKeyed
<1> QED BY <1>5, <1>7, <1>9, <1>10, <1>12

LEMMA TableAppended ==
    ASSUME NEW T, TablesTyped(T), NEW H \in [ThreadIds -> Nat], NEW t \in ThreadIds,
           IsKeyed(T, H, t), NEW L, NoneYet(T, t, L), NEW n \in Nat \ {0},
           NEW W, W = Append(T, Table(n))
    PROVE  /\ TablesTyped(W) /\ TablesStep(T, W, t) /\ IsKeyed(W, H, t) /\ NoneYet(W, t, L)
           /\ Len(W) = Len(T) + 1 /\ Len(T) \in Nat
<1>1. PICK f : f = Table(n)
  OBVIOUS
<1>2. /\ f \in [0 .. n - 1 -> Entry] /\ DOMAIN f = 0 .. n - 1
      /\ \A k \in 0 .. n - 1 : f[k].key = invalid_thread_id
  BY <1>1 DEF Table, Entry
<1>3. f \in AnyTable
  BY <1>2 DEF AnyTable
<1>4. /\ W \in Seq(AnyTable) /\ Len(W) = Len(T) + 1 /\ Len(T) \in Nat /\ Len(T) >= 1
      /\ \A g \in 1 .. Len(T) : W[g] = T[g]
      /\ W[Len(T) + 1] = f
  BY <1>1, <1>3 DEF TablesTyped
<1>5. TablesTyped(W)
  BY <1>4 DEF TablesTyped
<1>6. TablesStep(T, W, t)
  <2>1. \A g \in Len(T) + 1 .. Len(W) : g = Len(T) + 1
    BY <1>4
  <2> QED BY <1>2, <1>4, <2>1 DEF TablesStep
<1>7. \A g \in 1 .. Len(W) : g \in 1 .. Len(T) \/ g = Len(T) + 1
  BY <1>4
<1>8. invalid_thread_id # t
  BY HashAssumption
<1>9. NoKey(W, t, Len(T) + 1) /\ \A g \in 1 .. Len(T) : NoKey(W, t, g)
  BY <1>2, <1>4, <1>8 DEF NoKey, NoneYet
<1>10. \A g \in 1 .. Len(W) : NoKey(W, t, g)
  BY <1>7, <1>9
<1>11. NoneYet(W, t, L) /\ IsKeyed(W, H, t)
  BY <1>10 DEF NoneYet, IsKeyed, NoKey, OnPath, OneKey
<1> QED BY <1>4, <1>5, <1>6, <1>11

\* The doubling of a table's size, as a function of the number of times.
Doubles(f, c, n, k) ==
    f[k] = IF k = 0 THEN 2 * c
           ELSE IF n >= f[k - 1] \div 2 THEN 2 * f[k - 1] ELSE f[k - 1]
IsDoubling(f, c, n) ==
    f = [k \in 0 .. n + 1 |->
            IF k = 0 THEN 2 * c
            ELSE IF n >= f[k - 1] \div 2 THEN 2 * f[k - 1] ELSE f[k - 1]]

LEMMA DoublingExists ==
    ASSUME NEW c, NEW n \in Nat
    PROVE  \E f : IsDoubling(f, c, n)
<1> DEFINE S == {m \in Nat : \E f : \A k \in 0 .. m : Doubles(f, c, n, k)}
<1>1. 0 \in S
  <2>1. PICK f : f = [k \in {0} |-> 2 * c]
    OBVIOUS
  <2>2. \A k \in 0 .. 0 : Doubles(f, c, n, k)
    BY <2>1 DEF Doubles
  <2> QED BY <2>2
<1>2. ASSUME NEW m \in Nat, m \in S PROVE m + 1 \in S
  <2>1. PICK f : \A k \in 0 .. m : Doubles(f, c, n, k)
    BY <1>2
  <2>2. PICK x : x = IF n >= f[m] \div 2 THEN 2 * f[m] ELSE f[m]
    OBVIOUS
  <2>3. PICK g : g = [k \in 0 .. m + 1 |-> IF k = m + 1 THEN x ELSE f[k]]
    OBVIOUS
  <2>4. ASSUME NEW k \in 0 .. m + 1 PROVE Doubles(g, c, n, k)
    <3>1. CASE k = m + 1
      <4>1. g[k] = x /\ g[k - 1] = f[m] /\ k # 0 /\ k - 1 = m
        BY <2>3, <3>1
      <4> QED BY <2>2, <4>1 DEF Doubles
    <3>2. CASE k # m + 1
      <4>1. k \in 0 .. m /\ g[k] = f[k] /\ (k # 0 => g[k - 1] = f[k - 1])
        BY <2>3, <3>2
      <4> QED BY <2>1, <4>1 DEF Doubles
    <3> QED BY <3>1, <3>2
  <2> QED BY <2>4
<1>3. n + 1 \in S
  <2> HIDE DEF S
  <2> QED BY <1>1, <1>2, NatInd
<1>4. PICK f : \A k \in 0 .. n + 1 : Doubles(f, c, n, k)
  BY <1>3
<1>5. PICK g : g = [k \in 0 .. n + 1 |-> f[k]]
  OBVIOUS
<1>6. \A k \in 0 .. n + 1 : Doubles(g, c, n, k)
  <2> SUFFICES ASSUME NEW k \in 0 .. n + 1 PROVE Doubles(g, c, n, k)
    OBVIOUS
  <2>1. g[k] = f[k] /\ (k # 0 => g[k - 1] = f[k - 1])
    BY <1>5
  <2> QED BY <1>4, <2>1 DEF Doubles
<1>7. IsDoubling(g, c, n)
  BY <1>5, <1>6 DEF IsDoubling, Doubles
<1> QED BY <1>7

LEMMA NewTableIsNotEmpty ==
    ASSUME NEW h, Capacity(h) \in Nat \ {0}, NEW n \in Nat
    PROVE  NewTableSize(n, h) \in Nat \ {0}
<1>1. PICK c \in Nat \ {0} : c = Capacity(h)
  OBVIOUS
<1> DEFINE f == CHOOSE g : IsDoubling(g, c, n)
<1>2. IsDoubling(f, c, n)
  BY DoublingExists
<1>3. NewTableSize(n, h) = f[n + 1]
  BY <1>1 DEF NewTableSize, IsDoubling
<1> HIDE DEF f
<1> DEFINE S == {m \in Nat : m <= n + 1 => f[m] \in Nat \ {0}}
<1>4. \A k \in 0 .. n + 1 : Doubles(f, c, n, k)
  <2>1. PICK g : g = f
    OBVIOUS
  <2>2. g = [k \in 0 .. n + 1 |->
                IF k = 0 THEN 2 * c
                ELSE IF n >= g[k - 1] \div 2 THEN 2 * g[k - 1] ELSE g[k - 1]]
    BY <1>2, <2>1 DEF IsDoubling
  <2> QED BY <2>1, <2>2 DEF Doubles
<1>5. 0 \in S
  BY <1>4 DEF Doubles
<1>6. ASSUME NEW m \in Nat, m \in S PROVE m + 1 \in S
  <2> SUFFICES ASSUME m + 1 <= n + 1 PROVE f[m + 1] \in Nat \ {0}
    OBVIOUS
  <2>1. Doubles(f, c, n, m + 1) /\ f[m] \in Nat \ {0}
    BY <1>4, <1>6
  <2> QED BY <2>1 DEF Doubles
<1>7. n + 1 \in S
  <2> HIDE DEF S
  <2> QED BY <1>5, <1>6, NatInd
<1> QED BY <1>3, <1>7

\* A search that comes to a free slot has not overlooked the key.
LEMMA SearchEnds ==
    ASSUME NEW T, TablesTyped(T), NEW H \in [ThreadIds -> Nat], NEW u \in ThreadIds,
           NEW h \in 1 .. Len(T), NEW i \in Nat, i >= H[u], IsKeyed(T, H, u),
           NotBefore(T, H, u, h, i), ProbedKey(T, h, i) = invalid_thread_id
    PROVE  NoKey(T, u, h)
<1> SUFFICES ASSUME NEW k \in DOMAIN T[h], T[h][k].key = u PROVE FALSE
  BY DEF NoKey
<1>1. PICK m \in Nat : m >= H[u] /\ SlotAt(T, h, m) = k /\ TakenBefore(T, H, u, h, m)
  BY DEF IsKeyed, OnPath
<1>2. ProbedKey(T, h, m) = u /\ u # invalid_thread_id
  BY <1>1, HashAssumption DEF ProbedKey
<1>3. ~(m < i)
  BY <1>1, <1>2 DEF NotBefore
<1>4. ~(i < m)
  BY <1>1 DEF TakenBefore
<1> QED BY <1>2, <1>3, <1>4

LEMMA SearchGoesOn ==
    ASSUME NEW T, NEW H \in [ThreadIds -> Nat], NEW u \in ThreadIds, NEW h, NEW i \in Nat
    PROVE  /\ NotBefore(T, H, u, h, i) /\ ProbedKey(T, h, i) # u => NotBefore(T, H, u, h, i + 1)
           /\ TakenBefore(T, H, u, h, i) /\ ProbedKey(T, h, i) # invalid_thread_id =>
                  TakenBefore(T, H, u, h, i + 1)
           /\ NotBefore(T, H, u, h, H[u]) /\ TakenBefore(T, H, u, h, H[u])
<1>1. \A j \in H[u] .. (i + 1) - 1 : j \in H[u] .. i - 1 \/ j = i
  OBVIOUS
<1>2. \A j \in H[u] .. H[u] - 1 : FALSE
  OBVIOUS
<1> QED BY <1>1, <1>2 DEF NotBefore, TakenBefore

\* Where thread t is.
HashFacts(t) ==
    /\ hash_thread_id \in [ThreadIds -> Nat] /\ hash_thread_id[t] \in Nat
    /\ TablesTyped(implicitProducerHash) /\ Len(implicitProducerHash) \in Nat \ {0}
    /\ implicitProducerHashCount \in Int
    /\ IsKeyed(implicitProducerHash, hash_thread_id, t)
    /\ HandedOut(created, recyclable, listeners)

LEMMA HashFactsHold ==
    ASSUME HashInv, NEW t \in ThreadIds
    PROVE  HashFacts(t)
  BY DEF HashInv, HashFacts, TablesTyped

LEMMA HashPlaces ==
    ASSUME HashInv, NEW t \in ThreadIds
    PROVE  /\ ih[t].pc \in {"out", "uncount"} => OutsideOK(ih[t], implicitProducerHash, t, listeners[t])
           /\ ih[t].pc = "probe" => ProbeOK(ih[t], implicitProducerHash, hash_thread_id, t, listeners[t])
           /\ ih[t].pc = "copy" => CopyOK(ih[t], implicitProducerHash, hash_thread_id, t, listeners[t])
           /\ ih[t].pc \in {"count", "resize", "reload", "allocate", "unlock", "room", "failed"} =>
                  CountedOK(ih[t], implicitProducerHash, t, listeners[t])
           /\ ih[t].pc = "insert" => InsertOK(ih[t], implicitProducerHash, hash_thread_id, t, listeners[t])
           /\ ih[t].pc = "exit" => ExitOK(ih[t], implicitProducerHash, hash_thread_id, t, listeners[t])
           /\ ih[t].pc = "exited" => ExitedOK(ih[t], implicitProducerHash, t, listeners[t])
<1>1. HashPlaceOK(ih[t], implicitProducerHash, hash_thread_id, t, listeners[t])
  BY DEF HashInv
<1> DEFINE s == ih[t]
<1>2. /\ OutsideOK(s, implicitProducerHash, t, listeners[t]) => s.pc \in {"out", "uncount"}
      /\ ProbeOK(s, implicitProducerHash, hash_thread_id, t, listeners[t]) => s.pc = "probe"
      /\ CopyOK(s, implicitProducerHash, hash_thread_id, t, listeners[t]) => s.pc = "copy"
      /\ InsertOK(s, implicitProducerHash, hash_thread_id, t, listeners[t]) => s.pc = "insert"
      /\ ExitOK(s, implicitProducerHash, hash_thread_id, t, listeners[t]) => s.pc = "exit"
      /\ ExitedOK(s, implicitProducerHash, t, listeners[t]) => s.pc = "exited"
  BY DEF OutsideOK, ProbeOK, CopyOK, InsertOK, ExitOK, ExitedOK
<1>3. CountedOK(s, implicitProducerHash, t, listeners[t]) =>
          s.pc \in {"count", "resize", "reload", "allocate", "unlock", "room", "failed"}
  BY DEF CountedOK
<1> HIDE DEF s
<1>4. HashPlaceOK(s, implicitProducerHash, hash_thread_id, t, listeners[t])
  BY <1>1 DEF s
<1>5. \/ s.pc \in {"out", "uncount"} /\ OutsideOK(s, implicitProducerHash, t, listeners[t])
      \/ s.pc = "probe" /\ ProbeOK(s, implicitProducerHash, hash_thread_id, t, listeners[t])
      \/ s.pc = "copy" /\ CopyOK(s, implicitProducerHash, hash_thread_id, t, listeners[t])
      \/ /\ s.pc \in {"count", "resize", "reload", "allocate", "unlock", "room", "failed"}
         /\ CountedOK(s, implicitProducerHash, t, listeners[t])
      \/ s.pc = "insert" /\ InsertOK(s, implicitProducerHash, hash_thread_id, t, listeners[t])
      \/ s.pc = "exit" /\ ExitOK(s, implicitProducerHash, hash_thread_id, t, listeners[t])
      \/ s.pc = "exited" /\ ExitedOK(s, implicitProducerHash, t, listeners[t])
  BY <1>2, <1>3, <1>4 DEF HashPlaceOK
<1> QED BY <1>5 DEF s

LEMMA KeyAtIs ==
    ASSUME NEW t
    PROVE  /\ At(t) = SlotAt(implicitProducerHash, ih[t].hash, ih[t].index)
           /\ KeyAt(t) = ProbedKey(implicitProducerHash, ih[t].hash, ih[t].index)
           /\ KeyAt(t) = implicitProducerHash[ih[t].hash][At(t)].key
  BY DEF At, KeyAt, SlotAt, ProbedKey, Capacity

-----------------------------------------------------------------------------
(***************************************************************************)
(* The steps of a thread at the hash.                                      *)
(***************************************************************************)
LEMMA GetOrAddStep ==
    ASSUME HashInv, NEW t \in ThreadIds, GetOrAdd(t)
    PROVE  HashInv'
<1> DEFINE n == Len(implicitProducerHash)
<1>1. PICK s : s = [pc |-> "probe", main |-> n, hash |-> n, index |-> hash_thread_id[t]]
  OBVIOUS
<1>2. HashFacts(t) /\ OutsideOK(ih[t], implicitProducerHash, t, listeners[t])
  BY HashFactsHold, HashPlaces DEF GetOrAdd
<1>3. /\ s \in [pc : {"probe"}, main : 1 .. n, hash : 1 .. n, index : Nat]
      /\ s.hash = n /\ s.main = n /\ s.index = hash_thread_id[t] /\ n \in Nat
  BY <1>1, <1>2 DEF HashFacts
<1>4. NotBefore(implicitProducerHash, hash_thread_id, t, s.hash, s.index)
  BY <1>2, <1>3, SearchGoesOn DEF HashFacts
<1>5. ProbeOK(s, implicitProducerHash, hash_thread_id, t, listeners[t])
  <2>1. \A h \in s.hash + 1 .. n : FALSE
    BY <1>3
  <2> QED BY <1>2, <1>3, <1>4, <2>1 DEF ProbeOK, HashFacts, OutsideOK
<1>6. HashPlaceOK(s, implicitProducerHash, hash_thread_id, t, listeners[t])
  BY <1>5 DEF HashPlaceOK
<1>7. ih' = [ih EXCEPT ![t] = s]
  BY <1>1 DEF GetOrAdd, IhGoto, NewestTable
<1> QED BY <1>2, <1>6, <1>7, HashMove DEF GetOrAdd, HashFacts

LEMMA ProbeStep ==
    ASSUME HashInv, NEW t \in ThreadIds, Probe(t)
    PROVE  HashInv'
<1> DEFINE T == implicitProducerHash
           H == hash_thread_id
           L == listeners[t]
           h == ih[t].hash
           i == ih[t].index
<1>1. HashFacts(t) /\ ProbeOK(ih[t], T, H, t, L)
  BY HashFactsHold, HashPlaces DEF Probe
<1>2. /\ ih[t] \in [pc : {"probe"}, main : 1 .. Len(T), hash : 1 .. Len(T), index : Nat]
      /\ h <= ih[t].main /\ i >= H[t] /\ Registered(T, t, L)
      /\ \A g \in h + 1 .. Len(T) : NoKey(T, t, g)
      /\ NotBefore(T, H, t, h, i)
  BY <1>1 DEF ProbeOK
<1>3. h \in 1 .. Len(T) /\ i \in Nat /\ ih[t].main \in 1 .. Len(T) /\ Len(T) \in Nat /\ H[t] \in Nat
  BY <1>1, <1>2 DEF HashFacts
<1>4. \A s : ih' = [ih EXCEPT ![t] = s] /\ HashPlaceOK(s, T, H, t, L) => HashInv'
  BY <1>1, HashMove DEF Probe, HashFacts
<1>5. CASE KeyAt(t) = t
  <2>1. PICK v : v = implicitProducerHash[h][At(t)].value
    OBVIOUS
  <2>2. PICK p \in HashedProducers : L = {p} /\ v = p
    <3>1. At(t) \in DOMAIN T[h]
      BY <1>1, <1>3, SlotIsThere, KeyAtIs DEF HashFacts
    <3>2. ~NoKey(T, t, h)
      BY <1>5, <3>1, KeyAtIs DEF NoKey
    <3> QED BY <1>2, <1>3, <1>5, <2>1, <3>1, <3>2, KeyAtIs DEF Registered, NoneYet
  <2>3. CASE h = ih[t].main
    <3>1. PICK s : s = [pc |-> "out", producer |-> p]
      OBVIOUS
    <3>2. ih' = [ih EXCEPT ![t] = s]
      BY <1>5, <2>1, <2>2, <2>3, <3>1, HashAssumption DEF Probe, IhGoto, NotInside
    <3>3. OutsideOK(s, T, t, L)
      BY <1>2, <2>2, <3>1 DEF OutsideOK
    <3> QED BY <1>4, <3>2, <3>3 DEF HashPlaceOK
  <2>4. CASE h # ih[t].main
    <3>1. PICK s : s = [pc |-> "copy", hash |-> ih[t].main, index |-> H[t], producer |-> p]
      OBVIOUS
    <3>2. ih' = [ih EXCEPT ![t] = s]
      BY <1>5, <2>1, <2>2, <2>4, <3>1, HashAssumption DEF Probe, IhGoto
    <3>3. /\ s \in [pc : {"copy"}, hash : 1 .. Len(T), index : Nat, producer : HashedProducers]
          /\ s.index = H[t] /\ s.hash = ih[t].main /\ s.producer = p
      BY <1>3, <3>1
    <3>4. NoKey(T, t, s.hash)
      BY <1>2, <1>3, <2>4, <3>3
    <3>5. TakenBefore(T, H, t, s.hash, s.index)
      BY <1>1, <3>3, SearchGoesOn DEF HashFacts
    <3>6. CopyOK(s, T, H, t, L)
      BY <1>2, <1>3, <2>2, <3>3, <3>4, <3>5 DEF CopyOK
    <3> QED BY <1>4, <3>2, <3>6 DEF HashPlaceOK
  <2> QED BY <2>3, <2>4
<1>6. CASE KeyAt(t) = invalid_thread_id
  <2>1. NoKey(T, t, h)
    BY <1>1, <1>2, <1>3, <1>6, SearchEnds, KeyAtIs DEF HashFacts
  <2>2. \A g \in (h - 1) + 1 .. Len(T) : NoKey(T, t, g)
    BY <1>2, <1>3, <2>1
  <2>3. CASE h = 1
    <3>1. PICK s : s = [pc |-> "count", main |-> ih[t].main]
      OBVIOUS
    <3>2. ih' = [ih EXCEPT ![t] = s]
      BY <1>6, <2>3, <3>1, HashAssumption DEF Probe, IhGoto
    <3>3. NoneYet(T, t, L)
      BY <1>2, <2>2, <2>3 DEF Registered, NoneYet
    <3>4. CountedOK(s, T, t, L)
      BY <1>3, <3>1, <3>3 DEF CountedOK
    <3> QED BY <1>4, <3>2, <3>4 DEF HashPlaceOK
  <2>4. CASE h # 1
    <3>1. PICK s : s = [ih[t] EXCEPT !.hash = h - 1, !.index = H[t]]
      OBVIOUS
    <3>2. ih' = [ih EXCEPT ![t] = s]
      BY <1>6, <2>4, <3>1, HashAssumption DEF Probe, IhGoto
    <3>3. h - 1 \in 1 .. Len(T)
      BY <1>3, <2>4
    <3>4. /\ s \in [pc : {"probe"}, main : 1 .. Len(T), hash : 1 .. Len(T), index : Nat]
          /\ s.index = H[t] /\ s.hash = h - 1 /\ s.main = ih[t].main
      BY <1>2, <1>3, <3>1, <3>3
    <3>5. NotBefore(T, H, t, s.hash, s.index)
      BY <1>1, <3>4, SearchGoesOn DEF HashFacts
    <3>6. s.hash <= s.main /\ s.index >= H[t]
      BY <1>2, <1>3, <3>4
    <3>7. ProbeOK(s, T, H, t, L)
      BY <1>2, <2>2, <3>4, <3>5, <3>6 DEF ProbeOK
    <3> QED BY <1>4, <3>2, <3>7 DEF HashPlaceOK
  <2> QED BY <2>3, <2>4
<1>7. CASE KeyAt(t) \notin {t, invalid_thread_id}
  <2>1. PICK s : s = [ih[t] EXCEPT !.index = i + 1]
    OBVIOUS
  <2>2. ih' = [ih EXCEPT ![t] = s]
    BY <1>7, <2>1 DEF Probe, IhGoto, NextIndex
  <2>3. /\ s \in [pc : {"probe"}, main : 1 .. Len(T), hash : 1 .. Len(T), index : Nat]
        /\ s.index = i + 1 /\ s.hash = h /\ s.main = ih[t].main
    BY <1>2, <1>3, <2>1
  <2>4. NotBefore(T, H, t, h, i + 1)
    BY <1>1, <1>2, <1>3, <1>7, SearchGoesOn, KeyAtIs DEF HashFacts
  <2>5. ProbeOK(s, T, H, t, L)
    BY <1>2, <1>3, <2>3, <2>4 DEF ProbeOK
  <2> QED BY <1>4, <2>2, <2>5 DEF HashPlaceOK
<1> QED BY <1>5, <1>6, <1>7

\* Thread t's key, with its producer, is put where it looks.
LEMMA PutStep ==
    ASSUME HashInv, NEW t \in ThreadIds, NEW p \in HashedProducers,
           NEW h \in 1 .. Len(implicitProducerHash), NEW i \in Nat,
           ih[t].hash = h, ih[t].index = i, i >= hash_thread_id[t],
           TakenBefore(implicitProducerHash, hash_thread_id, t, h, i),
           NoKey(implicitProducerHash, t, h),
           KeyAt(t) \in {invalid_thread_id, invalid_thread_id2},
           listeners[t] = {p},
           \A g \in 1 .. Len(implicitProducerHash) : \A k \in DOMAIN implicitProducerHash[g] :
               implicitProducerHash[g][k].key = t => implicitProducerHash[g][k].value = p,
           Put(t, [key |-> t, value |-> p]),
           NEW pc \in {"out", "uncount"}, ih' = [ih EXCEPT ![t] = [pc |-> pc, producer |-> p]],
           UNCHANGED <<hash_thread_id, implicitProducerHashCount, recyclable, created, listeners>>
    PROVE  HashInv'
<1> DEFINE T == implicitProducerHash
           H == hash_thread_id
           W == implicitProducerHash'
<1>1. HashFacts(t)
  BY HashFactsHold
<1>2. W = [T EXCEPT ![h][SlotAt(T, h, i)] = [key |-> t, value |-> p]]
  BY KeyAtIs DEF Put
<1>3. ProbedKey(T, h, i) \in {invalid_thread_id, invalid_thread_id2}
  BY KeyAtIs
<1>4. TablesTyped(W) /\ TablesStep(T, W, t) /\ IsKeyed(W, H, t) /\ Registered(W, t, {p})
  <2> HIDE DEF T, H, W
  <2>1. /\ TablesTyped(T) /\ H \in [ThreadIds -> Nat] /\ h \in 1 .. Len(T) /\ i >= H[t]
        /\ TakenBefore(T, H, t, h, i) /\ NoKey(T, t, h) /\ IsKeyed(T, H, t)
        /\ \A g \in 1 .. Len(T) : \A k \in DOMAIN T[g] : T[g][k].key = t => T[g][k].value = p
    BY <1>1 DEF HashFacts, T, H
  <2> QED BY ONLY <1>2, <1>3, <2>1, t \in ThreadIds, i \in Nat, p \in HashedProducers, KeyPut
<1>5. PICK s : s = [pc |-> pc, producer |-> p]
  OBVIOUS
<1>6. OutsideOK(s, W, t, listeners'[t])
  BY <1>4, <1>5 DEF OutsideOK
<1>7. ih' = [ih EXCEPT ![t] = s] /\ HashPlaceOK(s, W, H, t, listeners'[t])
  BY <1>5, <1>6 DEF HashPlaceOK
<1> QED BY <1>1, <1>4, <1>7, HashStep DEF HashFacts

LEMMA CopyStep ==
    ASSUME HashInv, NEW t \in ThreadIds, Copy(t)
    PROVE  HashInv'
<1> DEFINE T == implicitProducerHash
           H == hash_thread_id
           L == listeners[t]
           h == ih[t].hash
           i == ih[t].index
           p == ih[t].producer
<1>1. HashFacts(t) /\ CopyOK(ih[t], T, H, t, L)
  BY HashFactsHold, HashPlaces DEF Copy
<1>2. /\ ih[t] \in [pc : {"copy"}, hash : 1 .. Len(T), index : Nat, producer : HashedProducers]
      /\ i >= H[t] /\ Registered(T, t, L) /\ L = {p}
      /\ NoKey(T, t, h) /\ TakenBefore(T, H, t, h, i)
  BY <1>1 DEF CopyOK
<1>3. h \in 1 .. Len(T) /\ i \in Nat /\ p \in HashedProducers
  BY <1>2
<1>4. \A g \in 1 .. Len(T) : \A k \in DOMAIN T[g] : T[g][k].key = t => T[g][k].value = p
  BY <1>2 DEF Registered, NoneYet, NoKey
<1>5. CASE KeyAt(t) \in {invalid_thread_id, invalid_thread_id2}
  <2>1. /\ Put(t, [key |-> t, value |-> p])
        /\ ih' = [ih EXCEPT ![t] = [pc |-> "out", producer |-> p]]
    BY <1>5 DEF Copy, IhGoto, NotInside
  <2>2. UNCHANGED <<hash_thread_id, implicitProducerHashCount, recyclable, created, listeners>>
    BY DEF Copy
  <2> QED BY <1>2, <1>3, <1>4, <1>5, <2>1, <2>2, PutStep
<1>6. CASE KeyAt(t) \notin {invalid_thread_id, invalid_thread_id2}
  <2>1. PICK s : s = [ih[t] EXCEPT !.index = i + 1]
    OBVIOUS
  <2>2. ih' = [ih EXCEPT ![t] = s] /\ implicitProducerHash' = implicitProducerHash
    BY <1>6, <2>1 DEF Copy, IhGoto, NextIndex
  <2>3. /\ s \in [pc : {"copy"}, hash : 1 .. Len(T), index : Nat, producer : HashedProducers]
        /\ s.index = i + 1 /\ s.hash = h /\ s.producer = p
    BY <1>2, <1>3, <2>1
  <2>4. TakenBefore(T, H, t, h, i + 1)
    BY <1>1, <1>2, <1>3, <1>6, SearchGoesOn, KeyAtIs DEF HashFacts
  <2>5. i + 1 >= H[t]
    BY <1>1, <1>2, <1>3 DEF HashFacts
  <2>6. CopyOK(s, T, H, t, L)
    BY <1>2, <2>3, <2>4, <2>5 DEF CopyOK
  <2> QED BY <1>1, <2>2, <2>6, HashMove DEF Copy, HashFacts, HashPlaceOK
<1> QED BY <1>5, <1>6

\* The steps at the count, the lock and the tables' sizes.
LEMMA CountedStep ==
    ASSUME HashInv, NEW t \in ThreadIds,
           CountIn(t) \/ TryResize(t) \/ ReloadTable(t) \/ ClearResize(t) \/ Uncount(t)
    PROVE  HashInv'
<1> DEFINE T == implicitProducerHash
           H == hash_thread_id
           L == listeners[t]
<1>1. HashFacts(t)
  BY HashFactsHold
<1>2. /\ UNCHANGED <<hash_thread_id, implicitProducerHash, recyclable, created, listeners>>
      /\ implicitProducerHashCount' \in Int
  BY <1>1 DEF HashFacts, CountIn, TryResize, ReloadTable, ClearResize, Uncount
<1>3. \A s : ih' = [ih EXCEPT ![t] = s] /\ HashPlaceOK(s, T, H, t, L) => HashInv'
  BY <1>2, HashMove
<1>4. Len(T) \in 1 .. Len(T)
  BY <1>1 DEF HashFacts
<1>5. CASE CountIn(t)
  <2>1. CountedOK(ih[t], T, t, L)
    BY <1>5, HashPlaces DEF CountIn
  <2>2. ih[t] \in [pc : {"count"}, main : 1 .. Len(T)] /\ NoneYet(T, t, L)
    BY <1>5, <2>1 DEF CountedOK, CountIn
  <2>3. PICK s : s = [pc |-> "resize", main |-> ih[t].main, count |-> implicitProducerHashCount']
    OBVIOUS
  <2>4. ih' = [ih EXCEPT ![t] = s]
    BY <1>5, <2>3 DEF CountIn, IhGoto
  <2>5. CountedOK(s, T, t, L)
    BY <1>2, <2>2, <2>3 DEF CountedOK
  <2> QED BY <1>3, <2>4, <2>5 DEF HashPlaceOK
<1>6. CASE TryResize(t)
  <2>1. CountedOK(ih[t], T, t, L)
    BY <1>6, HashPlaces DEF TryResize
  <2>2. /\ ih[t] \in [pc : {"resize", "reload", "allocate", "unlock", "room"},
                      main : 1 .. Len(T), count : Int]
        /\ NoneYet(T, t, L)
    BY <1>6, <2>1 DEF CountedOK, TryResize
  <2>3. PICK pc \in {"reload", "room"} : ih' = [ih EXCEPT ![t] = [ih[t] EXCEPT !.pc = pc]]
    BY <1>6 DEF TryResize, IhGoto
  <2>4. PICK s : s = [ih[t] EXCEPT !.pc = pc]
    OBVIOUS
  <2>5. CountedOK(s, T, t, L)
    BY <2>2, <2>4 DEF CountedOK
  <2> QED BY <1>3, <2>3, <2>4, <2>5 DEF HashPlaceOK
<1>7. CASE ReloadTable(t)
  <2>1. CountedOK(ih[t], T, t, L)
    BY <1>7, HashPlaces DEF ReloadTable
  <2>2. /\ ih[t] \in [pc : {"resize", "reload", "allocate", "unlock", "room"},
                      main : 1 .. Len(T), count : Int]
        /\ NoneYet(T, t, L)
    BY <1>7, <2>1 DEF CountedOK, ReloadTable
  <2>3. PICK pc \in {"allocate", "unlock"} :
            /\ ih' = [ih EXCEPT ![t] = [ih[t] EXCEPT !.pc = pc, !.main = NewestTable]]
            /\ pc = "allocate" => HalfFull(ih[t].count, NewestTable)
    BY <1>7 DEF ReloadTable, IhGoto
  <2>4. PICK s : s = [ih[t] EXCEPT !.pc = pc, !.main = Len(T)]
    OBVIOUS
  <2>5. /\ s \in [pc : {"resize", "reload", "allocate", "unlock", "room"},
                  main : 1 .. Len(T), count : Int]
        /\ s.pc = pc /\ s.main = Len(T) /\ s.count = ih[t].count
    BY <1>4, <2>2, <2>4
  <2>6. s.pc = "allocate" => s.count >= Cardinality(DOMAIN T[s.main]) \div 2
    BY <2>3, <2>5 DEF HalfFull, Capacity, NewestTable
  <2>7. CountedOK(s, T, t, L)
    BY <2>2, <2>5, <2>6 DEF CountedOK
  <2> QED BY <1>3, <2>3, <2>4, <2>7 DEF HashPlaceOK, NewestTable
<1>8. CASE ClearResize(t)
  <2>1. CountedOK(ih[t], T, t, L)
    BY <1>8, HashPlaces DEF ClearResize
  <2>2. NoneYet(T, t, L)
    BY <2>1 DEF CountedOK
  <2>3. CASE ih[t].pc = "failed"
    <3>1. PICK s : s = [pc |-> "out", producer |-> NoProducer]
      OBVIOUS
    <3>2. ih' = [ih EXCEPT ![t] = s]
      BY <1>8, <2>3, <3>1 DEF ClearResize, IhGoto, NotInside
    <3>3. OutsideOK(s, T, t, L)
      BY <2>2, <3>1 DEF OutsideOK, Registered
    <3> QED BY <1>3, <3>2, <3>3 DEF HashPlaceOK
  <2>4. CASE ih[t].pc # "failed"
    <3>1. PICK s : s = [ih[t] EXCEPT !.pc = "room"]
      OBVIOUS
    <3>2. ih' = [ih EXCEPT ![t] = s]
      BY <1>8, <2>4, <3>1 DEF ClearResize, IhGoto
    <3>3. ih[t] \in [pc : {"resize", "reload", "allocate", "unlock", "room"},
                     main : 1 .. Len(T), count : Int]
      BY <1>8, <2>1, <2>4 DEF CountedOK, ClearResize
    <3>4. CountedOK(s, T, t, L)
      BY <2>2, <3>1, <3>3 DEF CountedOK
    <3> QED BY <1>3, <3>2, <3>4 DEF HashPlaceOK
  <2> QED BY <2>3, <2>4
<1>9. CASE Uncount(t)
  <2>1. OutsideOK(ih[t], T, t, L)
    BY <1>9, HashPlaces DEF Uncount
  <2>2. PICK s : s = [pc |-> "out", producer |-> ih[t].producer]
    OBVIOUS
  <2>3. ih' = [ih EXCEPT ![t] = s]
    BY <1>9, <2>2 DEF Uncount, IhGoto, NotInside
  <2>4. OutsideOK(s, T, t, L)
    BY <2>1, <2>2 DEF OutsideOK
  <2> QED BY <1>3, <2>3, <2>4 DEF HashPlaceOK
<1> QED BY <1>5, <1>6, <1>7, <1>8, <1>9

LEMMA AllocateStep ==
    ASSUME HashInv, NEW t \in ThreadIds, Allocate(t)
    PROVE  HashInv'
<1> DEFINE T == implicitProducerHash
           H == hash_thread_id
           L == listeners[t]
           W == implicitProducerHash'
<1>1. HashFacts(t) /\ CountedOK(ih[t], T, t, L)
  BY HashFactsHold, HashPlaces DEF Allocate
<1>2. /\ ih[t] \in [pc : {"resize", "reload", "allocate", "unlock", "room"},
                    main : 1 .. Len(T), count : Int]
      /\ ih[t].count >= Cardinality(DOMAIN T[ih[t].main]) \div 2
      /\ NoneYet(T, t, L)
  BY <1>1 DEF CountedOK, Allocate
<1>3. UNCHANGED <<hash_thread_id, recyclable, created, listeners>>
  BY DEF Allocate
<1>4. CASE /\ W = Append(T, Table(NewTableSize(ih[t].count, ih[t].main)))
           /\ ih' = [ih EXCEPT ![t] = [ih[t] EXCEPT !.pc = "unlock", !.main = NewestTable + 1]]
           /\ UNCHANGED implicitProducerHashCount
  <2>1. PICK n : n = NewTableSize(ih[t].count, ih[t].main)
    OBVIOUS
  <2>2. n \in Nat \ {0}
    <3>1. ih[t].main \in 1 .. Len(T) /\ ih[t].count \in Int
      BY <1>2
    <3>2. Capacity(ih[t].main) \in Nat \ {0}
      BY <1>1, <3>1, SlotIsThere DEF HashFacts, Capacity
    <3>3. ih[t].count \in Nat
      <4>1. PICK c \in Nat : c = Capacity(ih[t].main)
        BY <3>2
      <4>2. ih[t].count >= c \div 2 /\ c \div 2 >= 0
        BY <1>2, <4>1 DEF Capacity
      <4> QED BY <3>1, <4>2
    <3> QED BY <2>1, <3>2, <3>3, NewTableIsNotEmpty
  <2>3. /\ TablesTyped(W) /\ TablesStep(T, W, t) /\ IsKeyed(W, H, t) /\ NoneYet(W, t, L)
        /\ Len(W) = Len(T) + 1 /\ Len(T) \in Nat
    <3>1. /\ TablesTyped(T) /\ H \in [ThreadIds -> Nat] /\ IsKeyed(T, H, t) /\ NoneYet(T, t, L)
          /\ W = Append(T, Table(n))
      BY <1>1, <1>2, <1>4, <2>1 DEF HashFacts
    <3> HIDE DEF T, H, L, W
    <3> QED BY ONLY <2>2, <3>1, t \in ThreadIds, TableAppended
  <2>4. PICK s : s = [ih[t] EXCEPT !.pc = "unlock", !.main = Len(T) + 1]
    OBVIOUS
  <2>5. /\ s \in [pc : {"resize", "reload", "allocate", "unlock", "room"},
                  main : 1 .. Len(W), count : Int]
        /\ s.pc = "unlock"
    <3>1. Len(T) + 1 \in 1 .. Len(W)
      BY <2>3
    <3> HIDE DEF W
    <3> QED BY <1>2, <2>4, <3>1
  <2>6. HashPlaceOK(s, W, H, t, listeners'[t])
    BY <1>3, <2>3, <2>5 DEF CountedOK, HashPlaceOK
  <2>7. ih' = [ih EXCEPT ![t] = s] /\ implicitProducerHashCount' \in Int
    BY <1>1, <1>4, <2>4 DEF NewestTable, HashFacts
  <2> QED BY <1>1, <1>3, <2>3, <2>6, <2>7, HashStep DEF HashFacts
<1>5. CASE /\ implicitProducerHashCount' = implicitProducerHashCount - 1
           /\ ih' = [ih EXCEPT ![t] = [pc |-> "failed"]]
           /\ UNCHANGED implicitProducerHash
  <2>1. PICK s : s = [pc |-> "failed"]
    OBVIOUS
  <2>2. CountedOK(s, T, t, L)
    BY <1>2, <2>1 DEF CountedOK
  <2>3. implicitProducerHashCount' \in Int
    BY <1>1, <1>5 DEF HashFacts
  <2> QED BY <1>3, <1>5, <2>1, <2>2, <2>3, HashMove DEF HashPlaceOK
<1> QED BY <1>4, <1>5 DEF Allocate, IhGoto

\* A producer handed to a thread that has none.
LEMMA HandingOut ==
    ASSUME NEW made, NEW free, NEW L, HandedOut(made, free, L), NEW t \in ThreadIds, L[t] = {},
           NEW p \in free \cup ({Cardinality(made) + 1} \cap HashedProducers)
    PROVE  /\ HandedOut(made \cup {p}, free \ {p}, [L EXCEPT ![t] = @ \cup {p}])
           /\ p \in HashedProducers /\ [L EXCEPT ![t] = @ \cup {p}][t] = {p}
           /\ \A u \in ThreadIds : u # t => [L EXCEPT ![t] = @ \cup {p}][u] = L[u]
<1> DEFINE M == [L EXCEPT ![t] = @ \cup {p}]
<1>1. PICK n \in Nat : made = 1 .. n
  BY DEF HandedOut
<1>2. /\ made \subseteq HashedProducers /\ free \subseteq made /\ L \in [ThreadIds -> SUBSET made]
      /\ \A u \in ThreadIds : L[u] \cap free = {}
      /\ \A u, v \in ThreadIds : u # v => L[u] \cap L[v] = {}
  BY DEF HandedOut
<1>3. Cardinality(made) = n
  BY <1>1, FS_Interval
<1>4. /\ M = [u \in ThreadIds |-> IF u = t THEN {p} ELSE L[u]] /\ M[t] = {p}
      /\ \A u \in ThreadIds : u # t => M[u] = L[u]
  BY <1>2
<1> HIDE DEF M
<1>5. \A u \in ThreadIds : p \notin L[u]
  <2>1. CASE p \in free
    BY <1>2, <2>1
  <2>2. CASE p = n + 1
    BY <1>1, <1>2, <2>2
  <2> QED BY <1>3, <2>1, <2>2
<1>6. \E m \in Nat : made \cup {p} = 1 .. m
  <2>1. CASE p \in free
    BY <1>1, <1>2, <2>1
  <2>2. CASE p = n + 1
    <3>1. made \cup {p} = 1 .. n + 1
      BY <1>1, <2>2
    <3> QED BY <3>1
  <2> QED BY <1>3, <2>1, <2>2
<1>7. p \in HashedProducers
  BY <1>2
<1>8. M \in [ThreadIds -> SUBSET (made \cup {p})]
  BY <1>2, <1>4
<1>9. \A u \in ThreadIds : M[u] \cap (free \ {p}) = {}
  BY <1>2, <1>4
<1>10. \A u, v \in ThreadIds : u # v => M[u] \cap M[v] = {}
  BY <1>2, <1>4, <1>5
<1>11. HandedOut(made \cup {p}, free \ {p}, M)
  BY <1>2, <1>6, <1>7, <1>8, <1>9, <1>10 DEF HandedOut
<1> QED BY <1>4, <1>7, <1>11 DEF M

LEMMA RoomStep ==
    ASSUME HashInv, NEW t \in ThreadIds, Room(t)
    PROVE  HashInv'
<1> DEFINE T == implicitProducerHash
           H == hash_thread_id
           L == listeners[t]
<1>1. HashFacts(t) /\ CountedOK(ih[t], T, t, L)
  BY HashFactsHold, HashPlaces DEF Room
<1>2. /\ ih[t] \in [pc : {"resize", "reload", "allocate", "unlock", "room"},
                    main : 1 .. Len(T), count : Int]
      /\ NoneYet(T, t, L)
  BY <1>1 DEF CountedOK, Room
<1>3. UNCHANGED <<hash_thread_id, implicitProducerHash, implicitProducerHashCount>>
  BY DEF Room
<1>4. CASE \E p \in recyclable \cup ({Cardinality(created) + 1} \cap HashedProducers) :
               /\ recyclable' = recyclable \ {p}
               /\ created' = created \cup {p}
               /\ listeners' = [listeners EXCEPT ![t] = @ \cup {p}]
               /\ ih' = [ih EXCEPT ![t] = [pc |-> "insert", hash |-> ih[t].main, index |-> H[t],
                                           producer |-> p]]
  <2>1. PICK p \in recyclable \cup ({Cardinality(created) + 1} \cap HashedProducers) :
               /\ recyclable' = recyclable \ {p}
               /\ created' = created \cup {p}
               /\ listeners' = [listeners EXCEPT ![t] = @ \cup {p}]
               /\ ih' = [ih EXCEPT ![t] = [pc |-> "insert", hash |-> ih[t].main, index |-> H[t],
                                           producer |-> p]]
    BY <1>4
  <2>2. /\ HandedOut(created', recyclable', listeners') /\ p \in HashedProducers
        /\ listeners'[t] = {p} /\ \A u \in ThreadIds : u # t => listeners'[u] = listeners[u]
    <3>1. HandedOut(created, recyclable, listeners) /\ listeners[t] = {}
      BY <1>1, <1>2 DEF HashFacts, NoneYet
    <3>2. /\ HandedOut(created \cup {p}, recyclable \ {p}, [listeners EXCEPT ![t] = @ \cup {p}])
          /\ p \in HashedProducers /\ [listeners EXCEPT ![t] = @ \cup {p}][t] = {p}
          /\ \A u \in ThreadIds : u # t => [listeners EXCEPT ![t] = @ \cup {p}][u] = listeners[u]
      BY ONLY <3>1, t \in ThreadIds,
              p \in recyclable \cup ({Cardinality(created) + 1} \cap HashedProducers), HandingOut
    <3> QED BY ONLY <2>1, <3>2
  <2>3. PICK s : s = [pc |-> "insert", hash |-> ih[t].main, index |-> H[t], producer |-> p]
    OBVIOUS
  <2>4. /\ s \in [pc : {"insert"}, hash : 1 .. Len(T), index : Nat, producer : HashedProducers]
        /\ s.index = H[t] /\ s.producer = p /\ H[t] \in Nat
    BY <1>1, <1>2, <2>2, <2>3 DEF HashFacts
  <2>5. TakenBefore(T, H, t, s.hash, s.index)
    BY <1>1, <2>4, SearchGoesOn DEF HashFacts
  <2>6. InsertOK(s, T, H, t, listeners'[t])
    BY <1>2, <2>2, <2>4, <2>5 DEF InsertOK, NoneYet
  <2>7. Len(T) \in Nat /\ TablesStep(T, implicitProducerHash', t)
    BY <1>1, <1>3 DEF TablesStep, HashFacts
  <2>8. HashPlaceOK(s, implicitProducerHash', H, t, listeners'[t])
    BY <1>3, <2>6 DEF HashPlaceOK
  <2>9. ih' = [ih EXCEPT ![t] = s]
    BY <2>1, <2>3
  <2> QED BY <1>1, <1>3, <2>2, <2>7, <2>8, <2>9, HashStep DEF HashFacts
<1>5. CASE /\ ih' = [ih EXCEPT ![t] = [pc |-> "uncount", producer |-> NoProducer]]
           /\ UNCHANGED <<recyclable, created, listeners>>
  <2>1. PICK s : s = [pc |-> "uncount", producer |-> NoProducer]
    OBVIOUS
  <2>2. OutsideOK(s, T, t, L)
    BY <1>2, <2>1 DEF OutsideOK, Registered
  <2> QED BY <1>1, <1>3, <1>5, <2>1, <2>2, HashMove DEF HashPlaceOK, HashFacts
<1>6. CASE /\ ih' = [ih EXCEPT ![t] = [ih[t] EXCEPT !.pc = "resize", !.main = NewestTable]]
           /\ UNCHANGED <<recyclable, created, listeners>>
  <2>1. PICK s : s = [ih[t] EXCEPT !.pc = "resize", !.main = Len(T)]
    OBVIOUS
  <2>2. Len(T) \in 1 .. Len(T)
    BY <1>1 DEF HashFacts
  <2>3. CountedOK(s, T, t, L)
    BY <1>2, <2>1, <2>2 DEF CountedOK
  <2> QED BY <1>1, <1>3, <1>6, <2>1, <2>3, HashMove DEF HashPlaceOK, HashFacts, NewestTable
<1> QED BY <1>4, <1>5, <1>6 DEF Room, IhGoto

LEMMA InsertStep ==
    ASSUME HashInv, NEW t \in ThreadIds, Insert(t)
    PROVE  HashInv'
<1> DEFINE T == implicitProducerHash
           H == hash_thread_id
           L == listeners[t]
           h == ih[t].hash
           i == ih[t].index
           p == ih[t].producer
<1>1. HashFacts(t) /\ InsertOK(ih[t], T, H, t, L)
  BY HashFactsHold, HashPlaces DEF Insert
<1>2. /\ ih[t] \in [pc : {"insert"}, hash : 1 .. Len(T), index : Nat, producer : HashedProducers]
      /\ i >= H[t] /\ L = {p} /\ (\A g \in 1 .. Len(T) : NoKey(T, t, g))
      /\ TakenBefore(T, H, t, h, i)
  BY <1>1 DEF InsertOK
<1>3. h \in 1 .. Len(T) /\ i \in Nat /\ p \in HashedProducers
  BY <1>2
<1>4. \A g \in 1 .. Len(T) : \A k \in DOMAIN T[g] : T[g][k].key = t => T[g][k].value = p
  BY <1>2 DEF NoKey
<1>5. CASE KeyAt(t) \in {invalid_thread_id, invalid_thread_id2}
  <2>1. PICK pc \in {"out", "uncount"} : ih' = [ih EXCEPT ![t] = [pc |-> pc, producer |-> p]]
    BY <1>5 DEF Insert, IhGoto, NotInside
  <2>2. Put(t, [key |-> t, value |-> p])
    BY <1>5 DEF Insert
  <2>3. UNCHANGED <<hash_thread_id, implicitProducerHashCount, recyclable, created, listeners>>
    BY DEF Insert
  <2>4. NoKey(T, t, h)
    BY <1>2, <1>3
  <2> QED BY <1>2, <1>3, <1>4, <1>5, <2>1, <2>2, <2>3, <2>4, PutStep
<1>6. CASE KeyAt(t) \notin {invalid_thread_id, invalid_thread_id2}
  <2>1. PICK s : s = [ih[t] EXCEPT !.index = i + 1]
    OBVIOUS
  <2>2. ih' = [ih EXCEPT ![t] = s] /\ implicitProducerHash' = implicitProducerHash
    BY <1>6, <2>1 DEF Insert, IhGoto, NextIndex
  <2>3. /\ s \in [pc : {"insert"}, hash : 1 .. Len(T), index : Nat, producer : HashedProducers]
        /\ s.index = i + 1 /\ s.hash = h /\ s.producer = p
    BY <1>2, <1>3, <2>1
  <2>4. TakenBefore(T, H, t, h, i + 1)
    BY <1>1, <1>2, <1>3, <1>6, SearchGoesOn, KeyAtIs DEF HashFacts
  <2>5. i + 1 >= H[t]
    BY <1>1, <1>2, <1>3 DEF HashFacts
  <2>6. InsertOK(s, T, H, t, L)
    BY <1>2, <2>3, <2>4, <2>5 DEF InsertOK
  <2> QED BY <1>1, <2>2, <2>6, HashMove DEF Insert, HashFacts, HashPlaceOK
<1> QED BY <1>5, <1>6

LEMMA ThreadExitsStep ==
    ASSUME HashInv, NEW t \in ThreadIds, ThreadExits(t)
    PROVE  HashInv'
<1> DEFINE T == implicitProducerHash
           H == hash_thread_id
           L == listeners[t]
<1>1. HashFacts(t) /\ OutsideOK(ih[t], T, t, L)
  BY HashFactsHold, HashPlaces DEF ThreadExits
<1>2. PICK p \in L : ih' = [ih EXCEPT ![t] = [pc |-> "exit", hash |-> Len(T), index |-> H[t],
                                            producer |-> p]]
  BY DEF ThreadExits, IhGoto, NewestTable
<1>3. L = {p} /\ p \in HashedProducers
  BY <1>1 DEF OutsideOK, Registered, NoneYet
<1>4. PICK s : s = [pc |-> "exit", hash |-> Len(T), index |-> H[t], producer |-> p]
  OBVIOUS
<1>5. /\ s \in [pc : {"exit"}, hash : 1 .. Len(T), index : Nat, producer : HashedProducers]
      /\ s.hash = Len(T) /\ s.index = H[t] /\ s.producer = p /\ Len(T) \in Nat /\ H[t] \in Nat
  BY <1>1, <1>3, <1>4 DEF HashFacts
<1>6. NotBefore(T, H, t, s.hash, s.index)
  BY <1>1, <1>5, SearchGoesOn DEF HashFacts
<1>7. \A g \in s.hash + 1 .. Len(T) : FALSE
  BY <1>5
<1>8. ExitOK(s, T, H, t, L)
  BY <1>3, <1>5, <1>6, <1>7 DEF ExitOK
<1> QED BY <1>1, <1>2, <1>4, <1>8, HashMove DEF HashPlaceOK, HashFacts, ThreadExits

LEMMA RemoveKeyStep ==
    ASSUME HashInv, NEW t \in ThreadIds, RemoveKey(t)
    PROVE  HashInv'
<1> DEFINE T == implicitProducerHash
           H == hash_thread_id
           L == listeners[t]
           W == implicitProducerHash'
           h == ih[t].hash
           i == ih[t].index
           p == ih[t].producer
<1>1. HashFacts(t) /\ ExitOK(ih[t], T, H, t, L)
  BY HashFactsHold, HashPlaces DEF RemoveKey
<1>2. /\ ih[t] \in [pc : {"exit"}, hash : 1 .. Len(T), index : Nat, producer : HashedProducers]
      /\ i >= H[t] /\ L = {p}
      /\ \A g \in h + 1 .. Len(T) : NoKey(T, t, g)
      /\ NotBefore(T, H, t, h, i)
  BY <1>1 DEF ExitOK
<1>3. /\ h \in 1 .. Len(T) /\ i \in Nat /\ p \in HashedProducers /\ Len(T) \in Nat /\ H[t] \in Nat
      /\ t # invalid_thread_id
  BY <1>1, <1>2, HashAssumption DEF HashFacts
<1>4. UNCHANGED <<hash_thread_id, implicitProducerHashCount, recyclable, created, listeners>>
  BY DEF RemoveKey
\* The table is done with.
<1>5. CASE KeyAt(t) \in {t, invalid_thread_id}
  <2>1. /\ TablesTyped(W) /\ TablesStep(T, W, t) /\ IsKeyed(W, H, t) /\ Len(W) = Len(T)
        /\ NoKey(W, t, h) /\ \A g \in 1 .. Len(T) : NoKey(T, t, g) => NoKey(W, t, g)
    <3>1. CASE KeyAt(t) = t
      <4>1. W = [T EXCEPT ![h][At(t)].key = invalid_thread_id2]
        BY <3>1 DEF RemoveKey
      <4>2. At(t) \in DOMAIN T[h] /\ T[h][At(t)].key = t
        BY <1>1, <1>3, <3>1, SlotIsThere, KeyAtIs DEF HashFacts
      <4>3. PICK k \in DOMAIN T[h] : k = At(t)
        BY <4>2
      <4>4. /\ TablesTyped(T) /\ H \in [ThreadIds -> Nat] /\ IsKeyed(T, H, t)
            /\ h \in 1 .. Len(T) /\ k \in DOMAIN T[h] /\ T[h][k].key = t
            /\ W = KeyRemoved(T, h, k)
        BY <1>1, <1>3, <4>1, <4>2, <4>3 DEF HashFacts, KeyRemoved
      <4> HIDE DEF T, H, W, h
      <4> QED BY ONLY <4>4, t \in ThreadIds, KeyRemove
    <3>2. CASE KeyAt(t) = invalid_thread_id
      <4>1. W = T
        BY <1>3, <3>2 DEF RemoveKey
      <4>2. NoKey(T, t, h)
        BY <1>1, <1>2, <1>3, <3>2, SearchEnds, KeyAtIs DEF HashFacts
      <4> QED BY <1>1, <1>3, <4>1, <4>2 DEF TablesStep, HashFacts
    <3> QED BY <1>5, <3>1, <3>2
  <2>2. \A g \in (h - 1) + 1 .. Len(W) : NoKey(W, t, g)
    BY <1>2, <1>3, <2>1
  <2>3. \A s : ih' = [ih EXCEPT ![t] = s] /\ HashPlaceOK(s, W, H, t, L) => HashInv'
    BY <1>1, <1>4, <2>1, HashStep DEF HashFacts
  <2>4. CASE h = 1
    <3>1. PICK s : s = [pc |-> "exited", producer |-> p]
      OBVIOUS
    <3>2. ih' = [ih EXCEPT ![t] = s]
      BY <1>5, <2>4, <3>1 DEF RemoveKey, IhGoto
    <3>3. ExitedOK(s, W, t, L)
      BY <1>2, <1>3, <2>2, <2>4, <3>1 DEF ExitedOK
    <3> QED BY <2>3, <3>2, <3>3 DEF HashPlaceOK
  <2>5. CASE h # 1
    <3>1. PICK s : s = [ih[t] EXCEPT !.hash = h - 1, !.index = H[t]]
      OBVIOUS
    <3>2. ih' = [ih EXCEPT ![t] = s]
      BY <1>5, <2>5, <3>1 DEF RemoveKey, IhGoto
    <3>3. h - 1 \in 1 .. Len(W)
      BY <1>3, <2>1, <2>5
    <3>4. /\ s \in [pc : {"exit"}, hash : 1 .. Len(W), index : Nat, producer : HashedProducers]
          /\ s.index = H[t] /\ s.hash = h - 1 /\ s.producer = p
      <4> HIDE DEF W
      <4> QED BY <1>2, <1>3, <3>1, <3>3
    <3>5. NotBefore(W, H, t, s.hash, s.index)
      BY <1>1, <3>4, SearchGoesOn DEF HashFacts
    <3>6. s.index >= H[t]
      BY <1>3, <3>4
    <3>7. ExitOK(s, W, H, t, L)
      BY <1>2, <2>2, <3>4, <3>5, <3>6 DEF ExitOK
    <3> QED BY <2>3, <3>2, <3>7 DEF HashPlaceOK
  <2> QED BY <2>4, <2>5
<1>6. CASE KeyAt(t) \notin {t, invalid_thread_id}
  <2>1. PICK s : s = [ih[t] EXCEPT !.index = i + 1]
    OBVIOUS
  <2>2. ih' = [ih EXCEPT ![t] = s] /\ W = T
    BY <1>6, <2>1 DEF RemoveKey, IhGoto, NextIndex
  <2>3. /\ s \in [pc : {"exit"}, hash : 1 .. Len(T), index : Nat, producer : HashedProducers]
        /\ s.index = i + 1 /\ s.hash = h /\ s.producer = p
    BY <1>2, <1>3, <2>1
  <2>4. NotBefore(T, H, t, h, i + 1)
    BY <1>1, <1>2, <1>3, <1>6, SearchGoesOn, KeyAtIs DEF HashFacts
  <2>5. i + 1 >= H[t]
    BY <1>2, <1>3
  <2>6. ExitOK(s, T, H, t, L)
    BY <1>2, <2>3, <2>4, <2>5 DEF ExitOK
  <2> QED BY <1>1, <1>4, <2>2, <2>6, HashMove DEF HashPlaceOK, HashFacts
<1> QED BY <1>5, <1>6

LEMMA ExitedStep ==
    ASSUME HashInv, NEW t \in ThreadIds, Exited(t)
    PROVE  HashInv'
<1> DEFINE T == implicitProducerHash
           H == hash_thread_id
           L == listeners[t]
           p == ih[t].producer
<1>1. HashFacts(t) /\ ExitedOK(ih[t], T, t, L)
  BY HashFactsHold, HashPlaces DEF Exited
<1>2. L = {p} /\ \A g \in 1 .. Len(T) : NoKey(T, t, g)
  BY <1>1 DEF ExitedOK
<1>3. /\ UNCHANGED <<hash_thread_id, implicitProducerHash, implicitProducerHashCount, created>>
      /\ recyclable' = recyclable \cup {p}
      /\ listeners' = [listeners EXCEPT ![t] = @ \ {p}]
      /\ ih' = [ih EXCEPT ![t] = NotInside(NoProducer)]
  BY DEF Exited, IhGoto
<1>4. HandedOut(created, recyclable, listeners)
  BY <1>1 DEF HashFacts
<1>5. /\ (\E n \in Nat : created = 1 .. n)
      /\ created \subseteq HashedProducers /\ recyclable \subseteq created
      /\ listeners \in [ThreadIds -> SUBSET created]
      /\ \A u \in ThreadIds : listeners[u] \cap recyclable = {}
      /\ \A u, v \in ThreadIds : u # v => listeners[u] \cap listeners[v] = {}
  BY <1>4 DEF HandedOut
<1>6. /\ listeners' = [u \in ThreadIds |-> IF u = t THEN {} ELSE listeners[u]]
      /\ listeners'[t] = {} /\ \A u \in ThreadIds : u # t => listeners'[u] = listeners[u]
  BY <1>2, <1>3, <1>5
<1>7. HandedOut(created', recyclable', listeners')
  <2>1. created' \subseteq HashedProducers /\ \E n \in Nat : created' = 1 .. n
    BY <1>3, <1>5
  <2>2. recyclable' \subseteq created'
    BY <1>2, <1>3, <1>5
  <2>3. listeners' \in [ThreadIds -> SUBSET created']
    BY <1>3, <1>5, <1>6
  <2>4. \A u \in ThreadIds : listeners'[u] \cap recyclable' = {}
    <3>1. \A u \in ThreadIds : u # t => p \notin listeners[u]
      BY <1>2, <1>5
    <3> QED BY <1>3, <1>5, <1>6, <3>1
  <2>5. \A u, v \in ThreadIds : u # v => listeners'[u] \cap listeners'[v] = {}
    BY <1>5, <1>6
  <2> QED BY <2>1, <2>2, <2>3, <2>4, <2>5 DEF HandedOut
<1>8. PICK s : s = [pc |-> "out", producer |-> NoProducer]
  OBVIOUS
<1>9. OutsideOK(s, T, t, listeners'[t])
  BY <1>2, <1>6, <1>8 DEF OutsideOK, Registered, NoneYet
<1>10. HashPlaceOK(s, implicitProducerHash', H, t, listeners'[t])
  BY <1>3, <1>9 DEF HashPlaceOK
<1>11. TablesStep(T, implicitProducerHash', t)
  BY <1>1, <1>3 DEF TablesStep, HashFacts
<1>12. ih' = [ih EXCEPT ![t] = s]
  BY <1>3, <1>8 DEF NotInside
<1> QED BY <1>1, <1>3, <1>6, <1>7, <1>10, <1>11, <1>12, HashStep DEF HashFacts

-----------------------------------------------------------------------------
LEMMA HashInvStart == Init => HashInv
<1> SUFFICES ASSUME Init PROVE HashInv
  OBVIOUS
<1>1. HashInit
  BY DEF Init
<1>2. /\ hash_thread_id \in [ThreadIds -> Nat] /\ implicitProducerHashCount \in Int
      /\ InitialHashSize \in Nat \ {0}
  BY <1>1, HashAssumption DEF HashInit
<1> DEFINE T == implicitProducerHash
           f == Table(InitialHashSize)
<1>3. /\ f \in [0 .. InitialHashSize - 1 -> Entry]
      /\ \A k \in DOMAIN f : f[k].key = invalid_thread_id
  BY DEF Table, Entry
<1>4. f \in AnyTable
  BY <1>2, <1>3 DEF AnyTable
<1>5. T = <<f>>
  BY <1>1 DEF HashInit
<1> HIDE DEF f
<1>6. TablesTyped(T) /\ Len(T) = 1 /\ T[1] = f
  BY <1>4, <1>5 DEF TablesTyped
<1>7. \A h \in 1 .. Len(T) : T[h] = f
  BY <1>6
<1>8. \A u \in ThreadIds : \A h \in 1 .. Len(T) : NoKey(T, u, h)
  BY <1>3, <1>7, HashAssumption DEF NoKey
<1>9. HandedOut(created, recyclable, listeners)
  <2>1. created = 1 .. 0 /\ recyclable = {} /\ listeners = [t \in ThreadIds |-> {}]
    BY <1>1 DEF HashInit
  <2>2. created = {} /\ 0 \in Nat
    BY <1>1 DEF HashInit
  <2> QED BY <2>1, <2>2 DEF HandedOut
<1>10. ih = [t \in ThreadIds |-> ih[t]]
  BY <1>1 DEF HashInit
<1>11. ASSUME NEW u \in ThreadIds
       PROVE  IsKeyed(T, hash_thread_id, u) /\ HashPlaceOK(ih[u], T, hash_thread_id, u, listeners[u])
  <2>1. IsKeyed(T, hash_thread_id, u)
    BY <1>8 DEF IsKeyed, NoKey, OnPath, OneKey
  <2>2. listeners[u] = {} /\ ih[u] = [pc |-> "out", producer |-> NoProducer]
    BY <1>1 DEF HashInit, NotInside
  <2>3. Registered(T, u, listeners[u])
    BY <1>8, <2>2 DEF Registered, NoneYet
  <2>4. OutsideOK(ih[u], T, u, listeners[u])
    BY <2>2, <2>3 DEF OutsideOK
  <2> QED BY <2>1, <2>4 DEF HashPlaceOK
<1> QED BY <1>2, <1>6, <1>9, <1>10, <1>11 DEF HashInv

LEMMA HashInvKept ==
    ASSUME HashInv, [HashNext]_hashVars
    PROVE  HashInv'
<1>1. CASE UNCHANGED hashVars
  BY <1>1 DEF hashVars, HashInv
<1>2. CASE HashNext
  <2>1. PICK t \in ThreadIds :
            \/ GetOrAdd(t) \/ Probe(t) \/ Copy(t)
            \/ CountIn(t) \/ TryResize(t) \/ ReloadTable(t) \/ Allocate(t) \/ ClearResize(t)
            \/ Room(t) \/ Insert(t) \/ Uncount(t)
            \/ ThreadExits(t) \/ RemoveKey(t) \/ Exited(t)
    BY <1>2 DEF HashNext
  <2>2. CASE GetOrAdd(t)
    BY <2>2, GetOrAddStep
  <2>3. CASE Probe(t)
    BY <2>3, ProbeStep
  <2>4. CASE Copy(t)
    BY <2>4, CopyStep
  <2>5. CASE CountIn(t) \/ TryResize(t) \/ ReloadTable(t) \/ ClearResize(t) \/ Uncount(t)
    BY <2>5, CountedStep
  <2>6. CASE Allocate(t)
    BY <2>6, AllocateStep
  <2>7. CASE Room(t)
    BY <2>7, RoomStep
  <2>8. CASE Insert(t)
    BY <2>8, InsertStep
  <2>9. CASE ThreadExits(t)
    BY <2>9, ThreadExitsStep
  <2>10. CASE RemoveKey(t)
    BY <2>10, RemoveKeyStep
  <2>11. CASE Exited(t)
    BY <2>11, ExitedStep
  <2> QED BY <2>1, <2>2, <2>3, <2>4, <2>5, <2>6, <2>7, <2>8, <2>9, <2>10, <2>11
<1> QED BY <1>1, <1>2

LEMMA HashInvImplies ==
    ASSUME HashInv
    PROVE  ProducersAreKept
<1>1. ASSUME NEW t \in ThreadIds
      PROVE  /\ Cardinality(listeners[t]) <= 1
             /\ ih[t].pc = "out" /\ ih[t].producer # NoProducer => listeners[t] = {ih[t].producer}
  <2>1. HashPlaceOK(ih[t], implicitProducerHash, hash_thread_id, t, listeners[t])
    BY DEF HashInv
  <2>2. listeners[t] = {} \/ \E p : listeners[t] = {p}
    BY <2>1 DEF HashPlaceOK, OutsideOK, ProbeOK, CopyOK, CountedOK, InsertOK, ExitOK, ExitedOK,
                Registered, NoneYet
  <2>3. Cardinality(listeners[t]) <= 1
    <3>1. CASE listeners[t] = {}
      BY <3>1, FS_EmptySet
    <3>2. CASE \E p : listeners[t] = {p}
      BY <3>2, FS_Singleton
    <3> QED BY <2>2, <3>1, <3>2
  <2>4. ih[t].pc = "out" => OutsideOK(ih[t], implicitProducerHash, t, listeners[t])
    BY HashPlaces
  <2> QED BY <2>3, <2>4 DEF OutsideOK
<1>2. HandedOut(created, recyclable, listeners)
  BY DEF HashInv
<1> QED BY <1>1, <1>2 DEF ProducersAreKept, HandedOut

\* The producer a call finds or is given is its thread's until the thread ends, and
\* nobody else's, however many threads grow the tables, reuse slots and end meanwhile
\* (concurrentqueue.h:3352-3527, 3535-3565).
THEOREM ProducersAreKeptInvariant == Spec => []ProducersAreKept
<1>1. Init => HashInv
  BY HashInvStart
<1>2. HashInv /\ [Next]_vars => HashInv'
  <2>1. [Next]_vars => [HashNext]_hashVars
    BY DEF Next, vars
  <2> QED BY <2>1, HashInvKept
<1>3. HashInv => ProducersAreKept
  BY HashInvImplies
<1> QED BY <1>1, <1>2, <1>3, PTL DEF Spec
=============================================================================
