------------------------------- MODULE Links -------------------------------
(***************************************************************************)
(* Nodes linked by their next pointers, as the lists of ConcurrentQueue    *)
(* are.                                                                    *)
(***************************************************************************)

\* The set S goes on to the end of each list that enters it.
Closed(S, next, null) == \A n \in S : next[n] \in S \cup {null}

\* The nodes from p on: those in every closed set p is in.
LinkedFrom(p, next, null) ==
    {n \in DOMAIN next :
        \A S \in SUBSET DOMAIN next :
            p \in S \cup {null} /\ Closed(S, next, null) => n \in S}
=============================================================================
