------------------------------ MODULE MCDriver ------------------------------
EXTENDS DriverInv

CONSTANTS MaxOps, Faults  \* longest trace; whether to include unreadable files

Op == [type : {"a", "r"}, index : Ids, size : Sizes]
        \union [type : {"f"}, index : Ids, size : {0}]

Ordered == {t \in UNION {[1 .. n -> Op] : n \in 1 .. MaxOps} : WellFormed(t)}

Good == {[num_ids |-> 1 + (CHOOSE x \in {t[k].index : k \in DOMAIN t} :
                             \A k \in DOMAIN t : t[k].index <= x),
          num_ops |-> Len(t), ops |-> t] : t \in Ordered}

Bad == {[num_ids |-> 2, num_ops |-> 1, ops |-> <<[type |-> "a", index |-> 0, size |-> 1]>>],
        [num_ids |-> 1, num_ops |-> 2, ops |-> <<[type |-> "a", index |-> 0, size |-> 1]>>],
        [num_ids |-> 1, num_ops |-> 1, ops |-> <<[type |-> "x", index |-> 0, size |-> 1]>>]}

MCFiles == IF Faults THEN Good \union Bad ELSE Good

\* The theorems about ordinary traces are about these.
ASSUME OrdinaryTraces
=============================================================================
