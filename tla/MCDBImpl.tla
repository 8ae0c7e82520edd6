------------------------------ MODULE MCDBImpl ------------------------------
(* Instances of DBImpl for TLC. *)
EXTENDS DBImpl

Put(k) == [key |-> k, type |-> "put"]
Del(k) == [key |-> k, type |-> "del"]

MCWrites == {[ops |-> <<Put(1)>>, sync |-> FALSE],
             [ops |-> <<Del(2)>>, sync |-> FALSE],
             [ops |-> <<Put(1), Put(2)>>, sync |-> TRUE]}

MCTwoWrites == {[ops |-> <<Put(1)>>, sync |-> FALSE],
                [ops |-> <<Del(1), Put(2)>>, sync |-> TRUE]}

=============================================================================
