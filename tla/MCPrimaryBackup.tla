---------------------------- MODULE MCPrimaryBackup ----------------------------
(* PrimaryBackup with few clients, keys and restarts. *)
EXTENDS PrimaryBackup, TLC

CONSTANTS v1, v2

Of(op, v) == [op : {op}, key : Key, value : {v}]

\* All the kinds of requests; only those that add and remove.
AllRequests == Of("put", v1) \union Of("update", v2) \union Of("del", v1) \union Of("get", v1)
PutsAndDels == Of("put", v1) \union Of("del", v1)

\* Each server started once, or once more.
Once  == [s \in Server |-> 1]
Twice == [s \in Server |-> 2]

\* Clients are interchangeable, and so are keys.
Symmetry == Permutations(Client) \union Permutations(Key)
=============================================================================
