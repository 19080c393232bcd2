--------------------------- MODULE MCSingleFlight ---------------------------
(* singleflight with a Getter for "page" that loads "user" and one for
   "user" that loads "account". *)
EXTENDS SingleFlight

MCKeys == {"account", "user", "page"}
MCRank == [account |-> 0, user |-> 1, page |-> 2]
MCNeeds == [account |-> {}, user |-> {"account"}, page |-> {"user", "account"}]
=============================================================================
