------------------------------ MODULE MCBridge ------------------------------
(***************************************************************************)
(* One request takes any route, one disconnects or sends raw bytes, one is  *)
(* an operation: so a request meets raw bytes, a disconnect and a shutdown. *)
(***************************************************************************)
EXTENDS Bridge

CONSTANTS c1, c2, c3

Post(path) == [own |-> TRUE, method |-> "POST", path |-> path]

MCCalls == {c1, c2, c3}

MCShapes ==
  LET driving == {Post(path) : path \in {"disconnect", "raw"}}
  IN  c1 :> driving \cup {Post("connect"), Post("request"), [own |-> TRUE, method |-> "GET", path |-> "events"],
                          [own |-> FALSE, method |-> "POST", path |-> "request"],
                          [own |-> TRUE, method |-> "GET", path |-> "page"]}
      @@ c2 :> driving
      @@ c3 :> {Post("request")}
=============================================================================
