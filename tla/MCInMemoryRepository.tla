------------------------ MODULE MCInMemoryRepository ------------------------
(* Two threads that race over one Schema with two versions and one          *)
(* Collection.                                                               *)
EXTENDS InMemoryRepository, TLC

CONSTANTS s1, v1, v2, a, b, r1

MCRank == v1 :> 1 @@ v2 :> 2

MCBreaking == {<<a, b>>}

MCCalls ==
  {[op |-> "publish", id |-> s1, version |-> v1, body |-> a, allowBreaking |-> FALSE]}
  \cup [op : {"publish"}, id : {s1}, version : {v2}, body : {a, b}, allowBreaking : {FALSE}]
  \cup {[op |-> "publish", id |-> s1, version |-> v2, body |-> b, allowBreaking |-> TRUE]}
  \cup [op : {"deprecate"}, id : {s1}, version : {v1}]
  \cup [op : {"create"}, ref : {r1}, schema : {<<s1, v1>>}]
  \cup [op : {"replace"}, ref : {r1}, document : [schema : {<<s1, v1>>}, state : {"ACTIVE"}]]
  \cup [op : {"snapshot"}]
  \cup [op : {"get"}, id : {s1}, version : {Absent}]
  \cup [op : {"revision"}]
=============================================================================
