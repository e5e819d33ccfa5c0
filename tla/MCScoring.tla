------------------------------- MODULE MCScoring -------------------------------
(***************************************************************************)
(* An instance of Scoring for TLC: the five ways to build an engine, and   *)
(* values on both sides of each step of the curves.                        *)
(***************************************************************************)
EXTENDS Scoring

CONSTANTS a1, a2

Nothing == [source |-> "nil",    wrapped |-> FALSE, carded |-> FALSE]
Default == [source |-> "memory", wrapped |-> TRUE,  carded |-> FALSE]
Memory  == [source |-> "memory", wrapped |-> FALSE, carded |-> TRUE]
Redis   == [source |-> "redis",  wrapped |-> FALSE, carded |-> TRUE]
Wrapped == [source |-> "redis",  wrapped |-> TRUE,  carded |-> TRUE]

Local  == [required |-> <<"go", "go", "sql">>, universe |-> "home",
           labels |-> "eu", region |-> "home"]
Anyone == [required |-> <<>>, universe |-> None, labels |-> None, region |-> None]

Built  == {Nothing, Memory, Redis, Wrapped} \X {Local}
            \cup {Nothing, Default} \X {Anyone}
Kernel == <<0, 5>>

Both == {<<a1, a2>>}

Home  == [skills |-> {"go"}, universe |-> "home", region |-> "us",
          version |-> <<0, 5>>, first |-> 10, last |-> 40]
Other    == [Home EXCEPT !.version = <<1, 0>>]
Skilled  == [Home EXCEPT !.skills = {"go", "sql"}, !.last = 60]
Stranger == [skills |-> {}, universe |-> "away", region |-> None,
             version |-> <<0, 2>>, first |-> 50, last |-> 30]

Light == [cpu |-> 0, memory |-> 2, active |-> 1, capacity |-> 2]
Full  == [cpu |-> 4, memory |-> 4, active |-> 2, capacity |-> 2]
Busy  == [Light EXCEPT !.active = 2]
Idle  == [cpu |-> 0, memory |-> 0, active |-> 0, capacity |-> 0]

Plain == [auth |-> 300, interfaces |-> <<"MCP">>, region |-> "away"]
Rich  == [auth |-> 600, interfaces |-> <<"AFP", "A2A">>, region |-> "home"]

Newcomer == [card |-> Other, load |-> Idle, meta |-> None, latencies |-> None,
             successes |-> None, errors |-> None, tasks |-> None,
             total |-> None, mbps |-> None, trust |-> None]
Worker == [card |-> Home, load |-> Light, meta |-> None, latencies |-> <<2>>,
           successes |-> 1, errors |-> 0, tasks |-> 1, total |-> 10,
           mbps |-> 10, trust |-> 300]
Veteran == [Worker EXCEPT !.errors = 1, !.tasks = 2, !.load = Busy]

Begins == {(a1 :> Newcomer) @@ (a2 :> Worker), (a1 :> Worker) @@ (a2 :> Veteran)}

Values ==
  [card |-> {None, Skilled, Stranger}, load |-> {None, Full},
   meta |-> {Plain, Rich}, latencies |-> {<<5>>, <<1, 4, 3>>},
   successes |-> {0, 2}, errors |-> {0, 2},
   total |-> {0, 1000}, mbps |-> {0, 100}, trust |-> {-60, 720}]
=============================================================================
