---------------------------- MODULE MCRuntimeProbe ----------------------------
(* TLC instance of RuntimeProbe: every entry on its own, pairs of entries   *)
(* that differ in their checks, and one list that is too long.              *)
EXTENDS RuntimeProbe, TLC

Php == [type |-> "php_fpm", socket |-> "good", tcp |-> "none", argv |-> "full",
        pid |-> "none"]
Redis == [type |-> "tcp_service", socket |-> "none", tcp |-> "good", argv |-> "none",
          pid |-> "good"]
Bare == [Php EXCEPT !.argv = "command"]

Lists == {<<>>, <<Php, Redis>>, <<Redis, Bare>>, <<Php, Redis, Php>>}
         \cup {<<e>> : e \in Entries}
=============================================================================
