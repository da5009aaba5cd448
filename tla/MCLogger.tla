------------------------------ MODULE MCLogger ------------------------------
(* Two threads; "root" = 1 writes to the terminal, "rpc" = 2 has no appender. *)
EXTENDS Logger

CONSTANTS stdout, file

Threads == Permutations(Thread)

MN == <<"%", "m", "%", "n">>
M  == <<"%", "m">>

Entry(n, apds_) == [name |-> n, level |-> "DEBUG", formatter |-> MN, appenders |-> apds_]

RootFirst == {[log |-> <<Entry(1, <<stdout>>), Entry(2, <<>>)>>,
               sections |-> {"rpc", "zookeeper"}, exists |-> TRUE],
              [log |-> <<Entry(1, <<stdout>>)>>, sections |-> {}, exists |-> TRUE]}
BusinessFirst == {[log |-> <<Entry(1, <<stdout>>), Entry(0, <<>>)>>,
                   sections |-> {"rpc", "zookeeper"}, exists |-> TRUE]}
Given == {M, <<"%", "%", "n">>, <<>>}
=============================================================================
