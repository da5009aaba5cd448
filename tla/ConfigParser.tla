---------------------------- MODULE ConfigParser ----------------------------
(***************************************************************************)
(* apollo::ConfigParser (configparser.cc) as far as the rest depends on    *)
(* it: the loggers that are configured and whether parsing succeeded.  A   *)
(* file is the sequence of its "log" entries and the set of its other      *)
(* sections; it may be missing.  Without an "rpc" or a "zookeeper" section *)
(* parsing fails, after the log entries were taken in.                     *)
(***************************************************************************)
EXTENDS Naturals, Sequences

NoFile == [log |-> <<>>, sections |-> {}, exists |-> FALSE]

\* parseSuc_
ParseSuc(file) == file.exists /\ {"rpc", "zookeeper"} \subseteq file.sections

\* logConfig_, a map: of two entries for one name the first is kept.
LogConfig(file) ==
  LET names == {file.log[i].name : i \in DOMAIN file.log}
      first(n) == CHOOSE i \in DOMAIN file.log :
                    file.log[i].name = n /\ \A j \in 1 .. i - 1 : file.log[j].name # n
  IN  [n \in names |-> file.log[first(n)]]
=============================================================================
