---------------------------- MODULE MCIngestion ----------------------------
(***************************************************************************)
(* Two developers with two artifacts between them: the second has forked   *)
(* a repository of the first.                                               *)
(***************************************************************************)
EXTENDS Ingestion

Showing(hash, type, mentions) ==
    [hash |-> hash, type |-> type, blank |-> FALSE, mentions |-> mentions, llm |-> {},
     hard |-> 0, trivial |-> FALSE, years |-> 0]

Shared == [Showing("a", "commit", <<"kafka", "redis">>) EXCEPT !.hard = 2]
Review == Showing("b", "pull", <<"redis">>)
Blank  == [Showing("e", "issue", <<>>) EXCEPT !.blank = TRUE]

Publishing(commits, pulls, issues) == [commits |-> commits, pulls |-> pulls, issues |-> issues]

MCDevelopers == 1..2
MCGitHub == << <<Publishing(<<Shared>>, <<Review>>, <<>>)>>,
               <<Publishing(<<>>, <<>>, <<Blank>>), Publishing(<<Shared>>, <<>>, <<>>)>> >>
=============================================================================
