----------------------------- MODULE MCRanking -----------------------------
(***************************************************************************)
(* Candidates for TLC. Wide files hold one candidate that differs from a    *)
(* strong profile in one respect, and the strong profile; deep files hold    *)
(* three candidates of a few kinds with every mix of text matches.           *)
(***************************************************************************)
EXTENDS Ranking

Job(start, end, months, level, title, employer) ==
    [start |-> start, end |-> end, months |-> months, small |-> FALSE, consulting |-> FALSE,
     level |-> level, title |-> title, employer |-> employer, production |-> TRUE]
Knowing(kind, endorsements, months) ==
    [kind |-> kind, weight |-> 750, endorsements |-> endorsements, months |-> months]

MCTierCuts == <<99, 97, 90, 75, 50>>

Texts(bm25, cosine, deep) ==
    [default |-> [bm25 |-> bm25, cosine |-> cosine, deep |-> deep],
     custom  |-> [bm25 |-> cosine, cosine |-> bm25, deep |-> deep]]

Base ==
    [id |-> 5,
     roles |-> <<Job(Today - 60, Today - 30, 30, 2, "tech", "a"), Job(Today - 30, None, 30, 3, "ai", "b")>>,
     title |-> "ai",
     skills |-> <<Knowing("retrieval", 30, 60), Knowing("retrieval", 30, 60), Knowing("retrieval", 30, 60),
                  Knowing("llm", 30, 60), Knowing("llm", 10, 30), Knowing("python", 3, 6)>>,
     assessments |-> <<[jd |-> TRUE, score |-> 900], [jd |-> FALSE, score |-> 700]>>,
     signals |-> [idle |-> 0, open |-> TRUE, notice |-> 0, responds |-> 1000, interviews |-> 1000,
                  complete |-> 1000, saved |-> 10, delay |-> 0, verified |-> 2, linkedin |-> TRUE,
                  github |-> 900],
     place |-> "hub", relocates |-> FALSE, years |-> 5, applications |-> 3,
     texts |-> Texts(2, 2, 2)]

Named(c, id) == [c EXCEPT !.id = id]
Matching(c, bm25, cosine, deep) == [c EXCEPT !.texts = Texts(bm25, cosine, deep)]

Padded(kinds, n) == [i \in 1..n |-> Knowing(kinds, 0, 6)]
Consultant == [Base EXCEPT !.roles = [i \in 1..2 |-> [@[i] EXCEPT !.consulting = TRUE]]]
Clerk  == [Base EXCEPT !.title = "nontech", !.roles = [i \in 1..2 |-> [@[i] EXCEPT !.title = "nontech"]]]
Padder == [Base EXCEPT !.title = "tech", !.skills = Padded("ml", 7) \o Padded("other", 9)]
Idle   == [Base EXCEPT !.signals.idle = None, !.signals.responds = 100]
Away   == [Base EXCEPT !.signals.idle = 150, !.signals.open = FALSE, !.signals.notice = 120]
Junior == [Base EXCEPT !.skills = <<Knowing("python", 3, 6)>>, !.years = 2,
                       !.roles = [i \in 1..2 |-> [@[i] EXCEPT !.production = FALSE]]]
Faked  == [Base EXCEPT !.applications = 60]

\* One change at a time.
Variants ==
    {Base, Consultant, Clerk, Padder, Idle, Away, Junior, Faked,
     [Clerk EXCEPT !.roles[1].title = "tech"],
     [Padder EXCEPT !.roles = <<Job(Today - 60, None, 60, 2, "unknown", "a")>>],
     [Padder EXCEPT !.roles = <<>>, !.title = "unknown",
                    !.skills = Padded("ml", 8) \o Padded("other", 9)],
     [Base EXCEPT !.roles = <<>>],
     [Base EXCEPT !.roles[1].start = None],
     [Base EXCEPT !.roles[1].small = TRUE, !.roles[1].months = 97],
     [Base EXCEPT !.roles[1].months = 40],
     [Base EXCEPT !.roles[2].start = Today - 20],
     [Base EXCEPT !.roles = <<Job(Today - 40, Today - 30, 10, 3, "tech", "a"),
                              Job(Today - 30, Today - 20, 10, 2, "tech", "b"),
                              Job(Today - 20, None, 17, 1, "ai", "c")>>],
     [Base EXCEPT !.roles[1].consulting = TRUE],
     [Base EXCEPT !.skills = [i \in 1..3 |-> [Knowing("ml", 9, 0) EXCEPT !.weight = 1000]]],
     [Base EXCEPT !.skills = <<Knowing("cv", 9, 20), Knowing("cv", 9, 20), Knowing("ml", 9, 20)>>],
     [Base EXCEPT !.skills = <<>>, !.assessments = <<>>],
     [Clerk EXCEPT !.skills = <<>>, !.assessments = <<>>],
     [Base EXCEPT !.years = 1],
     [Base EXCEPT !.signals.github = -1, !.signals.linkedin = FALSE],
     [Base EXCEPT !.signals.notice = 60, !.signals.delay = 48],
     [Base EXCEPT !.signals.notice = 90, !.signals.idle = 60],
     [Base EXCEPT !.place = "india"],
     [Base EXCEPT !.place = "abroad"],
     [Base EXCEPT !.place = "abroad", !.relocates = TRUE]}

\* Two profiles whose final scores round to the same four places, the larger id scored higher.
Remote == [Away EXCEPT !.place = "abroad", !.signals.responds = 0, !.signals.interviews = 0]
Twins == <<Named([Remote EXCEPT !.signals.github = 910], 2), Named(Remote, 1)>>

Wide == {<<v>> : v \in Variants} \cup {<<Named(v, 3), Base>> : v \in Variants} \cup {Twins}
        \cup {Twins \o <<Named(Junior, 4)>>}

Deep == {[i \in 1..3 |-> Named(Matching(kind[i], match[i][1], match[i][2], match[i][3]), 4 - i)] :
            kind \in {<<Base, Junior, Base>>, <<Junior, Faked, Base>>, <<Idle, Base, Away>>},
            match \in {<< <<0, 0, 0>>, <<1, 0, 2>>, <<2, 1, 1>> >>, << <<2, 1, 1>>, <<1, 0, 2>>, <<0, 0, 0>> >>,
                       << <<2, -1, 0>>, <<0, 2, 2>>, <<1, 1, 1>> >>, << <<0, 0, 0>>, <<0, 0, 1>>, <<1, 2, 0>> >>}}

MCPools == Wide \cup Deep
MCSizes == {1, 3}
=============================================================================
