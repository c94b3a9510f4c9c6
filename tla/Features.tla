------------------------------ MODULE Features ------------------------------
(***************************************************************************)
(* What precompute derives from one candidate: the feature row              *)
(* (pipeline/feature_engineering.py), the honeypot rules                    *)
(* (pipeline/honeypot_detector.py) and the gates (pipeline/gate_filter.py). *)
(* A date is a month since 1900, a fraction is a number of thousandths      *)
(* rounded down, a word is the vocabulary it belongs to, and a last day of   *)
(* activity in the future is today. Columns that only the trained model      *)
(* reads are left out.                                                      *)
(***************************************************************************)
EXTENDS Integers, Sequences, SequencesExt, Order

Unit  == 1000   \* 1.0
Today == 1517   \* DATASET_TODAY
None  == -1     \* a date that is missing or does not parse

Clip(x) == Max({0, Min({x, Unit})})
Share(part, whole) == (Unit * part) \div Max({whole, 1})
Times(x, y) == (x * y) \div Unit

\* The sum of a function over positions. Folds are beyond the provers; recursive functions are not.
Total(f) ==
    LET last == Max(DOMAIN f \cup {0})
        sum[n \in 0..last] == IF n = 0 THEN 0 ELSE sum[n - 1] + (IF n \in DOMAIN f THEN f[n] ELSE 0)
    IN  sum[last]

\* The columns of two parts of a row.
With(part, other) ==
    [name \in DOMAIN part \cup DOMAIN other |-> IF name \in DOMAIN part THEN part[name] ELSE other[name]]

Positions(s, Test(_)) == {i \in DOMAIN s : Test(s[i])}
Count(s, Test(_)) == Cardinality(Positions(s, Test))

(* Candidates, as the schema of the dataset bounds them; a skill and a title are in a vocabulary. *)

JdCore == {"retrieval", "llm", "ml", "nlp", "python"}
CvSpeech == {"cv"}
NonRelevant == {"other"}
Kinds == JdCore \cup CvSpeech \cup NonRelevant \cup {"unlisted"}
Titles == {"ai", "tech", "nontech", "unknown"}
Role == [start : Nat \cup {None}, end : Nat \cup {None}, months : Nat, small : BOOLEAN, level : Nat,
         consulting : BOOLEAN, title : Titles, employer : STRING, production : BOOLEAN]
Skill == [kind : Kinds, weight : 0..Unit, endorsements : Nat, months : Nat]
Assessment == [jd : BOOLEAN, score : 0..Unit]
Signals == [idle : Nat \cup {None}, open : BOOLEAN, notice : Nat, responds : 0..Unit,
            interviews : 0..Unit, complete : 0..Unit, saved : Nat, delay : Nat, verified : 0..2,
            linkedin : BOOLEAN, github : Nat \cup {-1}]
Match == [bm25 : Int, cosine : Int, deep : Nat]
Candidate == [id : Nat, roles : Seq(Role), title : Titles, skills : Seq(Skill),
              assessments : Seq(Assessment), signals : Signals, place : {"hub", "india", "abroad"},
              relocates : BOOLEAN, years : Nat, applications : Nat,
              texts : [default : Match, custom : Match]]

(* Careers: a role has a level, an employer and dates. *)

Start(r)  == IF r.start = None THEN 0 ELSE r.start
Finish(r) == IF r.end = None THEN Today ELSE r.end

\* Titles: the non-technical words of a title are looked for first.
TechnicalTitles    == {"ai", "tech"}
NonTechnicalTitles == {"nontech"}
Technical(r) == r.title \in TechnicalTitles

TitleFactor(title) ==
    CASE title \in NonTechnicalTitles -> 0 [] title = "ai" -> Unit
      [] title \in TechnicalTitles -> 550 [] OTHER -> 300

\* The roles by start; those that start together stay as they were.
Chronological(roles) ==
    LET order == Sorted([i \in DOMAIN roles |->
                     {j \in DOMAIN roles : \/ Start(roles[j]) < Start(roles[i])
                                           \/ Start(roles[j]) = Start(roles[i]) /\ j < i}])
    IN  [k \in DOMAIN roles |-> roles[order[k]]]

CareerFeatures(c) ==
    LET roles == Chronological(c.roles)
        n == Len(roles)
        product == Count(roles, LAMBDA r : ~r.consulting)
        hops == {roles[i].employer : i \in Positions(roles,
                     LAMBDA r : Start(r) >= Today - 48 /\ r.months < 18)}
    IN  [scope |-> IF n < 2 THEN 500 ELSE Clip(500 + 100 * (roles[n].level - roles[1].level)),
         gap |-> \E i \in 1..(n - 1) :
                    /\ roles[i + 1].start # None
                    /\ roles[i + 1].start - Finish(roles[i]) > 6
                    /\ Today - roles[i + 1].start < 60,
         productRatio |-> Share(product, n),
         allConsulting |-> n > 0 /\ product = 0,
         titleChaser |-> Cardinality(hops) >= 3,
         production |-> \E i \in 1..n : roles[i].production,
         technicalRoles |-> Count(roles, Technical)]

(* Skills: a vocabulary, a proficiency weight, endorsements and months of use. *)

SkillCount(c, kinds) == Count(c.skills, LAMBDA s : s.kind \in kinds)

\* log1p of endorsements, sqrt of years, tanh: increasing curves of the same shape.
Endorsed(n) == CASE n = 0 -> 0 [] n < 5 -> 1000 [] n < 20 -> 2000 [] OTHER -> 3000
Used(months) == CASE months = 0 -> 0 [] months < 12 -> 700 [] months < 48 -> 1000 [] OTHER -> 2000
Tanh(x) == IF x >= 2000 THEN Unit ELSE x - (x * x) \div 4000

SkillTrust(c) ==
    Total([i \in Positions(c.skills, LAMBDA s : s.kind \in JdCore) |->
              Times(Times(c.skills[i].weight, Endorsed(c.skills[i].endorsements)),
                    Used(c.skills[i].months))])

\* Mutant of KeywordStuffer: technical roles do not clear the second rule.
KeywordStufferAnyRoles(c, career) ==
    LET matched == SkillCount(c, JdCore)
        endorsements == Total([i \in Positions(c.skills, LAMBDA s : s.kind \in JdCore) |->
                                 c.skills[i].endorsements])
    IN  \/ matched >= 3 /\ TitleFactor(c.title) = 0 /\ career.technicalRoles = 0
        \/ matched >= 8 /\ endorsements < 5 * matched /\ SkillCount(c, NonRelevant) > matched

KeywordStuffer(c, career) ==
    LET matched == SkillCount(c, JdCore)
        endorsements == Total([i \in Positions(c.skills, LAMBDA s : s.kind \in JdCore) |->
                                 c.skills[i].endorsements])
    IN  /\ career.technicalRoles = 0
        /\ \/ matched >= 3 /\ TitleFactor(c.title) = 0
           \/ matched >= 8 /\ endorsements < 5 * matched /\ SkillCount(c, NonRelevant) > matched

SkillFeatures(c, career) ==
    LET relevant == Positions(c.assessments, LAMBDA a : a.jd)
    IN  [matched |-> SkillCount(c, JdCore),
         retrievalSkills |-> SkillCount(c, {"retrieval"}),
         llmSkills |-> SkillCount(c, {"llm"}),
         cvDominance |-> Share(SkillCount(c, CvSpeech),
                               SkillCount(c, {"retrieval", "llm", "ml", "nlp", "cv"})),
         skillTrust |-> SkillTrust(c),
         stuffer |-> KeywordStuffer(c, career),
         assessed |-> Total([i \in DOMAIN c.assessments |-> c.assessments[i].score])
                         \div Max({Len(c.assessments), 1}),
         jdAssessed |-> Total([i \in relevant |-> c.assessments[i].score])
                           \div Max({Cardinality(relevant), 1})]

(* Signals of the platform. *)

Recency(days) ==  \* exp(-days / 90)
    CASE days <= 0 -> 1000 [] days <= 30 -> 717 [] days <= 90 -> 368 [] days <= 180 -> 135 [] OTHER -> 17

NoticeFactor(days) ==
    CASE days <= 30 -> 1000 [] days <= 60 -> 700 [] days <= 90 -> 400 [] OTHER -> 100

SignalFeatures(c) ==
    LET sig == c.signals
        idle == IF sig.idle = None THEN 365 ELSE sig.idle
        availability == Times(Times(IF sig.open THEN Unit ELSE 300, NoticeFactor(sig.notice)),
                              Recency(idle))
        engagement == Times(400, sig.responds) + Times(200, sig.interviews)
                      + Times(200, Clip(sig.complete)) + Times(100, Clip(100 * sig.saved))
                      + Share(100 * 24, 24 + sig.delay) \div Unit
        trust == 300 * sig.verified + (IF sig.linkedin THEN 200 ELSE 0) + Times(200, Clip(sig.complete))
        github == Max({sig.github, 0})
    IN  [idle |-> idle, notice |-> sig.notice, responds |-> sig.responds, github |-> github,
         availability |-> availability, engagement |-> engagement,
         behavioural |-> Times(350, availability) + Times(350, engagement)
                         + Times(200, trust) + Times(100, github)]

(* Competence, place, and the row. *)

LocationFit(c) ==
    CASE c.place = "hub" -> Unit [] c.place = "india" -> 700 [] OTHER -> IF c.relocates THEN 350 ELSE 100

WrongSpecialisation(c, skill) ==
    IF skill.retrievalSkills > 0 \/ skill.llmSkills > 0 \/ SkillCount(c, {"nlp"}) > 0
    THEN 0 ELSE skill.cvDominance

JdFit(c, career, skill) ==
    LET base == 100 * Min({skill.retrievalSkills, 3}) + 25 * Min({skill.matched, 6})
                + Times(120, Tanh(skill.skillTrust \div 4)) + Times(120, skill.jdAssessed)
                + Times(100, career.productRatio) + (IF career.production THEN 80 ELSE 0)
                + Times(80, career.scope) + (50 * Min({skill.llmSkills, 3})) \div 3
        titled == Times(base, 400 + Times(600, TitleFactor(c.title)))
        onTopic == Times(titled, Unit - Times(700, WrongSpecialisation(c, skill)))
        honest == IF skill.stuffer THEN Times(onTopic, 400) ELSE onTopic
    IN  Clip(IF career.allConsulting THEN honest \div 2 ELSE honest)

Honeypot(c) ==
    LET months == Total([i \in DOMAIN c.roles |-> c.roles[i].months])
    IN  \/ \E i \in DOMAIN c.roles : c.roles[i].small /\ c.roles[i].months > 96
        \/ \E i \in DOMAIN c.roles : /\ c.roles[i].start # None
                                     /\ c.roles[i].months > Finish(c.roles[i]) - c.roles[i].start + 9
        \/ Count(c.skills, LAMBDA s : s.weight = Unit /\ s.months = 0) >= 3
        \/ months > 0 /\ 12 * c.years > months + 36
        \/ c.applications > 50

\* The failures that exclude a row; every other concern is a penalty of the scores.
HardGates(row) ==
    {gate \in {"honeypot", "all_consulting", "stuffer", "inactive"} :
        CASE gate = "honeypot" -> row.honeypot
          [] gate = "all_consulting" -> row.allConsulting
          [] gate = "stuffer" -> row.stuffer
          [] gate = "inactive" -> row.idle > 180 /\ row.responds < 150}

\* build_feature_row and apply_gates; `texts` holds what only other modules look at.
FeatureRow(c) ==
    LET career == CareerFeatures(c)
        skill == SkillFeatures(c, career)
        own == [id |-> c.id, texts |-> c.texts, honeypot |-> Honeypot(c), bonus |-> 0,
                fit |-> JdFit(c, career, skill), location |-> LocationFit(c),
                wrongSpec |-> WrongSpecialisation(c, skill)]
        facts == With(own, With(career, With(skill, SignalFeatures(c))))
    IN  With([passed |-> HardGates(facts) = {}], facts)

\* The candidate with one more skill of a kind.
Learns(c, kind) ==
    [c EXCEPT !.skills = Append(@, [kind |-> kind, weight |-> 500, endorsements |-> 0, months |-> 1])]
=============================================================================
