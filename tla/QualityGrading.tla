--------------------------- MODULE QualityGrading ---------------------------
(* quality-grading.ts and quality-service.ts: the rating of a directory's      *)
(* findings by a scan and, after a review, by recomputeWithAiReview. Grades    *)
(* are their ranks: 0 for F- up to 11 for A+, three to a letter. Positions in  *)
(* a band, floats in the code, are fractions; rationales are left out.         *)
EXTENDS Integers

CONSTANTS
  SourceLines,   \* sizes of the scanned directory
  LowsFound,     \* how many low findings of one category the scan comes with
  KeptFindings,  \* findings a report keeps of its scan (200)
  MaxAdded       \* bound: further findings of the scan and of reviews

ASSUME GradingAssumption ==
  /\ SourceLines \subseteq Nat /\ LowsFound \subseteq Nat
  /\ KeptFindings \in Nat /\ MaxAdded \in Nat

Severities == {"critical", "high", "medium", "low"}
\* One category of each treatment: "bugs" stands for all of reliability, "lint"
\* for those of maintainability that are not about architecture, unknown ones too.
Categories == {"security", "bugs", "lint", "architecture"}
Findings == [Categories -> [Severities -> Nat]]
NoneFound == [c \in Categories |-> [s \in Severities |-> 0]]

Total(n) == n["critical"] + n["high"] + n["medium"] + n["low"]
AllOf(f) == Total(f["security"]) + Total(f["bugs"]) + Total(f["lint"]) + Total(f["architecture"])

\* found: by the scan; kept: of those, what the report keeps; review: by the last review.
\* installed: a maintainability tool is installed or complexity was analysed; available:
\* one of them ran.
VARIABLE report

GradingTypeOK ==
  report \in [phase : {"scan", "review"}, lines : Nat, found : Findings, kept : Findings,
              review : Findings, installed : BOOLEAN, available : BOOLEAN, added : 0..MaxAdded]

\* A scan with low findings of one category; the report keeps the first of them.
GradingInit ==
  \E n \in LowsFound, l \in SourceLines, c \in Categories, i \in BOOLEAN, a \in BOOLEAN :
    /\ a => i
    /\ report = [phase |-> "scan", lines |-> l, found |-> [NoneFound EXCEPT ![c]["low"] = n],
                 kept |-> [NoneFound EXCEPT ![c]["low"] =
                             IF n <= KeptFindings THEN n ELSE KeptFindings],
                 review |-> NoneFound, installed |-> i, available |-> a, added |-> 0]

\* runQualityScan: one finding more, of a later analysis; what is kept is cut.
Find(c, s) ==
  /\ report.phase = "scan" /\ report.added < MaxAdded
  /\ report' = [report EXCEPT
       !.found[c][s] = @ + 1, !.added = @ + 1,
       !.kept[c][s] = IF AllOf(report.kept) < KeptFindings THEN @ + 1 ELSE @]

\* recomputeWithAiReview: the findings of a review, none or one more each time, join what
\* was kept of the scan; those of an earlier review are replaced.
Review ==
  report' = [report EXCEPT !.phase = "review", !.review = NoneFound]
AddFinding(c, s) ==
  /\ report.phase = "review" /\ report.added < MaxAdded
  /\ report' = [report EXCEPT !.review[c][s] = @ + 1, !.added = @ + 1]

GradingNext ==
  Review \/ \E c \in Categories, s \in Severities : Find(c, s) \/ AddFinding(c, s)

GradingSpec == GradingInit /\ [][GradingNext]_report

\* What computeQualityRating is called with: by the scan, or after a review.
BothOf(m, n) == [s \in Severities |-> m[s] + n[s]]
Merged(r) == [c \in Categories |-> BothOf(r.kept[c], r.review[c])]
RatedOf(r) ==
  IF r.phase = "scan"
  THEN [lines |-> r.lines, found |-> r.found, toolRan |-> r.installed]
  ELSE [lines |-> r.lines, found |-> Merged(r), toolRan |-> r.available]
-----------------------------------------------------------------------------
\* scoreToGrade and the ranges of anchorScoreToGrade.
NotAvailable == -1
GradeLow == [g \in 0..12 |-> <<0, 56, 65, 70, 73, 77, 80, 83, 87, 90, 93, 97, 101>>[g + 1]]
InGrade(score, g) == GradeLow[g] <= score /\ score < GradeLow[g + 1]
ScoreToGrade(score) == CHOOSE g \in 0..11 : InGrade(score, g)
AnchorScore(g, score) ==
  IF InGrade(score, g) THEN score ELSE (GradeLow[g] + GradeLow[g + 1]) \div 2

\* Letters are the ranks by three: F, C, B, A.
Letter(g) == g \div 3
F == 0
C == 1
B == 2
A == 3

\* scoreInBand, for the position num / den of 0..1: the nearest integer.
BandBottom == [l \in F..A |-> <<56, 70, 80, 90>>[l + 1]]
BandTop    == [l \in F..A |-> <<69, 79, 89, 100>>[l + 1]]
ScoreInBand(l, num, den) ==
  (2 * (BandBottom[l] * den + (BandTop[l] - BandBottom[l]) * num) + den) \div (2 * den)

Rated(score) == [score |-> score, grade |-> ScoreToGrade(score)]

\* gradeSecurity
SecurityScore(n) ==
  IF Total(n) = 0 THEN 100
  ELSE IF n["critical"] > 0 THEN IF n["critical"] > 11 THEN 0 ELSE 55 - 5 * n["critical"]
  ELSE IF n["high"] > 0 THEN ScoreInBand(F, 1, 1 + n["high"])
  ELSE IF n["medium"] > 0 THEN ScoreInBand(C, 1, 1 + n["medium"])
  ELSE ScoreInBand(B, 1, n["low"])

\* The ladders: amount / unit against three steps, in halves. Counts reach a
\* letter up to its step, densities below it.
Under(amount, unit, step, closed) ==
  IF closed THEN 2 * amount <= step * unit ELSE 2 * amount < step * unit
Ladder(amount, unit, s, closed) ==
  CASE Under(amount, unit, s[1], closed) ->
         [letter |-> A, num |-> s[1] * unit - 2 * amount, den |-> s[1] * unit]
    [] ~ Under(amount, unit, s[1], closed) /\ Under(amount, unit, s[2], closed) ->
         [letter |-> B, num |-> s[2] * unit - 2 * amount, den |-> (s[2] - s[1]) * unit]
    [] ~ Under(amount, unit, s[2], closed) /\ Under(amount, unit, s[3], closed) ->
         [letter |-> C, num |-> s[3] * unit - 2 * amount, den |-> (s[3] - s[2]) * unit]
    [] ~ Under(amount, unit, s[3], closed) ->
         [letter |-> F, num |-> s[3] * unit, den |-> 2 * amount]

\* Below 5 KLOC findings are counted, above they are counted per KLOC.
ReliabilityBand(n, lines) ==
  IF lines < 5000 THEN Ladder(n, 1, <<4, 12, 30>>, TRUE)
  ELSE Ladder(1000 * n, lines, <<3, 8, 16>>, FALSE)
MaintainabilityBand(n, lines) ==
  IF lines < 5000 THEN Ladder(n, 1, <<10, 30, 60>>, TRUE)
  ELSE Ladder(1000 * n, lines, <<10, 20, 50>>, FALSE)

\* Mutant: the severity's letter replaces a worse one of the ladder.
CapPavesOver(n, band) ==
  IF n["critical"] > 0 THEN ScoreInBand(F, 1, 2)
  ELSE IF n["high"] > 0 THEN ScoreInBand(C, 1, 2)
  ELSE ScoreInBand(band.letter, band.num, band.den)

\* Mutant: severities do not count where the ladder decides.
NoCap(n, band) == ScoreInBand(band.letter, band.num, band.den)

\* reliabilityEscape and maintainabilityEscape: a critical finding caps at F, a
\* high one at C, in the middle of the band, where the ladder was better.
Capped(n, band) ==
  IF n["critical"] > 0 /\ F < band.letter THEN ScoreInBand(F, 1, 2)
  ELSE IF n["critical"] = 0 /\ n["high"] > 0 /\ C < band.letter THEN ScoreInBand(C, 1, 2)
  ELSE ScoreInBand(band.letter, band.num, band.den)

\* gradeReliability: one low finding counts as none, but for the score.
OneLow(n) == n["low"] = 1 /\ Total(n) = 1
ReliabilityScore(n, lines) ==
  IF Total(n) = 0 THEN 100
  ELSE IF OneLow(n) THEN ScoreInBand(A, 1, 2)
  ELSE Capped(n, ReliabilityBand(Total(n), lines))

\* gradeMaintainability
MaintainabilityScore(n, lines) ==
  IF Total(n) = 0 THEN 100
  ELSE Capped(n, MaintainabilityBand(Total(n), lines))

\* archDropCount, dropGradeByLetters and applyArchPenalty: a letter is three
\* ranks, below F there is only F-.
ArchDrop(n) ==
  IF n["critical"] >= 1 \/ n["high"] >= 2 THEN 2
  ELSE IF n["high"] = 1 THEN 1 ELSE 0
DropLetters(g, letters) ==
  IF letters = 0 THEN g ELSE IF g >= 3 * letters THEN g - 3 * letters ELSE 0
ArchPenalty(dim, arch) ==
  LET g == DropLetters(dim.grade, ArchDrop(arch))
  IN [grade |-> g, score |-> IF g = dim.grade THEN dim.score ELSE AnchorScore(g, dim.score)]

\* bucketByDimension: architecture counts for maintainability.
Maintained(r) == BothOf(r.found["lint"], r.found["architecture"])

\* computeQualityRating: security and reliability are rated when there are
\* findings, maintainability unless none of its tools ran.
Dimensions(r) ==
  [d \in {x \in {"security", "reliability", "maintainability"} :
            CASE x = "security" -> Total(r.found["security"]) > 0
              [] x = "reliability" -> Total(r.found["bugs"]) > 0
              [] x = "maintainability" -> r.toolRan} |->
     CASE d = "security" -> Rated(SecurityScore(r.found["security"]))
       [] d = "reliability" -> Rated(ReliabilityScore(r.found["bugs"], r.lines))
       [] d = "maintainability" ->
            ArchPenalty(Rated(MaintainabilityScore(Maintained(r), r.lines)),
                        r.found["architecture"])]

\* computeOverall and worstOf: the worst dimension's grade and a score in it.
Overall(dims) ==
  IF DOMAIN dims = {} THEN [grade |-> NotAvailable, score |-> 0]
  ELSE LET g == CHOOSE g \in 0..11 :
                  /\ \E d \in DOMAIN dims : dims[d].grade = g
                  /\ \A d \in DOMAIN dims : g <= dims[d].grade
           s == CHOOSE s \in 0..100 :
                  /\ \E d \in DOMAIN dims : dims[d].score = s
                  /\ \A d \in DOMAIN dims : s <= dims[d].score
       IN [grade |-> g, score |-> AnchorScore(g, s)]

\* computeQualityGate
GatePasses(r, dims) ==
  /\ "security" \in DOMAIN dims => Letter(dims["security"].grade) > C
  /\ "reliability" \in DOMAIN dims => Letter(dims["reliability"].grade) > F
  /\ Total(r.found["architecture"]) < 2
-----------------------------------------------------------------------------
\* No amount of code or of other dimensions hides a severe finding that is rated: a critical
\* one makes the directory an F, a high one or a medium security one a C at best;
\* scores and grades agree; the gate never passes over a severe security finding
\* or a critical bug.
SevereShows(r) ==
  LET dims == Dimensions(r)
      all == Overall(dims)
      Rates(c) == c \in {"security", "bugs"} \/ r.toolRan
  IN /\ \A c \in Categories :
          Rates(c) => /\ r.found[c]["critical"] > 0 => Letter(all.grade) = F
                      /\ r.found[c]["high"] > 0 => Letter(all.grade) <= C
     /\ r.found["security"]["medium"] > 0 => Letter(all.grade) <= C
     /\ \A d \in DOMAIN dims : InGrade(dims[d].score, dims[d].grade)
     /\ all.grade # NotAvailable => InGrade(all.score, all.grade)
     /\ GatePasses(r, dims) => /\ Total(r.found["security"]) = r.found["security"]["low"]
                               /\ r.found["bugs"]["critical"] = 0

\* A severe finding shows in the report's rating, as long as the report still has it:
\* only a review forgets findings of the scan, and only one that had more than are kept.
SevereFindingsShow ==
  /\ SevereShows(RatedOf(report))
  /\ \A c \in Categories, s \in Severities :
       report.found[c][s] + report.review[c][s] > RatedOf(report).found[c][s]
         => report.phase = "review" /\ AllOf(report.found) > KeptFindings

\* More findings never raise the letter: neither a ladder, nor a cap, nor the
\* architecture's penalty gives more for them. Only a review does, which replaces an
\* earlier one's findings, or forgets those of the scan that were cut, or leaves out
\* maintainability where a tool is installed that did not run.
LetterOf(r) == LET g == Overall(Dimensions(r)).grade IN IF g = NotAvailable THEN A ELSE Letter(g)
LetterNeverRises ==
  [][LetterOf(RatedOf(report')) > LetterOf(RatedOf(report)) =>
       /\ report'.phase = "review" /\ report'.review = NoneFound
       /\ \/ report.review # NoneFound
          \/ AllOf(report.found) > KeptFindings
          \/ report.installed /\ ~ report.available]_report
=============================================================================
