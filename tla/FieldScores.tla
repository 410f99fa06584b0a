-------------------------------- MODULE FieldScores --------------------------------
(***************************************************************************)
(* How the evaluate step scores the fields that the map step has           *)
(* extracted, and how the save step sums the scores up.  A nested          *)
(* dictionary of scores is a function of paths: the keys and list indices  *)
(* that lead to a scalar, a field's score being at its path followed by    *)
(* "confidence".  Scores are whole numbers of a unit, as small as one      *)
(* likes, and are rounded where the code rounds them; their arithmetic is  *)
(* exact.  Texts are compared outside, a line knows the values that it     *)
(* equals or contains.  Names are those that flatten_dict keeps apart,     *)
(* from each other and from the keys of the sums.                          *)
(***************************************************************************)
EXTENDS Integers, SequencesExt, FiniteSetsExt

CONSTANTS
  Extractions,  \* what may be extracted: the scalars in order, as [path, value]
  Scans,        \* the OCR results: sequences of lines [equals, contains, words]
  Texts,        \* the model's answers: sequences of [text, score]
  NoLogprobs,   \* a model that reports no log probabilities
  Unit,         \* how many units of the scores are 0.0001
  Private       \* the names that start with an underscore

(* Values that are false in Python, and those that the save step calls     *)
(* unfilled.                                                               *)
Falsy == {"null", "empty", "zero"}

Unfilled == {"null", "empty", "blank"}

(* The scores 1 and 0.001.                                                 *)
One == 10000 * Unit

Thousandth == 10 * Unit

(* The scalars of one JSON value: none lies within another.                *)
Extraction(fields) ==
  /\ fields \in Seq([path : Seq(STRING), value : STRING])
  /\ \A i, j \in DOMAIN fields : i # j => ~IsPrefix(fields[i].path, fields[j].path)

ASSUME ScoresAssumption ==
  /\ Unit \in Nat \ {0}
  /\ \A fields \in Extractions : Extraction(fields)
  /\ \A lines \in Scans : \A i \in DOMAIN lines : lines[i].words \subseteq 0 .. One
  /\ Texts \subseteq Seq([text : STRING \ {"null"}, score : 0 .. One])
  /\ "_overall" \in Private /\ "confidence" \notin Private

VARIABLES
  task,    \* [image, fields, lines, text]: the document, what was extracted of it, from what
  judged,  \* [at, tree, seen, zero, overall, least, items]: what the evaluate step saves
  totals   \* <<entity_score, schema_score, min_extracted_entity_score>>, in the end

scoreVars == <<task, judged, totals>>

Unjudged ==
  [at |-> "none", tree |-> <<>>, seen |-> 0, zero |-> 0, overall |-> 0, least |-> 0,
   items |-> <<>>]

Tasks ==
  [image : BOOLEAN, fields : Extractions, lines : Scans, text : Texts \union {NoLogprobs}]

ScoresInit ==
  /\ task \in Tasks
  /\ judged = Unjudged /\ totals = <<>>

-------------------------------------------------------------------------------
(* round: the whole number nearest to n / d, the even one of two.          *)
Nearest(n, d) ==
  LET q == (2 * n + d) \div (2 * d)
  IN  IF (2 * n + d) % (2 * d) = 0 /\ q % 2 = 1 THEN q - 1 ELSE q

(* A score to three digits, and to two digits of its percentage.           *)
Rounded(score) == Thousandth * Nearest(score, Thousandth)

Percentage(score) == Unit * Nearest(score, Unit)

(* Content Understanding's score of a value: the least of the lines that   *)
(* equal it, or else contain it; a line has the least of its words'.       *)
Exact(value, lines) == {i \in DOMAIN lines : value \in lines[i].equals}

Containing(value, lines) == {i \in DOMAIN lines : value \in lines[i].contains}

Matching(value, lines) ==
  IF value \in Falsy THEN {}
  ELSE IF Exact(value, lines) # {} THEN Exact(value, lines)
  ELSE Containing(value, lines)

LineScore(line) == Min(line.words)

OcrScore(value, lines) ==
  LET found == Matching(value, lines)
  IN  IF found = {} THEN 0 ELSE Min({LineScore(lines[i]) : i \in found})

(* The lines are all scored for each value that is looked up, and min of   *)
(* a line without words raises.                                            *)
ScanRaises(fields, lines) ==
  /\ \E i \in DOMAIN fields : fields[i].value \notin Falsy
  /\ \E i \in DOMAIN lines : lines[i].words = {}

Under(i, key) == Append(task.fields[i].path, key)

(* The result of an evaluator: its score and some more keys for each field. *)
Tree(scores, keys) ==
  LET fields == DOMAIN task.fields
      ours   == {Under(i, key) : i \in fields, key \in keys}
      Scored(p) == {i \in fields : p = Under(i, "confidence")}
  IN  [p \in ours \union {<<"_overall">>} |->
         IF Scored(p) = {} THEN 0 ELSE scores[CHOOSE i \in Scored(p) : TRUE]]

OcrTree ==
  Tree([i \in DOMAIN task.fields |-> OcrScore(task.fields[i].value, task.lines)],
       {"confidence", "matching_lines", "value"})

(* The model's score of a value: that of its next occurrence in the answer *)
(* after the value before.  str(None) does not occur.                      *)
Occurrence(value, from) ==
  LET later == {j \in DOMAIN task.text : j >= from /\ task.text[j].text = value}
  IN  IF later = {} THEN 0 ELSE Min(later)

ModelScores ==
  LET value(k) == task.fields[k].value
      from[k \in 0 .. Len(task.fields)] ==
        IF k = 0 THEN 1
        ELSE LET j == Occurrence(value(k), from[k - 1]) IN IF j = 0 THEN from[k - 1] ELSE j + 1
  IN  [k \in DOMAIN task.fields |->
         LET j == Occurrence(value(k), from[k - 1]) IN IF j = 0 THEN 0 ELSE task.text[j].score]

ModelTree ==
  IF task.text = NoLogprobs THEN [p \in {<<"_overall">>} |-> 0]
  ELSE Tree(ModelScores, {"confidence", "value"})

-------------------------------------------------------------------------------
(* merge_confidence_values.                                                *)
Keys(tree, node) ==
  {p[Len(node) + 1] : p \in {q \in DOMAIN tree : IsStrictPrefix(node, q)}}

(* A leaf has no keys but "confidence" and "value".  Content               *)
(* Understanding's have, so these are merged as objects are.               *)
Leaf(tree, node) ==
  "confidence" \in Keys(tree, node) /\ Keys(tree, node) \subseteq {"confidence", "value"}

(* Keys that start with an underscore are left out of an object that both  *)
(* trees have.                                                             *)
Skipped(p, a, b) ==
  \E k \in DOMAIN p :
    p[k] \in Private /\ \A t \in {a, b} : \E q \in DOMAIN t : IsStrictPrefix(SubSeq(p, 1, k - 1), q)

JointLeaves(a, b) ==
  LET nodes == {node \in UNION {Prefixes(p) : p \in DOMAIN a} : "confidence" \in Keys(a, node)}
  IN  {node \in nodes : Leaf(a, node) /\ Leaf(b, node) /\ ~Skipped(node, a, b)}

Topmost(nodes) == {n \in nodes : ~\E m \in nodes : IsStrictPrefix(m, n)}

(* The scores of a leaf that are numbers, and not 0.                       *)
Valid(leaf, a, b) ==
  LET p == Append(leaf, "confidence")
  IN  {t[p] : t \in {u \in {a, b} : p \in DOMAIN u}} \ {0}

(* Mutant: only the fields that both have.                                 *)
MergedCommon(a, b) ==
  [p \in (DOMAIN a \intersect DOMAIN b) \ {<<"_overall">>} |-> a[p]]

(* Leaves have the lesser score, rounded; all else is taken as it is from  *)
(* the first tree that has it.                                             *)
Merged(a, b) ==
  LET leaves == Topmost(JointLeaves(a, b))
      scores == {Append(leaf, "confidence") : leaf \in leaves}
      kept   == {p \in DOMAIN a \union DOMAIN b :
                   /\ ~Skipped(p, a, b)
                   /\ \A leaf \in leaves : IsStrictPrefix(leaf, p) =>
                        p \in DOMAIN a /\ IsPrefix(Append(leaf, "value"), p)}
  IN  [p \in kept \union scores |->
         IF p \in scores
           THEN LET valid == Valid(Front(p), a, b)
                IN  Rounded(IF valid = {} THEN 0 ELSE Min(valid))
         ELSE IF p \in DOMAIN a THEN a[p] ELSE b[p]]

(* get_confidence_values and find_keys_with_min_confidence(.., 0).         *)
ScorePaths(tree) == {p \in DOMAIN tree : Last(p) = "confidence"}

Seen(tree) == {p \in ScorePaths(tree) : tree[p] # 0}

Zero(tree) == ScorePaths(tree) \ Seen(tree)

(* get_extraction_comparison_data, with the threshold 0.8.                 *)
Compared(tree) ==
  [i \in DOMAIN task.fields |->
     LET p == Under(i, "confidence")
         c == IF p \in DOMAIN tree THEN tree[p] ELSE 0
     IN  [value |-> task.fields[i].value, score |-> Percentage(c), above |-> c > 8000 * Unit]]

Added(values) ==
  LET sum[k \in 0 .. Len(values)] == IF k = 0 THEN 0 ELSE sum[k - 1] + values[k]
  IN  sum[Len(values)]

(* The mean of the scores above 0 is rounded, the least is not.            *)
Summary(tree) ==
  LET seen == Seen(tree)
      n    == Cardinality(seen)
      list == SetToSeq(seen)
  IN  IF seen = {} THEN [Unjudged EXCEPT !.at = "scored", !.tree = tree, !.items = Compared(tree)]
      ELSE [at |-> "scored", tree |-> tree, seen |-> n, zero |-> Cardinality(Zero(tree)),
            overall |-> Thousandth * Nearest(Added([k \in 1 .. n |-> tree[list[k]]]), n * Thousandth),
            least |-> Min({tree[p] : p \in seen}), items |-> Compared(tree)]

(* EvaluateHandler.execute: a picture has the model's scores only.         *)
EvaluateFields ==
  /\ judged.at = "none"
  /\ judged' =
       IF task.image THEN Summary(Merged(ModelTree, ModelTree))
       ELSE IF ScanRaises(task.fields, task.lines) THEN [Unjudged EXCEPT !.at = "failed"]
       ELSE Summary(Merged(OcrTree, ModelTree))
  /\ UNCHANGED <<task, totals>>

-------------------------------------------------------------------------------
(* _is_filled_value and _derive_aggregate_scores: when no score is above 0 *)
(* the share of the fields that are filled counts.                         *)
Share(n, of) == Thousandth * Nearest(1000 * n, of)

Filled == Cardinality({i \in DOMAIN judged.items : judged.items[i].value \notin Unfilled})

Aggregates ==
  LET n == Len(judged.items) IN
  CASE judged.seen > 0 /\ n > 0 -> <<judged.overall, Share(n - judged.zero, n), judged.least>>
    [] judged.seen = 0 /\ n > 0 -> [i \in 1 .. 3 |-> Share(Filled, n)]
    [] OTHER                    -> <<0, 0, 0>>

SaveScores ==
  /\ judged.at = "scored" /\ totals = <<>>
  /\ totals' = Aggregates
  /\ UNCHANGED <<task, judged>>

ScoresNext == EvaluateFields \/ SaveScores

ScoresSpec == ScoresInit /\ [][ScoresNext]_scoreVars

-------------------------------------------------------------------------------
(* Merging two trees of different shape, with and without log              *)
(* probabilities, neither loses a field nor counts one twice: the scores   *)
(* above 0 and the zeros make up the extracted fields, and each field is   *)
(* reported with a score that an evaluator gave to this very field, or is  *)
(* at most half a thousandth off, but for a field named "confidence" or    *)
(* with an underscore.  An object named "confidence" loses all its fields  *)
(* but one, and what an underscore hides is lost.  The totals saved are    *)
(* shares between 0 and 1; the least score is at most half a thousandth    *)
(* above the rounded mean, and the schema's score is full just when at     *)
(* most one field of 2000 has a zero.                                      *)
Given(i) ==
  (IF task.image THEN {} ELSE {OcrScore(task.fields[i].value, task.lines)})
    \union (IF task.text = NoLogprobs THEN {} ELSE {ModelScores[i]})

Named(i) == \E k \in DOMAIN task.fields[i].path : task.fields[i].path[k] = "confidence"

NamedWithin(i) ==
  \E k \in 1 .. Len(task.fields[i].path) - 1 : task.fields[i].path[k] = "confidence"

Hidden(i) == \E k \in DOMAIN task.fields[i].path : task.fields[i].path[k] \in Private

Near(x, y) == 2 * x <= 2 * y + Thousandth /\ 2 * y <= 2 * x + Thousandth

ScoresAddUp ==
  /\ judged.at = "scored" =>
       /\ judged.seen + judged.zero <= Len(task.fields)
       /\ judged.seen > 0 /\ (\A i \in DOMAIN task.fields : ~NamedWithin(i) /\ ~Hidden(i)) =>
            judged.seen + judged.zero = Len(task.fields)
       /\ \A i \in DOMAIN judged.items :
            \/ \E given \in Given(i) : Near(judged.items[i].score, given)
            \/ judged.items[i].score = 0
               /\ (Given(i) = {} \/ Named(i) \/ Hidden(i))
  /\ totals # <<>> =>
       /\ \A i \in 1 .. 3 : totals[i] \in 0 .. One
       /\ 2 * totals[3] <= 2 * totals[1] + Thousandth
       /\ judged.seen > 0 =>
            (totals[2] = One <=> 2000 * judged.zero <= Len(judged.items))
===============================================================================
