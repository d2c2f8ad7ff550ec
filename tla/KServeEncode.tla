---------------------------- MODULE KServeEncode ----------------------------
(***************************************************************************)
(* From what a model wrote to the tensors docling reads: the parsers of    *)
(* the four response formats and the encoders of kserve.py.                *)
(*                                                                         *)
(* A reply is [form, items]: "prose" (no JSON in it, items its lines), a   *)
(* JSON "list", a JSON "object" with the list under its key, an object     *)
(* that is itself the "single" item, "null" under the key, "empty", or a   *)
(* "scalar".  An Item has the numbers found in its box, nesting and keys    *)
(* set aside.  Coordinates are integers, Unit of them to a pixel.          *)
(***************************************************************************)
EXTENDS KServeTensors

CONSTANTS
    Unit,           \* steps of a coordinate per pixel, even
    LabelIds,       \* the label names of the layout model, to their ids
    ClassIds        \* the label names of the picture classifier, to their ids

ASSUME UnitAssumption == Unit \in Nat \ {0}

Label == {Absent} \cup [word : STRING] \cup [id : Int]

Item == [dict : BOOLEAN, text : STRING, label : Label,
         box : {Absent} \cup Seq(Int), score : {Absent, Garbled} \cup Int]

Reply == [form : {"prose", "list", "object", "single", "null", "empty", "scalar"},
          items : Seq(Item)]

NumClasses == 26
DefaultScore == 9
MinLayoutSide == 4 * Unit
MinTableSide == 32 * Unit

Largest(S) == CHOOSE x \in S : \A y \in S : y <= x
Lower(a, b) == IF a < b THEN a ELSE b
Higher(a, b) == IF a > b THEN a ELSE b

\* What a loop appends of s that passes over all positions but those in I.
Rank(i, I) == Cardinality({j \in I : j <= i})

Select(s, I) ==
    [k \in 1 .. Cardinality(I) |-> s[CHOOSE i \in I : Rank(i, I) = k]]

-----------------------------------------------------------------------------
(* Parsers                                                                  *)

Line(text) ==
    [dict |-> TRUE, text |-> text, label |-> Absent, box |-> Absent, score |-> 5]

ParseOcr(reply) ==
    CASE reply.form = "null"             -> Bad
      [] reply.form \in {"prose", "scalar"} ->
           [i \in DOMAIN reply.items |-> Line(reply.items[i].text)]
      [] reply.form \in {"list", "object", "single", "empty"} -> reply.items

ParseLayout(reply) ==
    CASE reply.form = "null"                           -> Bad
      [] reply.form \in {"prose", "scalar"}            -> <<>>
      [] reply.form \in {"list", "object", "single", "empty"} -> reply.items

\* The label of an object; prose is itself the label.
ParseClass(reply) ==
    CASE reply.form = "single" ->
           IF reply.items[1].score = Garbled THEN Bad
           ELSE [label |-> IF reply.items[1].label = Absent
                           THEN [word |-> "unknown"] ELSE reply.items[1].label]
      [] reply.form \in {"prose", "scalar"} ->
           [label |-> [word |-> reply.items[1].text]]
      [] reply.form \in {"list", "object", "null", "empty"} ->
           [label |-> [word |-> "unknown"]]

\* The length of the cells is taken even when the rows are given.
ParseTable(reply) == IF reply.form = "null" THEN Bad ELSE reply.items

-----------------------------------------------------------------------------
(* Boxes                                                                    *)

\* Two corners in any order become (left, top, right, bottom).
Coerce(box) ==
    IF box = Absent \/ Len(box) < 4 THEN Absent
    ELSE LET left == Lower(box[1], box[3])
             right == Higher(box[1], box[3])
             top == Lower(box[2], box[4])
             bottom == Higher(box[2], box[4])
         IN  IF right <= left \/ bottom <= top THEN Absent
             ELSE <<left, top, right, bottom>>

Known(size) == size[1] > 0 /\ size[2] > 0

\* A box none of whose coordinates is above 1.5 is taken for fractions of the page.
ScaleUp(box, size) ==
    IF Known(size) /\ \A i \in 1 .. 4 : 2 * box[i] <= 3 * Unit
    THEN <<box[1] * size[1], box[2] * size[2], box[3] * size[1], box[4] * size[2]>>
    ELSE box

Within(x, page) == Higher(0, Lower(page * Unit, x))

\* Cut to the page, then thrown away when too small for what comes after.
Finalize(box, size, label) ==
    LET cut == IF Known(size)
               THEN <<Within(box[1], size[1]), Within(box[2], size[2]),
                      Within(box[3], size[1]), Within(box[4], size[2])>>
               ELSE box
        side == IF label = LabelIds["table"] THEN MinTableSide ELSE MinLayoutSide
    IN  IF cut[3] - cut[1] < side \/ cut[4] - cut[2] < side THEN Absent ELSE cut

LabelId(label, ids, default) ==
    CASE label = Absent                                -> ids[default]
      [] label # Absent /\ "id" \in DOMAIN label       -> label.id
      [] label # Absent /\ "id" \notin DOMAIN label    ->
           IF label.word \in DOMAIN ids THEN ids[label.word] ELSE ids[default]

Score(score) == IF score \in {Absent, Garbled} THEN DefaultScore ELSE score

\* What an item becomes, Absent when it is skipped.
Detection(item, size) ==
    LET id == LabelId(item.label, LabelIds, "text")
        corners == IF item.dict THEN Coerce(item.box) ELSE Absent
        box == IF corners = Absent THEN Absent
               ELSE Finalize(ScaleUp(corners, size), size, id)
    IN  IF box = Absent THEN Absent
        ELSE [label |-> id, box |-> box, score |-> Score(item.score)]

Detections(items, size) ==
    LET detections == [i \in DOMAIN items |-> Detection(items[i], size)]
    IN  Select(detections, {i \in DOMAIN items : detections[i] # Absent})

-----------------------------------------------------------------------------
(* Encoders                                                                 *)

Padding == [label |-> 0, box |-> <<0, 0, 0, 0>>, score |-> 0]

\* Broken: the rows of all images are joined, without padding between them.
EncodeDetectionsJoined(batch, sizes) ==
    LET rows == [b \in DOMAIN batch |-> Detections(batch[b], sizes[b])]
        count == Largest({0} \cup {Len(rows[b]) : b \in DOMAIN rows})
        flat == FlattenSeq(rows)
    IN  [shape |-> <<Len(batch), count>>,
         data |-> [k \in 1 .. Len(batch) * count |->
                     IF k <= Len(flat) THEN flat[k] ELSE Padding]]

\* One row of detections for each image, all of the length of the longest,
\* in one flat sequence with its shape.
EncodeDetections(batch, sizes) ==
    LET rows == [b \in DOMAIN batch |-> Detections(batch[b], sizes[b])]
        count == Largest({0} \cup {Len(rows[b]) : b \in DOMAIN rows})
    IN  [shape |-> <<Higher(1, Len(batch)), count>>,
         data |-> [k \in 1 .. Len(batch) * count |->
                     LET b == 1 + ((k - 1) \div count)
                         n == 1 + ((k - 1) % count)
                     IN  IF n <= Len(rows[b]) THEN rows[b][n] ELSE Padding]]

\* Texts without a box share the height of the page in equal lines, at least
\* a pixel high, in their order; their number is counted before.
SyntheticBox(index, missing, size) ==
    LET width == IF size[1] > 0 THEN size[1] ELSE 1000
        height == (IF size[2] > 0 THEN size[2] ELSE 1000) * Unit
        top == (height * index) \div missing
        bottom == (height * (index + 1)) \div missing
    IN  <<0, top, width * Unit, Higher(bottom, top + Unit)>>

HasText(region) == region.dict /\ region.text # ""

Written(regions) == Select(regions, {i \in DOMAIN regions : HasText(regions[i])})

\* Broken: the lines are numbered among all the texts.
EncodeTextsNumbered(regions, size) ==
    LET texts == Written(regions)
        unplaced == {i \in DOMAIN texts : Coerce(texts[i].box) = Absent}
    IN  [i \in DOMAIN texts |->
            [text |-> texts[i].text, score |-> Score(texts[i].score),
             box |-> IF i \notin unplaced THEN Coerce(texts[i].box)
                     ELSE SyntheticBox(i - 1, Cardinality(unplaced), size)]]

\* Every text of a reply with its box and its score, under one index.
EncodeTexts(regions, size) ==
    LET texts == Written(regions)
        unplaced == {i \in DOMAIN texts : Coerce(texts[i].box) = Absent}
    IN  [i \in DOMAIN texts |->
            [text |-> texts[i].text, score |-> Score(texts[i].score),
             box |-> IF i \notin unplaced THEN Coerce(texts[i].box)
                     ELSE SyntheticBox(Rank(i, unplaced) - 1, Cardinality(unplaced), size)]]

\* One row of logits per image, all the same: only the label's entry is high.
\* numpy counts a negative index from the end.
EncodeLogits(parsed, batch) ==
    LET id == LabelId(parsed.label, ClassIds, "other")
    IN  IF id \in -NumClasses .. NumClasses - 1
        THEN [shape |-> <<batch, NumClasses>>,
              class |-> IF id < 0 THEN NumClasses + id ELSE id]
        ELSE Crash

=============================================================================
