---------------------------- MODULE MCKServeInfer ----------------------------
EXTENDS KServeInfer, TLC

MCLabelIds == [text |-> 9, table |-> 8, title |-> 10]
MCClassIds == [other |-> 2, logo |-> 6]

\* The e with an acute accent.
MCUtf8 == <<195, 169>> :> <<233>>

-----------------------------------------------------------------------------
(* Requests                                                                 *)

in(name, datatype, shape, size, data) ==
    [name |-> name, datatype |-> datatype, shape |-> shape, size |-> size,
     data |-> data]

\* Pages of 1 x 1 pixels, and what they measured before they were resized.
pages(n, size, first) ==
    <<in("images", "FP32", <<n, 3, 1, 1>>, size, [i \in 1 .. 3 * n |-> first + i]),
      in("orig_target_sizes", "INT64", <<n, 2>>, 0, [i \in 1 .. 2 * n |-> 40])>>

unknownSize ==
    <<in("images", "FP32", <<1, 3, 1, 1>>, 0, <<1, 2, 3>>),
      in("orig_target_sizes", "INT64", <<1, 2>>, 0, <<0, 0>>)>>

noPages ==
    <<in("images", "FP32", <<0, 2, 1, 1>>, 0, <<>>),
      in("orig_target_sizes", "INT64", <<0, 2>>, 0, <<>>)>>

fewSizes ==
    <<in("images", "UINT8", <<2, 3, 1, 1>>, 0, <<1, 2, 3, 4, 5, 6>>),
      in("orig_target_sizes", "INT64", <<1, 2>>, 0, <<40, 40>>)>>

\* An inline language between the binary tensors, and two strings.
picture ==
    <<in("lang_type", "BYTES", <<1, 1>>, Absent, <<<<101, 110>>>>),
      in("image", "UINT8", <<1, 2, 1, 3>>, 0, <<1, 2, 3, 4, 5, 6>>)>>

base64 == <<in("image", "BYTES", <<2>>, 0, <<<<65, 66, 67, 68>>, <<69>>>>)>>
\* Text in a binary tensor, and base64 with a line feed and a pad in it.
french ==
    <<in("lang_type", "BYTES", <<1, 2>>, 0, <<<<195, 169>>, <<195>>>>),
      in("image", "BYTES", <<1>>, 0, <<<<65, 66, 10, 67, 61>>>>)>>

rawPng == <<in("image", "BYTES", <<1>>, 0, <<<<137, 80, 78, 71>>>>)>>

\* Pictures that are pictures in either layout.
classify(name) == <<in(name, "FP32", <<1, 3, 1, 3>>, 0, [i \in 1 .. 9 |-> i])>>

\* Channels first and taken for channels last; three rows of one grey pixel;
\* one channel, within 0 .. 1 and not.
wide == <<in("images", "FP32", <<1, 3, 1, 2>>, 0, <<1, 2, 3, 4, 5, 6>>)>>
grey == <<in("image", "UINT8", <<1, 3, 1, 1>>, 0, <<1, 2, 3>>)>>
plane(v) == <<in("image", "UINT8", <<1, 5, 1>>, 0, <<0, 0, 0, 0, v>>)>>

sent(ins) == [i \in DOMAIN ins |-> ins[i].data]

\* Well-formed requests, in both framings.
binary(model, ins, page) ==
    [endpoint |-> "kserve", model |-> model, relay |-> FALSE, page |-> page,
     body |-> BuildBinary(ins), sent |-> sent(ins), short |-> FALSE]

json(model, ins, page) ==
    [binary(model, ins, page) EXCEPT
        !.body = [framing |-> "json",
                  inputs |-> [i \in DOMAIN ins |-> [ins[i] EXCEPT !.size = Absent]]]]

\* What does not fit together.
broken(r) ==
    {[r EXCEPT !.short = TRUE, !.body.payload = SubSeq(@, 1, Len(@) - 1)],
     [r EXCEPT !.sent = Absent, !.body.headerLength = @ + 1],
     [r EXCEPT !.sent = Absent, !.body.framing = "octets"],
     [r EXCEPT !.sent = Absent, !.body.inputs[1].size = Garbled],
     [r EXCEPT !.sent = Absent, !.body.inputs[1].size = -1],
     [r EXCEPT !.sent = Absent, !.body.inputs[1].datatype = "FP16"],
     [r EXCEPT !.sent = Absent, !.body.inputs[1].shape = Append(@, 2)]}

MCRequests ==
    {binary("layout", pages(2, 0, 0), <<40, 40>>),
     json("layout", pages(1, 0, 0), <<40, 40>>),
     binary("layout", pages(1, Absent, 0), <<40, 40>>),
     binary("layout", unknownSize, <<40, 40>>),
     binary("layout", fewSizes, <<40, 40>>),
     binary("layout", noPages, <<40, 40>>),
     binary("layout", picture, <<40, 40>>),
     binary("ocr", picture, <<10, 12>>), json("ocr", picture, <<10, 2>>),
     binary("ocr", base64, <<10, 12>>), binary("ocr", rawPng, <<10, 12>>),
     binary("table", french, <<10, 12>>), binary("table", grey, <<10, 12>>),
     binary("table", plane(1), <<10, 12>>), json("table", plane(2), <<10, 12>>),
     binary("picture_classifier", wide, <<10, 12>>),
     [binary("table", grey, <<10, 12>>) EXCEPT !.body.inputs[1].shape = <<1, -1, 1, 1>>,
                                               !.sent = Absent],
     binary("picture_classifier", classify("pixel_values"), <<10, 12>>),
     binary("picture_classifier", classify("images"), <<10, 12>>),
     json("picture_classifier", base64, <<10, 12>>),
     json("table", base64, <<10, 12>>),
     json("unknown", base64, <<10, 12>>),
     [json("ocr", base64, <<10, 12>>) EXCEPT !.relay = TRUE],
     [json("ocr", base64, <<10, 12>>) EXCEPT !.endpoint = "openai", !.sent = Absent],
     [json("ocr", base64, <<10, 12>>) EXCEPT !.endpoint = "openai", !.sent = Absent,
                                             !.body = Bad]}
    \cup broken(binary("layout", pages(1, 0, 0), <<40, 40>>))
    \cup broken(binary("ocr", base64, <<10, 12>>))

-----------------------------------------------------------------------------
(* Replies                                                                  *)

item(text, word, box, score) ==
    [dict |-> TRUE, text |-> text, label |-> [word |-> word], box |-> box,
     score |-> score]

px(a, b, c, d) == <<a * Unit, b * Unit, c * Unit, d * Unit>>

title == item("a", "title", px(2, 3, 20, 9), 7)
inverted == item("b", "table", px(38, 39, 2, 1), Garbled)
outside == item("c", "table", px(20, 2, 90, 90), 6)
fractions == item("d", "table", px(0, 0, 1, 1), Absent)
tiny == item("e", "unheard_of", px(5, 5, 6, 20), 4)
numbered == [item("f", "", px(1, 1, 50, 50), 3) EXCEPT !.label = [id |-> 27]]
boxless == item("g", "logo", Absent, 2)
short == item("h", "title", <<1, 2, 3>>, 1)
empty == item("", "title", px(1, 1, 9, 9), 8)
string == [item("i", "title", px(1, 1, 9, 9), 8) EXCEPT !.dict = FALSE]

seen == {title, inverted, outside, fractions, tiny, numbered, boxless, short,
         empty, string}

lists ==
    {<<>>} \cup [1 .. 1 -> seen] \cup [1 .. 2 -> seen] \cup
    {<<title, outside, inverted>>, <<numbered, string, title>>,
     <<empty, boxless, title, short>>, <<short, empty, boxless, boxless>>}

reply(form, items) == [form |-> form, items |-> items]

MCReplies ==
    [m \in Models |->
        {reply("object", items) : items \in lists} \cup
        {reply("null", <<>>), reply("prose", <<boxless, short>>)} \cup
        (IF m = "picture_classifier"
         THEN {reply("single", <<i>>) : i \in {boxless, numbered, inverted}}
         ELSE {})]
=============================================================================
