----------------------------- MODULE KServeInfer -----------------------------
(***************************************************************************)
(* One request to the gateway from its arrival to its answer: the KServe   *)
(* endpoint with its four models, the relay to a KServe server, and the    *)
(* OpenAI proxy.  Every call of the model behind them may time out, fail,  *)
(* be refused, answer with something else than JSON, or with any reply.    *)
(*                                                                         *)
(* GatewayReload has the same handler with many requests and none of the   *)
(* data; here there is one request, and what becomes of its tensors.       *)
(***************************************************************************)
EXTENDS KServeEncode

CONSTANTS
    Requests,       \* what clients may send
    Replies,        \* for each model, what it may write
    MaxRetries      \* gateway_upstream_retries, 0 for a negative one

ASSUME RetryAssumption == MaxRetries \in Nat

Models == {"layout", "ocr", "picture_classifier", "table"}

ASSUME ReplyAssumption == \A m \in Models : \A reply \in Replies[m] : reply \in Reply

\* The inputs of a body with the values the client sent in them.
Sent(r) ==
    [i \in DOMAIN r.sent |-> [r.body.inputs[i] EXCEPT !.data = r.sent[i]]]

\* The values of an input as they are to be read: strings of the payload as text.
AsText(r, i) ==
    IF r.body.framing = "binary" /\ r.body.inputs[i].datatype = "BYTES"
         /\ r.body.inputs[i].size # Absent
    THEN Characters(r.sent[i]) ELSE r.sent[i]

\* What sent and short say of a request: its body is what a client makes of these
\* values, in one of the framings, or that with its end missing.
ASSUME SentAssumption ==
    \A r \in Requests :
        /\ r.short => r.sent # Absent
        /\ r.sent # Absent =>
              /\ Len(r.sent) \in Nat /\ DOMAIN r.sent = 1 .. Len(r.sent)
              /\ \A i \in DOMAIN r.sent : Sendable(Sent(r)[i])
              /\ IF r.short
                 THEN \E n \in 0 .. Len(BuildBinary(Sent(r)).payload) - 1 :
                        r.body = [BuildBinary(Sent(r)) EXCEPT !.payload = SubSeq(@, 1, n)]
                 ELSE \/ r.body = BuildBinary(Sent(r))
                      \/ r.body = [framing |-> "json", inputs |-> Sent(r)]

VARIABLES
    request,
    pc,             \* "received", "decode", "relay", "post", "encode", "done"
    inputs,         \* the inputs of the request, once parsed
    sizes,          \* one page size for each image to be sent
    attempt,        \* POSTs for the current image
    log,            \* every POST: its image and how it ended
    replies,        \* parsed replies, one for each image so far
    answer          \* [status, outputs]

vars == <<request, pc, inputs, sizes, attempt, log, replies, answer>>

Unanswered == [status |-> 0, outputs |-> Absent]

-----------------------------------------------------------------------------

Init ==
    /\ request \in Requests
    /\ pc = "received"
    /\ inputs = Absent
    /\ sizes = <<>>
    /\ attempt = 1
    /\ log = <<>>
    /\ replies = <<>>
    /\ answer = Unanswered

Answer(status, outputs) ==
    /\ pc' = "done"
    /\ answer' = [status |-> status, outputs |-> outputs]

\* ValueError and TypeError are the client's fault to the KServe handler,
\* an exception it does not name is the server's.
StatusOf(failure) == IF failure = Bad THEN 400 ELSE 500

UnknownModel ==
    /\ pc = "received"
    /\ request.endpoint = "kserve"
    /\ request.model \notin Models
    /\ Answer(404, Absent)
    /\ UNCHANGED <<request, inputs, sizes, attempt, log, replies>>

ReceiveRelay ==
    /\ pc = "received"
    /\ request.endpoint = "kserve"
    /\ request.model \in Models
    /\ request.relay
    /\ pc' = "relay"
    /\ UNCHANGED <<request, inputs, sizes, attempt, log, replies, answer>>

\* The proxy passes the body on as it is, one POST for it.
ReceiveOpenAI ==
    /\ pc = "received"
    /\ request.endpoint = "openai"
    /\ IF request.body = Bad
       THEN /\ Answer(500, Absent)
            /\ UNCHANGED sizes
       ELSE /\ pc' = "post"
            /\ sizes' = <<request.page>>
            /\ UNCHANGED answer
    /\ UNCHANGED <<request, inputs, attempt, log, replies>>

Parse ==
    LET parsed == ParseRequest(request.body)
    IN  /\ pc = "received"
        /\ request.endpoint = "kserve"
        /\ request.model \in Models
        /\ ~request.relay
        /\ inputs' = parsed
        /\ IF parsed = Bad
           THEN Answer(StatusOf(Bad), Absent)
           ELSE /\ pc' = "decode"
                /\ UNCHANGED answer
        /\ UNCHANGED <<request, sizes, attempt, log, replies>>

-----------------------------------------------------------------------------
(* Images: a sequence with a page size for each of them, or a failure       *)

\* A batch of pages with the size each had before it was resized, up to the
\* first that is no picture in colours or has no size.  Nothing is asked
\* of an empty batch.
LayoutImages(ins) ==
    LET tensors == DecodeTensors(ins)
        names == {"images", "orig_target_sizes"}
    IN  IF tensors = Bad THEN Bad
        ELSE IF ~(names \subseteq DOMAIN tensors) THEN Bad
        ELSE IF \E n \in names : tensors[n].datatype = "BYTES" /\ tensors[n].data # <<>>
        THEN Bad
        ELSE LET pixels == tensors["images"]
                 orig == tensors["orig_target_sizes"]
                 count == pixels.shape[1]
                 per == IF count = 0 THEN 0 ELSE Len(pixels.data) \div count
                 frame(b) == Denormalized(Tail(pixels.shape),
                                SubSeq(pixels.data, (b - 1) * per + 1, b * per))
                 unseen(b) == frame(b) = Bad \/ frame(b)[3] \notin {3, 4}
                 unsized(b) == \/ Len(orig.shape) # 2
                               \/ orig.shape[1] < b
                               \/ orig.shape[2] < 2
                 failed == {b \in 1 .. count : unseen(b) \/ unsized(b)}
                 at(b) == (b - 1) * orig.shape[2]
             IN  IF failed = {}
                 THEN [b \in 1 .. count |-> <<orig.data[at(b) + 1], orig.data[at(b) + 2]>>]
                 ELSE IF unseen(CHOOSE b \in failed : \A c \in failed : b <= c)
                 THEN Bad
                 ELSE Crash

Page == Int \X Int

\* Sizes are numbers: those of a picture, and those that numpy has converted.
ASSUME PageAssumption ==
    \A r \in Requests :
        /\ r.page \in Page
        /\ r.endpoint = "kserve" /\ r.model = "layout" /\ ParseRequest(r.body) # Bad =>
              LET images == LayoutImages(ParseRequest(r.body))
              IN  images \in {Bad, Crash} \/ images \in Seq(Page)

Only(image) == IF image \in {Bad, Crash} THEN image ELSE <<request.page>>

OneImage == Only(DecodeImage(inputs))

\* pixel_values is asked for its truth, which only an array of one element has,
\* and a zero or an empty string is not true; images is asked for nothing.
IsFalse(tensor) ==
    IF tensor.datatype = "BYTES" THEN tensor.data = <<<<>>>> ELSE tensor.data = <<0>>

ClassifierTensor(tensors) ==
    IF "pixel_values" \in DOMAIN tensors /\ ~IsFalse(tensors["pixel_values"])
    THEN "pixel_values" ELSE "images"

ClassifierImages ==
    LET tensors == DecodeTensors(inputs)
        name == ClassifierTensor(tensors)
        First(t) == IF t.data = <<>> THEN t
                    ELSE [t EXCEPT !.shape = <<1>> \o Tail(@),
                                   !.data = SubSeq(@, 1, Len(@) \div t.shape[1])]
    IN  IF tensors = Bad THEN Bad
        ELSE IF name \notin DOMAIN tensors THEN OneImage
        ELSE IF name = "pixel_values" /\ Len(tensors[name].data) # 1 THEN Bad
        ELSE Only(Image(First(tensors[name])))

\* The rows of logits: the answer about the first image stands for all.
ClassifierBatch ==
    LET tensors == DecodeTensors(inputs)
        name == ClassifierTensor(tensors)
    IN  IF name \in DOMAIN tensors THEN tensors[name].shape[1] ELSE 1

Images ==
    CASE request.model = "layout"             -> LayoutImages(inputs)
      [] request.model = "picture_classifier" -> ClassifierImages
      [] request.model \in {"ocr", "table"}   -> OneImage

Decode ==
    /\ pc = "decode"
    /\ IF Images \in {Bad, Crash}
       THEN /\ Answer(StatusOf(Images), Absent)
            /\ UNCHANGED sizes
       ELSE /\ sizes' = Images
            /\ pc' = IF Images = <<>> THEN "encode" ELSE "post"
            /\ UNCHANGED answer
    /\ UNCHANGED <<request, inputs, attempt, log, replies>>

-----------------------------------------------------------------------------
(* Calls of the model                                                       *)

Current == Len(replies) + 1

Logged(outcome) == log' = Append(log, [image |-> Current, outcome |-> outcome])

\* Broken: the last attempt is counted like the others.
TimeOutAgain ==
    /\ pc = "post"
    /\ attempt <= MaxRetries + 1
    /\ Logged("timeout")
    /\ attempt' = attempt + 1
    /\ UNCHANGED <<request, pc, inputs, sizes, replies, answer>>

\* A timeout is tried again.
TimeOut ==
    /\ pc = "post"
    /\ attempt <= MaxRetries
    /\ Logged("timeout")
    /\ attempt' = attempt + 1
    /\ UNCHANGED <<request, pc, inputs, sizes, replies, answer>>

\* Broken: the failure is taken for an error of the gateway itself.
TransportFailsInside ==
    /\ pc = "post"
    /\ \E outcome \in {"refused", "timeout"} :
          /\ outcome = "timeout" => attempt > MaxRetries
          /\ Logged(outcome)
    /\ Answer(500, Absent)
    /\ UNCHANGED <<request, inputs, sizes, attempt, replies>>

\* The last timeout, and what is not a timeout, end the request.
TransportFails ==
    /\ pc = "post"
    /\ \E outcome \in {"refused", "timeout"} :
          /\ outcome = "timeout" => attempt > MaxRetries
          /\ Logged(outcome)
    /\ Answer(502, Absent)
    /\ UNCHANGED <<request, inputs, sizes, attempt, replies>>

\* An HTTP error, a body that is not JSON, JSON that is not an object.  The
\* proxy answers 502 to all of them, the KServe handler by their exception.
ModelErrs ==
    /\ pc = "post"
    /\ \E outcome \in {"status", "text", "array"} :
          /\ Logged(outcome)
          /\ Answer(IF request.endpoint = "openai" THEN 502
                    ELSE StatusOf(IF outcome = "text" THEN Bad ELSE Crash), Absent)
    /\ UNCHANGED <<request, inputs, sizes, attempt, replies>>

ParseReply(reply) ==
    CASE request.model = "layout"             -> ParseLayout(reply)
      [] request.model = "ocr"                -> ParseOcr(reply)
      [] request.model = "picture_classifier" -> ParseClass(reply)
      [] request.model = "table"              -> ParseTable(reply)

\* The answer for one image is parsed; the next image starts counting anew.
ModelReplies ==
    /\ pc = "post"
    /\ request.endpoint = "kserve"
    /\ \E reply \in Replies[request.model] :
          LET parsed == ParseReply(reply)
          IN  IF parsed = Bad
              THEN /\ Answer(StatusOf(Bad), Absent)
                   /\ UNCHANGED <<replies, attempt>>
              ELSE /\ replies' = Append(replies, parsed)
                   /\ attempt' = 1
                   /\ pc' = IF Current = Len(sizes) THEN "encode" ELSE "post"
                   /\ UNCHANGED answer
    /\ Logged("reply")
    /\ UNCHANGED <<request, inputs, sizes>>

\* The proxy hands the answer back unread.
ModelRepliesOpenAI ==
    /\ pc = "post"
    /\ request.endpoint = "openai"
    /\ Logged("reply")
    /\ Answer(200, Absent)
    /\ UNCHANGED <<request, inputs, sizes, attempt, replies>>

\* The relay makes one POST, whatever becomes of it.
Relay ==
    /\ pc = "relay"
    /\ \E outcome \in {"timeout", "refused", "rejected", "status", "reply"} :
          /\ Logged(outcome)
          /\ Answer(CASE outcome \in {"timeout", "refused", "status"} -> 502
                      [] outcome = "rejected" -> 404
                      [] outcome = "reply"    -> 200, Absent)
    /\ UNCHANGED <<request, inputs, sizes, attempt, replies>>

-----------------------------------------------------------------------------

Outputs ==
    CASE request.model = "layout"             -> EncodeDetections(replies, sizes)
      [] request.model = "ocr"                -> EncodeTexts(replies[1], sizes[1])
      [] request.model = "picture_classifier" -> EncodeLogits(replies[1], ClassifierBatch)
      [] request.model = "table"              -> replies[1]

Encode ==
    /\ pc = "encode"
    /\ IF Outputs = Crash THEN Answer(StatusOf(Crash), Absent) ELSE Answer(200, Outputs)
    /\ UNCHANGED <<request, inputs, sizes, attempt, log, replies>>

Next ==
    \/ UnknownModel
    \/ ReceiveRelay
    \/ ReceiveOpenAI
    \/ Parse
    \/ Decode
    \/ TimeOut
    \/ TransportFails
    \/ ModelErrs
    \/ ModelReplies
    \/ ModelRepliesOpenAI
    \/ Relay
    \/ Encode

Spec == Init /\ [][Next]_vars

-----------------------------------------------------------------------------
(* Properties                                                               *)

\* A request that ends because the model could not be reached is answered 502,
\* as docs/gateway_api_contract.md promises, on every path to a model, and
\* nothing else than a reply gives 200.
UnreachableIs502 ==
    pc = "done" /\ log # <<>> =>
        /\ Last(log).outcome \in {"timeout", "refused"} => answer.status = 502
        /\ answer.status = 200 => Last(log).outcome = "reply"

\* A model is asked about the images in their order, at most MaxRetries times
\* more than once each, and again only after a timeout; an image it has answered
\* for is never sent again, whatever happens to the images after it.
NoReplyIsLost ==
    /\ \A i, j \in DOMAIN log : i < j =>
          /\ log[i].image <= log[j].image
          /\ log[i].image = log[j].image => log[i].outcome = "timeout"
    /\ \A b \in DOMAIN sizes :
          Cardinality({i \in DOMAIN log : log[i].image = b}) <= MaxRetries + 1

\* The values a client put into its tensors are the values the gateway reads,
\* each under its own tensor, however binary and inline inputs alternate, with
\* bytes for characters only where they are not the UTF-8 of a text; and a
\* payload shorter than its header says is refused, not read past its end.
TensorsAsSent ==
    inputs # Absent =>
        /\ request.sent # Absent /\ ~request.short =>
              /\ inputs # Bad /\ DOMAIN inputs = DOMAIN request.sent
              /\ \A i \in DOMAIN inputs : inputs[i].data = AsText(request, i)
        /\ request.short => inputs = Bad

\* What the model saw on a page is found in that page's row of the answer, in
\* order and before the padding, inside the page, and not smaller than the next
\* step of docling can take; the rows fill the shape that is declared.
DetectionsStayWithTheirPage ==
    answer.status = 200 /\ request.endpoint = "kserve" /\ ~request.relay
        /\ request.model = "layout" =>
        LET count == answer.outputs.shape[2]
            data == answer.outputs.data
        IN  /\ answer.outputs.shape[1] = Higher(1, Len(sizes))
            /\ Len(data) = answer.outputs.shape[1] * count
            /\ \A b \in DOMAIN sizes :
                 LET seen(i) == Detection(replies[b][i], sizes[b])
                     kept == {i \in DOMAIN replies[b] : seen(i) # Absent}
                 IN  /\ Cardinality(kept) <= count
                     /\ \A n \in Cardinality(kept) + 1 .. count :
                          data[(b - 1) * count + n] = Padding
                     /\ \A i \in kept :
                          LET found == data[(b - 1) * count + Rank(i, kept)]
                              box == found.box
                              side == IF found.label = LabelIds["table"] THEN 32 ELSE 4
                          IN  /\ found = seen(i)
                              /\ box[3] - box[1] >= side * Unit
                              /\ box[4] - box[2] >= side * Unit
                              /\ Known(sizes[b]) =>
                                   /\ box[1] >= 0 /\ box[3] <= sizes[b][1] * Unit
                                   /\ box[2] >= 0 /\ box[4] <= sizes[b][2] * Unit

\* No text the model wrote is lost, each keeps the box it came with, and those
\* that came without get lines of the page in the order of the texts that do
\* not overlap, as long as the page has a pixel for each.
TextsKeepTheirPlace ==
    answer.status = 200 /\ request.endpoint = "kserve" /\ ~request.relay
        /\ request.model = "ocr" =>
        LET said == replies[1]
            out == answer.outputs
            texts == {i \in DOMAIN said : HasText(said[i])}
            free == {i \in texts : Coerce(said[i].box) = Absent}
            line(i) == out[Rank(i, texts)].box
            height == IF sizes[1][2] > 0 THEN sizes[1][2] ELSE 1000
        IN  /\ Len(out) = Cardinality(texts)
            /\ \A i \in texts :
                 /\ out[Rank(i, texts)].text = said[i].text
                 /\ i \notin free => line(i) = Coerce(said[i].box)
            /\ Cardinality(free) <= height =>
                 \A i \in free :
                   /\ line(i)[4] <= height * Unit
                   /\ \A j \in free : i < j => line(i)[4] <= line(j)[2]

\* The contract of the picture classifier: a request with pixel_values, the input
\* its metadata names, reaches the model.
ClassifierAsksTheModel ==
    pc = "done" /\ request.endpoint = "kserve" /\ ~request.relay
        /\ request.model = "picture_classifier" /\ request.sent # Absent
        /\ ~request.short
        /\ (\E i \in DOMAIN request.sent :
              request.body.inputs[i].name = "pixel_values") =>
        log # <<>>

=============================================================================
