---------------------------- MODULE KServeTensors ----------------------------
(***************************************************************************)
(* From the body of a KServe infer request to the tensors it carries:      *)
(* the binary framing of kserve_binary.py and the decoding of kserve.py.   *)
(*                                                                         *)
(* A body is a JSON header, here the sequence of its inputs, and for the   *)
(* binary framing a payload of bytes after it.  An input is                *)
(*   [name, datatype, shape, size, data]                                   *)
(* with size the declared binary_data_size and data the values inside the  *)
(* JSON.  The value of a number is its little-endian bytes, of whatever    *)
(* datatype; the value of a BYTES element is its sequence of bytes on the  *)
(* wire, and of characters once it has been read.                          *)
(* An operator that can raise ValueError or TypeError returns Bad, one     *)
(* that can raise IndexError returns Crash.                                *)
(***************************************************************************)
EXTENDS Integers, Sequences, FiniteSets, SequencesExt

CONSTANTS
    Utf8,       \* for the UTF-8 sequences of bytes beyond ASCII, their text
    Absent,     \* None, a missing key
    Garbled,    \* a value that is not a number
    Bad,        \* ValueError, TypeError: answered 400
    Crash       \* IndexError, AttributeError, HTTPStatusError: answered 500

-----------------------------------------------------------------------------

Width ==
    [BOOL |-> 1, UINT8 |-> 1, INT8 |-> 1, INT16 |-> 2, INT32 |-> 4,
     INT64 |-> 8, FP32 |-> 4, FP64 |-> 8]

PrefixWidth == 4

Product(shape) == FoldLeft(LAMBDA a, b : a * b, 1, shape)

Limit == 256 * 65536

\* Least byte first; the integers of TLC end at 2^31, so Limit stands for all
\* that are larger.
Number(bytes) ==
    LET byte(i) == IF i <= Len(bytes) THEN bytes[i] ELSE 0
    IN  IF \E i \in 4 .. Len(bytes) : bytes[i] # 0 THEN Limit
        ELSE byte(1) + 256 * byte(2) + 65536 * byte(3)

\* numpy's reshape of count values: one negative size is the one that is left
\* when the others are given.
Sizes(shape) == Product(SelectSeq(shape, LAMBDA d : d >= 0))

Reshapes(shape, count) ==
    IF \A i \in DOMAIN shape : shape[i] >= 0
    THEN Product(shape) = count
    ELSE /\ Cardinality({i \in DOMAIN shape : shape[i] < 0}) = 1
         /\ Sizes(shape) # 0
         /\ count % Sizes(shape) = 0

Reshaped(shape, count) ==
    [i \in DOMAIN shape |->
        IF shape[i] < 0 THEN count \div Sizes(shape) ELSE shape[i]]

\* Numbers one after the other, in the shape that is declared.
DecodeNumbers(chunk, datatype, shape) ==
    LET w == Width[datatype]
        count == Len(chunk) \div w
    IN  IF Len(chunk) % w # 0 \/ (shape # <<>> /\ ~Reshapes(shape, count))
        THEN Bad
        ELSE [e \in 1 .. count |-> Number(SubSeq(chunk, (e - 1) * w + 1, e * w))]

\* One more string, behind its length, unless the chunk ends before it.
NextString(chunk, acc) ==
    LET start == acc.offset + PrefixWidth
        length == Number(SubSeq(chunk, acc.offset + 1, start))
    IN  IF ~acc.ok \/ start > Len(chunk) \/ start + length > Len(chunk)
        THEN [acc EXCEPT !.ok = FALSE]
        ELSE [acc EXCEPT !.offset = start + length,
                !.values = Append(@, SubSeq(chunk, start + 1, start + length))]

\* As many strings as the shape says.  Bytes after the last one are not noticed.
DecodeStrings(chunk, shape) ==
    LET count == IF Product(shape) > 0 THEN Product(shape) ELSE 0
        read[e \in 0 .. count] ==
            IF e = 0 THEN [ok |-> TRUE, offset |-> 0, values |-> <<>>]
            ELSE NextString(chunk, read[e - 1])
    IN  IF shape # <<>> /\ read[count].ok /\ Reshapes(shape, count)
        THEN read[count].values ELSE Bad

\* UTF-8 if it can be, else Latin-1, a character for each byte as in ASCII.
Text(bytes) == IF bytes \in DOMAIN Utf8 THEN Utf8[bytes] ELSE bytes

Characters(strings) == [e \in DOMAIN strings |-> Text(strings[e])]

DecodeChunk(chunk, input) ==
    IF input.datatype = "BYTES"
    THEN LET strings == DecodeStrings(chunk, input.shape)
         IN  IF strings = Bad THEN Bad ELSE Characters(strings)
    ELSE IF input.datatype \in DOMAIN Width
         THEN DecodeNumbers(chunk, input.datatype, input.shape)
         ELSE Bad

\* The client's side: numbers least byte first, strings behind their length,
\* the chunks one after the other.  Numbers here are below Limit.
Bytes(n, width) ==
    [i \in 1 .. width |->
        CASE i = 1 -> n % 256
          [] i = 2 -> (n \div 256) % 256
          [] i = 3 -> n \div 65536
          [] i > 3 -> 0]

EncodeChunk(input, values) ==
    FlattenSeq([e \in DOMAIN values |->
        IF input.datatype = "BYTES"
        THEN Bytes(Len(values[e]), PrefixWidth) \o values[e]
        ELSE Bytes(values[e], Width[input.datatype])])

\* What a client may put into an input: as many values as its shape says, each
\* within its bytes.  What stands in the JSON itself is not looked at.
Number24 == 0 .. Limit - 1
String == Seq(0 .. 255)

Inputs(data) ==
    [name : STRING, datatype : STRING, shape : Seq(Int), size : Nat \cup {Absent},
     data : data]

Fits(n, width) ==
    /\ n \in Number24
    /\ width = 1 => n < 256
    /\ width = 2 => n < 65536

Sendable(input) ==
    /\ input \in Inputs(IF input.datatype = "BYTES" THEN Seq(String) ELSE Seq(Number24))
    /\ input.size # Absent =>
          /\ Product(input.shape) = Len(input.data)
          /\ Reshapes(input.shape, Len(input.data))
          /\ IF input.datatype = "BYTES"
             THEN /\ input.shape # <<>>
                  /\ \A e \in DOMAIN input.data : Len(input.data[e]) < Limit
             ELSE /\ input.datatype \in DOMAIN Width
                  /\ \A e \in DOMAIN input.data : Fits(input.data[e], Width[input.datatype])

\* None of the marks is a value that it may be taken for.
ASSUME MarkAssumption ==
    /\ Absent \notin Nat /\ Garbled \notin Nat
    /\ Bad \notin Seq(Number24) \cup Seq(Seq(Nat))
    /\ Bad \notin Seq(Inputs(Seq(Number24) \cup Seq(Seq(Nat))))

ASSUME Utf8Assumption ==
    \A bytes \in DOMAIN Utf8 :
        /\ bytes \in String /\ Utf8[bytes] \in Seq(Nat)
        /\ \E i \in DOMAIN bytes : bytes[i] >= 128

BuildBinary(inputs) ==
    LET chunk(i) == IF inputs[i].size = Absent THEN <<>>
                    ELSE EncodeChunk(inputs[i], inputs[i].data)
    IN  [framing |-> "binary", headerLength |-> Len(inputs),
         inputs |-> [i \in DOMAIN inputs |->
                       IF inputs[i].size = Absent THEN inputs[i]
                       ELSE [inputs[i] EXCEPT !.size = Len(chunk(i)), !.data = Absent]],
         payload |-> FlattenSeq([i \in DOMAIN inputs |-> chunk(i)])]

SizeOK(size) == size # Garbled /\ size >= 0

\* Broken: the next input starts where this one did.
TakeAgain(payload, acc, input) ==
    IF ~acc.ok THEN acc
    ELSE IF input.size = Absent
    THEN [acc EXCEPT !.inputs = Append(@, input)]
    ELSE IF ~SizeOK(input.size) \/ input.size > Len(payload)
    THEN [acc EXCEPT !.ok = FALSE]
    ELSE LET values == DecodeChunk(SubSeq(payload, 1, input.size), input)
         IN  IF values = Bad THEN [acc EXCEPT !.ok = FALSE]
             ELSE [acc EXCEPT !.inputs = Append(@, [input EXCEPT !.data = values])]

\* One input of the header takes its share of the payload, the inputs before
\* it having taken theirs.  An input without a declared size keeps its own data.
Take(payload, acc, input) ==
    IF ~acc.ok THEN acc
    ELSE IF input.size = Absent
    THEN [acc EXCEPT !.inputs = Append(@, input)]
    ELSE IF ~SizeOK(input.size) \/ acc.offset + input.size > Len(payload)
    THEN [acc EXCEPT !.ok = FALSE]
    ELSE LET end == acc.offset + input.size
             values == DecodeChunk(SubSeq(payload, acc.offset + 1, end), input)
         IN  IF values = Bad THEN [acc EXCEPT !.ok = FALSE]
             ELSE [acc EXCEPT !.offset = end,
                              !.inputs = Append(@, [input EXCEPT !.data = values])]

ParseBinary(inputs, payload) ==
    LET count == Len(inputs)
        read[i \in 0 .. count] ==
            IF i = 0 THEN [ok |-> TRUE, offset |-> 0, inputs |-> <<>>]
            ELSE Take(payload, read[i - 1], inputs[i])
    IN  IF read[count].ok THEN read[count].inputs ELSE Bad

\* The length in the header says where the payload starts: with another one
\* the JSON is cut or runs on, and without it octets cannot be read at all.
ParseRequest(body) ==
    CASE body.framing = "binary" ->
           IF body.headerLength = Len(body.inputs)
           THEN ParseBinary(body.inputs, body.payload)
           ELSE Bad
      [] body.framing = "octets" -> Bad
      [] body.framing = "json"   -> body.inputs

-----------------------------------------------------------------------------
(* Tensors by name: the last input of a name wins, one without data is      *)
(* passed over.                                                             *)

Tensor(input) ==
    LET count == Len(input.data)
        flat == input.datatype = "BYTES" \/ input.shape = <<>>
    IN  IF ~flat /\ ~Reshapes(input.shape, count)
        THEN Bad
        ELSE [datatype |-> input.datatype, data |-> input.data,
              shape |-> IF flat THEN <<count>> ELSE Reshaped(input.shape, count)]

DecodeTensors(inputs) ==
    LET filled == SelectSeq(inputs, LAMBDA input : input.data # Absent)
        names == {filled[i].name : i \in DOMAIN filled}
        last(n) == CHOOSE i \in DOMAIN filled :
                      /\ filled[i].name = n
                      /\ \A j \in DOMAIN filled : filled[j].name = n => j <= i
    IN  IF filled = <<>> \/ \E i \in DOMAIN filled : Tensor(filled[i]) = Bad
        THEN Bad
        ELSE [n \in names |-> Tensor(filled[last(n)])]

Letters == 43 .. 43 \cup 47 .. 57 \cup 65 .. 90 \cup 97 .. 122
Pad == 61

\* base64.b64decode: letters in groups of four, the last one filled up with
\* pads, behind which nothing is read.  Any other character is passed over.
NextLetter(acc, char) ==
    CASE acc.done \/ char \notin Letters \cup {Pad} \/ (char = Pad /\ acc.inGroup < 2) -> acc
      [] ~acc.done /\ char = Pad /\ acc.inGroup >= 2 ->
           [acc EXCEPT !.pads = @ + 1, !.done = acc.inGroup + acc.pads + 1 >= 4]
      [] ~acc.done /\ char \in Letters ->
           [acc EXCEPT !.inGroup = (@ + 1) % 4, !.pads = 0]

Base64(text) ==
    LET read == FoldLeft(NextLetter, [done |-> FALSE, inGroup |-> 0, pads |-> 0], text)
    IN  IF (\A i \in DOMAIN text : text[i] < 128) /\ (read.done \/ read.inGroup = 0)
        THEN "image" ELSE Bad

\* The sizes <<height, width, channels>> of a picture that comes with channels
\* first, after its normalisation is undone unless all of it is within 0 .. 1;
\* that joins it to three channels and fills missing dimensions up.  Floats
\* count by their bits: those below Limit are next to 0, the others above 1.
Denormalized(shape, values) ==
    LET n == Len(shape)
        within == \A e \in DOMAIN values : values[e] <= 1
        full == [i \in 1 .. 4 |-> IF i + n > 4 THEN shape[i + n - 4] ELSE 1]
    IN  IF \/ values = <<>>
           \/ n > 4
           \/ within /\ n < 3
           \/ ~within /\ full[2] \notin {1, 3}
        THEN Bad
        ELSE <<full[3], full[4], IF within THEN full[2] ELSE 3>>

\* An array of three dimensions as a picture: with 1, 3 or 4 rows it is taken
\* for one with channels first, else the last dimension is its colours.
Frame(height, channels) ==
    IF height \in {1, 3, 4} \/ channels \in {2, 3, 4} THEN "image" ELSE Bad

\* One image out of a tensor: a string in base64, or a picture of one of the
\* layouts told apart by the number of dimensions and their sizes.
Image(tensor) ==
    LET s == tensor.shape
        frame == Denormalized(s, tensor.data)
        strings == tensor.datatype = "BYTES"
    IN  CASE strings /\ tensor.data = <<>>  -> Crash
          [] strings /\ tensor.data # <<>>  -> Base64(tensor.data[1])
          [] ~strings /\ tensor.data = <<>> -> Bad
          [] ~strings /\ tensor.data # <<>> /\ Len(s) = 4 ->
               IF s[1] = 1 /\ s[4] \in {1, 3, 4} THEN Frame(s[2], s[4]) ELSE Bad
          [] ~strings /\ tensor.data # <<>> /\ Len(s) = 3 /\ s[1] \in {1, 3, 4} ->
               IF frame = Bad THEN Bad ELSE Frame(frame[1], frame[3])
          [] ~strings /\ tensor.data # <<>> /\ Len(s) = 3 /\ s[1] \notin {1, 3, 4} ->
               Frame(s[1], s[3])
          [] ~strings /\ tensor.data # <<>> /\ Len(s) \notin {3, 4} ->
               IF Len(s) < 3 THEN "image" ELSE Bad

\* The first tensor of the names an image goes by, else any BYTES input.
DecodeImage(inputs) ==
    LET tensors == DecodeTensors(inputs)
        named == SelectSeq(inputs, LAMBDA i : i.data # Absent /\ i.name \in {"image", "input", "images"})
        strings == SelectSeq(inputs, LAMBDA i : i.datatype = "BYTES" /\ i.data \notin {Absent, <<>>})
    IN  CASE tensors = Bad -> Bad
          [] tensors # Bad /\ named # <<>> -> Image(tensors[named[1].name])
          [] tensors # Bad /\ named = <<>> ->
               IF strings = <<>> THEN Bad ELSE Base64(strings[1].data[1])

=============================================================================
