------------------------ MODULE RequestBuilderProofs -------------------------
(***************************************************************************)
(* Proofs about the request builder, for bodies and buffers of any size    *)
(* and any number of calls and transfers: libcurl has no dangling handler, *)
(* what was asked for survives the set-up, and bodies stay whole that no    *)
(* earlier transfer has begun to send.                                     *)
(*                                                                         *)
(* The last two speak of a request that was built or of its transfers; the *)
(* invariant adds what is true of it before, and between its transfers.    *)
(***************************************************************************)
EXTENDS RequestBuilder, SequenceTheorems, TLAPS

Builders  == [type : Types \cup {"INVALID"}, haveIn : BOOLEAN, haveOut : BOOLEAN,
              built : BOOLEAN, completion : BOOLEAN]
Requests  == [headers : Seq({"yours", "chunked"}), in : Nat, out : Nat,
              completion : BOOLEAN, buffer : Seq(Nat)]
CurlSets  == [headers : BOOLEAN, verb : Types, custom : Types \cup {"none"},
              read : Nat, write : Nat, toBuffer : BOOLEAN]
Transfers == [running : BOOLEAN, run : Nat, chunks : Nat, bodyDone : BOOLEAN,
              from : Nat]

\* The values the variables range over.
BuilderTypeOK ==
  /\ builder \in Builders
  /\ request \in Requests
  /\ curl \in CurlSets
  /\ place \in {"builder", "worker", "gone"}
  /\ transfer \in Transfers
  /\ sent \in 0..BodySize
  /\ made \in Nat
  /\ given \in BOOLEAN
  /\ delivered \in Seq(Nat)
  /\ result \in [run : Nat, body : Seq(Nat)]

\* Until it is built, the request stays with the builder and nothing of it is
\* used; its headers are the application's, and libcurl knows of none if there
\* is none.
UnbuiltUnused ==
  ~builder.built =>
    /\ place = "builder"
    /\ ~transfer.running
    /\ curl.custom = "none"
    /\ request.buffer = << >>
    /\ \A i \in 1..Len(request.headers) : request.headers[i] = "yours"
    /\ curl.headers => request.headers # << >>

\* A builder that was built asked libcurl for its request type and headers.
AskedWhenBuilt ==
  builder.built =>
    /\ builder.type = IF curl.custom = "none" THEN curl.verb ELSE curl.custom
    /\ builder.type \in ChunkedTypes =>
         /\ Contains(request.headers, "chunked")
         /\ curl.headers <=> Contains(request.headers, "yours")

\* A completion that was given and not lost is with the builder, or with the
\* request once that is built, and there is no other.
CompletionKept ==
  /\ ~builder.built => (builder.completion <=> given)
  /\ builder.built => (request.completion <=> given)

\* What a transfer sends is what read_callback counts, from where the transfers
\* before it stopped.
SentInOrder ==
  /\ transfer.from + Len(delivered) = sent
  /\ \A i \in 1..Len(delivered) : delivered[i] = transfer.from + i
  /\ transfer.bodyDone => sent = BodySize

\* For a request with a completion the default buffer has pieces of the last
\* transfer only, and none between transfers.
BufferOfRun ==
  request.completion =>
    /\ \A i \in DOMAIN request.buffer : request.buffer[i] = transfer.run
    /\ (~transfer.running /\ place # "gone") => request.buffer = << >>

\* So has the body that was handed out last.
ResultOfRun == \A i \in DOMAIN result.body : result.body[i] = result.run

BuilderInv ==
  /\ BuilderTypeOK
  /\ UnbuiltUnused
  /\ AskedWhenBuilt
  /\ CompletionKept
  /\ HandlersAlive
  /\ SentInOrder
  /\ BufferOfRun
  /\ ResultOfRun

-----------------------------------------------------------------------------
(* Setting up *)

\* A new builder is in its invariant.
LEMMA BuilderInit == Init => BuilderInv
<1> SUFFICES ASSUME Init
             PROVE  BuilderInv
  OBVIOUS
<1>1. BuilderTypeOK
  <2>1. builder \in Builders /\ curl \in CurlSets /\ transfer \in Transfers
    BY DEF Init, Builders, CurlSets, Transfers, Types, Nobody
  <2>2. request \in Requests /\ delivered \in Seq(Nat) /\ result \in [run : Nat, body : Seq(Nat)]
    BY EmptySeq DEF Init, Requests, Nobody
  <2>3. 0 \in 0..BodySize
    BY BuilderAssumption
  <2>4. QED
    BY <2>1, <2>2, <2>3 DEF Init, BuilderTypeOK
<1>2. UnbuiltUnused /\ AskedWhenBuilt /\ CompletionKept /\ HandlersAlive
  BY DEF Init, UnbuiltUnused, AskedWhenBuilt, CompletionKept, HandlersAlive
<1>3. SentInOrder /\ BufferOfRun /\ ResultOfRun
  BY DEF Init, SentInOrder, BufferOfRun, ResultOfRun
<1>4. QED
  BY <1>1, <1>2, <1>3 DEF BuilderInv

\* The calls that set something up.
SetsUp ==
  \/ \E t \in Types : Prepare(t)
  \/ Header
  \/ WithCompletion
  \/ SendData
  \/ SendYours
  \/ StoreData
  \/ StoreYours

\* They leave the values in their types.
LEMMA SetsUpTypes ==
  ASSUME BuilderTypeOK, SetsUp
  PROVE  BuilderTypeOK'
<1> USE DEF BuilderTypeOK, SetUp
<1>1. Fresh \in Nat /\ Yours \in Nat /\ made + 1 \in Nat
  BY DEF Fresh, Yours
<1>2. CASE \E t \in Types : Prepare(t)
  BY <1>2 DEF Prepare, Builders
<1>3. CASE Header
  <2>1. Append(request.headers, "yours") \in Seq({"yours", "chunked"})
    BY AppendProperties DEF Requests
  <2>2. request' \in Requests
    BY <1>3, <2>1 DEF Header, Requests
  <2>3. QED
    BY <1>3, <2>2 DEF Header
<1>4. CASE WithCompletion
  BY <1>4 DEF WithCompletion, Builders
<1> HIDE DEF Fresh, Yours
<1>5. ASSUME SendData \/ SendYours \/ StoreData \/ StoreYours
      PROVE  BuilderTypeOK'
  <2>1. builder' \in Builders
    BY <1>5 DEF SendData, SendYours, StoreData, StoreYours, Builders
  <2>2. request' \in Requests
    BY <1>1, <1>5 DEF SendData, SendYours, StoreData, StoreYours, Requests
  <2>3. curl' \in CurlSets
    BY <1>1, <1>5 DEF SendData, SendYours, StoreData, StoreYours, CurlSets
  <2>4. made' \in Nat
    BY <1>1, <1>5 DEF SendData, SendYours, StoreData, StoreYours
  <2>5. UNCHANGED <<place, transfer, sent, given, delivered, result>>
    BY <1>5 DEF SendData, SendYours, StoreData, StoreYours
  <2>6. QED
    BY <2>1, <2>2, <2>3, <2>4, <2>5
<1>6. QED
  BY <1>2, <1>3, <1>4, <1>5 DEF SetsUp

\* They touch nothing that a transfer needs, and a handler that is replaced is
\* replaced at libcurl, too.
LEMMA SetsUpInv ==
  ASSUME BuilderInv, SetsUp
  PROVE  BuilderInv'
<1>1. BuilderTypeOK'
  BY SetsUpTypes DEF BuilderInv
<1>2. /\ ~builder.built /\ builder'.built = builder.built
      /\ request'.completion = request.completion /\ request'.buffer = request.buffer
      /\ curl'.custom = curl.custom
      /\ UNCHANGED <<place, transfer, sent, delivered, result>>
  BY DEF SetsUp, Prepare, Header, WithCompletion, SendData, SendYours, StoreData, StoreYours,
         SetUp, BuilderInv, BuilderTypeOK, Builders, Requests, CurlSets
<1>3. UnbuiltUnused' /\ AskedWhenBuilt'
  <2>1. /\ request'.headers \in {request.headers, Append(request.headers, "yours")}
        /\ curl'.headers = curl.headers
    BY DEF SetsUp, Prepare, Header, WithCompletion, SendData, SendYours, StoreData,
           StoreYours, BuilderInv, BuilderTypeOK, Requests, CurlSets
  <2>2. /\ request.headers \in Seq({"yours", "chunked"})
        /\ \A i \in 1..Len(request.headers) : request.headers[i] = "yours"
        /\ curl.headers => request.headers # << >>
    BY <1>2 DEF BuilderInv, BuilderTypeOK, Requests, UnbuiltUnused
  <2> DEFINE h == Append(request.headers, "yours")
  <2>3. h # << >> /\ \A i \in 1..Len(h) : h[i] = "yours"
    <3>1. Len(request.headers) \in Nat
      BY <2>2, LenProperties
    <3>2. /\ h # << >> /\ Len(h) = Len(request.headers) + 1
          /\ \A i \in 1..Len(request.headers) : h[i] = request.headers[i]
          /\ h[Len(request.headers) + 1] = "yours"
      BY <2>2, AppendProperties
    <3>3. QED
      BY <2>2, <3>1, <3>2
  <2> HIDE DEF h
  <2>4. /\ \A i \in 1..Len(request'.headers) : request'.headers[i] = "yours"
        /\ curl'.headers => request'.headers # << >>
    BY <2>1, <2>2, <2>3 DEF h
  <2>5. QED
    BY <1>2, <2>4 DEF BuilderInv, UnbuiltUnused, AskedWhenBuilt
<1>4. SentInOrder' /\ BufferOfRun' /\ ResultOfRun'
  BY <1>2 DEF BuilderInv, SentInOrder, BufferOfRun, ResultOfRun
<1>5. HandlersAlive'
  <2>1. /\ curl'.read \in {curl.read, Yours, request'.out}
        /\ curl'.read = curl.read => request'.out = request.out \/ curl'.read = request'.out
        /\ curl'.write \in {curl.write, Yours, request'.in}
        /\ curl'.write = curl.write => request'.in = request.in \/ curl'.write = request'.in
    BY DEF SetsUp, Prepare, Header, WithCompletion, SendData, SendYours, StoreData,
           StoreYours, SetUp, BuilderInv, BuilderTypeOK, Requests, CurlSets
  <2>2. QED
    BY <1>2, <2>1 DEF BuilderInv, HandlersAlive
<1>6. CompletionKept'
  BY <1>2 DEF SetsUp, Prepare, Header, WithCompletion, SendData, SendYours, StoreData,
              StoreYours, BuilderInv, BuilderTypeOK, Builders, CompletionKept
<1>7. QED
  BY <1>1, <1>3, <1>4, <1>5, <1>6 DEF BuilderInv

-----------------------------------------------------------------------------
(* Build *)

\* The options that Build sets are options.
LEMMA OptionsTypes ==
  ASSUME BuilderTypeOK
  PROVE  Options(curl) \in CurlSets
<1>1. Fresh \in Nat
  BY DEF BuilderTypeOK, Fresh
<1>2. WithInput(curl) \in CurlSets
  BY <1>1 DEF BuilderTypeOK, WithInput, CurlSets
<1>3. \A c \in CurlSets : WithUpload(c) \in CurlSets
  BY DEF WithUpload, CurlSets, Types
<1>4. \A c \in CurlSets : WithHeaders(c) \in CurlSets
  BY DEF WithHeaders, CurlSets
<1>5. Typed => \A c \in CurlSets : WithType(c) \in CurlSets
  BY DEF BuilderTypeOK, Builders, Typed, WithType, CurlSets
<1>6. QED
  BY <1>2, <1>3, <1>4, <1>5 DEF Options

\* What Build sets, option by option: the request type comes last.
LEMMA OptionsSet ==
  ASSUME BuilderTypeOK, curl.custom = "none"
  PROVE  /\ Options(curl).read = curl.read
         /\ Options(curl).write = IF builder.haveIn THEN curl.write ELSE Fresh
         /\ request.headers # << >> => Options(curl).headers
         /\ Options(curl).headers => curl.headers \/ request.headers # << >>
         /\ ~Typed => Options(curl).custom = "none"
         /\ Typed => builder.type = IF Options(curl).custom = "none"
                                      THEN Options(curl).verb ELSE Options(curl).custom
  BY DEF BuilderTypeOK, CurlSets, Options, WithInput, WithUpload, WithHeaders, WithType,
         Typed, Types

\* The list that Build leaves behind has the Transfer-Encoding header, and the
\* application's if it had them before.
LEMMA ChunkedAppended ==
  ASSUME NEW h \in Seq({"yours", "chunked"})
  PROVE  /\ Append(h, "chunked") \in Seq({"yours", "chunked"})
         /\ Contains(Append(h, "chunked"), "chunked")
         /\ (\A i \in 1..Len(h) : h[i] = "yours") =>
              (Contains(Append(h, "chunked"), "yours") <=> h # << >>)
<1> DEFINE g == Append(h, "chunked")
<1>1. /\ g \in Seq({"yours", "chunked"}) /\ Len(g) = Len(h) + 1
      /\ \A i \in 1..Len(h) : g[i] = h[i]
      /\ g[Len(h) + 1] = "chunked"
      /\ Len(h) \in Nat
  BY AppendProperties, LenProperties
<1> HIDE DEF g
<1>2. Len(h) + 1 \in 1..Len(g)
  BY <1>1
<1>3. Contains(g, "chunked")
  BY <1>1, <1>2 DEF Contains
<1>4. ASSUME Contains(g, "yours")
      PROVE  Contains(h, "yours")
  <2>1. PICK i \in 1..Len(g) : g[i] = "yours"
    BY <1>4 DEF Contains
  <2>2. i # Len(h) + 1
    BY <1>1, <2>1
  <2>3. i \in 1..Len(h)
    BY <1>1, <2>2
  <2>4. QED
    BY <1>1, <2>1, <2>3 DEF Contains
<1>5. Contains(h, "yours") => h # << >>
  BY DEF Contains
<1>6. ASSUME \A i \in 1..Len(h) : h[i] = "yours", h # << >>
      PROVE  Contains(g, "yours")
  <2>1. 1 \in 1..Len(h)
    BY <1>6, EmptySeq, LenProperties
  <2>2. 1 \in 1..Len(g) /\ g[1] = "yours"
    BY <1>1, <1>6, <2>1
  <2>3. QED
    BY <2>2 DEF Contains
<1>7. QED
  BY <1>1, <1>3, <1>4, <1>5, <1>6 DEF g

\* Build leaves the values in their types.
LEMMA BuildTypes ==
  ASSUME BuilderTypeOK, Build
  PROVE  /\ builder' \in Builders /\ request' \in Requests /\ curl' \in CurlSets
         /\ made' \in Nat /\ given' \in BOOLEAN
<1>1. CASE builder.built
  BY <1>1 DEF Build, BuilderTypeOK
<1>2. CASE ~builder.built
  <2>1. curl' \in CurlSets
    BY <1>2, OptionsTypes DEF Build
  <2>2. Typed \in BOOLEAN
    BY DEF Typed
  <2>3. builder' \in Builders
    BY <1>2, <2>2 DEF Build, BuilderTypeOK, Builders
  <2>4. Fresh \in Nat /\ made + 1 \in Nat
    BY DEF BuilderTypeOK, Fresh
  <2>5. Append(request.headers, "chunked") \in Seq({"yours", "chunked"})
    BY ChunkedAppended DEF BuilderTypeOK, Requests
  <2>6. request' = [request EXCEPT
              !.in = IF builder.haveIn THEN @ ELSE Fresh,
              !.headers = IF builder.type \in ChunkedTypes THEN Append(@, "chunked") ELSE @,
              !.completion = IF Typed THEN builder.completion ELSE @]
    BY <1>2 DEF Build
  <2>7. request \in Requests /\ builder.completion \in BOOLEAN
    BY DEF BuilderTypeOK, Builders
  <2>8. request' \in Requests
    BY <2>2, <2>4, <2>5, <2>6, <2>7 DEF Requests
  <2>9. made' \in Nat /\ given' \in BOOLEAN
    BY <1>2, <2>2, <2>4 DEF Build, BuilderTypeOK
  <2>10. QED
    BY <2>1, <2>3, <2>8, <2>9
<1>3. QED
  BY <1>1, <1>2

\* What Build establishes, the first time or again: the options, the headers
\* and the completion are in place, and libcurl knows the handlers the request
\* owns.
LEMMA BuildInv ==
  ASSUME BuilderInv, place = "builder", ~transfer.running, Build
  PROVE  /\ AskedWhenBuilt' /\ CompletionKept'
         /\ curl'.read \in {Nobody, Yours, request'.out}
         /\ curl'.write \in {Nobody, Yours, request'.in}
         /\ builder'.built <=> Typed
         /\ ~Typed =>
              /\ curl'.custom = "none" /\ request.buffer = << >>
              /\ \A i \in 1..Len(request'.headers) : request'.headers[i] = "yours"
              /\ curl'.headers => request'.headers # << >>
         /\ request'.buffer = request.buffer
         /\ request'.completion => request.buffer = << >>
<1>1. CASE builder.built
  <2>1. UNCHANGED <<builder, request, curl, made, given>>
    BY <1>1 DEF Build
  <2>2. Typed
    BY <1>1 DEF BuilderInv, BuilderTypeOK, CurlSets, Types, AskedWhenBuilt, Typed
  <2>3. QED
    BY <1>1, <2>1, <2>2
       DEF BuilderInv, AskedWhenBuilt, CompletionKept, HandlersAlive, BufferOfRun
<1>2. CASE ~builder.built
  <2>1. /\ curl.custom = "none" /\ request.buffer = << >> /\ BuilderTypeOK
        /\ \A i \in 1..Len(request.headers) : request.headers[i] = "yours"
        /\ curl.headers => request.headers # << >>
    BY <1>2 DEF BuilderInv, UnbuiltUnused
  <2>2. /\ curl' = Options(curl)
        /\ builder' = [builder EXCEPT !.haveIn = TRUE, !.built = Typed, !.completion = FALSE]
        /\ request' = [request EXCEPT
              !.in = IF builder.haveIn THEN @ ELSE Fresh,
              !.headers = IF builder.type \in ChunkedTypes THEN Append(@, "chunked") ELSE @,
              !.completion = IF Typed THEN builder.completion ELSE @]
        /\ given' = (given /\ Typed)
    BY <1>2 DEF Build
  <2>3. /\ request \in Requests /\ builder \in Builders
        /\ request.headers \in Seq({"yours", "chunked"})
        /\ builder.completion \in BOOLEAN /\ given \in BOOLEAN
    BY <2>1 DEF BuilderTypeOK, Requests, Builders
  <2>4. /\ builder'.type = builder.type
        /\ builder'.built = Typed /\ builder'.completion = FALSE
    BY <2>2, <2>3 DEF Builders
  <2>5. /\ request'.out = request.out /\ request'.buffer = request.buffer
        /\ request'.in = IF builder.haveIn THEN request.in ELSE Fresh
        /\ request'.headers = IF builder.type \in ChunkedTypes
                                THEN Append(request.headers, "chunked") ELSE request.headers
        /\ request'.completion = IF Typed THEN builder.completion ELSE request.completion
    BY <2>2, <2>3 DEF Requests
  <2>6. AskedWhenBuilt'
    <3>1. SUFFICES ASSUME Typed
                   PROVE  AskedWhenBuilt'
      BY <2>4 DEF AskedWhenBuilt
    <3>2. builder.type = IF curl'.custom = "none" THEN curl'.verb ELSE curl'.custom
      BY <2>1, <2>2, <3>1, OptionsSet
    <3>3. ASSUME builder.type \in ChunkedTypes
          PROVE  /\ Contains(request'.headers, "chunked")
                 /\ curl'.headers <=> Contains(request'.headers, "yours")
      <4>1. request'.headers = Append(request.headers, "chunked")
        BY <2>5, <3>3
      <4>2. /\ Contains(request'.headers, "chunked")
            /\ Contains(request'.headers, "yours") <=> request.headers # << >>
        BY <2>1, <2>3, <4>1, ChunkedAppended
      <4>3. Options(curl).headers <=> request.headers # << >>
        BY <2>1, OptionsSet
      <4>4. QED
        BY <2>2, <4>2, <4>3
    <3>4. QED
      BY <2>4, <3>2, <3>3, Zenon DEF AskedWhenBuilt
  <2>7. CompletionKept'
    BY <1>2, <2>2, <2>4, <2>5, Zenon DEF BuilderInv, CompletionKept
  <2>8. curl'.read \in {Nobody, Yours, request'.out}
    <3>1. curl'.read = curl.read
      BY <2>1, <2>2, OptionsSet
    <3>2. QED
      BY <1>2, <2>5, <3>1 DEF BuilderInv, HandlersAlive
  <2>9. curl'.write \in {Nobody, Yours, request'.in}
    <3>1. curl'.write = IF builder.haveIn THEN curl.write ELSE Fresh
      BY <2>1, <2>2, OptionsSet
    <3>2. curl.write \in {Nobody, Yours, request.in}
      BY DEF BuilderInv, HandlersAlive
    <3>3. QED
      BY <2>5, <3>1, <3>2
  <2>10. ~Typed => /\ curl'.custom = "none"
                   /\ \A i \in 1..Len(request'.headers) : request'.headers[i] = "yours"
                   /\ curl'.headers => request'.headers # << >>
    <3>1. SUFFICES ASSUME ~Typed
                   PROVE  /\ curl'.custom = "none"
                          /\ \A i \in 1..Len(request'.headers) :
                               request'.headers[i] = "yours"
                          /\ curl'.headers => request'.headers # << >>
      OBVIOUS
    <3>2. request'.headers = request.headers
      BY <2>5, <3>1 DEF Typed, ChunkedTypes
    <3>3. curl'.custom = "none" /\ (curl'.headers => request.headers # << >>)
      BY <2>1, <2>2, <3>1, OptionsSet
    <3>4. QED
      BY <2>1, <3>2, <3>3
  <2>11. QED
    BY <2>1, <2>4, <2>5, <2>6, <2>7, <2>8, <2>9, <2>10
<1>3. QED
  BY <1>1, <1>2

-----------------------------------------------------------------------------
(* Executing *)

\* A transfer that starts is a transfer, and starts with the bytes that are left.
LEMMA StartsTypes ==
  ASSUME transfer \in Transfers, sent \in Nat
  PROVE  /\ Starts \in Transfers
         /\ Starts.running /\ ~Starts.bodyDone /\ Starts.from = sent
<1>1. Starts = [transfer EXCEPT !.running = TRUE, !.run = transfer.run + 1, !.chunks = 0,
                                !.bodyDone = FALSE, !.from = sent]
  BY DEF Starts
<1>2. transfer.run + 1 \in Nat
  BY DEF Transfers
<1>3. Starts = [running |-> TRUE, run |-> transfer.run + 1, chunks |-> 0,
                bodyDone |-> FALSE, from |-> sent]
  BY <1>1 DEF Transfers
<1>4. QED
  BY <1>2, <1>3 DEF Transfers

\* Execution, whether Build throws or not.
LEMMA ExecuteInv ==
  ASSUME BuilderInv, ExecuteThrows \/ ExecuteSynchronous \/ Execute
  PROVE  BuilderInv'
<1>1. /\ BuilderTypeOK /\ place = "builder" /\ ~transfer.running /\ Build
      /\ UNCHANGED <<sent, result>>
      /\ \/ ~Typed /\ UNCHANGED <<place, transfer, delivered>>
         \/ Typed /\ transfer' = Starts /\ delivered' = << >> /\ UNCHANGED place
         \/ Typed /\ place' = "worker" /\ UNCHANGED <<transfer, delivered>>
  BY DEF BuilderInv, ExecuteThrows, ExecuteSynchronous, Execute, Free
<1>2. /\ AskedWhenBuilt' /\ CompletionKept'
      /\ curl'.read \in {Nobody, Yours, request'.out}
      /\ curl'.write \in {Nobody, Yours, request'.in}
      /\ builder'.built <=> Typed
      /\ ~Typed =>
           /\ curl'.custom = "none" /\ request.buffer = << >>
           /\ \A i \in 1..Len(request'.headers) : request'.headers[i] = "yours"
           /\ curl'.headers => request'.headers # << >>
      /\ request'.buffer = request.buffer
      /\ request'.completion => request.buffer = << >>
  BY <1>1, BuildInv
<1>3. /\ builder' \in Builders /\ request' \in Requests /\ curl' \in CurlSets
      /\ made' \in Nat /\ given' \in BOOLEAN
  BY <1>1, BuildTypes
<1>4. /\ transfer \in Transfers /\ Starts \in Transfers /\ sent \in Nat
      /\ Starts.running /\ ~Starts.bodyDone /\ Starts.from = sent
  BY <1>1, StartsTypes, BuilderAssumption DEF BuilderTypeOK
<1> HIDE DEF Starts, Typed
<1>5. transfer' \in Transfers /\ place' \in {"builder", "worker", "gone"}
  BY <1>1, <1>4
<1>6. BuilderTypeOK'
  <2>1. delivered' \in Seq(Nat)
    BY <1>1, EmptySeq DEF BuilderTypeOK
  <2>2. QED
    BY <1>1, <1>3, <1>5, <2>1 DEF BuilderTypeOK
<1>7. UnbuiltUnused'
  BY <1>1, <1>2 DEF UnbuiltUnused
<1>8. HandlersAlive'
  BY <1>2 DEF HandlersAlive
<1>9. SentInOrder'
  BY <1>1, <1>4 DEF BuilderInv, SentInOrder
<1>10. BufferOfRun'
  BY <1>2 DEF BufferOfRun
<1>11. ResultOfRun'
  BY <1>1 DEF BuilderInv, ResultOfRun
<1>12. QED
  BY <1>2, <1>6, <1>7, <1>8, <1>9, <1>10, <1>11 DEF BuilderInv

\* The worker starts the transfer of a request it has.
LEMMA WorkerStartsInv ==
  ASSUME BuilderInv, WorkerStarts
  PROVE  BuilderInv'
<1>1. /\ BuilderTypeOK /\ place = "worker" /\ ~transfer.running
      /\ transfer' = Starts /\ delivered' = << >>
      /\ UNCHANGED <<builder, request, curl, place, sent, made, given, result>>
  BY DEF BuilderInv, WorkerStarts
<1>2. /\ Starts \in Transfers /\ sent \in Nat
      /\ Starts.running /\ ~Starts.bodyDone /\ Starts.from = sent
  BY <1>1, StartsTypes, BuilderAssumption DEF BuilderTypeOK
<1> HIDE DEF Starts
<1>3. BuilderTypeOK'
  BY <1>1, <1>2, EmptySeq DEF BuilderTypeOK
<1>4. UnbuiltUnused' /\ AskedWhenBuilt' /\ CompletionKept' /\ HandlersAlive'
  BY <1>1 DEF BuilderInv, UnbuiltUnused, AskedWhenBuilt, CompletionKept, HandlersAlive
<1>5. SentInOrder'
  BY <1>1, <1>2 DEF BuilderInv, SentInOrder
<1>6. BufferOfRun'
  BY <1>1 DEF BuilderInv, BufferOfRun
<1>7. ResultOfRun'
  BY <1>1 DEF BuilderInv, ResultOfRun
<1>8. QED
  BY <1>3, <1>4, <1>5, <1>6, <1>7 DEF BuilderInv

-----------------------------------------------------------------------------
(* The transfer *)

\* read_callback copies what fits and is left, and nothing only at the end.
LEMMA GrantFits ==
  ASSUME sent \in 0..BodySize, NEW n \in 1..MaxBuffer
  PROVE  /\ Grant(n) \in Nat
         /\ sent + Grant(n) \in 0..BodySize
         /\ Grant(n) = 0 => sent = BodySize
  BY BuilderAssumption DEF Grant

\* The next k bytes follow those that were delivered.
LEMMA NextBytes ==
  ASSUME NEW f \in Nat, NEW d \in Seq(Nat), NEW b \in Seq(Nat),
         \A i \in 1..Len(d) : d[i] = f + i,
         \A i \in 1..Len(b) : b[i] = f + Len(d) + i
  PROVE  /\ d \o b \in Seq(Nat) /\ Len(d \o b) = Len(d) + Len(b)
         /\ \A i \in 1..Len(d \o b) : (d \o b)[i] = f + i
<1>1. Len(d) \in Nat /\ Len(b) \in Nat
  BY LenProperties
<1>2. /\ d \o b \in Seq(Nat) /\ Len(d \o b) = Len(d) + Len(b)
      /\ \A i \in 1..Len(d \o b) :
           (d \o b)[i] = IF i <= Len(d) THEN d[i] ELSE b[i - Len(d)]
  BY ConcatProperties
<1>3. ASSUME NEW i \in 1..Len(d \o b)
      PROVE  (d \o b)[i] = f + i
  <2>1. CASE i <= Len(d)
    BY <1>1, <1>2, <2>1
  <2>2. CASE ~(i <= Len(d))
    <3>1. i - Len(d) \in 1..Len(b)
      BY <1>1, <1>2, <2>2
    <3>2. b[i - Len(d)] = f + Len(d) + (i - Len(d))
      BY <3>1
    <3>3. QED
      BY <1>1, <1>2, <2>2, <3>2
  <2>3. QED
    BY <2>1, <2>2
<1>4. QED
  BY <1>2, <1>3

\* A read continues where the last one ended, also in an earlier transfer.
LEMMA ReadInv ==
  ASSUME BuilderInv, NEW n \in 1..MaxBuffer, Read(n)
  PROVE  BuilderInv'
<1>1. /\ transfer.running /\ transfer' = [transfer EXCEPT !.bodyDone = (Grant(n) = 0)]
      /\ sent' = sent + Grant(n)
      /\ delivered' = delivered \o [i \in 1..Grant(n) |-> sent + i]
      /\ UNCHANGED <<builder, request, curl, place, made, given, result>>
  BY DEF Read
<1>2. BuilderTypeOK /\ transfer \in Transfers /\ sent \in 0..BodySize
  BY DEF BuilderInv, BuilderTypeOK
<1>3. /\ Grant(n) \in Nat /\ sent + Grant(n) \in 0..BodySize
      /\ Grant(n) = 0 => sent = BodySize
  BY <1>2, GrantFits
<1>4. /\ transfer.from \in Nat /\ delivered \in Seq(Nat)
      /\ transfer.from + Len(delivered) = sent
      /\ \A i \in 1..Len(delivered) : delivered[i] = transfer.from + i
  BY DEF BuilderInv, BuilderTypeOK, SentInOrder, Transfers
<1> HIDE DEF Grant
<1>5. /\ delivered' \in Seq(Nat) /\ transfer.from + Len(delivered') = sent'
      /\ \A i \in 1..Len(delivered') : delivered'[i] = transfer.from + i
  <2> DEFINE b == [i \in 1..Grant(n) |-> sent + i]
  <2>1. /\ Len(delivered) \in Nat /\ sent \in Nat
        /\ sent = transfer.from + Len(delivered)
    BY <1>4, LenProperties
  <2>2. /\ b \in Seq(Nat) /\ Len(b) = Grant(n)
        /\ \A i \in 1..Len(b) : b[i] = transfer.from + Len(delivered) + i
    BY <1>3, <2>1
  <2>3. delivered' = delivered \o b
    BY <1>1
  <2> HIDE DEF b
  <2>4. /\ delivered \o b \in Seq(Nat)
        /\ Len(delivered \o b) = Len(delivered) + Len(b)
        /\ \A i \in 1..Len(delivered \o b) : (delivered \o b)[i] = transfer.from + i
    BY <1>4, <2>2, NextBytes
  <2>5. transfer.from + (Len(delivered) + Grant(n)) = sent + Grant(n)
    BY <1>3, <1>4, <2>1
  <2>6. QED
    BY <1>1, <2>2, <2>3, <2>4, <2>5
<1>6. (Grant(n) = 0) \in BOOLEAN
  OBVIOUS
<1>7. /\ transfer' \in Transfers /\ transfer'.running /\ transfer'.run = transfer.run
      /\ transfer'.bodyDone = (Grant(n) = 0) /\ transfer'.from = transfer.from
  BY <1>1, <1>2, <1>6 DEF Transfers
<1>8. BuilderTypeOK'
  BY <1>1, <1>2, <1>3, <1>5, <1>7 DEF BuilderTypeOK
<1>9. SentInOrder'
  <2>1. transfer'.bodyDone => sent' = BodySize
    <3>1. transfer'.bodyDone => Grant(n) = 0
      BY <1>7, Zenon
    <3>2. Grant(n) = 0 => sent' = BodySize
      BY <1>1, <1>2, <1>3
    <3>3. QED
      BY <3>1, <3>2, Zenon
  <2>2. QED
    BY <1>5, <1>7, <2>1 DEF SentInOrder
<1>10. UnbuiltUnused'
  BY <1>1 DEF BuilderInv, UnbuiltUnused
<1>11. AskedWhenBuilt' /\ CompletionKept' /\ HandlersAlive' /\ ResultOfRun'
  BY <1>1 DEF BuilderInv, AskedWhenBuilt, CompletionKept, HandlersAlive, ResultOfRun
<1>12. BufferOfRun'
  BY <1>1, <1>7 DEF BuilderInv, BufferOfRun
<1>13. QED
  BY <1>8, <1>9, <1>10, <1>11, <1>12 DEF BuilderInv

\* A write appends to the buffer a piece of the transfer that runs.
LEMMA WriteInv ==
  ASSUME BuilderInv, Write
  PROVE  BuilderInv'
<1>1. /\ transfer.running /\ transfer' = [transfer EXCEPT !.chunks = @ + 1]
      /\ request' = IF curl.toBuffer
                     THEN [request EXCEPT !.buffer = Append(@, transfer.run)] ELSE request
      /\ UNCHANGED <<builder, curl, place, sent, made, given, delivered, result>>
  BY DEF Write
<1>2. /\ BuilderTypeOK /\ transfer \in Transfers /\ request \in Requests
      /\ transfer.run \in Nat /\ request.buffer \in Seq(Nat)
  BY DEF BuilderInv, BuilderTypeOK, Transfers, Requests
<1>3. /\ transfer' \in Transfers /\ transfer'.running /\ transfer'.run = transfer.run
      /\ transfer'.bodyDone = transfer.bodyDone /\ transfer'.from = transfer.from
  BY <1>1, <1>2 DEF Transfers
<1> DEFINE longer == Append(request.buffer, transfer.run)
<1>4. /\ longer \in Seq(Nat) /\ Len(longer) = Len(request.buffer) + 1
      /\ \A i \in 1..Len(request.buffer) : longer[i] = request.buffer[i]
      /\ longer[Len(request.buffer) + 1] = transfer.run
  BY <1>2, AppendProperties
<1>5. /\ request'.buffer \in {request.buffer, longer}
      /\ request' = [request EXCEPT !.buffer = request'.buffer]
  BY <1>1, <1>2 DEF Requests
<1> HIDE DEF longer
<1>6. /\ request' \in Requests
      /\ request'.completion = request.completion /\ request'.headers = request.headers
      /\ request'.in = request.in /\ request'.out = request.out
  <2>1. request'.buffer \in Seq(Nat)
    BY <1>2, <1>4, <1>5
  <2>2. QED
    BY <1>2, <1>5, <2>1 DEF Requests
<1>7. BuilderTypeOK'
  BY <1>1, <1>2, <1>3, <1>6 DEF BuilderTypeOK
<1>8. builder.built
  BY <1>1 DEF BuilderInv, UnbuiltUnused
<1>9. UnbuiltUnused' /\ AskedWhenBuilt' /\ CompletionKept' /\ HandlersAlive' /\ ResultOfRun'
  BY <1>1, <1>6, <1>8
     DEF BuilderInv, UnbuiltUnused, AskedWhenBuilt, CompletionKept, HandlersAlive, ResultOfRun
<1>10. SentInOrder'
  BY <1>1, <1>3 DEF BuilderInv, SentInOrder
<1>11. BufferOfRun'
  <2>1. SUFFICES ASSUME request.completion, NEW i \in DOMAIN request'.buffer
                 PROVE  request'.buffer[i] = transfer.run
    BY <1>3, <1>6 DEF BufferOfRun
  <2>2. DOMAIN request.buffer = 1..Len(request.buffer) /\ Len(request.buffer) \in Nat
    BY <1>2, LenProperties
  <2>3. \A j \in DOMAIN request.buffer : request.buffer[j] = transfer.run
    BY <2>1 DEF BuilderInv, BufferOfRun
  <2>4. CASE request'.buffer = request.buffer
    BY <2>1, <2>3, <2>4
  <2>5. CASE request'.buffer = longer
    <3>1. DOMAIN longer = 1..(Len(request.buffer) + 1)
      BY <1>4, LenProperties
    <3>2. i \in 1..Len(request.buffer) \/ i = Len(request.buffer) + 1
      BY <2>1, <2>2, <2>5, <3>1
    <3>3. QED
      BY <1>4, <2>2, <2>3, <2>5, <3>2
  <2>6. QED
    BY <1>5, <2>4, <2>5
<1>12. QED
  BY <1>7, <1>9, <1>10, <1>11 DEF BuilderInv

\* A transfer that ends hands the buffer to the completion and empties it.
LEMMA FinishInv ==
  ASSUME BuilderInv, Finish
  PROVE  BuilderInv'
<1>1. /\ transfer.running /\ transfer' = [transfer EXCEPT !.running = FALSE]
      /\ place' = IF place = "worker" THEN "gone" ELSE place
      /\ UNCHANGED <<builder, curl, sent, made, given, delivered>>
      /\ \/ /\ request.completion
            /\ result' = [run |-> transfer.run, body |-> request.buffer]
            /\ request' = [request EXCEPT !.buffer = << >>]
         \/ ~request.completion /\ UNCHANGED <<result, request>>
  BY Zenon DEF Finish
<1>2. /\ BuilderTypeOK /\ transfer \in Transfers /\ request \in Requests
      /\ transfer.run \in Nat /\ request.buffer \in Seq(Nat)
      /\ place \in {"builder", "worker", "gone"}
  BY DEF BuilderInv, BuilderTypeOK, Transfers, Requests
<1>3. /\ transfer' \in Transfers /\ ~transfer'.running /\ transfer'.run = transfer.run
      /\ transfer'.bodyDone = transfer.bodyDone /\ transfer'.from = transfer.from
  BY <1>1, <1>2 DEF Transfers
<1>4. /\ request' \in Requests
      /\ request'.completion = request.completion /\ request'.headers = request.headers
      /\ request'.in = request.in /\ request'.out = request.out
      /\ request.completion => request'.buffer = << >>
  BY <1>1, <1>2, EmptySeq DEF Requests
<1>5. result' \in [run : Nat, body : Seq(Nat)]
  BY <1>1, <1>2 DEF BuilderTypeOK
<1>6. place' \in {"builder", "worker", "gone"} /\ (place' # "gone" => place' = place)
  BY <1>1, <1>2
<1>7. BuilderTypeOK'
  BY <1>1, <1>2, <1>3, <1>4, <1>5, <1>6 DEF BuilderTypeOK
<1>8. builder.built
  BY <1>1 DEF BuilderInv, UnbuiltUnused
<1>9. UnbuiltUnused' /\ AskedWhenBuilt' /\ CompletionKept' /\ HandlersAlive'
  BY <1>1, <1>4, <1>6, <1>8
     DEF BuilderInv, UnbuiltUnused, AskedWhenBuilt, CompletionKept, HandlersAlive
<1>10. SentInOrder'
  BY <1>1, <1>3 DEF BuilderInv, SentInOrder
<1>11. BufferOfRun'
  BY <1>4 DEF BufferOfRun
<1>12. ResultOfRun'
  BY <1>1, <1>2 DEF BuilderInv, BufferOfRun, ResultOfRun
<1>13. QED
  BY <1>7, <1>9, <1>10, <1>11, <1>12 DEF BuilderInv

\* A request that is destroyed keeps nothing alive.
LEMMA DiscardInv ==
  ASSUME BuilderInv, Discard
  PROVE  BuilderInv'
<1>1. /\ place = "worker" /\ place' = "gone"
      /\ transfer' = [transfer EXCEPT !.running = FALSE]
      /\ UNCHANGED <<builder, request, curl, sent, made, given, delivered, result>>
  BY DEF Discard
<1>2. BuilderTypeOK /\ transfer \in Transfers
  BY DEF BuilderInv, BuilderTypeOK
<1>3. /\ transfer' \in Transfers /\ transfer'.run = transfer.run
      /\ transfer'.bodyDone = transfer.bodyDone /\ transfer'.from = transfer.from
  BY <1>1, <1>2 DEF Transfers
<1>4. BuilderTypeOK'
  BY <1>1, <1>2, <1>3 DEF BuilderTypeOK
<1>5. UnbuiltUnused' /\ AskedWhenBuilt' /\ CompletionKept' /\ HandlersAlive' /\ ResultOfRun'
  BY <1>1
     DEF BuilderInv, UnbuiltUnused, AskedWhenBuilt, CompletionKept, HandlersAlive, ResultOfRun
<1>6. SentInOrder' /\ BufferOfRun'
  BY <1>1, <1>3 DEF BuilderInv, SentInOrder, BufferOfRun
<1>7. QED
  BY <1>4, <1>5, <1>6 DEF BuilderInv

-----------------------------------------------------------------------------
(* Theorems *)

\* Every step keeps the invariant.
LEMMA BuilderStepInv ==
  ASSUME BuilderInv, [Next]_vars
  PROVE  BuilderInv'
<1>1. CASE SetsUp
  BY <1>1, SetsUpInv
<1>2. CASE ExecuteThrows \/ ExecuteSynchronous \/ Execute
  BY <1>2, ExecuteInv
<1>3. CASE WorkerStarts
  BY <1>3, WorkerStartsInv
<1>4. CASE \E n \in 1..MaxBuffer : Read(n)
  BY <1>4, ReadInv
<1>5. CASE Write
  BY <1>5, WriteInv
<1>6. CASE Finish
  BY <1>6, FinishInv
<1>7. CASE Discard
  BY <1>7, DiscardInv
<1>8. CASE Rest \/ UNCHANGED vars
  <2>1. UNCHANGED vars
    BY <1>8 DEF Rest
  <2>2. QED
    BY <2>1 DEF vars, BuilderInv, BuilderTypeOK, UnbuiltUnused, AskedWhenBuilt,
       CompletionKept, HandlersAlive, SentInOrder, BufferOfRun, ResultOfRun
<1>9. QED
  BY <1>1, <1>2, <1>3, <1>4, <1>5, <1>6, <1>7, <1>8 DEF Next, SetsUp

\* The inductive invariant of a request, its builder and its transfers.
THEOREM BuilderInvariant == Spec => []BuilderInv
BY BuilderInit, BuilderStepInv, PTL DEF Spec

\* Whatever was set up in whatever order, every handler libcurl has the address
\* of is one of the application or one that the request owns.
THEOREM HandlersStayAlive == Spec => []HandlersAlive
<1>1. BuilderInv => HandlersAlive
  BY DEF BuilderInv
<1>2. QED
  BY <1>1, BuilderInvariant, PTL

\* After any set-up calls and Builds that threw, a request that was built has its
\* verb; a chunked one for which the application set a header has the
\* Transfer-Encoding header in libcurl's list; and a transfer has the completion
\* that was given, unless a Build threw since.
THEOREM AskedSurvives == Spec => []RequestAsAsked
<1>1. BuilderInv => RequestAsAsked
  BY DEF BuilderInv, UnbuiltUnused, AskedWhenBuilt, CompletionKept, RequestAsAsked
<1>2. QED
  BY <1>1, BuilderInvariant, PTL

\* A transfer before which no byte of the body was sent sends the whole body, once
\* and in order, and a completion is called with the body of its own transfer.
THEOREM FreshBodiesStayWhole == Spec => []FreshBodiesWhole
<1>1. ASSUME BuilderInv
      PROVE  FreshBodiesWhole
  <2>1. /\ transfer.from + Len(delivered) = sent /\ Len(delivered) \in Nat
        /\ \A i \in 1..Len(delivered) : delivered[i] = transfer.from + i
        /\ transfer.bodyDone => sent = BodySize
    BY <1>1, LenProperties DEF BuilderInv, BuilderTypeOK, SentInOrder
  <2>2. delivered \in Seq(Nat) /\ DOMAIN delivered = 1..Len(delivered)
    BY <1>1, LenProperties DEF BuilderInv, BuilderTypeOK
  <2>3. transfer.from = 0 =>
          /\ \A i \in DOMAIN delivered : delivered[i] = i
          /\ transfer.bodyDone => Len(delivered) = BodySize
    BY <2>1, <2>2
  <2>4. QED
    BY <1>1, <2>3 DEF BuilderInv, ResultOfRun, FreshBodiesWhole
<1>2. QED
  BY <1>1, BuilderInvariant, PTL

=============================================================================
