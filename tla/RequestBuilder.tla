---------------------------- MODULE RequestBuilder ----------------------------
(***************************************************************************)
(* restincurl::RequestBuilder, the Request it makes and that request's     *)
(* transfers (client/src/include/restincurl/restincurl.h): an application  *)
(* sets a request up by any sequence of calls that the assertions of the   *)
(* builder allow, executes it synchronously, as often as it likes, or once *)
(* asynchronously, and libcurl calls the data handlers back.               *)
(*                                                                         *)
(* libcurl is external: of its options, the verb is what the last of       *)
(* CURLOPT_HTTPGET, _POST, _UPLOAD and _NOBODY made it, unless there is a  *)
(* CURLOPT_CUSTOMREQUEST, and a body is asked for if the verb is POST or   *)
(* PUT.  Without a handler of the application or of the builder libcurl    *)
(* reads the body elsewhere, which is left out.                            *)
(***************************************************************************)
EXTENDS Naturals, Sequences, SequencesExt

CONSTANTS
  BodySize,       \* bytes of the body to send
  MaxBuffer,      \* bound: the largest buffer libcurl offers to read_callback
  MaxHeaders,     \* bound: how many headers the application sets
  MaxHandlers,    \* bound: how many data handlers the request gets to own
  MaxChunks,      \* bound: calls of write_callback in a transfer
  MaxRuns         \* bound: how many transfers are made

ASSUME BuilderAssumption ==
  /\ BodySize \in Nat
  /\ {MaxBuffer, MaxHeaders, MaxHandlers, MaxChunks, MaxRuns} \subseteq Nat \ {0}

VARIABLES
  builder,        \* the builder's own fields
  request,        \* the Request it makes
  curl,           \* the options set in the easy handle
  place,          \* who has the Request; "gone" when it is destroyed
  transfer,       \* the transfer that runs
  sent,           \* sendt_bytes_ of the handler that libcurl reads from
  made,           \* how many data handlers the builder made
  given,          \* history: completion given since the last Build that threw
  delivered,      \* history: the bytes libcurl was given in the last transfer, in order
  result          \* history: what the completion was called with last

vars == <<builder, request, curl, place, transfer, sent, made, given, delivered, result>>

Types        == {"GET", "PUT", "POST", "HEAD", "DELETE", "PATCH", "OPTIONS"}
ChunkedTypes == {"PUT", "POST", "PATCH"}

\* A data handler: none, one the application owns, or one the builder made.
Nobody == 0
Yours  == 1
Fresh  == made + 2

\* buffer: default_data_buffer_, as the transfers its pieces came in; from: how
\* much of the body had been sent when the transfer started.
Init ==
  /\ builder = [type |-> "INVALID", haveIn |-> FALSE, haveOut |-> FALSE,
                built |-> FALSE, completion |-> FALSE]
  /\ request = [headers |-> << >>, in |-> Nobody, out |-> Nobody,
                completion |-> FALSE, buffer |-> << >>]
  /\ curl = [headers |-> FALSE, verb |-> "GET", custom |-> "none",
             read |-> Nobody, write |-> Nobody, toBuffer |-> FALSE]
  /\ place = "builder"
  /\ transfer = [running |-> FALSE, run |-> 0, chunks |-> 0, bodyDone |-> FALSE, from |-> 0]
  /\ sent = 0
  /\ made = 0
  /\ given = FALSE
  /\ delivered = << >>
  /\ result = [run |-> 0, body |-> << >>]

-----------------------------------------------------------------------------
(* Setting up: assert(!is_built_) *)

SetUp ==
  /\ ~builder.built
  /\ UNCHANGED <<place, transfer, sent, delivered, result>>

\* Get, Head, Post and the like.
Prepare(t) ==
  /\ SetUp
  /\ builder.type = "INVALID"
  /\ builder' = [builder EXCEPT !.type = t]
  /\ UNCHANGED <<request, curl, made, given>>

Header ==
  /\ SetUp
  /\ Len(request.headers) < MaxHeaders
  /\ request' = [request EXCEPT !.headers = Append(@, "yours")]
  /\ UNCHANGED <<builder, curl, made, given>>

WithCompletion ==
  /\ SetUp
  /\ builder' = [builder EXCEPT !.completion = TRUE]
  /\ given' = TRUE
  /\ UNCHANGED <<request, curl, made>>

\* Mutant: libcurl keeps the handler it was given first.
SendDataOnce ==
  /\ SetUp
  /\ made < MaxHandlers
  /\ request' = [request EXCEPT !.out = Fresh]
  /\ curl' = [curl EXCEPT !.read = IF builder.haveOut THEN @ ELSE Fresh]
  /\ builder' = [builder EXCEPT !.haveOut = TRUE]
  /\ made' = made + 1
  /\ UNCHANGED given

\* SendData(T): a new handler in place of the one the request had, which is
\* destroyed.
SendData ==
  /\ SetUp
  /\ made < MaxHandlers
  /\ request' = [request EXCEPT !.out = Fresh]
  /\ curl' = [curl EXCEPT !.read = Fresh]
  /\ builder' = [builder EXCEPT !.haveOut = TRUE]
  /\ made' = made + 1
  /\ UNCHANGED given

\* SendData(OutDataHandler<T>&)
SendYours ==
  /\ SetUp
  /\ curl' = [curl EXCEPT !.read = Yours]
  /\ builder' = [builder EXCEPT !.haveOut = TRUE]
  /\ UNCHANGED <<request, made, given>>

\* StoreData(T&)
StoreData ==
  /\ SetUp
  /\ made < MaxHandlers
  /\ request' = [request EXCEPT !.in = Fresh]
  /\ curl' = [curl EXCEPT !.write = Fresh, !.toBuffer = FALSE]
  /\ builder' = [builder EXCEPT !.haveIn = TRUE]
  /\ made' = made + 1
  /\ UNCHANGED given

\* StoreData(InDataHandler<T>&), and IgnoreIncomingData, whose callback makes
\* no use of any handler.
StoreYours ==
  /\ SetUp
  /\ curl' = [curl EXCEPT !.write = Yours, !.toBuffer = FALSE]
  /\ builder' = [builder EXCEPT !.haveIn = TRUE]
  /\ UNCHANGED <<request, made, given>>

-----------------------------------------------------------------------------
(* Build *)

\* The default handler for incoming data, unless the application chose one.
WithInput(c) ==
  IF builder.haveIn THEN c ELSE [c EXCEPT !.write = Fresh, !.toBuffer = TRUE]

WithUpload(c) == IF builder.haveOut THEN [c EXCEPT !.verb = "PUT"] ELSE c

\* CURLOPT_HTTPHEADER, if there is a list: libcurl keeps its head.
WithHeaders(c) == [c EXCEPT !.headers = @ \/ request.headers # << >>]

\* SetRequestType.
WithType(c) ==
  IF builder.type \in {"DELETE", "PATCH", "OPTIONS"}
    THEN [c EXCEPT !.custom = builder.type]
    ELSE [c EXCEPT !.verb = builder.type]

Typed == builder.type # "INVALID"

\* Mutant: the request type is set before the upload option.
OptionsTypeFirst(c) == WithUpload(WithType(WithHeaders(WithInput(c))))

Options(c) ==
  LET untyped == WithHeaders(WithUpload(WithInput(c)))
  IN  IF Typed THEN WithType(untyped) ELSE untyped

\* Build sets everything up once.  Without a request type Prepare throws when
\* the rest is done, and the completion, which was moved into its argument, is
\* gone.
Build ==
  IF builder.built
    THEN UNCHANGED <<builder, request, curl, made, given>>
    ELSE /\ curl' = Options(curl)
         /\ builder' = [builder EXCEPT !.haveIn = TRUE, !.built = Typed,
                                       !.completion = FALSE]
         /\ request' = [request EXCEPT
              !.in = IF builder.haveIn THEN @ ELSE Fresh,
              !.headers = IF builder.type \in ChunkedTypes THEN Append(@, "chunked") ELSE @,
              !.completion = IF Typed THEN builder.completion ELSE @]
         /\ made' = IF builder.haveIn THEN made ELSE made + 1
         /\ given' = (given /\ Typed)

-----------------------------------------------------------------------------
(* Executing *)

Starts == [transfer EXCEPT !.running = TRUE, !.run = @ + 1, !.chunks = 0,
                           !.bodyDone = FALSE, !.from = sent]

\* The application has the builder, and no transfer runs.
Free == place = "builder" /\ ~transfer.running /\ transfer.run < MaxRuns

\* Execute and ExecuteSynchronous without a request type: Build throws.
ExecuteThrows ==
  /\ Free
  /\ ~Typed
  /\ Build
  /\ UNCHANGED <<place, transfer, sent, delivered, result>>

ExecuteSynchronous ==
  /\ Free
  /\ Typed
  /\ Build
  /\ transfer' = Starts
  /\ delivered' = << >>
  /\ UNCHANGED <<place, sent, result>>

\* Build, then the Request moves into the queue of the worker.
Execute ==
  /\ Free
  /\ Typed
  /\ Build
  /\ place' = "worker"
  /\ UNCHANGED <<transfer, sent, delivered, result>>

WorkerStarts ==
  /\ place = "worker"
  /\ ~transfer.running
  /\ transfer' = Starts
  /\ delivered' = << >>
  /\ UNCHANGED <<builder, request, curl, place, sent, made, given, result>>

-----------------------------------------------------------------------------
(* The transfer *)

\* How much read_callback copies into a buffer of n bytes.
Grant(n) == IF n < BodySize - sent THEN n ELSE BodySize - sent

\* Mutant: read_callback starts at the beginning each time.
ReadFromStart(n) ==
  /\ transfer.running /\ ~transfer.bodyDone
  /\ curl.verb \in {"PUT", "POST"}
  /\ curl.read # Nobody
  /\ sent' = Grant(n)
  /\ delivered' = delivered \o [i \in 1..Grant(n) |-> i]
  /\ transfer' = [transfer EXCEPT !.bodyDone = (Grant(n) = 0)]
  /\ UNCHANGED <<builder, request, curl, place, made, given, result>>

\* read_callback; 0 bytes tell libcurl that the body ends.
Read(n) ==
  /\ transfer.running /\ ~transfer.bodyDone
  /\ curl.verb \in {"PUT", "POST"}
  /\ curl.read # Nobody
  /\ sent' = sent + Grant(n)
  /\ delivered' = delivered \o [i \in 1..Grant(n) |-> sent + i]
  /\ transfer' = [transfer EXCEPT !.bodyDone = (Grant(n) = 0)]
  /\ UNCHANGED <<builder, request, curl, place, made, given, result>>

\* write_callback of the default handler; those of the application do what the
\* application likes.
Write ==
  /\ transfer.running
  /\ transfer.chunks < MaxChunks
  /\ transfer' = [transfer EXCEPT !.chunks = @ + 1]
  /\ request' = IF curl.toBuffer THEN [request EXCEPT !.buffer = Append(@, transfer.run)]
                                 ELSE request
  /\ UNCHANGED <<builder, curl, place, sent, made, given, delivered, result>>

\* The transfer is done, or has failed at any point: CallCompletion, and the
\* worker destroys the Request.
Finish ==
  /\ transfer.running
  /\ transfer' = [transfer EXCEPT !.running = FALSE]
  /\ IF request.completion
       THEN /\ result' = [run |-> transfer.run, body |-> request.buffer]
            /\ request' = [request EXCEPT !.buffer = << >>]
       ELSE UNCHANGED <<result, request>>
  /\ place' = IF place = "worker" THEN "gone" ELSE place
  /\ UNCHANGED <<builder, curl, sent, made, given, delivered>>

\* The worker ends with the request in its queue or in a transfer, and destroys
\* it without calling its completion.
Discard ==
  /\ place = "worker"
  /\ place' = "gone"
  /\ transfer' = [transfer EXCEPT !.running = FALSE]
  /\ UNCHANGED <<builder, request, curl, sent, made, given, delivered, result>>

-----------------------------------------------------------------------------

\* The application makes no further call.
Rest == ~transfer.running /\ place # "worker" /\ UNCHANGED vars

Next ==
  \/ \E t \in Types : Prepare(t)
  \/ Header
  \/ WithCompletion
  \/ SendData
  \/ SendYours
  \/ StoreData
  \/ StoreYours
  \/ ExecuteThrows
  \/ ExecuteSynchronous
  \/ Execute
  \/ WorkerStarts
  \/ \E n \in 1..MaxBuffer : Read(n)
  \/ Write
  \/ Finish
  \/ Discard
  \/ Rest

Spec == Init /\ [][Next]_vars

-----------------------------------------------------------------------------
(* Properties *)

\* Whatever was set, in whatever order and however often, libcurl never has the
\* address of a data handler that was destroyed.
HandlersAlive ==
  place # "gone" => /\ curl.read \in {Nobody, Yours, request.out}
                    /\ curl.write \in {Nobody, Yours, request.in}

\* What comes of the set-up calls, in whatever order they were made, and of a
\* Build that threw among them.  A request that was built goes out with the verb
\* that was asked for, although UPLOAD, which Build sets first, changes it.  For a
\* chunked one the Transfer-Encoding header joins the list after libcurl was
\* given it, so that libcurl knows of it if the application set a header of its
\* own, and only then.  A transfer has a completion if one was given and no Build
\* threw since, and only then.
RequestAsAsked ==
  /\ builder.built =>
       builder.type = IF curl.custom = "none" THEN curl.verb ELSE curl.custom
  /\ builder.built /\ builder.type \in ChunkedTypes =>
       /\ Contains(request.headers, "chunked")
       /\ curl.headers <=> Contains(request.headers, "yours")
  /\ transfer.running => (request.completion <=> given)

\* A transfer before which no byte of the body was sent, as the first of a
\* request, sends the whole of it, however libcurl chops it up: in order, each
\* byte once, and all of them when libcurl is told that the body ends.  Any
\* other goes on where the transfers before it stopped, so that its body is cut
\* or empty; of those it is not said that they send what they should.  The body
\* a completion gets is that of its own transfer: nothing of an earlier one,
\* failed or not, is left in the default buffer.
FreshBodiesWhole ==
  /\ transfer.from = 0 =>
       /\ \A i \in DOMAIN delivered : delivered[i] = i
       /\ transfer.bodyDone => Len(delivered) = BodySize
  /\ \A i \in DOMAIN result.body : result.body[i] = result.run

=============================================================================
