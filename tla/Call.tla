-------------------------------- MODULE Call --------------------------------
(***************************************************************************)
(* A client calls a function of a server: both have the function's         *)
(* argumentsMessageRW and resultMessageRW (service.js), a message goes     *)
(* each way, and the last buffer on the way may lose its tail.  Client,    *)
(* server and transport are external: they do what README.md, Messages,    *)
(* asks of them.                                                           *)
(***************************************************************************)
EXTENDS Message

CONSTANTS Functions,    \* [name, oneway, args, result]: types of structs
          Arguments(_), Results(_),   \* bodies for a function
          Exceptions,
          Versions, Ids

VARIABLES function,
          request,      \* the message the client makes
          seen,         \* what the server reads
          answer,       \* the message the server makes
          got,          \* what the client reads
          wire, whole,  \* the buffer on the way, and whether it has its tail
          at            \* "client", "asked", "server", "answered", "done"

vars == <<at, wire, whole, seen, got, request, answer, function>>

ExceptionType == [t |-> "struct", name |-> "Exception"]
ArgumentsRW == [body |-> function.args, exception |-> ExceptionType]
ResultRW == [body |-> function.result, exception |-> ExceptionType]

(* makeMessageConstructor: the type may be given, and has a default.       *)
MakeMessage(type, default, version, id, body) ==
    [version |-> version, type |-> IF type = "" THEN default ELSE type,
     name |-> function.name, id |-> id, body |-> body]
ArgumentsMessage(version, id, body) ==
    MakeMessage("", IF function.oneway THEN "ONEWAY" ELSE "CALL", version, id, body)
ResultMessage(type, version, id, body) ==
    MakeMessage(type, "REPLY", version, id, body)

None == Failed("nothing yet")

Init == /\ function \in Functions
        /\ \E version \in Versions, id \in Ids, body \in Arguments(function) :
              request = ArgumentsMessage(version, id, body)
        /\ seen = None /\ answer = None /\ got = None
        /\ wire = <<>> /\ whole = TRUE /\ at = "client"

(* toBuffer throws, or its buffer goes on its way.                         *)
Deliver(result, next) == IF Ok(result) THEN wire' = result.value /\ at' = next
                                   ELSE wire' = <<>> /\ at' = "done"

Ask == /\ at = "client"
       /\ Deliver(MessageToBuffer(ArgumentsRW, request), "asked")
       /\ UNCHANGED <<function, request, seen, answer, got, whole>>

Lose(n) == /\ at \in {"asked", "answered"} /\ n < Len(wire)
           /\ wire' = SubSeq(wire, 1, n) /\ whole' = FALSE
           /\ UNCHANGED <<function, request, seen, answer, got, at>>

Serve == /\ at = "asked"
         /\ \E r \in {MessageFromBuffer(ArgumentsRW, wire)} :
               /\ seen' = r
               /\ at' = IF Ok(r) THEN "server" ELSE "done"
         /\ wire' = <<>>
         /\ UNCHANGED <<function, request, answer, got, whole>>

(* A server answers with the id of the request, and in its version.        *)
Reply == /\ at = "server" /\ seen.value.type # "ONEWAY"
         /\ \E message \in
               {ResultMessage("", seen.value.version, seen.value.id, body) :
                   body \in Results(function)}
               \cup {ResultMessage("EXCEPTION", seen.value.version, seen.value.id, body) :
                   body \in Exceptions} :
               /\ answer' = [err |-> "none", value |-> message]
               /\ Deliver(MessageToBuffer(ResultRW, message), "answered")
         /\ UNCHANGED <<function, request, seen, got, whole>>

Take == /\ at = "answered"
        /\ got' = MessageFromBuffer(ResultRW, wire)
        /\ wire' = <<>> /\ at' = "done"
        /\ UNCHANGED <<function, request, seen, answer, whole>>

Next == Ask \/ Serve \/ Reply \/ Take \/ \E n \in 0 .. Len(wire) : Lose(n)

Spec == Init /\ [][Next]_vars
-----------------------------------------------------------------------------
(* The envelope is transparent: what is read from a message is the message *)
(* that was made, with the body as the struct alone would be read, and an  *)
(* exception is raised as well.                                            *)
Plain(type, body) ==
    FromBuffer(type, ToBuffer(type, body).value).value
Transparent(rw, message, result) ==
    LET raised == message.type = "EXCEPTION"
        type == IF raised THEN rw.exception ELSE rw.body IN
    /\ result.err = IF raised THEN "exception" ELSE "none"
    /\ result.value = [message EXCEPT !.body = Plain(type, @)]

(* The server sees the request, strict or legacy, whatever its body; it    *)
(* sees nothing of one that lost its tail or has a version it does not     *)
(* know.                                                                   *)
RequestArrives ==
    (seen # None /\ answer = None) =>
        IF whole /\ request.version \in {0, 1} THEN Transparent(ArgumentsRW, request, seen)
                                               ELSE ~Ok(seen)

(* The client has the answer, with the id of its request: a result is      *)
(* never raised, an exception always, and an answer that lost its tail is  *)
(* neither.                                                                *)
AnswerArrives ==
    got # None =>
        IF whole THEN /\ Transparent(ResultRW, answer.value, got)
                      /\ got.value.id = request.id
                 ELSE got.err \notin {"none", "exception"}

(* Every reader of message.js returns the offset behind what it has read,  *)
(* so that what follows can be read.  An exception has twice the offset    *)
(* behind its header added.                                                *)
OffsetIsBehind ==
    (at = "answered" /\ whole) => ReadMessage(ResultRW, wire, 0).offset = Len(wire)
=============================================================================
