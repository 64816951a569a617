--------------------------- MODULE DownloadWorker ---------------------------
(***************************************************************************)
(* The service worker of web/sw.ts, which turns the data that a page posts *)
(* to it into the body of the response to a download request.  Messages    *)
(* come from the page in order; the request the page starts by navigating  *)
(* to the download's URL comes on its own way, before or after any of      *)
(* them.  The browser may stop the worker, whose streams are only in       *)
(* memory, and starts it again for the next event.                         *)
(***************************************************************************)
EXTENDS Naturals, Sequences, Functions

CONSTANT MaxStops   \* bound: how often the browser stops the worker

VARIABLES
    post,     \* messages the page has posted and the worker has not handled
    nav,      \* ids of downloads whose request is on its way
    streams,  \* the Map of the worker
    body,     \* the ReadableStream of each id: enqueued data and its state
    served,   \* ids whose request was answered with that stream
    stops     \* how often the worker was stopped

workerVars == <<post, nav, streams, body, served, stops>>

(* What streams holds for an id: a Stream, or what waitForMetadata put     *)
(* there for a request that came first.                                    *)
NewStream == [kind |-> "stream", offset |-> 0, requestHandled |-> FALSE, streamHandled |-> FALSE]
Placeholder == [NewStream EXCEPT !.kind = "placeholder"]

Stream == [kind: {"stream", "placeholder"}, offset: Nat,
           requestHandled: BOOLEAN, streamHandled: BOOLEAN]

(* Data is the set of chunks that pages post.                              *)
Body(Data) == [data: Seq(Data), state: {"readable", "closed", "errored"}]
Post(Data) ==
    [type: {"metadata", "end", "error"}, id: Nat]
    \cup [type: {"data"}, id: Nat, data: Data, offset: Nat]

WorkerTypeOK(Data) ==
    /\ post \in Seq(Post(Data)) /\ nav \subseteq Nat
    /\ DOMAIN streams \subseteq Nat /\ streams \in [DOMAIN streams -> Stream]
    /\ DOMAIN body \subseteq Nat /\ body \in [DOMAIN body -> Body(Data)]
    /\ served \subseteq DOMAIN body
    /\ stops \in 0..MaxStops

WorkerInit ==
    /\ post = <<>> /\ nav = {} /\ served = {} /\ stops = 0
    /\ streams = <<>> /\ body = <<>>

Put(f, x, y) == [z \in DOMAIN f \cup {x} |-> IF z = x THEN y ELSE f[z]]
Delete(f, x) == Restrict(f, DOMAIN f \ {x})

(* The entry of id, if the handler can use it as a Stream whose body still *)
(* takes data; any other use throws and changes nothing.                   *)
Usable(id) ==
    id \in DOMAIN streams /\ streams[id].kind = "stream" /\ body[id].state = "readable"

(* case "metadata": a request that waits for it is answered at once.       *)
OnMetadata(m) ==
    LET waits == m.id \in DOMAIN streams
    IN  /\ body' = Put(body, m.id, [data |-> <<>>, state |-> "readable"])
        /\ streams' = Put(streams, m.id, [NewStream EXCEPT !.requestHandled = waits])
        /\ served' = IF waits THEN served \cup {m.id} ELSE served

(* case "data"                                                             *)
OnData(m) ==
    LET ordered == m.id \in DOMAIN streams => /\ streams[m.id].kind = "stream"
                                              /\ streams[m.id].offset = m.offset
    IN  /\ IF Usable(m.id) /\ ordered
           THEN /\ body' = [body EXCEPT ![m.id].data = Append(@, m.data)]
                /\ streams' = [streams EXCEPT ![m.id].offset = @ + 1]
           ELSE /\ streams' = IF ordered THEN streams ELSE Delete(streams, m.id)
                /\ UNCHANGED body
        /\ UNCHANGED served

(* case "end"                                                              *)
OnEnd(m) ==
    /\ IF Usable(m.id)
       THEN /\ body' = [body EXCEPT ![m.id].state = "closed"]
            /\ streams' = IF streams[m.id].requestHandled THEN Delete(streams, m.id)
                          ELSE [streams EXCEPT ![m.id].streamHandled = TRUE]
       ELSE UNCHANGED <<body, streams>>
    /\ UNCHANGED served

(* case "error": the entry stays.                                          *)
OnError(m) ==
    /\ body' = IF Usable(m.id) THEN [body EXCEPT ![m.id].state = "errored"] ELSE body
    /\ UNCHANGED <<streams, served>>

(* The listener for messages of the page.                                  *)
OnMessage ==
    LET m == Head(post)
    IN  /\ post # <<>>
        /\ post' = Tail(post)
        /\ \/ m.type = "metadata" /\ OnMetadata(m)
           \/ m.type = "data" /\ OnData(m)
           \/ m.type = "end" /\ OnEnd(m)
           \/ m.type = "error" /\ OnError(m)
        /\ UNCHANGED <<nav, stops>>

(* The listener for fetch, and streamDownload up to its answer or to its   *)
(* wait for the metadata.                                                  *)
StreamDownloadKeeps(id) ==
    /\ nav' = nav \ {id}
    /\ IF id \in DOMAIN streams
       THEN /\ served' = served \cup {id}
            /\ streams' = [streams EXCEPT ![id].requestHandled = TRUE]
       ELSE streams' = Put(streams, id, Placeholder) /\ UNCHANGED served
    /\ UNCHANGED <<post, body, stops>>
StreamDownload(id) ==
    /\ nav' = nav \ {id}
    /\ IF id \in DOMAIN streams
       THEN /\ served' = served \cup {id}
            /\ streams' = IF streams[id].streamHandled THEN Delete(streams, id)
                          ELSE [streams EXCEPT ![id].requestHandled = TRUE]
       ELSE streams' = Put(streams, id, Placeholder) /\ UNCHANGED served
    /\ UNCHANGED <<post, body, stops>>

(* The browser stops the worker: the Map is gone, and what it had not      *)
(* finished fails.                                                         *)
StopWorker ==
    /\ stops < MaxStops
    /\ stops' = stops + 1
    /\ streams' = <<>>
    /\ body' = [id \in DOMAIN body |-> IF body[id].state = "closed" /\ id \in served THEN body[id]
                                       ELSE [body[id] EXCEPT !.state = "errored"]]
    /\ UNCHANGED <<post, nav, served>>

WorkerNext ==
    \/ OnMessage
    \/ \E id \in nav : StreamDownload(id)
    \/ StopWorker

(* A download that the browser has completed.                              *)
Downloaded(id) == id \in served /\ body[id].state = "closed"
=============================================================================
