------------------------------- MODULE Relay -------------------------------
(***************************************************************************)
(* How an answer gets from the upstream to the client: the copying loop at  *)
(* the end of ChatCompletions (internal/api/dataplane.go), the middleware's *)
(* response writers, and net/http's buffer below them.  A body is a number  *)
(* of chunks.  The handler may be ahead of the client by what the buffer    *)
(* holds, and the upstream ahead of the handler by what it has not read.    *)
(*                                                                         *)
(* External: net/http sends a full buffer, and the rest when the handler    *)
(* returns; it then ends a body of unknown length like a whole one, and     *)
(* closes the connection under a body that is shorter than its              *)
(* Content-Length.  A context cancelled by net/http ends a blocked Read.    *)
(***************************************************************************)
EXTENDS Naturals

CONSTANTS
  Calls,       \* answers that are passed on, each once
  Chunks,      \* chunks of a whole body
  BufferSize   \* external: chunks net/http keeps back

ASSUME RelayAssumption == Chunks \in Nat /\ BufferSize \in Nat

VARIABLE call  \* each answer and its two connections

NoCall == [pc |-> "new", on |-> 0, stream |-> FALSE, sized |-> FALSE, body |-> "open",
           sent |-> 0, read |-> 0, got |-> 0, gone |-> FALSE, end |-> "none"]

Relaying(c) == call[c].pc = "relaying"

\* w.(http.Flusher): responseWriter, around every handler, embeds the
\* http.ResponseWriter interface, which has no Flush.
CanFlush == FALSE

\* The upstream's status and headers are passed on, and the copying begins.  Any body may
\* come without a Content-Length: streams seldom have one, and one that is chunked, or that
\* net/http's transport has unpacked, has none either.
RelayStart(c, i, stream, sized) ==
  /\ call[c].pc = "new"
  /\ call' = [call EXCEPT ![c] =
       [@ EXCEPT !.pc = "relaying", !.on = i, !.stream = stream, !.sized = sized]]

\* The upstream sends, ends the body, or breaks off.
UpstreamSends(c) ==
  /\ Relaying(c) /\ call[c].body = "open" /\ call[c].sent < Chunks
  /\ call' = [call EXCEPT ![c].sent = @ + 1]
UpstreamEnds(c) ==
  /\ Relaying(c) /\ call[c].body = "open" /\ call[c].sent = Chunks
  /\ call' = [call EXCEPT ![c].body = "eof"]
UpstreamBreaksOff(c) ==
  /\ Relaying(c) /\ call[c].body = "open"
  /\ call' = [call EXCEPT ![c].body = "broken"]

\* The client hangs up, or a write fails for it or for the server's WriteTimeout:
\* net/http cancels the context.
ConnectionDies(c) ==
  /\ Relaying(c)
  /\ call' = [call EXCEPT ![c].gone = TRUE]

\* One turn of the stream's loop, Read, Write, and Flush if there is one, or of io.Copy's.
Copy(c) ==
  /\ Relaying(c) /\ ~call[c].gone /\ call[c].read < call[c].sent
  /\ LET read == call[c].read + 1
         got  == IF call[c].stream /\ CanFlush THEN read
                 ELSE IF read - call[c].got > BufferSize THEN call[c].read
                 ELSE call[c].got
     IN  call' = [call EXCEPT ![c] = [@ EXCEPT !.read = read, !.got = got]]

\* How the client sees an answer end when the handler returns after n chunks.
EndOf(c, n) == IF call[c].sized /\ n < Chunks THEN "cut" ELSE "complete"

\* The answer is over for the client; of one that did not end, only that is kept.
Over(c, end) ==
  call' = [call EXCEPT ![c] = IF end = "complete"
    THEN [@ EXCEPT !.pc = "done", !.got = call[c].read, !.end = end]
    ELSE [NoCall EXCEPT !.pc = "done", !.end = end]]

\* Wrong on purpose: the error is looked at before the data that came with it.
FinishOnError(c) ==
  /\ Relaying(c)
  /\ \/ call[c].gone /\ Over(c, "cut")
     \/ ~call[c].gone /\ call[c].body # "open" /\ Over(c, EndOf(c, call[c].read))

\* The handler returns: the context is done, or Read returned EOF or an error, which is
\* dropped.
Finish(c) ==
  /\ Relaying(c)
  /\ \/ call[c].gone /\ Over(c, "cut")
     \/ /\ ~call[c].gone /\ call[c].body # "open" /\ call[c].read = call[c].sent
        /\ Over(c, EndOf(c, call[c].read))

RelayStep(c) == Copy(c) \/ Finish(c)
RelayEnvironment(c) ==
  UpstreamSends(c) \/ UpstreamEnds(c) \/ UpstreamBreaksOff(c) \/ ConnectionDies(c)

-----------------------------------------------------------------------------

RelayTypeOK ==
  \A c \in Calls :
    /\ call[c].pc \in {"new", "relaying", "done"}
    /\ call[c].body \in {"open", "eof", "broken"}
    /\ call[c].got <= call[c].read /\ call[c].read <= call[c].sent /\ call[c].sent <= Chunks
    /\ call[c].end \in {"none", "complete", "cut", "lost"}

(***************************************************************************)
(* A client that sees its answer end has every chunk the upstream sent, the *)
(* last one included that came together with EOF or an error.  It has the   *)
(* whole body, unless that has no Content-Length and the upstream broke     *)
(* off: a stream's loop then returns as if the body had ended               *)
(* (dataplane.go:373-375), and io.Copy's error is dropped (line 380).       *)
(***************************************************************************)
CompleteMeansWhole ==
  \A c \in Calls : call[c].end = "complete" =>
    /\ call[c].got = call[c].sent
    /\ call[c].sent = Chunks \/ (call[c].body = "broken" /\ ~call[c].sized)

(***************************************************************************)
(* FEAT-006-data-plane.md:17 says that the gateway "Preserves SSE stream    *)
(* (`text/event-stream`) without buffering or truncation": while the loop   *)
(* waits for the upstream, the client has everything that came so far.      *)
(***************************************************************************)
NothingIsHeldBack ==
  \A c \in Calls :
    Relaying(c) /\ call[c].stream /\ call[c].body = "open" /\ call[c].read = call[c].sent
      => call[c].got = call[c].read
=============================================================================
