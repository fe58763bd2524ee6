---------------------------- MODULE StreamRelay ----------------------------
(***************************************************************************)
(* One streamed completion: the HTTP handler, the goroutine that reads the *)
(* provider's server-sent events, and the unbuffered channel between them. *)
(*                                                                         *)
(*   internal/http/handlers/gateway/chat_completions_handler.go            *)
(*                                             createStream                *)
(*   internal/provider/openai_compatible/stream_adapter.go                 *)
(*                                             read, emitData, Err, Close  *)
(*   internal/gateway/chat_stream_service.go   FinalizeStream (outcome)    *)
(*                                                                         *)
(* The provider sends up to MaxFrames frames and ends with [DONE], an EOF  *)
(* or a broken connection; a frame is what parseStreamUsage makes of it.   *)
(* The stream's context is over when the provider's timeout expires, the   *)
(* client disconnects, the reader returns or the handler closes the        *)
(* stream.  The server has no write timeout: a client that stays connected *)
(* but reads nothing blocks the handler in its write.                      *)
(***************************************************************************)
EXTENDS Naturals

CONSTANT MaxFrames  \* bound on the frames the provider sends

ASSUME MaxFramesAssumption == MaxFrames \in Nat \ {0}

Frames == {"delta", "usage", "done"}
Endings == {"no", "done", "eof", "broken", "cancelled"}
Outcomes == {"none", "metered", "usage_missing", "provider_error"}

VARIABLES
    frames,   \* frames the provider has sent so far
    reader,   \* "reading", "sending" (to the channel), "returning" or "ended"
    event,    \* the event the reader is sending
    ending,   \* why the reader returns, after this event if it has one
    err,      \* openAIStream.err is set
    ctxDone,  \* the stream's context is cancelled or expired
    bodyOpen, \* the provider's response body
    handler,  \* "receiving", "writing", "finalizing" or "returned"
    written,  \* the event the handler is writing
    usage,    \* the handler has seen a usage event
    got,      \* which of the usage event and [DONE] the client was sent
    brokeOff, \* the handler left its loop on a write error
    client,   \* "reading", "stalled" or "gone"
    outcome   \* what FinalizeStream recorded

readerVars == <<frames, reader, event, ending, err>>
handlerVars == <<handler, written, usage, got, brokeOff, outcome>>
rvars == <<readerVars, handlerVars, ctxDone, bodyOpen, client>>

RelayTypeOK ==
    /\ frames \in 0 .. MaxFrames
    /\ reader \in {"reading", "sending", "returning", "ended"}
    /\ event \in Frames /\ written \in Frames
    /\ ending \in Endings
    /\ err \in BOOLEAN /\ ctxDone \in BOOLEAN /\ bodyOpen \in BOOLEAN
    /\ usage \in BOOLEAN /\ brokeOff \in BOOLEAN
    /\ got \subseteq {"usage", "done"}
    /\ handler \in {"receiving", "writing", "finalizing", "returned"}
    /\ client \in {"reading", "stalled", "gone"}
    /\ outcome \in Outcomes
    /\ outcome # "none" => handler = "returned"

RelayInit ==
    /\ frames = 0 /\ reader = "reading" /\ event = "delta" /\ ending = "no" /\ err = FALSE
    /\ handler = "receiving" /\ written = "delta" /\ usage = FALSE /\ got = {}
    /\ brokeOff = FALSE /\ outcome = "none"
    /\ ctxDone = FALSE /\ bodyOpen = TRUE /\ client = "reading"

-----------------------------------------------------------------------------
(* The reader goroutine                                                    *)

\* A whole frame; what the bufio.Reader holds outlives the context.
ReadFrame(f) ==
    /\ reader = "reading" /\ frames < MaxFrames
    /\ frames' = frames + 1
    /\ reader' = "sending" /\ event' = f
    /\ ending' = IF f = "done" THEN "done" ELSE "no"
    /\ UNCHANGED <<err, handlerVars, ctxDone, bodyOpen, client>>

\* Why ReadString may return an error: the end of the response, a broken connection,
\* and only once the context is done or the body closed, that.
CanEnd(why) == why = "cancelled" => ctxDone \/ ~bodyOpen

\* ReadString returns an error with a last, unterminated frame still to emit.
ReadTail(f, why) ==
    /\ reader = "reading" /\ frames < MaxFrames
    /\ CanEnd(why)
    /\ frames' = frames + 1
    /\ reader' = "sending" /\ event' = f /\ ending' = why
    /\ UNCHANGED <<err, handlerVars, ctxDone, bodyOpen, client>>

\* ReadString returns an error and nothing else.
ReadEnd(why) ==
    /\ reader = "reading"
    /\ CanEnd(why)
    /\ reader' = "returning" /\ ending' = why
    /\ UNCHANGED <<frames, event, err, handlerVars, ctxDone, bodyOpen, client>>

Deliver_LastUsageOnly ==
    /\ reader = "sending" /\ handler = "receiving"
    /\ reader' = IF ending = "no" THEN "reading" ELSE "returning"
    /\ handler' = "writing" /\ written' = event
    /\ usage' = (event = "usage")
    /\ UNCHANGED <<frames, event, ending, err, got, brokeOff, outcome, ctxDone, bodyOpen, client>>

\* s.events <- event: there is no select on the context.
Deliver ==
    /\ reader = "sending" /\ handler = "receiving"
    /\ reader' = IF ending = "no" THEN "reading" ELSE "returning"
    /\ handler' = "writing" /\ written' = event
    /\ usage' = (usage \/ event = "usage")
    /\ UNCHANGED <<frames, event, ending, err, got, brokeOff, outcome, ctxDone, bodyOpen, client>>

ReaderReturns_AnyError ==
    /\ reader = "returning" /\ reader' = "ended"
    /\ err' = (ending \in {"broken", "cancelled"})
    /\ ctxDone' = TRUE /\ bodyOpen' = FALSE
    /\ UNCHANGED <<frames, event, ending, handlerVars, client>>

ReaderReturns_ChannelOpen ==
    /\ reader = "returning" /\ ~(ctxDone /\ ~bodyOpen)
    /\ UNCHANGED reader
    /\ err' = (ending = "broken" /\ ~ctxDone)
    /\ ctxDone' = TRUE /\ bodyOpen' = FALSE
    /\ UNCHANGED <<frames, event, ending, handlerVars, client>>

\* s.err, then the deferred body.Close, cancel and close(events).
ReaderReturns ==
    /\ reader = "returning" /\ reader' = "ended"
    /\ err' = (ending = "broken" /\ ~ctxDone)
    /\ ctxDone' = TRUE /\ bodyOpen' = FALSE
    /\ UNCHANGED <<frames, event, ending, handlerVars, client>>

-----------------------------------------------------------------------------
(* The handler                                                             *)

\* The write returns at once while the client, or the kernel's buffer, takes it.
Write ==
    /\ handler = "writing" /\ client # "stalled"
    /\ handler' = "receiving"
    /\ got' = got \cup ({written} \ {"delta"})
    /\ UNCHANGED <<readerVars, written, usage, brokeOff, outcome, ctxDone, bodyOpen, client>>

WriteFails ==
    /\ handler = "writing" /\ client = "gone"
    /\ handler' = "finalizing" /\ brokeOff' = TRUE
    /\ UNCHANGED <<readerVars, written, usage, got, outcome, ctxDone, bodyOpen, client>>

Drained_AtUsage ==
    /\ handler = "receiving" /\ (usage \/ reader = "ended")
    /\ handler' = "finalizing"
    /\ UNCHANGED <<readerVars, written, usage, got, brokeOff, outcome, ctxDone, bodyOpen, client>>

\* The range loop ends when the channel is closed.
Drained ==
    /\ handler = "receiving" /\ reader = "ended"
    /\ handler' = "finalizing"
    /\ UNCHANGED <<readerVars, written, usage, got, brokeOff, outcome, ctxDone, bodyOpen, client>>

\* Err() is read without waiting for the reader.  The deferred Close follows.
Finalize ==
    /\ handler = "finalizing"
    /\ handler' = "returned"
    /\ outcome' = IF err THEN "provider_error" ELSE IF usage THEN "metered" ELSE "usage_missing"
    /\ ctxDone' = TRUE /\ bodyOpen' = FALSE
    /\ UNCHANGED <<readerVars, written, usage, got, brokeOff, client>>

-----------------------------------------------------------------------------
(* The world                                                               *)

\* net/http cancels the request's context when the connection is closed.
ClientLeaves ==
    /\ client # "gone" /\ handler # "returned"
    /\ client' = "gone" /\ ctxDone' = TRUE
    /\ UNCHANGED <<readerVars, handlerVars, bodyOpen>>

ClientStalls ==
    /\ client = "reading" /\ handler # "returned"
    /\ client' = "stalled"
    /\ UNCHANGED <<readerVars, handlerVars, ctxDone, bodyOpen>>

Timeout ==
    /\ ~ctxDone
    /\ ctxDone' = TRUE
    /\ UNCHANGED <<readerVars, handlerVars, bodyOpen, client>>

RelayNext ==
    \/ \E f \in Frames : ReadFrame(f) \/ \E why \in Endings \ {"no", "done"} : ReadTail(f, why)
    \/ \E why \in Endings \ {"no", "done"} : ReadEnd(why)
    \/ Deliver \/ ReaderReturns
    \/ Write \/ WriteFails \/ Drained \/ Finalize
    \/ ClientLeaves \/ ClientStalls \/ Timeout

\* Goroutines run, the provider's timeout expires, and a read returns once its
\* context is done.  A provider need not send, nor a client read or leave.
RelaySpec ==
    /\ RelayInit /\ [][RelayNext]_rvars
    /\ WF_rvars(ReadEnd("cancelled")) /\ WF_rvars(Deliver) /\ WF_rvars(ReaderReturns)
    /\ WF_rvars(Write \/ WriteFails) /\ WF_rvars(Drained) /\ WF_rvars(Finalize)
    /\ WF_rvars(Timeout)

-----------------------------------------------------------------------------
(* Properties                                                              *)

\* A client that was sent the whole completion, usage and [DONE] included, is
\* charged for it, whatever its connection does afterwards.  The one exception:
\* the provider's connection breaks on a [DONE] that lacks its blank line.
CompleteStreamMetered ==
    handler = "returned" /\ got = {"usage", "done"} =>
        outcome = "metered" \/ (outcome = "provider_error" /\ ending = "broken")

\* A provider error is recorded only if the provider's connection broke by
\* itself, never because the client left or the timeout expired: those look like
\* a regular end of the stream.
ErrorMeansBroken == outcome = "provider_error" => ending = "broken"

Stuck == handler = "writing" /\ client = "stalled"

\* Every stream is finalized, so its reservation is settled or released, unless
\* the handler is writing to a client that stays connected without ever reading.
StreamFinalized == <>[](handler = "returned" \/ Stuck)

\* The reader goroutine ends, unless the handler left it blocked in its send when
\* a write to the client failed (it then stays for ever) or is stuck in a write.
ReaderEndsUnlessAbandoned ==
    <>[](reader = "ended" \/ (reader = "sending" /\ (brokeOff \/ Stuck)))
=============================================================================
