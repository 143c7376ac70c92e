------------------------------ MODULE Framing ------------------------------
(***************************************************************************)
(* One direction of a TCP port: messages framed by a length header, cut    *)
(* into whatever chunks the stream delivers, and put together again.       *)
(*                                                                         *)
(* Sending spawns a task per message. A task locks the write half, writes  *)
(* the header and then the body, and releases the lock; which of the       *)
(* waiting tasks is next is open. Receiving is two systems of a frame: one *)
(* read of at most BufferSize bytes, and the extraction of every message   *)
(* that is whole. A client port keeps its buffer when its stream breaks    *)
(* and the next one begins (KeepsBuffer); a server's buffer belongs to the *)
(* session and goes with it.                                               *)
(*                                                                         *)
(* Both ends have the same settings, as they must; FrameFormat says how    *)
(* they lay a message out.                                                 *)
(***************************************************************************)
EXTENDS Integers, Sequences, FiniteSets, FrameFormat

CONSTANTS Messages,      \* messages the sender may send, each once
          Settings,      \* settings to choose from, each a record of
                         \*   bodyOf: the messages' serialised bytes
                         \*   base: number of values of a byte (256 in the code)
                         \*   headerBytes, order: width and byte order of the length header
                         \*   bufferSize: most bytes one read takes
                         \*   keepsBuffer: the receiver is a client, whose buffer
                         \*                outlives the stream
          MaxStreams     \* bound: streams in a run

ASSUME BoundAssumption == MaxStreams \in Nat
ASSUME SettingsAssumption ==
    \A st \in Settings :
        /\ st.base \in Nat \ {0, 1} /\ st.headerBytes \in Nat \ {0} /\ st.bufferSize \in Nat \ {0}
        /\ st.order \in {"little", "big"} /\ st.keepsBuffer \in BOOLEAN
        /\ st.bodyOf \in [Messages -> Seq(0..(st.base - 1))]
        /\ \A m, n \in Messages : st.bodyOf[m] = st.bodyOf[n] => m = n

VARIABLES
    setting,    \* the setting both ends use
    stage,      \* next system of the receiver's frame: "listen" or "take"
    stream,     \* "open", "reset" (and not yet noticed) or "none"
    streams,    \* streams so far
    sent,       \* messages the sender was asked to send
    outbox,     \* of these, the ones whose task waits for the lock
    writing,    \* bytes the task holding the lock has not written yet
    wire,       \* bytes written and not yet read
    buffer,     \* the receiver's buffer
    received,   \* bodies taken out of it, in order
    damaged     \* history: something since put the buffer out of step

sendVars == <<sent, outbox, writing>>
vars == <<setting, stage, stream, streams, sendVars, wire, buffer, received, damaged>>

-----------------------------------------------------------------------------
BodyOf == setting.bodyOf
BufferSize == setting.bufferSize
KeepsBuffer == setting.keepsBuffer

Fits(m) == Len(BodyOf[m]) <= MaxLength(setting)

-----------------------------------------------------------------------------
Init ==
    /\ setting \in Settings
    /\ stage = "listen"
    /\ stream = "none" /\ streams = 0
    /\ sent = {} /\ outbox = {} /\ writing = <<>>
    /\ wire = <<>> /\ buffer = <<>> /\ received = <<>>
    /\ damaged = FALSE

(* The sender. *)

\* send_message_for_server, send_message_to_peer: without a stream nothing is
\* spawned; on a broken one the task fails.
Send(m) ==
    /\ m \in Messages \ sent
    /\ sent' = sent \cup {m}
    /\ outbox' = IF stream = "open" THEN outbox \cup {m} ELSE outbox
    /\ UNCHANGED <<setting, stage, stream, streams, writing, wire, buffer, received, damaged>>

\* Variant with a bug: the task does not wait for the lock.
TakeLockAlways(m) ==
    /\ m \in outbox
    /\ outbox' = outbox \ {m}
    /\ writing' = Frame(setting, BodyOf[m]) \o writing
    /\ damaged' = (damaged \/ ~Fits(m))
    /\ UNCHANGED <<setting, stage, stream, streams, sent, wire, buffer, received>>

\* A waiting task gets the lock.
TakeLock(m) ==
    /\ m \in outbox /\ writing = <<>>
    /\ outbox' = outbox \ {m}
    /\ writing' = Frame(setting, BodyOf[m])
    /\ damaged' = (damaged \/ ~Fits(m))
    /\ UNCHANGED <<setting, stage, stream, streams, sent, wire, buffer, received>>

\* The stream takes some of the bytes; with the last one the lock is released.
Write ==
    /\ \E n \in 1..Len(writing) :
          /\ wire' = wire \o SubSeq(writing, 1, n)
          /\ writing' = SubSeq(writing, n + 1, Len(writing))
    /\ UNCHANGED <<setting, stage, stream, streams, sent, outbox, buffer, received, damaged>>

(* The stream. *)

Connect ==
    /\ stream = "none" /\ streams < MaxStreams
    /\ stream' = "open" /\ streams' = streams + 1
    /\ UNCHANGED <<setting, stage, sendVars, wire, buffer, received, damaged>>

\* A reset ends the sender's tasks and loses bytes the receiver did not read,
\* perhaps not all of them.
Reset ==
    /\ stream = "open"
    /\ stream' = "reset"
    /\ outbox' = {} /\ writing' = <<>>
    /\ \E n \in 0..Len(wire) : wire' = SubSeq(wire, 1, n)
    /\ UNCHANGED <<setting, stage, streams, sent, buffer, received, damaged>>

(* The receiver. *)

\* listen_to_server, listen_peers: one try_read per frame.
ReadBytes ==
    /\ stream # "none" /\ wire # <<>>
    /\ \E n \in 1..BufferSize :
          /\ n <= Len(wire)
          /\ buffer' = buffer \o SubSeq(wire, 1, n)
          /\ wire' = SubSeq(wire, n + 1, Len(wire))
    /\ UNCHANGED <<stream, damaged>>

\* The read would block.
ReadNothing == stream # "reset" /\ wire = <<>> /\ UNCHANGED <<stream, wire, buffer, damaged>>

\* Variant with a bug: a session's buffer is handed to the next one.
NoticeResetKeeping ==
    /\ stream = "reset" /\ wire = <<>>
    /\ stream' = "none"
    /\ damaged' = (KeepsBuffer /\ (damaged \/ Extract(setting, buffer).rest # <<>>))
    /\ UNCHANGED <<wire, buffer>>

\* The read fails: the same frame's disconnected() drops the stream.
NoticeReset ==
    /\ stream = "reset" /\ wire = <<>>
    /\ stream' = "none"
    /\ buffer' = IF KeepsBuffer THEN buffer ELSE <<>>
    /\ damaged' = (KeepsBuffer /\ (damaged \/ Extract(setting, buffer).rest # <<>>))
    /\ UNCHANGED wire

Listen ==
    /\ stage = "listen" /\ stage' = "take"
    /\ ReadBytes \/ ReadNothing \/ NoticeReset
    /\ UNCHANGED <<setting, streams, sendVars, received>>

\* Variant with a bug: the unfinished message at the end is thrown away.
TakeMessagesClearing ==
    /\ stage = "take" /\ stage' = "listen"
    /\ received' = received \o Extract(setting, buffer).messages
    /\ buffer' = <<>>
    /\ UNCHANGED <<setting, stream, streams, sendVars, wire, damaged>>

\* get_server_messages, get_peers_messages.
TakeMessages ==
    /\ stage = "take" /\ stage' = "listen"
    /\ received' = received \o Extract(setting, buffer).messages
    /\ buffer' = Extract(setting, buffer).rest
    /\ UNCHANGED <<setting, stream, streams, sendVars, wire, damaged>>

Receive == Listen \/ TakeMessages

Next ==
    \/ \E m \in Messages : Send(m) \/ TakeLock(m)
    \/ Write \/ Connect \/ Reset \/ Receive

\* The runtime runs the tasks, the lock is fair, frames follow one another.
Spec ==
    /\ Init /\ [][Next]_vars
    /\ WF_vars(Write) /\ WF_vars(Receive)
    /\ \A m \in Messages : SF_vars(TakeLock(m))

-----------------------------------------------------------------------------
(* Properties. *)

Bodies(ms) == {BodyOf[m] : m \in ms}

\* The type of every variable.
TypeOK ==
    /\ setting \in Settings
    /\ stage \in {"listen", "take"} /\ stream \in {"open", "reset", "none"}
    /\ streams \in 0..MaxStreams
    /\ sent \subseteq Messages /\ outbox \subseteq sent
    /\ {writing, wire, buffer} \subseteq Seq(Byte(setting))
    /\ received \in Seq(Seq(Byte(setting)))
    /\ damaged \in BOOLEAN

\* The receiver never loses step: while every length fitted its header and no
\* stream ended inside a message that stayed in the buffer, the bytes under
\* way are whole messages the sender sent, wherever the chunks were cut.
InStep ==
    ~damaged /\ stream = "open" =>
        LET ahead == Extract(setting, buffer \o wire \o writing) IN
        /\ ahead.rest = <<>>
        /\ \A k \in DOMAIN ahead.messages : ahead.messages[k] \in Bodies(sent)

\* The invariant: types, and the receiver in step.
FramingInv == TypeOK /\ InStep

\* The framed stream implements the channel: the messages on it are the ones
\* the bytes under way will be parsed to. Nothing is dispatched that was not
\* sent, nothing twice, and what is handed to an open stream arrives unless the
\* stream breaks. It promises nothing while the buffer is out of step; with a
\* buffer per stream that lasts for the rest of the stream only.
Channel == INSTANCE MessageChannel WITH
    Messages <- UNION {{st.bodyOf[m] : m \in Messages} : st \in Settings},
    void <- damaged,
    outbox <- Bodies(outbox),
    queue <- Extract(setting, buffer \o wire \o writing).messages
ImplementsChannel == Channel!Spec
=============================================================================
