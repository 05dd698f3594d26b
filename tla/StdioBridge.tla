----------------------------- MODULE StdioBridge ------------------------------
(***************************************************************************)
(* The stdio bridge of an agent (stdio.py, mcp.py serve_stdio): a reader    *)
(* and a writer thread, each with a queue of one place, around the main     *)
(* thread, which assembles frames, handles one at a time and answers it     *)
(* before it looks at the next.  The host writes frames of two pieces, not  *)
(* waiting for the answers, and may stop in the middle; a read returns one  *)
(* or two pieces, so a chunk may end a frame and begin another.  Nothing    *)
(* tells when the host wrote a piece but its being read.                    *)
(*                                                                          *)
(* Deadlines are absolute.  overdue is the set of frames READ_TIMEOUT after *)
(* the arrival of their first piece, so a chunk that continues an overdue   *)
(* frame when it is read is late, and one that was read before is not,      *)
(* however long it then waits in the queue.                                 *)
(***************************************************************************)
EXTENDS Naturals, Sequences

CONSTANTS Frames   \* how many frames the host writes

ASSUME BridgeAssumption == Frames \in Nat

VARIABLES script,    \* what the host's frames are: "call", "local", "note", "large"
          host,      \* how many pieces the host writes; whether it closes then
          read,      \* pieces that the reader thread has read
          reader,    \* the reader thread: "reads", "puts", "done"
          hand,      \* the chunk that it waits to put, if any
          incoming,  \* the queue of chunks
          overdue,   \* frames READ_TIMEOUT after their first piece
          main,      \* the main thread
          taken,     \* frames that read_frame returned
          frame, pending,   \* pieces of the frame at hand, and of what follows it
          fatal,     \* the answer at hand ends the bridge
          outgoing,  \* the queue of answers
          done,      \* of the answer at hand: "no", "sent", "failed"
          writing,   \* the answer that the writer thread writes, if any
          out        \* what came out: answers, and how many pieces of each

inputVars == <<host, read, reader, hand, incoming>>
mainVars == <<main, taken, frame, pending, fatal>>
outputVars == <<outgoing, done, writing, out>>
bridgeVars == <<script, inputVars, overdue, mainVars, outputVars>>

Pieces == 2       \* of a frame or an answer, and MAX_FRAME_BYTES
ChunkPieces == 2  \* CHUNK_BYTES

FrameOf(piece) == (piece + 1) \div Pieces
Waits == {"waits", "calls", "says"}
Exits == {"exit0", "exit2"}
Running == main \notin Exits

BridgeInit ==
    /\ host \in [pieces : 0 .. Pieces * Frames, closes : BOOLEAN]
    /\ read = 0 /\ reader = "reads" /\ hand = <<>> /\ incoming = <<>>
    /\ overdue = {}
    /\ main = "scan" /\ taken = 0 /\ frame = 0 /\ pending = 0 /\ fatal = FALSE
    /\ outgoing = <<>> /\ done = "no" /\ writing = <<>> /\ out = <<>>

-----------------------------------------------------------------------------
(***************************************************************************)
(* The reader thread.                                                       *)
(***************************************************************************)
Late(piece) == piece % Pieces = 0 /\ FrameOf(piece) \in overdue
Chunk(n) == [pieces |-> n, late |-> Late(read + 1)]

Reads(n) ==
    /\ Running /\ reader = "reads"
    /\ n <= host.pieces - read
    /\ n = 0 => host.closes /\ read = host.pieces
    /\ read' = read + n
    /\ hand' = <<Chunk(n)>> /\ reader' = "puts"
    /\ UNCHANGED <<host, incoming, overdue, mainVars, outputVars>>

\* Mutant: the reader leaves without a word.
PutsNoEnd ==
    /\ Running /\ reader = "puts" /\ incoming = <<>>
    /\ IF hand[1].pieces = 0 THEN reader' = "done" /\ UNCHANGED incoming
                             ELSE reader' = "reads" /\ incoming' = hand
    /\ hand' = <<>>
    /\ UNCHANGED <<host, read, overdue, mainVars, outputVars>>

\* The empty chunk of the end is the last.
Puts ==
    /\ Running /\ reader = "puts" /\ incoming = <<>>
    /\ incoming' = hand
    /\ hand' = <<>> /\ reader' = IF hand[1].pieces = 0 THEN "done" ELSE "reads"
    /\ UNCHANGED <<host, read, overdue, mainVars, outputVars>>

\* READ_TIMEOUT after the first piece of a frame that has not been returned.  The
\* main thread is waiting then, and not for the other threads: what they do in
\* between does not take seconds.
Overdue(f) ==
    /\ main \in Waits /\ (main = "waits" => incoming = <<>> /\ hand = <<>>)
    /\ f \notin overdue /\ f > taken /\ Pieces * (f - 1) < read
    /\ overdue' = overdue \cup {f}
    /\ UNCHANGED <<inputVars, mainVars, outputVars>>

-----------------------------------------------------------------------------
(***************************************************************************)
(* The main thread: read_frame, handle, write_frame.                        *)
(***************************************************************************)
Answer(f, result) == [frame |-> f, result |-> result]

\* write_frame puts without waiting for a place.
Say(answer) == main' = "says" /\ done' = "no" /\ outgoing' = Append(outgoing, answer)
Silent == UNCHANGED <<outgoing, done>>

\* FrameFailure: one more answer, and the bridge ends.
Fail(why) == Say(Answer(taken + 1, why)) /\ fatal' = TRUE

\* Of what is pending, the frame takes what is its own, and is whole, too large,
\* or has to wait, unless its deadline has passed.
Scan ==
    LET own == IF pending < Pieces - frame THEN pending ELSE Pieces - frame
    IN  /\ main = "scan"
        /\ pending' = pending - own
        /\ IF frame + own = Pieces
           THEN /\ frame' = 0
                /\ IF script[taken + 1] = "large"
                   THEN Fail("too large") /\ UNCHANGED taken
                   ELSE main' = "handles" /\ taken' = taken + 1 /\ UNCHANGED fatal /\ Silent
           ELSE /\ frame' = frame + own /\ UNCHANGED taken
                /\ IF frame' > 0 /\ taken + 1 \in overdue
                   THEN Fail("incomplete")
                   ELSE main' = "waits" /\ UNCHANGED fatal /\ Silent
        /\ UNCHANGED <<inputVars, overdue, writing, out>>

Get ==
    /\ main = "waits" /\ incoming # <<>>
    /\ incoming' = <<>>
    /\ LET chunk == incoming[1]
       IN  \/ chunk.pieces = 0 /\ frame = 0 /\ main' = "exit0" /\ UNCHANGED <<pending, fatal>> /\ Silent
           \/ frame > 0 /\ (chunk.pieces = 0 \/ chunk.late) /\ Fail("incomplete") /\ UNCHANGED pending
           \/ /\ chunk.pieces > 0 /\ (frame > 0 => ~chunk.late)
              /\ main' = "scan" /\ pending' = chunk.pieces /\ UNCHANGED fatal /\ Silent
    /\ UNCHANGED <<host, read, reader, hand, overdue, taken, frame, writing, out>>

GetTimesOut ==
    /\ main = "waits" /\ incoming = <<>> /\ frame > 0 /\ taken + 1 \in overdue
    /\ Fail("incomplete")
    /\ UNCHANGED <<inputVars, overdue, taken, frame, pending, writing, out>>

\* Only the daemon is waited for; a note is not answered.
Handle ==
    /\ main = "handles"
    /\ \/ script[taken] = "note" /\ main' = "scan" /\ Silent
       \/ script[taken] = "local" /\ Say(Answer(taken, "done"))
       \/ script[taken] = "call" /\ main' = "calls" /\ Silent
    /\ UNCHANGED <<inputVars, overdue, taken, frame, pending, fatal, writing, out>>

\* The call of the daemon came back.
Returns(result) ==
    /\ main = "calls"
    /\ Say(Answer(taken, result))
    /\ UNCHANGED <<inputVars, overdue, taken, frame, pending, fatal, writing, out>>

\* Mutant: after a fatal answer the bridge reads on.
SaidGoesOn ==
    /\ main = "says" /\ done # "no"
    /\ main' = IF done = "failed" THEN "exit2" ELSE "scan"
    /\ UNCHANGED <<inputVars, overdue, taken, frame, pending, fatal, outputVars>>

\* write_frame and serve_stdio: the answer is out, or the output is broken.
Said ==
    /\ main = "says" /\ done # "no"
    /\ main' = IF done = "failed" \/ fatal THEN "exit2" ELSE "scan"
    /\ UNCHANGED <<inputVars, overdue, taken, frame, pending, fatal, outputVars>>

\* WRITE_TIMEOUT
SayTimesOut ==
    /\ main = "says"
    /\ main' = "exit2"
    /\ UNCHANGED <<inputVars, overdue, taken, frame, pending, fatal, outputVars>>

-----------------------------------------------------------------------------
(***************************************************************************)
(* The writer thread, which may still write while the process exits.        *)
(***************************************************************************)
Takes ==
    /\ writing = <<>> /\ outgoing # <<>>
    /\ writing' = <<Head(outgoing)>> /\ outgoing' = Tail(outgoing)
    /\ out' = Append(out, [answer |-> Head(outgoing), pieces |-> 0])
    /\ UNCHANGED <<inputVars, overdue, mainVars, done>>

\* The host takes a piece, in its own time.
Writes ==
    /\ writing # <<>>
    /\ out' = [out EXCEPT ![Len(out)].pieces = @ + 1]
    /\ IF out'[Len(out)].pieces = Pieces THEN writing' = <<>> /\ done' = "sent"
                                        ELSE UNCHANGED <<writing, done>>
    /\ UNCHANGED <<inputVars, overdue, mainVars, outgoing>>

\* The host closed the output.
WriteBreaks ==
    /\ writing # <<>>
    /\ writing' = <<>> /\ done' = "failed"
    /\ UNCHANGED <<inputVars, overdue, mainVars, outgoing, out>>

-----------------------------------------------------------------------------
Threads ==
    \/ (\E n \in 0 .. ChunkPieces : Reads(n)) \/ Puts
    \/ \E f \in 1 .. Frames : Overdue(f)
    \/ Scan \/ Get \/ GetTimesOut \/ Handle \/ Said \/ SayTimesOut
    \/ Takes \/ Writes \/ WriteBreaks
BridgeStep == Threads /\ UNCHANGED script

\* The threads run and deadlines pass; nothing is assumed of the host.
BridgeFairness ==
    /\ WF_bridgeVars((\E n \in 0 .. ChunkPieces : Reads(n)) /\ UNCHANGED script)
    /\ WF_bridgeVars(Puts /\ UNCHANGED script)
    /\ \A f \in 1 .. Frames : WF_bridgeVars(Overdue(f) /\ UNCHANGED script)
    /\ WF_bridgeVars((Scan \/ Get \/ GetTimesOut \/ Handle \/ Said) /\ UNCHANGED script)
    /\ WF_bridgeVars(SayTimesOut /\ UNCHANGED script)

BridgeTypeOK ==
    /\ host \in [pieces : 0 .. Pieces * Frames, closes : BOOLEAN] /\ read \in 0 .. host.pieces
    /\ reader \in {"reads", "puts", "done"}
    /\ {hand, incoming} \subseteq {<<>>} \cup {<<c>> : c \in [pieces : 0 .. ChunkPieces, late : BOOLEAN]}
    /\ overdue \subseteq 1 .. Frames
    /\ main \in {"scan", "handles"} \cup Waits \cup Exits
    /\ taken \in 0 .. Frames /\ frame \in 0 .. Pieces /\ pending \in 0 .. ChunkPieces
    /\ done \in {"no", "sent", "failed"}
    /\ Len(outgoing) <= 1 /\ Len(writing) <= 1

\* What came out is in the order of the frames, without a gap: only notes are
\* passed over, only the last answer may be cut off, and after the answer to a
\* frame that was too large or incomplete there is none.
AnswersInOrder ==
    LET frames == [i \in DOMAIN out |-> out[i].answer.frame]
        before == [i \in DOMAIN out |-> IF i = 1 THEN 0 ELSE frames[i - 1]]
    IN  \A i \in DOMAIN out :
          /\ before[i] < frames[i]
          /\ \A f \in before[i] + 1 .. frames[i] - 1 : script[f] = "note"
          /\ i < Len(out) => out[i].pieces = Pieces /\ out[i].answer.result \in {"done", "answered", "failed"}

\* The end of the input is the end of the bridge, and no frame stays unfinished,
\* whatever the host does with the output.
BridgeEnds == (host.closes ~> ~Running) /\ (frame > 0 ~> (frame = 0 \/ ~Running))

\* docs/architecture/001-process-topology.md:51-54: the deadline, and exit status 2,
\* are for unfinished frames.  A frame that is not too large, that has begun, and
\* whose end was read in time and waits in the queue, is not refused as incomplete.
ReadInTimeIsServed ==
    [][LET begun == frame + pending
           wellFormed == taken < Frames /\ script[taken + 1] # "large"
           endInQueue == /\ incoming # <<>> /\ ~incoming[1].late
                         /\ begun \in 1 .. Pieces - 1
                         /\ begun + incoming[1].pieces >= Pieces
       IN  ~fatal /\ wellFormed /\ endInQueue
             => ~(fatal' /\ outgoing'[1].result = "incomplete")]_bridgeVars

=============================================================================
