----------------------------- MODULE TermSession -----------------------------
(***************************************************************************)
(* One terminal page: the GUI thread with its Screen, and the thread of    *)
(* the Screen's Pty that reads the SSH channel (client/term/screen.cpp,    *)
(* client/term/pty.cpp).                                                   *)
(*                                                                         *)
(* A timer of the Pty fires every millisecond in the Pty's thread.  It     *)
(* drains stdout, then stderr, byte by byte, and posts the text to the GUI *)
(* thread.  A resize of the window is an event posted the other way.       *)
(*                                                                         *)
(* The bytes of the remote shell are numbered in the order it writes them; *)
(* a byte is a character, or the first or second half of one.              *)
(* libssh handles arriving packets only inside a call: what the network    *)
(* brought waits in wire until the thread polls the channel.               *)
(***************************************************************************)
EXTENDS Queues

CONSTANTS
    Sizes,       \* window sizes
    MaxSent,     \* bound: bytes the remote shell writes
    MaxResizes,  \* bound: resize events waiting in the Pty's thread
    ShellEnds    \* the remote shell may exit

ASSUME SessionAssumption ==
    /\ Sizes # {}
    /\ MaxSent \in Nat
    /\ MaxResizes \in Nat
    /\ ShellEnds \in BOOLEAN

Stream == {"stdout", "stderr"}

VARIABLES
    gui,          \* the Screen: new, open, closing (in its destructor) or closed
    pc,           \* the Pty's thread: idle, stdout, stderr (reading) or stopped
    sent,         \* bytes written by the remote shell
    half,         \* streams on which half a character was written
    ended,        \* the remote shell has exited
    wire,         \* packets that arrived and libssh has not handled
    buffer,       \* what libssh holds for each stream
    remote_eof,   \* libssh has seen the end of the channel
    output,       \* text gathered by the running call of Pty::read
    texts,        \* receved_data signals queued for the GUI thread
    shown,        \* what the terminal was given
    screen_size,  \* the size of the window
    resizes,      \* size_changed calls queued for the Pty's thread
    size,         \* Pty::size
    remote_size   \* the size the remote side was last told

vars == <<gui, pc, sent, half, ended, wire, buffer, remote_eof, output, texts,
          shown, screen_size, resizes, size, remote_size>>

remoteVars == <<sent, half, ended>>
sizeVars == <<screen_size, resizes, size, remote_size>>

Byte == [stream : Stream, n : 1 .. MaxSent, part : {"all", "first", "second", "replaced"}]

Eof == [stream |-> "eof", n |-> 0, part |-> "all"]

TypeOK ==
    /\ gui \in {"new", "open", "closing", "closed"}
    /\ pc \in {"idle", "stdout", "stderr", "stopped"}
    /\ sent \in 0 .. MaxSent
    /\ half \subseteq Stream
    /\ ended \in BOOLEAN
    /\ wire \in Seq(Byte \cup {Eof})
    /\ buffer \in [Stream -> Seq(Byte)]
    /\ remote_eof \in BOOLEAN
    /\ output \in Seq(Byte)
    /\ texts \in Seq(Seq(Byte))
    /\ shown \in Seq(Byte)
    /\ screen_size \in Sizes
    /\ resizes \in 0 .. MaxResizes
    /\ size \in Sizes
    /\ remote_size \in Sizes
    /\ pc = "idle" => output = <<>>

(* The Screen exists and its thread runs; the channel is open.               *)
Init ==
    /\ gui = "new"
    /\ pc = "idle"
    /\ sent = 0
    /\ half = {}
    /\ ended = FALSE
    /\ wire = <<>>
    /\ buffer = [stream \in Stream |-> <<>>]
    /\ remote_eof = FALSE
    /\ output = <<>>
    /\ texts = <<>>
    /\ shown = <<>>
    /\ screen_size \in Sizes
    /\ resizes = 0
    /\ size = screen_size
    /\ remote_size = screen_size

-------------------------------------------------------------------------------
(* The remote shell.                                                         *)

ShellWrites(stream) ==
    /\ gui # "new"
    /\ ~ended
    /\ sent < MaxSent
    /\ sent' = sent + 1
    /\ \E part \in IF stream \in half THEN {"second"} ELSE {"all", "first"} :
          /\ wire' = Append(wire, [stream |-> stream, n |-> sent + 1, part |-> part])
          /\ half' = IF part = "first" THEN half \cup {stream} ELSE half \ {stream}
    /\ UNCHANGED <<gui, pc, ended, buffer, remote_eof, output, texts, shown>>
    /\ UNCHANGED sizeVars

ShellExits ==
    /\ ShellEnds
    /\ gui # "new"
    /\ ~ended
    /\ ended' = TRUE
    /\ wire' = Append(wire, Eof)
    /\ UNCHANGED <<gui, pc, sent, half, buffer, remote_eof, output, texts, shown>>
    /\ UNCHANGED sizeVars

-------------------------------------------------------------------------------
(* The GUI thread.                                                           *)

(* set_server: the Pty asks for a terminal of the window's size and starts   *)
(* its timer.                                                                *)
set_server ==
    /\ gui = "new"
    /\ gui' = "open"
    /\ size' = screen_size
    /\ remote_size' = screen_size
    /\ UNCHANGED <<pc, wire, buffer, remote_eof, output, texts, shown, screen_size, resizes>>
    /\ UNCHANGED remoteVars

(* The window changes its size; size_changed will run in the Pty's thread.   *)
WindowResized(new_size) ==
    /\ gui = "open"
    /\ new_size # screen_size
    /\ resizes < MaxResizes
    /\ screen_size' = new_size
    /\ resizes' = resizes + 1
    /\ UNCHANGED <<gui, pc, wire, buffer, remote_eof, output, texts, shown, size, remote_size>>
    /\ UNCHANGED remoteVars

(* receved_data reaches Term::add_text.                                      *)
add_text ==
    /\ gui = "open"
    /\ texts # <<>>
    /\ shown' = shown \o Head(texts)
    /\ texts' = Tail(texts)
    /\ UNCHANGED <<gui, pc, wire, buffer, remote_eof, output>>
    /\ UNCHANGED <<remoteVars, sizeVars>>

(* ~Screen: quit, then a loop until the thread has stopped, which handles no *)
(* events.                                                                   *)
CloseScreen ==
    /\ gui = "open"
    /\ gui' = "closing"
    /\ UNCHANGED <<pc, wire, buffer, remote_eof, output, texts, shown>>
    /\ UNCHANGED <<remoteVars, sizeVars>>

(* Terminal and Pty are deleted, with the events queued for them.            *)
ScreenClosed ==
    /\ gui = "closing"
    /\ pc = "stopped"
    /\ gui' = "closed"
    /\ texts' = <<>>
    /\ resizes' = 0
    /\ UNCHANGED <<pc, wire, buffer, remote_eof, output, shown, screen_size, size, remote_size>>
    /\ UNCHANGED remoteVars

-------------------------------------------------------------------------------
(* The Pty's thread.                                                         *)

(* quit takes effect between two events of the thread.                       *)
ThreadStops ==
    /\ gui = "closing"
    /\ pc = "idle"
    /\ pc' = "stopped"
    /\ UNCHANGED <<gui, wire, buffer, remote_eof, output, texts, shown>>
    /\ UNCHANGED <<remoteVars, sizeVars>>

(* ssh_channel_is_eof: the end was seen and nothing is left to read.         *)
IsEof == remote_eof /\ \A stream \in Stream : buffer[stream] = <<>>

(* The timer fires.                                                          *)
check_for_data ==
    /\ gui \in {"open", "closing"}
    /\ pc = "idle"
    /\ ~IsEof
    /\ pc' = "stdout"
    /\ output' = <<>>
    /\ UNCHANGED <<gui, wire, buffer, remote_eof, texts, shown>>
    /\ UNCHANGED <<remoteVars, sizeVars>>

(* ssh_channel_poll handles the waiting packets when it has nothing left for *)
(* the stream it is asked for and has not seen the end.                      *)
Polls(stream) == buffer[stream] = <<>> /\ ~remote_eof

Arrived(stream) == Kept(wire, {i \in DOMAIN wire : wire[i].stream = stream})

BufferAfterPoll(stream) ==
    [s \in Stream |-> IF Polls(stream) THEN buffer[s] \o Arrived(s) ELSE buffer[s]]

EofAfterPoll(stream) ==
    remote_eof \/ (Polls(stream) /\ \E i \in DOMAIN wire : wire[i] = Eof)

Poll(stream) ==
    /\ wire' = IF Polls(stream) THEN <<>> ELSE wire
    /\ remote_eof' = EofAfterPoll(stream)

(* One turn of the loop in Pty::read that gets a byte.                       *)
ReadByte(stream) ==
    /\ pc = stream
    /\ Poll(stream)
    /\ BufferAfterPoll(stream)[stream] # <<>>
    /\ output' = Append(output, Head(BufferAfterPoll(stream)[stream]))
    /\ buffer' = [BufferAfterPoll(stream) EXCEPT ![stream] = Tail(@)]
    /\ UNCHANGED <<gui, pc, texts, shown>>
    /\ UNCHANGED <<remoteVars, sizeVars>>

(* A turn that gets SSH_EOF: the result is not zero, so the loop goes on,    *)
(* appending an empty string.                                                *)
ReadEof(stream) ==
    /\ pc = stream
    /\ Poll(stream)
    /\ BufferAfterPoll(stream)[stream] = <<>>
    /\ EofAfterPoll(stream)
    /\ buffer' = BufferAfterPoll(stream)
    /\ UNCHANGED <<gui, pc, output, texts, shown>>
    /\ UNCHANGED <<remoteVars, sizeVars>>

(* QString::fromStdString: a half whose other half is in another text        *)
(* becomes a replacement character.                                          *)
Decoded(text) ==
    [i \in DOMAIN text |->
        IF \/ text[i].part = "first" /\ i = Len(text)
           \/ text[i].part = "second" /\ i = 1
        THEN [text[i] EXCEPT !.part = "replaced"] ELSE text[i]]

(* Mutants: a text of one byte is not posted; the text is kept for the next  *)
(* read; the streams are read again at once.                                 *)
PostedLong == IF Len(output) <= 1 THEN texts ELSE Append(texts, Decoded(output))
OutputKept == output
AfterStreamReads(stream) == IF stream = "stdout" THEN "stderr" ELSE "stdout"

Posted == IF output = <<>> THEN texts ELSE Append(texts, Decoded(output))
OutputAfter == <<>>
AfterStream(stream) == IF stream = "stdout" THEN "stderr" ELSE "idle"

(* The turn that gets nothing ends the loop: the text is posted, and after   *)
(* stdout comes stderr, whose test for the end of the channel cannot fail.   *)
ReadDone(stream) ==
    /\ pc = stream
    /\ Poll(stream)
    /\ BufferAfterPoll(stream)[stream] = <<>>
    /\ ~EofAfterPoll(stream)
    /\ buffer' = BufferAfterPoll(stream)
    /\ texts' = Posted
    /\ output' = OutputAfter
    /\ pc' = AfterStream(stream)
    /\ UNCHANGED <<gui, shown>>
    /\ UNCHANGED <<remoteVars, sizeVars>>

read(stream) == ReadByte(stream) \/ ReadEof(stream) \/ ReadDone(stream)

(* Mutant of RemoteTold: the new size is stored before it is compared.       *)
RemoteToldLate == remote_size

RemoteTold == IF size = screen_size THEN remote_size ELSE screen_size

(* size_changed asks the Screen for its size now, not when it was queued.    *)
(* The request fails on a channel the shell has left.                        *)
set_size ==
    /\ pc = "idle"
    /\ resizes > 0
    /\ resizes' = resizes - 1
    /\ \/ size' = screen_size /\ remote_size' = RemoteTold
       \/ ended /\ UNCHANGED <<size, remote_size>>
    /\ UNCHANGED <<gui, pc, wire, buffer, remote_eof, output, texts, shown, screen_size>>
    /\ UNCHANGED remoteVars

GuiThread ==
    \/ set_server
    \/ \E new_size \in Sizes : WindowResized(new_size)
    \/ add_text
    \/ CloseScreen
    \/ ScreenClosed

PtyThread ==
    \/ ThreadStops
    \/ check_for_data
    \/ \E stream \in Stream : read(stream)
    \/ set_size

Shell == ShellExits \/ \E stream \in Stream : ShellWrites(stream)

Next == GuiThread \/ PtyThread \/ Shell

Spec == Init /\ [][Next]_vars

(* Both threads run: events and quit of the Pty's thread are taken between   *)
(* two timer events, and the GUI thread handles its queue.  The user and the *)
(* shell do what they like.                                                  *)
Fairness ==
    /\ SF_vars(ThreadStops)
    /\ SF_vars(set_size)
    /\ WF_vars(check_for_data)
    /\ \A stream \in Stream : WF_vars(read(stream))
    /\ WF_vars(add_text)
    /\ WF_vars(ScreenClosed)

FairSpec == Spec /\ Fairness

-------------------------------------------------------------------------------
InOrder(bytes) ==
    \A i, j \in DOMAIN bytes :
        (i < j /\ bytes[i].stream = bytes[j].stream) => bytes[i].n < bytes[j].n

InTransit ==
    shown \o FlattenSeq(texts) \o output \o buffer["stdout"] \o buffer["stderr"]
          \o Kept(wire, {i \in DOMAIN wire : wire[i] # Eof})

(* Every byte of the shell is in exactly one place between the network and   *)
(* the terminal, and the bytes of one stream are in the order they were      *)
(* written: neither the byte-wise reads nor the queued signals lose, repeat  *)
(* or reorder text while the page is open.                                   *)
TextKept ==
    gui # "closed" => /\ Len(InTransit) = sent
                      /\ InOrder(InTransit)

(* ~Screen returns: the comment on it says "Stops the thread."               *)
ScreenCloses == (gui = "closing") ~> (gui = "closed")

(* The following hold while the shell runs.                                  *)

(* ~Screen returns, wherever its quit finds the thread: the reads cannot     *)
(* keep it from its events for ever.                                         *)
PageCloses == []~ended => ScreenCloses

(* What the shell writes while the page stays open is eventually given to    *)
(* the terminal.                                                             *)
AllShown ==
    []~ended => \A k \in 1 .. MaxSent : (sent = k) ~> (Len(shown) >= k \/ gui # "open")

(* The remote side is eventually told the size of a window that keeps its    *)
(* size, however the resize events interleave with the reads.                *)
SizeFollows ==
    []~ended => \A s \in Sizes :
                    <>[](gui = "open" /\ screen_size = s) => <>[](remote_size = s)
===============================================================================
