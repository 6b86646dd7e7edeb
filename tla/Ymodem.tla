------------------------------- MODULE Ymodem -------------------------------
(* The YModem transfer of my_ymodem.c: the receiver that the 4G update runs *)
(* in the LTE thread (receiver_run), against the sender of the same file    *)
(* (sender_run, which the firmware does not compile and the 4G module       *)
(* plays).  The line between them loses and corrupts what it carries.       *)
(*                                                                          *)
(* A frame is two atoms on the line, its head byte and its body (sequence   *)
(* number, data, check), so that a reader that is one byte off sees it.     *)
(* Data is counted in units of 128 bytes / SohSize.  A timeout may expire   *)
(* whenever the reader's own input is empty: both ends wait equally long.   *)
EXTENDS Naturals, Sequences, SequencesExt, FiniteSetsExt

CONSTANTS
  Protocols,       \* the sender's is_ymodem: YModem (TRUE), XModem (FALSE)
  Files,           \* files of the batch (the sender of my_ymodem.c has one)
  FileLen,         \* units of each file
  SohSize,         \* data units of a SOH frame (128 bytes)
  StxSize,         \* data units of a STX frame (1024 bytes)
  SeqCount,          \* sequence numbers of a frame (256)
  HandshakeRetry,  \* get_handshake_retry
  SendRetry,       \* get_send_retry
  MaxFaults        \* atoms the line loses or corrupts, save callbacks that fail

ASSUME YmodemAssumption ==
  /\ Protocols \subseteq BOOLEAN
  /\ {Files, FileLen, SohSize, StxSize, SeqCount, HandshakeRetry, SendRetry} \subseteq Nat \ {0}
  /\ SohSize < StxSize
  /\ SendRetry < SeqCount
  /\ MaxFaults \in Nat

VARIABLES
  toR,     \* atoms on the way to the receiver
  toS,     \* answer bytes on the way to the sender
  snd,     \* sender: position, file and chunk, retries, check type, result
  rcv,     \* receiver: position, retries, ym->state, crc_type, expected_seq...
  saved,   \* what the save callbacks hold of the open file
  apart,   \* history: a sequence number stands for two frames, or was taken for EOT
  faults   \* faults so far, of the line and of the save callbacks

vars == <<toR, toS, snd, rcv, saved, apart, faults>>

-----------------------------------------------------------------------------
(* Frames.  f and k say which frame of which file an atom belongs to: they  *)
(* are a history that neither end reads.                                    *)

HEAD == [t |-> "head"]
CAN  == [t |-> "can"]
EOT(f, k) == [t |-> "eot", f |-> f, k |-> k]
\* What is left of a body whose first byte was taken for a head.
JUNK == [t |-> "junk"]
Body(seq, data, crc, f, k) ==
  [t |-> "body", seq |-> seq, data |-> data, crc |-> crc, ok |-> TRUE, f |-> f, k |-> k]

Unit(f, i) == <<f, i>>
Pad        == <<0, 0>>
File(f)    == [i \in 1..FileLen |-> Unit(f, i)]

\* The read size of sender_run: 1024-byte blocks, 128-byte ones for XModem.
BlockSize == IF snd.ymodem THEN StxSize ELSE SohSize

\* A YModem file that fills its last block is followed by an empty one.
Chunks == IF snd.ymodem THEN FileLen \div StxSize + 1
          ELSE (FileLen + SohSize - 1) \div SohSize

ChunkLen(k) == Min({BlockSize, FileLen - (k - 1) * BlockSize})

\* The data area of chunk k: SOH when it fits, padded with 0x1A.
ChunkData(f, k) ==
  LET size == IF snd.ymodem /\ ChunkLen(k) > SohSize THEN StxSize ELSE SohSize
  IN  [j \in 1..size |-> IF j <= ChunkLen(k) THEN Unit(f, (k - 1) * BlockSize + j) ELSE Pad]

\* The file information frame carries name and size, the end frame is empty.
InfoData(f) == <<Unit(f, 0)>>
EndData     == <<Pad>>

\* What the sender puts on the line at each of its positions.
Transmission(at, f, k, crc) ==
  CASE at \in {"info", "info_request"} -> <<HEAD, Body(0, InfoData(f), crc, f, 0)>>
    [] at = "data"           -> <<HEAD, Body(k % SeqCount, ChunkData(f, k), crc, f, k)>>
    [] at \in {"eot", "eot1", "eot2"} -> <<EOT(f, Chunks + 1)>>
    [] at = "end"            -> <<HEAD, Body(0, EndData, crc, f, Chunks + 2)>>
    [] OTHER                 -> <<>>

-----------------------------------------------------------------------------
(* Sender: sender_run and the functions it calls.  Each position is one of  *)
(* its receive loops; snd.try counts the iterations of the loop.            *)

Wait(c) == toS # <<>> /\ Head(toS) = c /\ toS' = Tail(toS)

\* A timeout, or any answer that is not one of the expected ones.
NoneOf(cs) == \/ toS = <<>> /\ UNCHANGED toS
              \/ toS # <<>> /\ Head(toS) \notin cs /\ toS' = Tail(toS)

\* Enter the loop at a position of file f and chunk k, sending its first copy.
Enter(at, f, k) ==
  /\ snd' = [snd EXCEPT !.at = at, !.file = f, !.chunk = k, !.try = 0]
  /\ toR' = toR \o Transmission(at, f, k, snd'.crc)

Finish(res) ==
  /\ snd' = [snd EXCEPT !.at = "done", !.res = res]
  /\ toR' = toR \o (IF res = "ERR_CAN" THEN <<CAN>> ELSE <<>>)

\* The next iteration of a loop, or the error its exhaustion returns.
Again(at, res) ==
  IF snd.try + 1 < SendRetry
  THEN /\ snd' = [snd EXCEPT !.at = at, !.try = @ + 1]
       /\ toR' = toR \o Transmission(at, snd.file, snd.chunk, snd.crc)
  ELSE Finish(res)

Request == IF snd.crc = 1 THEN "NAK" ELSE "C"

sender_handshake ==
  /\ snd.at = "handshake"
  /\ \/ \E c \in {"C", "NAK"} :
          LET crc == IF c = "C" THEN 2 ELSE 1
              at  == IF snd.ymodem THEN "info" ELSE "data"
          IN  /\ Wait(c)
              /\ snd' = [snd EXCEPT !.at = at, !.crc = crc, !.try = 0]
              /\ toR' = toR \o Transmission(at, 1, 1, crc)
     \/ /\ toS # <<>> => Head(toS) \notin {"C", "NAK"}
        /\ toS' = <<>>
        /\ IF snd.try + 1 < HandshakeRetry
           THEN snd' = [snd EXCEPT !.try = @ + 1] /\ UNCHANGED toR
           ELSE Finish("ERR_RETRY")

sender_send_file_frame ==
  \/ /\ snd.at = "info"
     /\ \/ Wait("ACK") /\ snd' = [snd EXCEPT !.at = "info_request"] /\ UNCHANGED toR
        \/ NoneOf({"ACK"}) /\ Again("info", "ERR_ACK")
  \/ /\ snd.at = "info_request"
     /\ \/ Wait(Request) /\ Enter("data", snd.file, 1)
        \/ NoneOf({Request}) /\ Again("info", "ERR_ACK")

sender_send_frame ==
  /\ snd.at = "data"
  /\ \/ /\ Wait("ACK")
        /\ IF snd.chunk < Chunks THEN Enter("data", snd.file, snd.chunk + 1)
           ELSE Enter(IF snd.ymodem THEN "eot1" ELSE "eot", snd.file, snd.chunk)
     \/ Wait("CAN") /\ Finish("ERR_CAN")
     \/ (Wait("C") \/ Wait("noise")) /\ Finish("ERR_ACK")
     \/ NoneOf({"ACK", "CAN", "C", "noise"}) /\ Again("data", "ERR_CAN")

\* The end frame, or the information of the next file of a batch.
SendEnd == IF snd.file < Files THEN Enter("info", snd.file + 1, 1)
           ELSE Enter("end", snd.file, snd.chunk)

sender_send_eot ==
  \/ /\ snd.at = "eot"
     /\ \/ Wait("ACK") /\ Finish("OK")
        \/ NoneOf({"ACK"}) /\ Again("eot", "ERR_ACK")
  \/ /\ snd.at = "eot1"
     /\ \/ Wait("NAK") /\ Enter("eot2", snd.file, snd.chunk)
        \/ Wait("ACK") /\ Enter("end_request", snd.file, snd.chunk)
        \/ Wait("C") /\ SendEnd
        \/ NoneOf({"NAK", "ACK", "C"}) /\ Again("eot1", "ERR_ACK")
  \/ /\ snd.at = "eot2"
     /\ \/ Wait("ACK") /\ Enter("end_request", snd.file, snd.chunk)
        \/ NoneOf({"ACK"}) /\ Again("eot2", "ERR_ACK")
  \/ /\ snd.at = "end_request"
     /\ \/ Wait(Request) /\ SendEnd
        \/ NoneOf({Request}) /\ Again("end_request", "ERR_ACK")
  \/ /\ snd.at = "end"
     /\ \/ Wait("ACK") /\ Finish("OK")
        \/ NoneOf({"ACK"}) /\ Again("end", "ERR_ACK")

\* On stale answers the sender is at a block more than SeqCount blocks beyond what
\* the receiver holds, at a file that the receiver has not opened, or has left the
\* file before the receiver saw its end.
RunsAhead ==
  \/ snd'.at = "data" /\ snd'.chunk * BlockSize > Len(saved) + SeqCount * BlockSize
  \/ snd'.at = "data" /\ snd.ymodem /\ ~(rcv.open /\ rcv.file = snd'.file)
  \/ (snd'.at = "end" \/ snd'.file # snd.file) /\ rcv.state # "ENDING"

sender_run ==
  /\ sender_handshake \/ sender_send_file_frame \/ sender_send_frame \/ sender_send_eot
  /\ apart' = (apart \/ RunsAhead)
  /\ UNCHANGED <<rcv, saved, faults>>

-----------------------------------------------------------------------------
(* Receiver.                                                                *)

\* The byte a read of one byte delivers, as the receiver classifies it, when
\* a is the next atom: a body's first byte is its sequence number.
HeadClasses(a) ==
  CASE a.t = "head" -> {"SOH"}
    [] a.t = "eot"  -> {"EOT"}
    [] a.t = "body" -> {CASE a.seq \in {1, 2} -> "SOH" [] a.seq = 4 -> "EOT" [] OTHER -> "bad"}
    [] a.t = "junk" -> {"bad", "SOH"}
    [] OTHER        -> {"bad"}

\* ... and what stays on the line: the rest of a body.
AfterHead(c) == (IF Head(toR).t = "body" \/ (Head(toR).t = "junk" /\ c = "SOH")
                 THEN <<JUNK>> ELSE <<>>) \o Tail(toR)

\* recv_data of the rest of a frame, then receiver_verify_frame: the next atom
\* is a body, intact, with the check the receiver computes.
receiver_verify_frame(line) ==
  /\ line # <<>> /\ Head(line).t = "body"
  /\ Head(line).ok /\ Head(line).crc = rcv.crc

MoreFaults == faults.line + faults.save < MaxFaults

Answer(s) == toS' = toS \o s
ReceiverRequest(crc) == IF crc = 1 THEN "NAK" ELSE "C"

Return(r, res) == [r EXCEPT !.at = "done", !.res = res]

\* A save callback (open, write) fails; a write to a closed file always does.
SaveFault == MoreFaults /\ faults' = [faults EXCEPT !.save = @ + 1]
SaveOk    == UNCHANGED faults

\* As receiver_send_request, with one round too many.
OneRoundMore ==
  /\ rcv.at = "request" /\ rcv.shake <= HandshakeRetry
  /\ rcv' = [rcv EXCEPT !.at = "wait"]
  /\ Answer(<<ReceiverRequest(rcv.crc)>>)
  /\ UNCHANGED <<toR, saved, faults>>

\* receiver_run: one iteration of the handshake loop, up to its wait.
receiver_send_request ==
  /\ rcv.at = "request"
  /\ LET crc == IF rcv.crc = 2 /\ rcv.shake >= HandshakeRetry \div 2 THEN 1 ELSE rcv.crc
     IN  IF rcv.shake < HandshakeRetry
         THEN /\ rcv' = [rcv EXCEPT !.at = "wait", !.crc = crc]
              /\ Answer(<<ReceiverRequest(crc)>>) /\ UNCHANGED toR
         ELSE /\ rcv' = Return(rcv, "ERR_RETRY")
              /\ toR' = <<>> /\ UNCHANGED toS
  /\ UNCHANGED <<saved, faults>>

\* The handshake's wait for a first byte, and the read of the next one after a
\* byte that is no head: a timeout goes back to the request.
receiver_first_byte ==
  /\ rcv.at = "wait" \/ (rcv.at = "first" /\ rcv.head \notin {"SOH"})
  /\ \/ /\ toR = <<>>
        /\ rcv' = [rcv EXCEPT !.at = "request", !.shake = @ + 1] /\ UNCHANGED toR
     \/ /\ toR # <<>>
        /\ \E c \in HeadClasses(Head(toR)) :
             /\ toR' = AfterHead(c)
             /\ rcv' = [rcv EXCEPT !.at = "first", !.head = c,
                                   !.errors = IF rcv.at = "wait" THEN 0 ELSE @]
  /\ UNCHANGED <<toS, saved, faults>>

\* A first frame that fails leaves the head byte in place: the next attempt
\* reads on from the byte behind it.
FirstFrameFails(r, res) ==
  IF r.errors + 1 >= SendRetry THEN Return(r, res) ELSE [r EXCEPT !.errors = @ + 1]

\* The save callbacks hold file f, empty, and its frames are awaited.
Opened(r, f) == [r EXCEPT !.at = "frames", !.errors = 0, !.state = "FILEXFER",
                          !.file = f, !.open = TRUE]

\* File information: the sender is asked for the data before the file is opened.
FirstInfoFrame(b) ==
  LET r == [rcv EXCEPT !.ymodem = TRUE, !.expected = 1, !.state = "CONNECTED"]
      request == <<"ACK", ReceiverRequest(rcv.crc)>>
  IN  /\ b.seq = 0
      /\ \/ SaveOk /\ saved' = <<>> /\ rcv' = Opened(r, b.data[1][1]) /\ Answer(request)
         \/ /\ SaveFault /\ UNCHANGED saved
            /\ rcv' = FirstFrameFails(r, "ERR_FILE") /\ Answer(request \o <<"CAN">>)

\* XModem: the first frame carries data.
FirstDataFrame(b) ==
  LET r == [rcv EXCEPT !.ymodem = FALSE, !.expected = 2 % SeqCount, !.state = "CONNECTED"]
  IN  /\ b.seq # 0
      /\ IF b.seq = 1
         THEN \/ SaveOk /\ saved' = b.data /\ rcv' = Opened(r, 1) /\ Answer(<<"ACK">>)
              \/ /\ SaveFault /\ UNCHANGED saved
                 /\ rcv' = FirstFrameFails(r, "ERR_FILE") /\ Answer(<<"CAN">>)
         ELSE /\ rcv' = FirstFrameFails([rcv EXCEPT !.ymodem = FALSE], "ERR_SEQ")
              /\ Answer(<<"NAK">>) /\ UNCHANGED <<saved, faults>>

receiver_process_first_frame ==
  /\ rcv.at = "first" /\ rcv.head = "SOH"
  /\ \/ /\ ~receiver_verify_frame(toR)
        /\ toR' = <<>> /\ Answer(<<"NAK">>)
        /\ rcv' = FirstFrameFails(rcv, "ERR_CRC")
        /\ UNCHANGED <<saved, faults>>
     \/ /\ receiver_verify_frame(toR)
        /\ toR' = Tail(toR)
        /\ FirstInfoFrame(Head(toR)) \/ FirstDataFrame(Head(toR))

-----------------------------------------------------------------------------
(* receiver_process_frame, with what receiver_run does about its result.    *)

\* MY_YMODEM_OK resets the error count; the end of the session is closed.
FrameOk(r) == rcv' = IF r.state = "ENDED" THEN Return([r EXCEPT !.open = FALSE], "OK") ELSE [r EXCEPT !.errors = 0]

\* As FrameError, but the loop goes on after the last error.
NeverGivesUp(r, line) ==
  IF r.errors + 1 >= SendRetry THEN rcv' = r /\ Answer(<<>>)
  ELSE rcv' = [r EXCEPT !.errors = @ + 1] /\ Answer(line)

\* A recoverable error counts; the last one cancels the transfer.
FrameError(r, line) ==
  IF r.errors + 1 >= SendRetry
  THEN rcv' = Return(r, "ERR_RETRY") /\ Answer(line \o <<"CAN">>)
  ELSE rcv' = [r EXCEPT !.errors = @ + 1] /\ Answer(line)

\* The head byte does not come.
receiver_timeout ==
  /\ rcv.at = "frames" /\ toR = <<>>
  /\ FrameError(rcv, <<"NAK">>)
  /\ UNCHANGED <<toR, saved, faults>>

receiver_eot ==
  /\ rcv.at = "frames" /\ toR # <<>>
  /\ "EOT" \in HeadClasses(Head(toR))
  /\ LET to(state) == [rcv EXCEPT !.state = state] IN
     \/ ~rcv.ymodem /\ FrameOk(to("ENDED")) /\ Answer(<<"ACK">>)
     \/ rcv.ymodem /\ rcv.state = "FILEXFER" /\ FrameOk(to("ENDOFXFER")) /\ Answer(<<"NAK">>)
     \/ /\ rcv.ymodem /\ rcv.state = "ENDOFXFER"
        /\ FrameOk(to("ENDING")) /\ Answer(<<"ACK", ReceiverRequest(rcv.crc)>>)
     \/ /\ rcv.ymodem /\ rcv.state \notin {"FILEXFER", "ENDOFXFER"}
        /\ FrameOk(rcv) /\ UNCHANGED toS
  /\ toR' = IF rcv'.at = "done" THEN <<>> ELSE AfterHead("EOT")
  /\ UNCHANGED <<saved, faults>>

\* Any other byte cancels the transfer for good.
receiver_bad_head ==
  /\ rcv.at = "frames" /\ toR # <<>>
  /\ "bad" \in HeadClasses(Head(toR))
  /\ toR' = <<>> /\ Answer(<<"CAN">>)
  /\ rcv' = Return(rcv, "ERR_HEAD")
  /\ UNCHANGED <<saved, faults>>

\* As SaveSize, with the file taken to be one unit shorter.
OneShort(n) == IF rcv.ymodem /\ Len(saved) + n >= FileLen
               THEN Max({0, FileLen - 1 - Len(saved)}) ELSE n

\* The units of a data frame that belong to the file: all of them for XModem,
\* for YModem no more than the announced size still lacks.
SaveSize(n) == IF rcv.ymodem /\ Len(saved) + n > FileLen THEN FileLen - Len(saved) ELSE n

receiver_save_data(data) ==
  LET keep == SubSeq(data, 1, SaveSize(Len(data)))
      r    == [rcv EXCEPT !.expected = (@ + 1) % SeqCount]
      full == rcv.ymodem /\ Len(saved) + Len(keep) >= FileLen /\ rcv.state = "FILEXFER"
  IN  \/ /\ rcv.open \/ keep = <<>>
         /\ SaveOk /\ saved' = saved \o keep
         /\ FrameOk([r EXCEPT !.state = IF full THEN "ENDOFXFER" ELSE @])
         /\ Answer(IF full THEN <<"ACK", "NAK">> ELSE <<"ACK">>)
      \/ /\ keep # <<>>
         /\ IF rcv.open THEN SaveFault ELSE SaveOk
         /\ UNCHANGED saved /\ FrameError(r, <<"CAN">>)

\* As DataFrame, without the sequence check.
SaveAny(b) == receiver_save_data(b.data)

\* A verified frame, by its sequence number.
DataFrame(b) ==
  CASE b.seq = rcv.expected -> receiver_save_data(b.data)
    [] b.seq = (rcv.expected + SeqCount - 1) % SeqCount ->
         FrameOk(rcv) /\ Answer(<<"ACK">>) /\ UNCHANGED <<saved, faults>>
    [] OTHER -> FrameError(rcv, <<"NAK">>) /\ UNCHANGED <<saved, faults>>

\* In ENDING, frame 0 ends the batch or announces its next file.
EndFrame(b) ==
  IF b.data = EndData
  THEN FrameOk([rcv EXCEPT !.state = "ENDED"]) /\ Answer(<<"ACK">>) /\ UNCHANGED <<saved, faults>>
  ELSE LET r == [rcv EXCEPT !.expected = 1, !.open = FALSE]
           request == <<"ACK", ReceiverRequest(rcv.crc)>>
       IN  \/ /\ SaveOk /\ saved' = <<>>
              /\ FrameOk(Opened(r, b.data[1][1])) /\ Answer(request)
           \/ SaveFault /\ UNCHANGED saved /\ FrameError(r, request \o <<"CAN">>)

receiver_process_frame ==
  /\ rcv.at = "frames" /\ toR # <<>>
  /\ "SOH" \in HeadClasses(Head(toR))
  /\ LET line == AfterHead("SOH") IN
     \/ /\ ~receiver_verify_frame(line)
        /\ toR' = <<>>
        /\ FrameError(rcv, <<"NAK">>)
        /\ UNCHANGED <<saved, faults>>
     \/ /\ receiver_verify_frame(line)
        /\ IF rcv.ymodem /\ rcv.state = "ENDING" /\ Head(line).seq = 0
           THEN EndFrame(Head(line)) ELSE DataFrame(Head(line))
        /\ toR' = IF rcv'.at = "done" /\ rcv'.res = "OK" THEN <<>> ELSE Tail(line)

\* The head of a frame was lost, and its number is that of the EOT character.
NumberTakenForEot ==
  rcv.at = "frames" /\ toR # <<>> /\ Head(toR).t = "body" /\ "EOT" \in HeadClasses(Head(toR))

receiver_run ==
  /\ apart' = (apart \/ NumberTakenForEot)
  /\ \/ receiver_send_request \/ receiver_first_byte \/ receiver_process_first_frame
     \/ receiver_timeout \/ receiver_eot \/ receiver_bad_head \/ receiver_process_frame
  /\ UNCHANGED snd

-----------------------------------------------------------------------------
(* The line.                                                                *)

\* One atom or answer is lost or corrupted.
LineFault ==
  /\ MoreFaults /\ faults' = [faults EXCEPT !.line = @ + 1]
  /\ \/ \E i \in DOMAIN toR : toR' = RemoveAt(toR, i) /\ UNCHANGED toS
     \/ \E i \in DOMAIN toR : /\ toR[i].t = "body" /\ toR[i].ok
                              /\ toR' = [toR EXCEPT ![i].ok = FALSE] /\ UNCHANGED toS
     \/ \E i \in DOMAIN toS : /\ UNCHANGED toR
                              /\ toS' \in {RemoveAt(toS, i), [toS EXCEPT ![i] = "noise"]}
  /\ UNCHANGED <<snd, rcv, saved, apart>>

Init ==
  /\ toR = <<>> /\ toS = <<>> /\ saved = <<>> /\ apart = FALSE /\ faults = [line |-> 0, save |-> 0]
  /\ \E y \in Protocols :
       snd = [at |-> "handshake", ymodem |-> y, file |-> 1, chunk |-> 1, try |-> 0,
              crc |-> 2, res |-> "none"]
  /\ rcv = [at |-> "request", shake |-> 0, head |-> "none", errors |-> 0, crc |-> 2,
            ymodem |-> FALSE, state |-> "CONNECTING", expected |-> 0, file |-> 0,
            open |-> FALSE, res |-> "none"]

Next == sender_run \/ receiver_run \/ LineFault

Spec == Init /\ [][Next]_vars

\* Both ends are threads that run, and every wait of theirs times out.
FairSpec == Spec /\ WF_vars(sender_run) /\ WF_vars(receiver_run)

-----------------------------------------------------------------------------
(* Properties.                                                              *)

\* The bytes the receiver may hold of its file: XModem keeps the padding.
Content(f) ==
  IF snd.ymodem THEN File(f)
  ELSE [i \in 1..Chunks * SohSize |-> IF i <= FileLen THEN Unit(f, i) ELSE Pad]

\* The loops of both ends stay within their retry limits, and the variables keep their types.
TypeOK ==
  /\ \A i \in DOMAIN toR : toR[i].t \in {"head", "body", "eot", "can", "junk"}
  /\ toS \in Seq({"C", "NAK", "ACK", "CAN", "noise"})
  /\ snd.at \in {"handshake", "info", "info_request", "data", "eot", "eot1", "eot2",
                 "end_request", "end", "done"}
  /\ snd.file \in 1..Files /\ snd.chunk \in 1..Chunks /\ snd.crc \in 1..2
  /\ snd.try \in 0..Max({HandshakeRetry, SendRetry})
  /\ rcv.at \in {"request", "wait", "first", "frames", "done"}
  /\ rcv.shake \in 0..HandshakeRetry /\ rcv.errors \in 0..SendRetry
  /\ rcv.expected \in 0..(SeqCount - 1) /\ rcv.file \in 0..Files
  /\ rcv.state \in {"CONNECTING", "CONNECTED", "FILEXFER", "ENDOFXFER", "ENDING", "ENDED"}
  /\ {faults.line, faults.save} \subseteq 0..MaxFaults /\ apart \in BOOLEAN

\* Repeated, lost, corrupted and overtaken frames never put a block into the
\* file twice, out of order or in the place of one that is missing, although
\* sequence numbers wrap (receiver_process_frame), as long as no save fails and
\* the sender stays within the sequence numbers.
SavedInOrder == rcv.open /\ faults.save = 0 /\ ~apart => IsPrefix(saved, Content(rcv.file))

\* As long as the line and the save callbacks are intact, timeouts that fire
\* too early and the answers they multiply do not shorten the file: the receiver
\* returns MY_YMODEM_OK only with the whole of it.
OkComplete ==
  rcv.res = "OK" /\ faults.line = 0 /\ faults.save = 0 => saved = Content(rcv.file)

\* Every retry is bounded: whatever the line does, both ends return
\* (the LTE thread handles no message while receiver_run runs).
BothReturn == <>(snd.at = "done" /\ rcv.at = "done")
=============================================================================
