----------------------------- MODULE LogBuffer -----------------------------
(***************************************************************************)
(* The log and a browser that follows it: LogBuffer                        *)
(* (src/sensesp/system/log_buffer.cpp), GET /api/log                       *)
(* (src/sensesp/net/web/base_command_handler.cpp) and the poll loop of the *)
(* log page (frontend/src/pages/Log/LogLines.tsx).                         *)
(*                                                                         *)
(* A logging task hands its line to a bounded queue; the capture task      *)
(* numbers it and keeps it until it is too old or too many have followed.  *)
(* The browser has one request out at a time, asks for the lines from its  *)
(* cursor on, and may get no answer. The device may restart.               *)
(***************************************************************************)
EXTENDS Integers, FiniteSets, Sequences, SequencesExt

CONSTANTS
    MaxLines,    \* max_lines_
    MaxLineAge,  \* max_age_ms_
    Depth,       \* kLogCaptureQueueDepth
    MaxSeq, MaxTime, MaxSession,  \* bounds
    NoCursor     \* null

ASSUME LogAssumption ==
    /\ {MaxLines, Depth} \subseteq Nat \ {0}
    /\ {MaxLineAge, MaxSeq, MaxTime, MaxSession} \subseteq Nat
    /\ NoCursor \notin Nat

VARIABLES
    session,          \* session_id_: random, and taken to be new each time
    captured,         \* capture_queue_: the timestamps of the lines in it
    records,          \* records_
    nextSeq,          \* next_seq_
    time,             \* esp_log_timestamp()
    cursor, known,    \* cursorRef and sessionRef of the page
    request, answer,  \* the request that is out; its answer on the way
    gapNotice,        \* gapNotice of the page
    read,             \* history: lines of the session known that the page has
                      \* shown, or announced to be missing
    missed            \* history: lines passed over without either

deviceVars == <<session, captured, records, nextSeq, time>>
pageVars == <<cursor, known, request, answer, gapNotice, read, missed>>
logVars == <<deviceVars, pageVars>>

Cursors == 0..MaxSeq \cup {NoCursor}

LogTypeOK ==
    /\ session \in 0..MaxSession
    /\ captured \in Seq(0..MaxTime) /\ Len(captured) <= Depth
    /\ records \in Seq([seq : 0..MaxSeq, at : 0..MaxTime])
    /\ Len(records) <= MaxLines
    /\ nextSeq \in 0..MaxSeq /\ time \in 0..MaxTime
    /\ cursor \in Cursors /\ known \in 0..MaxSession \cup {NoCursor}
    /\ request \in {"none", "asked", "answered"}
    /\ request = "answered" =>
         answer \in [session : 0..MaxSession, next : 0..MaxSeq, gap : BOOLEAN,
                     lines : SUBSET (0..MaxSeq)]
    /\ gapNotice \in BOOLEAN /\ {read, missed} \subseteq SUBSET (0..MaxSeq)

NoAnswer == [session |-> 0, next |-> 0, gap |-> FALSE, lines |-> {}]

LogInit ==
    /\ session = 0 /\ captured = <<>> /\ records = <<>> /\ nextSeq = 0 /\ time = 0
    /\ cursor = NoCursor /\ known = NoCursor
    /\ request = "none" /\ answer = NoAnswer
    /\ gapNotice = FALSE /\ read = {} /\ missed = {}

-----------------------------------------------------------------------------
(* The device. *)

\* vprintf_trampoline and enqueue_capture: a full queue drops the line. A task may
\* be overtaken by another between its reading of the clock and the queue.
LogLine ==
    /\ Len(captured) < Depth
    /\ \E at \in {time, time - 1} \cap Nat : captured' = Append(captured, at)
    /\ UNCHANGED <<session, records, nextSeq, time, pageVars>>

Aged(record, now) == now >= record.at /\ now - record.at > MaxLineAge

\* prune_locked: lines that are too old go, up to the first that is not.
Dropped(now) == {i \in DOMAIN records : \A j \in 1..i : Aged(records[j], now)}

Pruned(now) == SubSeq(records, Cardinality(Dropped(now)) + 1, Len(records))

\* A mistake: the oldest line of a full buffer stays.
VariantTrimmed(kept) == kept

Trimmed(kept) == IF Len(kept) > MaxLines THEN Tail(kept) ELSE kept

\* push_line by the capture task.
Capture ==
    /\ captured # <<>> /\ nextSeq < MaxSeq
    /\ captured' = Tail(captured)
    /\ records' = Trimmed(Append(Pruned(Head(captured)),
                                 [seq |-> nextSeq, at |-> Head(captured)]))
    /\ nextSeq' = nextSeq + 1
    /\ UNCHANGED <<session, time, pageVars>>

\* push_line of a line without text, or with too little memory left.
Discard ==
    /\ captured # <<>>
    /\ captured' = Tail(captured)
    /\ UNCHANGED <<session, records, nextSeq, time, pageVars>>

Passes ==
    /\ time < MaxTime
    /\ time' = time + 1
    /\ UNCHANGED <<session, captured, records, nextSeq, pageVars>>

\* The device restarts: a new session, sequence numbers from the start.
Reboot ==
    /\ session < MaxSession
    /\ session' = session + 1
    /\ captured' = <<>> /\ records' = <<>> /\ nextSeq' = 0 /\ time' = 0
    /\ UNCHANGED pageVars

\* A mistake: one line fewer counts as missing.
VariantEvicted(kept) ==
    IF kept = <<>> THEN cursor < nextSeq ELSE kept[1].seq > cursor + 1

\* The line the page expects next was evicted before it was read.
Evicted(kept) == IF kept = <<>> THEN cursor < nextSeq ELSE kept[1].seq > cursor

\* snapshot_since for the request that is out.
Serve ==
    /\ request = "asked"
    /\ request' = "answered"
    /\ records' = Pruned(time)
    /\ answer' =
         [session |-> session, next |-> nextSeq,
          gap |-> cursor # NoCursor /\ Evicted(records'),
          lines |-> {r.seq : r \in {x \in ToSet(records') :
                                      cursor = NoCursor \/ x.seq >= cursor}}]
    /\ UNCHANGED <<session, captured, nextSeq, time, cursor, known, gapNotice, read,
                   missed>>

-----------------------------------------------------------------------------
(* The page. *)

Poll ==
    /\ request = "none"
    /\ request' = "asked"
    /\ UNCHANGED <<deviceVars, cursor, known, answer, gapNotice, read, missed>>

\* An error, or the timeout of the fetch; the loop goes on.
PollFails ==
    /\ request # "none"
    /\ request' = "none" /\ answer' = NoAnswer
    /\ UNCHANGED <<deviceVars, cursor, known, gapNotice, read, missed>>

Restarted ==
    /\ known # NoCursor
    /\ \/ answer.session # known
       \/ cursor # NoCursor /\ answer.next < cursor

\* What was read of the session that the answer is of.
ReadOf(s) == IF s = known THEN read ELSE {}

\* A restart: what is shown is of no more use, and the next poll asks for all.
SeeRestart ==
    /\ request = "answered" /\ Restarted
    /\ known' = answer.session /\ cursor' = NoCursor
    /\ request' = "none" /\ answer' = NoAnswer
    /\ read' = ReadOf(answer.session)
    /\ UNCHANGED <<deviceVars, gapNotice, missed>>

\* The lines of the answer are shown, with a notice if there is a gap. A page
\* that asked for everything takes what it gets for all there was.
ShowLines ==
    /\ request = "answered" /\ ~Restarted
    /\ known' = answer.session /\ cursor' = answer.next
    /\ gapNotice' = (gapNotice \/ answer.gap)
    /\ LET all == 0..answer.next - 1 IN
        /\ read' = ReadOf(answer.session) \cup answer.lines
                     \cup (IF cursor = NoCursor \/ answer.gap THEN all ELSE {})
        /\ missed' = missed \cup (all \ read')
    /\ request' = "none" /\ answer' = NoAnswer
    /\ UNCHANGED deviceVars

\* The user dismisses the notice.
DismissGap ==
    /\ gapNotice
    /\ gapNotice' = FALSE
    /\ UNCHANGED <<deviceVars, cursor, known, request, answer, read, missed>>

LogNext ==
    \/ LogLine \/ Capture \/ Discard \/ Passes \/ Reboot \/ Serve
    \/ Poll \/ PollFails \/ SeeRestart \/ ShowLines \/ DismissGap

LogSpec == LogInit /\ [][LogNext]_logVars

-----------------------------------------------------------------------------
(* Properties. *)

\* Every line of the session that the page follows, up to its cursor, was shown
\* or announced by a notice, whatever was evicted, lost or answered late, and
\* whenever the device restarted and reused the numbers of its lines.
NoSilentGap == missed = {}
=============================================================================
