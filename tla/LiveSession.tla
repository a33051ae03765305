---------------------------- MODULE LiveSession ----------------------------
(***************************************************************************)
(* Live transcription of the local web app                                 *)
(* (services/transcription_service.py, the session files of                *)
(* persistence.py): two capture threads per session call _on_segment, the  *)
(* event loop starts a session and saves it in a thread, a thread of the   *)
(* server's pool stops it, and the process can die anywhere.               *)
(*                                                                         *)
(* An utterance is its channel and its number; what the microphone hears   *)
(* of the other side is an echo of the call's utterance with that number.  *)
(***************************************************************************)
EXTENDS Naturals, Sequences

CONSTANTS
  Sessions,        \* sessions of one account on one day
  Echoes,          \* the numbers whose microphone utterance is an echo
  MaxSaid,         \* utterances of a channel
  MaxVersions,     \* transcripts one account has of one day
  MaxLiveFaults    \* writes that fail and deaths of the process

ASSUME LiveAssumption == {MaxSaid, MaxVersions, MaxLiveFaults} \subseteq Nat /\ Echoes \subseteq Nat

VARIABLES
  live,       \* the session objects
  channel,    \* the state of each channel's thread
  said,       \* the utterances each channel has transcribed
  stored,     \* the session files
  starting,   \* the copy that start_session saves in a thread
  stopper,    \* the threads of stop_session
  library,    \* the saved transcripts by version
  had,        \* history: what was on disk of a session when its stop began
  liveFaults

lvars == <<live, channel, said, stored, starting, stopper, library, had, liveFaults>>

Channels == {"mic", "call"}
Nothing  == [is |-> "nothing", segments |-> <<>>]
Copy(segments) == [is |-> "copy", segments |-> segments]
NoStopper == [pc |-> "idle", text |-> <<>>, path |-> 0]
NoLive ==
  [state |-> "off", labeled |-> FALSE, named |-> FALSE, segments |-> <<>>, pending |-> <<>>,
   recent |-> {}, warned |-> FALSE]

LiveFault == liveFaults < MaxLiveFaults /\ liveFaults' = liveFaults + 1
Said(c, n) == [by |-> c, number |-> n]

-----------------------------------------------------------------------------
(* Segments.                                                                *)

\* _persist, from a session without an id nothing is written; a write that fails
\* leaves the file and warns.
Persists(s, l, ok) ==
  IF ~l.named THEN stored' = stored /\ live' = [live EXCEPT ![s] = l] /\ UNCHANGED liveFaults
  ELSE IF ok
  THEN /\ stored' = [stored EXCEPT ![s] = Copy(l.segments)]
       /\ live' = [live EXCEPT ![s] = [l EXCEPT !.warned = FALSE]]
       /\ UNCHANGED liveFaults
  ELSE /\ live' = [live EXCEPT ![s] = [l EXCEPT !.warned = TRUE]]
       /\ LiveFault
       /\ UNCHANGED stored

\* _emit.
Emitted(l, u) == [l EXCEPT !.segments = Append(@, u)]

\* _text_similarity at ECHO_SIM.
Similar(u, v) == u.by # v.by /\ u.number = v.number /\ u.number \in Echoes

\* _flush_pending_you takes a held segment apart as a pair. It is not one: with a
\* segment held the call raises.
FlushRaises(l) == l.pending # <<>>

\* A channel that can still transcribe: until stop, and after it what is left in
\* its queue.
Speaks(s, c) == channel[s][c] \in {"on", "draining"} /\ said[s][c] < MaxSaid

Spoken(s, c) ==
  /\ said' = [said EXCEPT ![s][c] = @ + 1]
  /\ channel' = [channel EXCEPT ![s][c] = IF @ = "draining" THEN "off" ELSE @]

\* _on_segment, which emits.
SegmentEmitted(s, c, ok) ==
  LET l == live[s]
      u == Said(c, said[s][c] + 1)
      kept == IF l.labeled THEN [l EXCEPT !.recent = @ \cup {u}] ELSE l
  IN
  /\ Speaks(s, c) /\ ~FlushRaises(l) /\ (l.labeled => c = "call")
  /\ Spoken(s, c)
  /\ Persists(s, Emitted(kept, u), ok)
  /\ UNCHANGED <<starting, stopper, library, had>>

\* _on_segment, of the microphone beside a call: dropped as an echo, or held.
SegmentHeld(s) ==
  LET l == live[s]
      u == Said("mic", said[s]["mic"] + 1)
  IN
  /\ Speaks(s, "mic") /\ ~FlushRaises(l) /\ l.labeled
  /\ Spoken(s, "mic")
  /\ live' = [live EXCEPT ![s].pending = IF \E v \in l.recent : Similar(u, v) THEN @ ELSE Append(@, u)]
  /\ UNCHANGED <<stored, starting, stopper, library, had, liveFaults>>

\* _on_segment, with a segment held: the exception ends the channel's thread.
SegmentRaises(s, c) ==
  /\ Speaks(s, c) /\ FlushRaises(live[s])
  /\ said' = [said EXCEPT ![s][c] = @ + 1]
  /\ channel' = [channel EXCEPT ![s][c] = "dead"]
  /\ UNCHANGED <<live, stored, starting, stopper, library, had, liveFaults>>

\* An echo leaves the window in which it is recognized.
Forgets(s) ==
  /\ live[s].recent # {}
  /\ live' = [live EXCEPT ![s].recent = {}]
  /\ UNCHANGED <<channel, said, stored, starting, stopper, library, had, liveFaults>>

\* What the disk has of a session: its file, and the saved transcripts.
Kept(s) ==
  {stored[s].segments[i] : i \in DOMAIN stored[s].segments}
  \cup UNION {{library[n].segments[i] : i \in DOMAIN library[n].segments} : n \in DOMAIN library}

-----------------------------------------------------------------------------
(* The life of a session.                                                   *)

\* start_session: the channels run before the session has its id.
StartLive(s, labeled) ==
  /\ live[s].state = "off" /\ stored[s] = Nothing /\ stopper[s] = NoStopper
  /\ said[s] = [c \in Channels |-> 0]
  /\ live' = [live EXCEPT ![s] = [NoLive EXCEPT !.state = "new", !.labeled = labeled]]
  /\ channel' = [channel EXCEPT ![s] = [c \in Channels |-> IF c = "mic" \/ labeled THEN "on" ELSE "off"]]
  /\ UNCHANGED <<said, stored, starting, stopper, library, had, liveFaults>>

\* start_session registers the session and hands a copy of it to a thread.
Register(s) ==
  /\ live[s].state = "new"
  /\ live' = [live EXCEPT ![s].state = "live", ![s].named = TRUE]
  /\ starting' = [starting EXCEPT ![s] = Copy(live[s].segments)]
  /\ UNCHANGED <<channel, said, stored, stopper, library, had, liveFaults>>

\* The thread saves the copy, whatever was saved since.
SaveStart(s, ok) ==
  /\ starting[s] # Nothing
  /\ starting' = [starting EXCEPT ![s] = Nothing]
  /\ IF ok THEN stored' = [stored EXCEPT ![s] = starting[s]] /\ UNCHANGED <<live, liveFaults>>
     ELSE LiveFault /\ live' = [live EXCEPT ![s].warned = TRUE] /\ UNCHANGED stored
  /\ UNCHANGED <<channel, said, stopper, library, had>>

\* stop_session takes the session out of the registry and stops its channels,
\* without waiting for their threads.
StopPop(s) ==
  /\ live[s].state \in {"live", "recovered"} /\ stopper[s].pc = "idle"
  /\ live' = [live EXCEPT ![s].state = "stopped"]
  /\ channel' = [channel EXCEPT ![s] = [c \in Channels |-> IF @[c] = "on" THEN "draining" ELSE @[c]]]
  /\ stopper' = [stopper EXCEPT ![s].pc = "flush"]
  /\ had' = [had EXCEPT ![s] = IF starting[s] = Nothing THEN Kept(s) ELSE {}]
  /\ UNCHANGED <<said, stored, starting, library, liveFaults>>

\* LiveSession.stop unpacks what is held in the same way: the request fails.
StopFlush(s) ==
  /\ stopper[s].pc = "flush"
  /\ stopper' = [stopper EXCEPT ![s].pc = IF FlushRaises(live[s]) THEN "failed" ELSE "path"]
  /\ UNCHANGED <<live, channel, said, stored, starting, library, had, liveFaults>>

\* transcript_text, and the first version of the day that is free.
StopPath(s) ==
  /\ stopper[s].pc = "path" /\ \E n \in DOMAIN library : library[n] = Nothing
  /\ stopper' = [stopper EXCEPT ![s] =
       [pc |-> "write", text |-> live[s].segments,
        path |-> CHOOSE n \in DOMAIN library : library[n] = Nothing
                   /\ \A k \in 1 .. n - 1 : library[k] # Nothing]]
  /\ UNCHANGED <<live, channel, said, stored, starting, library, had, liveFaults>>

StopDeletesFirst(s) ==
  /\ stopper[s].pc = "write"
  /\ stored' = [stored EXCEPT ![s] = Nothing]
  /\ stopper' = [stopper EXCEPT ![s].pc = "delete"]
  /\ UNCHANGED <<live, channel, said, starting, library, had, liveFaults>>

StopWrite(s) ==
  /\ stopper[s].pc = "write"
  /\ library' = [library EXCEPT ![stopper[s].path] = Copy(stopper[s].text)]
  /\ stopper' = [stopper EXCEPT ![s].pc = "delete"]
  /\ UNCHANGED <<live, channel, said, stored, starting, had, liveFaults>>

\* delete_session; a failure is reported.
StopDelete(s, ok) ==
  /\ stopper[s].pc = "delete"
  /\ IF ok THEN stored' = [stored EXCEPT ![s] = Nothing] /\ UNCHANGED liveFaults
     ELSE LiveFault /\ UNCHANGED stored
  /\ stopper' = [stopper EXCEPT ![s].pc = "done"]
  /\ UNCHANGED <<live, channel, said, starting, library, had>>

\* The process dies and starts again: _recover_sessions finds the session files.
LiveRestart ==
  /\ LiveFault
  /\ live' = [s \in Sessions |->
       IF stored[s] = Nothing THEN NoLive
       ELSE [NoLive EXCEPT !.state = "recovered", !.named = TRUE, !.segments = stored[s].segments]]
  /\ channel' = [s \in Sessions |-> [c \in Channels |-> "off"]]
  /\ starting' = [s \in Sessions |-> Nothing]
  /\ stopper' = [s \in Sessions |-> NoStopper]
  /\ UNCHANGED <<said, stored, library, had>>

\* stream_session: what was captured, and then what the queue brings, which is
\* again everything since the session was made.
Streamed(l) == l.segments \o (IF l.state = "recovered" THEN <<>> ELSE l.segments)

LiveInit ==
  /\ live = [s \in Sessions |-> NoLive]
  /\ channel = [s \in Sessions |-> [c \in Channels |-> "off"]]
  /\ said = [s \in Sessions |-> [c \in Channels |-> 0]]
  /\ stored = [s \in Sessions |-> Nothing]
  /\ starting = [s \in Sessions |-> Nothing]
  /\ stopper = [s \in Sessions |-> NoStopper]
  /\ library = [n \in 1 .. MaxVersions |-> Nothing]
  /\ had = [s \in Sessions |-> {}]
  /\ liveFaults = 0

LiveNext ==
  \E s \in Sessions :
    \/ \E labeled \in BOOLEAN : StartLive(s, labeled)
    \/ Register(s)
    \/ \E ok \in BOOLEAN :
         \/ SaveStart(s, ok) \/ StopDelete(s, ok)
         \/ \E c \in Channels : SegmentEmitted(s, c, ok)
    \/ SegmentHeld(s) \/ Forgets(s) \/ \E c \in Channels : SegmentRaises(s, c)
    \/ StopPop(s) \/ StopFlush(s) \/ StopPath(s) \/ StopWrite(s)
    \/ LiveRestart

LiveSpec == LiveInit /\ [][LiveNext]_lvars
-----------------------------------------------------------------------------
(* Properties.                                                              *)

\* What is on disk of a session when its stop is requested stays on disk: the
\* transcript is written before the session file goes, whatever dies in between,
\* and late segments of the channels only add to it. (A session whose first copy
\* is still being saved is left out: that copy may replace a newer file.)
StopKeepsAll == \A s \in Sessions : had[s] \subseteq Kept(s)

\* stop: "flush any held mic segments that never got an echo match". A stop with
\* a segment held saves the transcript, held segment included.
StopSavesHeld == \A s \in Sessions : stopper[s].pc # "failed"
=============================================================================
