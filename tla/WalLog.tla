------------------------------- MODULE WalLog -------------------------------
(* The write-ahead log and recovery (liq-state wal.rs, snapshot.rs).        *)
(*                                                                          *)
(* The hot thread appends a record for every store operation to a bounded   *)
(* channel; a writer thread writes them as frames and syncs the file at     *)
(* every block boundary.  Snapshots replace one file, followed by a marker  *)
(* in the log.  After a crash, recovery loads the snapshot and replays the  *)
(* frames behind its marker.                                                *)
(*                                                                          *)
(* The store is abstracted to the writes in it, by block: `base` below the  *)
(* undo floor, one sequence per block above it.  Writes are not idempotent  *)
(* (PushMarket is not), so a frame replayed twice or not at all shows.      *)
EXTENDS Naturals, Sequences, SequencesExt

CONSTANTS
  BOUND,        \* capacity of the channel
  UNDO_DEPTH,   \* blocks the undo ring holds
  MaxOps,       \* bound of the instance: operations of the hot thread
  MaxCrashes    \* bound of the instance

VARIABLES
  db,       \* the hot thread's store
  chan,     \* records between the hot thread and the writer
  frames,   \* frames in the file, Torn for a frame cut by a crash
  synced,   \* how many of them are on stable storage
  file,     \* the snapshot file: its tip and contents
  marker,   \* the hot thread owes the log the marker of a snapshot
  atEnd,    \* no write has happened since the last block boundary step
  down,     \* the process has crashed and not yet recovered
  past,     \* history: the store after every operation so far
  crashes

vars == <<db, chan, frames, synced, file, marker, atEnd, down, past, crashes>>

-----------------------------------------------------------------------------
(* The store operations a record stands for, on an abstract store. *)

Torn        == [kind |-> "Torn", n |-> 0, at |-> 0]
Tip(s)      == s.floor + Len(s.open)
Contents(s) == s.base \o FlattenSeq(s.open)
Failed      == [floor |-> 0, base |-> <<0>>, open |-> <<>>]

begin_block(s, n) ==
  IF s = Failed \/ n # Tip(s) + 1 THEN Failed
  ELSE IF Len(s.open) < UNDO_DEPTH THEN [s EXCEPT !.open = Append(@, <<>>)]
  ELSE IF UNDO_DEPTH = 0 THEN [s EXCEPT !.floor = n]
  ELSE [floor |-> s.floor + 1, base |-> s.base \o Head(s.open),
        open  |-> Append(Tail(s.open), <<>>)]

write(s, v) ==
  IF s = Failed THEN Failed
  ELSE IF s.open = <<>> THEN [s EXCEPT !.base = Append(@, v)]
  ELSE [s EXCEPT !.open[Len(s.open)] = Append(@, v)]

UnwindAboveFloor(s, t) ==
  IF s = Failed \/ t > Tip(s) \/ t <= s.floor THEN Failed
  ELSE [s EXCEPT !.open = SubSeq(@, 1, t - s.floor)]
unwind_to(s, t) ==
  IF s = Failed \/ t > Tip(s) \/ t < s.floor THEN Failed
  ELSE [s EXCEPT !.open = SubSeq(@, 1, t - s.floor)]

(* wal::apply: one record on the store. *)
apply(s, rec) ==
  CASE rec.kind = "BeginBlock" -> begin_block(s, rec.n)
    [] rec.kind = "Write"      -> write(s, rec.n)
    [] rec.kind = "UnwindTo"   -> unwind_to(s, rec.n)
    [] rec.kind = "Snapshot"   -> s

(* wal::replay: every complete frame; a torn one at the end is dropped, one *)
(* with frames behind it fails its checksum.                                *)
replay(fs) == IF fs # <<>> /\ Last(fs) = Torn THEN Front(fs) ELSE fs
Corrupt(fs) == \E i \in 1 .. Len(replay(fs)) : replay(fs)[i] = Torn

(* replay_into: frames count from the snapshot's marker on, or from the     *)
(* first block past it when the marker was lost.                            *)
OpensAtBlock(rec, tip) == rec.kind = "BeginBlock" /\ rec.n > tip
Opens(rec, tip) == \/ rec.kind = "Snapshot" /\ rec.n = tip
                   \/ rec.kind = "BeginBlock" /\ rec.n > tip
Cut(fs, tip)    == {i \in 1 .. Len(fs) : \E j \in 1 .. i : Opens(fs[j], tip)}
replay_into(s, fs, tip) ==
  LET step[i \in 0 .. Len(fs)] ==
        IF i = 0 THEN s
        ELSE IF i \in Cut(fs, tip) THEN apply(step[i - 1], fs[i]) ELSE step[i - 1]
  IN  step[Len(fs)]

(* recover: the snapshot's store, depth zero, and the log behind it. *)
into_store(f) == [floor |-> f.tip, base |-> f.contents, open |-> <<>>]
recover ==
  IF Corrupt(frames) THEN Failed
  ELSE replay_into(into_store(file), replay(frames), file.tip)

-----------------------------------------------------------------------------
Moment(s) == [tip |-> Tip(s), contents |-> Contents(s)]
Empty     == [floor |-> 0, base |-> <<>>, open |-> <<>>]

Init ==
  /\ db = Empty /\ past = <<Moment(Empty)>>
  /\ chan = <<>> /\ frames = <<>> /\ synced = 0
  /\ file = [tip |-> 0, contents |-> <<>>, at |-> 1]
  /\ marker = FALSE /\ atEnd = TRUE /\ down = FALSE /\ crashes = 0

(* Wal::append blocks while the channel is full. *)
append(kind, n, at) == /\ Len(chan) < BOUND
                       /\ chan' = Append(chan, [kind |-> kind, n |-> n, at |-> at])

(* A store operation with its record; `at` is the moment it leads to. *)
Logged(s, kind, n) ==
  /\ ~down /\ ~marker /\ Len(past) <= MaxOps
  /\ append(kind, n, Len(past) + 1)
  /\ db' = s /\ past' = Append(past, Moment(s))
  /\ UNCHANGED <<frames, synced, file, marker, down, crashes>>

BeginBlock ==
  /\ Logged(begin_block(db, Tip(db) + 1), "BeginBlock", Tip(db) + 1)
  /\ atEnd' = FALSE

(* Any setter; the value is the moment's number, so no two are equal. *)
Write ==
  /\ ~atEnd
  /\ Logged(write(db, Len(past)), "Write", Len(past))
  /\ UNCHANGED atEnd

UnwindTo ==
  /\ \E t \in db.floor .. Tip(db) - 1 : Logged(unwind_to(db, t), "UnwindTo", t)
  /\ atEnd' = TRUE

(* A snapshot between blocks: the file is replaced in one rename ... *)
WriteSnapshot ==
  /\ ~down /\ ~marker /\ file.at # Len(past)
  /\ file' = [tip |-> Tip(db), contents |-> Contents(db), at |-> Len(past)]
  /\ marker' = TRUE /\ atEnd' = TRUE
  /\ UNCHANGED <<db, chan, frames, synced, down, past, crashes>>

(* ... and its marker appended behind it. *)
AppendMarker ==
  /\ ~down /\ marker /\ append("Snapshot", file.tip, file.at)
  /\ marker' = FALSE
  /\ UNCHANGED <<db, frames, synced, file, atEnd, down, past, crashes>>

(* writer_loop: write the frame, sync at block boundaries and markers. *)
writer_loop ==
  /\ ~down /\ chan # <<>>
  /\ chan' = Tail(chan)
  /\ frames' = Append(frames, Head(chan))
  /\ synced' = IF Head(chan).kind = "Write" THEN synced ELSE Len(frames) + 1
  /\ UNCHANGED <<db, file, marker, atEnd, down, past, crashes>>

(* The process and the machine stop: the channel is gone, and of the frames *)
(* not yet synced a prefix survives, the next one possibly torn.            *)
Crash ==
  /\ ~down /\ crashes < MaxCrashes /\ crashes' = crashes + 1
  /\ \E n \in synced .. Len(frames) :
       \/ frames' = SubSeq(frames, 1, n)
       \/ n < Len(frames) /\ frames' = Append(SubSeq(frames, 1, n), Torn)
  /\ down' = TRUE /\ synced' = Len(frames') /\ chan' = <<>> /\ marker' = FALSE
  /\ UNCHANGED <<db, file, atEnd, past>>

(* The next start recovers, and logs on behind what it found. *)
Recover ==
  /\ down /\ recover # Failed
  /\ db' = recover /\ past' = Append(past, Moment(recover))
  /\ down' = FALSE /\ atEnd' = TRUE
  /\ UNCHANGED <<chan, frames, synced, file, marker, crashes>>

Next == \/ BeginBlock \/ Write \/ UnwindTo \/ WriteSnapshot \/ AppendMarker
        \/ writer_loop \/ Crash \/ Recover

Spec == Init /\ [][Next]_vars

-----------------------------------------------------------------------------
Survived == \E i \in 1 .. Len(frames) :
              frames[i].kind = "Snapshot" /\ frames[i].at = file.at
LastLogged == Last(SelectSeq(frames, LAMBDA f : f # Torn)).at

(* With the snapshot's marker in the log, recovery is exact: the store is   *)
(* the one the hot thread had at the last frame that survived the crash -   *)
(* no record applied twice, none skipped, however earlier snapshots, their  *)
(* markers and reorgs lie in the log (wal.rs replay_into).                  *)
RecoverExact ==
  (down /\ Survived /\ recover # Failed) => Moment(recover) = past[LastLogged]

(* Recovery is refused only for what wal.rs names: a frame that fails its   *)
(* checksum in the middle of the log, or a reorg the log records that goes  *)
(* below the snapshot.                                                      *)
RefusalNamed ==
  (down /\ recover = Failed) =>
     \/ Corrupt(frames)
     \/ \E i \in Cut(replay(frames), file.tip) :
          replay(frames)[i].kind = "UnwindTo" /\ replay(frames)[i].n < file.tip

(* Recovery brings back what was logged, or names why it cannot (wal.rs      *)
(* recover, replay_into).                                                    *)
RecoveryExact == RecoverExact /\ RefusalNamed
=============================================================================
