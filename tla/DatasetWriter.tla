----------------------------- MODULE DatasetWriter -----------------------------
(***************************************************************************)
(* Recording a dataset (datasets/dataset_writer.py, dataset_metadata.py)   *)
(* over several sessions: frames are buffered, save_episode writes the     *)
(* data rows, then the video of every camera, the metadata row, info.json  *)
(* and stats.json; finalize closes the parquet files.  A save may fail     *)
(* between two of these steps, the process may die at any time, and a      *)
(* later session resumes on what is on disk.                               *)
(*                                                                         *)
(* A frame is its number.  A path is <<chunk_index, file_index>>.  Whether *)
(* a file is full, which the code decides by its size, is a choice.        *)
(***************************************************************************)
EXTENDS Naturals, Sequences, FiniteSets, SequencesExt

CONSTANTS
  video_keys,             (* the cameras                                    *)
  chunks_size,            (* files in a chunk                               *)
  metadata_buffer_size,   (* metadata rows that are kept before a write     *)
  MaxFrames, MaxSessions  (* bounds: frames and sessions of a behaviour     *)

VARIABLES
  data,       (* data/: the files, the open one, the latest episode's file  *)
  videos,     (* videos/<key>/: what each file shows, frame by frame        *)
  episodes,   (* meta/episodes/: the files, the open one, the buffered rows *)
  info,       (* info.json; the totals in memory differ from it only between *)
              (* the metadata row and write_info                            *)
  meta,       (* the last loaded row and latest_episode, each a row or none *)
  phase,      (* where the session is; "closed": there is none              *)
  buffer,     (* episode_buffer                                             *)
  row,        (* ep_metadata of the episode that is being saved             *)
  n, session, (* frames and sessions so far                                 *)
  saved,      (* the episodes whose metadata row was made                   *)
  failed, crashed,  (* a save failed after its rows were written; a crash   *)
  torn        (* tasks.parquet, info.json or stats.json is half written     *)

disk == <<data, videos, episodes, info>>
vars == <<disk, meta, phase, buffer, row, n, session, saved, failed, crashed, torn>>

None == <<>>
First == <<0, 0>>
NoRow == [data |-> None, videos |-> <<>>]

update_chunk_file_indices(path) ==
  IF path[2] = chunks_size - 1 THEN <<path[1] + 1, 0>> ELSE <<path[1], path[2] + 1>>

-------------------------------------------------------------------------------
(* A table of parquet files.  A file without its footer cannot be read; a    *)
(* new writer truncates the file of its path.                                *)

Put(f, x, v) == [y \in DOMAIN f \cup {x} |-> IF y = x THEN v ELSE f[y]]

Open(t, path) ==
  [t EXCEPT !.files = Put(@, path, [rows |-> <<>>, footer |-> FALSE]), !.open = path]

Write(t, path, rows) ==
  LET opened == IF t.open = None THEN Open(t, path) ELSE t
  IN  [opened EXCEPT !.files[opened.open].rows = @ \o rows]

Close(t) ==
  IF t.open = None THEN t ELSE [t EXCEPT !.files[t.open].footer = TRUE, !.open = None]

AllClosed(t) == \A path \in DOMAIN t.files : t.files[path].footer

Readable(t) == DOMAIN t.files # {} /\ AllClosed(t)

\* Files are read in the order of their paths, whose numbers have three digits:
\* up to 1000 files in a chunk and 1000 chunks.
Precedes(p, q) == p[1] < q[1] \/ (p[1] = q[1] /\ p[2] < q[2])

\* The file that i - 1 files precede.
Nth(files, i) == CHOOSE p \in files : Cardinality({q \in files : Precedes(q, p)}) = i - 1

load_nested_dataset(t) ==
  LET files == DOMAIN t.files
  IN  FlattenSeq([i \in 1 .. Cardinality(files) |-> t.files[Nth(files, i)].rows])

\* Of the metadata rows that are loaded, the writer only asks for the last,
\* episodes[-1].
LastRow(t) ==
  LET newest == CHOOSE p \in DOMAIN t.files : \A q \in DOMAIN t.files : q = p \/ Precedes(q, p)
  IN  Last(t.files[newest].rows)

\* Faulty variant: the rows stay in the buffer.
FlushKeepsBuffer(t) ==
  IF t.pending = <<>> THEN t ELSE Write(t, t.pending[1].meta, t.pending)

\* The buffered metadata rows go to the file that the first one names.
_flush_metadata_buffer(t) ==
  IF t.pending = <<>> THEN t
  ELSE [Write(t, t.pending[1].meta, t.pending) EXCEPT !.pending = <<>>]

_close_writer(t) == Close(_flush_metadata_buffer(t))

Init ==
  /\ data = [files |-> <<>>, open |-> None, latest |-> None]
  /\ videos = [key \in video_keys |-> <<>>]
  /\ episodes = [files |-> <<>>, open |-> None, pending |-> <<>>]
  /\ info = [episodes |-> 0, frames |-> 0]
  /\ meta = [loaded |-> <<>>, latest |-> <<>>]
  /\ phase = "closed" /\ buffer = <<>> /\ row = NoRow
  /\ n = 0 /\ session = 0 /\ saved = <<>> /\ failed = FALSE /\ crashed = FALSE /\ torn = FALSE

-------------------------------------------------------------------------------
(* Sessions.                                                                 *)

create ==
  /\ phase = "closed" /\ session = 0
  /\ phase' = "record" /\ session' = 1
  /\ UNCHANGED <<disk, meta, buffer, row, n, saved, failed, crashed, torn>>

\* The metadata must be there and readable.
resume ==
  /\ phase = "closed" /\ session \in 1 .. MaxSessions - 1
  /\ Readable(episodes) /\ ~torn
  /\ meta' = [loaded |-> <<LastRow(episodes)>>, latest |-> <<>>]
  /\ phase' = "record" /\ session' = session + 1
  /\ UNCHANGED <<disk, buffer, row, n, saved, failed, crashed, torn>>

\* Faulty variant: after an exception the data file is not closed.
CloseUnlessBroken ==
  /\ phase \in {"record", "broken"}
  /\ data' = [(IF phase = "broken" THEN data ELSE Close(data)) EXCEPT !.latest = None, !.open = None]
  /\ buffer' = <<>> /\ row' = NoRow /\ phase' = "flush"
  /\ UNCHANGED <<videos, episodes, info, meta, n, session, saved, failed, crashed, torn>>

\* finalize closes the data file ...
CloseData ==
  /\ phase \in {"record", "broken"}
  /\ data' = [Close(data) EXCEPT !.latest = None]
  /\ buffer' = <<>> /\ row' = NoRow /\ phase' = "flush"
  /\ UNCHANGED <<videos, episodes, info, meta, n, session, saved, failed, crashed, torn>>

\* Faulty variant: the metadata file is closed, the buffer is not flushed.
CloseMetaOnly ==
  /\ phase = "flush" /\ phase' = "closed"
  /\ episodes' = [Close(episodes) EXCEPT !.pending = <<>>]
  /\ meta' = [loaded |-> <<>>, latest |-> <<>>]
  /\ UNCHANGED <<data, videos, info, buffer, row, n, session, saved, failed, crashed, torn>>

\* ... then the metadata file.
CloseMeta ==
  /\ phase = "flush" /\ phase' = "closed"
  /\ episodes' = _close_writer(episodes)
  /\ meta' = [loaded |-> <<>>, latest |-> <<>>]
  /\ UNCHANGED <<data, videos, info, buffer, row, n, session, saved, failed, crashed, torn>>

\* A save writes tasks.parquet before the data, info.json with the videos of
\* the first episode and after every metadata row, then stats.json.  Each is
\* truncated first: an exception or a crash may leave it half written.
MayTear ==
  \/ phase = "record" /\ buffer # <<>>
  \/ phase = "video" /\ info.episodes = 0
  \/ phase \in {"info", "stats"}

Tear == torn' = torn \/ (MayTear /\ torn' = TRUE)

\* Memory is lost; open files stay without a footer.
Crash ==
  /\ phase # "closed" /\ phase' = "closed"
  /\ data' = [data EXCEPT !.open = None, !.latest = None]
  /\ episodes' = [episodes EXCEPT !.open = None, !.pending = <<>>]
  /\ meta' = [loaded |-> <<>>, latest |-> <<>>]
  /\ buffer' = <<>> /\ row' = NoRow /\ crashed' = TRUE /\ Tear
  /\ UNCHANGED <<videos, info, n, session, saved, failed>>

-------------------------------------------------------------------------------
(* An episode.                                                               *)

add_frame ==
  /\ phase = "record" /\ n < MaxFrames
  /\ n' = n + 1 /\ buffer' = Append(buffer, n')
  /\ UNCHANGED <<disk, meta, phase, row, session, saved, failed, crashed, torn>>

\* The operator records the episode again.
clear_episode_buffer ==
  /\ phase = "record" /\ buffer # <<>>
  /\ buffer' = <<>>
  /\ UNCHANGED <<disk, meta, phase, row, n, session, saved, failed, crashed, torn>>

\* Faulty variant: a resumed session goes on with the last file.
DataFileReused(full) ==
  IF data.latest # None
  THEN IF full THEN update_chunk_file_indices(data.latest) ELSE data.latest
  ELSE IF meta.loaded = <<>> THEN First ELSE meta.loaded[1].data

\* The data file of an episode, given whether the latest one is full.
DataFile(full) ==
  IF data.latest # None
  THEN IF full THEN update_chunk_file_indices(data.latest) ELSE data.latest
  ELSE IF meta.loaded = <<>> THEN First
       ELSE update_chunk_file_indices(meta.loaded[1].data)

_save_episode_data ==
  /\ phase = "record" /\ buffer # <<>>
  /\ \E full \in BOOLEAN :
       LET path == DataFile(full)
           rows == [k \in DOMAIN buffer |-> [index |-> info.frames + k - 1,
                                             episode_index |-> info.episodes,
                                             frame |-> buffer[k]]]
       IN  /\ full => data.latest # None
           /\ data' = [Write(IF full THEN Close(data) ELSE data, path, rows)
                         EXCEPT !.latest = path]
           /\ row' = [NoRow EXCEPT !.data = path]
  /\ phase' = "video"
  /\ UNCHANGED <<videos, episodes, info, meta, buffer, n, session, saved, failed, crashed, torn>>

\* Where in its file the video starts (from_timestamp, in frames).
VideoStart(key, full) ==
  IF meta.latest = <<>> \/ full THEN 0 ELSE meta.latest[1].videos[key].to

VideoFile(key, full) ==
  IF meta.latest # <<>>
  THEN LET path == meta.latest[1].videos[key].file
       IN  IF full THEN update_chunk_file_indices(path) ELSE path
  ELSE IF meta.loaded = <<>> THEN First
       ELSE update_chunk_file_indices(meta.loaded[1].videos[key].file)

\* A new file replaces what has its name; the same file is continued.
_save_episode_video(key) ==
  /\ phase = "video" /\ key \notin DOMAIN row.videos
  /\ \E full \in BOOLEAN :
       LET path == VideoFile(key, full)
           start == VideoStart(key, full)
           new == full \/ meta.latest = <<>>
       IN  /\ full => meta.latest # <<>>
           /\ videos' = [videos EXCEPT ![key] =
                           Put(@, path, IF new THEN buffer ELSE @[path] \o buffer)]
           /\ row' = [row EXCEPT !.videos =
                        Put(@, key, [file |-> path, from |-> start, to |-> start + Len(buffer)])]
  /\ UNCHANGED <<data, episodes, info, meta, phase, buffer, n, session, saved, failed, crashed, torn>>

\* The metadata row before the new one, in this session or an earlier one.
Before == IF meta.latest # <<>> THEN meta.latest ELSE meta.loaded

\* Faulty variant: a resumed session goes on with the last metadata file.
MetaFileReused(full) ==
  IF Before = <<>> THEN First
  ELSE IF full THEN update_chunk_file_indices(Before[1].meta) ELSE Before[1].meta

\* A resumed session moves to the next metadata file.
MetaFile(full) ==
  IF Before = <<>> THEN First
  ELSE IF full \/ meta.latest = <<>> THEN update_chunk_file_indices(Before[1].meta)
  ELSE Before[1].meta

\* meta.save_episode: the row is buffered ...  Its place in the data is counted
\* on from the row before; the rows of a full file are written and its writer
\* is closed first.  (order is a history: the rows made before it.)
_save_episode_metadata ==
  /\ phase = "video" /\ DOMAIN row.videos = video_keys
  /\ \E full \in BOOLEAN :
       LET start == IF Before = <<>> THEN 0 ELSE Before[1].dataset_to_index
           new == [episode_index |-> info.episodes, order |-> Len(saved),
                   dataset_from_index |-> start, dataset_to_index |-> start + Len(buffer),
                   data |-> row.data, videos |-> row.videos, meta |-> MetaFile(full)]
           table == IF full THEN _close_writer(episodes) ELSE episodes
           buffered == [table EXCEPT !.pending = Append(@, new)]
       IN  /\ full => meta.latest # <<>> /\ meta.latest[1].meta \in DOMAIN episodes.files
           /\ episodes' = IF Len(buffered.pending) >= metadata_buffer_size
                          THEN _flush_metadata_buffer(buffered) ELSE buffered
           /\ meta' = [meta EXCEPT !.latest = <<new>>]
  /\ saved' = Append(saved, buffer)
  /\ row' = NoRow /\ phase' = "info"
  /\ UNCHANGED <<data, videos, info, buffer, n, session, failed, crashed, torn>>

\* ... then the episode is counted in info.json ...
write_info ==
  /\ phase = "info" /\ phase' = "stats"
  /\ info' = [episodes |-> info.episodes + 1, frames |-> info.frames + Len(buffer)]
  /\ UNCHANGED <<data, videos, episodes, meta, buffer, row, n, session, saved, failed, crashed, torn>>

\* ... then the statistics are written, and the next episode may begin.
write_stats ==
  /\ phase = "stats" /\ phase' = "record"
  /\ buffer' = <<>>
  /\ UNCHANGED <<disk, meta, row, n, session, saved, failed, crashed, torn>>

\* An empty episode, an unreadable image, a failing encoder, a full disk: the
\* exception ends the session, through finalize.  The totals in memory are lost.
SaveRaises ==
  /\ phase \in {"record", "video", "info", "stats"} /\ phase' = "broken"
  /\ failed' = (failed \/ phase # "record") /\ Tear
  /\ UNCHANGED <<disk, meta, buffer, row, n, session, saved, crashed>>

-------------------------------------------------------------------------------
Next ==
  \/ create \/ resume \/ CloseData \/ CloseMeta \/ Crash
  \/ add_frame \/ clear_episode_buffer \/ _save_episode_data
  \/ (\E key \in video_keys : _save_episode_video(key))
  \/ _save_episode_metadata \/ write_info \/ write_stats \/ SaveRaises

Spec == Init /\ [][Next]_vars

-------------------------------------------------------------------------------
(* Types of the state.                                                       *)
TypeOK ==
  /\ phase \in {"closed", "record", "video", "info", "stats", "broken", "flush"}
  /\ buffer \in Seq(1 .. MaxFrames) /\ n \in 0 .. MaxFrames /\ session \in 0 .. MaxSessions
  /\ info \in [episodes : Nat, frames : Nat]
  /\ data.open # None => data.open \in DOMAIN data.files
  /\ episodes.open # None => episodes.open \in DOMAIN episodes.files
  /\ Len(episodes.pending) < metadata_buffer_size \/ metadata_buffer_size = 1
  /\ {failed, crashed, torn} \subseteq BOOLEAN

\* The episodes whose metadata a reader can load.
Listed == UNION {ToSet(episodes.files[path].rows) :
                   path \in {p \in DOMAIN episodes.files : episodes.files[p].footer}}

\* The k-th frame of an episode: what its video shows, and what the row at
\* its place in the data says (DatasetReader.get_item, by position).
VideoShows(m, k) ==
  \A key \in video_keys :
    videos[key][m.videos[key].file][m.videos[key].from + k] = saved[m.order + 1][k]

RowSays(m, k) ==
  load_nested_dataset(data)[m.dataset_from_index + k] =
    [index |-> m.dataset_from_index + k - 1, episode_index |-> m.episode_index,
     frame |-> saved[m.order + 1][k]]

(* Every episode that is listed keeps its rows, in the file its metadata     *)
(* names, and its stretch of every video, through full files, failing saves, *)
(* crashes and resumed sessions (dataset_writer.py:387-524).                 *)
ListedIsStored ==
  \A m \in Listed :
    /\ m.order < Len(saved)
    /\ \A k \in DOMAIN saved[m.order + 1] :
         /\ VideoShows(m, k)
         /\ \E i \in DOMAIN data.files[m.data].rows :
              /\ data.files[m.data].rows[i].episode_index = m.episode_index
              /\ data.files[m.data].rows[i].frame = saved[m.order + 1][k]

(* An episode that was listed once is listed ever after: no later session    *)
(* overwrites a metadata file, whatever the one before left behind           *)
(* (dataset_metadata.py:400-469).                                            *)
ListedStays == [][Listed \subseteq Listed']_vars

\* All of the dataset can be read, as it was recorded.
ReadsBack ==
  /\ Readable(data) /\ Readable(episodes)
  /\ Cardinality(Listed) = Len(saved) /\ info.episodes = Len(saved)
  /\ info.frames = Len(load_nested_dataset(data))
  /\ \A m \in Listed : m.episode_index = m.order
  /\ \A m \in Listed : \A k \in DOMAIN saved[m.order + 1] : RowSays(m, k)

(* Sessions that end through finalize leave a dataset in which every saved   *)
(* episode is found at the place its metadata gives, however many sessions,  *)
(* files and chunks it went through (dataset_writer.py:626-644).             *)
SessionsReadBack ==
  phase = "closed" /\ ~failed /\ ~crashed /\ saved # <<>> => ReadsBack

(* Whatever save raised, at whatever point, the first one too, and however   *)
(* many sessions followed: every file is closed, every row that was made is  *)
(* listed, and info.json counts no episode that is not (an episode that      *)
(* write_info fails for is listed and not counted)                           *)
(* (dataset_metadata.py:500-511, video_utils.py:1080-1105).                  *)
FailuresLeaveItWhole ==
  phase = "closed" /\ ~crashed =>
    /\ AllClosed(data) /\ AllClosed(episodes)
    /\ Cardinality(Listed) = Len(saved) /\ info.episodes <= Len(saved)

(* An exception is cleaned up: the frames of what was saved before and after *)
(* a failed save are where the metadata says (video_utils.py:1063).          *)
FailureReadsBack ==
  phase = "closed" /\ ~crashed =>
    \A m \in Listed : \A k \in DOMAIN saved[m.order + 1] :
      load_nested_dataset(data)[m.dataset_from_index + k].frame = saved[m.order + 1][k]

(* An episode's index is the number of episodes already in the dataset, so   *)
(* no other episode has it (feature_utils.py:345-349).                       *)
IndexIsItsOwn ==
  \A m, other \in Listed : m.episode_index = other.episode_index => m = other

(* Checkpoints are created during recording: if an issue occurs, one can     *)
(* resume (docs/source/il_robots.mdx:350-351).                               *)
IssueCanResume == phase = "closed" /\ info.episodes > 0 => Readable(episodes) /\ ~torn

================================================================================
