---------------------------- MODULE WriterProofs ----------------------------
(***************************************************************************)
(* Proofs about recording a dataset, for any number of cameras, frames,    *)
(* episodes, sessions, failing saves and crashes: a listed episode stays   *)
(* listed and keeps its rows and its videos; sessions that end through     *)
(* finalize leave every file closed and every row listed, and if no save   *)
(* failed, every episode counted and every frame where the metadata says.  *)
(***************************************************************************)
EXTENDS DatasetWriter, SequenceTheorems, FunctionTheorems, FiniteSetTheorems,
        WellFoundedInduction, TLAPS

WriterConstants ==
  /\ chunks_size \in Nat \ {0} /\ metadata_buffer_size \in Nat \ {0}
  /\ MaxFrames \in Nat /\ MaxSessions \in Nat \ {0}

-------------------------------------------------------------------------------
(* Paths are ordered, and the next file's path is a later one.               *)

Path == Nat \X (0 .. chunks_size - 1)
Paths == Path \cup {None}

LE(p, q) == p = q \/ Precedes(p, q)

LEMMA PathIsSome == ASSUME NEW p \in Path PROVE p # None
  BY DEF Path, None

LEMMA PathsAreOrdered ==
  ASSUME NEW p \in Path, NEW q \in Path
  PROVE  /\ ~Precedes(p, p)
         /\ LE(p, q) /\ LE(q, p) => p = q
         /\ \A r \in Path : LE(p, q) /\ LE(q, r) => LE(p, r)
         /\ \A r \in Path : LE(p, q) /\ Precedes(q, r) => Precedes(p, r)
<1>1. \A r \in Path : /\ r = <<r[1], r[2]>> /\ r[1] \in Int /\ r[2] \in Int
  BY DEF Path
<1> QED
  BY <1>1 DEF LE, Precedes

LEMMA NextPath ==
  ASSUME WriterConstants, NEW p \in Path
  PROVE  /\ update_chunk_file_indices(p) \in Path /\ Precedes(p, update_chunk_file_indices(p))
         /\ First \in Path
  BY DEF WriterConstants, Path, Precedes, First, update_chunk_file_indices

\* A file after every file of a set is none of them.
LEMMA LaterIsNew ==
  ASSUME WriterConstants, NEW p \in Path, NEW q \in Path, LE(q, p)
  PROVE  q # update_chunk_file_indices(p) /\ LE(q, update_chunk_file_indices(p))
<1>1. PICK u \in Path : u = update_chunk_file_indices(p) /\ Precedes(p, u)
  BY NextPath
<1>2. Precedes(q, u)
  BY <1>1, PathsAreOrdered
<1>3. ~Precedes(u, u)
  BY PathsAreOrdered
<1> QED
  BY <1>1, <1>2, <1>3 DEF LE

-------------------------------------------------------------------------------
(* Tables.                                                                   *)

File(R) == [rows : Seq(R), footer : BOOLEAN]

IsFiles(f, R) ==
  /\ f = [p \in DOMAIN f |-> f[p]] /\ DOMAIN f \subseteq Path
  /\ \A p \in DOMAIN f : f[p] \in File(R)

IsTable(t, R) ==
  /\ t = [k \in DOMAIN t |-> t[k]] /\ {"files", "open"} \subseteq DOMAIN t
  /\ IsFiles(t.files, R) /\ t.open \in Paths /\ (t.open # None => t.open \in DOMAIN t.files)

\* w is t but for its files and the open one.
Alike(w, t) ==
  /\ DOMAIN w = DOMAIN t /\ w = [k \in DOMAIN w |-> w[k]]
  /\ \A k \in DOMAIN t \ {"files", "open"} : w[k] = t[k]

LEMMA PutIs ==
  ASSUME NEW f, NEW x, NEW v
  PROVE  /\ DOMAIN Put(f, x, v) = DOMAIN f \cup {x} /\ Put(f, x, v)[x] = v
         /\ \A y \in DOMAIN f \ {x} : Put(f, x, v)[y] = f[y]
         /\ Put(f, x, v) = [y \in DOMAIN Put(f, x, v) |-> Put(f, x, v)[y]]
  BY DEF Put

IsOpened(w, t, path, R) ==
  /\ Alike(w, t) /\ IsTable(w, R)
  /\ w.open = path /\ DOMAIN w.files = DOMAIN t.files \cup {path}
  /\ w.files[path].rows = <<>> /\ w.files[path].footer = FALSE
  /\ \A p \in DOMAIN t.files \ {path} : w.files[p] = t.files[p]

LEMMA OpenIs ==
  ASSUME NEW R, NEW t, IsTable(t, R), NEW path \in Path
  PROVE  IsOpened(Open(t, path), t, path, R)
<1> SUFFICES ASSUME NEW w, w = Open(t, path) PROVE IsOpened(w, t, path, R)
  OBVIOUS
<1>0. PICK f : f = Put(t.files, path, [rows |-> <<>>, footer |-> FALSE])
  OBVIOUS
<1>1. /\ DOMAIN f = DOMAIN t.files \cup {path} /\ f[path] = [rows |-> <<>>, footer |-> FALSE]
      /\ \A p \in DOMAIN t.files \ {path} : f[p] = t.files[p]
      /\ f = [p \in DOMAIN f |-> f[p]]
  BY <1>0 DEF Put
<1>2. w = [t EXCEPT !.files = f, !.open = path]
  BY <1>0 DEF Open
<1>3. /\ DOMAIN w = DOMAIN t /\ w = [k \in DOMAIN w |-> w[k]] /\ w.files = f /\ w.open = path
      /\ \A k \in DOMAIN t \ {"files", "open"} : w[k] = t[k]
  BY <1>2 DEF IsTable
<1>4. IsFiles(f, R)
  <2>1. [rows |-> <<>>, footer |-> FALSE] \in File(R)
    BY DEF File
  <2> QED
    BY <1>1, <2>1 DEF IsTable, IsFiles
<1>5. f[path].rows = <<>> /\ f[path].footer = FALSE
  BY <1>1
<1> QED
  BY <1>1, <1>3, <1>4, <1>5, PathIsSome DEF IsTable, Alike, Paths, IsOpened

Appended(t, rows) == [t EXCEPT !.files[t.open].rows = t.files[t.open].rows \o rows]

IsAppended(w, t, rows, R) ==
  /\ Alike(w, t) /\ IsTable(w, R) /\ w.open = t.open /\ DOMAIN w.files = DOMAIN t.files
  /\ w.files[t.open].rows = t.files[t.open].rows \o rows
  /\ w.files[t.open].footer = t.files[t.open].footer
  /\ \A p \in DOMAIN t.files \ {t.open} : w.files[p] = t.files[p]

LEMMA AppendRows ==
  ASSUME NEW R, NEW t, IsTable(t, R), t.open # None, NEW rows \in Seq(R)
  PROVE  IsAppended(Appended(t, rows), t, rows, R)
<1> SUFFICES ASSUME NEW w, w = Appended(t, rows) PROVE IsAppended(w, t, rows, R)
  OBVIOUS
<1> DEFINE o == t.open
           f == [t.files EXCEPT ![o] = [t.files[o] EXCEPT !.rows = t.files[o].rows \o rows]]
<1>1. w = [t EXCEPT !.files = f]
  BY DEF Appended
<1>2. o \in DOMAIN t.files /\ t.files[o] \in File(R) /\ t.files = [p \in DOMAIN t.files |-> t.files[p]]
  BY DEF IsTable, IsFiles
<1>3. PICK all : all = t.files[o].rows \o rows
  OBVIOUS
<1>c. all \in Seq(R)
  BY <1>2, <1>3 DEF File
<1>g. PICK g : g = [t.files[o] EXCEPT !.rows = all]
  OBVIOUS
<1>4. /\ g \in File(R) /\ g.rows = t.files[o].rows \o rows /\ g.footer = t.files[o].footer
  BY <1>2, <1>3, <1>c, <1>g DEF File
<1>5. f = [t.files EXCEPT ![o] = g]
  BY <1>3, <1>g
<1> HIDE DEF f
<1>6. /\ DOMAIN f = DOMAIN t.files /\ f[o] = g /\ \A p \in DOMAIN t.files \ {o} : f[p] = t.files[p]
      /\ f = [p \in DOMAIN f |-> f[p]]
  BY <1>2, <1>5
<1>7. IsFiles(f, R)
  BY <1>4, <1>6 DEF IsTable, IsFiles
<1>8. /\ DOMAIN w = DOMAIN t /\ w = [k \in DOMAIN w |-> w[k]] /\ w.files = f /\ w.open = o
      /\ \A k \in DOMAIN t \ {"files", "open"} : w[k] = t[k]
  BY <1>1 DEF IsTable
<1> QED
  BY <1>2, <1>4, <1>6, <1>7, <1>8 DEF IsTable, Alike, IsAppended

\* Rows are written to the open file, or to a new one of the given path.
IsWritten(w, t, o, rows, R) ==
  /\ Alike(w, t) /\ IsTable(w, R) /\ w.open = o /\ DOMAIN w.files = DOMAIN t.files \cup {o}
  /\ t.open = None => w.files[o].rows = rows /\ w.files[o].footer = FALSE
  /\ t.open # None => /\ o \in DOMAIN t.files
                      /\ w.files[o].rows = t.files[o].rows \o rows
                      /\ w.files[o].footer = t.files[o].footer
  /\ \A p \in DOMAIN t.files \ {o} : w.files[p] = t.files[p]

LEMMA WriteIs ==
  ASSUME NEW R, NEW t, IsTable(t, R), NEW path \in Path, NEW rows \in Seq(R),
         NEW o, o = IF t.open = None THEN path ELSE t.open
  PROVE  IsWritten(Write(t, path, rows), t, o, rows, R)
<1> SUFFICES ASSUME NEW w, w = Write(t, path, rows) PROVE IsWritten(w, t, o, rows, R)
  OBVIOUS
<1>1. CASE t.open = None
  <2>1. PICK u : u = Open(t, path)
    OBVIOUS
  <2>2. IsOpened(u, t, path, R)
    BY <2>1, OpenIs
  <2>3. w = Appended(u, rows)
    BY <1>1, <2>1 DEF Write, Appended
  <2>4. u.open # None /\ u.open = path /\ IsTable(u, R)
    BY <2>2, PathIsSome DEF IsOpened
  <2>5. IsAppended(w, u, rows, R)
    BY <2>3, <2>4, AppendRows
  <2>6. <<>> \o rows = rows
    OBVIOUS
  <2>7. Alike(w, t)
    BY <2>2, <2>5 DEF Alike, IsOpened, IsAppended
  <2>8. o = path
    BY <1>1
  <2>9. w.files[o].rows = rows /\ w.files[o].footer = FALSE
    BY <2>2, <2>4, <2>5, <2>6, <2>8 DEF IsOpened, IsAppended
  <2> QED
    BY <1>1, <2>2, <2>4, <2>5, <2>7, <2>8, <2>9 DEF IsWritten, IsOpened, IsAppended
<1>2. CASE t.open # None
  <2>1. w = Appended(t, rows)
    BY <1>2 DEF Write, Appended
  <2>2. t.open \in DOMAIN t.files
    BY <1>2 DEF IsTable
  <2>3. IsAppended(w, t, rows, R)
    BY <1>2, <2>1, AppendRows
  <2> QED
    BY <1>2, <2>2, <2>3 DEF IsWritten, IsAppended
<1> QED
  BY <1>1, <1>2

IsClosed(w, t, R) ==
  /\ Alike(w, t) /\ IsTable(w, R) /\ w.open = None /\ DOMAIN w.files = DOMAIN t.files
  /\ \A p \in DOMAIN t.files : w.files[p].rows = t.files[p].rows
  /\ \A p \in DOMAIN t.files : w.files[p].footer <=> (p = t.open \/ t.files[p].footer)

LEMMA CloseIs ==
  ASSUME NEW R, NEW t, IsTable(t, R)
  PROVE  IsClosed(Close(t), t, R)
<1> SUFFICES ASSUME NEW w, w = Close(t) PROVE IsClosed(w, t, R)
  OBVIOUS
<1>1. CASE t.open = None
  <2>1. w = t
    BY <1>1 DEF Close
  <2>2. \A p \in DOMAIN t.files : p # None /\ t.files[p].footer \in BOOLEAN
    BY PathIsSome DEF IsTable, IsFiles, File
  <2> QED
    BY <1>1, <2>1, <2>2 DEF Alike, IsTable, IsClosed
<1>2. CASE t.open # None
  <2> DEFINE o == t.open
             f == [t.files EXCEPT ![o] = [t.files[o] EXCEPT !.footer = TRUE]]
  <2>1. w = [t EXCEPT !.files = f, !.open = None]
    BY <1>2 DEF Close
  <2>2. o \in DOMAIN t.files /\ t.files[o] \in File(R) /\ t.files = [p \in DOMAIN t.files |-> t.files[p]]
        /\ \A p \in DOMAIN t.files : t.files[p].footer \in BOOLEAN
    BY <1>2 DEF IsTable, IsFiles, File
  <2>3. PICK g : g = [t.files[o] EXCEPT !.footer = TRUE]
    OBVIOUS
  <2>4. g \in File(R) /\ g.rows = t.files[o].rows /\ g.footer = TRUE
    BY <2>2, <2>3 DEF File
  <2>5. f = [t.files EXCEPT ![o] = g]
    BY <2>3
  <2> HIDE DEF f
  <2>6. /\ DOMAIN f = DOMAIN t.files /\ f[o] = g /\ \A p \in DOMAIN t.files \ {o} : f[p] = t.files[p]
        /\ f = [p \in DOMAIN f |-> f[p]]
    BY <2>2, <2>5
  <2>7. IsFiles(f, R)
    BY <2>4, <2>6 DEF IsTable, IsFiles
  <2>8. /\ DOMAIN w = DOMAIN t /\ w = [k \in DOMAIN w |-> w[k]] /\ w.files = f /\ w.open = None
        /\ \A k \in DOMAIN t \ {"files", "open"} : w[k] = t[k]
    BY <2>1 DEF IsTable
  <2>9. IsTable(w, R) /\ Alike(w, t)
    BY <2>7, <2>8 DEF IsTable, Alike, Paths
  <2> QED
    BY <2>2, <2>4, <2>6, <2>8, <2>9 DEF IsClosed
<1> QED
  BY <1>1, <1>2

-------------------------------------------------------------------------------
(* The table of the metadata.                                                *)

VideoEntry == [file : Path, from : Nat, to : Nat]
MetaRow == [episode_index : Nat, order : Nat, dataset_from_index : Nat,
            dataset_to_index : Nat, data : Path, videos : [video_keys -> VideoEntry], meta : Path]
DataRow == [index : Nat, episode_index : Nat, frame : Nat]

MetaTable(t) ==
  IsTable(t, MetaRow) /\ DOMAIN t = {"files", "open", "pending"} /\ t.pending \in Seq(MetaRow)

\* The rows in the files, all rows, and those that can be loaded.
RowsOf(t) == UNION {ToSet(t.files[p].rows) : p \in DOMAIN t.files}
AllOf(t) == RowsOf(t) \cup ToSet(t.pending)
ListedOf(t) == UNION {ToSet(t.files[path].rows) : path \in {p \in DOMAIN t.files : t.files[p].footer}}

\* Row x is not older than row m, and its files are not either.
UpTo(m, x) ==
  /\ m.order <= x.order /\ LE(m.data, x.data) /\ LE(m.meta, x.meta)
  /\ \A key \in video_keys : LE(m.videos[key].file, x.videos[key].file)

Newest(t, x) ==
  /\ x \in AllOf(t) /\ \A m \in AllOf(t) : UpTo(m, x)
  /\ \A p \in DOMAIN t.files : LE(p, x.meta)

\* x is the last row of a session: it is buffered, or in the open file.
Writing(t, x) ==
  /\ t.pending # <<>> => t.pending[Len(t.pending)] = x
  /\ \A i \in DOMAIN t.pending : t.pending[i].meta = x.meta
  /\ IF t.open = None THEN x.meta \notin DOMAIN t.files ELSE t.open = x.meta

\* The last file ends with the newest row.
Top(t, top) ==
  /\ t.files[top].rows # <<>>
  /\ \A p \in DOMAIN t.files : LE(p, top)
  /\ LET x == t.files[top].rows[Len(t.files[top].rows)]
     IN  x.meta = top /\ \A m \in RowsOf(t) : UpTo(m, x)

TopOK(t) == DOMAIN t.files # {} => \E top \in DOMAIN t.files : Top(t, top)

Footers(t) == \A p \in DOMAIN t.files : t.files[p].footer <=> p # t.open

LEMMA ToSetOfConcat ==
  ASSUME NEW S, NEW s \in Seq(S), NEW r \in Seq(S)
  PROVE  ToSet(s \o r) = ToSet(s) \cup ToSet(r)
<1>1. /\ DOMAIN s = 1 .. Len(s) /\ DOMAIN r = 1 .. Len(r) /\ DOMAIN (s \o r) = 1 .. Len(s) + Len(r)
      /\ Len(s) \in Nat /\ Len(r) \in Nat
  OBVIOUS
<1>2. \A i \in 1 .. Len(s) + Len(r) : (s \o r)[i] = IF i <= Len(s) THEN s[i] ELSE r[i - Len(s)]
  OBVIOUS
<1>3. \A i \in DOMAIN s : i \in DOMAIN (s \o r) /\ (s \o r)[i] = s[i]
  BY <1>1, <1>2
<1>4. ASSUME NEW i \in DOMAIN r
      PROVE  i + Len(s) \in DOMAIN (s \o r) /\ (s \o r)[i + Len(s)] = r[i]
  <2>1. i \in Nat /\ i + Len(s) \in 1 .. Len(s) + Len(r) /\ ~(i + Len(s) <= Len(s)) /\ i + Len(s) - Len(s) = i
    BY <1>1
  <2> QED
    BY <1>1, <1>2, <2>1
<1>5. ASSUME NEW i \in DOMAIN (s \o r)
      PROVE  (s \o r)[i] \in ToSet(s) \cup ToSet(r)
  <2>1. CASE i <= Len(s)
    BY <1>1, <1>2, <2>1 DEF ToSet
  <2>2. CASE ~(i <= Len(s))
    <3>1. i - Len(s) \in DOMAIN r
      BY <1>1, <2>2
    <3> QED
      BY <1>1, <1>2, <2>2, <3>1 DEF ToSet
  <2> QED
    BY <2>1, <2>2
<1>6. ToSet(s \o r) \subseteq ToSet(s) \cup ToSet(r)
  <2>1. ASSUME NEW x \in ToSet(s \o r) PROVE x \in ToSet(s) \cup ToSet(r)
    <3>1. PICK i \in DOMAIN (s \o r) : x = (s \o r)[i]
      BY Zenon DEF ToSet
    <3> QED
      BY <1>5, <3>1
  <2> QED
    BY <2>1
<1>7. ToSet(s) \subseteq ToSet(s \o r) /\ ToSet(r) \subseteq ToSet(s \o r)
  BY <1>3, <1>4, Zenon DEF ToSet
<1> QED
  BY <1>6, <1>7

LEMMA RowsHaveType ==
  ASSUME NEW t, MetaTable(t)
  PROVE  /\ AllOf(t) \subseteq MetaRow /\ ListedOf(t) \subseteq RowsOf(t)
         /\ \A p \in DOMAIN t.files : p \in Path /\ t.files[p].rows \in Seq(MetaRow)
         /\ \A p \in DOMAIN t.files : t.files[p].footer \in BOOLEAN
<1>1. \A p \in DOMAIN t.files : /\ p \in Path /\ t.files[p].rows \in Seq(MetaRow)
                                /\ t.files[p].footer \in BOOLEAN
  BY DEF MetaTable, IsTable, IsFiles, File
<1>2. \A p \in DOMAIN t.files : ToSet(t.files[p].rows) \subseteq MetaRow
  BY <1>1 DEF ToSet
<1>3. ToSet(t.pending) \subseteq MetaRow
  BY DEF ToSet, MetaTable
<1>4. RowsOf(t) \subseteq MetaRow
  BY <1>2 DEF RowsOf
<1>5. ListedOf(t) \subseteq RowsOf(t)
  BY DEF ListedOf, RowsOf
<1> QED
  BY <1>1, <1>3, <1>4, <1>5 DEF AllOf

LEMMA UpToIsTransitive ==
  ASSUME NEW a \in MetaRow, NEW b \in MetaRow, NEW c \in MetaRow, UpTo(a, b), UpTo(b, c)
  PROVE  UpTo(a, c)
<1>1. a.order <= c.order
  BY DEF MetaRow, UpTo
<1>2. LE(a.data, c.data) /\ LE(a.meta, c.meta)
  <2>1. {a.data, b.data, c.data, a.meta, b.meta, c.meta} \subseteq Path
    BY DEF MetaRow
  <2> QED
    BY <2>1, PathsAreOrdered DEF UpTo
<1>3. ASSUME NEW key \in video_keys
      PROVE  LE(a.videos[key].file, c.videos[key].file)
  <2>1. a.videos[key].file \in Path /\ b.videos[key].file \in Path /\ c.videos[key].file \in Path
    BY DEF MetaRow, VideoEntry
  <2>2. LE(a.videos[key].file, b.videos[key].file) /\ LE(b.videos[key].file, c.videos[key].file)
    BY DEF UpTo
  <2> QED
    BY <2>1, <2>2, PathsAreOrdered
<1> QED
  BY <1>1, <1>2, <1>3 DEF UpTo

\* What a flush leaves.
Flushed(w, t, x) ==
  /\ MetaTable(w) /\ Newest(w, x) /\ Writing(w, x) /\ TopOK(w)
  /\ AllOf(w) = AllOf(t) /\ w.pending = <<>> /\ ListedOf(t) \subseteq ListedOf(w)
  /\ Footers(t) => Footers(w)
  /\ t.open # None => w.open = t.open

LEMMA FlushIs ==
  ASSUME NEW t, MetaTable(t), NEW x \in MetaRow, Newest(t, x), Writing(t, x), TopOK(t), Footers(t)
  PROVE  Flushed(_flush_metadata_buffer(t), t, x)
<1>1. CASE t.pending = <<>>
  BY <1>1 DEF _flush_metadata_buffer, Flushed
<1>2. CASE t.pending # <<>>
  <2> DEFINE o == IF t.open = None THEN t.pending[1].meta ELSE t.open
  <2>1. 1 \in DOMAIN t.pending /\ Len(t.pending) \in DOMAIN t.pending /\ DOMAIN t.pending = 1 .. Len(t.pending)
    BY <1>2 DEF MetaTable
  <2>2. o = x.meta /\ o \in Path
    BY <2>1 DEF Writing, MetaRow
  <2>3. PICK v : v = Write(t, t.pending[1].meta, t.pending)
    OBVIOUS
  <2>4. t.pending \in Seq(MetaRow) /\ IsTable(t, MetaRow) /\ t.pending[1].meta \in Path
    <3>1. t.pending[1] \in MetaRow
      BY <2>1 DEF MetaTable
    <3> QED
      BY <3>1 DEF MetaTable, MetaRow
  <2>5. IsWritten(v, t, o, t.pending, MetaRow)
    BY <2>3, <2>4, WriteIs
  <2> HIDE DEF o
  <2>6. PICK w : w = _flush_metadata_buffer(t)
    OBVIOUS
  <2>7. w = [v EXCEPT !.pending = <<>>]
    BY <1>2, <2>3, <2>6 DEF _flush_metadata_buffer
  <2>8. /\ v = [k \in DOMAIN v |-> v[k]] /\ DOMAIN v = {"files", "open", "pending"}
    BY <2>5 DEF IsWritten, Alike, MetaTable
  <2>9. /\ DOMAIN w = {"files", "open", "pending"} /\ w = [k \in DOMAIN w |-> w[k]]
        /\ w.files = v.files /\ w.open = v.open /\ w.pending = <<>>
    BY <2>7, <2>8
  <2>10. MetaTable(w)
    BY <2>5, <2>9 DEF MetaTable, IsTable, IsWritten
  <2>11. /\ DOMAIN w.files = DOMAIN t.files \cup {o} /\ w.open = o
         /\ \A p \in DOMAIN t.files \ {o} : w.files[p] = t.files[p]
    BY <2>5, <2>9 DEF IsWritten
  <2>12. /\ o \in DOMAIN t.files => /\ t.open = o /\ t.files[o].rows \in Seq(MetaRow)
                                    /\ w.files[o].rows = t.files[o].rows \o t.pending
                                    /\ w.files[o].footer = t.files[o].footer
         /\ o \notin DOMAIN t.files => /\ t.open = None /\ w.files[o].rows = t.pending
                                       /\ w.files[o].footer = FALSE
    <3>1. t.open = None <=> o \notin DOMAIN t.files
      BY <2>2, <2>4 DEF Writing, IsTable
    <3>2. t.open # None => t.open = o
      BY DEF o
    <3> QED
      BY <2>5, <2>9, <3>1, <3>2, RowsHaveType DEF IsWritten
  <2>13. ToSet(w.files[o].rows) = ToSet(t.pending) \cup IF o \in DOMAIN t.files THEN ToSet(t.files[o].rows) ELSE {}
    <3>1. CASE o \in DOMAIN t.files
      <4>1. PICK r \in Seq(MetaRow) : r = t.files[o].rows
        BY <2>12, <3>1
      <4>2. w.files[o].rows = r \o t.pending
        BY <2>12, <3>1, <4>1
      <4>3. ToSet(r \o t.pending) = ToSet(r) \cup ToSet(t.pending)
        BY <2>4, ToSetOfConcat
      <4> QED
        BY <3>1, <4>1, <4>2, <4>3
    <3>2. CASE o \notin DOMAIN t.files
      BY <2>12, <3>2
    <3> QED
      BY <3>1, <3>2
  <2>14. RowsOf(w) = AllOf(t) /\ AllOf(w) = AllOf(t)
    <3>1. RowsOf(w) = AllOf(t)
      BY <2>11, <2>13 DEF RowsOf, AllOf
    <3>2. ToSet(w.pending) = {}
      BY <2>9 DEF ToSet
    <3> QED
      BY <3>1, <3>2 DEF AllOf
  <2>15. Newest(w, x)
    BY <2>2, <2>11, <2>14 DEF Newest, LE
  <2>16. Writing(w, x)
    BY <2>2, <2>9, <2>11, PathIsSome DEF Writing
  <2>17. w.files[o].rows # <<>> /\ w.files[o].rows[Len(w.files[o].rows)] = x
    <3>1. CASE o \notin DOMAIN t.files
      BY <1>2, <2>12, <3>1 DEF Writing
    <3>2. CASE o \in DOMAIN t.files
      <4>1. PICK r \in Seq(MetaRow) : r = t.files[o].rows
        BY <2>12, <3>2
      <4>2. w.files[o].rows = r \o t.pending
        BY <2>12, <3>2, <4>1
      <4>3. Len(r \o t.pending) = Len(r) + Len(t.pending) /\ Len(t.pending) > 0 /\ Len(r) \in Nat
        BY <1>2, <2>4
      <4>4. (r \o t.pending)[Len(r) + Len(t.pending)] = t.pending[Len(t.pending)]
        BY <1>2, <2>4, <4>3
      <4>5. r \o t.pending # <<>>
        BY <4>3, <2>4
      <4> QED
        BY <1>2, <4>2, <4>3, <4>4, <4>5 DEF Writing
    <3> QED
      BY <3>1, <3>2
  <2>18. Top(w, o)
    BY <2>2, <2>14, <2>15, <2>17 DEF Top, Newest
  <2>19. TopOK(w)
    BY <2>11, <2>18 DEF TopOK
  <2>20. ListedOf(t) \subseteq ListedOf(w)
    <3>2. ASSUME NEW p \in DOMAIN t.files, t.files[p].footer
          PROVE  p \in DOMAIN w.files /\ w.files[p] = t.files[p]
      <4>1. p # o
        BY <2>12, <3>2 DEF Footers
      <4> QED
        BY <2>11, <4>1
    <3> QED
      BY <3>2 DEF ListedOf
  <2>21. Footers(w)
    <3>1. ASSUME NEW p \in DOMAIN w.files
          PROVE  w.files[p].footer <=> p # w.open
      <4>1. CASE p # o
        <5>1. p \in DOMAIN t.files /\ w.files[p] = t.files[p] /\ p # t.open
          BY <2>11, <2>12, <4>1, RowsHaveType, PathIsSome DEF o
        <5> QED
          BY <2>11, <4>1, <5>1 DEF Footers
      <4>2. CASE p = o
        <5>1. o \in DOMAIN t.files => ~t.files[o].footer
          BY <2>12 DEF Footers
        <5> QED
          BY <2>11, <2>12, <4>2, <5>1
      <4> QED
        BY <4>1, <4>2
    <3> QED
      BY <3>1 DEF Footers
  <2> QED
    BY <2>6, <2>9, <2>10, <2>11, <2>12, <2>14, <2>15, <2>16, <2>19, <2>20, <2>21, <2>2, PathIsSome DEF Flushed
<1> QED
  BY <1>1, <1>2

\* What closing a table leaves.
LEMMA CloseMetaIs ==
  ASSUME NEW t, MetaTable(t), NEW w, w = Close(t)
  PROVE  /\ MetaTable(w) /\ AllOf(w) = AllOf(t) /\ w.pending = t.pending
         /\ w.open = None /\ DOMAIN w.files = DOMAIN t.files /\ ListedOf(t) \subseteq ListedOf(w)
         /\ Footers(t) => Footers(w)
         /\ TopOK(t) => TopOK(w)
         /\ \A x : Newest(t, x) => Newest(w, x)
<1>1. IsClosed(w, t, MetaRow)
  BY CloseIs DEF MetaTable
<1>2. /\ DOMAIN w = DOMAIN t /\ w.pending = t.pending /\ w.open = None /\ DOMAIN w.files = DOMAIN t.files
      /\ \A p \in DOMAIN t.files : w.files[p].rows = t.files[p].rows
  BY <1>1 DEF IsClosed, Alike, MetaTable
<1>3. MetaTable(w)
  BY <1>1, <1>2 DEF IsClosed, MetaTable
<1>4. RowsOf(w) = RowsOf(t) /\ AllOf(w) = AllOf(t)
  BY <1>2 DEF RowsOf, AllOf
<1>5. ListedOf(t) \subseteq ListedOf(w)
  BY <1>1, <1>2 DEF ListedOf, IsClosed
<1>6. Footers(t) => Footers(w)
  BY <1>1, <1>2, RowsHaveType, PathIsSome DEF Footers, IsClosed
<1>7. TopOK(t) => TopOK(w)
  BY <1>2, <1>4 DEF TopOK, Top
<1>8. \A x : Newest(t, x) => Newest(w, x)
  BY <1>2, <1>4 DEF Newest
<1> QED
  BY <1>2, <1>3, <1>4, <1>5, <1>6, <1>7, <1>8

-------------------------------------------------------------------------------
(* Reading a dataset: files in their order, one behind the other.            *)

LEMMA LeastElement ==
  ASSUME NEW T, T \subseteq Nat, T # {}
  PROVE  \E x \in T : \A y \in T : x <= y
<1>1. PICK R : R = OpToRel(<, Nat)
  OBVIOUS
<1>2. IsWellFoundedOn(R, Nat)
  BY <1>1, NatLessThanWellFounded
<1>3. \A x, y \in Nat : x < y => <<x, y>> \in R
  BY <1>1 DEF OpToRel
<1>4. PICK x \in T : \A y \in T : ~(<<y, x>> \in R)
  BY <1>2, WFMin
<1>5. ASSUME NEW y \in T PROVE x <= y
  <2>1. x \in Nat /\ y \in Nat /\ ~(y < x)
    BY <1>3, <1>4
  <2> QED
    BY <2>1
<1> QED
  BY <1>5

\* What the recursion of FlattenSeq has after each of the first k sequences.
IsFlattening(f, s, k) == f = [i \in 1 .. k |-> IF i = 1 THEN s[i] ELSE f[i - 1] \o s[i]]

LEMMA FlatteningExists ==
  ASSUME NEW s, NEW c \in Nat
  PROVE  \E f : IsFlattening(f, s, c)
<1> DEFINE T == {k \in Nat : ~ \E f : IsFlattening(f, s, k)}
<1>1. ASSUME T # {} PROVE FALSE
  <2>0. T \subseteq Nat
    OBVIOUS
  <2>1. PICK k \in T : \A j \in T : k <= j
    BY <1>1, <2>0, LeastElement
  <2>2. CASE k = 0
    <3>1. IsFlattening(<<>>, s, 0)
      BY DEF IsFlattening
    <3> QED
      BY <2>1, <2>2, <3>1
  <2>3. CASE k # 0
    <3>1. k - 1 \in Nat /\ k - 1 \notin T
      BY <2>1, <2>3
    <3>2. PICK g : IsFlattening(g, s, k - 1)
      BY <3>1
    <3>3. PICK f : f = [i \in 1 .. k |-> IF i = 1 THEN s[i]
                                        ELSE (IF i < k THEN g[i - 1] ELSE g[k - 1]) \o s[i]]
      OBVIOUS
    <3>4. \A i \in 1 .. k - 1 : g[i] = IF i = 1 THEN s[i] ELSE g[i - 1] \o s[i]
      BY <3>2 DEF IsFlattening
    <3>5. \A i \in 1 .. k - 1 : f[i] = g[i]
      BY <2>1, <3>3, <3>4
    <3>6. \A i \in 1 .. k : f[i] = IF i = 1 THEN s[i] ELSE f[i - 1] \o s[i]
      <4>1. \A i \in 1 .. k : i # 1 => i - 1 \in 1 .. k - 1 /\ (~(i < k) => i - 1 = k - 1)
        BY <2>1
      <4> QED
        BY <3>3, <3>5, <4>1
    <3>7. IsFlattening(f, s, k)
      BY <3>3, <3>6 DEF IsFlattening
    <3> QED
      BY <2>1, <3>7
  <2> QED
    BY <2>2, <2>3
<1> QED
  BY <1>1

Agree(f, g, k) == \A i \in 1 .. k : f[i] = g[i]

LEMMA FlatteningUnique ==
  ASSUME NEW c \in Nat, NEW m \in Nat, m <= c, NEW s, NEW r, Agree(s, r, m),
         NEW f, IsFlattening(f, s, c), NEW g, IsFlattening(g, r, m)
  PROVE  Agree(f, g, m)
<1> USE DEF Agree
<1> DEFINE T == {i \in 1 .. m : f[i] # g[i]}
<1>1. ASSUME T # {} PROVE FALSE
  <2>0. T \subseteq Nat
    OBVIOUS
  <2>1. PICK k \in T : \A j \in T : k <= j
    BY <1>1, <2>0, LeastElement
  <2>2. k \in 1 .. m /\ k \in 1 .. c /\ (k # 1 => k - 1 \in 1 .. m /\ k - 1 \notin T)
    BY <2>1
  <2>3. f[k] = IF k = 1 THEN s[k] ELSE f[k - 1] \o s[k]
    BY <2>2 DEF IsFlattening
  <2>4. g[k] = IF k = 1 THEN r[k] ELSE g[k - 1] \o r[k]
    BY <2>2 DEF IsFlattening
  <2>5. k # 1 => f[k - 1] = g[k - 1]
    BY <2>2
  <2>6. f[k] = g[k]
    BY <2>2, <2>3, <2>4, <2>5
  <2> QED
    BY <2>1, <2>6
<1> QED
  BY <1>1

LEMMA FlattenIs ==
  ASSUME NEW s, Len(s) \in Nat \ {0}
  PROVE  \E f : IsFlattening(f, s, Len(s)) /\ FlattenSeq(s) = f[Len(s)]
<1>1. \E f : f = (CHOOSE g : g = [i \in 1 .. Len(s) |-> IF i = 1 THEN s[i] ELSE g[i - 1] \o s[i]])
             /\ FlattenSeq(s) = f[Len(s)]
  BY DEF FlattenSeq
<1>2. \E g : g = [i \in 1 .. Len(s) |-> IF i = 1 THEN s[i] ELSE g[i - 1] \o s[i]]
  BY FlatteningExists DEF IsFlattening
<1> QED
  BY <1>1, <1>2 DEF IsFlattening

LEMMA FlattenType ==
  ASSUME NEW R, NEW s \in Seq(Seq(R))
  PROVE  FlattenSeq(s) \in Seq(R)
<1>1. CASE s = <<>>
  BY <1>1 DEF FlattenSeq
<1>2. CASE s # <<>>
  <2>1. Len(s) \in Nat \ {0} /\ \A i \in 1 .. Len(s) : s[i] \in Seq(R)
    BY <1>2
  <2>2. PICK f : IsFlattening(f, s, Len(s)) /\ FlattenSeq(s) = f[Len(s)]
    BY <2>1, FlattenIs
  <2>3. \A i \in 1 .. Len(s) : f[i] = IF i = 1 THEN s[i] ELSE f[i - 1] \o s[i]
    BY <2>2 DEF IsFlattening
  <2> DEFINE T == {i \in 1 .. Len(s) : f[i] \notin Seq(R)}
  <2>4. ASSUME T # {} PROVE FALSE
    <3>0. T \subseteq Nat
      OBVIOUS
    <3>1. PICK k \in T : \A j \in T : k <= j
      BY <2>4, <3>0, LeastElement
    <3>2. k \in 1 .. Len(s) /\ (k # 1 => k - 1 \in 1 .. Len(s) /\ k - 1 \notin T)
      BY <2>1, <3>1
    <3>3. k # 1 => f[k - 1] \in Seq(R)
      BY <3>2
    <3>4. f[k] \in Seq(R)
      <4>1. s[k] \in Seq(R)
        BY <2>1, <3>2
      <4>2. ASSUME NEW a \in Seq(R), NEW b \in Seq(R) PROVE a \o b \in Seq(R)
        OBVIOUS
      <4> QED
        BY <2>3, <3>2, <3>3, <4>1, <4>2
    <3> QED
      BY <3>1, <3>4
  <2> QED
    BY <2>1, <2>2, <2>4
<1> QED
  BY <1>1, <1>2

LEMMA FlattenAppend ==
  ASSUME NEW R, NEW s \in Seq(Seq(R)), NEW x \in Seq(R)
  PROVE  FlattenSeq(Append(s, x)) = FlattenSeq(s) \o x
<1>1. PICK r \in Seq(Seq(R)) : r = Append(s, x)
  BY AppendProperties
<1>2. Len(s) \in Nat /\ Len(r) = Len(s) + 1 /\ r[Len(s) + 1] = x /\ \A i \in 1 .. Len(s) : r[i] = s[i]
  BY <1>1, AppendProperties
<1>3. PICK g : IsFlattening(g, r, Len(r)) /\ FlattenSeq(r) = g[Len(r)]
  BY <1>2, FlattenIs
<1>4. g[Len(r)] = IF Len(r) = 1 THEN r[Len(r)] ELSE g[Len(r) - 1] \o r[Len(r)]
  <2>1. Len(r) \in 1 .. Len(r)
    BY <1>2
  <2> QED
    BY <1>3, <2>1 DEF IsFlattening
<1>5. CASE s = <<>>
  <2>1. Len(s) = 0 /\ FlattenSeq(s) = <<>>
    BY <1>5 DEF FlattenSeq
  <2>2. <<>> \o x = x
    OBVIOUS
  <2> QED
    BY <1>1, <1>2, <1>3, <1>4, <2>1, <2>2
<1>6. CASE s # <<>>
  <2>1. Len(s) # 0
    BY <1>6
  <2>2. PICK f : IsFlattening(f, s, Len(s)) /\ FlattenSeq(s) = f[Len(s)]
    BY <1>2, <2>1, FlattenIs
  <2>3. g[Len(s)] = f[Len(s)]
    <3>1. PICK m \in Nat, c \in Nat : m = Len(s) /\ c = Len(r)
      BY <1>2
    <3>2. m <= c /\ m \in 1 .. m /\ Agree(r, s, m)
      BY <1>2, <2>1, <3>1 DEF Agree
    <3>3. IsFlattening(g, r, c) /\ IsFlattening(f, s, m)
      BY <1>3, <2>2, <3>1
    <3>4. Agree(g, f, m)
      BY <3>2, <3>3, FlatteningUnique
    <3> QED
      BY <3>1, <3>2, <3>4 DEF Agree
  <2>4. Len(r) # 1 /\ Len(r) - 1 = Len(s)
    BY <1>2, <2>1
  <2> QED
    BY <1>1, <1>2, <1>3, <1>4, <2>2, <2>3, <2>4
<1> QED
  BY <1>5, <1>6

-------------------------------------------------------------------------------
(* The order of the files: each has as many before it as its number says.    *)

Earlier(files, p) == {q \in files : Precedes(q, p)}
Rank(files, p) == Cardinality(Earlier(files, p))

LEMMA PathsAreComparable ==
  ASSUME NEW p \in Path, NEW q \in Path PROVE p = q \/ Precedes(p, q) \/ Precedes(q, p)
<1>1. /\ p = <<p[1], p[2]>> /\ p[1] \in Int /\ p[2] \in Int
      /\ q = <<q[1], q[2]>> /\ q[1] \in Int /\ q[2] \in Int
  BY DEF Path
<1> QED
  BY <1>1 DEF Precedes

\* A file has fewer before it than one that it precedes, and than there are.
LEMMA RankGrows ==
  ASSUME NEW files, files \subseteq Path, IsFiniteSet(files), NEW p \in files
  PROVE  /\ Rank(files, p) \in 0 .. Cardinality(files) - 1
         /\ \A q \in files : Precedes(p, q) => Rank(files, p) < Rank(files, q)
<1>1. ASSUME NEW S, S \subseteq files, NEW x \in S, Earlier(files, p) \subseteq S \ {x}
      PROVE  Rank(files, p) \in Nat /\ Cardinality(S) \in Nat /\ Rank(files, p) < Cardinality(S)
  <2>1. IsFiniteSet(S)
    BY <1>1, FS_Subset
  <2>2. /\ IsFiniteSet(S \ {x}) /\ Cardinality(S \ {x}) = Cardinality(S) - 1
        /\ Cardinality(S) \in Nat
    BY <1>1, <2>1, FS_RemoveElement, FS_CardinalityType
  <2>3. /\ IsFiniteSet(Earlier(files, p)) /\ Rank(files, p) <= Cardinality(S \ {x})
        /\ Rank(files, p) \in Nat
    BY <1>1, <2>2, FS_Subset, FS_CardinalityType DEF Rank
  <2> QED
    BY <2>2, <2>3
<1>2. Earlier(files, p) \subseteq files \ {p}
  BY PathsAreOrdered DEF Earlier
<1>3. Rank(files, p) \in Nat /\ Cardinality(files) \in Nat /\ Rank(files, p) < Cardinality(files)
  BY <1>1, <1>2
<1>4. ASSUME NEW q \in files, Precedes(p, q) PROVE Rank(files, p) < Rank(files, q)
  <2>1. p \in Earlier(files, q) /\ Earlier(files, q) \subseteq files
    BY <1>4 DEF Earlier
  <2>2. Earlier(files, p) \subseteq Earlier(files, q)
    BY <1>4, PathsAreOrdered DEF Earlier, LE
  <2>3. Earlier(files, p) \subseteq Earlier(files, q) \ {p}
    BY <1>2, <2>2
  <2> QED
    BY <1>1, <2>1, <2>3 DEF Rank
<1> QED
  BY <1>3, <1>4

LEMMA RankIsOwn ==
  ASSUME NEW files, files \subseteq Path, IsFiniteSet(files), NEW p \in files, NEW q \in files,
         Rank(files, p) = Rank(files, q)
  PROVE  p = q
<1>1. Rank(files, p) \in Nat /\ Rank(files, q) \in Nat
  BY RankGrows
<1>2. ~(Rank(files, p) < Rank(files, q)) /\ ~(Rank(files, q) < Rank(files, p))
  BY <1>1
<1>3. ~Precedes(p, q) /\ ~Precedes(q, p)
  BY <1>2, RankGrows
<1> QED
  BY <1>3, PathsAreComparable

\* Nth finds the file.
LEMMA NthOfRank ==
  ASSUME NEW files, files \subseteq Path, IsFiniteSet(files), NEW p \in files,
         NEW i \in Nat, Rank(files, p) = i - 1
  PROVE  Nth(files, i) = p
<1>1. \A q \in files : Rank(files, q) = i - 1 => q = p
  BY RankIsOwn
<1>2. Nth(files, i) = CHOOSE q \in files : Rank(files, q) = i - 1
  BY DEF Nth, Rank, Earlier
<1> QED
  BY <1>1, <1>2

LEMMA NthIs ==
  ASSUME NEW files, files \subseteq Path, IsFiniteSet(files), NEW i \in 1 .. Cardinality(files)
  PROVE  Nth(files, i) \in files /\ Rank(files, Nth(files, i)) = i - 1
<1>1. PICK c \in Nat : c = Cardinality(files)
  BY FS_CardinalityType
<1> DEFINE rank == [p \in files |-> Rank(files, p)]
<1>2. rank \in Injection(files, 0 .. c - 1)
  <2>1. rank \in [files -> 0 .. c - 1]
    BY <1>1, RankGrows
  <2>2. \A p, q \in files : rank[p] = rank[q] => p = q
    BY RankIsOwn
  <2> QED
    BY <2>1, <2>2 DEF Injection, IsInjective
<1>3. IsFiniteSet(0 .. c - 1) /\ Cardinality(0 .. c - 1) = c
  <2>1. IsFiniteSet(0 .. c - 1) /\ Cardinality(0 .. c - 1) = IF 0 > c - 1 THEN 0 ELSE c - 1 - 0 + 1
    BY FS_Interval
  <2> QED
    BY <2>1
<1>4. rank \in Surjection(files, 0 .. c - 1)
  BY <1>1, <1>2, <1>3, FS_Injection
<1>5. i - 1 \in 0 .. c - 1 /\ i \in Nat
  BY <1>1
<1>6. PICK p \in files : Rank(files, p) = i - 1
  BY <1>4, <1>5 DEF Surjection
<1>7. Nth(files, i) = p
  BY <1>5, <1>6, NthOfRank
<1> QED
  BY <1>6, <1>7

\* A new file behind the others is the last one, and the others stay.
LEMMA NthOfMore ==
  ASSUME NEW files, files \subseteq Path, IsFiniteSet(files), NEW p \in Path \ files,
         \A q \in files : LE(q, p), NEW c, c = Cardinality(files)
  PROVE  /\ c \in Nat /\ IsFiniteSet(files \cup {p}) /\ Cardinality(files \cup {p}) = c + 1
         /\ \A i \in 1 .. c : Nth(files, i) \in files /\ Nth(files \cup {p}, i) = Nth(files, i)
         /\ Nth(files \cup {p}, c + 1) = p
<1>1. PICK more : more = files \cup {p}
  OBVIOUS
<1>2. /\ c \in Nat /\ IsFiniteSet(more) /\ Cardinality(more) = c + 1 /\ more \subseteq Path
      /\ p \in more /\ files \subseteq more
  BY <1>1, FS_AddElement, FS_CardinalityType
<1>3. ASSUME NEW i \in 1 .. c PROVE Nth(files, i) \in files /\ Nth(more, i) = Nth(files, i)
  <2>1. PICK x \in files : x = Nth(files, i) /\ Rank(files, x) = i - 1
    BY NthIs
  <2>2. ~Precedes(p, x)
    BY PathsAreOrdered DEF LE
  <2>3. Earlier(more, x) = Earlier(files, x)
    BY <1>1, <2>2 DEF Earlier
  <2>4. Rank(more, x) = i - 1 /\ i \in Nat /\ x \in more
    BY <1>2, <2>1, <2>3 DEF Rank
  <2> QED
    BY <1>2, <2>1, <2>4, NthOfRank
<1>4. Nth(more, c + 1) = p
  <2>1. Earlier(more, p) = files
    BY <1>1, PathsAreOrdered DEF Earlier, LE
  <2>2. Rank(more, p) = (c + 1) - 1 /\ c + 1 \in Nat
    BY <1>2, <2>1 DEF Rank
  <2> QED
    BY <1>2, <2>2, NthOfRank
<1> QED
  BY <1>1, <1>2, <1>3, <1>4

-------------------------------------------------------------------------------
(* What is read of the data files.                                           *)

RowsIn(f) == [i \in 1 .. Cardinality(DOMAIN f) |-> f[Nth(DOMAIN f, i)].rows]
Load(f) == FlattenSeq(RowsIn(f))

\* Files that can be in data/.
DataFiles(f) == IsFiles(f, DataRow) /\ IsFiniteSet(DOMAIN f)

LEMMA LoadedIsLoad == ASSUME NEW t PROVE load_nested_dataset(t) = Load(t.files)
  BY DEF load_nested_dataset, Load, RowsIn

LEMMA LoadType ==
  ASSUME NEW f, DataFiles(f)
  PROVE  RowsIn(f) \in Seq(Seq(DataRow)) /\ Load(f) \in Seq(DataRow)
<1>1. PICK c \in Nat : c = Cardinality(DOMAIN f)
  BY FS_CardinalityType DEF DataFiles
<1>2. PICK r : r = RowsIn(f)
  OBVIOUS
<1>3. r = [i \in 1 .. c |-> f[Nth(DOMAIN f, i)].rows]
  BY <1>1, <1>2 DEF RowsIn
<1>4. ASSUME NEW i \in 1 .. c PROVE r[i] \in Seq(DataRow)
  <2>1. Nth(DOMAIN f, i) \in DOMAIN f
    BY <1>1, NthIs DEF DataFiles, IsFiles
  <2> QED
    BY <1>3, <2>1 DEF DataFiles, IsFiles, File
<1>5. r \in Seq(Seq(DataRow))
  BY <1>3, <1>4
<1> QED
  BY <1>2, <1>5, FlattenType DEF Load

LEMMA LoadSame ==
  ASSUME NEW f, NEW g, DataFiles(f), DOMAIN g = DOMAIN f, \A p \in DOMAIN f : g[p].rows = f[p].rows
  PROVE  Load(g) = Load(f)
<1>0. PICK files : files = DOMAIN f
  OBVIOUS
<1>1. PICK c \in Nat : c = Cardinality(files)
  BY <1>0, FS_CardinalityType DEF DataFiles
<1>2. \A i \in 1 .. c : g[Nth(files, i)].rows = f[Nth(files, i)].rows
  BY <1>0, <1>1, NthIs DEF DataFiles, IsFiles
<1>3. RowsIn(g) = RowsIn(f)
  BY <1>0, <1>1, <1>2 DEF RowsIn
<1> QED
  BY <1>3 DEF Load

\* g has the files of f, and p behind them.
HasNew(g, f, p) ==
  /\ p \in Path \ DOMAIN f /\ DOMAIN g = DOMAIN f \cup {p} /\ g[p].rows \in Seq(DataRow)
  /\ \A q \in DOMAIN f : LE(q, p) /\ g[q].rows = f[q].rows

LEMMA LoadNew ==
  ASSUME NEW f, DataFiles(f), NEW g, NEW p, HasNew(g, f, p)
  PROVE  Load(g) = Load(f) \o g[p].rows
<1>1. PICK files : files = DOMAIN f
  OBVIOUS
<1>2. PICK c : c = Cardinality(files)
  OBVIOUS
<1>3. /\ c \in Nat /\ Cardinality(files \cup {p}) = c + 1
      /\ \A i \in 1 .. c : Nth(files, i) \in files /\ Nth(files \cup {p}, i) = Nth(files, i)
      /\ Nth(files \cup {p}, c + 1) = p
  <2>1. /\ files \subseteq Path /\ IsFiniteSet(files) /\ p \in Path \ files
        /\ \A q \in files : LE(q, p)
    BY <1>1 DEF DataFiles, IsFiles, HasNew
  <2> QED
    BY <1>2, <2>1, NthOfMore
<1>4. PICK a \in Seq(Seq(DataRow)) : a = RowsIn(f)
  BY LoadType
<1>5. PICK x \in Seq(DataRow) : x = g[p].rows
  BY DEF HasNew
<1>6. a = [i \in 1 .. c |-> f[Nth(files, i)].rows] /\ Len(a) = c
  <2>1. a = [i \in 1 .. c |-> f[Nth(files, i)].rows]
    BY <1>1, <1>2, <1>4 DEF RowsIn
  <2> QED
    BY <1>3, <2>1
<1>7. PICK b : b = RowsIn(g)
  OBVIOUS
<1>8. b = [i \in 1 .. c + 1 |-> g[Nth(files \cup {p}, i)].rows]
  BY <1>1, <1>3, <1>7 DEF RowsIn, HasNew
<1>9. PICK d \in Seq(Seq(DataRow)) : d = Append(a, x)
  BY AppendProperties
<1>10. Len(d) = c + 1 /\ d[c + 1] = x /\ \A i \in 1 .. c : d[i] = a[i]
  <2>1. /\ Len(Append(a, x)) = Len(a) + 1 /\ Append(a, x)[Len(a) + 1] = x
        /\ \A i \in 1 .. Len(a) : Append(a, x)[i] = a[i]
    BY AppendProperties
  <2> QED
    BY <1>6, <1>9, <2>1
<1>11. \A i \in 1 .. c : b[i] = a[i]
  <2>1. ASSUME NEW i \in 1 .. c PROVE b[i] = a[i]
    <3>1. i \in 1 .. c + 1
      BY <1>3
    <3>2. b[i] = g[Nth(files \cup {p}, i)].rows
      BY <1>8, <3>1
    <3>3. a[i] = f[Nth(files, i)].rows
      BY <1>6
    <3> QED
      BY <1>1, <1>3, <3>2, <3>3 DEF HasNew
  <2> QED
    BY <2>1
<1>12. b[c + 1] = x
  <2>1. c + 1 \in 1 .. c + 1
    BY <1>3
  <2> QED
    BY <1>3, <1>5, <1>8, <2>1
<1>13. \A i \in 1 .. c + 1 : b[i] = d[i]
  <2>1. \A i \in 1 .. c + 1 : i \in 1 .. c \/ i = c + 1
    BY <1>3
  <2> QED
    BY <1>10, <1>11, <1>12, <2>1
<1>14. b = d
  <2>1. d = [i \in 1 .. c + 1 |-> d[i]]
    <3>1. d = [i \in 1 .. Len(d) |-> d[i]]
      BY <1>9, LenProperties
    <3> QED
      BY <1>10, <3>1
  <2>2. b = [i \in 1 .. c + 1 |-> b[i]]
    BY <1>8
  <2> QED
    BY <1>13, <2>1, <2>2
<1>15. FlattenSeq(Append(a, x)) = FlattenSeq(a) \o x
  BY FlattenAppend
<1> QED
  BY <1>4, <1>5, <1>7, <1>9, <1>14, <1>15 DEF Load

\* g has the files of f, with the rows r at the end of p, the last one.
HasMore(g, f, p, r) ==
  /\ p \in DOMAIN f /\ DOMAIN g = DOMAIN f
  /\ \A q \in DOMAIN f \ {p} : LE(q, p) /\ g[q].rows = f[q].rows
  /\ r \in Seq(DataRow) /\ g[p].rows = f[p].rows \o r

LEMMA LoadBoth ==
  ASSUME NEW h, DataFiles(h), NEW f, NEW g, NEW p, HasNew(f, h, p), HasNew(g, h, p),
         NEW r, HasMore(g, f, p, r)
  PROVE  Load(g) = Load(f) \o r
<1>1. PICK x, y : x = f[p].rows /\ y = Load(h)
  OBVIOUS
<1>2. x \in Seq(DataRow) /\ y \in Seq(DataRow)
  BY <1>1, LoadType DEF HasNew
<1>r. r \in Seq(DataRow) /\ g[p].rows = x \o r
  BY <1>1 DEF HasMore
<1>3. Load(f) = y \o x
  <2>1. Load(f) = Load(h) \o f[p].rows
    BY LoadNew
  <2> QED
    BY <1>1, <2>1
<1>4. Load(g) = y \o (x \o r)
  <2>1. Load(g) = Load(h) \o g[p].rows
    BY LoadNew
  <2> QED
    BY <1>1, <1>r, <2>1
<1>5. (y \o x) \o r = y \o (x \o r)
  BY <1>2, <1>r
<1> QED
  BY <1>3, <1>4, <1>5

LEMMA LoadMore ==
  ASSUME NEW f, DataFiles(f), NEW g, NEW p, NEW r, HasMore(g, f, p, r)
  PROVE  Load(g) = Load(f) \o r
<1>1. PICK h : h = [q \in DOMAIN f \ {p} |-> f[q]]
  OBVIOUS
<1>2. /\ DOMAIN h = DOMAIN f \ {p} /\ \A q \in DOMAIN h : h[q] = f[q]
      /\ h = [q \in DOMAIN h |-> h[q]]
  BY <1>1
<1>3. DataFiles(h)
  <2>1. IsFiniteSet(DOMAIN h)
    BY <1>2, FS_RemoveElement DEF DataFiles
  <2> QED
    BY <1>2, <2>1 DEF DataFiles, IsFiles
<1>4. PICK x \in Seq(DataRow) : x = f[p].rows
  BY DEF HasMore, DataFiles, IsFiles, File
<1>5. p \in Path \ DOMAIN h /\ DOMAIN f = DOMAIN h \cup {p} /\ DOMAIN g = DOMAIN h \cup {p}
  BY <1>2 DEF HasMore, DataFiles, IsFiles
<1>6. HasNew(f, h, p)
  BY <1>2, <1>4, <1>5 DEF HasNew, HasMore
<1>7. HasNew(g, h, p)
  <2>1. g[p].rows = x \o r /\ x \o r \in Seq(DataRow)
    BY <1>4 DEF HasMore
  <2> QED
    BY <1>2, <1>5, <2>1 DEF HasNew, HasMore
<1> QED
  BY <1>3, <1>6, <1>7, LoadBoth

-------------------------------------------------------------------------------
(* The inductive invariant.                                                  *)

All == AllOf(episodes)

\* Frames s of episode e are in file p; a stretch of a video shows them.
HasRows(f, p, e, s) ==
  /\ p \in DOMAIN f
  /\ \A k \in 1 .. Len(s) :
       \E i \in DOMAIN f[p].rows : f[p].rows[i].episode_index = e /\ f[p].rows[i].frame = s[k]

Shows(v, entry, s) ==
  /\ entry.file \in DOMAIN v /\ entry.from + Len(s) <= Len(v[entry.file])
  /\ \A k \in 1 .. Len(s) : v[entry.file][entry.from + k] = s[k]

Stored(m) ==
  /\ m.order < Len(saved)
  /\ HasRows(data.files, m.data, m.episode_index, saved[m.order + 1])
  /\ \A key \in video_keys : Shows(videos[key], m.videos[key], saved[m.order + 1])

Phases == {"closed", "record", "video", "info", "stats", "broken", "flush"}

SessionTypes ==
  /\ phase \in Phases /\ buffer \in Seq(1 .. MaxFrames) /\ n \in 0 .. MaxFrames
  /\ session \in 0 .. MaxSessions /\ {failed, crashed, torn} \subseteq BOOLEAN
  /\ info \in [episodes : Nat, frames : Nat]
  /\ saved \in Seq(Seq(Nat)) /\ info.episodes <= Len(saved)
  /\ phase = "info" => info.episodes < Len(saved)

DataTypes ==
  IsTable(data, DataRow) /\ DOMAIN data = {"files", "open", "latest"} /\ data.open = data.latest

IsVideo(v) == v = [p \in DOMAIN v |-> v[p]] /\ \A p \in DOMAIN v : v[p] \in Seq(Nat)
VideoTypes == videos = [key \in video_keys |-> videos[key]] /\ \A key \in video_keys : IsVideo(videos[key])

RowTypes ==
  /\ row = [data |-> row.data, videos |-> row.videos] /\ row.data \in Paths
  /\ row.videos = [key \in DOMAIN row.videos |-> row.videos[key]] /\ DOMAIN row.videos \subseteq video_keys
  /\ \A key \in DOMAIN row.videos : row.videos[key] \in VideoEntry

MaybeRow == {<<>>} \cup {<<m>> : m \in MetaRow}

MetaTypes ==
  /\ MetaTable(episodes) /\ Len(episodes.pending) < metadata_buffer_size
  /\ meta = [loaded |-> meta.loaded, latest |-> meta.latest]
  /\ meta.loaded \in MaybeRow /\ meta.latest \in MaybeRow

Types == SessionTypes /\ DataTypes /\ VideoTypes /\ RowTypes

\* A session knows the newest row and the last files.
Order ==
  phase # "closed" =>
    IF Before = <<>> THEN All = {} /\ DOMAIN episodes.files = {} ELSE Newest(episodes, Before[1])

\* What a session has written is buffered or in the open file.
Buffering ==
  /\ meta.latest # <<>> => phase # "closed" /\ Writing(episodes, meta.latest[1])
  /\ meta.latest = <<>> => episodes.open = None /\ episodes.pending = <<>>

\* Unless the process died, all files but the open one can be read.
FooterOK == phase # "closed" \/ ~crashed => Footers(episodes)

Distinct == \A x, y \in All : x.order = y.order => x = y

Metadata ==
  MetaTypes /\ Order /\ Buffering /\ FooterOK /\ TopOK(episodes) /\ Distinct

AllStored == \A m \in All : Stored(m)

Recording == {"record", "video", "info", "stats"}

\* No row is of a data file behind the open one.
DataFollows ==
  phase \in Recording =>
    IF data.latest = None THEN meta.latest = <<>> ELSE \A m \in All : LE(m.data, data.latest)

\* A video that will be continued ends where the last episode ended.
VideosFollow ==
  phase \in Recording /\ meta.latest # <<>> =>
    \A key \in video_keys \ DOMAIN row.videos :
      LET v == meta.latest[1].videos[key]
      IN  v.file \in DOMAIN videos[key] /\ Len(videos[key][v.file]) = v.to

\* What was stored of the episode that is being saved.
SavedVideo(key) ==
  LET v == row.videos[key]
  IN  /\ Shows(videos[key], v, buffer) /\ Len(videos[key][v.file]) = v.to
      /\ v.to = v.from + Len(buffer)
      /\ \A m \in All : LE(m.videos[key].file, v.file)

Saving ==
  phase = "video" =>
    /\ data.latest # None /\ row.data = data.latest
    /\ HasRows(data.files, row.data, info.episodes, buffer)
    /\ \A key \in DOMAIN row.videos : SavedVideo(key)

Count ==
  ~crashed =>
    /\ \A e \in 0 .. Len(saved) - 1 : \E m \in All : m.order = e
    /\ \A p \in DOMAIN data.files : data.files[p].footer \/ p = data.open

Storage == AllStored /\ DataFollows /\ VideosFollow /\ Saving /\ Count

Closed ==
  /\ phase = "closed" => data.open = None /\ meta.loaded = <<>> /\ meta.latest = <<>>
  /\ session = 0 => phase = "closed" /\ DOMAIN episodes.files = {}
  /\ phase = "flush" => data.open = None
  /\ phase \notin {"video", "broken"} => DOMAIN row.videos = {}

WriterInv == Types /\ Metadata /\ Storage /\ Closed

-------------------------------------------------------------------------------
(* Lemmas on what the parts of the invariant depend on.                      *)

LEMMA EmptyTable ==
  ASSUME NEW t, MetaTable(t), DOMAIN t.files = {}, t.pending = <<>>
  PROVE  AllOf(t) = {}
  BY DEF AllOf, RowsOf, ToSet

LEMMA InitWriterInv == ASSUME WriterConstants, Init PROVE WriterInv
<1>1. MetaTable(episodes) /\ DOMAIN episodes.files = {} /\ episodes.open = None /\ episodes.pending = <<>>
  BY DEF Init, MetaTable, IsTable, IsFiles, Paths
<1>2. All = {}
  BY <1>1, EmptyTable DEF All
<1>3. DataTypes /\ data.open = None /\ data.latest = None /\ DOMAIN data.files = {}
  BY DEF Init, DataTypes, IsTable, IsFiles, Paths
<1>4. VideoTypes /\ RowTypes /\ DOMAIN row.videos = {}
  <2>1. <<>> = [p \in {} |-> <<>>[p]] /\ DOMAIN <<>> = {}
    OBVIOUS
  <2>2. videos = [key \in video_keys |-> <<>>]
    BY DEF Init
  <2>3. videos = [key \in video_keys |-> videos[key]] /\ \A key \in video_keys : videos[key] = <<>>
    BY <2>2
  <2>4. IsVideo(<<>>)
    BY <2>1 DEF IsVideo
  <2>5. VideoTypes
    BY <2>3, <2>4 DEF VideoTypes
  <2>6. row = [data |-> <<>>, videos |-> <<>>]
    BY DEF Init, NoRow, None
  <2>7. row = [data |-> row.data, videos |-> row.videos] /\ row.data = <<>> /\ row.videos = <<>>
    BY <2>6
  <2>8. RowTypes
    BY <2>1, <2>7 DEF RowTypes, Paths, None
  <2> QED
    BY <2>1, <2>5, <2>7, <2>8
<1>5. SessionTypes
  <2>1. <<>> \in Seq(1 .. MaxFrames) /\ <<>> \in Seq(Seq(Nat)) /\ Len(<<>>) = 0
    OBVIOUS
  <2>2. 0 \in 0 .. MaxFrames /\ 0 \in 0 .. MaxSessions
    BY DEF WriterConstants
  <2>3. [episodes |-> 0, frames |-> 0] \in [episodes : Nat, frames : Nat]
    OBVIOUS
  <2>4. info.episodes = 0 /\ Len(saved) = 0 /\ phase = "closed"
    BY <2>1 DEF Init
  <2>5. info.episodes <= Len(saved)
    BY <2>4
  <2>6. {failed, crashed, torn} \subseteq BOOLEAN
    BY DEF Init
  <2> QED
    BY <2>1, <2>2, <2>3, <2>4, <2>5, <2>6 DEF Init, SessionTypes, Phases
<1>6. Metadata
  <2>1. Len(episodes.pending) = 0
    BY <1>1
  <2>2. meta = [loaded |-> meta.loaded, latest |-> meta.latest] /\ meta.loaded = <<>> /\ meta.latest = <<>>
    BY DEF Init
  <2>3. phase = "closed" /\ crashed = FALSE
    BY DEF Init
  <2> QED
    BY <1>1, <1>2, <2>1, <2>2, <2>3
    DEF Metadata, MetaTypes, MaybeRow, Order, Buffering, FooterOK, Footers, TopOK, Distinct,
        WriterConstants
<1>7. Storage
  BY <1>2, <1>3 DEF Init, Storage, AllStored, DataFollows, VideosFollow, Saving, Count
<1>8. Closed
  BY <1>1, <1>3, <1>4 DEF Init, Closed
<1> QED
  BY <1>3, <1>4, <1>5, <1>6, <1>7, <1>8 DEF WriterInv, Types

\* Rows and videos that stay where they are.
LEMMA HasRowsStays ==
  ASSUME NEW f, NEW g, NEW p, NEW e, NEW s, HasRows(f, p, e, s), p \in DOMAIN g,
         \A i \in DOMAIN f[p].rows : i \in DOMAIN g[p].rows /\ g[p].rows[i] = f[p].rows[i]
  PROVE  HasRows(g, p, e, s)
  BY DEF HasRows

LEMMA AllStoredStays ==
  ASSUME AllStored, All' \subseteq All, saved' = saved, videos' = videos,
         \A p \in DOMAIN data.files : p \in DOMAIN data'.files /\ data'.files[p].rows = data.files[p].rows
  PROVE  AllStored'
<1> SUFFICES ASSUME NEW m \in All PROVE Stored(m)'
  BY DEF AllStored
<1>1. Stored(m)
  BY DEF AllStored
<1>2. HasRows(data.files, m.data, m.episode_index, saved[m.order + 1]) /\ m.data \in DOMAIN data.files
  BY <1>1 DEF Stored, HasRows
<1>3. HasRows(data'.files, m.data, m.episode_index, saved[m.order + 1])
  BY <1>2, HasRowsStays
<1> QED
  BY <1>1, <1>3 DEF Stored

\* Nothing of the metadata or on the disk changes.
LEMMA MetadataStays ==
  ASSUME Metadata, episodes' = episodes, meta' = meta,
         phase' = phase \/ (phase # "closed" /\ phase' # "closed" ), crashed' = crashed
  PROVE  Metadata'
<1>1. All' = All /\ Before' = Before
  BY DEF All, Before
<1>2. MetaTypes' /\ TopOK(episodes)' /\ Distinct'
  BY <1>1 DEF Metadata, MetaTypes, Distinct
<1>3. Order'
  BY <1>1 DEF Metadata, Order
<1>4. Buffering'
  BY DEF Metadata, Buffering
<1>5. FooterOK'
  BY DEF Metadata, FooterOK
<1> QED
  BY <1>2, <1>3, <1>4, <1>5 DEF Metadata

-------------------------------------------------------------------------------
(* Steps that write neither rows nor videos.                                 *)

Quiet == \/ create \/ add_frame \/ clear_episode_buffer \/ write_info \/ write_stats
         \/ SaveRaises \/ UNCHANGED vars

LEMMA QuietTypes == ASSUME WriterConstants, WriterInv, Quiet PROVE SessionTypes'
<1> USE DEF disk
<1>1. SessionTypes
  BY DEF WriterInv, Types
<1>2. CASE create
  <2>1. 1 \in 0 .. MaxSessions
    BY DEF WriterConstants
  <2> QED
    BY <1>1, <1>2, <2>1 DEF create, SessionTypes, Phases
<1>3. CASE add_frame
  <2>1. n' \in 0 .. MaxFrames /\ n' \in 1 .. MaxFrames
    BY <1>1, <1>3 DEF add_frame, SessionTypes, WriterConstants
  <2> QED
    BY <1>1, <1>3, <2>1 DEF add_frame, SessionTypes
<1>4. CASE clear_episode_buffer
  BY <1>1, <1>4 DEF clear_episode_buffer, SessionTypes
<1>5. CASE write_info
  <2>1. Len(buffer) \in Nat /\ Len(saved) \in Nat /\ info.episodes \in Nat /\ info.frames \in Nat
        /\ info.episodes < Len(saved)
    BY <1>1, <1>5 DEF write_info, SessionTypes
  <2>2. PICK e \in Nat, f \in Nat : e = info.episodes + 1 /\ f = info.frames + Len(buffer)
    BY <2>1
  <2>3. info' = [episodes |-> e, frames |-> f]
    BY <1>5, <2>2 DEF write_info
  <2>4. e <= Len(saved)
    BY <2>1, <2>2
  <2> QED
    BY <1>1, <1>5, <2>2, <2>3, <2>4 DEF write_info, SessionTypes, Phases
<1>6. CASE write_stats
  BY <1>1, <1>6 DEF write_stats, SessionTypes, Phases
<1>7. CASE SaveRaises
  <2>1. failed' \in BOOLEAN /\ torn' \in BOOLEAN
    BY <1>1, <1>7 DEF SaveRaises, Tear, SessionTypes
  <2> QED
    BY <1>1, <1>7, <2>1 DEF SaveRaises, SessionTypes, Phases
<1>8. CASE UNCHANGED vars
  BY <1>1, <1>8 DEF vars, SessionTypes
<1> QED
  BY <1>2, <1>3, <1>4, <1>5, <1>6, <1>7, <1>8 DEF Quiet

LEMMA QuietStep == ASSUME WriterConstants, WriterInv, Quiet PROVE WriterInv'
<1> USE DEF disk, Quiet
<1>1. UNCHANGED <<data, videos, episodes, meta, row, saved, crashed>> /\ All' = All
  BY DEF create, add_frame, clear_episode_buffer, write_info, write_stats, SaveRaises, vars, All
<1>2. SessionTypes'
  BY QuietTypes
<1>3. DataTypes' /\ VideoTypes' /\ RowTypes'
  BY <1>1 DEF WriterInv, Types, DataTypes, VideoTypes, RowTypes
<1>p. ~create => \/ phase' = phase
                 \/ phase \in Recording /\ phase' \in {"record", "stats", "broken"}
  BY DEF add_frame, clear_episode_buffer, write_info, write_stats, SaveRaises, vars, Recording
<1>r. phase' \in Recording => phase \in Recording \/ create
  BY <1>p
<1>4. Metadata'
  <2>1. CASE create
    <3>1. meta.latest = <<>> /\ meta.loaded = <<>> /\ DOMAIN episodes.files = {}
      BY <2>1 DEF create, WriterInv, Closed
    <3>2. episodes.pending = <<>> /\ episodes.open = None /\ MetaTable(episodes)
      BY <3>1 DEF WriterInv, Metadata, Buffering, MetaTypes
    <3>3. All = {}
      BY <3>1, <3>2, EmptyTable DEF All
    <3>4. Order'
      BY <1>1, <3>1, <3>3 DEF Order, Before
    <3>5. Footers(episodes)
      BY <3>1 DEF Footers
    <3> QED
      BY <1>1, <2>1, <3>1, <3>2, <3>4, <3>5
      DEF create, WriterInv, Metadata, MetaTypes, Buffering, FooterOK, Distinct
  <2>2. CASE ~create
    <3>1. phase' = phase \/ (phase # "closed" /\ phase' # "closed")
      BY <1>p, <2>2 DEF Recording
    <3> QED
      BY <1>1, <3>1, MetadataStays DEF WriterInv
  <2> QED
    BY <2>1, <2>2
<1>5. Storage'
  <2>1. AllStored'
    BY <1>1, AllStoredStays DEF WriterInv, Storage
  <2>2. DataFollows'
    BY <1>1, <1>r DEF create, WriterInv, Storage, DataFollows, Closed, Types, DataTypes
  <2>3. VideosFollow'
    BY <1>1, <1>r DEF create, WriterInv, Storage, VideosFollow, Closed
  <2>4. Saving'
    <3>1. phase' = "video" => phase = "video" /\ buffer' = buffer /\ info' = info
      BY DEF create, add_frame, clear_episode_buffer, write_info, write_stats, SaveRaises, vars
    <3> QED
      BY <1>1, <3>1 DEF WriterInv, Storage, Saving, SavedVideo
  <2>5. Count'
    BY <1>1 DEF WriterInv, Storage, Count
  <2> QED
    BY <2>1, <2>2, <2>3, <2>4, <2>5 DEF Storage
<1>6. Closed'
  BY <1>1 DEF create, add_frame, clear_episode_buffer, write_info, write_stats, SaveRaises, vars,
     WriterInv, Closed
<1> QED
  BY <1>2, <1>3, <1>4, <1>5, <1>6 DEF WriterInv, Types

-------------------------------------------------------------------------------
(* Steps of the session.                                                     *)

\* The last row that is read is the newest, in the last file.
LEMMA LastRowIs ==
  ASSUME NEW t, MetaTable(t), TopOK(t), DOMAIN t.files # {}, t.pending = <<>>
  PROVE  LastRow(t) \in MetaRow /\ Newest(t, LastRow(t))
<1>1. PICK top \in DOMAIN t.files : Top(t, top)
  BY DEF TopOK
<1>2. DOMAIN t.files \subseteq Path /\ t.files[top].rows \in Seq(MetaRow)
  BY <1>1, RowsHaveType
<1>3. \A p \in DOMAIN t.files : p = top \/ Precedes(p, top)
  BY <1>1 DEF Top, LE
<1>4. (CHOOSE p \in DOMAIN t.files : \A q \in DOMAIN t.files : q = p \/ Precedes(q, p)) = top
  <2>1. ASSUME NEW p \in DOMAIN t.files, \A q \in DOMAIN t.files : q = p \/ Precedes(q, p)
        PROVE  p = top
    <3>1. LE(top, p) /\ LE(p, top) /\ p \in Path /\ top \in Path
      BY <1>2, <1>3, <2>1 DEF LE
    <3> QED
      BY <3>1, PathsAreOrdered
  <2> QED
    BY <1>3, <2>1
<1>5. PICK r \in Seq(MetaRow) : r = t.files[top].rows /\ r # <<>>
  BY <1>1, <1>2 DEF Top
<1>6. LastRow(t) = r[Len(r)] /\ Len(r) \in DOMAIN r /\ r[Len(r)] \in MetaRow
  <2>1. LastRow(t) = Last(r)
    BY <1>4, <1>5, Zenon DEF LastRow
  <2>2. Len(r) \in Nat /\ Len(r) # 0
    BY <1>5
  <2>3. Len(r) \in 1 .. Len(r) /\ DOMAIN r = 1 .. Len(r)
    BY <2>2
  <2> QED
    BY <2>1, <2>3 DEF Last
<1>7. r[Len(r)] \in ToSet(r)
  BY <1>6 DEF ToSet
<1>8. r[Len(r)] \in AllOf(t)
  BY <1>5, <1>7 DEF AllOf, RowsOf
<1>9. AllOf(t) = RowsOf(t)
  BY DEF AllOf, ToSet
<1> QED
  BY <1>1, <1>5, <1>6, <1>8, <1>9 DEF Newest, Top

LEMMA ResumeStep == ASSUME WriterConstants, WriterInv, resume PROVE WriterInv'
<1> USE DEF disk
<1>1. UNCHANGED <<disk, buffer, row, n, saved, failed, crashed, torn>> /\ All' = All /\ phase' = "record"
  BY DEF resume, All
<1>2. PICK y : y = LastRow(episodes)
  OBVIOUS
<1>3. meta' = [loaded |-> <<y>>, latest |-> <<>>]
  BY <1>2 DEF resume
<1>4. /\ MetaTable(episodes) /\ TopOK(episodes) /\ episodes.pending = <<>> /\ episodes.open = None
      /\ data.open = None
  BY DEF resume, WriterInv, Closed, Metadata, MetaTypes, Buffering
<1>5. y \in MetaRow /\ Newest(episodes, y)
  BY <1>2, <1>4, LastRowIs DEF resume, Readable
<1>6. meta' = [loaded |-> meta'.loaded, latest |-> meta'.latest] /\ meta'.loaded = <<y>> /\ meta'.latest = <<>>
  BY <1>3
<1>7. Types'
  <2>1. session' \in 0 .. MaxSessions
    BY DEF resume, WriterInv, Types, SessionTypes, WriterConstants
  <2> QED
    BY <1>1, <2>1 DEF WriterInv, Types, SessionTypes, DataTypes, VideoTypes, RowTypes, Phases
<1>8. Metadata'
  <2>1. MetaTypes'
    BY <1>1, <1>5, <1>6 DEF WriterInv, Metadata, MetaTypes, MaybeRow
  <2>2. Order'
    <3>1. Before' = <<y>>
      BY <1>6 DEF Before
    <3>2. <<y>> # <<>> /\ <<y>>[1] = y
      OBVIOUS
    <3> QED
      BY <1>1, <1>5, <3>1, <3>2 DEF Order
  <2>3. Buffering'
    BY <1>1, <1>4, <1>6 DEF Buffering
  <2>4. Footers(episodes)
    BY <1>4, RowsHaveType, PathIsSome DEF resume, Readable, AllClosed, Footers
  <2> QED
    BY <1>1, <2>1, <2>2, <2>3, <2>4 DEF WriterInv, Metadata, FooterOK, Distinct
<1>9. Storage'
  <2>1. AllStored'
    BY <1>1, AllStoredStays DEF WriterInv, Storage
  <2>2. DataFollows' /\ VideosFollow' /\ Saving'
    BY <1>1, <1>4, <1>6 DEF DataFollows, VideosFollow, Saving, WriterInv, Types, DataTypes
  <2>3. Count'
    BY <1>1 DEF WriterInv, Storage, Count
  <2> QED
    BY <2>1, <2>2, <2>3 DEF Storage
<1>10. Closed'
  BY <1>1 DEF resume, WriterInv, Closed, Types, SessionTypes
<1> QED
  BY <1>7, <1>8, <1>9, <1>10 DEF WriterInv

\* Data files that the session lets go.
LEMMA DataLetGo ==
  ASSUME NEW t, IsTable(t, DataRow), DOMAIN t = {"files", "open", "latest"},
         NEW w, w = [t EXCEPT !.open = None, !.latest = None]
  PROVE  /\ IsTable(w, DataRow) /\ DOMAIN w = {"files", "open", "latest"}
         /\ w.open = None /\ w.latest = None /\ w.files = t.files
<1>1. t = [k \in DOMAIN t |-> t[k]]
  BY DEF IsTable
<1>2. /\ w = [k \in DOMAIN w |-> w[k]] /\ DOMAIN w = {"files", "open", "latest"}
      /\ w.files = t.files /\ w.open = None /\ w.latest = None
  BY <1>1
<1>3. IsTable(w, DataRow)
  BY <1>2 DEF IsTable, Paths
<1> QED
  BY <1>2, <1>3

\* The data file is closed, and keeps its rows.
LEMMA DataIsClosed ==
  ASSUME WriterInv, CloseData
  PROVE  /\ DataTypes' /\ data'.open = None /\ DOMAIN data'.files = DOMAIN data.files
         /\ \A p \in DOMAIN data.files : data'.files[p].rows = data.files[p].rows
         /\ \A p \in DOMAIN data.files : data'.files[p].footer <=> (p = data.open \/ data.files[p].footer)
<1>0. PICK t : t = Close(data)
  OBVIOUS
<1>1. IsClosed(t, data, DataRow)
  BY <1>0, CloseIs DEF WriterInv, Types, DataTypes
<1>2. /\ t.open = None /\ t = [k \in DOMAIN t |-> t[k]] /\ DOMAIN t = {"files", "open", "latest"}
      /\ IsTable(t, DataRow)
  BY <1>1 DEF IsClosed, Alike, WriterInv, Types, DataTypes
<1>3. [t EXCEPT !.latest = None] = [t EXCEPT !.open = None, !.latest = None]
  BY <1>2
<1>4. data' = [t EXCEPT !.open = None, !.latest = None]
  BY <1>0, <1>3 DEF CloseData
<1>5. /\ IsTable(data', DataRow) /\ DOMAIN data' = {"files", "open", "latest"}
      /\ data'.open = None /\ data'.latest = None /\ data'.files = t.files
  BY <1>2, <1>4, DataLetGo
<1> QED
  BY <1>1, <1>5 DEF DataTypes, IsClosed

LEMMA CloseDataStep == ASSUME WriterInv, CloseData PROVE WriterInv'
<1>1. UNCHANGED <<videos, episodes, info, meta, n, session, saved, failed, crashed, torn>> /\ All' = All
      /\ phase' = "flush" /\ phase # "closed" /\ buffer' = <<>> /\ row' = NoRow
  BY DEF CloseData, All
<1>3. /\ DataTypes' /\ data'.open = None /\ DOMAIN data'.files = DOMAIN data.files
      /\ \A p \in DOMAIN data.files : data'.files[p].rows = data.files[p].rows
      /\ \A p \in DOMAIN data.files : data'.files[p].footer <=> (p = data.open \/ data.files[p].footer)
  BY DataIsClosed
<1>4. RowTypes' /\ buffer' \in Seq(1 .. MaxFrames) /\ DOMAIN row'.videos = {}
  <2>1. row' = [data |-> <<>>, videos |-> <<>>]
    BY <1>1 DEF NoRow, None
  <2>2. row' = [data |-> row'.data, videos |-> row'.videos] /\ row'.data = <<>> /\ row'.videos = <<>>
    BY <2>1
  <2>3. <<>> = [p \in {} |-> <<>>[p]] /\ DOMAIN <<>> = {}
    OBVIOUS
  <2> QED
    BY <1>1, <2>2, <2>3 DEF RowTypes, Paths, None
<1>5. Types'
  BY <1>1, <1>3, <1>4 DEF WriterInv, Types, SessionTypes, VideoTypes, Phases
<1>6. Metadata'
  BY <1>1, MetadataStays DEF WriterInv
<1>7. Storage'
  <2>1. AllStored'
    BY <1>1, <1>3, AllStoredStays DEF WriterInv, Storage
  <2>2. Count'
    BY <1>1, <1>3 DEF WriterInv, Storage, Count
  <2> QED
    BY <1>1, <2>1, <2>2 DEF Storage, DataFollows, VideosFollow, Saving, Recording
<1>8. Closed'
  BY <1>1, <1>3, <1>4 DEF WriterInv, Closed
<1> QED
  BY <1>5, <1>6, <1>7, <1>8 DEF WriterInv

\* The buffered rows are written and the file is closed.
LEMMA CloseWriterIs ==
  ASSUME NEW t, MetaTable(t), NEW x \in MetaRow, Newest(t, x), Writing(t, x), TopOK(t), Footers(t),
         NEW w, w = _close_writer(t)
  PROVE  /\ MetaTable(w) /\ Newest(w, x) /\ TopOK(w) /\ Footers(w)
         /\ AllOf(w) = AllOf(t) /\ w.pending = <<>> /\ w.open = None
         /\ ListedOf(t) \subseteq ListedOf(w)
<1>1. PICK v : v = _flush_metadata_buffer(t)
  OBVIOUS
<1>2. Flushed(v, t, x)
  BY <1>1, FlushIs
<1>3. w = Close(v) /\ MetaTable(v)
  BY <1>1, <1>2 DEF _close_writer, Flushed
<1>4. /\ MetaTable(w) /\ AllOf(w) = AllOf(v) /\ w.pending = v.pending /\ w.open = None
      /\ ListedOf(v) \subseteq ListedOf(w) /\ (Footers(v) => Footers(w)) /\ (TopOK(v) => TopOK(w))
      /\ Newest(v, x) => Newest(w, x)
  BY <1>3, CloseMetaIs
<1> QED
  BY <1>2, <1>4 DEF Flushed

\* The metadata file is closed, and every row is in one.
LEMMA MetaIsClosed ==
  ASSUME WriterInv, CloseMeta
  PROVE  /\ MetaTable(episodes)' /\ TopOK(episodes)' /\ Footers(episodes)' /\ All' = All
         /\ episodes'.pending = <<>> /\ episodes'.open = None
         /\ ListedOf(episodes) \subseteq ListedOf(episodes)'
<1>1. phase = "flush" /\ episodes' = _close_writer(episodes)
  BY DEF CloseMeta
<1>2. MetaTable(episodes) /\ TopOK(episodes) /\ Footers(episodes)
  BY <1>1 DEF WriterInv, Metadata, MetaTypes, FooterOK
<1> QED
  <2>1. CASE meta.latest = <<>>
    <3>1. episodes.pending = <<>> /\ episodes.open = None
      BY <2>1 DEF WriterInv, Metadata, Buffering
    <3>2. episodes' = episodes
      BY <1>1, <3>1 DEF _close_writer, _flush_metadata_buffer, Close
    <3> QED
      BY <1>2, <3>1, <3>2 DEF All
  <2>2. CASE meta.latest # <<>>
    <3>1. PICK x \in MetaRow : meta.latest = <<x>>
      BY <2>2 DEF WriterInv, Metadata, MetaTypes, MaybeRow
    <3>2. Before # <<>> /\ Before[1] = x /\ meta.latest[1] = x
      BY <2>2, <3>1 DEF Before
    <3>3. Newest(episodes, x) /\ Writing(episodes, x)
      BY <1>1, <2>2, <3>2 DEF WriterInv, Metadata, Order, Buffering
    <3> QED
      BY <1>1, <1>2, <3>3, CloseWriterIs DEF All
  <2> QED
    BY <2>1, <2>2

LEMMA CloseMetaStep == ASSUME WriterConstants, WriterInv, CloseMeta PROVE WriterInv' /\ Listed \subseteq Listed'
<1>1. UNCHANGED <<data, videos, info, buffer, row, n, session, saved, failed, crashed, torn>>
      /\ phase' = "closed" /\ phase = "flush" /\ meta' = [loaded |-> <<>>, latest |-> <<>>]
      /\ episodes' = _close_writer(episodes)
  BY DEF CloseMeta
<1>2. meta' = [loaded |-> meta'.loaded, latest |-> meta'.latest] /\ meta'.loaded = <<>> /\ meta'.latest = <<>>
  BY <1>1
<1>4. /\ MetaTable(episodes)' /\ TopOK(episodes)' /\ Footers(episodes)' /\ All' = All
      /\ episodes'.pending = <<>> /\ episodes'.open = None
      /\ ListedOf(episodes) \subseteq ListedOf(episodes)'
  BY MetaIsClosed
<1>5. Types'
  BY <1>1 DEF WriterInv, Types, SessionTypes, DataTypes, VideoTypes, RowTypes, Phases
<1>6. Metadata'
  <2>1. MetaTypes'
    <3>1. Len(episodes'.pending) = 0
      BY <1>4
    <3> QED
      BY <1>2, <1>4, <3>1 DEF MetaTypes, MaybeRow, WriterConstants
  <2> QED
    BY <1>1, <1>2, <1>4, <2>1 DEF WriterInv, Metadata, Order, Buffering, FooterOK, Distinct
<1>7. Storage'
  <2>1. AllStored'
    BY <1>1, <1>4, AllStoredStays DEF WriterInv, Storage
  <2>2. Count'
    BY <1>1, <1>4 DEF WriterInv, Storage, Count
  <2> QED
    BY <1>1, <2>1, <2>2 DEF Storage, DataFollows, VideosFollow, Saving, Recording
<1>8. Closed'
  BY <1>1, <1>2 DEF WriterInv, Closed
<1>9. Listed \subseteq Listed'
  BY <1>4 DEF Listed, ListedOf
<1> QED
  BY <1>5, <1>6, <1>7, <1>8, <1>9 DEF WriterInv

LEMMA CrashStep == ASSUME WriterConstants, WriterInv, Crash PROVE WriterInv' /\ Listed \subseteq Listed'
<1>1. UNCHANGED <<videos, info, n, session, saved, failed>>
      /\ phase' = "closed" /\ phase # "closed" /\ meta' = [loaded |-> <<>>, latest |-> <<>>]
      /\ buffer' = <<>> /\ row' = NoRow /\ crashed' = TRUE /\ (torn' = torn \/ torn' = TRUE)
  BY DEF Crash, Tear
<1>2. meta' = [loaded |-> meta'.loaded, latest |-> meta'.latest] /\ meta'.loaded = <<>> /\ meta'.latest = <<>>
  BY <1>1
<1>3. /\ DataTypes' /\ data'.open = None /\ DOMAIN data'.files = DOMAIN data.files
      /\ \A p \in DOMAIN data.files : data'.files[p].rows = data.files[p].rows
  <2>1. IsTable(data, DataRow) /\ DOMAIN data = {"files", "open", "latest"}
    BY DEF WriterInv, Types, DataTypes
  <2>2. data' = [data EXCEPT !.open = None, !.latest = None]
    BY DEF Crash
  <2>3. /\ IsTable(data', DataRow) /\ DOMAIN data' = {"files", "open", "latest"}
        /\ data'.open = None /\ data'.latest = None /\ data'.files = data.files
    BY <2>1, <2>2, DataLetGo
  <2> QED
    BY <2>3 DEF DataTypes
<1>4. /\ episodes'.files = episodes.files /\ episodes'.open = None /\ episodes'.pending = <<>>
      /\ DOMAIN episodes' = {"files", "open", "pending"} /\ episodes' = [k \in DOMAIN episodes' |-> episodes'[k]]
  <2>1. episodes = [k \in DOMAIN episodes |-> episodes[k]] /\ DOMAIN episodes = {"files", "open", "pending"}
    BY DEF WriterInv, Metadata, MetaTypes, MetaTable, IsTable
  <2>2. episodes' = [episodes EXCEPT !.open = None, !.pending = <<>>]
    BY DEF Crash
  <2> QED
    BY <2>1, <2>2
<1>5. MetaTable(episodes)'
  BY <1>4 DEF WriterInv, Metadata, MetaTypes, MetaTable, IsTable, Paths
<1>6. RowsOf(episodes') = RowsOf(episodes) /\ All' \subseteq All
  BY <1>4 DEF RowsOf, All, AllOf, ToSet
<1>7. RowTypes' /\ buffer' \in Seq(1 .. MaxFrames) /\ DOMAIN row'.videos = {}
  <2>1. row' = [data |-> <<>>, videos |-> <<>>]
    BY <1>1 DEF NoRow, None
  <2>2. row' = [data |-> row'.data, videos |-> row'.videos] /\ row'.data = <<>> /\ row'.videos = <<>>
    BY <2>1
  <2>3. <<>> = [p \in {} |-> <<>>[p]] /\ DOMAIN <<>> = {}
    OBVIOUS
  <2> QED
    BY <1>1, <2>2, <2>3 DEF RowTypes, Paths, None
<1>8. Types'
  BY <1>1, <1>3, <1>7 DEF WriterInv, Types, SessionTypes, VideoTypes, Phases
<1>9. Metadata'
  <2>1. MetaTypes'
    <3>1. Len(episodes'.pending) = 0
      BY <1>4
    <3> QED
      BY <1>2, <1>5, <3>1 DEF MetaTypes, MaybeRow, WriterConstants
  <2>2. TopOK(episodes)'
    BY <1>4, <1>6 DEF WriterInv, Metadata, TopOK, Top
  <2> QED
    BY <1>1, <1>2, <1>4, <1>6, <2>1, <2>2 DEF WriterInv, Metadata, Order, Buffering, FooterOK, Distinct
<1>10. Storage'
  <2>1. AllStored'
    BY <1>1, <1>3, <1>6, AllStoredStays DEF WriterInv, Storage
  <2> QED
    BY <1>1, <2>1 DEF Storage, DataFollows, VideosFollow, Saving, Count, Recording
<1>11. Closed'
  BY <1>1, <1>2, <1>3, <1>4, <1>7 DEF WriterInv, Closed
<1>12. Listed \subseteq Listed'
  BY <1>4 DEF Listed
<1> QED
  BY <1>8, <1>9, <1>10, <1>11, <1>12 DEF WriterInv

-------------------------------------------------------------------------------
(* Saving an episode: its rows.                                              *)

\* What a session knows of the rows before.
LEMMA BeforeIs ==
  ASSUME WriterInv, phase # "closed"
  PROVE  \/ Before = <<>> /\ meta.latest = <<>> /\ meta.loaded = <<>> /\ All = {}
            /\ DOMAIN episodes.files = {}
         \/ \E x \in MetaRow :
              /\ Before = <<x>> /\ Before[1] = x /\ Newest(episodes, x)
              /\ meta.latest = <<>> => meta.loaded # <<>> /\ meta.loaded[1] = x
              /\ meta.latest # <<>> => meta.latest[1] = x /\ Writing(episodes, x)
<1>1. meta.loaded \in MaybeRow /\ meta.latest \in MaybeRow
  BY DEF WriterInv, Metadata, MetaTypes
<1>2. CASE Before = <<>>
  BY <1>2 DEF WriterInv, Metadata, Order, Before
<1>3. CASE Before # <<>>
  <2>1. PICK x \in MetaRow : Before = <<x>>
    BY <1>1, <1>3 DEF Before, MaybeRow
  <2>2. Before[1] = x
    BY <2>1
  <2>3. Newest(episodes, x)
    BY <1>3, <2>2 DEF WriterInv, Metadata, Order
  <2>4. meta.latest = <<>> => meta.loaded # <<>> /\ meta.loaded[1] = x
    BY <1>3, <2>2 DEF Before
  <2>5. meta.latest # <<>> => meta.latest[1] = x /\ Writing(episodes, x)
    BY <2>2 DEF Before, WriterInv, Metadata, Buffering
  <2> QED
    BY <2>1, <2>2, <2>3, <2>4, <2>5
<1> QED
  BY <1>2, <1>3

LEMMA AllHaveFiles ==
  ASSUME WriterInv, NEW m \in All
  PROVE  /\ m \in MetaRow /\ m.data \in Path /\ m.meta \in Path /\ m.order \in Nat
         /\ \A key \in video_keys : m.videos[key].file \in Path /\ m.videos[key].from \in Nat
<1>1. m \in MetaRow
  BY RowsHaveType DEF WriterInv, Metadata, MetaTypes, All
<1>2. m.videos \in [video_keys -> VideoEntry]
  BY <1>1 DEF MetaRow
<1>3. ASSUME NEW key \in video_keys PROVE m.videos[key].file \in Path /\ m.videos[key].from \in Nat
  <2>1. m.videos[key] \in VideoEntry
    BY <1>2
  <2> QED
    BY <2>1 DEF VideoEntry
<1> QED
  BY <1>1, <1>3 DEF MetaRow

\* The rows of the episode in the buffer.
EpisodeRows == [k \in DOMAIN buffer |-> [index |-> info.frames + k - 1,
                                         episode_index |-> info.episodes, frame |-> buffer[k]]]

LEMMA EpisodeRowsAre ==
  ASSUME WriterConstants, SessionTypes
  PROVE  /\ EpisodeRows \in Seq(DataRow) /\ Len(EpisodeRows) = Len(buffer)
         /\ \A k \in 1 .. Len(buffer) : /\ EpisodeRows[k].episode_index = info.episodes
                                        /\ EpisodeRows[k].frame = buffer[k]
<1>1. /\ buffer \in Seq(1 .. MaxFrames) /\ Len(buffer) \in Nat /\ DOMAIN buffer = 1 .. Len(buffer)
      /\ info.episodes \in Nat /\ info.frames \in Nat
  BY DEF SessionTypes
<1>2. PICK r : r = EpisodeRows
  OBVIOUS
<1>3. r = [k \in 1 .. Len(buffer) |-> [index |-> info.frames + k - 1,
                                       episode_index |-> info.episodes, frame |-> buffer[k]]]
  BY <1>1, <1>2 DEF EpisodeRows
<1>4. ASSUME NEW k \in 1 .. Len(buffer)
      PROVE  r[k] \in DataRow /\ r[k].episode_index = info.episodes /\ r[k].frame = buffer[k]
  <2>1. info.frames + k - 1 \in Nat
    BY <1>1
  <2>2. buffer[k] \in Nat
    BY <1>1, WriterConstants DEF WriterConstants
  <2>3. r[k] = [index |-> info.frames + k - 1, episode_index |-> info.episodes, frame |-> buffer[k]]
    BY <1>3
  <2> QED
    BY <1>1, <2>1, <2>2, <2>3 DEF DataRow
<1>5. r \in [1 .. Len(buffer) -> DataRow]
  BY <1>3, <1>4
<1>6. r \in Seq(DataRow) /\ Len(r) = Len(buffer)
  BY <1>1, <1>5
<1> QED
  BY <1>2, <1>4, <1>6

\* Where the rows go: to the open file, or to one behind every file that a
\* row names.
LEMMA DataFileIs ==
  ASSUME WriterConstants, WriterInv, phase = "record", NEW full \in BOOLEAN, full => data.latest # None
  PROVE  /\ DataFile(full) \in Path /\ \A m \in All : LE(m.data, DataFile(full))
         /\ full \/ data.open = None => \A m \in All : m.data # DataFile(full)
         /\ ~full /\ data.open # None => DataFile(full) = data.open
<1>1. data.open = data.latest /\ data.latest \in Paths
  BY DEF WriterInv, Types, DataTypes, IsTable
<1>2. CASE data.latest # None
  <2>1. data.latest \in Path /\ \A m \in All : LE(m.data, data.latest)
    BY <1>1, <1>2 DEF Paths, WriterInv, Storage, DataFollows, Recording
  <2>2. CASE full
    <3>1. DataFile(full) = update_chunk_file_indices(data.latest)
      BY <1>2, <2>2 DEF DataFile
    <3>2. PICK d \in Path : d = data.latest
      BY <2>1
    <3>3. update_chunk_file_indices(d) \in Path
      BY NextPath
    <3>4. ASSUME NEW m \in All
          PROVE  m.data # update_chunk_file_indices(d) /\ LE(m.data, update_chunk_file_indices(d))
      BY <2>1, <3>2, LaterIsNew, AllHaveFiles
    <3> QED
      BY <2>2, <3>1, <3>2, <3>3, <3>4
  <2>3. CASE ~full
    <3>1. DataFile(full) = data.latest
      BY <1>2, <2>3 DEF DataFile
    <3> QED
      BY <1>1, <1>2, <2>1, <2>3, <3>1
  <2> QED
    BY <2>2, <2>3
<1>3. CASE data.latest = None
  <2>1. meta.latest = <<>> /\ ~full /\ data.open = None
    BY <1>1, <1>3 DEF WriterInv, Storage, DataFollows, Recording
  <2>2. CASE meta.loaded = <<>>
    <3>1. All = {} /\ DataFile(full) = First
      BY <1>3, <2>1, <2>2, BeforeIs DEF DataFile
    <3>2. First \in Path
      BY DEF First, Path, WriterConstants
    <3> QED
      BY <2>1, <3>1, <3>2
  <2>3. CASE meta.loaded # <<>>
    <3>1. PICK x \in MetaRow : Newest(episodes, x) /\ meta.loaded[1] = x
      BY <2>1, <2>3, BeforeIs
    <3>2. DataFile(full) = update_chunk_file_indices(x.data) /\ x.data \in Path
      BY <1>3, <2>3, <3>1 DEF DataFile, MetaRow
    <3>3. \A m \in All : LE(m.data, x.data)
      BY <3>1 DEF Newest, UpTo, All
    <3> QED
      BY <2>1, <3>2, <3>3, NextPath, LaterIsNew, AllHaveFiles
  <2> QED
    BY <2>2, <2>3
<1> QED
  BY <1>2, <1>3

LEMMA ConcatHas ==
  ASSUME NEW S, NEW s \in Seq(S), NEW r \in Seq(S)
  PROVE  /\ s \o r \in Seq(S) /\ Len(s \o r) = Len(s) + Len(r) /\ DOMAIN (s \o r) = 1 .. Len(s) + Len(r)
         /\ \A i \in 1 .. Len(s) : (s \o r)[i] = s[i]
         /\ \A i \in 1 .. Len(r) : (s \o r)[Len(s) + i] = r[i]
<1>1. s \o r \in Seq(S) /\ Len(s \o r) = Len(s) + Len(r)
  OBVIOUS
<1>2. \A i \in 1 .. Len(s) : (s \o r)[i] = s[i]
  OBVIOUS
<1>3. ASSUME NEW i \in 1 .. Len(r) PROVE (s \o r)[Len(s) + i] = r[i]
  <2>1. Len(s) \in Nat /\ Len(r) \in Nat /\ Len(s) + i \in 1 .. Len(s) + Len(r) /\ Len(s) + i > Len(s)
    OBVIOUS
  <2> QED
    BY <2>1
<1> QED
  BY <1>1, <1>2, <1>3

\* The rows of an episode behind others.
LEMMA NewRows ==
  ASSUME NEW old \in Seq(DataRow), NEW new \in Seq(DataRow), NEW f, NEW p \in DOMAIN f, NEW e,
         NEW s, Len(new) = Len(s), f[p].rows = old \o new,
         \A k \in 1 .. Len(s) : new[k].episode_index = e /\ new[k].frame = s[k]
  PROVE  HasRows(f, p, e, s)
<1> SUFFICES ASSUME NEW k \in 1 .. Len(s)
             PROVE  \E i \in DOMAIN f[p].rows :
                      f[p].rows[i].episode_index = e /\ f[p].rows[i].frame = s[k]
  BY DEF HasRows
<1>1. Len(old) \in Nat /\ Len(new) \in Nat /\ k \in 1 .. Len(new)
  OBVIOUS
<1>2. Len(old) + k \in 1 .. Len(old) + Len(new) /\ Len(old) + k > Len(old)
  BY <1>1
<1>3. DOMAIN (old \o new) = 1 .. Len(old) + Len(new)
  BY ConcatHas
<1>4. (old \o new)[Len(old) + k] = new[k]
  BY <1>1, <1>2
<1> QED
  BY <1>2, <1>3, <1>4

\* The rows go to path, which is the file of t that is open or a new one.
DataSaved(path, t) ==
  /\ path \in Path /\ \A m \in All : LE(m.data, path)
  /\ IsTable(t, DataRow) /\ DOMAIN t.files = DOMAIN data.files
  /\ \A p \in DOMAIN data.files : t.files[p].rows = data.files[p].rows
  /\ ~crashed => \A p \in DOMAIN t.files : t.files[p].footer \/ p = t.open
  /\ t.open = None \/ t.open = path
  /\ t.open = None => \A m \in All : m.data # path
  /\ EpisodeRows \in Seq(DataRow)
  /\ IsTable(data', DataRow) /\ DOMAIN data' = {"files", "open", "latest"}
  /\ data'.open = path /\ data'.latest = path /\ DOMAIN data'.files = DOMAIN data.files \cup {path}
  /\ t.open = None => data'.files[path].rows = EpisodeRows
  /\ t.open # None => path \in DOMAIN t.files /\ data'.files[path].rows = t.files[path].rows \o EpisodeRows
  /\ \A p \in DOMAIN t.files \ {path} : data'.files[p] = t.files[p]
  /\ row' = [NoRow EXCEPT !.data = path]

LEMMA DataIsSaved ==
  ASSUME WriterConstants, WriterInv, _save_episode_data PROVE \E path, t : DataSaved(path, t)
<1>1. phase = "record"
  BY DEF _save_episode_data
<1>2. PICK full \in BOOLEAN :
        /\ full => data.latest # None
        /\ data' = [Write(IF full THEN Close(data) ELSE data, DataFile(full), EpisodeRows)
                      EXCEPT !.latest = DataFile(full)]
        /\ row' = [NoRow EXCEPT !.data = DataFile(full)]
  BY DEF _save_episode_data, EpisodeRows
<1>3. PICK path \in Path : path = DataFile(full)
  BY <1>1, <1>2, DataFileIs
<1>4. /\ \A m \in All : LE(m.data, path)
      /\ full \/ data.open = None => \A m \in All : m.data # path
      /\ ~full /\ data.open # None => path = data.open
  BY <1>1, <1>2, <1>3, DataFileIs
<1>5. PICK t : t = IF full THEN Close(data) ELSE data
  OBVIOUS
<1>6. /\ IsTable(t, DataRow) /\ DOMAIN t = {"files", "open", "latest"} /\ DOMAIN t.files = DOMAIN data.files
      /\ \A p \in DOMAIN data.files : t.files[p].rows = data.files[p].rows
      /\ ~crashed => \A p \in DOMAIN t.files : t.files[p].footer \/ p = t.open
      /\ t.open = None \/ t.open = path
      /\ t.open = None => \A m \in All : m.data # path
  <2>1. CASE full
    <3>1. IsClosed(t, data, DataRow)
      BY <1>5, <2>1, CloseIs DEF WriterInv, Types, DataTypes
    <3> QED
      BY <1>4, <2>1, <3>1 DEF IsClosed, Alike, WriterInv, Types, DataTypes, Storage, Count
  <2>2. CASE ~full
    BY <1>4, <1>5, <2>2 DEF WriterInv, Types, DataTypes, Storage, Count
  <2> QED
    BY <2>1, <2>2
<1>7. PICK rows \in Seq(DataRow) : rows = EpisodeRows
  BY EpisodeRowsAre DEF WriterInv, Types
<1>8. PICK v : v = Write(t, path, rows)
  OBVIOUS
<1>9. IsWritten(v, t, path, rows, DataRow)
  <2>1. path = IF t.open = None THEN path ELSE t.open
    BY <1>6
  <2> QED
    BY <1>6, <1>8, <2>1, WriteIs
<1>10. /\ data'.files = v.files /\ data'.open = path /\ data'.latest = path
       /\ DOMAIN data' = {"files", "open", "latest"} /\ data' = [k \in DOMAIN data' |-> data'[k]]
  <2>1. data' = [v EXCEPT !.latest = path]
    BY <1>2, <1>3, <1>5, <1>7, <1>8
  <2>2. v = [k \in DOMAIN v |-> v[k]] /\ DOMAIN v = {"files", "open", "latest"} /\ v.open = path
    BY <1>6, <1>9 DEF IsWritten, Alike
  <2> QED
    BY <2>1, <2>2
<1>11. IsTable(data', DataRow)
  BY <1>9, <1>10 DEF IsTable, IsWritten
<1>12. row' = [NoRow EXCEPT !.data = path]
  BY <1>2, <1>3
<1>13. /\ DOMAIN data'.files = DOMAIN data.files \cup {path}
       /\ t.open = None => data'.files[path].rows = rows
       /\ t.open # None => path \in DOMAIN t.files /\ data'.files[path].rows = t.files[path].rows \o rows
       /\ \A p \in DOMAIN t.files \ {path} : data'.files[p] = t.files[p]
  BY <1>6, <1>9, <1>10 DEF IsWritten
<1>14. DataSaved(path, t)
  BY <1>4, <1>6, <1>7, <1>10, <1>11, <1>12, <1>13 DEF DataSaved
<1> QED
  BY <1>14

LEMMA SaveDataStep == ASSUME WriterConstants, WriterInv, _save_episode_data PROVE WriterInv'
<1>1. /\ UNCHANGED <<videos, episodes, info, meta, buffer, n, session, saved, failed, crashed, torn>>
      /\ All' = All /\ phase = "record" /\ phase' = "video"
  BY DEF _save_episode_data, All
<1>2. PICK path, t : DataSaved(path, t)
  BY DataIsSaved
<1>3. PICK rows \in Seq(DataRow) : rows = EpisodeRows
  BY <1>2 DEF DataSaved
<1>11. DataTypes'
  BY <1>2 DEF DataSaved, DataTypes
<1>12. /\ row' = [data |-> row'.data, videos |-> row'.videos] /\ row'.data = path
       /\ row'.videos = [key \in DOMAIN row'.videos |-> row'.videos[key]] /\ DOMAIN row'.videos = {}
  <2>1. row' = [data |-> path, videos |-> <<>>]
    BY <1>2 DEF DataSaved, NoRow
  <2>2. <<>> = [p \in {} |-> <<>>[p]] /\ DOMAIN <<>> = {}
    OBVIOUS
  <2> QED
    BY <2>1, <2>2
<1>13. Types'
  BY <1>1, <1>2, <1>11, <1>12
  DEF DataSaved, WriterInv, Types, SessionTypes, VideoTypes, RowTypes, Phases, Paths
<1>14. Metadata'
  BY <1>1, MetadataStays DEF WriterInv
<1>15. AllStored'
  <2> SUFFICES ASSUME NEW m \in All PROVE Stored(m)'
    BY <1>1 DEF AllStored
  <2>1. Stored(m)
    BY DEF WriterInv, Storage, AllStored
  <2>2. m.data \in DOMAIN data.files
    BY <2>1 DEF Stored, HasRows
  <2>3. /\ m.data \in DOMAIN data'.files
        /\ \A i \in DOMAIN data.files[m.data].rows :
             i \in DOMAIN data'.files[m.data].rows /\ data'.files[m.data].rows[i] = data.files[m.data].rows[i]
    <3>1. CASE m.data # path
      BY <1>2, <2>2, <3>1 DEF DataSaved
    <3>2. CASE m.data = path
      <4>1. t.open # None /\ path \in DOMAIN t.files
        BY <1>2, <2>2, <3>2 DEF DataSaved
      <4>2. PICK old \in Seq(DataRow) : old = t.files[path].rows
        BY <1>2, <4>1 DEF DataSaved, IsTable, IsFiles, File
      <4>3. data'.files[path].rows = old \o rows /\ path \in DOMAIN data'.files
        BY <1>2, <1>3, <4>1, <4>2 DEF DataSaved
      <4>4. \A i \in DOMAIN old : i \in DOMAIN (old \o rows) /\ (old \o rows)[i] = old[i]
        OBVIOUS
      <4>5. data.files[m.data].rows = old
        BY <1>2, <2>2, <3>2, <4>2 DEF DataSaved
      <4> QED
        BY <3>2, <4>3, <4>4, <4>5
    <3> QED
      BY <3>1, <3>2
  <2>4. HasRows(data'.files, m.data, m.episode_index, saved[m.order + 1])
    BY <2>1, <2>3, HasRowsStays DEF Stored
  <2> QED
    BY <1>1, <2>1, <2>4 DEF Stored
<1>16. DataFollows'
  BY <1>1, <1>2, PathIsSome DEF DataSaved, DataFollows
<1>17. VideosFollow'
  BY <1>1, <1>12 DEF WriterInv, Closed, Storage, VideosFollow, Recording
<1>18. HasRows(data'.files, path, info.episodes, buffer)
  <2>1. path \in DOMAIN data'.files
    BY <1>2 DEF DataSaved
  <2>2. \E old \in Seq(DataRow) : data'.files[path].rows = old \o rows
    <3>1. CASE t.open = None
      <4>1. data'.files[path].rows = rows
        BY <1>2, <1>3, <3>1 DEF DataSaved
      <4>2. <<>> \o rows = rows /\ <<>> \in Seq(DataRow)
        OBVIOUS
      <4> QED
        BY <4>1, <4>2
    <3>2. CASE t.open # None
      <4>1. path \in DOMAIN t.files /\ data'.files[path].rows = t.files[path].rows \o rows
        BY <1>2, <1>3, <3>2 DEF DataSaved
      <4>2. t.files[path].rows \in Seq(DataRow)
        BY <1>2, <4>1 DEF DataSaved, IsTable, IsFiles, File
      <4> QED
        BY <4>1, <4>2
    <3> QED
      BY <3>1, <3>2
  <2>3. /\ Len(rows) = Len(buffer)
        /\ \A k \in 1 .. Len(buffer) : rows[k].episode_index = info.episodes /\ rows[k].frame = buffer[k]
    BY <1>3, EpisodeRowsAre DEF WriterInv, Types
  <2> QED
    BY <2>1, <2>2, <2>3, NewRows
<1>19. Saving'
  BY <1>1, <1>2, <1>12, <1>18, PathIsSome DEF DataSaved, Saving
<1>20. Count'
  <2>1. ASSUME ~crashed, NEW p \in DOMAIN data'.files, p # path
        PROVE  data'.files[p].footer
    <3>1. p \in DOMAIN t.files /\ data'.files[p] = t.files[p]
      BY <1>2, <2>1 DEF DataSaved
    <3>2. p # t.open
      BY <1>2, <2>1, <3>1, PathIsSome DEF DataSaved, IsTable, IsFiles
    <3> QED
      BY <1>2, <2>1, <3>1, <3>2 DEF DataSaved
  <2> QED
    BY <1>1, <1>2, <2>1 DEF DataSaved, WriterInv, Storage, Count
<1>21. Closed'
  BY <1>1, <1>12 DEF WriterInv, Closed
<1> QED
  BY <1>13, <1>14, <1>15, <1>16, <1>17, <1>19, <1>20, <1>21 DEF WriterInv, Storage

-------------------------------------------------------------------------------
(* Saving an episode: its videos.                                            *)

\* A new video file is behind every file that a row names; a file that is
\* continued ends where the newest row says.
LEMMA VideoFileIs ==
  ASSUME WriterConstants, WriterInv, phase = "video", NEW key \in video_keys \ DOMAIN row.videos,
         NEW full \in BOOLEAN, full => meta.latest # <<>>
  PROVE  /\ VideoFile(key, full) \in Path /\ VideoStart(key, full) \in Nat
         /\ \A m \in All : LE(m.videos[key].file, VideoFile(key, full))
         /\ full \/ meta.latest = <<>> =>
              /\ VideoStart(key, full) = 0
              /\ \A m \in All : m.videos[key].file # VideoFile(key, full)
         /\ ~full /\ meta.latest # <<>> =>
              /\ VideoFile(key, full) \in DOMAIN videos[key]
              /\ Len(videos[key][VideoFile(key, full)]) = VideoStart(key, full)
<1>1. CASE Before = <<>>
  <2>1. meta.latest = <<>> /\ meta.loaded = <<>> /\ All = {} /\ ~full
    BY <1>1, BeforeIs DEF MetaRow
  <2>2. VideoFile(key, full) = First /\ VideoStart(key, full) = 0
    BY <2>1 DEF VideoFile, VideoStart
  <2>3. First \in Path
    BY DEF First, Path, WriterConstants
  <2> QED
    BY <2>1, <2>2, <2>3
<1>2. CASE Before # <<>>
  <2>1. PICK x \in MetaRow :
          /\ Newest(episodes, x)
          /\ meta.latest = <<>> => meta.loaded # <<>> /\ meta.loaded[1] = x
          /\ meta.latest # <<>> => meta.latest[1] = x
    BY <1>2, BeforeIs
  <2>2. PICK v \in VideoEntry : v = x.videos[key]
    BY <2>1 DEF MetaRow
  <2>3. v.file \in Path /\ v.to \in Nat /\ \A m \in All : LE(m.videos[key].file, v.file)
    BY <2>1, <2>2 DEF VideoEntry, Newest, UpTo, All
  <2>4. /\ update_chunk_file_indices(v.file) \in Path
        /\ \A m \in All : /\ m.videos[key].file # update_chunk_file_indices(v.file)
                          /\ LE(m.videos[key].file, update_chunk_file_indices(v.file))
    BY <2>3, NextPath, LaterIsNew, AllHaveFiles
  <2>5. CASE full \/ meta.latest = <<>>
    <3>1. VideoFile(key, full) = update_chunk_file_indices(v.file) /\ VideoStart(key, full) = 0
      BY <2>1, <2>2, <2>5 DEF VideoFile, VideoStart
    <3> QED
      BY <2>4, <2>5, <3>1
  <2>6. CASE ~full /\ meta.latest # <<>>
    <3>1. VideoFile(key, full) = v.file /\ VideoStart(key, full) = v.to
      BY <2>1, <2>2, <2>6 DEF VideoFile, VideoStart
    <3>2. v.file \in DOMAIN videos[key] /\ Len(videos[key][v.file]) = v.to
      BY <2>1, <2>2, <2>6 DEF WriterInv, Storage, VideosFollow, Recording
    <3> QED
      BY <2>3, <2>6, <3>1, <3>2
  <2> QED
    BY <2>5, <2>6
<1> QED
  BY <1>1, <1>2

LEMMA FramesAreNat ==
  ASSUME WriterConstants, SessionTypes PROVE buffer \in Seq(Nat) /\ Len(buffer) \in Nat
<1>1. buffer \in Seq(1 .. MaxFrames) /\ 1 .. MaxFrames \subseteq Nat
  <2>1. buffer \in Seq(1 .. MaxFrames)
    BY DEF SessionTypes
  <2>2. 1 .. MaxFrames \subseteq Nat
    OBVIOUS
  <2> QED
    BY <2>1, <2>2
<1>2. Len(buffer) \in Nat /\ buffer \in [1 .. Len(buffer) -> 1 .. MaxFrames]
  BY <1>1, LenProperties
<1>3. buffer \in [1 .. Len(buffer) -> Nat]
  BY <1>1, <1>2
<1> QED
  BY <1>2, <1>3

LEMMA ShowsStays ==
  ASSUME NEW v, NEW w, NEW entry, NEW s, Shows(v, entry, s), entry.file \in DOMAIN w,
         v[entry.file] \in Seq(Nat), w[entry.file] \in Seq(Nat), entry.from \in Nat, Len(s) \in Nat,
         Len(v[entry.file]) <= Len(w[entry.file]),
         \A i \in 1 .. Len(v[entry.file]) : w[entry.file][i] = v[entry.file][i]
  PROVE  Shows(w, entry, s)
<1>1. Len(v[entry.file]) \in Nat /\ Len(w[entry.file]) \in Nat
  OBVIOUS
<1>2. entry.from + Len(s) <= Len(w[entry.file])
  BY <1>1 DEF Shows
<1>3. ASSUME NEW k \in 1 .. Len(s) PROVE entry.from + k \in 1 .. Len(v[entry.file])
  <2>1. entry.from + Len(s) <= Len(v[entry.file])
    BY DEF Shows
  <2>2. PICK f \in Nat, l \in Nat, b \in Nat : f = entry.from /\ l = Len(s) /\ b = Len(v[entry.file])
    BY <1>1
  <2>3. f + l <= b /\ k \in 1 .. l
    BY <2>1, <2>2
  <2>4. f + k \in 1 .. b
    BY <2>3
  <2> QED
    BY <2>2, <2>4
<1> QED
  BY <1>2, <1>3 DEF Shows

\* The frames s at the end of a video.
LEMMA ShowsNew ==
  ASSUME NEW w, NEW entry, NEW s \in Seq(Nat), NEW old \in Seq(Nat), entry.file \in DOMAIN w,
         w[entry.file] = old \o s, entry.from = Len(old)
  PROVE  Shows(w, entry, s) /\ Len(w[entry.file]) = Len(old) + Len(s)
<1>1. Len(old) \in Nat /\ Len(s) \in Nat
  OBVIOUS
<1>2. PICK c \in Seq(Nat) : c = old \o s
  BY ConcatHas
<1>3. Len(c) = Len(old) + Len(s) /\ \A k \in 1 .. Len(s) : c[Len(old) + k] = s[k]
  BY <1>2, ConcatHas
<1> QED
  BY <1>1, <1>2, <1>3 DEF Shows

LEMMA SaveVideoStep ==
  ASSUME WriterConstants, WriterInv, NEW key \in video_keys, _save_episode_video(key) PROVE WriterInv'
<1>1. /\ UNCHANGED <<data, episodes, info, meta, phase, buffer, n, session, saved, failed, crashed, torn>>
      /\ All' = All /\ phase = "video" /\ key \in video_keys \ DOMAIN row.videos
  BY DEF _save_episode_video, All
<1>2. PICK full \in BOOLEAN :
        /\ full => meta.latest # <<>>
        /\ videos' = [videos EXCEPT ![key] =
                        Put(videos[key], VideoFile(key, full),
                            IF full \/ meta.latest = <<>> THEN buffer
                            ELSE videos[key][VideoFile(key, full)] \o buffer)]
        /\ row' = [row EXCEPT !.videos =
                     Put(row.videos, key,
                         [file |-> VideoFile(key, full), from |-> VideoStart(key, full),
                          to |-> VideoStart(key, full) + Len(buffer)])]
  BY DEF _save_episode_video
<1>3. PICK path \in Path, start \in Nat : path = VideoFile(key, full) /\ start = VideoStart(key, full)
  BY <1>1, <1>2, VideoFileIs
<1>4. PICK new \in BOOLEAN : new <=> full \/ meta.latest = <<>>
  OBVIOUS
<1>5. /\ \A m \in All : LE(m.videos[key].file, path)
      /\ new => start = 0 /\ \A m \in All : m.videos[key].file # path
      /\ ~new => path \in DOMAIN videos[key] /\ Len(videos[key][path]) = start
  BY <1>1, <1>2, <1>3, <1>4, VideoFileIs
<1>6. buffer \in Seq(Nat) /\ Len(buffer) \in Nat
  BY FramesAreNat DEF WriterInv, Types
<1>7. PICK old \in Seq(Nat) : old = IF new THEN <<>> ELSE videos[key][path]
  <2>1. ~new => videos[key][path] \in Seq(Nat)
    BY <1>5 DEF WriterInv, Types, VideoTypes, IsVideo
  <2>2. <<>> \in Seq(Nat)
    OBVIOUS
  <2> QED
    BY <2>1, <2>2
<1>8. PICK content \in Seq(Nat) : content = old \o buffer
  BY <1>6, ConcatHas
<1>9. Len(old) = start
  BY <1>5, <1>7
<1>10. content = IF new THEN buffer ELSE videos[key][path] \o buffer
  <2>1. <<>> \o buffer = buffer
    BY <1>6
  <2> QED
    BY <1>7, <1>8, <2>1
<1>11. PICK w : w = Put(videos[key], path, content)
  OBVIOUS
<1>12. /\ DOMAIN w = DOMAIN videos[key] \cup {path} /\ w[path] = content
       /\ \A p \in DOMAIN videos[key] \ {path} : w[p] = videos[key][p]
       /\ w = [p \in DOMAIN w |-> w[p]]
  BY <1>11 DEF Put
<1>13. videos' = [videos EXCEPT ![key] = w]
  <2>1. content = IF full \/ meta.latest = <<>> THEN buffer
                  ELSE videos[key][VideoFile(key, full)] \o buffer
    BY <1>3, <1>4, <1>10
  <2> QED
    BY <1>2, <1>3, <1>11, <2>1
<1>14. /\ videos' = [k \in video_keys |-> videos'[k]] /\ videos'[key] = w
       /\ \A k \in video_keys \ {key} : videos'[k] = videos[k]
  BY <1>13 DEF WriterInv, Types, VideoTypes
<1>15. VideoTypes'
  <2>1. IsVideo(w)
    BY <1>12 DEF IsVideo, WriterInv, Types, VideoTypes
  <2> QED
    BY <1>14, <2>1 DEF VideoTypes, WriterInv, Types
<1>16. PICK entry \in VideoEntry : /\ entry = [file |-> path, from |-> start, to |-> start + Len(buffer)]
                                  /\ entry.file = path /\ entry.from = start
                                  /\ entry.to = start + Len(buffer)
  <2>1. PICK to \in Nat : to = start + Len(buffer)
    BY <1>6
  <2>2. PICK e : e = [file |-> path, from |-> start, to |-> to]
    OBVIOUS
  <2>3. e \in VideoEntry /\ e.file = path /\ e.from = start /\ e.to = to
    BY <2>2 DEF VideoEntry
  <2> QED
    BY <2>1, <2>2, <2>3
<1>17. PICK r : r = Put(row.videos, key, entry)
  OBVIOUS
<1>18. /\ DOMAIN r = DOMAIN row.videos \cup {key} /\ r[key] = entry
       /\ \A k \in DOMAIN row.videos \ {key} : r[k] = row.videos[k]
       /\ r = [k \in DOMAIN r |-> r[k]]
  BY <1>17 DEF Put
<1>19. row' = [data |-> row'.data, videos |-> row'.videos] /\ row'.videos = r /\ row'.data = row.data
  <2>1. row' = [row EXCEPT !.videos = r]
    BY <1>2, <1>3, <1>16, <1>17
  <2>2. row = [data |-> row.data, videos |-> row.videos]
    BY DEF WriterInv, Types, RowTypes
  <2> QED
    BY <2>1, <2>2
<1>20. RowTypes'
  BY <1>18, <1>19 DEF RowTypes, WriterInv, Types
<1>21. Types'
  BY <1>1, <1>15, <1>20 DEF WriterInv, Types, SessionTypes, DataTypes
<1>22. Metadata'
  BY <1>1, MetadataStays DEF WriterInv
<1>23. AllStored'
  <2> SUFFICES ASSUME NEW m \in All PROVE Stored(m)'
    BY <1>1 DEF AllStored
  <2>1. Stored(m) /\ m \in MetaRow /\ m.videos[key].from \in Nat
    BY AllHaveFiles DEF WriterInv, Storage, AllStored
  <2>2. PICK s : s = saved[m.order + 1]
    OBVIOUS
  <2>3. Shows(w, m.videos[key], s)
    <3>1. PICK v \in VideoEntry : v = m.videos[key]
      BY <2>1 DEF MetaRow
    <3>2. Shows(videos[key], v, s) /\ v.file \in DOMAIN videos[key] /\ v.from \in Nat
      BY <2>1, <2>2, <3>1 DEF Stored, Shows
    <3>3. Len(s) \in Nat
      <4>1. m.order + 1 \in 1 .. Len(saved) /\ saved \in Seq(Seq(Nat))
        <5>1. saved \in Seq(Seq(Nat)) /\ Len(saved) \in Nat
          BY DEF WriterInv, Types, SessionTypes
        <5>2. m.order \in Nat /\ m.order < Len(saved)
          BY <2>1, AllHaveFiles DEF Stored
        <5> QED
          BY <5>1, <5>2
      <4>2. s \in Seq(Nat)
        BY <2>2, <4>1
      <4> QED
        BY <4>2
    <3>4. PICK a \in Seq(Nat) : a = videos[key][v.file]
      BY <3>2 DEF WriterInv, Types, VideoTypes, IsVideo
    <3>5. CASE v.file # path
      <4>1. w[v.file] = a /\ v.file \in DOMAIN w
        BY <1>12, <3>2, <3>4, <3>5
      <4> QED
        BY <3>1, <3>2, <3>4, <4>1 DEF Shows
    <3>6. CASE v.file = path
      <4>1. ~new
        BY <1>5, <3>1, <3>6
      <4>2. old = a
        BY <1>7, <3>4, <3>6, <4>1
      <4>3. PICK b \in Seq(Nat) : b = w[v.file] /\ b = a \o buffer
        BY <1>8, <1>12, <3>6, <4>2
      <4>4. Len(a) <= Len(b) /\ \A i \in 1 .. Len(a) : b[i] = a[i]
        BY <1>6, <4>3
      <4>5. v.file \in DOMAIN w
        BY <1>12, <3>6
      <4>6. /\ w[v.file] \in Seq(Nat) /\ videos[key][v.file] \in Seq(Nat)
            /\ Len(videos[key][v.file]) <= Len(w[v.file])
            /\ \A i \in 1 .. Len(videos[key][v.file]) : w[v.file][i] = videos[key][v.file][i]
        BY <3>4, <4>3, <4>4
      <4>7. Shows(w, v, s)
        BY <3>2, <3>3, <4>5, <4>6, ShowsStays
      <4> QED
        BY <3>1, <4>7
    <3> QED
      BY <3>5, <3>6
  <2>4. \A k \in video_keys : Shows(videos'[k], m.videos[k], s)
    BY <1>14, <2>1, <2>2, <2>3 DEF Stored
  <2> QED
    BY <1>1, <2>1, <2>2, <2>4 DEF Stored
<1>24. DataFollows' /\ Count'
  BY <1>1 DEF WriterInv, Storage, DataFollows, Count
<1>25. VideosFollow'
  BY <1>1, <1>14, <1>18, <1>19 DEF WriterInv, Storage, VideosFollow
<1>26. Saving'
  <2>1. Shows(w, entry, buffer) /\ Len(w[path]) = entry.to
    <3>1. entry.file \in DOMAIN w /\ w[entry.file] = old \o buffer /\ entry.from = Len(old)
      BY <1>8, <1>9, <1>12, <1>16
    <3> QED
      BY <1>6, <1>9, <1>16, <3>1, ShowsNew
  <2>2. ASSUME NEW k \in DOMAIN r PROVE SavedVideo(k)'
    <3>1. CASE k = key
      BY <1>1, <1>5, <1>14, <1>16, <1>18, <1>19, <2>1, <3>1 DEF SavedVideo
    <3>2. CASE k # key
      <4>1. k \in DOMAIN row.videos /\ r[k] = row.videos[k] /\ videos'[k] = videos[k]
        BY <1>14, <1>18, <2>2, <3>2 DEF WriterInv, Types, RowTypes
      <4>2. SavedVideo(k)
        BY <1>1, <4>1 DEF WriterInv, Storage, Saving
      <4> QED
        BY <1>1, <1>19, <4>1, <4>2 DEF SavedVideo
    <3> QED
      BY <3>1, <3>2
  <2> QED
    BY <1>1, <1>19, <2>2 DEF WriterInv, Storage, Saving
<1>27. Closed'
  BY <1>1 DEF WriterInv, Closed
<1> QED
  BY <1>21, <1>22, <1>23, <1>24, <1>25, <1>26, <1>27 DEF WriterInv, Storage

-------------------------------------------------------------------------------
(* Saving an episode: its metadata row.                                      *)

\* The table a new row of file `path` is buffered in.
Room(t, path) ==
  /\ MetaTable(t) /\ TopOK(t) /\ Footers(t) /\ Len(t.pending) < metadata_buffer_size
  /\ \A p \in DOMAIN t.files : LE(p, path)
  /\ \A i \in DOMAIN t.pending : t.pending[i].meta = path
  /\ IF t.open = None THEN path \notin DOMAIN t.files ELSE t.open = path

LEMMA MetaFileIs ==
  ASSUME WriterConstants, WriterInv, phase = "video", NEW full \in BOOLEAN,
         full => meta.latest # <<>> /\ meta.latest[1].meta \in DOMAIN episodes.files,
         NEW t, t = IF full THEN _close_writer(episodes) ELSE episodes
  PROVE  /\ MetaFile(full) \in Path /\ Room(t, MetaFile(full)) /\ AllOf(t) = All
         /\ ListedOf(episodes) \subseteq ListedOf(t)
         /\ \A m \in All : LE(m.meta, MetaFile(full))
<1>1. /\ MetaTable(episodes) /\ TopOK(episodes) /\ Footers(episodes)
      /\ Len(episodes.pending) < metadata_buffer_size
      /\ meta.latest = <<>> => episodes.open = None /\ episodes.pending = <<>>
  BY DEF WriterInv, Metadata, MetaTypes, FooterOK, Buffering
<1>2. CASE Before = <<>>
  <2>1. All = {} /\ DOMAIN episodes.files = {} /\ meta.latest = <<>> /\ ~full
    BY <1>2, BeforeIs
  <2>2. MetaFile(full) = First /\ t = episodes
    BY <1>2, <2>1 DEF MetaFile
  <2>3. First \in Path
    BY DEF First, Path, WriterConstants
  <2>4. DOMAIN episodes.pending = {}
    BY <1>1, <2>1
  <2> QED
    BY <1>1, <2>1, <2>2, <2>3, <2>4 DEF Room, All
<1>3. CASE Before # <<>>
  <2>1. PICK x \in MetaRow : /\ Before[1] = x /\ Newest(episodes, x)
                             /\ meta.latest # <<>> => meta.latest[1] = x /\ Writing(episodes, x)
    BY <1>3, BeforeIs
  <2>2. /\ x.meta \in Path /\ \A m \in All : LE(m.meta, x.meta) /\ m.meta \in Path
        /\ \A p \in DOMAIN episodes.files : LE(p, x.meta) /\ p \in Path
    BY <1>1, <2>1, RowsHaveType, AllHaveFiles DEF Newest, UpTo, All, MetaRow
  <2>3. PICK next \in Path : next = update_chunk_file_indices(x.meta)
    BY <2>2, NextPath
  <2>4. /\ \A m \in All : LE(m.meta, next)
        /\ \A p \in DOMAIN episodes.files : LE(p, next) /\ p # next
    BY <2>2, <2>3, LaterIsNew
  <2>5. CASE meta.latest = <<>>
    <3>1. MetaFile(full) = next /\ t = episodes
      BY <1>3, <2>1, <2>3, <2>5 DEF MetaFile
    <3>2. DOMAIN episodes.pending = {}
      BY <1>1, <2>5
    <3> QED
      BY <1>1, <2>4, <2>5, <3>1, <3>2 DEF Room, All
  <2>6. CASE meta.latest # <<>> /\ ~full
    <3>1. MetaFile(full) = x.meta /\ t = episodes
      BY <1>3, <2>1, <2>6 DEF MetaFile
    <3> QED
      BY <1>1, <2>1, <2>2, <2>6, <3>1 DEF Room, All, Writing
  <2>7. CASE full
    <3>1. MetaFile(full) = next /\ t = _close_writer(episodes)
      BY <1>3, <2>1, <2>3, <2>7 DEF MetaFile
    <3>2. /\ x.meta \in DOMAIN episodes.files /\ Writing(episodes, x)
      BY <2>1, <2>7
    <3>3. /\ MetaTable(t) /\ Newest(t, x) /\ TopOK(t) /\ Footers(t)
          /\ AllOf(t) = AllOf(episodes) /\ t.pending = <<>> /\ t.open = None
          /\ ListedOf(episodes) \subseteq ListedOf(t)
      BY <1>1, <2>1, <3>1, <3>2, CloseWriterIs
    <3>4. \A p \in DOMAIN t.files : LE(p, next) /\ p # next
      <4>1. \A p \in DOMAIN t.files : LE(p, x.meta) /\ p \in Path
        BY <3>3, RowsHaveType DEF Newest
      <4> QED
        BY <2>2, <2>3, <4>1, LaterIsNew
    <3>5. DOMAIN t.pending = {} /\ Len(t.pending) = 0 /\ 0 < metadata_buffer_size
      BY <3>3 DEF WriterConstants
    <3> QED
      BY <2>4, <3>1, <3>3, <3>4, <3>5 DEF Room, All
  <2> QED
    BY <2>5, <2>6, <2>7
<1> QED
  BY <1>2, <1>3

\* A table after a new row was buffered.
Buffered(w, t, new) ==
  /\ MetaTable(w) /\ Newest(w, new) /\ Writing(w, new) /\ TopOK(w) /\ Footers(w)
  /\ AllOf(w) = AllOf(t) \cup {new} /\ ListedOf(t) \subseteq ListedOf(w)

LEMMA BufferRow ==
  ASSUME NEW new \in MetaRow, NEW t, Room(t, new.meta), \A m \in AllOf(t) : UpTo(m, new)
  PROVE  Buffered([t EXCEPT !.pending = Append(t.pending, new)], t, new)
<1>1. MetaTable(t) /\ t = [k \in DOMAIN t |-> t[k]] /\ DOMAIN t = {"files", "open", "pending"}
  BY DEF Room, MetaTable, IsTable
<1>2. PICK q \in Seq(MetaRow) : /\ q = Append(t.pending, new) /\ Len(q) = Len(t.pending) + 1
                                /\ q[Len(q)] = new /\ DOMAIN q = DOMAIN t.pending \cup {Len(q)}
                                /\ q # <<>>
                                /\ \A i \in DOMAIN t.pending : q[i] = t.pending[i]
  <2>1. PICK s \in Seq(MetaRow) : s = t.pending
    BY <1>1 DEF MetaTable
  <2>2. Len(s) \in Nat /\ DOMAIN s = 1 .. Len(s)
    OBVIOUS
  <2>3. PICK q \in Seq(MetaRow) : q = Append(s, new)
    BY AppendProperties
  <2>4. Len(q) = Len(s) + 1 /\ q[Len(s) + 1] = new /\ \A i \in 1 .. Len(s) : q[i] = s[i]
    BY <2>3, AppendProperties
  <2>5. DOMAIN q = 1 .. Len(s) + 1 /\ 1 .. Len(s) + 1 = (1 .. Len(s)) \cup {Len(s) + 1}
    BY <2>2, <2>4
  <2>6. q # <<>>
    BY <2>2, <2>4
  <2> QED
    BY <2>1, <2>2, <2>3, <2>4, <2>5, <2>6
<1>3. PICK w : w = [t EXCEPT !.pending = q]
  OBVIOUS
<1>4. /\ w = [k \in DOMAIN w |-> w[k]] /\ DOMAIN w = {"files", "open", "pending"}
      /\ w.files = t.files /\ w.open = t.open /\ w.pending = q
  BY <1>1, <1>3
<1>5. MetaTable(w)
  BY <1>1, <1>4 DEF MetaTable, IsTable
<1>6. RowsOf(w) = RowsOf(t) /\ ListedOf(w) = ListedOf(t)
  BY <1>4 DEF RowsOf, ListedOf
<1>7. ToSet(q) = ToSet(t.pending) \cup {new}
  <2>1. \A i \in DOMAIN q : q[i] = new \/ (i \in DOMAIN t.pending /\ q[i] = t.pending[i])
    BY <1>2
  <2>2. Len(q) \in DOMAIN q /\ \A i \in DOMAIN t.pending : i \in DOMAIN q
    BY <1>2
  <2>3. ToSet(q) \subseteq ToSet(t.pending) \cup {new}
    BY <2>1 DEF ToSet
  <2>4. new \in ToSet(q) /\ ToSet(t.pending) \subseteq ToSet(q)
    BY <1>2, <2>2, Zenon DEF ToSet
  <2> QED
    BY <2>3, <2>4
<1>8. AllOf(w) = AllOf(t) \cup {new}
  BY <1>4, <1>6, <1>7 DEF AllOf
<1>9. UpTo(new, new)
  BY DEF UpTo, LE, MetaRow
<1>10. Newest(w, new)
  BY <1>4, <1>8, <1>9 DEF Newest, Room
<1>11. Writing(w, new)
  BY <1>2, <1>4 DEF Writing, Room
<1>12. TopOK(w) /\ Footers(w)
  BY <1>4, <1>6 DEF Room, TopOK, Top, Footers
<1> QED
  BY <1>2, <1>3, <1>5, <1>6, <1>8, <1>10, <1>11, <1>12 DEF Buffered

\* What _save_episode_metadata saves: the new row, the table that it is buffered in and
\* the table with the row.
SavesRow(full, new, table, buffered) ==
  /\ full \in BOOLEAN
  /\ full => meta.latest # <<>> /\ meta.latest[1].meta \in DOMAIN episodes.files
  /\ \E start : /\ start = IF Before = <<>> THEN 0 ELSE Before[1].dataset_to_index
                /\ new = [episode_index |-> info.episodes, order |-> Len(saved),
                          dataset_from_index |-> start, dataset_to_index |-> start + Len(buffer), data |-> row.data,
                          videos |-> row.videos, meta |-> MetaFile(full)]
  /\ table = IF full THEN _close_writer(episodes) ELSE episodes
  /\ buffered = [table EXCEPT !.pending = Append(table.pending, new)]
  /\ episodes' = IF Len(buffered.pending) >= metadata_buffer_size
                 THEN _flush_metadata_buffer(buffered) ELSE buffered
  /\ meta' = [meta EXCEPT !.latest = <<new>>]

\* The row that _save_episode_metadata adds to the metadata.
NewRow(new) ==
  /\ new \in MetaRow /\ new.episode_index = info.episodes /\ new.order = Len(saved)
  /\ new.data = row.data /\ new.videos = row.videos
  /\ new.dataset_from_index = (IF Before = <<>> THEN 0 ELSE Before[1].dataset_to_index)
  /\ new.dataset_to_index = new.dataset_from_index + Len(buffer)
  /\ meta' = [meta EXCEPT !.latest = <<new>>]
  /\ MetaTable(episodes)' /\ Newest(episodes', new) /\ Writing(episodes', new) /\ TopOK(episodes)'
  /\ Footers(episodes)' /\ AllOf(episodes') = All \cup {new}
  /\ ListedOf(episodes) \subseteq ListedOf(episodes')
  /\ Len(episodes'.pending) < metadata_buffer_size

LEMMA NewRowIs ==
  ASSUME WriterConstants, WriterInv, _save_episode_metadata PROVE \E new : NewRow(new)
<1>1. /\ UNCHANGED <<data, videos, n, session, failed, crashed, torn>>
      /\ phase = "video" /\ phase' = "info" /\ DOMAIN row.videos = video_keys
      /\ info' = info /\ saved' = Append(saved, buffer) /\ buffer' = buffer /\ row' = NoRow
  BY DEF _save_episode_metadata
<1>2. PICK full, new, table, buffered : SavesRow(full, new, table, buffered)
  <2> DEFINE Start == IF Before = <<>> THEN 0 ELSE Before[1].dataset_to_index
             New(full) == [episode_index |-> info.episodes, order |-> Len(saved),
                           dataset_from_index |-> Start, dataset_to_index |-> Start + Len(buffer), data |-> row.data,
                           videos |-> row.videos, meta |-> MetaFile(full)]
             Table(full) == IF full THEN _close_writer(episodes) ELSE episodes
             WithRow(full) == [Table(full) EXCEPT !.pending = Append(@, New(full))]
  <2>1. PICK full \in BOOLEAN :
          /\ full => meta.latest # <<>> /\ meta.latest[1].meta \in DOMAIN episodes.files
          /\ episodes' = IF Len(WithRow(full).pending) >= metadata_buffer_size
                         THEN _flush_metadata_buffer(WithRow(full)) ELSE WithRow(full)
          /\ meta' = [meta EXCEPT !.latest = <<New(full)>>]
    BY Zenon DEF _save_episode_metadata
  <2>2. PICK new : new = New(full)
    OBVIOUS
  <2>3. PICK table : table = Table(full)
    OBVIOUS
  <2>4. PICK buffered : buffered = WithRow(full)
    OBVIOUS
  <2>5. SavesRow(full, new, table, buffered)
    <3>1. full \in BOOLEAN /\ (full => meta.latest # <<>> /\ meta.latest[1].meta \in DOMAIN episodes.files)
      BY <2>1, Zenon
    <3>2. \E start : /\ start = IF Before = <<>> THEN 0 ELSE Before[1].dataset_to_index
                    /\ new = [episode_index |-> info.episodes, order |-> Len(saved),
                              dataset_from_index |-> start, dataset_to_index |-> start + Len(buffer), data |-> row.data,
                              videos |-> row.videos, meta |-> MetaFile(full)]
      BY <2>2
    <3>3. table = IF full THEN _close_writer(episodes) ELSE episodes
      BY <2>3
    <3>4. buffered = [table EXCEPT !.pending = Append(table.pending, new)]
      BY <2>2, <2>3, <2>4
    <3>5. /\ episodes' = IF Len(buffered.pending) >= metadata_buffer_size
                         THEN _flush_metadata_buffer(buffered) ELSE buffered
          /\ meta' = [meta EXCEPT !.latest = <<new>>]
      BY <2>1, <2>2, <2>4, Zenon
    <3> QED
      BY <3>1, <3>2, <3>3, <3>4, <3>5, Zenon DEF SavesRow
  <2> QED
    BY <2>5, Zenon
<1>3. /\ MetaFile(full) \in Path /\ Room(table, MetaFile(full)) /\ AllOf(table) = All
      /\ ListedOf(episodes) \subseteq ListedOf(table)
      /\ \A m \in All : LE(m.meta, MetaFile(full))
  BY <1>1, <1>2, MetaFileIs DEF SavesRow
<1>4. buffer \in Seq(Nat) /\ Len(buffer) \in Nat
  BY FramesAreNat DEF WriterInv, Types
<1>5. /\ info.episodes \in Nat /\ info.frames \in Nat
      /\ saved \in Seq(Seq(Nat)) /\ Len(saved) \in Nat /\ info.episodes <= Len(saved)
  BY DEF WriterInv, Types, SessionTypes
<1>6. row.data \in Path /\ row.data = data.latest /\ row.videos \in [video_keys -> VideoEntry]
  BY <1>1 DEF WriterInv, Types, RowTypes, Storage, Saving, Paths
<1>7. /\ new \in MetaRow /\ new.episode_index = info.episodes /\ new.order = Len(saved)
      /\ new.data = row.data
      /\ new.videos = row.videos /\ new.meta = MetaFile(full)
      /\ new.dataset_from_index = (IF Before = <<>> THEN 0 ELSE Before[1].dataset_to_index)
      /\ new.dataset_to_index = new.dataset_from_index + Len(buffer)
  <2>1. PICK start : /\ start = IF Before = <<>> THEN 0 ELSE Before[1].dataset_to_index
                     /\ new = [episode_index |-> info.episodes, order |-> Len(saved),
                               dataset_from_index |-> start, dataset_to_index |-> start + Len(buffer), data |-> row.data,
                               videos |-> row.videos, meta |-> MetaFile(full)]
    BY <1>2 DEF SavesRow
  <2>2. start \in Nat
    <3>1. Before # <<>> => Before[1] \in MetaRow
      BY <1>1, BeforeIs
    <3> QED
      BY <2>1, <3>1 DEF MetaRow
  <2>3. PICK to \in Nat : to = start + Len(buffer)
    BY <1>4, <2>2
  <2> QED
    BY <1>3, <1>5, <1>6, <2>1, <2>2, <2>3 DEF MetaRow
<1>8. ASSUME NEW m \in All PROVE UpTo(m, new)
  <2>1. m.order <= new.order
    <3>1. m.order < Len(saved) /\ m.order \in Nat
      BY AllHaveFiles DEF WriterInv, Storage, AllStored, Stored
    <3>2. PICK a \in Nat, c \in Nat : a = m.order /\ c = Len(saved) /\ new.order = c
      BY <1>5, <1>7, <3>1
    <3> QED
      BY <3>1, <3>2
  <2>2. LE(m.data, new.data)
    BY <1>1, <1>6, <1>7 DEF WriterInv, Storage, DataFollows, Saving, Recording
  <2>3. \A key \in video_keys : LE(m.videos[key].file, new.videos[key].file)
    BY <1>1, <1>7 DEF WriterInv, Storage, Saving, SavedVideo
  <2> QED
    BY <1>3, <1>7, <2>1, <2>2, <2>3 DEF UpTo
<1>9. Buffered(buffered, table, new)
  BY <1>2, <1>3, <1>7, <1>8, BufferRow DEF SavesRow
<1>10. /\ MetaTable(episodes)' /\ Newest(episodes', new) /\ Writing(episodes', new) /\ TopOK(episodes)'
       /\ Footers(episodes)' /\ AllOf(episodes') = All \cup {new}
       /\ ListedOf(episodes) \subseteq ListedOf(episodes')
       /\ Len(episodes'.pending) < metadata_buffer_size
  <2>1. CASE Len(buffered.pending) >= metadata_buffer_size
    <3>1. Flushed(episodes', buffered, new)
      BY <1>2, <1>7, <1>9, <2>1, FlushIs DEF Buffered, SavesRow
    <3>2. Len(episodes'.pending) = 0
      BY <3>1 DEF Flushed
    <3>3. 0 < metadata_buffer_size
      BY DEF WriterConstants
    <3> QED
      BY <1>3, <1>9, <3>1, <3>2, <3>3 DEF Flushed, Buffered
  <2>2. CASE ~(Len(buffered.pending) >= metadata_buffer_size)
    <3>1. episodes' = buffered
      BY <1>2, <2>2 DEF SavesRow
    <3>2. Len(buffered.pending) \in Nat
      BY <1>9 DEF Buffered, MetaTable
    <3>3. Len(buffered.pending) < metadata_buffer_size
      BY <2>2, <3>2 DEF WriterConstants
    <3> QED
      BY <1>3, <1>9, <3>1, <3>3 DEF Buffered
  <2> QED
    BY <2>1, <2>2
<1> QED
  BY <1>2, <1>7, <1>10 DEF NewRow, SavesRow

LEMMA SaveEpisodeMetadataStep ==
  ASSUME WriterConstants, WriterInv, _save_episode_metadata PROVE WriterInv' /\ Listed \subseteq Listed'
<1>1. /\ UNCHANGED <<data, videos, n, session, failed, crashed, torn>>
      /\ phase = "video" /\ phase' = "info" /\ DOMAIN row.videos = video_keys
      /\ info' = info /\ saved' = Append(saved, buffer) /\ buffer' = buffer /\ row' = NoRow
  BY DEF _save_episode_metadata
<1>2. PICK new : NewRow(new)
  BY NewRowIs
<1>4. buffer \in Seq(Nat) /\ Len(buffer) \in Nat
  BY FramesAreNat DEF WriterInv, Types
<1>5. /\ info.episodes \in Nat /\ info.frames \in Nat
      /\ saved \in Seq(Seq(Nat)) /\ Len(saved) \in Nat /\ info.episodes <= Len(saved)
  BY DEF WriterInv, Types, SessionTypes
<1>6. row.data \in Path /\ row.data = data.latest /\ row.videos \in [video_keys -> VideoEntry]
  BY <1>1 DEF WriterInv, Types, RowTypes, Storage, Saving, Paths
<1>7. /\ new \in MetaRow /\ new.episode_index = info.episodes /\ new.order = Len(saved)
      /\ new.data = row.data
      /\ new.videos = row.videos
  BY <1>2 DEF NewRow
<1>10. /\ MetaTable(episodes)' /\ Newest(episodes', new) /\ Writing(episodes', new) /\ TopOK(episodes)'
       /\ Footers(episodes)' /\ AllOf(episodes') = All \cup {new}
       /\ ListedOf(episodes) \subseteq ListedOf(episodes')
       /\ Len(episodes'.pending) < metadata_buffer_size
  BY <1>2 DEF NewRow
<1>11. All' = All \cup {new}
  BY <1>10 DEF All
<1>12. /\ meta' = [loaded |-> meta'.loaded, latest |-> meta'.latest]
       /\ meta'.loaded = meta.loaded /\ meta'.latest = <<new>>
  <2>1. meta = [loaded |-> meta.loaded, latest |-> meta.latest]
    BY DEF WriterInv, Metadata, MetaTypes
  <2> QED
    BY <1>2, <2>1 DEF NewRow
<1>13. <<new>> # <<>> /\ <<new>>[1] = new /\ Before' = <<new>>
  BY <1>12 DEF Before
<1>15. /\ saved' \in Seq(Seq(Nat)) /\ Len(saved') = Len(saved) + 1 /\ saved'[Len(saved) + 1] = buffer
       /\ \A i \in 1 .. Len(saved) : saved'[i] = saved[i]
  <2>1. PICK s \in Seq(Seq(Nat)), b \in Seq(Nat) : s = saved /\ b = buffer
    BY <1>4, <1>5
  <2>2. /\ Append(s, b) \in Seq(Seq(Nat)) /\ Len(Append(s, b)) = Len(s) + 1
        /\ Append(s, b)[Len(s) + 1] = b /\ \A i \in 1 .. Len(s) : Append(s, b)[i] = s[i]
    BY AppendProperties
  <2> QED
    BY <1>1, <2>1, <2>2
<1>16. RowTypes' /\ DOMAIN row'.videos = {}
  <2>1. row' = [data |-> <<>>, videos |-> <<>>]
    BY <1>1 DEF NoRow, None
  <2>2. row' = [data |-> row'.data, videos |-> row'.videos] /\ row'.data = <<>> /\ row'.videos = <<>>
    BY <2>1
  <2>3. <<>> = [p \in {} |-> <<>>[p]] /\ DOMAIN <<>> = {}
    OBVIOUS
  <2> QED
    BY <2>2, <2>3 DEF RowTypes, Paths, None
<1>17. Types'
  <2>1. SessionTypes'
    <3>1. info'.episodes < Len(saved')
      BY <1>1, <1>5, <1>15
    <3>2. info'.episodes <= Len(saved')
      BY <1>1, <1>5, <1>15
    <3> QED
      BY <1>1, <1>15, <3>1, <3>2 DEF SessionTypes, WriterInv, Types, Phases
  <2> QED
    BY <1>1, <1>16, <2>1 DEF WriterInv, Types, DataTypes, VideoTypes
<1>18. Metadata'
  <2>1. MetaTypes'
    BY <1>7, <1>10, <1>12 DEF MetaTypes, MaybeRow, WriterInv, Metadata
  <2>2. Order'
    BY <1>10, <1>13 DEF Order
  <2>3. Buffering'
    BY <1>1, <1>10, <1>12, <1>13 DEF Buffering
  <2>4. Distinct'
    <3>1. \A m \in All : m.order # new.order
      <4>1. \A m \in All : m.order < Len(saved) /\ m.order \in Nat
        BY AllHaveFiles DEF WriterInv, Storage, AllStored, Stored
      <4> QED
        BY <1>5, <1>7, <4>1
    <3> QED
      BY <1>11, <3>1 DEF Distinct, WriterInv, Metadata
  <2> QED
    BY <1>10, <2>1, <2>2, <2>3, <2>4 DEF Metadata, FooterOK
<1>19. AllStored'
  <2>1. ASSUME NEW m \in All PROVE Stored(m)'
    <3>1. Stored(m) /\ m.order \in Nat
      BY AllHaveFiles DEF WriterInv, Storage, AllStored
    <3>2. m.order < Len(saved') /\ saved'[m.order + 1] = saved[m.order + 1]
      <4>1. PICK e \in Nat : e = m.order /\ e < Len(saved)
        BY <3>1 DEF Stored
      <4>2. e + 1 \in 1 .. Len(saved) /\ e < Len(saved) + 1
        BY <1>5, <4>1
      <4> QED
        BY <1>15, <4>1, <4>2
    <3> QED
      BY <1>1, <3>1, <3>2 DEF Stored
  <2>2. Stored(new)'
    <3>1. new.order < Len(saved') /\ saved'[new.order + 1] = buffer
      BY <1>5, <1>7, <1>15
    <3>2. HasRows(data.files, new.data, new.episode_index, buffer)
      BY <1>1, <1>7 DEF WriterInv, Storage, Saving
    <3>3. \A key \in video_keys : Shows(videos[key], new.videos[key], buffer)
      BY <1>1, <1>7 DEF WriterInv, Storage, Saving, SavedVideo
    <3> QED
      BY <1>1, <3>1, <3>2, <3>3 DEF Stored
  <2> QED
    BY <1>11, <2>1, <2>2 DEF AllStored
<1>20. DataFollows'
  <2>1. data.latest # None /\ \A m \in All \cup {new} : LE(m.data, data.latest)
    BY <1>1, <1>6, <1>7 DEF WriterInv, Storage, Saving, DataFollows, LE, Recording
  <2> QED
    BY <1>1, <1>11, <2>1 DEF DataFollows, Recording
<1>21. VideosFollow'
  <2>1. ASSUME NEW key \in video_keys
        PROVE  /\ new.videos[key].file \in DOMAIN videos[key]
               /\ Len(videos[key][new.videos[key].file]) = new.videos[key].to
    BY <1>1, <1>7 DEF WriterInv, Storage, Saving, SavedVideo, Shows
  <2> QED
    BY <1>1, <1>12, <1>13, <2>1 DEF VideosFollow, Recording
<1>22. Saving'
  BY <1>1 DEF Saving
<1>23. Count'
  <2>1. ASSUME ~crashed, NEW e \in 0 .. Len(saved') - 1
        PROVE  \E m \in All' : m.order = e
    <3>1. CASE e = Len(saved)
      BY <1>7, <1>11, <3>1
    <3>2. CASE e # Len(saved)
      <4>1. e \in 0 .. Len(saved) - 1
        BY <1>5, <1>15, <3>2
      <4> QED
        BY <1>11, <2>1, <4>1 DEF WriterInv, Storage, Count
    <3> QED
      BY <3>1, <3>2
  <2> QED
    BY <1>1, <2>1 DEF WriterInv, Storage, Count
<1>24. Closed'
  BY <1>1, <1>16 DEF WriterInv, Closed
<1>25. Listed \subseteq Listed'
  BY <1>10 DEF Listed, ListedOf
<1> QED
  BY <1>17, <1>18, <1>19, <1>20, <1>21, <1>22, <1>23, <1>24, <1>25 DEF WriterInv, Storage

-------------------------------------------------------------------------------
(* All steps.                                                                *)

LEMMA NextWriterInv ==
  ASSUME WriterConstants, WriterInv, [Next]_vars PROVE WriterInv' /\ Listed \subseteq Listed'
<1> USE DEF disk
<1>1. CASE Quiet
  <2>1. episodes' = episodes
    BY <1>1 DEF Quiet, create, add_frame, clear_episode_buffer, write_info, write_stats, SaveRaises, vars
  <2> QED
    BY <1>1, <2>1, QuietStep DEF Listed
<1>2. CASE resume
  BY <1>2, ResumeStep DEF resume, Listed
<1>3. CASE CloseData
  BY <1>3, CloseDataStep DEF CloseData, Listed
<1>4. CASE CloseMeta
  BY <1>4, CloseMetaStep
<1>5. CASE Crash
  BY <1>5, CrashStep
<1>6. CASE _save_episode_data
  BY <1>6, SaveDataStep DEF _save_episode_data, Listed
<1>7. ASSUME NEW key \in video_keys, _save_episode_video(key)
      PROVE  WriterInv' /\ Listed \subseteq Listed'
  BY <1>7, SaveVideoStep DEF _save_episode_video, Listed
<1>8. CASE _save_episode_metadata
  BY <1>8, SaveEpisodeMetadataStep
<1> QED
  BY <1>1, <1>2, <1>3, <1>4, <1>5, <1>6, <1>7, <1>8 DEF Next, Quiet

\* Types as the runs check them.
LEMMA InvImpliesTypeOK == ASSUME WriterConstants, WriterInv PROVE TypeOK
<1>1. data.open # None => data.open \in DOMAIN data.files
  BY DEF WriterInv, Types, DataTypes, IsTable
<1>2. episodes.open # None => episodes.open \in DOMAIN episodes.files
  BY DEF WriterInv, Metadata, MetaTypes, MetaTable, IsTable
<1> QED
  BY <1>1, <1>2 DEF TypeOK, WriterInv, Types, SessionTypes, Phases, Metadata, MetaTypes

LEMMA InvImpliesStored == ASSUME WriterInv PROVE ListedIsStored
<1> SUFFICES ASSUME NEW m \in Listed, NEW k \in DOMAIN saved[m.order + 1]
             PROVE  /\ VideoShows(m, k)
                    /\ \E i \in DOMAIN data.files[m.data].rows :
                         /\ data.files[m.data].rows[i].episode_index = m.episode_index
                         /\ data.files[m.data].rows[i].frame = saved[m.order + 1][k]
  <2>1. \A m \in Listed : m.order < Len(saved)
    <3>1. Listed \subseteq All
      BY RowsHaveType DEF Listed, ListedOf, All, AllOf, WriterInv, Metadata, MetaTypes
    <3> QED
      BY <3>1 DEF WriterInv, Storage, AllStored, Stored
  <2> QED
    BY <2>1 DEF ListedIsStored
<1>1. m \in All
  BY RowsHaveType DEF Listed, ListedOf, All, AllOf, WriterInv, Metadata, MetaTypes
<1>2. Stored(m) /\ m.order \in Nat
  BY <1>1, AllHaveFiles DEF WriterInv, Storage, AllStored
<1>3. k \in 1 .. Len(saved[m.order + 1])
  <2>1. m.order + 1 \in 1 .. Len(saved) /\ saved \in Seq(Seq(Nat))
    BY <1>2 DEF Stored, WriterInv, Types, SessionTypes
  <2>2. saved[m.order + 1] \in Seq(Nat)
    BY <2>1
  <2> QED
    BY <2>2
<1> QED
  BY <1>2, <1>3 DEF Stored, HasRows, Shows, VideoShows

\* The rows are numbered 0, 1, ...
LEMMA CountRows ==
  ASSUME NEW S, S \subseteq MetaRow, NEW c \in Nat,
         \A m \in S : m.order < c,
         \A a, b \in S : a.order = b.order => a = b,
         \A e \in 0 .. c - 1 : \E m \in S : m.order = e
  PROVE  Cardinality(S) = c
<1> DEFINE number == [m \in S |-> m.order]
<1>1. number \in [S -> 0 .. c - 1]
  <2>1. \A m \in S : m.order \in Nat
    BY DEF MetaRow
  <2> QED
    BY <2>1
<1>2. number \in Bijection(S, 0 .. c - 1)
  <2>1. number \in Injection(S, 0 .. c - 1)
    BY <1>1 DEF Injection, IsInjective
  <2>2. number \in Surjection(S, 0 .. c - 1)
    BY <1>1 DEF Surjection
  <2> QED
    BY <2>1, <2>2 DEF Bijection
<1>3. IsFiniteSet(0 .. c - 1) /\ Cardinality(0 .. c - 1) = c
  <2>1. IsFiniteSet(0 .. c - 1) /\ Cardinality(0 .. c - 1) = IF 0 > c - 1 THEN 0 ELSE c - 1 - 0 + 1
    BY FS_Interval
  <2> QED
    BY <2>1
<1>4. IsFiniteSet(S) /\ Cardinality(S) = c
  <2>1. ExistsBijection(S, 0 .. c - 1)
    BY <1>2, Zenon DEF ExistsBijection
  <2>2. ExistsBijection(0 .. c - 1, S)
    BY <2>1, Fun_ExistsBijSymmetric
  <2> QED
    BY <1>3, <2>2, FS_Bijection
<1> QED
  BY <1>4

LEMMA InvImpliesWhole == ASSUME WriterInv PROVE FailuresLeaveItWhole
<1> SUFFICES ASSUME phase = "closed", ~crashed
             PROVE  /\ AllClosed(data) /\ AllClosed(episodes)
                    /\ Cardinality(Listed) = Len(saved) /\ info.episodes <= Len(saved)
  BY DEF FailuresLeaveItWhole
<1>1. data.open = None /\ meta.latest = <<>> /\ episodes.open = None /\ episodes.pending = <<>>
  BY DEF WriterInv, Closed, Metadata, Buffering
<1>2. Len(saved) \in Nat /\ info.episodes <= Len(saved)
  BY DEF WriterInv, Types, SessionTypes
<1>3. Footers(episodes) /\ MetaTable(episodes)
  BY DEF WriterInv, Metadata, FooterOK, MetaTypes
<1>4. \A p \in DOMAIN episodes.files : episodes.files[p].footer
  BY <1>1, <1>3, RowsHaveType, PathIsSome DEF Footers
<1>5. \A p \in DOMAIN data.files : data.files[p].footer
  BY <1>1, PathIsSome DEF WriterInv, Storage, Count, Types, DataTypes, IsTable, IsFiles
<1>6. Listed = All
  <2>1. All = RowsOf(episodes)
    BY <1>1 DEF All, AllOf, ToSet
  <2> QED
    BY <1>4, <2>1 DEF Listed, RowsOf
<1>7. Cardinality(All) = Len(saved)
  <2>1. All \subseteq MetaRow
    BY <1>3, RowsHaveType DEF All
  <2>2. \A m \in All : m.order < Len(saved)
    BY DEF WriterInv, Storage, AllStored, Stored
  <2>3. \A e \in 0 .. Len(saved) - 1 : \E m \in All : m.order = e
    BY DEF WriterInv, Storage, Count
  <2>4. \A a, b \in All : a.order = b.order => a = b
    BY DEF WriterInv, Metadata, Distinct
  <2> QED
    BY <1>2, <2>1, <2>2, <2>3, <2>4, CountRows
<1> QED
  BY <1>2, <1>4, <1>5, <1>6, <1>7 DEF AllClosed

\* A dataset with an episode has files.
LEMMA SavedHasFiles ==
  ASSUME WriterInv, phase = "closed", ~crashed, saved # <<>>
  PROVE  Readable(data) /\ Readable(episodes)
<1>1. AllClosed(data) /\ AllClosed(episodes)
  BY InvImpliesWhole DEF FailuresLeaveItWhole
<1>2. 0 \in 0 .. Len(saved) - 1
  BY DEF WriterInv, Types, SessionTypes
<1>3. PICK m \in All : m.order = 0
  BY <1>2 DEF WriterInv, Storage, Count
<1>4. DOMAIN data.files # {}
  BY <1>3 DEF WriterInv, Storage, AllStored, Stored, HasRows
<1>5. episodes.pending = <<>>
  BY DEF WriterInv, Closed, Metadata, Buffering
<1>6. DOMAIN episodes.files # {}
  BY <1>3, <1>5 DEF All, AllOf, RowsOf, ToSet
<1> QED
  BY <1>1, <1>4, <1>6 DEF Readable

-------------------------------------------------------------------------------
(* Reading the dataset back.                                                 *)

Loaded == Load(data.files)

\* The rows of a dataset that the frames of episode e are read from.
Says(rows, from, e, frames) ==
  /\ from + Len(frames) <= Len(rows)
  /\ \A k \in 1 .. Len(frames) :
       rows[from + k] = [index |-> from + k - 1, episode_index |-> e, frame |-> frames[k]]

\* Every row made is counted, but for the one that is being saved.
Counted == IF phase = "info" THEN Len(saved) = info.episodes + 1 ELSE Len(saved) = info.episodes

\* All that is read is counted, but for what is being saved.
LengthOK ==
  Len(Loaded) = IF phase \in {"video", "info"} THEN info.frames + Len(buffer) ELSE info.frames

SavingSays == phase = "video" => Says(Loaded, info.frames, info.episodes, buffer)

\* Every episode is where its metadata says.
Placed(m) ==
  /\ Says(Loaded, m.dataset_from_index, m.episode_index, saved[m.order + 1])
  /\ m.episode_index = m.order

\* The newest episode ends where the next one begins.
EndsOK ==
  /\ \A m \in All :
       m.order = Len(saved) - 1 =>
         m.dataset_to_index = IF phase = "info" THEN info.frames + Len(buffer) ELSE info.frames
  /\ Len(saved) = 0 => info.frames = 0

\* There are no data files but those that a row names, and the latest.
FilesOK ==
  \A p \in DOMAIN data.files : \/ \E m \in All : m.data = p
                               \/ phase = "video" /\ p = data.latest

InPlace == Counted /\ LengthOK /\ SavingSays /\ (\A m \in All : Placed(m)) /\ EndsOK /\ FilesOK

ReadInv == IsFiniteSet(DOMAIN data.files) /\ (~failed /\ ~crashed => InPlace)

LEMMA DataIsFiles == ASSUME WriterInv, ReadInv PROVE DataFiles(data.files) /\ Loaded \in Seq(DataRow)
<1>1. DataFiles(data.files)
  BY DEF WriterInv, Types, DataTypes, IsTable, DataFiles, ReadInv
<1> QED
  BY <1>1, LoadType DEF Loaded

LEMMA InitReadInv == ASSUME WriterConstants, Init PROVE ReadInv
<1>1. WriterInv
  BY InitWriterInv
<1>2. /\ DOMAIN data.files = {} /\ info.frames = 0 /\ info.episodes = 0 /\ Len(saved) = 0
      /\ phase = "closed" /\ All = {}
  <2>1. DOMAIN data.files = {} /\ DOMAIN episodes.files = {} /\ episodes.pending = <<>>
    BY DEF Init
  <2> QED
    BY <1>1, <2>1, EmptyTable DEF Init, All, WriterInv, Metadata, MetaTypes
<1>3. IsFiniteSet(DOMAIN data.files) /\ Cardinality(DOMAIN data.files) = 0
  BY <1>2, FS_EmptySet
<1>4. Loaded = <<>>
  <2>1. RowsIn(data.files) = <<>>
    BY <1>3 DEF RowsIn
  <2> QED
    BY <2>1 DEF Loaded, Load, FlattenSeq
<1>5. Len(Loaded) = 0
  BY <1>4
<1> QED
  BY <1>2, <1>3, <1>5 DEF ReadInv, InPlace, Counted, LengthOK, SavingSays, EndsOK, FilesOK

\* The rows of the data files stay.
LEMMA ReadStays ==
  ASSUME WriterInv, ReadInv, DOMAIN data'.files = DOMAIN data.files,
         \A p \in DOMAIN data.files : data'.files[p].rows = data.files[p].rows,
         All' = All, saved' = saved, info' = info,
         ~failed' /\ ~crashed' =>
           /\ ~failed /\ ~crashed
           /\ \/ phase \notin {"video", "info"} /\ phase' \notin {"video", "info"}
              \/ phase' = phase /\ buffer' = buffer /\ data'.latest = data.latest
  PROVE  ReadInv'
<1>1. Loaded' = Loaded
  <2>1. DataFiles(data.files)
    BY DataIsFiles
  <2> QED
    BY <2>1, LoadSame DEF Loaded
<1>2. IsFiniteSet(DOMAIN data'.files)
  BY DEF ReadInv
<1>3. ASSUME ~failed', ~crashed' PROVE InPlace'
  <2>1. InPlace
    BY <1>3 DEF ReadInv
  <2> QED
    BY <1>1, <1>3, <2>1 DEF InPlace, Counted, LengthOK, SavingSays, Placed, EndsOK, FilesOK
<1> QED
  BY <1>2, <1>3 DEF ReadInv

\* Rows are added behind those that are read.
LEMMA SaysStays ==
  ASSUME NEW rows \in Seq(DataRow), NEW more \in Seq(DataRow), NEW from \in Nat, NEW e,
         NEW frames \in Seq(Nat), Says(rows, from, e, frames)
  PROVE  Says(rows \o more, from, e, frames)
<1>1. PICK len \in Nat, add \in Nat, c \in Nat : len = Len(rows) /\ add = Len(more) /\ c = Len(frames)
  OBVIOUS
<1>2. Len(rows \o more) = len + add /\ \A i \in 1 .. len : (rows \o more)[i] = rows[i]
  BY <1>1, ConcatHas
<1>3. from + c <= len + add /\ \A k \in 1 .. c : from + k \in 1 .. len
  BY <1>1 DEF Says
<1> QED
  BY <1>1, <1>2, <1>3 DEF Says

LEMMA SaysNew ==
  ASSUME NEW rows \in Seq(DataRow), NEW more \in Seq(DataRow), NEW e, NEW frames \in Seq(Nat),
         NEW from, from = Len(rows), Len(more) = Len(frames),
         \A k \in 1 .. Len(frames) :
           more[k] = [index |-> from + k - 1, episode_index |-> e, frame |-> frames[k]]
  PROVE  Says(rows \o more, from, e, frames)
<1>1. Len(rows \o more) = from + Len(frames) /\ from + Len(frames) \in Nat
  <2>1. Len(rows) \in Nat /\ Len(frames) \in Nat
    OBVIOUS
  <2>2. Len(rows \o more) = Len(rows) + Len(more)
    BY ConcatHas
  <2> QED
    BY <2>1, <2>2
<1>2. \A k \in 1 .. Len(frames) : (rows \o more)[from + k] = more[k]
  BY ConcatHas
<1> QED
  BY <1>1, <1>2 DEF Says

LEMMA ReadStep ==
  ASSUME WriterConstants, WriterInv, WriterInv', ReadInv,
         \/ create \/ resume \/ CloseData \/ CloseMeta \/ add_frame \/ clear_episode_buffer
         \/ (\E key \in video_keys : _save_episode_video(key)) \/ write_stats \/ SaveRaises
         \/ UNCHANGED vars
  PROVE  ReadInv'
<1> USE DEF disk
<1>1. CASE CloseData
  <2>1. /\ DOMAIN data'.files = DOMAIN data.files
        /\ \A p \in DOMAIN data.files : data'.files[p].rows = data.files[p].rows
    BY <1>1, DataIsClosed
  <2>2. All' = All
    BY <1>1 DEF CloseData, All
  <2> QED
    BY <1>1, <2>1, <2>2, ReadStays DEF CloseData
<1>2. CASE CloseMeta
  <2>1. All' = All
    BY <1>2, MetaIsClosed
  <2> QED
    BY <1>2, <2>1, ReadStays DEF CloseMeta
<1>3. CASE SaveRaises
  <2>1. All' = All
    BY <1>3 DEF SaveRaises, All
  <2>2. ~failed' => phase \notin {"video", "info"} /\ ~failed
    BY <1>3 DEF SaveRaises
  <2>3. phase' \notin {"video", "info"}
    BY <1>3 DEF SaveRaises
  <2> QED
    BY <1>3, <2>1, <2>2, <2>3, ReadStays DEF SaveRaises
<1>4. CASE create \/ resume \/ add_frame \/ clear_episode_buffer \/ write_stats
  <2>1. All' = All
    BY <1>4 DEF create, resume, add_frame, clear_episode_buffer, write_stats, All
  <2>2. phase \notin {"video", "info"} /\ phase' \notin {"video", "info"}
    BY <1>4 DEF create, resume, add_frame, clear_episode_buffer, write_stats
  <2> QED
    BY <1>4, <2>1, <2>2, ReadStays DEF create, resume, add_frame, clear_episode_buffer, write_stats
<1>5. CASE \E key \in video_keys : _save_episode_video(key)
  <2>1. UNCHANGED <<data, episodes, info, phase, buffer, saved, failed, crashed>> /\ phase = "video"
    BY <1>5 DEF _save_episode_video
  <2>2. All' = All
    BY <2>1 DEF All
  <2> QED
    BY <2>1, <2>2, ReadStays
<1>6. CASE UNCHANGED vars
  <2>1. All' = All
    BY <1>6 DEF vars, All
  <2> QED
    BY <1>6, <2>1, ReadStays DEF vars
<1> QED
  BY <1>1, <1>2, <1>3, <1>4, <1>5, <1>6

LEMMA ReadCrashStep == ASSUME ReadInv, Crash PROVE ReadInv'
<1>1. data'.files = data.files /\ crashed' = TRUE
  BY DEF Crash
<1> QED
  BY <1>1 DEF ReadInv

\* The frames of a saved episode.
LEMMA SavedEpisode ==
  ASSUME WriterInv, NEW m \in All PROVE saved[m.order + 1] \in Seq(Nat)
<1>1. saved \in Seq(Seq(Nat)) /\ Len(saved) \in Nat
  BY DEF WriterInv, Types, SessionTypes
<1>2. m.order + 1 \in 1 .. Len(saved)
  <2>1. m.order \in Nat /\ m.order < Len(saved)
    BY AllHaveFiles DEF WriterInv, Storage, AllStored, Stored
  <2> QED
    BY <1>1, <2>1
<1> QED
  BY <1>1, <1>2

\* The rows of an episode go behind all that is read.
LEMMA ReadSaveDataStep ==
  ASSUME WriterConstants, WriterInv, WriterInv', ReadInv, _save_episode_data PROVE ReadInv'
<1>1. /\ UNCHANGED <<videos, episodes, info, meta, buffer, n, session, saved, failed, crashed, torn>>
      /\ All' = All /\ phase = "record" /\ phase' = "video"
  BY DEF _save_episode_data, All
<1>2. PICK path, t : DataSaved(path, t)
  BY DataIsSaved
<1>3. /\ DOMAIN data'.files = DOMAIN data.files \cup {path} /\ path \in Path /\ data'.latest = path
      /\ EpisodeRows \in Seq(DataRow)
  BY <1>2 DEF DataSaved
<1>4. IsFiniteSet(DOMAIN data'.files)
  <2>1. IsFiniteSet(DOMAIN data.files)
    BY DEF ReadInv
  <2>2. IsFiniteSet(DOMAIN data.files \cup {path})
    BY <2>1, FS_AddElement
  <2> QED
    BY <1>3, <2>2
<1>5. ASSUME ~failed', ~crashed' PROVE InPlace'
  <2>1. InPlace
    BY <1>1, <1>5 DEF ReadInv
  <2>2. \A p \in DOMAIN data.files : \E m \in All : m.data = p
    BY <1>1, <2>1 DEF InPlace, FilesOK
  <2>3. \A p \in DOMAIN data.files : LE(p, path)
    BY <1>2, <2>2 DEF DataSaved
  <2>4. DataFiles(data.files) /\ Loaded \in Seq(DataRow)
    BY DataIsFiles
  <2>5. Loaded' = Loaded \o EpisodeRows
    <3>1. CASE t.open = None
      <4>1. path \notin DOMAIN data.files
        BY <1>2, <2>2, <3>1 DEF DataSaved
      <4>2. HasNew(data'.files, data.files, path) /\ data'.files[path].rows = EpisodeRows
        BY <1>2, <1>3, <2>3, <3>1, <4>1 DEF DataSaved, HasNew
      <4> QED
        BY <2>4, <4>2, LoadNew DEF Loaded
    <3>2. CASE t.open # None
      <4>1. HasMore(data'.files, data.files, path, EpisodeRows)
        BY <1>2, <1>3, <2>3, <3>2 DEF DataSaved, HasMore
      <4> QED
        BY <2>4, <4>1, LoadMore DEF Loaded
    <3> QED
      BY <3>1, <3>2
  <2>6. /\ buffer \in Seq(Nat) /\ Len(buffer) \in Nat /\ info.frames \in Nat
        /\ Len(EpisodeRows) = Len(buffer)
    BY EpisodeRowsAre, FramesAreNat DEF WriterInv, Types, SessionTypes
  <2>7. Len(Loaded) = info.frames /\ Len(Loaded') = info.frames + Len(buffer)
    <3>1. Len(Loaded) = info.frames
      BY <1>1, <2>1, <2>6 DEF InPlace, LengthOK
    <3>2. Len(Loaded \o EpisodeRows) = Len(Loaded) + Len(EpisodeRows)
      BY <1>3, <2>4, ConcatHas
    <3> QED
      BY <2>5, <2>6, <3>1, <3>2
  <2>8. Says(Loaded', info.frames, info.episodes, buffer)
    <3>1. \A k \in 1 .. Len(buffer) :
            EpisodeRows[k] = [index |-> info.frames + k - 1, episode_index |-> info.episodes,
                              frame |-> buffer[k]]
      BY <2>6 DEF EpisodeRows
    <3> QED
      BY <1>3, <2>4, <2>5, <2>6, <2>7, <3>1, SaysNew
  <2>9. ASSUME NEW m \in All PROVE Placed(m)'
    <3>1. Placed(m) /\ m.dataset_from_index \in Nat /\ m.episode_index = m.order
      BY <2>1, AllHaveFiles DEF InPlace, Placed, MetaRow
    <3>2. saved[m.order + 1] \in Seq(Nat)
      BY SavedEpisode
    <3>3. Says(Loaded \o EpisodeRows, m.dataset_from_index, m.episode_index, saved[m.order + 1])
      BY <1>3, <2>4, <3>1, <3>2, SaysStays DEF Placed
    <3> QED
      BY <1>1, <2>5, <3>1, <3>3 DEF Placed
  <2>10. EndsOK' /\ Counted'
    BY <1>1, <2>1 DEF InPlace, EndsOK, Counted
  <2>11. FilesOK'
    BY <1>1, <1>3, <2>2 DEF FilesOK
  <2>12. LengthOK' /\ SavingSays'
    BY <1>1, <2>7, <2>8 DEF LengthOK, SavingSays
  <2> QED
    BY <1>1, <2>9, <2>10, <2>11, <2>12 DEF InPlace
<1> QED
  BY <1>4, <1>5 DEF ReadInv

LEMMA StartIs ==
  ASSUME WriterInv, InPlace, ~crashed, phase = "video"
  PROVE  info.frames = (IF Before = <<>> THEN 0 ELSE Before[1].dataset_to_index)
<1>1. Len(saved) \in Nat
  BY DEF WriterInv, Types, SessionTypes
<1>2. \A e \in 0 .. Len(saved) - 1 : \E m \in All : m.order = e
  BY DEF WriterInv, Storage, Count
<1>3. CASE Before = <<>>
  <2>1. All = {}
    BY <1>3, BeforeIs
  <2>2. Len(saved) = 0
    <3>1. Len(saved) # 0 => 0 \in 0 .. Len(saved) - 1
      BY <1>1
    <3> QED
      BY <1>2, <2>1, <3>1
  <2> QED
    BY <1>3, <2>2 DEF InPlace, EndsOK
<1>4. CASE Before # <<>>
  <2>1. PICK x \in All : Before[1] = x /\ \A m \in All : UpTo(m, x)
    BY <1>4, BeforeIs DEF Newest, All
  <2>2. PICK e \in Nat : e = x.order /\ e < Len(saved)
    BY <1>1, AllHaveFiles DEF WriterInv, Storage, AllStored, Stored
  <2>3. Len(saved) - 1 \in 0 .. Len(saved) - 1
    BY <1>1, <2>2
  <2>4. PICK m \in All : m.order = Len(saved) - 1
    BY <1>2, <2>3
  <2>5. Len(saved) - 1 <= e
    BY <2>1, <2>2, <2>4 DEF UpTo
  <2>6. e = Len(saved) - 1
    BY <1>1, <2>2, <2>5
  <2> QED
    BY <1>4, <2>1, <2>2, <2>6 DEF InPlace, EndsOK
<1> QED
  BY <1>3, <1>4

\* The new row says where the rows are.
LEMMA ReadSaveEpisodeMetadataStep ==
  ASSUME WriterConstants, WriterInv, WriterInv', ReadInv, _save_episode_metadata PROVE ReadInv'
<1>1. /\ UNCHANGED <<data, videos, info, buffer, n, session, failed, crashed>>
      /\ phase = "video" /\ phase' = "info" /\ saved' = Append(saved, buffer)
  BY DEF _save_episode_metadata
<1>2. PICK new : NewRow(new)
  BY NewRowIs
<1>3. ASSUME ~failed', ~crashed' PROVE InPlace'
  <2>1. InPlace /\ Len(saved) = info.episodes
    BY <1>1, <1>3 DEF ReadInv, InPlace, Counted
  <2>2. /\ new.dataset_from_index = info.frames /\ new.dataset_to_index = info.frames + Len(buffer)
        /\ new.episode_index = info.episodes /\ new.order = Len(saved) /\ new.data = data.latest
    <3>1. new.dataset_from_index = info.frames
      BY <1>1, <1>2, <1>3, <2>1, StartIs DEF NewRow
    <3> QED
      BY <1>1, <1>2, <3>1 DEF NewRow, WriterInv, Storage, Saving
  <2>3. All' = All \cup {new} /\ Loaded' = Loaded
    BY <1>1, <1>2 DEF NewRow, All, Loaded
  <2>4. /\ info.episodes \in Nat /\ info.frames \in Nat /\ Len(saved) \in Nat
        /\ buffer \in Seq(Nat) /\ Len(buffer) \in Nat /\ saved \in Seq(Seq(Nat))
    BY FramesAreNat DEF WriterInv, Types, SessionTypes
  <2>5. /\ Len(saved') = Len(saved) + 1 /\ saved'[Len(saved) + 1] = buffer
        /\ \A i \in 1 .. Len(saved) : saved'[i] = saved[i]
    <3>1. /\ Len(Append(saved, buffer)) = Len(saved) + 1 /\ Append(saved, buffer)[Len(saved) + 1] = buffer
          /\ \A i \in 1 .. Len(saved) : Append(saved, buffer)[i] = saved[i]
      BY <2>4, AppendProperties
    <3> QED
      BY <1>1, <3>1
  <2>6. LengthOK' /\ SavingSays' /\ Counted'
    BY <1>1, <2>1, <2>3, <2>5 DEF InPlace, LengthOK, SavingSays, Counted
  <2>8. ASSUME NEW m \in All PROVE m.order \in Nat /\ m.order < Len(saved)
    BY <2>4, AllHaveFiles DEF WriterInv, Storage, AllStored, Stored
  <2>9. ASSUME NEW m \in All PROVE Placed(m)'
    <3>1. m.order + 1 \in 1 .. Len(saved)
      BY <2>4, <2>8
    <3>2. saved'[m.order + 1] = saved[m.order + 1]
      BY <2>5, <3>1
    <3> QED
      BY <2>1, <2>3, <3>2 DEF InPlace, Placed
  <2>10. Placed(new)'
    BY <1>1, <2>1, <2>2, <2>3, <2>5 DEF InPlace, SavingSays, Placed
  <2>11. EndsOK'
    <3>1. ASSUME NEW m \in All PROVE m.order # Len(saved') - 1
      BY <2>4, <2>5, <2>8
    <3>2. Len(saved') # 0
      BY <2>4, <2>5
    <3> QED
      BY <1>1, <2>2, <2>3, <2>5, <3>1, <3>2 DEF EndsOK
  <2>12. FilesOK'
    BY <1>1, <2>1, <2>2, <2>3 DEF InPlace, FilesOK
  <2> QED
    BY <2>3, <2>6, <2>9, <2>10, <2>11, <2>12 DEF InPlace
<1> QED
  BY <1>1, <1>3 DEF ReadInv

\* The new row is counted.
LEMMA ReadWriteInfoStep == ASSUME WriterInv, ReadInv, write_info PROVE ReadInv'
<1>1. /\ UNCHANGED <<data, episodes, buffer, saved, failed, crashed>>
      /\ phase = "info" /\ phase' = "stats" /\ All' = All /\ Loaded' = Loaded
      /\ info' = [episodes |-> info.episodes + 1, frames |-> info.frames + Len(buffer)]
  BY DEF write_info, All, Loaded
<1>2. info'.episodes = info.episodes + 1 /\ info'.frames = info.frames + Len(buffer)
  BY <1>1
<1>3. Len(saved) # 0
  BY <1>1 DEF WriterInv, Types, SessionTypes
<1>4. ASSUME ~failed', ~crashed' PROVE InPlace'
  <2>1. InPlace
    BY <1>1, <1>4 DEF ReadInv
  <2>2. Counted' /\ LengthOK' /\ SavingSays'
    BY <1>1, <1>2, <2>1 DEF InPlace, Counted, LengthOK, SavingSays
  <2>3. EndsOK'
    BY <1>1, <1>2, <1>3, <2>1 DEF InPlace, EndsOK
  <2>4. FilesOK' /\ \A m \in All' : Placed(m)'
    BY <1>1, <2>1 DEF InPlace, FilesOK, Placed
  <2> QED
    BY <2>2, <2>3, <2>4 DEF InPlace
<1> QED
  BY <1>1, <1>4 DEF ReadInv

LEMMA NextReadInv ==
  ASSUME WriterConstants, WriterInv, ReadInv, [Next]_vars PROVE ReadInv'
<1>1. WriterInv'
  BY NextWriterInv
<1> QED
  BY <1>1, ReadStep, ReadCrashStep, ReadSaveDataStep, ReadSaveEpisodeMetadataStep, ReadWriteInfoStep DEF Next

LEMMA InvImpliesReadBack == ASSUME WriterInv, ReadInv PROVE SessionsReadBack
<1> SUFFICES ASSUME phase = "closed", ~failed, ~crashed, saved # <<>> PROVE ReadsBack
  BY DEF SessionsReadBack
<1>1. Readable(data) /\ Readable(episodes) /\ Cardinality(Listed) = Len(saved)
  BY SavedHasFiles, InvImpliesWhole DEF FailuresLeaveItWhole
<1>3. InPlace /\ load_nested_dataset(data) = Loaded
  BY LoadedIsLoad DEF ReadInv, Loaded
<1>2. info.episodes = Len(saved)
  BY <1>3 DEF InPlace, Counted
<1>4. info.frames = Len(load_nested_dataset(data))
  BY <1>3 DEF InPlace, LengthOK
<1>l. Listed \subseteq All
  BY RowsHaveType DEF Listed, ListedOf, All, AllOf, WriterInv, Metadata, MetaTypes
<1>n. \A m \in Listed : m.episode_index = m.order
  BY <1>3, <1>l DEF InPlace, Placed
<1>5. ASSUME NEW m \in Listed, NEW k \in DOMAIN saved[m.order + 1] PROVE RowSays(m, k)
  <2>1. m \in All
    BY <1>l
  <2>2. saved[m.order + 1] \in Seq(Nat)
    BY <2>1, SavedEpisode
  <2>3. k \in 1 .. Len(saved[m.order + 1])
    BY <2>2
  <2> QED
    BY <1>3, <2>1, <2>3 DEF InPlace, Placed, Says, RowSays
<1> QED
  BY <1>1, <1>2, <1>4, <1>5, <1>n DEF ReadsBack

================================================================================
