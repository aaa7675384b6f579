--------------------------- MODULE ZConfigProofs ---------------------------
(***************************************************************************)
(* Proofs about ZConfig for any files, contents, users and changes.        *)
(*                                                                         *)
(* The files (reader.go, watcher.go): an event that is not read yet, or a  *)
(* goroutine that has read the file and not stored it, stands for what a   *)
(* file says and the values do not.  A merge keeps what the other files    *)
(* said, as they have no key in common, unless the values changed since    *)
(* it cloned them, and then it is lost.                                    *)
(*                                                                         *)
(* The cells (config.go): a cell belongs to one key.  Of a key that is not *)
(* raced the cache holds one cell for good, everybody who read the key     *)
(* holds it, and if its value is old some watcher has yet to come to it.   *)
(***************************************************************************)
EXTENDS ZConfig, SequenceTheorems, TLAPS

Goroutines == Files \cup {Loader}

\* A goroutine's record, whatever it holds.
IsMem(m) == m = [kv |-> m.kv, map |-> m.map, base |-> m.base, todo |-> m.todo,
                 key |-> m.key, cell |-> m.cell, new |-> m.new]

----------------------------------------------------------------------------
(* The invariant of the files.                                             *)

Operations == {"write", "rename", "remove"}
WatcherAt == {"off", "next", "sleep", "merge", "store", "range", "put"}
LoaderAt == {"load", "merge", "store", "watch", "done", "failed"}
IsLoading == pc[Loader] \in {"load", "merge", "store", "watch"}
\* The file that a goroutine merges.
Source(p) == IF p = Loader THEN Sources[loading] ELSE p

\* What a map has to say of the keys of a content: placeholders are expanded.
Agrees(map, c) ==
    \A k \in DOMAIN c : k \in DOMAIN map /\ (c[k].t # "ref" => map[k] = c[k])

FilesTypeOK ==
    /\ DOMAIN file = Files /\ \A f \in Files : file[f] \in Contents[f] \cup {Torn, Absent}
    /\ events \in [Files -> Seq(Operations)]
    /\ watched \in [Files -> BOOLEAN]
    /\ DOMAIN pc = Goroutines /\ pc[Loader] \in LoaderAt
    /\ \A f \in Files : pc[f] \in WatcherAt
    /\ DOMAIN mem = Goroutines /\ \A p \in Goroutines : IsMem(mem[p])
    /\ loading \in 1..Len(Sources)

\* The files that Load has not come to have no watcher (config.go Load).
NotYetWatched ==
    IsLoading => \A i \in loading..Len(Sources) : pc[Sources[i]] = "off"

\* A watch is on a file that is there, and lost with it (watcher.go Next).
WatchedAreThere ==
    \A f \in Files : watched[f] => file[f] # Absent /\ pc[f] \notin {"off", "sleep"}

\* What is merged is a content of the goroutine's file, over the values it cloned.
MergesAreOwn ==
    \A p \in Goroutines :
        /\ pc[p] = "merge" => mem[p].kv \in Contents[Source(p)] \cup {Torn}
        /\ pc[p] = "store" => /\ mem[p].kv \in Contents[Source(p)]
                              /\ mem[p].map \in Resolved(Over(mem[p].kv, mem[p].base))

\* Load merges what its file says (reader.go Merge) until somebody changes it.
LoadedIsRead ==
    LET f == Sources[loading] IN
    f \notin missed =>
        /\ pc[Loader] \in {"merge", "store"} => mem[Loader].kv = file[f]
        /\ pc[Loader] = "watch" /\ ~lost => file[f] \in Contents[f] /\ Agrees(values, file[f])

\* A watcher that has no event to read is merging what its file says, or the values say it.
EventsAreRead ==
    \A f \in Files :
        watched[f] /\ f \notin missed /\ file[f] # Torn /\ ~lost /\ events[f] = <<>> =>
            IF pc[f] \in {"merge", "store"} THEN mem[f].kv = file[f]
            ELSE Agrees(values, file[f])

FilesInv == /\ FilesTypeOK /\ NotYetWatched /\ WatchedAreThere /\ MergesAreOwn
            /\ LoadedIsRead /\ EventsAreRead

----------------------------------------------------------------------------
(* The invariant of the cells.                                             *)

UserOps == {"idle", "fill", "fillwatch", "observe", "done"}
Filling(u) == user[u].op \in {"fill", "fillwatch"}
\* f has read a value that it has not stored yet.
Putting(f) == pc[f] = "put"

CellsTypeOK ==
    /\ DOMAIN pc = Goroutines /\ DOMAIN mem = Goroutines
    /\ \A p \in Goroutines : IsMem(mem[p])
    /\ cells \in Seq(ToSet(cells))
    /\ cached \in [Keys -> 0..Len(cells)]
    /\ DOMAIN user = Users
    /\ \A u \in Users : /\ user[u] = [op |-> user[u].op, key |-> user[u].key,
                                      cell |-> user[u].cell, known |-> user[u].known]
                        /\ user[u].op \in UserOps
                        /\ user[u].key \in Keys \/ (user[u].key = "" /\ ~Filling(u))
                        /\ user[u].op = "observe" => user[u].key \in Keys
                        /\ user[u].op = "idle" => user[u].key = ""
    /\ \A k \in DOMAIN observers : k \in Keys

\* No user reads before Load has returned, which has the goroutine to itself (config.go).
NobodyBeforeLoad ==
    pc[Loader] # "done" => /\ \A k \in Keys : cached[k] = None
                           /\ \A u \in Users : user[u].op = "idle" /\ user[u].key = ""

\* A cell is made for one key and never serves another (value.go).
IsOwner(owner) ==
    /\ \A k \in Keys : cached[k] # None => owner[cached[k]] = k
    /\ \A u \in Users : user[u].key # "" =>
          user[u].cell \in 1..Len(cells) /\ owner[user[u].cell] = user[u].key
    /\ \A f \in Files : Putting(f) =>
          mem[f].cell \in 1..Len(cells) /\ owner[mem[f].cell] = mem[f].key

CellsHaveOneKey == \E owner \in [1..Len(cells) -> Keys] : IsOwner(owner)

\* A range visits cached keys (config.go watch).
RangesVisitCached ==
    \A f \in Files : pc[f] \in {"range", "put"} => mem[f].todo \subseteq CachedKeys

\* A cell that is not in the cache yet is its maker's alone and holds what it read.
FillsArePrivate ==
    \A u \in Users : Filling(u) =>
        /\ cells[user[u].cell] = user[u].known
        /\ \A k \in Keys : cached[k] # user[u].cell
        /\ \A f \in Files : Putting(f) => mem[f].cell # user[u].cell
        /\ \A w \in Users \ {u} : user[w].key # "" => user[w].cell # user[u].cell

\* Who has read a key holds its cached cell.
ReadersHoldCached ==
    \A u \in Users : user[u].op \in {"observe", "done"} /\ user[u].key \in Keys \ raced =>
        user[u].cell = cached[user[u].key]

\* A watcher that will bring the cell of a key up to date.
WillRefresh(f, k) ==
    \/ pc[f] \in {"range", "put"} /\ k \in mem[f].todo
    \/ Putting(f) /\ mem[f].key = k /\ mem[f].cell = cached[k] /\ mem[f].new = values[k]

\* A cell with an old value is one that a watcher has yet to come to.
OldCellsAreVisited ==
    \A k \in Keys \ raced :
        cached[k] # None /\ k \in DOMAIN values =>
            cells[cached[k]] = values[k] \/ \E f \in Files : WillRefresh(f, k)

\* An observer knows what the cell of its key holds.
ObserversKnow ==
    \A k \in DOMAIN observers \ raced : cached[k] # None /\ observers[k] = cells[cached[k]]

CellsInv == /\ CellsTypeOK /\ NobodyBeforeLoad /\ CellsHaveOneKey /\ RangesVisitCached
            /\ FillsArePrivate /\ ReadersHoldCached /\ OldCellsAreVisited /\ ObserversKnow

----------------------------------------------------------------------------
(* What a merge makes of the values (reader.go Merge, options.go).         *)

\* The resolver adds no key, drops none and leaves everything but placeholders alone.
LEMMA ResolvedKeeps ==
    ASSUME NEW m, NEW r \in Resolved(m)
    PROVE  DOMAIN r = DOMAIN m /\ \A k \in DOMAIN m : m[k].t # "ref" => r[k] = m[k]
<1>1. /\ DOMAIN r = DOMAIN m
      /\ \A k \in DOMAIN m : \E before : r[k] = Expand(before, m[k])
  BY DEF Resolved
<1>2. \A before, v : v.t # "ref" => Expand(before, v) = v
  BY DEF Expand
<1>. QED BY <1>1, <1>2

\* What was merged is in the result, and what had no key in common with it stays.
LEMMA MergedAgrees ==
    ASSUME NEW kv, NEW base, NEW r \in Resolved(Over(kv, base))
    PROVE  /\ Agrees(r, kv)
           /\ \A c : DOMAIN kv \cap DOMAIN c = {} /\ Agrees(base, c) => Agrees(r, c)
<1>1. PICK m : m = Over(kv, base)
  OBVIOUS
<1>2. /\ DOMAIN m = DOMAIN kv \cup DOMAIN base
      /\ \A k \in DOMAIN kv : m[k] = kv[k]
      /\ \A k \in DOMAIN base : k \notin DOMAIN kv => m[k] = base[k]
  BY <1>1 DEF Over
<1>3. DOMAIN r = DOMAIN m /\ \A k \in DOMAIN m : m[k].t # "ref" => r[k] = m[k]
  BY <1>1, ResolvedKeeps
<1>4. Agrees(r, kv)
  BY <1>2, <1>3 DEF Agrees
<1>5. ASSUME NEW c, DOMAIN kv \cap DOMAIN c = {}, Agrees(base, c)
      PROVE  Agrees(r, c)
  BY <1>2, <1>3, <1>5 DEF Agrees
<1>. QED BY <1>4, <1>5

\* Nothing is read from a file that is torn or not there.
LEMMA TornIsNotAbsent == Torn # Absent
<1>1. DOMAIN Torn = {"torn"} /\ DOMAIN Absent = {"absent"}
  BY DEF Torn, Absent
<1>. QED BY <1>1

LEMMA NothingIsMem == IsMem(Nothing)
BY DEF IsMem, Nothing

\* What is written in a goroutine's record.
LEMMA EditedMem ==
    ASSUME NEW m, IsMem(m), NEW r, NEW k, NEW c, NEW v
    PROVE  /\ IsMem([m EXCEPT !.todo = r])
           /\ [m EXCEPT !.todo = r].todo = r
           /\ IsMem([m EXCEPT !.todo = r, !.key = k, !.cell = c, !.new = v])
           /\ [m EXCEPT !.todo = r, !.key = k, !.cell = c, !.new = v].todo = r
           /\ [m EXCEPT !.todo = r, !.key = k, !.cell = c, !.new = v].key = k
           /\ [m EXCEPT !.todo = r, !.key = k, !.cell = c, !.new = v].cell = c
           /\ [m EXCEPT !.todo = r, !.key = k, !.cell = c, !.new = v].new = v
<1>1. PICK x : x = [m EXCEPT !.todo = r]
  OBVIOUS
<1>2. PICK y : y = [m EXCEPT !.todo = r, !.key = k, !.cell = c, !.new = v]
  OBVIOUS
<1>3. IsMem(x) /\ x.todo = r
  BY <1>1 DEF IsMem
<1>4. y.todo = r /\ y.key = k /\ y.cell = c /\ y.new = v
  BY <1>2 DEF IsMem
<1>5. IsMem(y)
  BY <1>2 DEF IsMem
<1>. QED BY <1>1, <1>2, <1>3, <1>4, <1>5

LEMMA MergedMem ==
    ASSUME NEW m, IsMem(m), NEW map, NEW base
    PROVE  /\ IsMem([m EXCEPT !.map = map, !.base = base])
           /\ [m EXCEPT !.map = map, !.base = base].kv = m.kv
           /\ [m EXCEPT !.map = map, !.base = base].map = map
           /\ [m EXCEPT !.map = map, !.base = base].base = base
<1>1. PICK x : x = [m EXCEPT !.map = map, !.base = base]
  OBVIOUS
<1>2. IsMem(x) /\ x.kv = m.kv /\ x.map = map /\ x.base = base
  BY <1>1 DEF IsMem
<1>. QED BY <1>1, <1>2

\* Load comes to each file once.
LEMMA SourcesAre ==
    /\ Len(Sources) \in Nat /\ Len(Sources) >= 1
    /\ \A i \in 1..Len(Sources) : Sources[i] \in Files
    /\ \A i, j \in 1..Len(Sources) : Sources[i] = Sources[j] => i = j
<1>1. Sources \in Seq(Files) /\ Sources # <<>> /\ IsInjective(Sources)
  BY ZConfigAssumption
<1>2. DOMAIN Sources = 1..Len(Sources) /\ Len(Sources) \in Nat
  BY <1>1, LenProperties
<1>3. Len(Sources) # 0
  BY <1>1, EmptySeq
<1>. QED BY <1>1, <1>2, <1>3 DEF IsInjective

----------------------------------------------------------------------------
(* Each action keeps the invariant of the files.                           *)

LEMMA InitFiles == Init => FilesInv
<1>. SUFFICES ASSUME Init PROVE FilesInv
  OBVIOUS
<1>1. Loader \notin Files
  BY ZConfigAssumption
<1>2. /\ \A f \in Files : pc[f] = "off" /\ ~watched[f] /\ events[f] = <<>>
      /\ pc[Loader] = "load" /\ loading = 1
      /\ \A p \in Goroutines : mem[p] = Nothing /\ pc[p] \notin {"merge", "store"}
  BY <1>1 DEF Init, Goroutines
<1>3. FilesTypeOK
  <2>1. <<>> \in Seq(Operations)
    BY EmptySeq
  <2>2. DOMAIN file = Files /\ \A f \in Files : file[f] \in Contents[f]
    BY DEF Init
  <2>3. DOMAIN pc = Goroutines /\ DOMAIN mem = Goroutines
    BY DEF Init, Goroutines
  <2>4. events \in [Files -> Seq(Operations)] /\ watched \in [Files -> BOOLEAN]
    BY <2>1 DEF Init
  <2>. QED BY <1>2, <2>2, <2>3, <2>4, SourcesAre, NothingIsMem
           DEF FilesTypeOK, WatcherAt, LoaderAt
<1>4. NotYetWatched
  BY <1>2, SourcesAre DEF NotYetWatched
<1>5. WatchedAreThere /\ MergesAreOwn /\ LoadedIsRead /\ EventsAreRead
  BY <1>2 DEF WatchedAreThere, MergesAreOwn, LoadedIsRead, EventsAreRead
<1>. QED BY <1>3, <1>4, <1>5 DEF FilesInv

\* Operators touch a file: the kernel tells of it, if it watches what is at the path.
LEMMA TouchFiles ==
    ASSUME FilesInv, NEW f \in Files, NEW content \in Contents[f] \cup {Torn, Absent},
           NEW ops \in Seq(Operations), NEW stays \in BOOLEAN,
           stays => ops # <<>> /\ content # Absent,
           Touch(f, content, ops, stays)
    PROVE  FilesInv'
<1>. USE DEF FilesInv
<1>1. /\ UNCHANGED <<values, pc, mem, loading, lost>>
      /\ file' = [file EXCEPT ![f] = content]
      /\ events' = [events EXCEPT ![f] = IF watched[f] THEN events[f] \o ops ELSE events[f]]
      /\ watched' = [watched EXCEPT ![f] = watched[f] /\ stays]
      /\ missed' = IF Sources[loading] = f /\ pc[Loader] \in {"merge", "store", "watch"}
                   THEN missed \cup {f} ELSE missed
  BY DEF Touch
<1>2. /\ DOMAIN file' = Files /\ file'[f] = content
      /\ \A g \in Files \ {f} : file'[g] = file[g]
  BY <1>1 DEF FilesTypeOK
<1>3. /\ watched' \in [Files -> BOOLEAN] /\ (watched'[f] => watched[f] /\ stays)
      /\ \A g \in Files \ {f} : watched'[g] = watched[g]
  BY <1>1 DEF FilesTypeOK
<1>4. /\ events' \in [Files -> Seq(Operations)] /\ (watched'[f] => events'[f] # <<>>)
      /\ \A g \in Files \ {f} : events'[g] = events[g]
  <2>1. PICK s : s = events[f] \o ops
    OBVIOUS
  <2>2. s \in Seq(Operations) /\ (ops # <<>> => s # <<>>)
    <3>1. events[f] \in Seq(Operations)
      BY DEF FilesTypeOK
    <3>. QED BY <2>1, <3>1, ConcatProperties, ConcatEmptySeq, EmptySeq, LenProperties
  <2>3. events' = [events EXCEPT ![f] = IF watched[f] THEN s ELSE events[f]]
    BY <1>1, <2>1
  <2>. QED BY <1>3, <2>2, <2>3 DEF FilesTypeOK
<1>5. FilesTypeOK'
  BY <1>1, <1>2, <1>3, <1>4 DEF FilesTypeOK
<1>6. NotYetWatched'
  BY <1>1 DEF NotYetWatched, IsLoading
<1>7. WatchedAreThere'
  BY <1>1, <1>2, <1>3 DEF WatchedAreThere
<1>8. MergesAreOwn'
  BY <1>1 DEF MergesAreOwn, Source
<1>9. LoadedIsRead'
  <2>1. PICK g : g = Sources[loading]
    OBVIOUS
  <2>2. g \in Files
    BY <2>1, SourcesAre DEF FilesTypeOK
  <2>3. CASE g = f
    BY <1>1, <2>1, <2>3 DEF LoadedIsRead
  <2>4. CASE g # f
    <3>1. file'[g] = file[g] /\ (g \notin missed' => g \notin missed)
      BY <1>1, <1>2, <2>2, <2>4
    <3>. QED BY <1>1, <2>1, <3>1 DEF LoadedIsRead
  <2>. QED BY <2>3, <2>4
<1>10. EventsAreRead'
  <2>. SUFFICES ASSUME NEW g \in Files, watched'[g], g \notin missed', file'[g] # Torn,
                       ~lost', events'[g] = <<>>
                PROVE  IF pc'[g] \in {"merge", "store"} THEN mem'[g].kv = file'[g]
                       ELSE Agrees(values', file'[g])
    BY DEF EventsAreRead
  <2>1. g # f
    BY <1>4
  <2>2. /\ watched[g] /\ g \notin missed /\ file[g] # Torn /\ ~lost /\ events[g] = <<>>
        /\ file'[g] = file[g]
    BY <1>1, <1>2, <1>3, <1>4, <2>1
  <2>. QED BY <1>1, <2>2 DEF EventsAreRead
<1>. QED BY <1>5, <1>6, <1>7, <1>8, <1>9, <1>10

LEMMA OperatorsFiles ==
    ASSUME FilesInv, Operators
    PROVE  FilesInv'
<1>1. PICK f \in Files : Truncate(f) \/ Rewrite(f) \/ MoveAway(f) \/ PutBack(f) \/ Replace(f)
  BY DEF Operators
<1>2. \A op \in Operations : <<op>> \in Seq(Operations) /\ <<op>> # <<>>
  OBVIOUS
<1>3. <<"write">> \in Seq(Operations) /\ <<"rename">> \in Seq(Operations)
      /\ <<"remove">> \in Seq(Operations) /\ <<>> \in Seq(Operations) /\ <<"write">> # <<>>
  BY <1>2, EmptySeq DEF Operations
<1>4. \A c \in Contents[f] : c # Absent
  BY ZConfigAssumption
<1>5. CASE Truncate(f)
  <2>1. Touch(f, Torn, <<"write">>, TRUE)
    BY <1>5 DEF Truncate
  <2>. QED BY <1>3, <2>1, TouchFiles, TornIsNotAbsent
<1>6. CASE Rewrite(f)
  <2>1. PICK c \in Contents[f] : Touch(f, c, <<"write">>, TRUE)
    BY <1>6 DEF Rewrite
  <2>. QED BY <1>3, <1>4, <2>1, TouchFiles
<1>7. CASE MoveAway(f)
  <2>1. Touch(f, Absent, <<"rename">>, FALSE)
    BY <1>7 DEF MoveAway
  <2>. QED BY <1>3, <2>1, TouchFiles
<1>8. CASE PutBack(f)
  <2>1. PICK c \in Contents[f] : Touch(f, c, <<>>, FALSE)
    BY <1>8 DEF PutBack
  <2>. QED BY <1>3, <2>1, TouchFiles
<1>9. CASE Replace(f)
  <2>1. PICK c \in Contents[f] : Touch(f, c, <<"remove">>, FALSE)
    BY <1>9 DEF Replace
  <2>. QED BY <1>3, <2>1, TouchFiles
<1>. QED BY <1>1, <1>5, <1>6, <1>7, <1>8, <1>9

\* A goroutine that runs already leaves the files Load has not come to alone.
LEMMA OneMoves ==
    ASSUME FilesInv, NEW p \in Goroutines, NEW to, Go(p, to), pc[p] # "off",
           loading' = loading, IsLoading' => IsLoading
    PROVE  /\ DOMAIN pc' = Goroutines /\ pc'[p] = to
           /\ \A q \in Goroutines \ {p} : pc'[q] = pc[q]
           /\ NotYetWatched'
<1>1. /\ DOMAIN pc' = Goroutines /\ pc'[p] = to
      /\ \A q \in Goroutines \ {p} : pc'[q] = pc[q]
  BY DEF Go, FilesInv, FilesTypeOK
<1>2. loading \in 1..Len(Sources)
  BY DEF FilesInv, FilesTypeOK
<1>3. \A i \in loading..Len(Sources) : Sources[i] \in Goroutines
  BY <1>2, SourcesAre DEF Goroutines
<1>. QED BY <1>1, <1>3 DEF NotYetWatched, FilesInv

\* Load reads its file as it is, and then merges that.
LEMMA LoadFileFiles ==
    ASSUME FilesInv, LoadFile
    PROVE  FilesInv'
<1>. USE DEF FilesInv
<1>1. Loader \notin Files /\ Loader \in Goroutines /\ Files \subseteq Goroutines
  BY ZConfigAssumption DEF Goroutines
<1>2. PICK f : f = Sources[loading]
  OBVIOUS
<1>3. f \in Files
  BY <1>2, SourcesAre DEF FilesTypeOK
<1>4. /\ UNCHANGED <<file, events, watched, values, loading, lost, missed>>
      /\ pc[Loader] = "load"
      /\ IF file[f] = Absent
         THEN Go(Loader, "failed") /\ UNCHANGED mem
         ELSE /\ mem' = [mem EXCEPT ![Loader] = [Nothing EXCEPT !.kv = file[f]]]
              /\ Go(Loader, "merge")
  BY <1>2 DEF LoadFile, disk
<1>5. PICK to : Go(Loader, to) /\ to = IF file[f] = Absent THEN "failed" ELSE "merge"
  BY <1>4
<1>6. /\ DOMAIN pc' = Goroutines /\ pc'[Loader] = to
      /\ \A q \in Goroutines \ {Loader} : pc'[q] = pc[q]
      /\ NotYetWatched'
  BY <1>1, <1>4, <1>5, OneMoves DEF IsLoading
<1>7. PICK m : m = [Nothing EXCEPT !.kv = file[f]]
  OBVIOUS
<1>8. IsMem(m) /\ m.kv = file[f]
  BY <1>7 DEF IsMem, Nothing
<1>9. /\ DOMAIN mem' = Goroutines /\ \A p \in Goroutines : IsMem(mem'[p])
      /\ to = "merge" => mem'[Loader].kv = file[f]
      /\ \A q \in Goroutines \ {Loader} : mem'[q] = mem[q]
  <2>1. mem' = mem \/ mem' = [mem EXCEPT ![Loader] = m]
    BY <1>4, <1>7
  <2>2. to = "merge" => mem' = [mem EXCEPT ![Loader] = m]
    BY <1>4, <1>5, <1>7
  <2>. QED BY <1>1, <1>8, <2>1, <2>2 DEF FilesTypeOK
<1>10. FilesTypeOK'
  <2>1. pc'[Loader] \in LoaderAt /\ \A g \in Files : pc'[g] \in WatcherAt
    BY <1>1, <1>5, <1>6 DEF FilesTypeOK, LoaderAt
  <2>. QED BY <1>4, <1>6, <1>9, <2>1 DEF FilesTypeOK
<1>11. WatchedAreThere'
  BY <1>1, <1>4, <1>6 DEF WatchedAreThere
<1>12. MergesAreOwn'
  <2>. SUFFICES ASSUME NEW p \in Goroutines
                PROVE  /\ pc'[p] = "merge" => mem'[p].kv \in Contents[Source(p)'] \cup {Torn}
                       /\ pc'[p] = "store" =>
                            /\ mem'[p].kv \in Contents[Source(p)']
                            /\ mem'[p].map \in Resolved(Over(mem'[p].kv, mem'[p].base))
    BY DEF MergesAreOwn
  <2>1. Source(p)' = Source(p)
    BY <1>4 DEF Source
  <2>2. CASE p = Loader
    <3>1. file[f] \in Contents[f] \cup {Torn, Absent}
      BY <1>3 DEF FilesTypeOK
    <3>2. Source(p) = f
      BY <1>2, <2>2 DEF Source
    <3>. QED BY <1>5, <1>6, <1>9, <2>1, <2>2, <3>1, <3>2
  <2>3. CASE p # Loader
    BY <1>6, <1>9, <2>1, <2>3 DEF MergesAreOwn
  <2>. QED BY <2>2, <2>3
<1>13. LoadedIsRead'
  BY <1>2, <1>4, <1>5, <1>6, <1>9 DEF LoadedIsRead
<1>14. EventsAreRead'
  <2>1. \A g \in Files : pc'[g] = pc[g] /\ mem'[g] = mem[g]
    BY <1>1, <1>6, <1>9
  <2>. QED BY <1>4, <2>1 DEF EventsAreRead
<1>. QED BY <1>6, <1>10, <1>11, <1>12, <1>13, <1>14

\* A merge decodes what was read, over the values it clones, or gives it up.
LEMMA MergeFiles ==
    ASSUME FilesInv, NEW p \in Goroutines, NEW otherwise, Merge(p, otherwise),
           IF p = Loader THEN otherwise = "failed" ELSE otherwise = "next"
    PROVE  FilesInv'
<1>. USE DEF FilesInv
<1>1. Loader \notin Files /\ Loader \in Goroutines /\ Files \subseteq Goroutines
      /\ (p # Loader => p \in Files)
  BY ZConfigAssumption DEF Goroutines
<1>2. /\ UNCHANGED <<file, events, watched, values, loading, lost, missed>>
      /\ pc[p] = "merge"
  BY DEF Merge, disk
<1>3. PICK to : /\ Go(p, to) /\ to = IF mem[p].kv = Torn THEN otherwise ELSE "store"
  BY DEF Merge
<1>4. /\ DOMAIN pc' = Goroutines /\ pc'[p] = to
      /\ \A q \in Goroutines \ {p} : pc'[q] = pc[q]
      /\ NotYetWatched'
  <2>1. IsLoading' => IsLoading
    <3>1. pc'[Loader] = pc[Loader] \/ pc[Loader] = "merge"
      BY <1>1, <1>2, <1>3 DEF Go, FilesTypeOK
    <3>. QED BY <3>1 DEF IsLoading
  <2>. QED BY <1>2, <1>3, <2>1, OneMoves
<1>5. /\ DOMAIN mem' = Goroutines /\ \A q \in Goroutines : IsMem(mem'[q])
      /\ \A q \in Goroutines : mem'[q].kv = mem[q].kv
      /\ to = "store" => mem'[p].map \in Resolved(Over(mem'[p].kv, mem'[p].base))
      /\ \A q \in Goroutines \ {p} : mem'[q] = mem[q]
  <2>1. CASE mem[p].kv = Torn
    <3>1. mem' = mem /\ to # "store"
      BY <1>3, <2>1 DEF Merge
    <3>. QED BY <3>1 DEF FilesTypeOK
  <2>2. CASE mem[p].kv # Torn
    <3>1. PICK m \in Merged(mem[p].kv) :
             mem' = [mem EXCEPT ![p] = [@ EXCEPT !.map = m, !.base = values]]
      BY <2>2 DEF Merge
    <3>2. PICK r : r = [mem[p] EXCEPT !.map = m, !.base = values]
      OBVIOUS
    <3>3. IsMem(r) /\ r.kv = mem[p].kv /\ r.map = m /\ r.base = values
      <4>1. IsMem(mem[p])
        BY DEF FilesTypeOK
      <4>2. PICK x : x = mem[p]
        OBVIOUS
      <4>3. r = [x EXCEPT !.map = m, !.base = values]
        BY <3>2, <4>2
      <4>. QED BY <4>1, <4>2, <4>3 DEF IsMem
    <3>4. mem' = [mem EXCEPT ![p] = r]
      BY <3>1, <3>2
    <3>5. DOMAIN mem' = Goroutines /\ mem'[p] = r /\ \A q \in Goroutines \ {p} : mem'[q] = mem[q]
      BY <3>4 DEF FilesTypeOK
    <3>6. m \in Resolved(Over(mem[p].kv, values))
      BY <3>1 DEF Merged
    <3>. QED BY <3>3, <3>5, <3>6 DEF FilesTypeOK
  <2>. QED BY <2>1, <2>2
<1>6. FilesTypeOK'
  <2>1. pc'[Loader] \in LoaderAt /\ \A g \in Files : pc'[g] \in WatcherAt
    BY <1>1, <1>3, <1>4 DEF FilesTypeOK, LoaderAt, WatcherAt
  <2>. QED BY <1>2, <1>4, <1>5, <2>1 DEF FilesTypeOK
<1>7. WatchedAreThere'
  BY <1>1, <1>2, <1>3, <1>4 DEF WatchedAreThere
<1>8. MergesAreOwn'
  <2>. SUFFICES ASSUME NEW q \in Goroutines
                PROVE  /\ pc'[q] = "merge" => mem'[q].kv \in Contents[Source(q)'] \cup {Torn}
                       /\ pc'[q] = "store" =>
                            /\ mem'[q].kv \in Contents[Source(q)']
                            /\ mem'[q].map \in Resolved(Over(mem'[q].kv, mem'[q].base))
    BY DEF MergesAreOwn
  <2>1. Source(q)' = Source(q)
    BY <1>2 DEF Source
  <2>2. CASE q = p
    <3>1. mem[p].kv \in Contents[Source(p)] \cup {Torn}
      BY <1>2 DEF MergesAreOwn
    <3>2. to # "merge" /\ (to = "store" => mem[p].kv # Torn)
      BY <1>3
    <3>. QED BY <1>4, <1>5, <2>1, <2>2, <3>1, <3>2
  <2>3. CASE q # p
    BY <1>4, <1>5, <2>1, <2>3 DEF MergesAreOwn
  <2>. QED BY <2>2, <2>3
<1>9. LoadedIsRead'
  <2>1. /\ mem'[Loader].kv = mem[Loader].kv
        /\ \/ pc'[Loader] = pc[Loader]
           \/ pc[Loader] = "merge" /\ pc'[Loader] \in {"store", "failed"}
    BY <1>1, <1>2, <1>3, <1>4, <1>5
  <2>. QED BY <1>2, <2>1 DEF LoadedIsRead
<1>10. EventsAreRead'
  <2>. SUFFICES ASSUME NEW g \in Files, watched[g], g \notin missed, file[g] # Torn,
                       ~lost, events[g] = <<>>
                PROVE  IF pc'[g] \in {"merge", "store"} THEN mem'[g].kv = file[g]
                       ELSE Agrees(values, file[g])
    BY <1>2 DEF EventsAreRead
  <2>1. CASE g = p
    <3>1. mem[g].kv = file[g]
      BY <1>2, <2>1 DEF EventsAreRead
    <3>2. to = "store"
      BY <1>3, <2>1, <3>1
    <3>. QED BY <1>1, <1>4, <1>5, <2>1, <3>1, <3>2
  <2>2. CASE g # p
    <3>1. pc'[g] = pc[g] /\ mem'[g] = mem[g]
      BY <1>1, <1>4, <1>5, <2>2
    <3>. QED BY <3>1 DEF EventsAreRead
  <2>. QED BY <2>1, <2>2
<1>. QED BY <1>4, <1>6, <1>7, <1>8, <1>9, <1>10

\* The map that replaces the values says what was merged; if nobody stored another
\* since it was cloned, it says what the other files said as well.
LEMMA StoreKeeps ==
    ASSUME FilesInv, NEW p \in Goroutines, pc[p] = "store", values' = mem[p].map
    PROVE  /\ Agrees(values', mem[p].kv)
           /\ \A g \in Files :
                 /\ Source(p) # g /\ values = mem[p].base
                 /\ file[g] \in Contents[g] /\ Agrees(values, file[g])
                 => Agrees(values', file[g])
<1>1. mem[p].kv \in Contents[Source(p)] /\ Source(p) \in Files
  <2>1. Source(p) \in Files
    BY SourcesAre DEF FilesInv, FilesTypeOK, Source, Goroutines
  <2>. QED BY <2>1 DEF FilesInv, MergesAreOwn
<1>2. PICK kv, base : kv = mem[p].kv /\ base = mem[p].base
  OBVIOUS
<1>3. values' \in Resolved(Over(kv, base))
  BY <1>2 DEF FilesInv, MergesAreOwn
<1>4. ASSUME NEW g \in Files, Source(p) # g, values = mem[p].base,
             file[g] \in Contents[g], Agrees(values, file[g])
      PROVE  Agrees(values', file[g])
  <2>1. DOMAIN kv \cap DOMAIN file[g] = {}
    BY <1>1, <1>2, <1>4, SourcesAreDisjoint
  <2>2. Agrees(base, file[g])
    BY <1>2, <1>4
  <2>. QED BY <1>3, <2>1, <2>2, MergedAgrees
<1>. QED BY <1>2, <1>3, <1>4, MergedAgrees

\* A file whose watcher runs is not the one Load is at.
LEMMA LoadIsElsewhere ==
    ASSUME FilesInv, NEW f \in Files, pc[f] # "off", IsLoading
    PROVE  Sources[loading] # f
BY SourcesAre DEF FilesInv, FilesTypeOK, NotYetWatched

LEMMA StoreMapFiles ==
    ASSUME FilesInv, NEW p \in Goroutines, NEW next, StoreMap(p, next),
           next = IF p = Loader THEN "watch" ELSE "range"
    PROVE  FilesInv'
<1>. USE DEF FilesInv
<1>1. Loader \notin Files /\ Loader \in Goroutines /\ Files \subseteq Goroutines
      /\ (p # Loader => p \in Files)
  BY ZConfigAssumption DEF Goroutines
<1>2. /\ UNCHANGED <<file, events, watched, loading, missed>>
      /\ pc[p] = "store" /\ Go(p, next) /\ values' = mem[p].map
      /\ lost' = (lost \/ values # mem[p].base)
      /\ mem' = [mem EXCEPT ![p] = [Nothing EXCEPT !.todo = CachedKeys]]
  BY DEF StoreMap, disk
<1>3. ~lost' => ~lost /\ values = mem[p].base
  BY <1>2
<1>4. /\ DOMAIN pc' = Goroutines /\ pc'[p] = next
      /\ \A q \in Goroutines \ {p} : pc'[q] = pc[q]
      /\ NotYetWatched'
  <2>1. IsLoading' => IsLoading
    <3>1. pc'[Loader] = pc[Loader] \/ pc[Loader] = "store"
      BY <1>1, <1>2 DEF Go, FilesTypeOK
    <3>. QED BY <3>1 DEF IsLoading
  <2>. QED BY <1>2, <2>1, OneMoves
<1>5. /\ DOMAIN mem' = Goroutines /\ \A q \in Goroutines : IsMem(mem'[q])
      /\ \A q \in Goroutines \ {p} : mem'[q] = mem[q]
  <2>1. PICK m : m = [Nothing EXCEPT !.todo = CachedKeys]
    OBVIOUS
  <2>2. IsMem(m)
    BY <2>1 DEF IsMem, Nothing
  <2>. QED BY <1>2, <2>1, <2>2 DEF FilesTypeOK
<1>6. FilesTypeOK'
  <2>1. pc'[Loader] \in LoaderAt /\ \A g \in Files : pc'[g] \in WatcherAt
    BY <1>1, <1>4 DEF FilesTypeOK, LoaderAt, WatcherAt
  <2>. QED BY <1>2, <1>4, <1>5, <2>1 DEF FilesTypeOK
<1>7. WatchedAreThere'
  BY <1>1, <1>2, <1>4 DEF WatchedAreThere
<1>8. MergesAreOwn'
  <2>1. \A q \in Goroutines : Source(q)' = Source(q)
    BY <1>2 DEF Source
  <2>. QED BY <1>4, <1>5, <2>1 DEF MergesAreOwn
<1>9. LoadedIsRead'
  <2>1. PICK f : f = Sources[loading]
    OBVIOUS
  <2>2. f \in Files /\ Source(Loader) = f
    BY <2>1, SourcesAre DEF FilesTypeOK, Source
  <2>. SUFFICES ASSUME f \notin missed
                PROVE  /\ pc'[Loader] \in {"merge", "store"} => mem'[Loader].kv = file[f]
                       /\ pc'[Loader] = "watch" /\ ~lost' =>
                             file[f] \in Contents[f] /\ Agrees(values', file[f])
    BY <1>2, <2>1 DEF LoadedIsRead
  <2>3. CASE p = Loader
    <3>1. mem[Loader].kv = file[f] /\ mem[Loader].kv \in Contents[f]
      BY <1>1, <1>2, <2>1, <2>2, <2>3 DEF LoadedIsRead, MergesAreOwn
    <3>2. Agrees(values', mem[Loader].kv)
      BY <1>2, <2>3, StoreKeeps
    <3>. QED BY <1>4, <2>3, <3>1, <3>2
  <2>4. CASE p # Loader
    <3>1. pc'[Loader] = pc[Loader] /\ mem'[Loader] = mem[Loader] /\ Source(p) = p
      BY <1>1, <1>4, <1>5, <2>4 DEF Source
    <3>2. ASSUME pc[Loader] = "watch", ~lost'
          PROVE  file[f] \in Contents[f] /\ Agrees(values', file[f])
      <4>1. file[f] \in Contents[f] /\ Agrees(values, file[f])
        BY <1>3, <2>1, <3>2 DEF LoadedIsRead
      <4>2. p # f
        BY <1>1, <1>2, <2>1, <2>4, <3>2, LoadIsElsewhere DEF IsLoading
      <4>. QED BY <1>2, <1>3, <2>2, <3>1, <3>2, <4>1, <4>2, StoreKeeps
    <3>. QED BY <2>1, <3>1, <3>2 DEF LoadedIsRead
  <2>. QED BY <2>3, <2>4
<1>10. EventsAreRead'
  <2>. SUFFICES ASSUME NEW g \in Files, watched[g], g \notin missed, file[g] # Torn,
                       ~lost', events[g] = <<>>
                PROVE  IF pc'[g] \in {"merge", "store"} THEN mem'[g].kv = file[g]
                       ELSE Agrees(values', file[g])
    BY <1>2 DEF EventsAreRead
  <2>1. ~lost /\ values = mem[p].base
    BY <1>3
  <2>2. file[g] \in Contents[g]
    BY DEF FilesTypeOK, WatchedAreThere
  <2>3. CASE g = p
    <3>1. mem[g].kv = file[g] /\ g # Loader
      BY <1>1, <1>2, <2>1, <2>3 DEF EventsAreRead
    <3>2. Agrees(values', mem[g].kv)
      BY <1>2, <2>3, StoreKeeps
    <3>. QED BY <1>4, <2>3, <3>1, <3>2
  <2>4. CASE g # p
    <3>1. pc'[g] = pc[g] /\ mem'[g] = mem[g]
      BY <1>1, <1>4, <1>5, <2>4
    <3>2. Source(p) # g
      <4>1. pc[g] # "off"
        BY DEF WatchedAreThere
      <4>2. p = Loader => IsLoading
        BY <1>2 DEF IsLoading
      <4>. QED BY <2>4, <4>1, <4>2, LoadIsElsewhere DEF Source
    <3>3. Agrees(values, file[g]) => Agrees(values', file[g])
      BY <1>2, <2>1, <2>2, <3>2, StoreKeeps
    <3>. QED BY <2>1, <3>1, <3>3 DEF EventsAreRead
  <2>. QED BY <2>3, <2>4
<1>. QED BY <1>4, <1>6, <1>7, <1>8, <1>9, <1>10

\* Load starts the watcher of its file and goes on with the next one.
LEMMA WatchFileFiles ==
    ASSUME FilesInv, WatchFile
    PROVE  FilesInv'
<1>. USE DEF FilesInv
<1>1. Loader \notin Files /\ Loader \in Goroutines /\ Files \subseteq Goroutines
  BY ZConfigAssumption DEF Goroutines
<1>2. PICK f : f = Sources[loading]
  OBVIOUS
<1>3. f \in Files
  BY <1>2, SourcesAre DEF FilesTypeOK
<1>4. /\ UNCHANGED <<file, events, values, mem, lost, missed>>
      /\ pc[Loader] = "watch"
  BY DEF WatchFile
<1>5. CASE file[f] = Absent
  <2>1. Go(Loader, "failed") /\ UNCHANGED <<watched, loading>>
    BY <1>2, <1>5 DEF WatchFile
  <2>2. /\ DOMAIN pc' = Goroutines /\ pc'[Loader] = "failed"
        /\ \A q \in Goroutines \ {Loader} : pc'[q] = pc[q]
        /\ NotYetWatched'
    BY <1>1, <1>4, <2>1, OneMoves DEF IsLoading
  <2>3. FilesTypeOK'
    <3>1. pc'[Loader] \in LoaderAt /\ \A g \in Files : pc'[g] \in WatcherAt
      BY <1>1, <2>2 DEF FilesTypeOK, LoaderAt
    <3>. QED BY <1>4, <2>1, <2>2, <3>1 DEF FilesTypeOK
  <2>4. \A g \in Files : pc'[g] = pc[g]
    BY <1>1, <2>2
  <2>5. WatchedAreThere' /\ EventsAreRead'
    BY <1>4, <2>1, <2>4 DEF WatchedAreThere, EventsAreRead
  <2>6. LoadedIsRead'
    BY <2>2 DEF LoadedIsRead
  <2>7. MergesAreOwn'
    <3>1. \A q \in Goroutines : Source(q)' = Source(q)
      BY <2>1 DEF Source
    <3>. QED BY <1>4, <2>2, <3>1 DEF MergesAreOwn
  <2>. QED BY <2>2, <2>3, <2>5, <2>6, <2>7
<1>6. CASE file[f] # Absent
  <2>1. loading \in 1..Len(Sources) /\ Len(Sources) \in Nat
    BY SourcesAre DEF FilesTypeOK
  <2>2. PICK to, n :
           \/ loading = Len(Sources) /\ to = "done" /\ n = loading
           \/ loading # Len(Sources) /\ to = "load" /\ n = loading + 1
    OBVIOUS
  <2>3. /\ watched' = [watched EXCEPT ![f] = TRUE]
        /\ pc' = [pc EXCEPT ![f] = "next", ![Loader] = to]
        /\ loading' = n
    BY <1>2, <1>6, <2>2 DEF WatchFile
  <2>4. /\ DOMAIN pc' = Goroutines /\ pc'[Loader] = to /\ pc'[f] = "next"
        /\ \A q \in Goroutines \ {Loader, f} : pc'[q] = pc[q]
    BY <1>1, <1>3, <2>3 DEF FilesTypeOK
  <2>5. /\ watched' \in [Files -> BOOLEAN]
        /\ \A g \in Files \ {f} : watched'[g] = watched[g]
    BY <1>3, <2>3 DEF FilesTypeOK
  <2>6. FilesTypeOK'
    <3>1. pc'[Loader] \in LoaderAt /\ \A g \in Files : pc'[g] \in WatcherAt
      BY <1>1, <1>3, <2>2, <2>4 DEF FilesTypeOK, LoaderAt, WatcherAt
    <3>2. loading' \in 1..Len(Sources)
      BY <2>1, <2>2, <2>3
    <3>. QED BY <1>4, <2>4, <2>5, <3>1, <3>2 DEF FilesTypeOK
  <2>7. NotYetWatched'
    <3>. SUFFICES ASSUME to = "load", NEW i \in n..Len(Sources)
                  PROVE  pc'[Sources[i]] = "off"
      BY <2>2, <2>3, <2>4 DEF NotYetWatched, IsLoading
    <3>1. i \in loading..Len(Sources) /\ i # loading /\ i \in 1..Len(Sources)
      BY <2>1, <2>2
    <3>2. Sources[i] \in Files /\ Sources[i] # f
      BY <1>2, <2>1, <3>1, SourcesAre
    <3>3. pc[Sources[i]] = "off"
      BY <1>4, <3>1 DEF NotYetWatched, IsLoading
    <3>. QED BY <1>1, <2>4, <3>2, <3>3
  <2>8. WatchedAreThere'
    BY <1>1, <1>4, <1>6, <2>4, <2>5 DEF WatchedAreThere
  <2>9. MergesAreOwn'
    <3>1. \A q \in Goroutines : q # Loader => Source(q)' = Source(q)
      BY DEF Source
    <3>2. to \notin {"merge", "store"}
      BY <2>2
    <3>. QED BY <1>4, <2>4, <3>1, <3>2 DEF MergesAreOwn
  <2>10. LoadedIsRead'
    BY <2>2, <2>4 DEF LoadedIsRead
  <2>11. EventsAreRead'
    <3>1. f \notin missed /\ ~lost => Agrees(values, file[f])
      BY <1>2, <1>4 DEF LoadedIsRead
    <3>2. \A g \in Files \ {f} : pc'[g] = pc[g]
      BY <1>1, <2>4
    <3>. QED BY <1>4, <2>4, <2>5, <3>1, <3>2 DEF EventsAreRead
  <2>. QED BY <2>6, <2>7, <2>8, <2>9, <2>10, <2>11
<1>. QED BY <1>5, <1>6

\* A watcher reads an event, and then its file as it is.
LEMMA NextFiles ==
    ASSUME FilesInv, NEW f \in Files, Next_(f)
    PROVE  FilesInv'
<1>. USE DEF FilesInv
<1>1. Loader \notin Files /\ f # Loader /\ f \in Goroutines /\ Files \subseteq Goroutines
  BY ZConfigAssumption DEF Goroutines
<1>2. /\ UNCHANGED <<file, values, loading, lost, missed>>
      /\ pc[f] = "next" /\ events[f] # <<>>
      /\ events' = [events EXCEPT ![f] = Tail(events[f])]
      /\ watched' = [watched EXCEPT ![f] = watched[f] \/ (Head(events[f]) = "rename"
                                                          /\ file[f] # Absent)]
  BY DEF Next_
<1>3. PICK to : /\ Go(f, to) /\ to = IF file[f] = Absent THEN "sleep" ELSE "merge"
  BY DEF Next_
<1>4. /\ DOMAIN pc' = Goroutines /\ pc'[f] = to
      /\ \A q \in Goroutines \ {f} : pc'[q] = pc[q]
      /\ NotYetWatched'
  <2>1. IsLoading' => IsLoading
    BY <1>1, <1>3 DEF Go, FilesTypeOK, IsLoading, Goroutines
  <2>. QED BY <1>1, <1>2, <1>3, <2>1, OneMoves
<1>5. /\ DOMAIN mem' = Goroutines /\ \A q \in Goroutines : IsMem(mem'[q])
      /\ to = "merge" => mem'[f].kv = file[f]
      /\ \A q \in Goroutines \ {f} : mem'[q] = mem[q]
  <2>1. PICK m : m = [Nothing EXCEPT !.kv = file[f]]
    OBVIOUS
  <2>2. IsMem(m) /\ m.kv = file[f]
    BY <2>1 DEF IsMem, Nothing
  <2>3. mem' = mem \/ mem' = [mem EXCEPT ![f] = m]
    BY <2>1 DEF Next_
  <2>4. to = "merge" => mem' = [mem EXCEPT ![f] = m]
    BY <1>3, <2>1 DEF Next_
  <2>. QED BY <1>1, <2>2, <2>3, <2>4 DEF FilesTypeOK
<1>6. /\ events' \in [Files -> Seq(Operations)]
      /\ \A g \in Files \ {f} : events'[g] = events[g]
  <2>1. PICK s : s = Tail(events[f])
    OBVIOUS
  <2>2. s \in Seq(Operations)
    <3>1. events[f] \in Seq(Operations)
      BY DEF FilesTypeOK
    <3>. QED BY <1>2, <2>1, <3>1, HeadTailProperties
  <2>3. events' = [events EXCEPT ![f] = s]
    BY <1>2, <2>1
  <2>. QED BY <2>2, <2>3 DEF FilesTypeOK
<1>7. /\ watched' \in [Files -> BOOLEAN] /\ (watched'[f] => file[f] # Absent)
      /\ \A g \in Files \ {f} : watched'[g] = watched[g]
  BY <1>2 DEF FilesTypeOK, WatchedAreThere
<1>8. FilesTypeOK'
  <2>1. pc'[Loader] \in LoaderAt /\ \A g \in Files : pc'[g] \in WatcherAt
    BY <1>1, <1>3, <1>4 DEF FilesTypeOK, WatcherAt, Goroutines
  <2>. QED BY <1>2, <1>4, <1>5, <1>6, <1>7, <2>1 DEF FilesTypeOK
<1>9. WatchedAreThere'
  BY <1>1, <1>2, <1>3, <1>4, <1>7 DEF WatchedAreThere
<1>10. MergesAreOwn'
  <2>. SUFFICES ASSUME NEW q \in Goroutines
                PROVE  /\ pc'[q] = "merge" => mem'[q].kv \in Contents[Source(q)'] \cup {Torn}
                       /\ pc'[q] = "store" =>
                            /\ mem'[q].kv \in Contents[Source(q)']
                            /\ mem'[q].map \in Resolved(Over(mem'[q].kv, mem'[q].base))
    BY DEF MergesAreOwn
  <2>1. Source(q)' = Source(q)
    BY <1>2 DEF Source
  <2>2. CASE q = f
    <3>1. file[f] \in Contents[f] \cup {Torn, Absent} /\ Source(q) = f
      BY <1>1, <2>2 DEF FilesTypeOK, Source
    <3>. QED BY <1>3, <1>4, <1>5, <2>1, <2>2, <3>1
  <2>3. CASE q # f
    BY <1>4, <1>5, <2>1, <2>3 DEF MergesAreOwn
  <2>. QED BY <2>2, <2>3
<1>11. LoadedIsRead'
  <2>1. pc'[Loader] = pc[Loader] /\ mem'[Loader] = mem[Loader]
    BY <1>1, <1>4, <1>5 DEF Goroutines
  <2>. QED BY <1>2, <2>1 DEF LoadedIsRead
<1>12. EventsAreRead'
  <2>. SUFFICES ASSUME NEW g \in Files, watched'[g], g \notin missed, file[g] # Torn,
                       ~lost, events'[g] = <<>>
                PROVE  IF pc'[g] \in {"merge", "store"} THEN mem'[g].kv = file[g]
                       ELSE Agrees(values, file[g])
    BY <1>2 DEF EventsAreRead
  <2>1. CASE g = f
    BY <1>3, <1>4, <1>5, <1>7, <2>1
  <2>2. CASE g # f
    <3>1. pc'[g] = pc[g] /\ mem'[g] = mem[g] /\ watched[g] /\ events[g] = <<>>
      BY <1>1, <1>4, <1>5, <1>6, <1>7, <2>2
    <3>. QED BY <3>1 DEF EventsAreRead
  <2>. QED BY <2>1, <2>2
<1>. QED BY <1>4, <1>8, <1>9, <1>10, <1>11, <1>12

\* A watcher that neither reads its file nor merges leaves the files to the others.
Aside(f) ==
    /\ UNCHANGED <<file, events, watched, values, loading, lost, missed>>
    /\ pc[f] \in {"next", "sleep", "range", "put"}
    /\ DOMAIN pc' = Goroutines /\ pc'[f] \in {"next", "range", "put"}
    /\ DOMAIN mem' = Goroutines /\ IsMem(mem'[f])
    /\ \A q \in Goroutines \ {f} : pc'[q] = pc[q] /\ mem'[q] = mem[q]

LEMMA AsideFiles ==
    ASSUME FilesInv, NEW f \in Files, Aside(f)
    PROVE  FilesInv'
<1>. USE DEF FilesInv
<1>1. Loader \notin Files /\ f # Loader /\ f \in Goroutines /\ Files \subseteq Goroutines
  BY ZConfigAssumption DEF Goroutines
<1>2. /\ UNCHANGED <<file, events, watched, values, loading, lost, missed>>
      /\ pc[f] \in {"next", "sleep", "range", "put"}
  BY DEF Aside
<1>3. /\ DOMAIN pc' = Goroutines /\ pc'[f] \in {"next", "range", "put"}
      /\ \A q \in Goroutines \ {f} : pc'[q] = pc[q]
  BY DEF Aside
<1>4. NotYetWatched'
  <2>1. IsLoading' => IsLoading
    BY <1>1, <1>3 DEF IsLoading, Goroutines
  <2>2. \A i \in loading..Len(Sources) : Sources[i] \in Goroutines
    BY <1>1, SourcesAre DEF FilesTypeOK
  <2>. QED BY <1>2, <1>3, <2>1, <2>2 DEF NotYetWatched
<1>5. /\ DOMAIN mem' = Goroutines /\ \A q \in Goroutines : IsMem(mem'[q])
      /\ \A q \in Goroutines \ {f} : mem'[q] = mem[q]
  BY DEF Aside, FilesTypeOK
<1>6. FilesTypeOK'
  <2>1. pc'[Loader] \in LoaderAt /\ \A g \in Files : pc'[g] \in WatcherAt
    BY <1>1, <1>3 DEF FilesTypeOK, WatcherAt, Goroutines
  <2>. QED BY <1>2, <1>3, <1>5, <2>1 DEF FilesTypeOK
<1>7. WatchedAreThere'
  BY <1>1, <1>2, <1>3 DEF WatchedAreThere
<1>8. MergesAreOwn'
  <2>1. \A q \in Goroutines : Source(q)' = Source(q)
    BY <1>2 DEF Source
  <2>. QED BY <1>3, <1>5, <2>1 DEF MergesAreOwn
<1>9. LoadedIsRead'
  <2>1. pc'[Loader] = pc[Loader] /\ mem'[Loader] = mem[Loader]
    BY <1>1, <1>3, <1>5 DEF Goroutines
  <2>. QED BY <1>2, <2>1 DEF LoadedIsRead
<1>10. EventsAreRead'
  <2>1. \A g \in Files \ {f} : pc'[g] = pc[g] /\ mem'[g] = mem[g]
    BY <1>1, <1>3, <1>5
  <2>2. pc'[f] \notin {"merge", "store"} /\ pc[f] \notin {"merge", "store"}
    BY <1>2, <1>3
  <2>. QED BY <1>2, <2>1, <2>2 DEF EventsAreRead
<1>. QED BY <1>4, <1>6, <1>7, <1>8, <1>9, <1>10

\* What a watcher does after its merge: wait, compare, refresh, end.
LEMMA WatcherStepsAside ==
    ASSUME FilesInv, NEW f \in Files, Wake(f) \/ Compare(f) \/ Refresh(f) \/ EndRange(f)
    PROVE  Aside(f)
<1>. USE DEF FilesInv
<1>1. f \in Goroutines /\ DOMAIN pc = Goroutines /\ DOMAIN mem = Goroutines /\ IsMem(mem[f])
  BY DEF FilesTypeOK, Goroutines
<1>2. UNCHANGED <<file, events, watched, values, loading, lost, missed>>
  BY DEF Wake, Compare, Refresh, EndRange, disk
<1>3. \A r, k, c, v : IsMem([mem[f] EXCEPT !.todo = r])
                      /\ IsMem([mem[f] EXCEPT !.todo = r, !.key = k, !.cell = c, !.new = v])
  BY <1>1, EditedMem
<1>4. CASE Wake(f)
  BY <1>1, <1>2, <1>4 DEF Aside, Wake, Go
<1>5. CASE Compare(f)
  <2>1. PICK k, r, to, m :
           /\ mem' = [mem EXCEPT ![f] = m] /\ IsMem(m)
           /\ \/ pc' = pc /\ to = "range"
              \/ pc' = [pc EXCEPT ![f] = "put"] /\ to = "put"
    <3>1. PICK k \in mem[f].todo \cap DOMAIN values :
             LET rest == mem[f].todo \ {k} IN
             IF values[k] = cells[cached[k]]
             THEN mem' = [mem EXCEPT ![f].todo = rest] /\ UNCHANGED pc
             ELSE /\ mem' = [mem EXCEPT ![f] = [@ EXCEPT !.todo = rest, !.key = k,
                                                          !.cell = cached[k], !.new = values[k]]]
                  /\ Go(f, "put")
      BY <1>5 DEF Compare
    <3>2. PICK r : r = mem[f].todo \ {k}
      OBVIOUS
    <3>3. CASE values[k] = cells[cached[k]]
      <4>1. mem' = [mem EXCEPT ![f] = [mem[f] EXCEPT !.todo = r]] /\ pc' = pc
        BY <3>1, <3>2, <3>3
      <4>. QED BY <1>3, <4>1
    <3>4. CASE values[k] # cells[cached[k]]
      <4>1. /\ mem' = [mem EXCEPT ![f] = [mem[f] EXCEPT !.todo = r, !.key = k,
                                                        !.cell = cached[k], !.new = values[k]]]
            /\ pc' = [pc EXCEPT ![f] = "put"]
        BY <3>1, <3>2, <3>4 DEF Go
      <4>. QED BY <1>3, <4>1
    <3>. QED BY <3>3, <3>4
  <2>2. pc[f] = "range"
    BY <1>5 DEF Compare
  <2>. QED BY <1>1, <1>2, <2>1, <2>2 DEF Aside
<1>6. CASE Refresh(f)
  <2>1. pc[f] = "put" /\ mem' = mem /\ (pc' = pc \/ pc' = [pc EXCEPT ![f] = "range"])
    BY <1>6 DEF Refresh, Go
  <2>. QED BY <1>1, <1>2, <2>1 DEF Aside
<1>7. CASE EndRange(f)
  <2>1. pc[f] = "range" /\ pc' = [pc EXCEPT ![f] = "next"] /\ mem' = [mem EXCEPT ![f] = Nothing]
    BY <1>7 DEF EndRange, Go
  <2>. QED BY <1>1, <1>2, <2>1, NothingIsMem DEF Aside
<1>. QED BY <1>4, <1>5, <1>6, <1>7

\* Users do not touch the files, nor what is made of them.
LEMMA StillFiles ==
    ASSUME FilesInv, UNCHANGED <<file, events, watched, values, pc, mem, loading, lost, missed>>
    PROVE  FilesInv'
BY DEF FilesInv, FilesTypeOK, NotYetWatched, IsLoading, WatchedAreThere, MergesAreOwn, Source,
       LoadedIsRead, EventsAreRead

----------------------------------------------------------------------------
(* The theorems on the files.                                              *)

\* What every file says is in the values, or on its way there (config.go Load and watch,
\* reader.go Merge, watcher.go Next).
THEOREM FilesInductive == Spec => []FilesInv
<1>1. Init => FilesInv
  BY InitFiles
<1>2. FilesInv /\ [Next]_vars => FilesInv'
  <2>. SUFFICES ASSUME FilesInv, [Next]_vars PROVE FilesInv'
    OBVIOUS
  <2>1. Loader \notin Files /\ Loader \in Goroutines /\ Files \subseteq Goroutines
    BY ZConfigAssumption DEF Goroutines
  <2>2. ASSUME Load PROVE FilesInv'
    <3>1. ASSUME Merge(Loader, "failed") PROVE FilesInv'
      BY <2>1, <3>1, MergeFiles
    <3>2. ASSUME StoreMap(Loader, "watch") PROVE FilesInv'
      BY <2>1, <3>2, StoreMapFiles
    <3>. QED BY <2>2, <3>1, <3>2, LoadFileFiles, WatchFileFiles DEF Load
  <2>3. ASSUME NEW f \in Files, Watcher(f) PROVE FilesInv'
    <3>1. ASSUME Merge(f, "next") PROVE FilesInv'
      BY <2>1, <3>1, MergeFiles
    <3>2. ASSUME StoreMap(f, "range") PROVE FilesInv'
      BY <2>1, <3>2, StoreMapFiles
    <3>3. ASSUME Wake(f) \/ Compare(f) \/ Refresh(f) \/ EndRange(f) PROVE FilesInv'
      BY <3>3, WatcherStepsAside, AsideFiles
    <3>. QED BY <2>3, <3>1, <3>2, <3>3, NextFiles DEF Watcher
  <2>4. ASSUME NEW u \in Users, User(u) PROVE FilesInv'
    <3>1. UNCHANGED <<file, events, watched, values, pc, mem, loading, lost, missed>>
      BY <2>4 DEF User, Value, Fill, Observe, disk
    <3>. QED BY <3>1, StillFiles
  <2>5. ASSUME UNCHANGED vars PROVE FilesInv'
    BY <2>5, StillFiles DEF vars
  <2>. QED BY <2>2, <2>3, <2>4, <2>5, OperatorsFiles DEF Next, Close
<1>. QED BY <1>1, <1>2, PTL DEF Spec

\* At rest the values say what every file says whose watch survived, unless a merge
\* overwrote another (reader.go Merge) or the file changed between Load and Watch.
THEOREM FilesFollowed == Spec => []FilesAreFollowed
<1>1. FilesInv => FilesAreFollowed
  <2>. SUFFICES ASSUME FilesInv, Quiet, ~lost, NEW f \in Files, watched[f], f \notin missed,
                       file[f] # Torn, NEW k \in DOMAIN file[f]
                PROVE  k \in DOMAIN values /\ (file[f][k].t # "ref" => values[k] = file[f][k])
    BY DEF FilesAreFollowed
  <2>1. pc[f] = "next" /\ events[f] = <<>>
    BY DEF Quiet, FilesInv, WatchedAreThere
  <2>. QED BY <2>1 DEF FilesInv, EventsAreRead, Agrees
<1>. QED BY <1>1, FilesInductive, PTL

----------------------------------------------------------------------------
(* Each action keeps the invariant of the cells.                           *)

LEMMA FunctionsAreSeqs ==
    ASSUME NEW S, NEW n \in Nat, NEW f \in [1..n -> S]
    PROVE  f \in Seq(S)
<1>1. Seq(S) = UNION {[1..m -> S] : m \in Nat}
  BY SeqDef
<1>. QED BY <1>1

\* A cell that is made, and one that is written (value.go).
LEMMA AppendedCell ==
    ASSUME cells \in Seq(ToSet(cells)), NEW v, cells' = Append(cells, v)
    PROVE  /\ cells' \in Seq(ToSet(cells')) /\ Len(cells') = Len(cells) + 1
           /\ cells'[Len(cells) + 1] = v /\ Len(cells) \in Nat
           /\ \A i \in 1..Len(cells) : cells'[i] = cells[i]
<1>1. PICK S : S = ToSet(cells) \cup {v}
  OBVIOUS
<1>2. cells \in Seq(S) /\ v \in S
  BY <1>1, LenProperties, IsASeq
<1>3. /\ cells' \in Seq(S) /\ Len(cells') = Len(cells) + 1
      /\ cells'[Len(cells) + 1] = v /\ Len(cells) \in Nat
      /\ \A i \in 1..Len(cells) : cells'[i] = cells[i]
  BY <1>2, AppendProperties, LenProperties
<1>4. PICK n \in Nat : n = Len(cells')
  BY <1>3
<1>5. cells' \in [1..n -> ToSet(cells')]
  BY <1>3, <1>4, LenProperties DEF ToSet
<1>. QED BY <1>3, <1>5, FunctionsAreSeqs

LEMMA WrittenCell ==
    ASSUME cells \in Seq(ToSet(cells)), NEW i \in 1..Len(cells), NEW v,
           cells' = [cells EXCEPT ![i] = v]
    PROVE  /\ cells' \in Seq(ToSet(cells')) /\ Len(cells') = Len(cells) /\ cells'[i] = v
           /\ \A j \in 1..Len(cells) : j # i => cells'[j] = cells[j]
<1>1. DOMAIN cells = 1..Len(cells) /\ Len(cells) \in Nat
      /\ cells \in [1..Len(cells) -> ToSet(cells)]
  BY LenProperties
<1>2. DOMAIN cells' = 1..Len(cells) /\ cells'[i] = v
      /\ \A j \in 1..Len(cells) : j # i => cells'[j] = cells[j]
  BY <1>1
<1>3. PICK n \in Nat : n = Len(cells)
  BY <1>1
<1>4. cells' \in [1..n -> ToSet(cells')]
  BY <1>1, <1>2, <1>3 DEF ToSet
<1>5. cells' \in Seq(ToSet(cells'))
  BY <1>4, FunctionsAreSeqs
<1>6. Len(cells') = n
  BY <1>2, <1>3, <1>5, LenProperties
<1>. QED BY <1>2, <1>3, <1>5, <1>6

LEMMA InitCells == Init => CellsInv
<1>. SUFFICES ASSUME Init PROVE CellsInv
  OBVIOUS
<1>1. Loader \notin Files /\ "" \notin Keys
  BY ZConfigAssumption
<1>2. /\ cells = <<>> /\ cells \in Seq(ToSet(cells)) /\ Len(cells) = 0
      /\ \A k \in Keys : cached[k] = 0
  BY EmptySeq DEF Init, None
<1>3. /\ \A f \in Files : pc[f] = "off"
      /\ DOMAIN pc = Goroutines /\ DOMAIN mem = Goroutines
      /\ \A p \in Goroutines : mem[p] = Nothing
      /\ DOMAIN user = Users /\ \A u \in Users : user[u] = Idle
  <2>1. DOMAIN user = Users /\ \A u \in Users : user[u] = Idle
    BY DEF Init
  <2>. QED BY <1>1, <2>1 DEF Init, Goroutines
<1>4. /\ \A u \in Users : user[u].op = "idle" /\ user[u].key = ""
      /\ DOMAIN observers = {}
  <2>1. DOMAIN observers = {}
    BY DEF Init
  <2>2. Idle.op = "idle" /\ Idle.key = ""
    BY DEF Idle
  <2>. QED BY <1>3, <2>1, <2>2
<1>5. CellsTypeOK
  <2>1. cached \in [Keys -> 0..Len(cells)]
    BY <1>2 DEF Init, None
  <2>2. \A u \in Users : user[u] = [op |-> user[u].op, key |-> user[u].key,
                                    cell |-> user[u].cell, known |-> user[u].known]
    <3>1. PICK v : v = Idle
      OBVIOUS
    <3>2. v = [op |-> v.op, key |-> v.key, cell |-> v.cell, known |-> v.known]
      BY <3>1 DEF Idle
    <3>. QED BY <1>3, <3>1, <3>2
  <2>. QED BY <1>2, <1>3, <1>4, <2>1, <2>2, NothingIsMem DEF CellsTypeOK, UserOps, Filling
<1>6. NobodyBeforeLoad /\ RangesVisitCached /\ FillsArePrivate /\ ReadersHoldCached
      /\ OldCellsAreVisited /\ ObserversKnow
  BY <1>2, <1>3, <1>4 DEF NobodyBeforeLoad, RangesVisitCached, FillsArePrivate, Filling,
     ReadersHoldCached, OldCellsAreVisited, ObserversKnow, None
<1>7. CellsHaveOneKey
  <2>1. PICK owner \in [1..Len(cells) -> Keys] : TRUE
    <3>1. 1..Len(cells) = {}
      BY <1>2
    <3>2. [i \in 1..Len(cells) |-> ""] \in [1..Len(cells) -> Keys]
      BY <3>1
    <3>. QED BY <3>2
  <2>. QED BY <1>2, <1>3, <1>4, <2>1 DEF CellsHaveOneKey, IsOwner, Putting, None
<1>. QED BY <1>5, <1>6, <1>7 DEF CellsInv

\* Nobody visits cells, makes one or stores in one.
Calm ==
    /\ UNCHANGED <<values, cells, cached, user, observers, raced>>
    /\ DOMAIN pc' = Goroutines /\ DOMAIN mem' = Goroutines
    /\ \A p \in Goroutines : IsMem(mem'[p])
    /\ pc'[Loader] # "done" => pc[Loader] # "done"
    /\ \A f \in Files : \/ pc'[f] = pc[f] /\ mem'[f] = mem[f]
                        \/ /\ pc'[f] \notin {"range", "put"}
                           /\ \A k \in DOMAIN values \cap Keys :
                                 cached[k] # None => ~WillRefresh(f, k)

LEMMA CalmCells ==
    ASSUME CellsInv, Calm
    PROVE  CellsInv'
<1>. USE DEF CellsInv, Calm
<1>1. \A f \in Files : Putting(f)' => Putting(f) /\ mem'[f] = mem[f]
  BY DEF Putting
<1>2. CellsTypeOK' /\ NobodyBeforeLoad'
  BY DEF CellsTypeOK, NobodyBeforeLoad, Filling
<1>3. CellsHaveOneKey'
  <2>1. PICK owner \in [1..Len(cells) -> Keys] : IsOwner(owner)
    BY DEF CellsHaveOneKey
  <2>2. IsOwner(owner)'
    BY <1>1, <2>1 DEF IsOwner
  <2>. QED BY <2>1, <2>2 DEF CellsHaveOneKey
<1>4. RangesVisitCached' /\ ReadersHoldCached' /\ ObserversKnow'
  BY DEF RangesVisitCached, CachedKeys, ReadersHoldCached, ObserversKnow
<1>5. FillsArePrivate'
  BY <1>1 DEF FillsArePrivate, Filling
<1>6. OldCellsAreVisited'
  <2>. SUFFICES ASSUME NEW k \in Keys \ raced, cached[k] # None, k \in DOMAIN values,
                       cells[cached[k]] # values[k]
                PROVE  \E f \in Files : WillRefresh(f, k)'
    BY DEF OldCellsAreVisited
  <2>1. PICK f \in Files : WillRefresh(f, k)
    BY DEF OldCellsAreVisited
  <2>2. pc'[f] = pc[f] /\ mem'[f] = mem[f]
    BY <2>1
  <2>. QED BY <2>1, <2>2 DEF WillRefresh, Putting
<1>. QED BY <1>2, <1>3, <1>4, <1>5, <1>6

\* While Load runs no cell is cached, so nobody has one to visit.
LEMMA NobodyRefreshes ==
    ASSUME CellsInv, pc[Loader] # "done", NEW k \in Keys
    PROVE  cached[k] = None
BY DEF CellsInv, NobodyBeforeLoad

LEMMA LoadIsCalm ==
    ASSUME CellsInv, LoadFile \/ WatchFile \/ Merge(Loader, "failed")
    PROVE  Calm
<1>. USE DEF CellsInv
<1>1. Loader \notin Files /\ Loader \in Goroutines /\ Files \subseteq Goroutines
  BY ZConfigAssumption DEF Goroutines
<1>2. /\ UNCHANGED <<values, cells, cached, user, observers, raced>>
      /\ pc[Loader] # "done"
  BY DEF LoadFile, WatchFile, Merge, app
<1>3. \A k \in Keys : cached[k] = None
  BY <1>2, NobodyRefreshes
<1>4. DOMAIN pc = Goroutines /\ DOMAIN mem = Goroutines /\ \A p \in Goroutines : IsMem(mem[p])
  BY DEF CellsTypeOK
<1>5. CASE LoadFile
  <2>1. PICK m : m = [Nothing EXCEPT !.kv = file[Sources[loading]]]
    OBVIOUS
  <2>2. IsMem(m)
    BY <2>1 DEF IsMem, Nothing
  <2>3. /\ mem' = mem \/ mem' = [mem EXCEPT ![Loader] = m]
        /\ \E to : pc' = [pc EXCEPT ![Loader] = to]
    BY <1>5, <2>1 DEF LoadFile, Go
  <2>. QED BY <1>1, <1>2, <1>4, <2>2, <2>3 DEF Calm
<1>6. CASE Merge(Loader, "failed")
  <2>1. PICK x : x = mem[Loader]
    OBVIOUS
  <2>2. PICK m : IsMem(m) /\ (mem' = mem \/ mem' = [mem EXCEPT ![Loader] = m])
    <3>1. mem' = mem \/ \E map : mem' = [mem EXCEPT ![Loader] = [x EXCEPT !.map = map,
                                                                        !.base = values]]
      BY <1>6, <2>1 DEF Merge
    <3>2. IsMem(x)
      BY <1>1, <1>4, <2>1
    <3>. QED BY <3>1, <3>2, MergedMem
  <2>3. PICK to : pc' = [pc EXCEPT ![Loader] = to]
    BY <1>6 DEF Merge, Go
  <2>. QED BY <1>1, <1>2, <1>4, <2>2, <2>3 DEF Calm
<1>7. CASE WatchFile
  <2>1. PICK f : f = Sources[loading]
    OBVIOUS
  <2>2. /\ mem' = mem
        /\ \/ pc' = [pc EXCEPT ![Loader] = "failed"]
           \/ \E to : pc' = [pc EXCEPT ![f] = "next", ![Loader] = to]
    BY <1>7, <2>1 DEF WatchFile, Go
  <2>3. \A g \in Files : pc'[g] = pc[g] \/ pc'[g] = "next"
    BY <1>1, <1>4, <2>2
  <2>. QED BY <1>1, <1>2, <1>3, <1>4, <2>2, <2>3 DEF Calm
<1>. QED BY <1>5, <1>6, <1>7

LEMMA WatcherIsCalm ==
    ASSUME CellsInv, NEW f \in Files, Next_(f) \/ Wake(f) \/ Merge(f, "next") \/ EndRange(f)
    PROVE  Calm
<1>. USE DEF CellsInv
<1>1. Loader \notin Files /\ f # Loader /\ f \in Goroutines /\ Loader \in Goroutines
      /\ Files \subseteq Goroutines
  BY ZConfigAssumption DEF Goroutines
<1>2. UNCHANGED <<values, cells, cached, user, observers, raced>>
  BY DEF Next_, Wake, Merge, EndRange, app
<1>3. DOMAIN pc = Goroutines /\ DOMAIN mem = Goroutines /\ \A p \in Goroutines : IsMem(mem[p])
  BY DEF CellsTypeOK
<1>4. PICK to \in {"next", "sleep", "merge", "store"} : pc' = [pc EXCEPT ![f] = to]
  BY DEF Next_, Wake, Merge, EndRange, Go
<1>5. /\ DOMAIN pc' = Goroutines /\ pc'[f] \notin {"range", "put"}
      /\ \A q \in Goroutines \ {f} : pc'[q] = pc[q]
  BY <1>1, <1>3, <1>4
<1>6. PICK m : IsMem(m) /\ (mem' = mem \/ mem' = [mem EXCEPT ![f] = m])
  <2>1. CASE Next_(f)
    <3>1. PICK m : m = [Nothing EXCEPT !.kv = file[f]]
      OBVIOUS
    <3>2. IsMem(m)
      BY <3>1 DEF IsMem, Nothing
    <3>. QED BY <2>1, <3>1, <3>2 DEF Next_
  <2>2. CASE Merge(f, "next")
    <3>1. PICK x : x = mem[f]
      OBVIOUS
    <3>2. mem' = mem \/ \E map : mem' = [mem EXCEPT ![f] = [x EXCEPT !.map = map,
                                                                   !.base = values]]
      BY <2>2, <3>1 DEF Merge
    <3>3. IsMem(x)
      BY <1>1, <1>3, <3>1
    <3>. QED BY <3>2, <3>3, MergedMem
  <2>. QED BY <2>1, <2>2, NothingIsMem DEF Wake, EndRange
<1>7. /\ DOMAIN mem' = Goroutines /\ \A p \in Goroutines : IsMem(mem'[p])
      /\ \A q \in Goroutines \ {f} : mem'[q] = mem[q]
  BY <1>1, <1>3, <1>6
<1>8. \A k \in DOMAIN values \cap Keys : ~WillRefresh(f, k)
  <2>1. \/ pc[f] \notin {"range", "put"}
        \/ pc[f] = "range" /\ mem[f].todo \cap DOMAIN values = {}
    BY DEF Next_, Wake, Merge, EndRange
  <2>. QED BY <2>1 DEF WillRefresh, Putting
<1>. QED BY <1>1, <1>2, <1>5, <1>7, <1>8 DEF Calm

\* A step that is none of the program's.
LEMMA StillIsCalm ==
    ASSUME CellsInv, UNCHANGED <<values, cells, cached, user, observers, raced, pc, mem>>
    PROVE  Calm
BY DEF CellsInv, CellsTypeOK, Calm

\* The range comes to a cell: it is up to date, or will be stored in.
LEMMA CompareCells ==
    ASSUME CellsInv, NEW f \in Files, Compare(f)
    PROVE  CellsInv'
<1>. USE DEF CellsInv
<1>1. Loader \notin Files /\ f # Loader /\ f \in Goroutines /\ Loader \in Goroutines
      /\ Files \subseteq Goroutines
  BY ZConfigAssumption DEF Goroutines
<1>2. UNCHANGED <<values, cells, cached, user, observers, raced>> /\ pc[f] = "range"
  BY DEF Compare, app
<1>3. PICK k \in mem[f].todo \cap DOMAIN values :
         LET rest == mem[f].todo \ {k} IN
         IF values[k] = cells[cached[k]]
         THEN mem' = [mem EXCEPT ![f].todo = rest] /\ UNCHANGED pc
         ELSE /\ mem' = [mem EXCEPT ![f] = [@ EXCEPT !.todo = rest, !.key = k,
                                                     !.cell = cached[k], !.new = values[k]]]
              /\ Go(f, "put")
  BY DEF Compare
<1>4. k \in Keys /\ cached[k] # None
  BY <1>2 DEF RangesVisitCached, CachedKeys
<1>5. PICK rest : rest = mem[f].todo \ {k}
  OBVIOUS
<1>6. DOMAIN pc = Goroutines /\ DOMAIN mem = Goroutines /\ \A p \in Goroutines : IsMem(mem[p])
  BY DEF CellsTypeOK
<1>7. /\ DOMAIN pc' = Goroutines /\ DOMAIN mem' = Goroutines
      /\ IsMem(mem'[f]) /\ mem'[f].todo = rest
      /\ \A q \in Goroutines \ {f} : pc'[q] = pc[q] /\ mem'[q] = mem[q]
      /\ \/ values[k] = cells[cached[k]] /\ pc'[f] = "range"
         \/ /\ pc'[f] = "put" /\ mem'[f].key = k /\ mem'[f].cell = cached[k]
            /\ mem'[f].new = values[k]
  <2>1. CASE values[k] = cells[cached[k]]
    <3>1. pc' = pc /\ mem' = [mem EXCEPT ![f] = [mem[f] EXCEPT !.todo = rest]]
      BY <1>3, <1>5, <2>1
    <3>2. PICK x : x = mem[f]
      OBVIOUS
    <3>3. PICK m : m = [x EXCEPT !.todo = rest]
      OBVIOUS
    <3>4. IsMem(x)
      BY <1>1, <1>6, <3>2
    <3>5. IsMem(m) /\ m.todo = rest
      BY <3>3, <3>4 DEF IsMem
    <3>6. mem' = [mem EXCEPT ![f] = m]
      BY <3>1, <3>2, <3>3
    <3>. QED BY <1>1, <1>2, <1>6, <2>1, <3>1, <3>5, <3>6
  <2>2. CASE values[k] # cells[cached[k]]
    <3>1. PICK c, v : c = cached[k] /\ v = values[k]
      OBVIOUS
    <3>2. PICK x : x = mem[f]
      OBVIOUS
    <3>3. PICK m : m = [x EXCEPT !.todo = rest, !.key = k, !.cell = c, !.new = v]
      OBVIOUS
    <3>4. pc' = [pc EXCEPT ![f] = "put"] /\ mem' = [mem EXCEPT ![f] = m]
      BY <1>3, <1>5, <2>2, <3>1, <3>2, <3>3 DEF Go
    <3>5. IsMem(x)
      BY <1>1, <1>6, <3>2
    <3>6. IsMem(m) /\ m.todo = rest /\ m.key = k /\ m.cell = c /\ m.new = v
      BY <3>3, <3>5 DEF IsMem
    <3>. QED BY <1>1, <1>6, <3>1, <3>4, <3>6
  <2>. QED BY <2>1, <2>2
<1>8. CellsTypeOK'
  <2>1. \A p \in Goroutines : IsMem(mem'[p])
    BY <1>6, <1>7
  <2>. QED BY <1>2, <1>7, <2>1 DEF CellsTypeOK, Filling
<1>9. NobodyBeforeLoad'
  BY <1>1, <1>2, <1>7 DEF NobodyBeforeLoad
<1>10. \A g \in Files : Putting(g)' =>
          \/ Putting(g) /\ mem'[g] = mem[g]
          \/ mem'[g].cell = cached[k] /\ mem'[g].key = k
  BY <1>1, <1>7 DEF Putting
<1>11. CellsHaveOneKey'
  <2>1. PICK owner \in [1..Len(cells) -> Keys] : IsOwner(owner)
    BY DEF CellsHaveOneKey
  <2>2. cached[k] \in 1..Len(cells) /\ owner[cached[k]] = k
    <3>1. cached[k] \in 1..Len(cells)
      <4>1. cached[k] \in 0..Len(cells) /\ Len(cells) \in Nat
        BY <1>4, LenProperties DEF CellsTypeOK
      <4>. QED BY <1>4, <4>1 DEF None
    <3>. QED BY <1>4, <2>1, <3>1 DEF IsOwner
  <2>3. IsOwner(owner)'
    BY <1>2, <1>10, <2>1, <2>2 DEF IsOwner
  <2>. QED BY <1>2, <2>1, <2>3 DEF CellsHaveOneKey
<1>12. RangesVisitCached'
  BY <1>1, <1>2, <1>5, <1>7 DEF RangesVisitCached, CachedKeys
<1>13. FillsArePrivate'
  <2>. SUFFICES ASSUME NEW u \in Users, Filling(u)
                PROVE  /\ cells[user[u].cell] = user[u].known
                       /\ \A x \in Keys : cached[x] # user[u].cell
                       /\ \A g \in Files : Putting(g)' => mem'[g].cell # user[u].cell
                       /\ \A w \in Users \ {u} : user[w].key # "" => user[w].cell # user[u].cell
    BY <1>2 DEF FillsArePrivate, Filling
  <2>. QED BY <1>4, <1>10 DEF FillsArePrivate
<1>14. ReadersHoldCached' /\ ObserversKnow'
  BY <1>2 DEF ReadersHoldCached, ObserversKnow
<1>15. OldCellsAreVisited'
  <2>. SUFFICES ASSUME NEW x \in Keys \ raced, cached[x] # None, x \in DOMAIN values,
                       cells[cached[x]] # values[x]
                PROVE  \E g \in Files : WillRefresh(g, x)'
    BY <1>2 DEF OldCellsAreVisited
  <2>1. PICK g \in Files : WillRefresh(g, x)
    BY DEF OldCellsAreVisited
  <2>2. CASE g # f
    <3>1. pc'[g] = pc[g] /\ mem'[g] = mem[g]
      BY <1>1, <1>7, <2>2
    <3>. QED BY <1>2, <2>1, <3>1 DEF WillRefresh, Putting
  <2>3. CASE g = f /\ x # k
    <3>1. x \in mem'[f].todo /\ pc'[f] \in {"range", "put"}
      BY <1>2, <1>5, <1>7, <2>1, <2>3 DEF WillRefresh, Putting
    <3>. QED BY <3>1 DEF WillRefresh
  <2>4. CASE g = f /\ x = k
    <3>1. pc'[f] = "put" /\ mem'[f].key = x /\ mem'[f].cell = cached'[x]
          /\ mem'[f].new = values'[x]
      BY <1>2, <1>7, <2>4
    <3>. QED BY <3>1 DEF WillRefresh, Putting
  <2>. QED BY <2>2, <2>3, <2>4
<1>. QED BY <1>8, <1>9, <1>11, <1>12, <1>13, <1>14, <1>15

\* A merge changes the values, and the range that follows it comes to every cached cell.
LEMMA StoreMapCells ==
    ASSUME CellsInv, NEW p \in Goroutines, NEW next,
           p = Loader => next = "watch", p # Loader => next = "range", StoreMap(p, next)
    PROVE  CellsInv'
<1>. USE DEF CellsInv
<1>1. /\ Loader \notin Files /\ Loader \in Goroutines /\ Files \subseteq Goroutines
      /\ p # Loader => p \in Files
  BY ZConfigAssumption DEF Goroutines
<1>2. /\ UNCHANGED <<cells, cached, user, observers, raced>>
      /\ pc[p] = "store" /\ pc' = [pc EXCEPT ![p] = next]
  BY DEF StoreMap, app, Go
<1>3. PICK m : m = [Nothing EXCEPT !.todo = CachedKeys]
  OBVIOUS
<1>4. IsMem(m) /\ m.todo = CachedKeys /\ mem' = [mem EXCEPT ![p] = m]
  BY <1>3 DEF StoreMap, IsMem, Nothing
<1>5. DOMAIN pc = Goroutines /\ DOMAIN mem = Goroutines /\ \A q \in Goroutines : IsMem(mem[q])
  BY DEF CellsTypeOK
<1>6. /\ DOMAIN pc' = Goroutines /\ DOMAIN mem' = Goroutines
      /\ pc'[p] = next /\ mem'[p] = m
      /\ \A q \in Goroutines \ {p} : pc'[q] = pc[q] /\ mem'[q] = mem[q]
  BY <1>2, <1>4, <1>5
<1>7. CellsTypeOK'
  <2>1. \A q \in Goroutines : IsMem(mem'[q])
    BY <1>4, <1>5, <1>6
  <2>. QED BY <1>2, <1>6, <2>1 DEF CellsTypeOK, Filling
<1>8. pc'[Loader] # "done" => pc[Loader] # "done"
  BY <1>1, <1>2, <1>6
<1>9. NobodyBeforeLoad'
  BY <1>2, <1>8 DEF NobodyBeforeLoad
<1>10. \A g \in Files : Putting(g)' => Putting(g) /\ mem'[g] = mem[g]
  BY <1>1, <1>6 DEF Putting
<1>11. CellsHaveOneKey'
  <2>1. PICK owner \in [1..Len(cells) -> Keys] : IsOwner(owner)
    BY DEF CellsHaveOneKey
  <2>2. IsOwner(owner)'
    BY <1>2, <1>10, <2>1 DEF IsOwner
  <2>. QED BY <1>2, <2>1, <2>2 DEF CellsHaveOneKey
<1>12. RangesVisitCached'
  BY <1>1, <1>2, <1>4, <1>6 DEF RangesVisitCached, CachedKeys
<1>13. FillsArePrivate'
  BY <1>2, <1>10 DEF FillsArePrivate, Filling
<1>14. ReadersHoldCached' /\ ObserversKnow'
  BY <1>2 DEF ReadersHoldCached, ObserversKnow
<1>15. OldCellsAreVisited'
  <2>. SUFFICES ASSUME NEW k \in Keys, cached[k] # None
                PROVE  \E f \in Files : WillRefresh(f, k)'
    BY <1>2 DEF OldCellsAreVisited
  <2>1. p \in Files
    BY <1>1, <1>2, NobodyRefreshes
  <2>2. k \in mem'[p].todo /\ pc'[p] = "range"
    BY <1>1, <1>4, <1>6, <2>1 DEF CachedKeys
  <2>. QED BY <2>1, <2>2 DEF WillRefresh
<1>. QED BY <1>7, <1>9, <1>11, <1>12, <1>13, <1>14, <1>15

\* The store in a cell, which is of one key, and the call of its observer.
LEMMA RefreshCells ==
    ASSUME CellsInv, NEW f \in Files, Refresh(f)
    PROVE  CellsInv'
<1>. USE DEF CellsInv
<1>1. Loader \notin Files /\ f # Loader /\ f \in Goroutines /\ Loader \in Goroutines
      /\ Files \subseteq Goroutines
  BY ZConfigAssumption DEF Goroutines
<1>2. UNCHANGED <<values, cached, mem, user>> /\ Putting(f)
  BY DEF Refresh, Putting
<1>3. PICK m : m = mem[f]
  OBVIOUS
<1>4. CASE TypeOf(cells[m.cell]) # TypeOf(m.new)
  <2>1. UNCHANGED <<cells, observers, pc, raced>>
    BY <1>3, <1>4 DEF Refresh
  <2>. QED BY <1>2, <2>1, StillIsCalm, CalmCells
<1>5. CASE TypeOf(cells[m.cell]) = TypeOf(m.new)
  <2>1. /\ cells' = [cells EXCEPT ![m.cell] = m.new]
        /\ observers' = Told(m)
        /\ raced' = IF Current(m.key) # m.new \/ cached[m.key] # m.cell
                    THEN raced \cup {m.key} ELSE raced
        /\ pc' = [pc EXCEPT ![f] = "range"]
    BY <1>3, <1>5 DEF Refresh, Go
  <2>2. PICK owner \in [1..Len(cells) -> Keys] : IsOwner(owner)
    BY DEF CellsHaveOneKey
  <2>3. /\ m.cell \in 1..Len(cells) /\ owner[m.cell] = m.key
        /\ cells \in Seq(ToSet(cells)) /\ Len(cells) \in Nat
    BY <1>2, <1>3, <2>2, LenProperties DEF IsOwner, CellsTypeOK
  <2>4. PICK i \in 1..Len(cells) : i = m.cell
    BY <2>3
  <2>5. PICK v : v = m.new
    OBVIOUS
  <2>6. cells' = [cells EXCEPT ![i] = v]
    BY <2>1, <2>4, <2>5
  <2>7. /\ cells' \in Seq(ToSet(cells')) /\ Len(cells') = Len(cells) /\ cells'[i] = v
        /\ \A j \in 1..Len(cells) : j # i => cells'[j] = cells[j]
    BY <2>3, <2>6, WrittenCell
  <2>8. /\ DOMAIN pc' = Goroutines /\ pc'[f] = "range"
        /\ \A q \in Goroutines \ {f} : pc'[q] = pc[q]
    BY <1>1, <2>1 DEF CellsTypeOK
  <2>9. /\ DOMAIN observers' = DOMAIN observers
        /\ \A k \in DOMAIN observers : observers'[k] = IF k = m.key THEN v ELSE observers[k]
    BY <2>1, <2>5 DEF Told
  \* The cells of the other keys are other cells.
  <2>10. \A k \in Keys : cached[k] # None =>
            cached[k] \in 1..Len(cells) /\ (k # m.key => cached[k] # i)
    <3>1. \A k \in Keys : cached[k] \in 0..Len(cells)
      BY DEF CellsTypeOK
    <3>2. \A k \in Keys : cached[k] # 0 => owner[cached[k]] = k
      BY <2>2 DEF IsOwner, None
    <3>3. \A j \in 0..Len(cells) : j # 0 => j \in 1..Len(cells)
      BY <2>3
    <3>. QED BY <2>3, <2>4, <3>1, <3>2, <3>3 DEF None
  <2>11. \A k \in Keys \ raced' : k \notin raced
                                  /\ (k = m.key => Current(k) = v /\ cached[k] = i)
    BY <2>1, <2>4, <2>5
  <2>12. CellsTypeOK'
    <3>1. cached' \in [Keys -> 0..Len(cells')]
      BY <1>2, <2>7 DEF CellsTypeOK
    <3>. QED BY <1>2, <2>7, <2>8, <2>9, <3>1 DEF CellsTypeOK, Filling
  <2>13. NobodyBeforeLoad'
    BY <1>1, <1>2, <2>8 DEF NobodyBeforeLoad
  <2>14. CellsHaveOneKey'
    <3>1. \A g \in Files : Putting(g)' => Putting(g)
      BY <1>1, <1>2, <2>8 DEF Putting
    <3>2. IsOwner(owner)'
      BY <1>2, <2>2, <2>7, <3>1 DEF IsOwner
    <3>. QED BY <2>2, <2>7, <3>2 DEF CellsHaveOneKey
  <2>15. RangesVisitCached'
    BY <1>1, <1>2, <2>8 DEF RangesVisitCached, CachedKeys, Putting
  <2>16. FillsArePrivate'
    <3>. SUFFICES ASSUME NEW u \in Users, Filling(u)
                  PROVE  /\ cells'[user[u].cell] = user[u].known
                         /\ \A x \in Keys : cached[x] # user[u].cell
                         /\ \A g \in Files : Putting(g)' => mem[g].cell # user[u].cell
                         /\ \A w \in Users \ {u} : user[w].key # "" =>
                               user[w].cell # user[u].cell
      BY <1>2 DEF FillsArePrivate, Filling
    <3>1. \A g \in Files : Putting(g)' => Putting(g)
      BY <1>1, <1>2, <2>8 DEF Putting
    <3>2. user[u].cell \in 1..Len(cells)
      BY <2>2, ZConfigAssumption DEF IsOwner, CellsTypeOK
    <3>3. user[u].cell # i
      BY <1>2, <1>3, <2>4 DEF FillsArePrivate
    <3>. QED BY <2>7, <3>1, <3>2, <3>3 DEF FillsArePrivate
  <2>17. ReadersHoldCached'
    BY <1>2, <2>11 DEF ReadersHoldCached
  <2>18. OldCellsAreVisited'
    <3>. SUFFICES ASSUME NEW k \in Keys \ raced', cached[k] # None, k \in DOMAIN values,
                         cells'[cached[k]] # values[k]
                  PROVE  \E g \in Files : WillRefresh(g, k)'
      BY <1>2 DEF OldCellsAreVisited
    <3>1. k # m.key
      BY <2>7, <2>11 DEF Current
    <3>2. PICK g \in Files : WillRefresh(g, k)
      <4>1. k \notin raced /\ cells[cached[k]] # values[k]
        BY <2>7, <2>10, <2>11, <3>1
      <4>. QED BY <4>1 DEF OldCellsAreVisited
    <3>3. CASE g = f
      <4>1. k \in mem[f].todo
        BY <1>3, <3>1, <3>2, <3>3 DEF WillRefresh
      <4>. QED BY <1>2, <2>8, <4>1 DEF WillRefresh
    <3>4. CASE g # f
      <4>1. pc'[g] = pc[g]
        BY <1>1, <2>8, <3>4
      <4>. QED BY <1>2, <3>2, <4>1 DEF WillRefresh, Putting
    <3>. QED BY <3>3, <3>4
  <2>19. ObserversKnow'
    <3>. SUFFICES ASSUME NEW k \in DOMAIN observers \ raced'
                  PROVE  cached[k] # None /\ observers'[k] = cells'[cached[k]]
      BY <1>2, <2>9 DEF ObserversKnow
    <3>1. k \in Keys \ raced /\ cached[k] # None /\ observers[k] = cells[cached[k]]
      <4>1. k \in Keys
        BY DEF CellsTypeOK
      <4>. QED BY <2>11, <4>1 DEF ObserversKnow
    <3>2. CASE k = m.key
      BY <2>7, <2>9, <2>11, <3>1, <3>2
    <3>3. CASE k # m.key
      BY <2>7, <2>9, <2>10, <3>1, <3>3
    <3>. QED BY <3>2, <3>3
  <2>. QED BY <2>12, <2>13, <2>14, <2>15, <2>16, <2>17, <2>18, <2>19
<1>. QED BY <1>4, <1>5

\* One field of a user is written.
LEMMA WrittenUser ==
    ASSUME CellsTypeOK, NEW u \in Users, NEW op, user' = [user EXCEPT ![u].op = op]
    PROVE  /\ DOMAIN user' = Users /\ user'[u].op = op
           /\ \A w \in Users :
                 /\ user'[w] = [op |-> user'[w].op, key |-> user'[w].key,
                                cell |-> user'[w].cell, known |-> user'[w].known]
                 /\ user'[w].key = user[w].key /\ user'[w].cell = user[w].cell
                 /\ user'[w].known = user[w].known
           /\ \A w \in Users \ {u} : user'[w] = user[w]
<1>1. PICK r : r = user[u]
  OBVIOUS
<1>2. PICK x : x = [r EXCEPT !.op = op]
  OBVIOUS
<1>3. r = [op |-> r.op, key |-> r.key, cell |-> r.cell, known |-> r.known]
  BY <1>1 DEF CellsTypeOK
<1>4. /\ x = [op |-> x.op, key |-> x.key, cell |-> x.cell, known |-> x.known]
      /\ x.op = op /\ x.key = r.key /\ x.cell = r.cell /\ x.known = r.known
  BY <1>2, <1>3
<1>5. user' = [user EXCEPT ![u] = x]
  BY <1>1, <1>2
<1>6. /\ DOMAIN user' = Users /\ user'[u] = x
      /\ \A w \in Users \ {u} : user'[w] = user[w]
  BY <1>5 DEF CellsTypeOK
<1>7. \A w \in Users \ {u} : user'[w] = [op |-> user'[w].op, key |-> user'[w].key,
                                         cell |-> user'[w].cell, known |-> user'[w].known]
  BY <1>6 DEF CellsTypeOK
<1>. QED BY <1>1, <1>4, <1>6, <1>7

\* A cell in the cache is one that was made, of the key it is cached for.
LEMMA CachedIsACell ==
    ASSUME CellsTypeOK, NEW k \in Keys, cached[k] # None
    PROVE  cached[k] \in 1..Len(cells)
<1>1. cached[k] \in 0..Len(cells) /\ Len(cells) \in Nat
  BY LenProperties DEF CellsTypeOK
<1>. QED BY <1>1 DEF None

\* Value reads the cell of the key from the cache, or makes one of its own.
LEMMA ValueCells ==
    ASSUME CellsInv, NEW u \in Users, NEW k \in Keys, NEW op \in {"value", "watch"},
           Value(u, k, op)
    PROVE  CellsInv'
<1>. USE DEF CellsInv
<1>1. /\ UNCHANGED <<values, cached, pc, mem, observers, raced>>
      /\ pc[Loader] = "done" /\ user[u].op = "idle" /\ user[u].key = ""
      /\ k # "" /\ "" \notin Keys
  BY ZConfigAssumption DEF Value, CellsTypeOK
<1>2. NobodyBeforeLoad'
  BY <1>1 DEF NobodyBeforeLoad
<1>3. PICK owner \in [1..Len(cells) -> Keys] : IsOwner(owner)
  BY DEF CellsHaveOneKey
<1>4. Len(cells) \in Nat /\ cells \in Seq(ToSet(cells))
  BY LenProperties DEF CellsTypeOK
<1>5. \A g \in Files : /\ Putting(g)' <=> Putting(g)
                       /\ \A x \in Keys : WillRefresh(g, x)' <=> WillRefresh(g, x)
  BY <1>1 DEF Putting, WillRefresh
<1>6. \A x \in Keys : cached[x] # None => cached[x] \in 1..Len(cells)
  BY CachedIsACell
<1>7. CASE cached[k] # None
  <2>1. PICK to, v : /\ to \in {"observe", "done"}
                     /\ user' = [user EXCEPT ![u] = [op |-> to, key |-> k,
                                                     cell |-> cached[k], known |-> v]]
    BY <1>7 DEF Value
  <2>2. UNCHANGED cells
    BY <1>7 DEF Value
  <2>3. PICK r : r = [op |-> to, key |-> k, cell |-> cached[k], known |-> v]
    OBVIOUS
  <2>4. /\ DOMAIN user' = Users /\ user'[u] = r
        /\ \A w \in Users \ {u} : user'[w] = user[w]
    BY <2>1, <2>3 DEF CellsTypeOK
  <2>5. r.op = to /\ r.key = k /\ r.cell = cached[k] /\ r.known = v
    BY <2>3
  <2>6. \A w \in Users : Filling(w)' => w # u /\ Filling(w)
    BY <2>1, <2>4, <2>5 DEF Filling
  <2>7. cached[k] \in 1..Len(cells) /\ owner[cached[k]] = k
    BY <1>3, <1>7, CachedIsACell DEF IsOwner
  <2>8. CellsTypeOK'
    <3>1. \A w \in Users : user'[w] = [op |-> user'[w].op, key |-> user'[w].key,
                                       cell |-> user'[w].cell, known |-> user'[w].known]
      BY <2>3, <2>4, <2>5 DEF CellsTypeOK
    <3>2. \A w \in Users : /\ user'[w].op \in UserOps
                           /\ user'[w].key \in Keys \/ (user'[w].key = "" /\ ~Filling(w)')
                           /\ user'[w].op = "observe" => user'[w].key \in Keys
                           /\ user'[w].op = "idle" => user'[w].key = ""
      BY <2>1, <2>4, <2>5 DEF CellsTypeOK, UserOps, Filling
    <3>. QED BY <1>1, <2>2, <2>4, <3>1, <3>2 DEF CellsTypeOK
  <2>9. CellsHaveOneKey'
    <3>1. \A w \in Users : user'[w].key # "" =>
             user'[w].cell \in 1..Len(cells) /\ owner[user'[w].cell] = user'[w].key
      <4>1. \A w \in Users : user[w].key # "" =>
               user[w].cell \in 1..Len(cells) /\ owner[user[w].cell] = user[w].key
        BY <1>3 DEF IsOwner
      <4>. QED BY <2>4, <2>5, <2>7, <4>1
    <3>2. IsOwner(owner)'
      BY <1>1, <1>3, <1>5, <2>2, <3>1 DEF IsOwner
    <3>. QED BY <1>3, <2>2, <3>2 DEF CellsHaveOneKey
  <2>10. RangesVisitCached' /\ ObserversKnow'
    BY <1>1, <2>2 DEF RangesVisitCached, CachedKeys, ObserversKnow
  <2>11. OldCellsAreVisited'
    BY <1>1, <1>5, <2>2 DEF OldCellsAreVisited
  <2>12. FillsArePrivate'
    <3>. SUFFICES ASSUME NEW w \in Users, Filling(w)'
                  PROVE  /\ cells[user'[w].cell] = user'[w].known
                         /\ \A x \in Keys : cached[x] # user'[w].cell
                         /\ \A g \in Files : Putting(g) => mem[g].cell # user'[w].cell
                         /\ \A y \in Users \ {w} : user'[y].key # "" =>
                               user'[y].cell # user'[w].cell
      BY <1>1, <1>5, <2>2 DEF FillsArePrivate
    <3>1. w # u /\ Filling(w) /\ user'[w] = user[w]
      BY <2>4, <2>6
    <3>2. /\ cells[user[w].cell] = user[w].known
          /\ \A x \in Keys : cached[x] # user[w].cell
          /\ \A g \in Files : Putting(g) => mem[g].cell # user[w].cell
          /\ \A y \in Users \ {w} : user[y].key # "" => user[y].cell # user[w].cell
      BY <3>1 DEF FillsArePrivate
    <3>. QED BY <2>4, <2>5, <3>1, <3>2
  <2>13. ReadersHoldCached'
    BY <1>1, <2>4, <2>5 DEF ReadersHoldCached
  <2>. QED BY <1>2, <2>8, <2>9, <2>10, <2>11, <2>12, <2>13
<1>8. CASE cached[k] = None /\ k \in DOMAIN values
  <2>1. PICK n : n = Len(cells) + 1
    OBVIOUS
  <2>2. PICK v : v = values[k]
    OBVIOUS
  <2>3. cells' = Append(cells, v)
    BY <1>8, <2>2 DEF Value
  <2>4. /\ cells' \in Seq(ToSet(cells')) /\ Len(cells') = n /\ cells'[n] = v
        /\ \A i \in 1..Len(cells) : cells'[i] = cells[i]
    BY <1>4, <2>1, <2>3, AppendedCell
  <2>5. PICK to \in {"fill", "fillwatch"} :
           user' = [user EXCEPT ![u] = [op |-> to, key |-> k, cell |-> Len(cells'),
                                        known |-> values[k]]]
    BY <1>8 DEF Value
  <2>6. PICK r : r = [op |-> to, key |-> k, cell |-> n, known |-> v]
    OBVIOUS
  <2>7. user' = [user EXCEPT ![u] = r]
    BY <2>2, <2>4, <2>5, <2>6
  <2>8. /\ DOMAIN user' = Users /\ user'[u] = r
        /\ \A w \in Users \ {u} : user'[w] = user[w]
    BY <2>7 DEF CellsTypeOK
  <2>9. r.op = to /\ r.key = k /\ r.cell = n /\ r.known = v
    BY <2>6
  <2>10. /\ n \in 1..n /\ n \notin 1..Len(cells)
         /\ \A i \in 1..Len(cells) : i \in 1..n /\ i # n
    BY <1>4, <2>1
  <2>11. \A x \in Keys : cached[x] # None => cells'[cached[x]] = cells[cached[x]]
    BY <1>6, <2>4
  <2>12. CellsTypeOK'
    <3>1. \A w \in Users : user'[w] = [op |-> user'[w].op, key |-> user'[w].key,
                                       cell |-> user'[w].cell, known |-> user'[w].known]
      BY <2>6, <2>8, <2>9 DEF CellsTypeOK
    <3>2. \A w \in Users : /\ user'[w].op \in UserOps
                           /\ user'[w].key \in Keys \/ (user'[w].key = "" /\ ~Filling(w)')
                           /\ user'[w].op = "observe" => user'[w].key \in Keys
                           /\ user'[w].op = "idle" => user'[w].key = ""
      BY <2>5, <2>8, <2>9 DEF CellsTypeOK, UserOps, Filling
    <3>3. cached' \in [Keys -> 0..Len(cells')]
      <4>1. 0..Len(cells) \subseteq 0..n
        BY <1>4, <2>1
      <4>. QED BY <1>1, <2>4, <4>1 DEF CellsTypeOK
    <3>. QED BY <1>1, <2>4, <2>8, <3>1, <3>2, <3>3 DEF CellsTypeOK
  <2>13. CellsHaveOneKey'
    <3>1. PICK new : new = [i \in 1..n |-> IF i = n THEN k ELSE owner[i]]
      OBVIOUS
    <3>2. /\ new[n] = k /\ \A i \in 1..Len(cells) : new[i] = owner[i]
      BY <2>10, <3>1
    <3>3. \A i \in 1..n : i # n => i \in 1..Len(cells)
      BY <1>4, <2>1
    <3>4. new \in [1..n -> Keys]
      BY <3>1, <3>3
    <3>5. IsOwner(new)'
      <4>1. \A x \in Keys : cached[x] # None => new[cached[x]] = x
        BY <1>3, <1>6, <3>2 DEF IsOwner
      <4>2. \A w \in Users : user'[w].key # "" =>
               user'[w].cell \in 1..n /\ new[user'[w].cell] = user'[w].key
        <5>1. \A w \in Users \ {u} : user[w].key # "" =>
                 user[w].cell \in 1..n /\ new[user[w].cell] = user[w].key
          BY <1>3, <2>10, <3>2 DEF IsOwner
        <5>. QED BY <2>8, <2>9, <2>10, <3>2, <5>1
      <4>3. \A g \in Files : Putting(g) => mem[g].cell \in 1..n /\ new[mem[g].cell] = mem[g].key
        BY <1>3, <2>10, <3>2 DEF IsOwner
      <4>. QED BY <1>1, <2>4, <4>1, <4>2, <4>3 DEF IsOwner, Putting
    <3>. QED BY <2>4, <3>4, <3>5 DEF CellsHaveOneKey
  <2>14. RangesVisitCached'
    BY <1>1 DEF RangesVisitCached, CachedKeys
  <2>15. FillsArePrivate'
    <3>. SUFFICES ASSUME NEW w \in Users, Filling(w)'
                  PROVE  /\ cells'[user'[w].cell] = user'[w].known
                         /\ \A x \in Keys : cached[x] # user'[w].cell
                         /\ \A g \in Files : Putting(g) => mem[g].cell # user'[w].cell
                         /\ \A y \in Users \ {w} : user'[y].key # "" =>
                               user'[y].cell # user'[w].cell
      BY <1>1, <1>5 DEF FillsArePrivate
    <3>1. /\ \A y \in Users : user[y].key # "" => user[y].cell \in 1..Len(cells)
          /\ \A g \in Files : Putting(g) => mem[g].cell \in 1..Len(cells)
      BY <1>3 DEF IsOwner
    <3>2. CASE w = u
      <4>1. \A x \in Keys : cached[x] # n
        BY <1>4, <1>6, <2>1, <2>10 DEF None
      <4>. QED BY <2>4, <2>8, <2>9, <2>10, <3>1, <3>2, <4>1
    <3>3. CASE w # u
      <4>1. Filling(w) /\ user'[w] = user[w]
        BY <2>8, <3>3 DEF Filling
      <4>2. user[w].cell \in 1..Len(cells)
        BY <1>1, <3>1, <4>1 DEF CellsTypeOK
      <4>3. /\ cells[user[w].cell] = user[w].known
            /\ \A x \in Keys : cached[x] # user[w].cell
            /\ \A g \in Files : Putting(g) => mem[g].cell # user[w].cell
            /\ \A y \in Users \ {w} : user[y].key # "" => user[y].cell # user[w].cell
        BY <4>1 DEF FillsArePrivate
      <4>4. cells'[user[w].cell] = cells[user[w].cell] /\ user[w].cell # n
        BY <2>4, <2>10, <4>2
      <4>. QED BY <2>8, <2>9, <4>1, <4>3, <4>4
    <3>. QED BY <3>2, <3>3
  <2>16. ReadersHoldCached'
    BY <1>1, <2>5, <2>8, <2>9 DEF ReadersHoldCached
  <2>17. OldCellsAreVisited'
    BY <1>1, <1>5, <2>11 DEF OldCellsAreVisited
  <2>18. ObserversKnow'
    BY <1>1, <2>11 DEF ObserversKnow, CellsTypeOK
  <2>. QED BY <1>2, <2>12, <2>13, <2>14, <2>15, <2>16, <2>17, <2>18
<1>9. CASE cached[k] = None /\ k \notin DOMAIN values
  <2>1. UNCHANGED cells /\ user' = [user EXCEPT ![u].op = "done"]
    BY <1>9 DEF Value, Quit
  <2>2. /\ DOMAIN user' = Users /\ user'[u].op = "done" /\ user'[u].key = ""
        /\ \A w \in Users :
              /\ user'[w] = [op |-> user'[w].op, key |-> user'[w].key,
                             cell |-> user'[w].cell, known |-> user'[w].known]
              /\ user'[w].key = user[w].key /\ user'[w].cell = user[w].cell
              /\ user'[w].known = user[w].known
        /\ \A w \in Users \ {u} : user'[w] = user[w]
    BY <1>1, <2>1, WrittenUser
  <2>3. CellsTypeOK'
    <3>1. \A w \in Users : /\ user'[w].op \in UserOps
                           /\ user'[w].key \in Keys \/ (user'[w].key = "" /\ ~Filling(w)')
                           /\ user'[w].op = "observe" => user'[w].key \in Keys
                           /\ user'[w].op = "idle" => user'[w].key = ""
      BY <2>2 DEF CellsTypeOK, UserOps, Filling
    <3>. QED BY <1>1, <2>1, <2>2, <3>1 DEF CellsTypeOK
  <2>4. CellsHaveOneKey'
    <3>1. IsOwner(owner)'
      BY <1>1, <1>3, <1>5, <2>1, <2>2 DEF IsOwner
    <3>. QED BY <1>3, <2>1, <3>1 DEF CellsHaveOneKey
  <2>5. RangesVisitCached' /\ OldCellsAreVisited' /\ ObserversKnow'
    BY <1>1, <1>5, <2>1 DEF RangesVisitCached, CachedKeys, OldCellsAreVisited, ObserversKnow
  <2>6. \A w \in Users : Filling(w)' => w # u /\ Filling(w)
    BY <2>2 DEF Filling
  <2>7. FillsArePrivate'
    <3>. SUFFICES ASSUME NEW w \in Users, Filling(w)'
                  PROVE  /\ cells[user'[w].cell] = user'[w].known
                         /\ \A x \in Keys : cached[x] # user'[w].cell
                         /\ \A g \in Files : Putting(g) => mem[g].cell # user'[w].cell
                         /\ \A y \in Users \ {w} : user'[y].key # "" =>
                               user'[y].cell # user'[w].cell
      BY <1>1, <1>5, <2>1 DEF FillsArePrivate
    <3>1. /\ cells[user[w].cell] = user[w].known
          /\ \A x \in Keys : cached[x] # user[w].cell
          /\ \A g \in Files : Putting(g) => mem[g].cell # user[w].cell
          /\ \A y \in Users \ {w} : user[y].key # "" => user[y].cell # user[w].cell
      BY <2>6 DEF FillsArePrivate
    <3>. QED BY <2>2, <3>1
  <2>8. ReadersHoldCached'
    BY <1>1, <2>2 DEF ReadersHoldCached
  <2>. QED BY <1>2, <2>3, <2>4, <2>5, <2>7, <2>8
<1>. QED BY <1>7, <1>8, <1>9

\* The new cell comes into the cache; over another one the key is raced.
LEMMA FillCells ==
    ASSUME CellsInv, NEW u \in Users, Fill(u)
    PROVE  CellsInv'
<1>. USE DEF CellsInv
<1>1. /\ UNCHANGED <<values, cells, pc, mem, observers>> /\ Filling(u)
  BY DEF Fill, Filling
<1>2. PICK k : k = user[u].key
  OBVIOUS
<1>3. PICK c : c = user[u].cell
  OBVIOUS
<1>4. /\ cached' = [cached EXCEPT ![k] = c]
      /\ raced' = IF cached[k] # None \/ Current(k) # user[u].known
                  THEN raced \cup {k} ELSE raced
  BY <1>2, <1>3 DEF Fill
<1>5. PICK to \in {"done", "observe"} : user' = [user EXCEPT ![u].op = to]
  BY <1>1 DEF Fill
<1>6. k \in Keys /\ k # "" /\ "" \notin Keys
  BY <1>1, <1>2, ZConfigAssumption DEF CellsTypeOK
<1>7. PICK owner \in [1..Len(cells) -> Keys] : IsOwner(owner)
  BY DEF CellsHaveOneKey
<1>8. /\ c \in 1..Len(cells) /\ c # None /\ owner[c] = k /\ c \in 0..Len(cells)
  <2>1. c \in 1..Len(cells) /\ owner[c] = k
    BY <1>2, <1>3, <1>6, <1>7 DEF IsOwner
  <2>2. Len(cells) \in Nat
    BY LenProperties DEF CellsTypeOK
  <2>. QED BY <2>1, <2>2 DEF None
<1>9. /\ DOMAIN user' = Users /\ user'[u].op = to
      /\ \A w \in Users :
            /\ user'[w] = [op |-> user'[w].op, key |-> user'[w].key,
                           cell |-> user'[w].cell, known |-> user'[w].known]
            /\ user'[w].key = user[w].key /\ user'[w].cell = user[w].cell
            /\ user'[w].known = user[w].known
      /\ \A w \in Users \ {u} : user'[w] = user[w]
  BY <1>5, WrittenUser
<1>10. /\ cached' \in [Keys -> 0..Len(cells)] /\ cached'[k] = c
       /\ \A x \in Keys \ {k} : cached'[x] = cached[x]
  BY <1>4, <1>6, <1>8 DEF CellsTypeOK
<1>11. \A x \in Keys \ raced' :
          x \notin raced /\ (x = k => cached[k] = None /\ Current(k) = user[u].known)
  BY <1>4
<1>12. CellsTypeOK'
  <2>1. \A w \in Users : /\ user'[w].op \in UserOps
                         /\ user'[w].key \in Keys \/ (user'[w].key = "" /\ ~Filling(w)')
                         /\ user'[w].op = "observe" => user'[w].key \in Keys
                         /\ user'[w].op = "idle" => user'[w].key = ""
    BY <1>2, <1>6, <1>9 DEF CellsTypeOK, UserOps, Filling
  <2>. QED BY <1>1, <1>9, <1>10, <2>1 DEF CellsTypeOK
<1>13. NobodyBeforeLoad'
  <2>1. pc[Loader] = "done"
    BY <1>1 DEF NobodyBeforeLoad, Filling
  <2>. QED BY <1>1, <2>1 DEF NobodyBeforeLoad
<1>14. \A g \in Files : Putting(g)' <=> Putting(g)
  BY <1>1 DEF Putting
<1>15. CellsHaveOneKey'
  <2>1. \A x \in Keys : cached'[x] # None => owner[cached'[x]] = x
    BY <1>7, <1>8, <1>10 DEF IsOwner
  <2>2. IsOwner(owner)'
    BY <1>1, <1>7, <1>9, <1>14, <2>1 DEF IsOwner
  <2>. QED BY <1>1, <1>7, <2>2 DEF CellsHaveOneKey
<1>16. RangesVisitCached'
  <2>1. CachedKeys \subseteq CachedKeys'
    BY <1>8, <1>10 DEF CachedKeys
  <2>. QED BY <1>1, <2>1 DEF RangesVisitCached
<1>17. FillsArePrivate'
  <2>. SUFFICES ASSUME NEW w \in Users, Filling(w)'
                PROVE  /\ cells[user'[w].cell] = user'[w].known
                       /\ \A x \in Keys : cached'[x] # user'[w].cell
                       /\ \A g \in Files : Putting(g) => mem[g].cell # user'[w].cell
                       /\ \A y \in Users \ {w} : user'[y].key # "" =>
                             user'[y].cell # user'[w].cell
    BY <1>1, <1>14 DEF FillsArePrivate
  <2>1. w # u /\ Filling(w)
    BY <1>9 DEF Filling
  <2>2. /\ cells[user[w].cell] = user[w].known
        /\ \A x \in Keys : cached[x] # user[w].cell
        /\ \A g \in Files : Putting(g) => mem[g].cell # user[w].cell
        /\ \A y \in Users \ {w} : user[y].key # "" => user[y].cell # user[w].cell
    BY <2>1 DEF FillsArePrivate
  <2>3. user[w].cell # c
    BY <1>2, <1>3, <1>6, <2>1, <2>2
  <2>. QED BY <1>9, <1>10, <2>2, <2>3
<1>18. ReadersHoldCached'
  <2>. SUFFICES ASSUME NEW w \in Users, user'[w].op \in {"observe", "done"},
                       user[w].key \in Keys \ raced'
                PROVE  user[w].cell = cached'[user[w].key]
    BY <1>9 DEF ReadersHoldCached
  <2>1. CASE w = u
    BY <1>2, <1>3, <1>10, <2>1
  <2>2. CASE w # u
    <3>1. user[w].cell = cached[user[w].key]
      BY <1>9, <1>11, <2>2 DEF ReadersHoldCached
    <3>2. user[w].cell \in 1..Len(cells)
      BY <1>6, <1>7 DEF IsOwner
    <3>3. user[w].key # k
      BY <1>11, <3>1, <3>2 DEF None
    <3>. QED BY <1>10, <3>1, <3>3
  <2>. QED BY <2>1, <2>2
<1>19. OldCellsAreVisited'
  <2>. SUFFICES ASSUME NEW x \in Keys \ raced', cached'[x] # None, x \in DOMAIN values
                PROVE  cells[cached'[x]] = values[x] \/ \E g \in Files : WillRefresh(g, x)'
    BY <1>1 DEF OldCellsAreVisited
  <2>1. CASE x = k
    <3>1. values[k] = user[u].known
      BY <1>11, <2>1 DEF Current
    <3>2. cells[c] = user[u].known
      BY <1>1, <1>3 DEF FillsArePrivate
    <3>. QED BY <1>10, <2>1, <3>1, <3>2
  <2>2. CASE x # k
    <3>1. cached'[x] = cached[x] /\ x \notin raced
      BY <1>10, <1>11, <2>2
    <3>2. \A g \in Files : WillRefresh(g, x)' <=> WillRefresh(g, x)
      BY <1>1, <3>1 DEF WillRefresh, Putting
    <3>. QED BY <3>1, <3>2 DEF OldCellsAreVisited
  <2>. QED BY <2>1, <2>2
<1>20. ObserversKnow'
  <2>. SUFFICES ASSUME NEW x \in DOMAIN observers \ raced'
                PROVE  cached'[x] # None /\ observers[x] = cells[cached'[x]]
    BY <1>1 DEF ObserversKnow
  <2>1. x \in Keys
    BY DEF CellsTypeOK
  <2>2. cached[x] # None /\ observers[x] = cells[cached[x]]
    BY <1>11, <2>1 DEF ObserversKnow
  <2>. QED BY <1>10, <1>11, <2>1, <2>2
<1>. QED BY <1>12, <1>13, <1>15, <1>16, <1>17, <1>18, <1>19, <1>20

\* The observer is stored with what the caller read; if the cell changed the key is raced.
LEMMA ObserveCells ==
    ASSUME CellsInv, NEW u \in Users, Observe(u)
    PROVE  CellsInv'
<1>. USE DEF CellsInv
<1>1. /\ UNCHANGED <<values, cells, cached, pc, mem>> /\ user[u].op = "observe"
      /\ user' = [user EXCEPT ![u].op = "done"]
  BY DEF Observe, Quit
<1>2. PICK k : k = user[u].key
  OBVIOUS
<1>3. k \in Keys /\ k # ""
  BY <1>1, <1>2, ZConfigAssumption DEF CellsTypeOK
<1>4. /\ DOMAIN observers' = DOMAIN observers \cup {k} /\ observers'[k] = user[u].known
      /\ \A x \in DOMAIN observers : x # k => observers'[x] = observers[x]
  BY <1>2 DEF Observe, Over
<1>5. \A x \in Keys \ raced' : x \notin raced /\ (x = k => cells[user[u].cell] = user[u].known)
  BY <1>2 DEF Observe
<1>6. /\ DOMAIN user' = Users /\ user'[u].op = "done"
      /\ \A w \in Users :
            /\ user'[w] = [op |-> user'[w].op, key |-> user'[w].key,
                           cell |-> user'[w].cell, known |-> user'[w].known]
            /\ user'[w].key = user[w].key /\ user'[w].cell = user[w].cell
            /\ user'[w].known = user[w].known
      /\ \A w \in Users \ {u} : user'[w] = user[w]
  BY <1>1, WrittenUser
<1>7. \A g \in Files : /\ Putting(g)' <=> Putting(g)
                       /\ \A x \in Keys : WillRefresh(g, x)' <=> WillRefresh(g, x)
  BY <1>1 DEF Putting, WillRefresh
<1>8. CellsTypeOK'
  <2>1. \A w \in Users : /\ user'[w].op \in UserOps
                         /\ user'[w].key \in Keys \/ (user'[w].key = "" /\ ~Filling(w)')
                         /\ user'[w].op = "observe" => user'[w].key \in Keys
                         /\ user'[w].op = "idle" => user'[w].key = ""
    BY <1>2, <1>3, <1>6 DEF CellsTypeOK, UserOps, Filling
  <2>. QED BY <1>1, <1>3, <1>4, <1>6, <2>1 DEF CellsTypeOK
<1>9. NobodyBeforeLoad'
  <2>1. pc[Loader] = "done"
    BY <1>1 DEF NobodyBeforeLoad
  <2>. QED BY <1>1, <2>1 DEF NobodyBeforeLoad
<1>10. PICK owner \in [1..Len(cells) -> Keys] : IsOwner(owner)
  BY DEF CellsHaveOneKey
<1>11. CellsHaveOneKey'
  <2>1. \A w \in Users : user'[w].key # "" =>
           user'[w].cell \in 1..Len(cells) /\ owner[user'[w].cell] = user'[w].key
    BY <1>6, <1>10 DEF IsOwner
  <2>2. IsOwner(owner)'
    BY <1>1, <1>7, <1>10, <2>1 DEF IsOwner
  <2>. QED BY <1>1, <1>10, <2>2 DEF CellsHaveOneKey
<1>12. RangesVisitCached'
  BY <1>1 DEF RangesVisitCached, CachedKeys
<1>13. FillsArePrivate'
  <2>. SUFFICES ASSUME NEW w \in Users, Filling(w)'
                PROVE  /\ cells[user'[w].cell] = user'[w].known
                       /\ \A x \in Keys : cached[x] # user'[w].cell
                       /\ \A g \in Files : Putting(g) => mem[g].cell # user'[w].cell
                       /\ \A y \in Users \ {w} : user'[y].key # "" =>
                             user'[y].cell # user'[w].cell
    BY <1>1, <1>7 DEF FillsArePrivate
  <2>1. w # u /\ Filling(w)
    BY <1>6 DEF Filling
  <2>2. /\ cells[user[w].cell] = user[w].known
        /\ \A x \in Keys : cached[x] # user[w].cell
        /\ \A g \in Files : Putting(g) => mem[g].cell # user[w].cell
        /\ \A y \in Users \ {w} : user[y].key # "" => user[y].cell # user[w].cell
    BY <2>1 DEF FillsArePrivate
  <2>. QED BY <1>6, <2>2
<1>14. ReadersHoldCached'
  BY <1>1, <1>5, <1>6 DEF ReadersHoldCached
<1>15. OldCellsAreVisited'
  BY <1>1, <1>5, <1>7 DEF OldCellsAreVisited
<1>16. ObserversKnow'
  <2>. SUFFICES ASSUME NEW x \in DOMAIN observers', x \notin raced'
                PROVE  cached[x] # None /\ observers'[x] = cells[cached[x]]
    BY <1>1 DEF ObserversKnow
  <2>1. CASE x = k
    <3>1. user[u].cell = cached[k] /\ cells[user[u].cell] = user[u].known
      BY <1>1, <1>2, <1>3, <1>5, <2>1 DEF ReadersHoldCached
    <3>2. user[u].cell \in 1..Len(cells)
      BY <1>2, <1>3, <1>10 DEF IsOwner
    <3>. QED BY <1>4, <2>1, <3>1, <3>2 DEF None
  <2>2. CASE x # k
    <3>1. x \in DOMAIN observers /\ x \in Keys
      BY <1>4, <2>2 DEF CellsTypeOK
    <3>. QED BY <1>4, <1>5, <2>2, <3>1 DEF ObserversKnow
  <2>. QED BY <2>1, <2>2
<1>. QED BY <1>8, <1>9, <1>11, <1>12, <1>13, <1>14, <1>15, <1>16

----------------------------------------------------------------------------
(* The theorems on the cells.                                              *)

\* A cell serves one key for good, and one with an old value is about to be visited,
\* unless its key is raced (value.go, config.go Value, Watch and watch).
THEOREM CellsInductive == Spec => []CellsInv
<1>1. Init => CellsInv
  BY InitCells
<1>2. CellsInv /\ [Next]_vars => CellsInv'
  <2>. SUFFICES ASSUME CellsInv, [Next]_vars PROVE CellsInv'
    OBVIOUS
  <2>1. Loader \notin Files /\ Loader \in Goroutines /\ Files \subseteq Goroutines
    BY ZConfigAssumption DEF Goroutines
  <2>2. ASSUME Operators PROVE CellsInv'
    <3>1. UNCHANGED <<values, cells, cached, user, observers, raced, pc, mem>>
      BY <2>2 DEF Operators, Truncate, Rewrite, MoveAway, PutBack, Replace, Touch, app
    <3>. QED BY <3>1, StillIsCalm, CalmCells
  <2>3. ASSUME Load PROVE CellsInv'
    <3>1. ASSUME StoreMap(Loader, "watch") PROVE CellsInv'
      BY <2>1, <3>1, StoreMapCells
    <3>. QED BY <2>3, <3>1, LoadIsCalm, CalmCells DEF Load
  <2>4. ASSUME NEW f \in Files, Watcher(f) PROVE CellsInv'
    <3>1. ASSUME StoreMap(f, "range") PROVE CellsInv'
      BY <2>1, <3>1, StoreMapCells
    <3>. QED BY <2>4, <3>1, WatcherIsCalm, CalmCells, CompareCells, RefreshCells DEF Watcher
  <2>5. ASSUME NEW u \in Users, User(u) PROVE CellsInv'
    <3>1. ASSUME NEW ask \in Asks, Value(u, ask[3], ask[2]) PROVE CellsInv'
      <4>1. ask[3] \in Keys /\ ask[2] \in {"value", "watch"}
        BY ZConfigAssumption
      <4>. QED BY <3>1, <4>1, ValueCells
    <3>. QED BY <2>5, <3>1, FillCells, ObserveCells DEF User
  <2>6. ASSUME UNCHANGED vars PROVE CellsInv'
    <3>1. UNCHANGED <<values, cells, cached, user, observers, raced, pc, mem>>
      BY <2>6 DEF vars
    <3>. QED BY <3>1, StillIsCalm, CalmCells
  <2>. QED BY <2>2, <2>3, <2>4, <2>5, <2>6 DEF Next, Close
<1>. QED BY <1>1, <1>2, PTL DEF Spec

\* At rest the cached cell of a key that is not raced holds the reader's value, and
\* everybody who called Value has that cell (config.go Value, watch).
THEOREM CellsFollow == Spec => []CellsAreFresh
<1>1. CellsInv => CellsAreFresh
  <2>. SUFFICES ASSUME CellsInv, Quiet, NEW k \in Keys \ raced
                PROVE  /\ cached[k] # None /\ k \in DOMAIN values => cells[cached[k]] = values[k]
                       /\ \A u \in Users : user[u].op = "done" /\ user[u].key = k =>
                             user[u].cell = cached[k]
    BY DEF CellsAreFresh
  <2>1. \A f \in Files : pc[f] \in {"off", "next"}
    BY DEF Quiet
  <2>2. \A f \in Files : ~WillRefresh(f, k)
    BY <2>1 DEF WillRefresh, Putting
  <2>. QED BY <2>2 DEF CellsInv, OldCellsAreVisited, ReadersHoldCached
<1>. QED BY <1>1, CellsInductive, PTL

\* An observer was told of what the cell of its key holds (config.go Watch, watch).
THEOREM ObserversFollow == Spec => []ObserversAreTold
<1>1. CellsInv => ObserversAreTold
  BY DEF CellsInv, ObserversKnow, ObserversAreTold
<1>. QED BY <1>1, CellsInductive, PTL
============================================================================
