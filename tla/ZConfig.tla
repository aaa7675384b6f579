------------------------------ MODULE ZConfig ------------------------------
(***************************************************************************)
(* pkg/zconfig/config and its file source: the merged configuration, the   *)
(* goroutine that watches each file, the cached value cells a program      *)
(* holds, and its observers.                                               *)
(*                                                                         *)
(* Outside: operators rewrite, move away or replace the files, and the     *)
(* kernel tells fsnotify.  A file is Torn between a truncation and the     *)
(* write that follows it, and then does not decode.                        *)
(*                                                                         *)
(* A key is the dotted path of a leaf; a value is an integer, a string or  *)
(* a placeholder ${to:or}.  Nothing here takes a lock.                     *)
(***************************************************************************)
EXTENDS Naturals, Sequences, FiniteSets, SequencesExt

CONSTANTS
    Sources,    \* the files, in the order of WithSource
    Contents,   \* [file -> the contents operators write, functions of keys]
    Users,      \* goroutines that call Value and Watch
    Asks,       \* the calls they make: <<user, "value" or "watch", key>>
    MaxChanges  \* how often operators touch the files (a model bound)

Files == ToSet(Sources)
Keys == UNION {DOMAIN c : c \in UNION {Contents[f] : f \in Files}}
\* What is at the path instead of a content, as functions to compare with one.
Torn == [torn |-> 0]
Absent == [absent |-> 0]
Loader == "loader"
None == 0

\* The sources have no key in common, so "the file that sets a key" is one.
ASSUME SourcesAreDisjoint ==
    \A f, g \in Files : \A c \in Contents[f], d \in Contents[g] :
        f # g => DOMAIN c \cap DOMAIN d = {}

\* A program names at least one file, none twice, and no goroutine but Load's is
\* called Loader.  Torn and Absent are no contents.  Keys are not empty, and those
\* asked for are in some file.
ASSUME ZConfigAssumption ==
    /\ Sources \in Seq(Files) /\ Sources # <<>> /\ IsInjective(Sources)
    /\ Loader \notin Files
    /\ \A f \in Files : Torn \notin Contents[f] /\ Absent \notin Contents[f]
    /\ "" \notin Keys
    /\ Asks \subseteq Users \X {"value", "watch"} \X Keys

VARIABLES
    file,       \* [file -> a content, Torn or Absent]
    events,     \* [file -> fsnotify operations not read yet]
    watched,    \* [file -> the kernel watches what is at the path]
    changes,    \* how often the files were touched
    values,     \* reader.values
    cells,      \* every atomicValue made, by number
    cached,     \* config.cached: [key -> a cell]
    observers,  \* config.observers: [key -> what the observer was last told]
    pc,         \* [file or Loader -> where its goroutine is]
    mem,        \* what that goroutine read and has not written yet
    loading,    \* the source Load is at
    user,       \* [user -> what it does, with which cell]
    crashed,    \* a Store of another dynamic type panicked
    \* Kept for the properties only:
    lost,       \* a merge overwrote another that its clone had not seen
    missed,     \* files touched between their Load and their Watch
    raced       \* keys of which a goroutine wrote what it read too early

disk == <<file, events, watched, changes>>
app == <<user, observers>>
vars == <<file, events, watched, changes, values, cells, cached, observers,
          pc, mem, loading, user, crashed, lost, missed, raced>>

----------------------------------------------------------------------------
(* Values and the resolver.                                                *)

Number(n) == [t |-> "int", n |-> n, to |-> "", or |-> 0]
Text(n) == [t |-> "string", n |-> n, to |-> "", or |-> 0]
Placeholder(k, or) == [t |-> "ref", n |-> 0, to |-> k, or |-> or]
\* A placeholder is a string until it is resolved.
TypeOf(v) == IF v.t = "int" THEN "int" ELSE "string"
String(v) == IF v.t = "int" THEN Text(v.n) ELSE v

\* os.Expand is not repeated: a placeholder may expand to another one.
Expand(m, v) ==
    IF v.t # "ref" THEN v
    ELSE IF v.to \in DOMAIN m THEN String(m[v.to]) ELSE Text(v.or)

\* The resolver walks a Go map, in any order, and changes it as it goes: a
\* placeholder reads, of those it comes after, what they were expanded to.
Resolved(m) ==
    LET refs == {k \in DOMAIN m : m[k].t = "ref"}
        results == UNION {{m[k], String(m[k]), Text(m[k].or)} : k \in DOMAIN m}
        Before(r, at, k) == [l \in DOMAIN m |-> IF l \in refs /\ at[l] < at[k]
                                               THEN r[l] ELSE m[l]]
    IN  {r \in [DOMAIN m -> results] :
            \E at \in Injection(refs, 1..Cardinality(refs)) :
                \A k \in DOMAIN m : r[k] = Expand(Before(r, at, k), m[k])}

\* mergo.Map with override
Over(new, old) ==
    [k \in DOMAIN new \cup DOMAIN old |-> IF k \in DOMAIN new THEN new[k] ELSE old[k]]

MergedWithoutOverride(kv) == Resolved(Over(values, kv))
\* Values of the file win over the ones merged before; no key is removed.
Merged(kv) == Resolved(Over(kv, values))

----------------------------------------------------------------------------
Nothing == [kv |-> Absent, map |-> <<>>, base |-> <<>>, todo |-> {}, key |-> "",
            cell |-> None, new |-> Number(0)]
Idle == [op |-> "idle", key |-> "", cell |-> None, known |-> Number(0)]

Init ==
    /\ file \in {f \in [Files -> UNION {Contents[g] : g \in Files}] :
                    \A g \in Files : f[g] \in Contents[g]}
    /\ events = [f \in Files |-> <<>>]
    /\ watched = [f \in Files |-> FALSE]
    /\ changes = 0
    /\ values = <<>>
    /\ cells = <<>>
    /\ cached = [k \in Keys |-> None]
    /\ observers = <<>>
    /\ pc = [p \in Files \cup {Loader} |-> IF p = Loader THEN "load" ELSE "off"]
    /\ mem = [p \in Files \cup {Loader} |-> Nothing]
    /\ loading = 1
    /\ user = [u \in Users |-> Idle]
    /\ crashed = FALSE
    /\ lost = FALSE
    /\ missed = {}
    /\ raced = {}

\* reader.Value, or a value that no key has; a lost merge can drop a key.
Current(k) == IF k \in DOMAIN values THEN values[k] ELSE Placeholder("", 0)
Go(p, to) == pc' = [pc EXCEPT ![p] = to]
\* The process is gone after a panic.
Up == ~crashed

----------------------------------------------------------------------------
(* Outside: operators and the kernel.                                      *)

Touch(f, content, ops, stays) ==
    /\ Up
    /\ changes < MaxChanges
    /\ changes' = changes + 1
    /\ file' = [file EXCEPT ![f] = content]
    /\ events' = [events EXCEPT ![f] = IF watched[f] THEN @ \o ops ELSE @]
    /\ watched' = [watched EXCEPT ![f] = @ /\ stays]
    /\ missed' = IF Sources[loading] = f /\ pc[Loader] \in {"merge", "store", "watch"}
                 THEN missed \cup {f} ELSE missed
    /\ UNCHANGED <<values, cells, cached, pc, mem, loading, app, crashed, lost, raced>>

Truncate(f) == file[f] \notin {Torn, Absent} /\ Touch(f, Torn, <<"write">>, TRUE)
Rewrite(f) == file[f] = Torn /\ \E c \in Contents[f] : Touch(f, c, <<"write">>, TRUE)
MoveAway(f) == file[f] # Absent /\ Touch(f, Absent, <<"rename">>, FALSE)
PutBack(f) == file[f] = Absent /\ \E c \in Contents[f] : Touch(f, c, <<>>, FALSE)
\* rename(2) of a new file over the old one: the watched inode is gone.
Replace(f) ==
    /\ file[f] # Absent
    /\ \E c \in Contents[f] \ {file[f]} : Touch(f, c, <<"remove">>, FALSE)

----------------------------------------------------------------------------
(* Merge: clone the values, decode and resolve, then replace the map.      *)

Merge(p, otherwise) ==
    /\ Up
    /\ pc[p] = "merge"
    /\ IF mem[p].kv = Torn
       THEN Go(p, otherwise) /\ UNCHANGED mem
       ELSE /\ \E m \in Merged(mem[p].kv) :
                 mem' = [mem EXCEPT ![p] = [@ EXCEPT !.map = m, !.base = values]]
            /\ Go(p, "store")
    /\ UNCHANGED <<disk, values, cells, cached, loading, app, crashed, lost, missed, raced>>

\* The keys that cached.Range visits.
ObservedOnly == {k \in Keys : cached[k] # None /\ k \in DOMAIN observers}
CachedKeys == {k \in Keys : cached[k] # None}

StoreMap(p, next) ==
    /\ Up
    /\ pc[p] = "store"
    /\ values' = mem[p].map
    /\ lost' = (lost \/ values # mem[p].base)
    /\ mem' = [mem EXCEPT ![p] = [Nothing EXCEPT !.todo = CachedKeys]]
    /\ Go(p, next)
    /\ UNCHANGED <<disk, cells, cached, loading, app, crashed, missed, raced>>

----------------------------------------------------------------------------
(* Load, in the goroutine that starts the program.                         *)

LoadFile ==
    /\ Up
    /\ pc[Loader] = "load"
    /\ IF file[Sources[loading]] = Absent
       THEN Go(Loader, "failed") /\ UNCHANGED mem
       ELSE /\ mem' = [mem EXCEPT ![Loader] = [Nothing EXCEPT !.kv = file[Sources[loading]]]]
            /\ Go(Loader, "merge")
    /\ UNCHANGED <<disk, values, cells, cached, loading, app, crashed, lost, missed, raced>>

\* newWatcher and `go c.watch(w)`; adding a watch fails if there is no file.
WatchFile ==
    /\ Up
    /\ pc[Loader] = "watch"
    /\ LET f == Sources[loading]
           last == loading = Len(Sources) IN
       IF file[f] = Absent
       THEN Go(Loader, "failed") /\ UNCHANGED <<watched, loading>>
       ELSE /\ watched' = [watched EXCEPT ![f] = TRUE]
            /\ pc' = [pc EXCEPT ![f] = "next", ![Loader] = IF last THEN "done" ELSE "load"]
            /\ loading' = IF last THEN loading ELSE loading + 1
    /\ UNCHANGED <<file, events, changes, values, cells, cached, mem, app, crashed,
                   lost, missed, raced>>

Load ==
    \/ LoadFile
    \/ Merge(Loader, "failed")
    \/ StoreMap(Loader, "watch")
    \/ WatchFile

----------------------------------------------------------------------------
(* watch, one goroutine per file.                                          *)

\* Next: an event, then the file as it is by now.
Next_(f) ==
    /\ Up
    /\ pc[f] = "next"
    /\ events[f] # <<>>
    /\ events' = [events EXCEPT ![f] = Tail(@)]
    /\ watched' = [watched EXCEPT ![f] = @ \/ (Head(events[f]) = "rename" /\ file[f] # Absent)]
    /\ IF file[f] = Absent
       THEN Go(f, "sleep") /\ UNCHANGED mem
       ELSE /\ mem' = [mem EXCEPT ![f] = [Nothing EXCEPT !.kv = file[f]]]
            /\ Go(f, "merge")
    /\ UNCHANGED <<file, changes, values, cells, cached, loading, app, crashed,
                   lost, missed, raced>>

WakeWhenBack(f) ==
    /\ Up
    /\ pc[f] = "sleep"
    /\ Go(f, IF file[f] = Absent THEN "sleep" ELSE "next")
    /\ UNCHANGED <<disk, values, cells, cached, mem, loading, app, crashed, lost, missed, raced>>

Wake(f) ==
    /\ Up
    /\ pc[f] = "sleep"
    /\ Go(f, "next")
    /\ UNCHANGED <<disk, values, cells, cached, mem, loading, app, crashed, lost, missed, raced>>

\* Range over the cached values: compare one with the reader's value.
Compare(f) ==
    /\ Up
    /\ pc[f] = "range"
    /\ \E k \in mem[f].todo \cap DOMAIN values :
         LET rest == mem[f].todo \ {k} IN
         IF values[k] = cells[cached[k]]
         THEN /\ mem' = [mem EXCEPT ![f].todo = rest]
              /\ UNCHANGED pc
         ELSE /\ mem' = [mem EXCEPT ![f] = [@ EXCEPT !.todo = rest, !.key = k,
                                                      !.cell = cached[k], !.new = values[k]]]
              /\ Go(f, "put")
    /\ UNCHANGED <<disk, values, cells, cached, loading, app, crashed, lost, missed, raced>>

\* What an observer of the key knows after the refresh m.
ToldBefore(m) == [k \in DOMAIN observers |-> IF k = m.key THEN cells[m.cell] ELSE observers[k]]
Told(m) == [k \in DOMAIN observers |-> IF k = m.key THEN m.new ELSE observers[k]]

\* Store the value and call the observer; atomic.Value panics on another type.
Refresh(f) ==
    /\ Up
    /\ pc[f] = "put"
    /\ LET m == mem[f] IN
       IF TypeOf(cells[m.cell]) # TypeOf(m.new)
       THEN crashed' = TRUE /\ UNCHANGED <<cells, observers, pc, raced>>
       ELSE /\ cells' = [cells EXCEPT ![m.cell] = m.new]
            /\ observers' = Told(m)
            /\ raced' = IF Current(m.key) # m.new \/ cached[m.key] # m.cell
                        THEN raced \cup {m.key} ELSE raced
            /\ Go(f, "range")
            /\ UNCHANGED crashed
    /\ UNCHANGED <<disk, values, cached, mem, loading, user, lost, missed>>

EndRange(f) ==
    /\ Up
    /\ pc[f] = "range"
    /\ mem[f].todo \cap DOMAIN values = {}
    /\ Go(f, "next")
    /\ mem' = [mem EXCEPT ![f] = Nothing]
    /\ UNCHANGED <<disk, values, cells, cached, loading, app, crashed, lost, missed, raced>>

Watcher(f) ==
    \/ Next_(f)
    \/ Wake(f)
    \/ Merge(f, "next")
    \/ StoreMap(f, "range")
    \/ Compare(f)
    \/ Refresh(f)
    \/ EndRange(f)

----------------------------------------------------------------------------
(* Value(key) and Watch(key, observer), called once Load has returned.     *)

Quit(u) == user' = [user EXCEPT ![u].op = "done"]

\* cached.Load, or reader.Value and a cell of its own.
Value(u, k, op) ==
    /\ Up
    /\ pc[Loader] = "done"
    /\ user[u].op = "idle"
    /\ IF cached[k] # None
       THEN /\ user' = [user EXCEPT ![u] =
                 [op |-> IF op = "watch" THEN "observe" ELSE "done", key |-> k,
                  cell |-> cached[k], known |-> cells[cached[k]]]]
            /\ UNCHANGED cells
       ELSE IF k \in DOMAIN values
       THEN /\ cells' = Append(cells, values[k])
            /\ user' = [user EXCEPT ![u] =
                 [op |-> IF op = "watch" THEN "fillwatch" ELSE "fill", key |-> k,
                  cell |-> Len(cells'), known |-> values[k]]]
       ELSE Quit(u) /\ UNCHANGED cells      \* ErrNotFound
    /\ UNCHANGED <<disk, values, cached, pc, mem, loading, observers, crashed, lost, missed, raced>>

\* cached.Store
Fill(u) ==
    /\ Up
    /\ user[u].op \in {"fill", "fillwatch"}
    /\ LET k == user[u].key
           late == cached[k] # None \/ Current(k) # user[u].known IN
       /\ cached' = [cached EXCEPT ![k] = user[u].cell]
       /\ raced' = IF late THEN raced \cup {k} ELSE raced
    /\ user' = [user EXCEPT ![u].op = IF @ = "fill" THEN "done" ELSE "observe"]
    /\ UNCHANGED <<disk, values, cells, pc, mem, loading, observers, crashed, lost, missed>>

\* observers.Store; the caller goes on with the value it read before.
Observe(u) ==
    /\ Up
    /\ user[u].op = "observe"
    /\ LET k == user[u].key IN
       /\ observers' = Over([x \in {k} |-> user[u].known], observers)
       /\ raced' = IF cells[user[u].cell] # user[u].known THEN raced \cup {k} ELSE raced
    /\ Quit(u)
    /\ UNCHANGED <<disk, values, cells, cached, pc, mem, loading, crashed, lost, missed>>

User(u) ==
    \/ \E ask \in {a \in Asks : a[1] = u} : Value(u, ask[3], ask[2])
    \/ Fill(u)
    \/ Observe(u)

----------------------------------------------------------------------------
Operators ==
    \E f \in Files : Truncate(f) \/ Rewrite(f) \/ MoveAway(f) \/ PutBack(f) \/ Replace(f)

\* Watchers never return, and Close stops none of them: watchers is empty.
Quiet ==
    /\ pc[Loader] \in {"done", "failed"}
    /\ \A f \in Files : pc[f] = "off" \/ (pc[f] = "next" /\ events[f] = <<>>)
    /\ \A u \in Users : user[u].op \in {"idle", "done"}

Close == (Quiet \/ crashed) /\ UNCHANGED vars

Next ==
    \/ Operators
    \/ Load
    \/ \E f \in Files : Watcher(f)
    \/ \E u \in Users : User(u)
    \/ Close

Spec ==
    /\ Init
    /\ [][Next]_vars
    /\ WF_vars(Load)
    /\ \A f \in Files : WF_vars(Watcher(f))
    /\ \A u \in Users : WF_vars(Fill(u)) /\ WF_vars(Observe(u))

----------------------------------------------------------------------------
(* Properties.                                                             *)

\* What a file says of a key is what the program reads, once everything came
\* to rest, for a file whose watch survived: config.watch reads the file
\* after the event, so a torn read is repaired by the event of the write that
\* follows.  It fails for a merge that overwrote another (reader.Merge clones
\* and stores without a lock), and for a file changed between Load and Watch.
FilesAreFollowed ==
    Quiet /\ ~lost =>
        \A f \in {g \in Files : watched[g] /\ g \notin missed /\ file[g] # Torn} :
            \A k \in DOMAIN file[f] :
                /\ k \in DOMAIN values
                /\ file[f][k].t # "ref" => values[k] = file[f][k]

\* At rest a cached cell holds the reader's value and every caller of Value
\* holds the cached cell, unless a goroutine wrote what it had read too early
\* (Value's read and cached.Store, watch's read and v.Store).
CellsAreFresh ==
    Quiet => \A k \in Keys \ raced :
        /\ cached[k] # None /\ k \in DOMAIN values => cells[cached[k]] = values[k]
        /\ \A u \in Users : user[u].op = "done" /\ user[u].key = k => user[u].cell = cached[k]

\* At rest an observer was told of the value its key has: it is called for
\* every change of the cell after Watch registered it.
ObserversAreTold ==
    Quiet => \A k \in DOMAIN observers \ raced : observers[k] = cells[cached[k]]

\* Operators stop, and every goroutine comes to rest: a watcher that failed to
\* read a file sleeps and goes on, and a refresh ends.
ComesToRest == <>[](Quiet \/ crashed)
============================================================================
