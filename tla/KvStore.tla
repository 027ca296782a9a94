-------------------------------- MODULE KvStore --------------------------------
(***************************************************************************)
(* The operations of MapReduce objects on their key/value stores, on one   *)
(* process (mapreduce.cpp): map, map over another object's pairs, add,     *)
(* copy, open and close, scan, print, the sorts, and the settings and      *)
(* destructor.  Several objects live in one program; each has its own pool *)
(* of pages.  want[m] is what the manual says the store of m holds.  An    *)
(* operation that makes a key/value store deletes the object's             *)
(* key/multivalue store; KmvStore has the operations on that one.          *)
(***************************************************************************)
EXTENDS MapReduceObject

CONSTANTS Mrs,          \* MapReduce objects
          Batches,      \* what the callbacks of one map may emit, in order
          Keys, Numbers, \* keys and values of the pairs
          FreePages,    \* values of the setting freepage
          OutOfCores,   \* values of the setting outofcore a program starts with
          Settings,     \* values outofcore may be changed to later
          Strides,      \* values of print's nstride
          MaxPairs,     \* bound: pairs in one store
          MaxCalls      \* bound: library calls in one program

ASSUME StoreAssumption ==
  /\ Keys \subseteq Nat /\ Numbers \subseteq Nat /\ Batches \subseteq Seq(Keys \X Numbers)
  /\ FreePages \subseteq BOOLEAN /\ OutOfCores \subseteq {-1, 0, 1} /\ Settings \subseteq {-1, 0, 1}
  /\ Strides \subseteq Nat \ {0} /\ MaxPairs \in Nat /\ MaxCalls \in Nat

VARIABLES w,            \* the process: pools, memory, stores, files
          want,         \* [Mrs -> the pairs the store of an object is to hold]
          open,         \* objects between open() and close()
          leaked,       \* [Mrs -> pages that calls have requested and not given back]
          last,         \* the last call: [op, mr, peak: of the object's pool, out: pairs handed out]
          calls,
          exposed       \* history: objects sent out of core with a store in memory, until it is complete on file

\* A name no object has: copy() makes it one.
Fresh(m) == ~Live(w, m) /\ ~w.kv[Kmv(m)].live /\ w.mem[m] = NoPages

\* The store an object has.  It is gone when it has neither a page nor a file: its page
\* was freed because outofcore says that the pairs are on disk.  A call that reads such a
\* store gets what its next page happens to hold, and is not modelled.
StoreOf(v, m) == IF v.kv[Kmv(m)].live THEN v.kv[Kmv(m)] ELSE v.kv[Kv(m)]
Gone(v, m) == StoreOf(v, m).live /\ StoreOf(v, m).page = Null /\ ~StoreOf(v, m).fileflag
Holds(m) == Live(w, m) /\ ~Gone(w, m)
Appends(m, addflag) == addflag => ~(Live(w, m) /\ Gone(w, m))

Exposed ==
  LET told == {m \in Mrs : w'.ooc[m] = 1 /\ w.ooc[m] # 1 /\ StoreOf(w, m).live}
      Still(m, k) == k.live /\ IF k.fileflag THEN k.fsize = 0 ELSE w'.ooc[m] = 1 \/ Gone(w', m)
  IN  {m \in exposed \union told : Still(m, StoreOf(w', m))}

\* A library call that leaves the process in v; m's pool reached its peak in it.
CalledFor(op, m, v, out) ==
  /\ calls < MaxCalls /\ w.error = ""
  /\ calls' = calls + 1
  /\ last' = [op |-> op, mr |-> m, peak |-> v.mem[m].hiwater, out |-> out]
  /\ w' = Settle(v)
Called(op, m, v) == CalledFor(op, m, v, <<>>)

\* A call of m that is to leave pairs in its store; m frees the pages it can.
Call(op, m, v, pairs) ==
  /\ Called(op, m, Cleanup(v, m))
  /\ want' = [want EXCEPT ![m] = pairs]
  /\ Len(pairs) <= MaxPairs

-----------------------------------------------------------------------------
Init ==
  /\ \E free \in FreePages, value \in OutOfCores : w = NewProcess(Mrs, free, value)
  /\ want = [m \in Mrs |-> <<>>] /\ open = {}
  /\ leaked = [m \in Mrs |-> 0] /\ last = [op |-> "start", mr |-> "", peak |-> 0, out |-> <<>>] /\ calls = 0
  /\ exposed = {}

Kept(m, addflag) == IF addflag THEN want[m] ELSE <<>>

\* map(nmap, ...): the callbacks of the tasks of this process emit batch, and into the
\* store of an object that is open as well.
Map(m) ==
  /\ m \notin open
  /\ \E addflag \in BOOLEAN, batch \in Batches :
       /\ Appends(m, addflag)
       /\ Call("map", m, CompleteStore(AddPairs(Prepared(w, m, addflag), Kv(m), batch), Kv(m)),
               Kept(m, addflag) \o batch)
  /\ UNCHANGED <<open, leaked>>

MapInto(m, other) ==
  /\ m \notin open /\ other \in open
  /\ \E batch \in Batches :
       LET v == AddPairs(AddPairs(Prepared(w, m, FALSE), Kv(m), batch), Kv(other), batch) IN
       /\ Called("map", m, Cleanup(CompleteStore(v, Kv(m)), m))
       /\ want' = [want EXCEPT ![m] = batch, ![other] = @ \o batch]
       /\ Len(want'[other]) <= MaxPairs
  /\ UNCHANGED <<open, leaked>>

\* map(mr): the callback emits each pair of the source again.
EmitAgain(v, from, to) ==
  LET PerPage(u, i) == LET r == RequestPage(u, from, i) IN AddPairs(r, to, PairsIn(r, from, i))
  IN  FoldLeft(PerPage, v, [i \in 1..Len(v.kv[from].pages) |-> i])

MapMr(m, src) ==
  /\ m # src /\ m \notin open /\ src \notin open /\ Holds(src)
  /\ \E addflag \in BOOLEAN : Appends(m, addflag) /\
       LET filled == EmitAgain(Prepared(Allocate(w, Kv(src)), m, addflag), Kv(src), Kv(m))
       IN  Call("map", m, CompleteStore(Deallocate(filled, Kv(src), FALSE), Kv(m)),
                Kept(m, addflag) \o want[src])
  /\ UNCHANGED <<open, leaked>>

\* map(this): into a new store, or with addflag into an appended copy of the old one.  Of
\* a store of several pages the copy is appended to behind its last page but one, over
\* pairs of the last: that call is not modelled.
MapSelf(m) ==
  /\ m \notin open /\ Holds(m)
  /\ \E addflag \in BOOLEAN : (addflag => Len(w.kv[Kv(m)].pages) = 1) /\
       LET new    == CreateStore(Allocate(w, Kv(m)), Dest(m))
           dest   == IF addflag THEN AppendStore(CopyStore(new, Dest(m), Kv(m)), Dest(m)) ELSE new
           filled == EmitAgain(dest, Kv(m), Dest(m))
       IN  Call("map", m, CompleteStore(MoveDest(DeleteStore(filled, Kv(m)), m), Kv(m)),
                Kept(m, addflag) \o want[m])
  /\ UNCHANGED <<open, leaked>>

Add(m, src) ==
  /\ m # src /\ m \notin open /\ src \notin open /\ Holds(src) /\ Appends(m, TRUE)
  /\ LET added == AddStore(Allocate(Prepared(w, m, TRUE), Kv(src)), Kv(m), Kv(src))
     IN  Call("add", m, CompleteStore(Deallocate(added, Kv(src), FALSE), Kv(m)), want[m] \o want[src])
  /\ UNCHANGED <<open, leaked>>

\* copy(): a new object with the settings and the pairs of m.
Copy(m, to) ==
  /\ m # to /\ m \notin open /\ Holds(m) /\ Fresh(to)
  /\ LET made   == CreateStore([Allocate(w, Kv(m)) EXCEPT !.ooc[to] = w.ooc[m]], Kv(to))
         copied == CompleteStore(CopyStore(made, Kv(to), Kv(m)), Kv(to))
     IN  Called("copy", to, Cleanup(Deallocate(copied, Kv(m), FALSE), m))
  /\ want' = [want EXCEPT ![to] = want[m]]
  /\ UNCHANGED <<open, leaked>>

Open(m) ==
  /\ m \notin open /\ open' = open \union {m}
  /\ \E addflag \in BOOLEAN : Appends(m, addflag) /\ Call("open", m, Prepared(w, m, addflag), Kept(m, addflag))
  /\ UNCHANGED leaked

Close(m) ==
  /\ m \in open /\ open' = open \ {m}
  /\ Call("close", m, CompleteStore(w, Kv(m)), want[m])
  /\ UNCHANGED leaked

\* scan(kv): reads every page and gives the page back.
Scan(m) ==
  /\ m \notin open /\ Holds(m)
  /\ LET Done(read) == CalledFor("scan", m, Cleanup(Deallocate(read.w, Kv(m), FALSE), m), read.pairs)
     IN  Done(Contents(w, Kv(m)))
  /\ UNCHANGED <<want, open, leaked>>

\* print of a key/value store: each nstride-th pair.
EveryNth(seq, n) == [i \in 1..(Len(seq) \div n) |-> seq[i * n]]
PrintKv(m) ==
  /\ m \notin open /\ Holds(m)
  /\ \E nstride \in Strides :
       LET read == Contents(w, Kv(m)) IN
       CalledFor("print", m, Deallocate(read.w, Kv(m), FALSE), EveryNth(read.pairs, nstride))
  /\ UNCHANGED <<want, open, leaked>>

\* sort_keys and sort_values; the order of equal entries is whatever comes out.
Sort(m, by) ==
  /\ m \notin open /\ Holds(m)
  /\ LET Done(v) == Call(<<"sort_keys", "sort_values">>[by], m, v, Contents(v, Kv(m)).pairs)
     IN  Done(SortKv(w, Kv(m), by))
  /\ leaked' = [leaked EXCEPT ![m] = @ + IF Len(w.kv[Kv(m)].pages) > 1 THEN 1 ELSE 0]
  /\ UNCHANGED open

\* A setting may be changed at any time.
SetOutOfCore(m) ==
  /\ \E value \in Settings \ {w.ooc[m]} : Called("set", m, [w EXCEPT !.ooc[m] = value])
  /\ UNCHANGED <<want, open, leaked>>

\* The destructor frees the store, the file and every page of the pool.
Destroy(m) ==
  /\ w.mem[m] # NoPages /\ m \notin open
  /\ Call("delete", m, [DeleteKmv(DeleteStore(w, Kv(m)), m) EXCEPT !.mem[m] = NoPages], <<>>)
  /\ leaked' = [leaked EXCEPT ![m] = 0]
  /\ UNCHANGED open

KvCalls ==
  \/ \E m \in Mrs : Map(m) \/ MapSelf(m) \/ Open(m) \/ Close(m) \/ Scan(m) \/ PrintKv(m)
                    \/ Sort(m, 1) \/ Sort(m, 2) \/ SetOutOfCore(m) \/ Destroy(m)
  \/ \E m, other \in Mrs : MapInto(m, other) \/ MapMr(m, other) \/ Add(m, other) \/ Copy(m, other)

=============================================================================
